---------------------------- MODULE DelegationProofs ----------------------------
(***************************************************************************)
(* Proofs about what an administrator delegates: to OAuth clients by the   *)
(* grants of AuthServer, to agents by the tools of AdminMcp (within        *)
(* Administration, beside the web console).  For any number of clients,    *)
(* grants, scopes, calls in flight, turns and ids, for any lifetimes and   *)
(* whatever an agent sends in place of an id.                              *)
(*                                                                         *)
(* AuthServer.  Most actions only take rows away (ShrinkStep).  The others *)
(* write one row: a request of a grant that was never asked for (AskStep), *)
(* or one that takes the place of another row of its grant (ReplaceStep).  *)
(***************************************************************************)
EXTENDS AuthServer, Administration, SequenceTheorems, TLAPS

OnePerGrant == \A one, other \in rows : one.grant = other.grant => one = other

\* Turns are counted from the redemption of a code.
Unredeemed ==
    /\ \A g \in Grants : g \notin drawn => turns[g] = 0
    /\ \A row \in rows : row.in # "tokens" => row.turn = 0 /\ turns[row.grant] = 0

\* What the administrator approved stands behind a row: a code is of the age of the approval,
\* tokens were issued while the code, and later the grant, was good.
Backs(ok, row) ==
    /\ ok.grant = row.grant /\ ok.client = row.client /\ ok.resource = row.resource
    /\ row.scopes \subseteq ok.scopes
    /\ row.in = "codes" => row.created = ok.at /\ row.expires = row.created + CodeTTL
    /\ row.in = "tokens" => /\ row.created <= ok.at + CodeTTL
                            /\ row.expires <= row.created + RefreshTTL + AccessTTL

Approved(row, approvals) == row.in # "requests" => \E ok \in approvals : Backs(ok, row)

RowsApproved == \A row \in rows : Approved(row, consent)

\* A handler that has begun has a client.
Handler == {h \in [at : {"idle", "fill", "known", "challenged"},
                   client : Clients \cup {Nobody}, grant : SUBSET Grants] :
               h.at # "idle" => h.client \in Clients}
HandlersKnow == calls \in [Calls -> Handler]

IInv == TypeOK /\ HandlersKnow /\ OnePerGrant /\ RevokedTokensDie /\ Unredeemed /\ RowsApproved

ClientRow == [at : {"none", "row", "gone"}, since : 0..MaxTime, used : BOOLEAN]
Consents == [grant : Grants, client : Clients, resource : Resources, scopes : SUBSET Scopes,
             at : 0..MaxTime]

-----------------------------------------------------------------------------
(***************************************************************************)
(* The initial states.                                                     *)
(***************************************************************************)
LEMMA InitInvariant == Init => IInv
<1> SUFFICES ASSUME Init
             PROVE  IInv
  OBVIOUS
<1>1. MaxTime \in Nat /\ MaxTurns \in Nat
  BY AuthServerAssumption
<1>2. TypeOK
  BY <1>1 DEF Init, TypeOK, NoRow, Idle
<1> QED
  BY <1>2 DEF Init, IInv, HandlersKnow, Handler, Idle, OnePerGrant, RevokedTokensDie, Unredeemed, RowsApproved

-----------------------------------------------------------------------------
(***************************************************************************)
(* The kinds of steps.                                                     *)
(***************************************************************************)
\* Rows go, and no client goes whose row stays.
Shrinks ==
    /\ rows' \subseteq rows
    /\ UNCHANGED <<turns, drawn, consent>>
    /\ \A row \in rows' : Registered(row.client) => Registered(row.client)'

\* A request is written for a grant that was never asked for.
Asks(g) ==
    /\ g \in Grants \ drawn /\ drawn' = drawn \cup {g}
    /\ UNCHANGED <<turns, consent>>
    /\ \E request \in rows' :
          /\ request.in = "requests" /\ request.grant = g /\ request.turn = 0
          /\ Registered(request.client)'
          /\ rows' \ {request} \subseteq rows
    /\ \A row \in rows' : Registered(row.client) => Registered(row.client)'

\* A row takes the place of one of its grant: the code that of the request, the next tokens
\* that of the code or of the tokens before.
Replaces(row, new) ==
    /\ row \in rows /\ rows' = (rows \ {row}) \cup {new}
    /\ new.grant = row.grant /\ new.client = row.client /\ new.resource = row.resource
    /\ drawn' = drawn /\ consent \subseteq consent'
    /\ \A c \in Clients : Registered(c) => Registered(c)'
    /\ Approved(new, consent')
    /\ \/ /\ row.in = "requests" /\ new.in = "codes"
          /\ new.turn = row.turn /\ new.scopes = row.scopes /\ turns' = turns
       \/ /\ row.in # "requests" /\ new.in = "tokens"
          /\ new.turn = turns[row.grant] + 1 /\ new.scopes \subseteq row.scopes
          /\ row.in = "codes" => new.scopes = row.scopes
          /\ row.in = "tokens" => new.created = row.created
          /\ turns' = [turns EXCEPT ![row.grant] = @ + 1]

(***************************************************************************)
(* What the ledger says of a grant, from the one row the grant has.        *)
(***************************************************************************)
LedgerShape ==
    /\ \A g \in Grants :
          /\ g \notin drawn => LedgerOf[g] = [at |-> "none"]
          /\ g \in drawn /\ (\A row \in rows : row.grant # g) => LedgerOf[g] = [at |-> "over"]
    /\ \A row \in rows : row.grant \in Grants \cap drawn /\ LedgerOf[row.grant] = LedgerEntry(row)

LEMMA EntryOfRow ==
  ASSUME NEW row
  PROVE  /\ row.in = "requests" => LedgerEntry(row) =
                [at |-> "asked", client |-> row.client, resource |-> row.resource,
                 scopes |-> row.scopes, turn |-> row.turn, born |-> 0]
         /\ row.in = "codes" => LedgerEntry(row) =
                [at |-> "approved", client |-> row.client, resource |-> row.resource,
                 scopes |-> row.scopes, turn |-> row.turn, born |-> 0]
         /\ row.in = "tokens" => LedgerEntry(row) =
                [at |-> "live", client |-> row.client, resource |-> row.resource,
                 scopes |-> row.scopes, turn |-> row.turn, born |-> row.created]
BY DEF LedgerEntry, LedgerStage

LEMMA ShapeOfLedger == IInv => LedgerShape
<1> SUFFICES ASSUME IInv
             PROVE  LedgerShape
  OBVIOUS
<1>1. ASSUME NEW row \in rows
      PROVE  row.grant \in Grants \cap drawn /\ LedgerOf[row.grant] = LedgerEntry(row)
  <2>1. row.grant \in Grants /\ row.grant \in drawn
    BY DEF IInv, TypeOK, Row
  <2>2. (CHOOSE r \in rows : r.grant = row.grant) = row
    BY DEF IInv, OnePerGrant
  <2> QED
    BY <2>1, <2>2 DEF LedgerOf
<1> QED
  BY <1>1 DEF LedgerShape, LedgerOf

\* A grant that has lost its row, or has it still, lapses or stays what it was.
LEMMA LedgerKeeps ==
  ASSUME IInv, IInv', NEW g \in Grants, g \in drawn' <=> g \in drawn,
         \A row \in rows' : row.grant = g => row \in rows
  PROVE  Ledger!Lapsed(g) \/ LedgerOf'[g] = LedgerOf[g]
<1>1. LedgerShape /\ LedgerShape'
  BY ShapeOfLedger, PTL
<1>2. CASE \E row \in rows' : row.grant = g
  <2>1. PICK row \in rows' : row.grant = g
    BY <1>2
  <2>2. LedgerOf[g] = LedgerEntry(row)
    BY <1>1, <2>1 DEF LedgerShape
  <2>3. LedgerOf'[g] = LedgerEntry(row)
    BY <1>1, <2>1 DEF LedgerShape, LedgerEntry, LedgerStage
  <2> QED
    BY <2>2, <2>3
<1>3. CASE \A row \in rows' : row.grant # g
  <2>1. CASE g \notin drawn
    BY <1>1, <2>1 DEF LedgerShape
  <2>2. CASE g \in drawn
    <3>1. LedgerOf'[g] = [at |-> "over"]
      BY <1>1, <1>3, <2>2 DEF LedgerShape
    <3>2. CASE \A row \in rows : row.grant # g
      BY <1>1, <2>2, <3>1, <3>2 DEF LedgerShape
    <3>3. CASE \E row \in rows : row.grant = g
      <4>1. LedgerOf[g].at # "none"
        <5>1. PICK row \in rows : row.grant = g
          BY <3>3
        <5>2. row.in \in {"requests", "codes", "tokens"} /\ LedgerOf[g] = LedgerEntry(row)
          BY <1>1, <5>1 DEF LedgerShape, IInv, TypeOK, Row
        <5> QED
          BY <5>2, EntryOfRow
      <4> QED
        BY <3>1, <4>1 DEF Ledger!Lapsed, Ledger!NoGrant, Ledger!Over
    <3> QED
      BY <3>2, <3>3
  <2> QED
    BY <2>1, <2>2
<1> QED
  BY <1>2, <1>3

LEMMA ShrinkStep ==
  ASSUME IInv, HandlersKnow', TypeOK', Shrinks
  PROVE  IInv' /\ Ledger!Next
<1>1. OnePerGrant' /\ RevokedTokensDie' /\ Unredeemed'
  BY DEF IInv, Shrinks, OnePerGrant, RevokedTokensDie, Unredeemed
<1>2. RowsApproved'
  BY DEF IInv, Shrinks, RowsApproved
<1>3. IInv'
  BY <1>1, <1>2 DEF IInv
<1> QED
  BY <1>3, LedgerKeeps DEF Ledger!Next, Shrinks

LEMMA AskStep ==
  ASSUME IInv, HandlersKnow', TypeOK', NEW g, Asks(g)
  PROVE  IInv' /\ Ledger!Next
<1> PICK request \in rows' :
          /\ request.in = "requests" /\ request.grant = g /\ request.turn = 0
          /\ Registered(request.client)'
          /\ rows' \ {request} \subseteq rows
  BY DEF Asks
<1>1. \A row \in rows : row.grant # g
  BY DEF IInv, TypeOK, Asks
<1>2. OnePerGrant'
  BY <1>1 DEF IInv, OnePerGrant
<1>3. RevokedTokensDie'
  BY DEF IInv, RevokedTokensDie, Asks
<1>4. Unredeemed'
  BY DEF IInv, Unredeemed, Asks
<1>5. RowsApproved'
  BY DEF IInv, RowsApproved, Approved, Asks
<1>6. IInv'
  BY <1>2, <1>3, <1>4, <1>5 DEF IInv
<1>7. Ledger!Asked(g)
  <2>1. LedgerShape /\ LedgerShape'
    BY <1>6, ShapeOfLedger, PTL
  <2>2. LedgerOf[g] = [at |-> "none"]
    BY <2>1 DEF LedgerShape, Asks
  <2>3. LedgerOf'[g] = LedgerEntry(request)
    BY <2>1 DEF LedgerShape, LedgerEntry, LedgerStage
  <2>4. LedgerEntry(request).at = "asked"
    BY EntryOfRow
  <2> QED
    BY <2>2, <2>3, <2>4 DEF Ledger!Asked, Ledger!NoGrant
<1>8. ASSUME NEW h \in Grants, h # g
      PROVE  Ledger!Lapsed(h) \/ LedgerOf'[h] = LedgerOf[h]
  BY <1>6, <1>8, LedgerKeeps DEF Asks
<1> QED
  BY <1>6, <1>7, <1>8 DEF Ledger!Next

\* How redemption and rotation change an entry of the ledger, field by field.
Entries == [at : {"asked", "approved", "live"}, client : Clients, resource : Resources,
            scopes : SUBSET Scopes, turn : 0..MaxTurns, born : 0..MaxTime]

LEMMA EntryTyped ==
  ASSUME TypeOK, AuthServerAssumption, NEW row \in rows
  PROVE  LedgerEntry(row) \in Entries
BY DEF TypeOK, Row, LedgerEntry, LedgerStage, Entries, AuthServerAssumption

LEMMA EntryRedeemed ==
  ASSUME NEW e \in Entries, NEW f \in Entries, f.at = "live", f.turn = 1,
         f.client = e.client, f.resource = e.resource, f.scopes = e.scopes
  PROVE  f = [e EXCEPT !.at = "live", !.turn = 1, !.born = f.born]
BY DEF Entries

LEMMA EntryRotated ==
  ASSUME NEW e \in Entries, NEW f \in Entries, f.turn = e.turn + 1, f.at = e.at,
         f.client = e.client, f.resource = e.resource, f.born = e.born
  PROVE  f = [e EXCEPT !.turn = @ + 1, !.scopes = f.scopes]
BY DEF Entries

LEMMA ReplaceStep ==
  ASSUME IInv, HandlersKnow', TypeOK', NEW row, NEW new, Replaces(row, new)
  PROVE  IInv' /\ Ledger!Next
<1> USE DEF Replaces
<1>1. OnePerGrant'
  BY DEF IInv, OnePerGrant
<1>2. \A other \in rows : other # row => other.grant # row.grant
  BY DEF IInv, OnePerGrant
<1>3. RevokedTokensDie'
  BY DEF IInv, RevokedTokensDie, TypeOK, Row
<1>4. Unredeemed'
  <2>1. row.grant \in drawn /\ row.grant \in Grants /\ turns \in [Grants -> 0..MaxTurns]
    BY DEF IInv, TypeOK, Row
  <2>2. \A other \in rows : other # row => other.grant \in Grants /\ turns'[other.grant] = turns[other.grant]
    BY <1>2, <2>1 DEF IInv, TypeOK, Row
  <2>3. \A g \in Grants : g \notin drawn' => turns'[g] = 0
    BY <2>1 DEF IInv, Unredeemed
  <2>4. ASSUME NEW r \in rows', r.in # "tokens"
        PROVE  r.turn = 0 /\ turns'[r.grant] = 0
    <3>1. CASE r = new
      BY <2>4, <3>1 DEF IInv, Unredeemed
    <3>2. CASE r # new
      BY <2>2, <2>4, <3>2 DEF IInv, Unredeemed
    <3> QED
      BY <3>1, <3>2
  <2> QED
    BY <2>3, <2>4 DEF Unredeemed
<1>5. RowsApproved'
  BY DEF IInv, RowsApproved, Approved
<1>6. IInv'
  BY <1>1, <1>3, <1>4, <1>5 DEF IInv
<1>7. Ledger!Approved(row.grant) \/ Ledger!Redeemed(row.grant) \/ Ledger!Rotated(row.grant)
  <2>1. LedgerShape /\ LedgerShape'
    BY <1>6, ShapeOfLedger, PTL
  <2>2. LedgerOf[row.grant] = LedgerEntry(row) /\ LedgerOf'[row.grant] = LedgerEntry(new)
    <3>1. new \in rows'
      OBVIOUS
    <3> QED
      BY <2>1, <3>1 DEF LedgerShape, LedgerEntry, LedgerStage
  <2>3. CASE row.in = "requests"
    BY <2>2, <2>3, EntryOfRow DEF Ledger!Approved
  <2>4. LedgerOf[row.grant] \in Entries /\ LedgerOf'[row.grant] \in Entries
    <3>1. LedgerEntry(row) \in Entries
      BY EntryTyped, AuthServerAssumption DEF IInv
    <3>2. \A r \in rows' : LedgerEntry(r) \in Entries
      BY AuthServerAssumption DEF TypeOK, Row, LedgerEntry, LedgerStage, Entries, AuthServerAssumption
    <3> QED
      BY <2>2, <3>1, <3>2
  <2>5. CASE row.in = "codes"
    <3>1. new.in = "tokens" /\ new.turn = 1 /\ new.scopes = row.scopes
      BY <2>5 DEF IInv, Unredeemed
    <3>2. /\ LedgerOf[row.grant].at = "approved" /\ LedgerOf[row.grant].client = row.client
          /\ LedgerOf[row.grant].resource = row.resource /\ LedgerOf[row.grant].scopes = row.scopes
      BY <2>2, <2>5, EntryOfRow
    <3>3. /\ LedgerOf'[row.grant].at = "live" /\ LedgerOf'[row.grant].client = row.client
          /\ LedgerOf'[row.grant].resource = row.resource /\ LedgerOf'[row.grant].scopes = row.scopes
          /\ LedgerOf'[row.grant].turn = 1
      BY <2>2, <3>1, EntryOfRow
    <3>4. LedgerOf'[row.grant] =
            [LedgerOf[row.grant] EXCEPT !.at = "live", !.turn = 1, !.born = LedgerOf'[row.grant].born]
      BY <2>4, <3>2, <3>3, EntryRedeemed
    <3> QED
      BY <3>2, <3>3, <3>4 DEF Ledger!Redeemed
  <2>6. CASE row.in = "tokens"
    <3>1. /\ new.in = "tokens" /\ new.turn = row.turn + 1 /\ new.scopes \subseteq row.scopes
          /\ new.created = row.created
      BY <2>6 DEF IInv, TypeOK
    <3>2. /\ LedgerOf[row.grant].at = "live" /\ LedgerOf[row.grant].client = row.client
          /\ LedgerOf[row.grant].resource = row.resource /\ LedgerOf[row.grant].scopes = row.scopes
          /\ LedgerOf[row.grant].turn = row.turn /\ LedgerOf[row.grant].born = row.created
      BY <2>2, <2>6, EntryOfRow
    <3>3. /\ LedgerOf'[row.grant].at = "live" /\ LedgerOf'[row.grant].client = row.client
          /\ LedgerOf'[row.grant].resource = row.resource /\ LedgerOf'[row.grant].scopes = new.scopes
          /\ LedgerOf'[row.grant].turn = row.turn + 1 /\ LedgerOf'[row.grant].born = row.created
      BY <2>2, <3>1, EntryOfRow
    <3>4. LedgerOf'[row.grant] =
            [LedgerOf[row.grant] EXCEPT !.turn = @ + 1, !.scopes = LedgerOf'[row.grant].scopes]
      <4>1. /\ LedgerOf'[row.grant].turn = LedgerOf[row.grant].turn + 1
            /\ LedgerOf'[row.grant].at = LedgerOf[row.grant].at
            /\ LedgerOf'[row.grant].client = LedgerOf[row.grant].client
            /\ LedgerOf'[row.grant].resource = LedgerOf[row.grant].resource
            /\ LedgerOf'[row.grant].born = LedgerOf[row.grant].born
        BY <3>2, <3>3
      <4> HIDE DEF Entries
      <4> QED
        BY <2>4, <4>1, EntryRotated
    <3> QED
      BY <3>1, <3>2, <3>3, <3>4 DEF Ledger!Rotated
  <2> QED
    BY <2>3, <2>5, <2>6 DEF IInv, TypeOK, Row
<1>8. ASSUME NEW h \in Grants, h # row.grant
      PROVE  Ledger!Lapsed(h) \/ LedgerOf'[h] = LedgerOf[h]
  BY <1>6, <1>8, LedgerKeeps
<1> QED
  BY <1>6, <1>7, <1>8 DEF Ledger!Next
-----------------------------------------------------------------------------
(***************************************************************************)
(* Every action keeps the types and is a step of one of the kinds.         *)
(***************************************************************************)
LEMMA WithoutKeeps ==
  ASSUME TypeOK, NEW gone
  PROVE  /\ Without(gone) \in [Clients -> ClientRow]
         /\ \A c \in Clients : Registered(c) /\ c \notin gone => Without(gone)[c].at = "row"
BY DEF TypeOK, Without, Registered, ClientRow

\* An action that takes rows away and leaves the rest of the tables alone.
LEMMA TypesShrink ==
  ASSUME IInv, Shrinks, now' \in 0..MaxTime, clients' \in [Clients -> ClientRow],
         cache' \subseteq Clients, calls' \in [Calls -> Handler]
  PROVE  IInv' /\ Ledger!Next
<1>1. TypeOK'
  BY DEF IInv, TypeOK, Shrinks, ClientRow, Handler
<1> QED
  BY <1>1, ShrinkStep DEF HandlersKnow

LEMMA PruneInvariant ==
  ASSUME IInv, Prune \/ \E c \in Clients : Register(c) \/ RemoveClient(c)
  PROVE  IInv' /\ Ledger!Next
<1> USE DEF KeptRows, Registered
<1>1. TypeOK /\ MaxTime \in Nat
  BY AuthServerAssumption DEF IInv
<1>2. \A row \in rows : row.client \in Clients
  BY <1>1 DEF TypeOK, Row
<1>3. /\ now \in 0..MaxTime /\ clients \in [Clients -> ClientRow]
      /\ cache \subseteq Clients /\ calls \in [Calls -> Handler]
  BY <1>1 DEF IInv, TypeOK, ClientRow, HandlersKnow
<1>4. CASE Prune
  BY <1>1, <1>2, <1>3, <1>4, WithoutKeeps, TypesShrink DEF Prune, Shrinks
<1>5. ASSUME NEW c \in Clients, Register(c)
      PROVE  IInv' /\ Ledger!Next
  <2>1. clients' \in [Clients -> ClientRow]
    BY <1>1, <1>3, <1>5, WithoutKeeps DEF Register, ClientRow
  <2>2. \A row \in rows' : Registered(row.client) => Registered(row.client)'
    BY <1>1, <1>2, <1>5, WithoutKeeps DEF Register
  <2> QED
    BY <1>3, <1>5, <2>1, <2>2, TypesShrink DEF Register, Shrinks
<1>6. ASSUME NEW c \in Clients, RemoveClient(c)
      PROVE  IInv' /\ Ledger!Next
  <2>1. \A row \in rows' : Registered(row.client) => Registered(row.client)'
    BY <1>1, <1>2, <1>6, WithoutKeeps DEF RemoveClient
  <2> QED
    BY <1>1, <1>3, <1>6, <2>1, WithoutKeeps, TypesShrink DEF RemoveClient, Shrinks
<1> QED
  BY <1>4, <1>5, <1>6

LEMMA QuietInvariant ==
  ASSUME IInv, \/ Tick \/ Crash
               \/ \E g \in Grants : Deny(g)
               \/ \E k \in Calls : Fill(k) \/ TurnedDown(k) \/ \E c \in Clients : GetClient(k, c)
               \/ \E k \in Calls, g \in Grants :
                      Challenge(k, g) \/ RefreshExpired(k, g) \/ Revoke(k, g)
  PROVE  IInv' /\ Ledger!Next
<1> USE DEF Idle, Ends
<1>1. /\ now \in 0..MaxTime /\ clients \in [Clients -> ClientRow]
      /\ cache \subseteq Clients /\ calls \in [Calls -> Handler]
  BY DEF IInv, TypeOK, ClientRow, HandlersKnow
<1>2. CASE Tick
  <2>1. now' \in 0..MaxTime
    BY <1>1, <1>2, AuthServerAssumption DEF Tick
  <2> QED
    BY <1>1, <1>2, <2>1, TypesShrink DEF Tick, Shrinks, Registered
<1>3. CASE Crash
  <2>1. calls' \in [Calls -> Handler]
    BY <1>3 DEF Crash, Handler
  <2> QED
    BY <1>1, <1>3, <2>1, TypesShrink DEF Crash, Shrinks, Registered
<1>4. ASSUME NEW g \in Grants, Deny(g)
      PROVE  IInv' /\ Ledger!Next
  BY <1>1, <1>4, TypesShrink DEF Deny, Shrinks, Registered
<1>5. ASSUME NEW k \in Calls, Fill(k)
      PROVE  IInv' /\ Ledger!Next
  <2>1. calls' \in [Calls -> Handler] /\ cache' \subseteq Clients
    BY <1>1, <1>5 DEF Fill, Handler
  <2> QED
    BY <1>1, <1>5, <2>1, TypesShrink DEF Fill, Shrinks, Registered
<1>6. ASSUME NEW k \in Calls, TurnedDown(k) \/ \E c \in Clients : GetClient(k, c)
      PROVE  IInv' /\ Ledger!Next
  <2>1. calls' \in [Calls -> Handler]
    <3>1. CASE TurnedDown(k)
      BY <1>1, <3>1 DEF TurnedDown, Handler
    <3>2. ASSUME NEW c \in Clients, GetClient(k, c)
          PROVE  calls' \in [Calls -> Handler]
      <4>1. \A at \in {"known", "fill"} : [Idle EXCEPT !.at = at, !.client = c] \in Handler
        BY DEF Handler
      <4> QED
        BY <1>1, <3>2, <4>1 DEF GetClient
    <3> QED
      BY <1>6, <3>1, <3>2
  <2> QED
    BY <1>1, <1>6, <2>1, TypesShrink DEF TurnedDown, GetClient, Shrinks, Registered
<1>7. ASSUME NEW k \in Calls, NEW g \in Grants, Challenge(k, g) \/ RefreshExpired(k, g) \/ Revoke(k, g)
      PROVE  IInv' /\ Ledger!Next
  <2>1. calls' \in [Calls -> Handler]
    BY <1>1, <1>7 DEF Challenge, RefreshExpired, Revoke, Handler
  <2> QED
    BY <1>1, <1>7, <2>1, TypesShrink DEF Challenge, RefreshExpired, Revoke, Shrinks, Registered
<1> QED
  BY <1>2, <1>3, <1>4, <1>5, <1>6, <1>7
LEMMA AuthorizeInvariant ==
  ASSUME IInv, NEW k \in Calls, NEW g \in Grants, NEW resource \in Resources,
         NEW scopes \in SUBSET Scopes, Authorize(k, g, resource, scopes)
  PROVE  IInv' /\ Ledger!Next
<1> USE DEF KeptRows, Registered
<1> DEFINE c == calls[k].client
           request == [in |-> "requests", grant |-> g, turn |-> 0, client |-> c, resource |-> resource,
                       scopes |-> scopes, created |-> now, expires |-> now + RequestTTL]
<1>1. /\ TypeOK /\ MaxTime \in Nat /\ MaxTurns \in Nat /\ RequestTTL \in Nat
      /\ now \in 0..MaxTime /\ clients \in [Clients -> ClientRow]
      /\ cache \subseteq Clients /\ calls \in [Calls -> Handler] /\ c \in Clients
  BY AuthServerAssumption DEF IInv, TypeOK, ClientRow, HandlersKnow, Handler, Authorize
<1>2. calls' \in [Calls -> Handler] /\ clients' \in [Clients -> ClientRow]
  BY <1>1, WithoutKeeps DEF Authorize, Ends, Idle, Handler
<1>3. \A d \in Clients : Registered(d) /\ d \notin Unused => Registered(d)'
  BY <1>1, WithoutKeeps DEF Authorize
<1>4. \A row \in rows : row.client \in Clients
  BY <1>1 DEF TypeOK, Row
<1>5. CASE Registered(c) /\ c \notin Unused
  <2>1. rows' = KeptRows \cup {request} /\ drawn' = drawn \cup {g} /\ g \notin drawn
    BY <1>5 DEF Authorize
  <2>2. request \in Row
    BY <1>1 DEF Row
  <2>3. TypeOK'
    BY <1>1, <1>2, <2>1, <2>2 DEF TypeOK, Authorize, ClientRow, Handler
  <2>4. Asks(g)
    <3> request.client = c
      OBVIOUS
    <3> HIDE DEF request
    <3>3. clients'[c].at = "row"
      BY <1>1, <1>3, <1>5
    <3>1. \A row \in rows' : Registered(row.client) => Registered(row.client)'
      BY <1>3, <1>4, <2>1, <3>3
    <3>2. rows' \ {request} \subseteq rows /\ request \in rows'
      BY <2>1
    <3>4. request.in = "requests" /\ request.grant = g /\ request.turn = 0
      BY DEF request
    <3> QED
      BY <2>1, <3>1, <3>2, <3>3, <3>4 DEF Asks, Authorize
  <2> QED
    BY <1>2, <2>3, <2>4, AskStep DEF HandlersKnow
<1>6. CASE ~(Registered(c) /\ c \notin Unused)
  <2>1. rows' = KeptRows /\ UNCHANGED <<now, turns, drawn, consent, cache>>
    BY <1>6 DEF Authorize
  <2>2. Shrinks
    BY <1>3, <1>4, <2>1 DEF Shrinks
  <2> QED
    BY <1>1, <1>2, <2>1, <2>2, TypesShrink
<1> QED
  BY <1>5, <1>6

\* Approval and issue put a row of the right type in the place of one of its grant.
LEMMA TypesReplace ==
  ASSUME IInv, NEW row, NEW new \in Row, Replaces(row, new),
         new.in = "tokens" => turns[row.grant] < MaxTurns,
         now' \in 0..MaxTime, clients' \in [Clients -> ClientRow],
         consent' \subseteq Consents,
         cache' \subseteq Clients, calls' \in [Calls -> Handler]
  PROVE  IInv' /\ Ledger!Next
<1> USE DEF Replaces
<1>1. /\ TypeOK /\ MaxTurns \in Nat /\ row \in Row /\ row.grant \in Grants /\ row.grant \in drawn
      /\ turns \in [Grants -> 0..MaxTurns]
  BY AuthServerAssumption DEF IInv, TypeOK, Row
<1>2. turns' \in [Grants -> 0..MaxTurns]
  BY <1>1
<1>3. ASSUME NEW r \in rows'
      PROVE  r.grant \in drawn' /\ (r.in = "tokens" => r.turn = turns'[r.grant])
  <2>1. CASE r = new
    BY <1>1, <2>1
  <2>2. CASE r # new
    <3>1. r \in rows /\ r.grant # row.grant
      BY <2>2 DEF IInv, OnePerGrant
    <3> QED
      BY <1>1, <3>1 DEF TypeOK, Row
  <2> QED
    BY <2>1, <2>2
<1>4. rows' \subseteq Row /\ drawn' \subseteq Grants
  BY <1>1 DEF TypeOK
<1>5. TypeOK'
  BY <1>2, <1>3, <1>4 DEF TypeOK, ClientRow, Handler, Consents
<1> QED
  BY <1>5, ReplaceStep DEF HandlersKnow

LEMMA ApproveInvariant ==
  ASSUME IInv, NEW g \in Grants, Approve(g)
  PROVE  IInv' /\ Ledger!Next
<1> PICK request \in Of("requests", g) :
        /\ rows' = (rows \ {request}) \cup
               {[request EXCEPT !.in = "codes", !.created = now, !.expires = now + CodeTTL]}
        /\ consent' = consent \cup {[grant |-> g, client |-> request.client, resource |-> request.resource,
                                     scopes |-> request.scopes, at |-> now]}
        /\ UNCHANGED <<now, clients, turns, drawn, cache, calls>>
  BY DEF Approve
<1> DEFINE new == [request EXCEPT !.in = "codes", !.created = now, !.expires = now + CodeTTL]
           ok == [grant |-> g, client |-> request.client, resource |-> request.resource,
                  scopes |-> request.scopes, at |-> now]
<1>1. /\ TypeOK /\ MaxTime \in Nat /\ CodeTTL \in Nat
      /\ now \in 0..MaxTime /\ clients \in [Clients -> ClientRow]
      /\ cache \subseteq Clients /\ calls \in [Calls -> Handler] /\ consent \subseteq Consents
  BY AuthServerAssumption DEF IInv, TypeOK, ClientRow, HandlersKnow, Consents
<1>2. request \in Row /\ request \in rows /\ request.in = "requests" /\ request.grant = g
  BY <1>1 DEF Of, TypeOK
<1>3. /\ new \in Row /\ new.in = "codes" /\ new.grant = g /\ new.client = request.client
      /\ new.turn = request.turn /\ new.resource = request.resource /\ new.scopes = request.scopes
      /\ new.created = now /\ new.expires = now + CodeTTL
  <2>1. now + CodeTTL \in Nat
    BY <1>1
  <2>2. new.in = "codes" /\ new.created = now /\ new.expires = now + CodeTTL
    BY <1>2 DEF Row
  <2>3. /\ new.grant = g /\ new.client = request.client /\ new.turn = request.turn
        /\ new.resource = request.resource /\ new.scopes = request.scopes
    BY <1>2 DEF Row
  <2>4. new \in Row
    BY <1>1, <1>2, <2>1 DEF Row
  <2> QED
    BY <2>2, <2>3, <2>4
<1>4. ok \in Consents /\ ok \in consent'
  BY <1>1, <1>2 DEF Row, Consents
<1>5. Approved(new, consent')
  BY <1>3, <1>4 DEF Approved, Backs
<1>6. Replaces(request, new)
  <2> HIDE DEF new
  <2>1. rows' = (rows \ {request}) \cup {new}
    BY DEF new
  <2> QED
    BY <1>2, <1>3, <1>5, <2>1 DEF Replaces, Registered
<1>7. consent' \subseteq Consents
  BY <1>1, <1>4
<1> QED
  BY <1>1, <1>3, <1>6, <1>7, TypesReplace

\* The tokens issued on a row of the grant.
LEMMA IssuedRow ==
  ASSUME IInv, NEW row \in rows, NEW scopes \in SUBSET Scopes, NEW created \in 0..MaxTime,
         turns[row.grant] < MaxTurns
  PROVE  LET new == Issued(row, scopes, created)
         IN  /\ new \in Row /\ new.in = "tokens" /\ new.turn = turns[row.grant] + 1
             /\ new.grant = row.grant /\ new.client = row.client /\ new.resource = row.resource
             /\ new.scopes = scopes /\ new.created = created /\ new.expires = now + AccessTTL
<1> DEFINE new == Issued(row, scopes, created)
<1>1. row \in Row /\ turns[row.grant] + 1 \in 0..MaxTurns /\ now + AccessTTL \in Nat
  BY AuthServerAssumption DEF IInv, TypeOK, Row
<1>2. new.in = "tokens" /\ new.turn = turns[row.grant] + 1
  BY <1>1 DEF Issued, Row
<1>3. new.scopes = scopes /\ new.created = created /\ new.expires = now + AccessTTL
  BY <1>1 DEF Issued, Row
<1>4. new.grant = row.grant /\ new.client = row.client /\ new.resource = row.resource
  BY <1>1 DEF Issued, Row
<1>5. new \in Row
  BY <1>1 DEF Issued, Row
<1> QED
  BY <1>2, <1>3, <1>4, <1>5

\* Tokens on a code or on earlier tokens of a live grant are a step that replaces them.
LEMMA IssueInvariant ==
  ASSUME IInv, NEW k \in Calls, NEW row \in rows, NEW scopes \in SUBSET Scopes,
         NEW created \in 0..MaxTime,
         rows' = (rows \ {row}) \cup {Issued(row, scopes, created)},
         Counts(row.grant), Touch(row.client), Ends(k), UNCHANGED <<now, drawn, consent, cache>>,
         row.in # "requests", scopes \subseteq row.scopes,
         row.in = "codes" => scopes = row.scopes, row.in = "tokens" => created = row.created,
         Approved(Issued(row, scopes, created), consent)
  PROVE  IInv' /\ Ledger!Next
<1> DEFINE new == Issued(row, scopes, created)
<1>1. /\ row \in Row /\ now \in 0..MaxTime /\ clients \in [Clients -> ClientRow]
      /\ cache \subseteq Clients /\ calls \in [Calls -> Handler] /\ consent \subseteq Consents
  BY DEF IInv, TypeOK, ClientRow, HandlersKnow, Consents
<1>2. /\ new \in Row /\ new.in = "tokens" /\ new.turn = turns[row.grant] + 1
      /\ new.grant = row.grant /\ new.client = row.client /\ new.resource = row.resource
      /\ new.scopes = scopes /\ new.created = created
  BY IssuedRow DEF Counts
<1>3. clients' \in [Clients -> ClientRow] /\ \A c \in Clients : Registered(c) => Registered(c)'
  BY <1>1 DEF Touch, ClientRow, Registered
<1>4. calls' \in [Calls -> Handler]
  BY <1>1 DEF Ends, Idle, Handler
<1>5. Replaces(row, new)
  <2>1. rows' = (rows \ {row}) \cup {new} /\ Approved(new, consent')
    OBVIOUS
  <2> QED
    BY <1>2, <1>3, <2>1 DEF Replaces, Counts
<1> QED
  <2> HIDE DEF new
  <2> QED
    BY <1>1, <1>2, <1>3, <1>4, <1>5, TypesReplace DEF Counts

LEMMA ExchangeInvariant ==
  ASSUME IInv, NEW k \in Calls,
         ExchangeCode(k) \/ \E g \in Grants, asked \in SUBSET Scopes : ExchangeRefresh(k, g, asked)
  PROVE  IInv' /\ Ledger!Next
<1>1. now \in 0..MaxTime /\ {CodeTTL, RequestTTL, AccessTTL, RefreshTTL, MaxTime, MaxTurns} \subseteq Nat
  BY AuthServerAssumption DEF IInv, TypeOK
<1>2. CASE ExchangeCode(k)
  <2> PICK g \in calls[k].grant : \E row \in Of("codes", g) :
          /\ Redeemable(row, calls[k].client)
          /\ rows' = (rows \ {row}) \cup {Issued(row, row.scopes, now)}
          /\ Counts(g) /\ Touch(row.client)
    BY <1>2 DEF ExchangeCode
  <2> PICK row \in Of("codes", g) :
          /\ Redeemable(row, calls[k].client)
          /\ rows' = (rows \ {row}) \cup {Issued(row, row.scopes, now)}
          /\ Counts(g) /\ Touch(row.client)
    OBVIOUS
  <2>1. row \in rows /\ row \in Row /\ row.in = "codes" /\ row.grant = g /\ now < row.expires
    BY DEF IInv, TypeOK, Of, Redeemable
  <2>2. row.scopes \in SUBSET Scopes
    BY <2>1 DEF Row
  <2> DEFINE new == Issued(row, row.scopes, now)
  <2>3. /\ new.in = "tokens" /\ new.grant = row.grant /\ new.client = row.client
        /\ new.resource = row.resource /\ new.scopes = row.scopes
        /\ new.created = now /\ new.expires = now + AccessTTL
    BY <1>1, <2>1, <2>2, IssuedRow DEF Counts
  <2>4. PICK ok \in consent : Backs(ok, row)
    BY <2>1 DEF IInv, RowsApproved, Approved
  <2>5. Backs(ok, new)
    <3> HIDE DEF new
    <3>1. ok.at \in Nat /\ row.created = ok.at /\ row.expires = row.created + CodeTTL
      BY <2>1, <2>4 DEF Backs, IInv, TypeOK
    <3> QED
      BY <1>1, <2>1, <2>3, <2>4, <3>1 DEF Backs
  <2>6. Approved(new, consent)
    BY <2>5 DEF Approved
  <2> QED
    BY <1>1, <1>2, <2>1, <2>2, <2>6, IssueInvariant DEF ExchangeCode
<1>3. ASSUME NEW g \in Grants, NEW asked \in SUBSET Scopes, ExchangeRefresh(k, g, asked)
      PROVE  IInv' /\ Ledger!Next
  <2> DEFINE scopes(r) == IF asked = {} THEN r.scopes ELSE asked
  <2> PICK row \in Of("tokens", g) :
          /\ row.client = calls[k].client /\ now < row.created + RefreshTTL
          /\ asked \subseteq row.scopes
          /\ rows' = (rows \ {row}) \cup {Issued(row, scopes(row), row.created)}
          /\ Counts(g) /\ Touch(row.client)
    BY <1>3 DEF ExchangeRefresh
  <2>1. row \in rows /\ row \in Row /\ row.in = "tokens" /\ row.grant = g
    BY DEF IInv, TypeOK, Of
  <2>2. scopes(row) \in SUBSET Scopes /\ scopes(row) \subseteq row.scopes /\ row.created \in 0..MaxTime
    BY <2>1 DEF Row
  <2> DEFINE new == Issued(row, scopes(row), row.created)
  <2>3. /\ new.in = "tokens" /\ new.grant = row.grant /\ new.client = row.client
        /\ new.resource = row.resource /\ new.scopes = scopes(row)
        /\ new.created = row.created /\ new.expires = now + AccessTTL
    <3> HIDE DEF scopes
    <3> QED
      BY <1>1, <2>1, <2>2, IssuedRow DEF Counts
  <2>4. PICK ok \in consent : Backs(ok, row)
    BY <2>1 DEF IInv, RowsApproved, Approved
  <2>5. Backs(ok, new)
    <3> HIDE DEF new, scopes
    <3> QED
      BY <1>1, <2>1, <2>2, <2>3, <2>4 DEF Backs
  <2>6. Approved(new, consent)
    BY <2>5 DEF Approved
  <2> QED
    <3> HIDE DEF scopes
    <3> QED
      BY <1>1, <1>3, <2>1, <2>2, <2>6, IssueInvariant DEF ExchangeRefresh
<1> QED
  BY <1>2, <1>3

LEMMA StutterInvariant ==
  ASSUME IInv, UNCHANGED vars
  PROVE  IInv'
BY DEF IInv, vars, TypeOK, HandlersKnow, OnePerGrant, RevokedTokensDie, Registered, Unredeemed,
   RowsApproved

LEMMA NextInvariant ==
  ASSUME IInv, Next
  PROVE  IInv' /\ Ledger!Next
BY PruneInvariant, QuietInvariant, AuthorizeInvariant, ApproveInvariant, ExchangeInvariant
   DEF Next, CallStep

\* The invariant the results follow from.
THEOREM Invariant == Spec => []IInv
BY InitInvariant, NextInvariant, StutterInvariant, PTL DEF Spec

\* A grant has one credential at a time: the request, the code or the latest token pair,
\* whichever callers race to redeem it or to rotate it (code.ts, token.ts).
THEOREM OneCredential == Spec => []OneCredentialPerGrant
<1>1. IInv => OneCredentialPerGrant
  BY DEF IInv, OnePerGrant, OneCredentialPerGrant
<1> QED
  BY <1>1, Invariant, PTL

\* No code and no token outlives the registration of its client, although a handler in flight
\* still has the client from the cache.
THEOREM RevokedDie == Spec => []RevokedTokensDie
<1>1. IInv => RevokedTokensDie
  BY DEF IInv
<1> QED
  BY <1>1, Invariant, PTL

\* What a code is good for, and what a token opens, an administrator has approved: for this
\* client and resource, with at least these scopes, and not too long ago.
THEOREM Covered == Spec => []ConsentCovers
<1>1. ASSUME IInv
      PROVE  ConsentCovers
  <2> SUFFICES ASSUME NEW row \in rows, NEW audience \in Resources, GoodFor(row, audience)
               PROVE  \E ok \in consent : Covers(ok, row, audience)
    BY DEF ConsentCovers
  <2>1. row \in Row /\ row.resource = audience /\ row.in # "requests"
    BY <1>1 DEF IInv, TypeOK, GoodFor, Opens
  <2>2. PICK ok \in consent : Backs(ok, row)
    BY <1>1, <2>1 DEF IInv, RowsApproved, Approved
  <2>3. ok.at \in Nat /\ now \in Nat /\ {CodeTTL, AccessTTL, RefreshTTL} \subseteq Nat
        /\ row.created \in Nat /\ row.expires \in Nat
    BY <1>1, <2>1, <2>2, AuthServerAssumption DEF IInv, TypeOK, Row
  <2>4. row.created <= ok.at + CodeTTL
    BY <2>1, <2>2, <2>3 DEF Backs, Row
  <2>5. row.in = "tokens" => now < ok.at + CodeTTL + RefreshTTL + AccessTTL
    BY <2>1, <2>2, <2>3, <2>4 DEF Backs, GoodFor, Opens
  <2> QED
    BY <2>1, <2>2, <2>4, <2>5 DEF Backs, Covers
<1> QED
  BY <1>1, Invariant, PTL

\* The tables implement GrantLedger: a grant is asked for, approved and redeemed once, and passes
\* from one token pair to the next, for the same client and resource, with no more scopes, and no
\* younger; once it has lapsed it does not come back.
THEOREM Refinement == Spec => GrantsFollowTheLedger
<1>1. Init => Ledger!Init
  BY DEF Init, Ledger!Init, LedgerOf, Ledger!NoGrant
<1>2. UNCHANGED vars => UNCHANGED LedgerOf
  BY DEF vars, LedgerOf, LedgerEntry, LedgerStage
<1>3. IInv /\ [Next]_vars => [Ledger!Next]_LedgerOf
  BY <1>2, NextInvariant
<1> QED
  BY <1>1, <1>3, Invariant, PTL DEF Spec, GrantsFollowTheLedger, Ledger!Spec

-----------------------------------------------------------------------------
(***************************************************************************)
(* The gateway as the routes see it.                                       *)
(***************************************************************************)
Gateways ==
    [ver : [Cells -> Nat], writes : Nat, auditing : BOOLEAN, rows : [Kinds -> SUBSET STRING],
     born : [Kinds -> 1..Len(Ids)], switch : BOOLEAN, setup : BOOLEAN, session : BOOLEAN]

\* As a function of its fields.
Fields == {"ver", "writes", "auditing", "rows", "born", "switch", "setup", "session"}
Whole(g) == g = [f \in Fields |-> g[f]]

LEMMA GatewayFields ==
  ASSUME NEW g
  PROVE  g \in Gateways <=>
            /\ Whole(g)
            /\ g.ver \in [Cells -> Nat] /\ g.writes \in Nat /\ g.auditing \in BOOLEAN
            /\ g.rows \in [Kinds -> SUBSET STRING] /\ g.born \in [Kinds -> 1..Len(Ids)]
            /\ g.switch \in BOOLEAN /\ g.setup \in BOOLEAN /\ g.session \in BOOLEAN
<1>1. ASSUME g \in Gateways
      PROVE  Whole(g)
  BY <1>1 DEF Gateways, Whole, Fields
<1>2. ASSUME Whole(g)
      PROVE  g = [ver |-> g.ver, writes |-> g.writes, auditing |-> g.auditing, rows |-> g.rows,
                  born |-> g.born, switch |-> g.switch, setup |-> g.setup, session |-> g.session]
  BY <1>2 DEF Whole, Fields
<1> QED
  BY <1>1, <1>2 DEF Gateways

\* A flag is turned.
LEMMA FlagKeeps ==
  ASSUME NEW g \in Gateways, NEW b \in BOOLEAN, NEW f \in {"auditing", "switch", "setup", "session"}
  PROVE  /\ [g EXCEPT ![f] = b] \in Gateways
         /\ [g EXCEPT ![f] = b].ver = g.ver
         /\ [g EXCEPT ![f] = b].rows = g.rows
<1> DEFINE new == [g EXCEPT ![f] = b]
<1>1. Whole(new) /\ \A other \in Fields \ {f} : new[other] = g[other]
  BY GatewayFields DEF Whole, Fields
<1>2. new[f] = b
  BY GatewayFields DEF Whole, Fields
<1> HIDE DEF new
<1>3. new.ver = g.ver /\ new.rows = g.rows /\ new.writes = g.writes /\ new.born = g.born
  BY <1>1 DEF Fields
<1>4. \A flag \in {"auditing", "switch", "setup", "session"} : new[flag] \in BOOLEAN
  <2>1. \A flag \in {"auditing", "switch", "setup", "session"} : g[flag] \in BOOLEAN
    BY GatewayFields
  <2> QED
    BY <1>1, <1>2, <2>1 DEF Fields
<1>5. /\ new.auditing \in BOOLEAN /\ new.switch \in BOOLEAN
      /\ new.setup \in BOOLEAN /\ new.session \in BOOLEAN
  BY <1>4
<1>6. /\ g.ver \in [Cells -> Nat] /\ g.writes \in Nat
      /\ g.rows \in [Kinds -> SUBSET STRING] /\ g.born \in [Kinds -> 1..Len(Ids)]
  BY GatewayFields
<1>7. new \in Gateways
  BY <1>1, <1>3, <1>5, <1>6, GatewayFields
<1> QED
  BY <1>3, <1>7 DEF new

\* A change of some cells raises their versions and leaves the other cells and the rows alone.
LEMMA BumpKeeps ==
  ASSUME NEW g \in Gateways, NEW cells
  PROVE  /\ Bump(g, cells) \in Gateways
         /\ \A c \in Cells \ cells : Bump(g, cells).ver[c] = g.ver[c]
         /\ Bump(g, cells).rows = g.rows
<1> DEFINE ver == [c \in Cells |-> IF c \in cells THEN g.ver[c] + 1 ELSE g.ver[c]]
           new == [g EXCEPT !.ver = ver, !.writes = g.writes + 1]
<1>1. ver \in [Cells -> Nat] /\ \A c \in Cells \ cells : ver[c] = g.ver[c]
  BY GatewayFields
<1>2. Bump(g, cells) = IF cells = {} THEN g ELSE new
  BY Zenon DEF Bump
<1> HIDE DEF ver
<1>3. /\ Whole(new) /\ new.ver = ver /\ new.writes = g.writes + 1
      /\ \A other \in Fields \ {"ver", "writes"} : new[other] = g[other]
  BY GatewayFields DEF Whole, Fields
<1> HIDE DEF new
<1>4. g.writes + 1 \in Nat
  BY GatewayFields
<1>5. new \in Gateways /\ new.rows = g.rows
  BY <1>1, <1>3, <1>4, GatewayFields DEF Fields
<1> QED
  BY <1>1, <1>2, <1>3, <1>5

\* Rows that come or go leave the versions alone, but for the endpoints that go with a namespace.
LEMMA WithRowsKeeps ==
  ASSUME NEW g \in Gateways, NEW r, NEW q, NEW h \in WithRows(g, r, q)
  PROVE  /\ h \in Gateways
         /\ \A cell \in Cells : \/ h.ver[cell] = g.ver[cell]
                                \/ /\ cell \in {"keys", "endpoints"}
                                   /\ h.rows.endpoints # g.rows.endpoints
         /\ q.p[1] \in Kinds /\ r.m = "DELETE" /\ r.p = <<q.p[1], ":id">> =>
               h.rows[q.p[1]] = g.rows[q.p[1]] \ {q.p[2]}
<1> DEFINE k == q.p[1]
<1>1. /\ Whole(g) /\ g.rows \in [Kinds -> SUBSET STRING] /\ g.ver \in [Cells -> Nat]
      /\ g.born \in [Kinds -> 1..Len(Ids)]
  BY GatewayFields
<1>2. CASE h = g /\ ~(k \in Kinds /\ r.m = "DELETE" /\ r.p = <<k, ":id">>)
  BY <1>2
<1>3. CASE k \in Kinds /\ r.m = "POST" /\ r.p = <<k>>
  <2> DEFINE born == [g.born EXCEPT ![k] = @ + 1]
             lists == [g.rows EXCEPT ![k] = @ \cup {Ids[g.born[k] + 1]}]
  <2>1. g.born[k] # Len(Ids) /\ h = [g EXCEPT !.born[k] = @ + 1, !.rows[k] = @ \cup {Ids[g.born[k] + 1]}]
    BY <1>3 DEF WithRows
  <2>2. g.born[k] \in 1..Len(Ids) /\ Len(Ids) \in Nat /\ Ids \in Seq(STRING)
    BY <1>3, <1>1, ManagementAssumption DEF ManagementAssumption
  <2>3. born \in [Kinds -> 1..Len(Ids)]
    <3>1. g.born[k] + 1 \in 1..Len(Ids)
      BY <2>1, <2>2
    <3> QED
      BY <1>1, <3>1
  <2>4. Ids[g.born[k] + 1] \in STRING
    BY <2>1, <2>2
  <2>5. lists \in [Kinds -> SUBSET STRING]
    BY <1>3, <1>1, <2>4
  <2>6. /\ Whole(h) /\ h.born = born /\ h.rows = lists
        /\ \A other \in Fields \ {"born", "rows"} : h[other] = g[other]
    BY <1>1, <2>1 DEF Whole, Fields
  <2> HIDE DEF born, lists
  <2>7. h \in Gateways
    BY <2>3, <2>5, <2>6, GatewayFields DEF Fields
  <2>8. h.ver = g.ver /\ r.m # "DELETE"
    BY <1>3, <2>6 DEF Fields
  <2> QED
    BY <2>7, <2>8
<1>4. CASE k \in Kinds /\ r.m = "DELETE" /\ r.p = <<k, ":id">>
  <2> DEFINE lists == [g.rows EXCEPT ![k] = @ \ {q.p[2]}]
             gone == [g EXCEPT !.rows[k] = @ \ {q.p[2]}]
             bare == [gone EXCEPT !.rows = [gone.rows EXCEPT !.endpoints = {}],
                                  !.ver = [g.ver EXCEPT !.endpoints = @ + 1, !.keys = @ + 1]]
             ver == [g.ver EXCEPT !.endpoints = @ + 1, !.keys = @ + 1]
  <2>1. h = gone \/ (k = "namespaces" /\ g.rows.endpoints # {} /\ h = bare)
    <3>1. r.m # "POST"
      BY <1>4
    <3>2. WithRows(g, r, q) = IF k # "namespaces" \/ g.rows.endpoints = {} THEN {gone} ELSE {gone, bare}
      BY <1>4, <3>1 DEF WithRows
    <3> QED
      BY <3>2
  <2>2. "endpoints" \in Kinds /\ "endpoints" \in Cells /\ "keys" \in Cells
    BY DEF Kinds, Cells, Config
  <2>3. lists \in [Kinds -> SUBSET STRING] /\ lists[k] = g.rows[k] \ {q.p[2]}
    BY <1>4, <1>1
  <2>4. /\ [lists EXCEPT !.endpoints = {}] \in [Kinds -> SUBSET STRING]
        /\ [lists EXCEPT !.endpoints = {}].endpoints = {}
        /\ k # "endpoints" => [lists EXCEPT !.endpoints = {}][k] = lists[k]
    BY <1>4, <2>2, <2>3
  <2>5. g.ver.endpoints + 1 \in Nat /\ g.ver.keys + 1 \in Nat
    BY <1>1, <2>2
  <2>6. ver \in [Cells -> Nat] /\ \A cell \in Cells \ {"keys", "endpoints"} : ver[cell] = g.ver[cell]
    BY <1>1, <2>2, <2>5
  <2>7. Whole(gone) /\ gone.rows = lists /\ \A other \in Fields \ {"rows"} : gone[other] = g[other]
    BY <1>1 DEF Whole, Fields
  <2> HIDE DEF gone, lists
  <2>8. gone \in Gateways /\ gone.ver = g.ver
    BY <2>3, <2>7, GatewayFields DEF Fields
  <2>9. /\ Whole(bare) /\ bare.rows = [lists EXCEPT !.endpoints = {}] /\ bare.ver = ver
        /\ \A other \in Fields \ {"rows", "ver"} : bare[other] = g[other]
    BY <2>7, <2>8 DEF Whole, Fields
  <2> HIDE DEF bare, ver
  <2>10. bare \in Gateways
    BY <2>4, <2>6, <2>9, GatewayFields DEF Fields
  <2>11. CASE h = gone
    BY <2>3, <2>7, <2>8, <2>11
  <2>12. CASE k = "namespaces" /\ g.rows.endpoints # {} /\ h = bare
    BY <2>3, <2>4, <2>6, <2>9, <2>10, <2>12
  <2> QED
    BY <2>1, <2>11, <2>12
<1> QED
  BY <1>2, <1>3, <1>4, Zenon DEF WithRows

\* What the handler of a route leaves: the versions of the cells it does not write, but for the
\* endpoints and keys that go with a namespace, and every row but the one it deletes.
LEMMA OutcomesKeep ==
  ASSUME NEW g \in Gateways, NEW r, NEW q, NEW o \in Outcomes(g, r, q)
  PROVE  /\ o.gw \in Gateways
         /\ \/ o.gw = g
            \/ /\ \A cell \in Cells \ (r.writes \cup r.may \cup q.body) :
                     \/ o.gw.ver[cell] = g.ver[cell]
                     \/ /\ cell \in {"keys", "endpoints"}
                        /\ o.gw.rows.endpoints # g.rows.endpoints
               /\ q.p[1] \in Kinds /\ r.m = "DELETE" /\ r.p = <<q.p[1], ":id">> =>
                     o.gw.rows[q.p[1]] = g.rows[q.p[1]] \ {q.p[2]}
<1>1. CASE o = Refused(g, 400, q)
  BY <1>1 DEF Refused, Outcome
<1>2. ASSUME NEW cells \in {r.writes \cup q.body, r.writes \cup q.body \cup r.may},
             NEW h \in WithRows(g, r, q),
             o = [Outcome(Bump(h, cells), Ok, r.reads, q) EXCEPT
                     !.gw = Started(WithSettings(Outcome(Bump(h, cells), Ok, r.reads, q).gw, q.body), r)]
      PROVE  /\ o.gw \in Gateways /\ o.gw.ver = Bump(h, cells).ver /\ o.gw.rows = h.rows
             /\ cells \subseteq r.writes \cup r.may \cup q.body
  <2> DEFINE b == Bump(h, cells)
             s == WithSettings(b, q.body)
             e == Started(s, r)
  <2>1. h \in Gateways
    BY WithRowsKeeps
  <2>2. b \in Gateways /\ b.rows = h.rows
    BY <2>1, BumpKeeps
  <2>3. o.gw = e
    BY <1>2 DEF Outcome
  <2> HIDE DEF b
  <2>4. s \in Gateways /\ s.ver = b.ver /\ s.rows = b.rows
    <3>1. (~b.switch) \in BOOLEAN
      BY Zenon
    <3>2. s = b \/ s = [b EXCEPT !["switch"] = ~b.switch]
      BY Zenon DEF WithSettings
    <3> QED
      BY <2>2, <3>1, <3>2, FlagKeeps
  <2> HIDE DEF s
  <2>5. e \in Gateways /\ e.ver = s.ver /\ e.rows = s.rows
    <3>1. e = s \/ e = [s EXCEPT !["auditing"] = TRUE]
      BY Zenon DEF Started
    <3> QED
      BY <2>4, <3>1, FlagKeeps
  <2> HIDE DEF e
  <2> QED
    BY <2>2, <2>3, <2>4, <2>5 DEF b
<1>3. \/ o = Refused(g, 400, q)
      \/ \E cells \in {r.writes \cup q.body, r.writes \cup q.body \cup r.may}, h \in WithRows(g, r, q) :
            o = [Outcome(Bump(h, cells), Ok, r.reads, q) EXCEPT
                     !.gw = Started(WithSettings(Outcome(Bump(h, cells), Ok, r.reads, q).gw, q.body), r)]
  <2> DEFINE changes == {r.writes \cup q.body, r.writes \cup q.body \cup r.may}
             done == UNION {{Outcome(Bump(h, cells), Ok, r.reads, q) : h \in WithRows(g, r, q)} :
                               cells \in {cs \in changes : cs = {} \/ g.writes < MaxWrites}}
             After(u) == [u EXCEPT !.gw = Started(WithSettings(u.gw, q.body), r)]
  <2>1. Outcomes(g, r, q) = {After(u) : u \in done}
                            \cup IF r.writes \cup r.may \cup q.body # {} THEN {Refused(g, 400, q)} ELSE {}
    BY Zenon DEF Outcomes
  <2>2. o = Refused(g, 400, q) \/ \E u \in done : o = After(u)
    <3> HIDE DEF done, After
    <3> QED
      BY <2>1, Zenon
  <2>3. \A u \in done : \E cells \in changes : \E h \in WithRows(g, r, q) :
            u = Outcome(Bump(h, cells), Ok, r.reads, q)
    BY Zenon
  <2> HIDE DEF done
  <2> QED
    BY <2>2, <2>3, Zenon
<1>4. CASE o # Refused(g, 400, q)
  <2>1. PICK cells \in {r.writes \cup q.body, r.writes \cup q.body \cup r.may}, h \in WithRows(g, r, q) :
            o = [Outcome(Bump(h, cells), Ok, r.reads, q) EXCEPT
                     !.gw = Started(WithSettings(Outcome(Bump(h, cells), Ok, r.reads, q).gw, q.body), r)]
    BY <1>3, <1>4
  <2>2. /\ o.gw \in Gateways /\ o.gw.ver = Bump(h, cells).ver /\ o.gw.rows = h.rows
        /\ cells \subseteq r.writes \cup r.may \cup q.body
    BY <2>1, <1>2
  <2>3. h \in Gateways
    BY WithRowsKeeps
  <2>4. \A c \in Cells \ cells : Bump(h, cells).ver[c] = h.ver[c]
    BY <2>3, BumpKeeps
  <2>5. /\ \A cell \in Cells : \/ h.ver[cell] = g.ver[cell]
                               \/ /\ cell \in {"keys", "endpoints"}
                                  /\ h.rows.endpoints # g.rows.endpoints
        /\ q.p[1] \in Kinds /\ r.m = "DELETE" /\ r.p = <<q.p[1], ":id">> =>
              h.rows[q.p[1]] = g.rows[q.p[1]] \ {q.p[2]}
    BY WithRowsKeeps
  <2> QED
    BY <2>2, <2>4, <2>5
<1> QED
  BY <1>1, <1>4

\* A request is handled by a route it matches, for a row that is there; or it changes nothing.
LEMMA HandledBy ==
  ASSUME NEW g, NEW q, NEW o \in Handled(g, q)
  PROVE  \/ o.gw = g
         \/ \E r \in Routes : /\ Matches(r, q) /\ o \in Outcomes(g, r, q)
                              /\ Len(r.p) > 1 /\ r.p[2] = ":id" => q.p[2] \in g.rows[q.p[1]]
<1> DEFINE matching == {r \in Routes : Matches(r, q)}
           r == CHOOSE x \in matching : TRUE
<1>1. CASE o = Refused(g, 404, q)
  BY <1>1 DEF Refused, Outcome
<1>2. CASE o # Refused(g, 404, q)
  <2>1. matching # {}
    BY <1>2, Zenon DEF Handled
  <2>2. r \in matching
    BY <2>1, Zenon
  <2>3. ~(Len(r.p) > 1 /\ r.p[2] = ":id" /\ q.p[2] \notin g.rows[q.p[1]])
    BY <1>2, <2>1, Zenon DEF Handled
  <2>4. o \in Outcomes(g, r, q)
    BY <1>2, <2>1, <2>3, Zenon DEF Handled
  <2> HIDE DEF r
  <2> QED
    BY <2>2, <2>3, <2>4
<1> QED
  BY <1>1, <1>2

\* So the state stays of its type, whatever is asked for.
LEMMA HandledKeeps ==
  ASSUME NEW g \in Gateways, NEW q, NEW o \in Handled(g, q)
  PROVE  o.gw \in Gateways
BY HandledBy, OutcomesKeep, Zenon

\* Whatever a browser asks for.
LEMMA ServedKeeps ==
  ASSUME NEW g \in Gateways, NEW q, NEW o \in Served(g, q)
  PROVE  o.gw \in Gateways
<1>1. CASE o.gw = g
  BY <1>1
<1>2. CASE o \in Handled(g, q)
  BY <1>2, HandledKeeps
<1>3. CASE o.gw = [g EXCEPT !.setup = FALSE, !.session = TRUE] \/ o.gw = [g EXCEPT !.session = TRUE]
           \/ o.gw = [g EXCEPT !.session = FALSE]
  <2>1. [g EXCEPT !["setup"] = FALSE] \in Gateways
    BY FlagKeeps
  <2>2. [[g EXCEPT !["setup"] = FALSE] EXCEPT !["session"] = TRUE] \in Gateways
    BY <2>1, FlagKeeps
  <2>3. [g EXCEPT !["session"] = TRUE] \in Gateways /\ [g EXCEPT !["session"] = FALSE] \in Gateways
    BY FlagKeeps
  <2> QED
    BY <1>3, <2>2, <2>3
<1>4. o.gw = g \/ o \in Handled(g, q) \/ o.gw = [g EXCEPT !.setup = FALSE, !.session = TRUE]
      \/ o.gw = [g EXCEPT !.session = TRUE] \/ o.gw = [g EXCEPT !.session = FALSE]
  <2>1. \A status : Refused(g, status, q).gw = g /\ Outcome(g, Ok, {}, q).gw = g
    BY DEF Refused, Outcome
  <2>2. /\ Outcome([g EXCEPT !.setup = FALSE, !.session = TRUE], Ok, {}, q).gw
              = [g EXCEPT !.setup = FALSE, !.session = TRUE]
        /\ Outcome([g EXCEPT !.session = TRUE], Ok, {}, q).gw = [g EXCEPT !.session = TRUE]
        /\ Outcome([g EXCEPT !.session = FALSE], Ok, {}, q).gw = [g EXCEPT !.session = FALSE]
    BY DEF Outcome
  <2>3. CASE q.p \notin OpenPaths
    <3>1. \/ o = Refused(g, 401, q) \/ o = Outcome([g EXCEPT !.session = FALSE], Ok, {}, q)
          \/ o \in Handled(g, q)
      BY <2>3, Zenon DEF Served
    <3> QED
      BY <2>1, <2>2, <3>1, Zenon
  <2>4. ASSUME q.p \in OpenPaths
        PROVE  o \in SessionHandled(g, q)
    BY <2>4, Zenon DEF Served
  <2>5. CASE q.p = <<"session">>
    <3>1. SessionHandled(g, q) = {Outcome(g, Ok, {}, q)}
      BY <2>5 DEF SessionHandled
    <3> QED
      BY <2>1, <2>4, <2>5, <3>1, Zenon DEF OpenPaths
  <2>6. CASE q.p = <<"session", "setup">>
    <3>1. SessionHandled(g, q) =
            IF g.setup THEN {Outcome([g EXCEPT !.setup = FALSE, !.session = TRUE], Ok, {}, q)}
            ELSE {Refused(g, 400, q)}
      BY <2>6 DEF SessionHandled
    <3>2. o \in SessionHandled(g, q)
      BY <2>4, <2>6, Zenon DEF OpenPaths
    <3> DEFINE in == Outcome([g EXCEPT !.setup = FALSE, !.session = TRUE], Ok, {}, q)
               no == Refused(g, 400, q)
    <3>3. o = in \/ o = no
      <4> HIDE DEF in, no
      <4> QED
        BY <3>1, <3>2 DEF in, no
    <3> QED
      BY <2>1, <2>2, <3>3, Zenon
  <2>7. CASE q.p = <<"session", "login">>
    <3>1. SessionHandled(g, q) =
            {Refused(g, 401, q)} \cup
            IF g.setup THEN {} ELSE {Outcome([g EXCEPT !.session = TRUE], Ok, {}, q)}
      BY <2>7 DEF SessionHandled
    <3>2. o \in SessionHandled(g, q)
      BY <2>4, <2>7, Zenon DEF OpenPaths
    <3> DEFINE in == Outcome([g EXCEPT !.session = TRUE], Ok, {}, q)
               no == Refused(g, 401, q)
    <3>3. o = in \/ o = no
      <4> HIDE DEF in, no
      <4> QED
        BY <3>1, <3>2 DEF in, no
    <3> QED
      BY <2>1, <2>2, <3>3, Zenon
  <2> QED
    BY <2>3, <2>5, <2>6, <2>7, Zenon DEF OpenPaths
<1> QED
  BY <1>1, <1>2, <1>3, <1>4

-----------------------------------------------------------------------------
(***************************************************************************)
(* What the tools ask for.                                                 *)
(***************************************************************************)

\* An input of one segment takes the place of the mark, and every other segment stays where it is.
LEMMA SplicedKeeps ==
  ASSUME NEW S, NEW p \in Seq(S), NEW mark, NEW input \in Seq(S), mark \in Range(p) => Len(input) = 1
  PROVE  /\ Spliced(p, mark, input) \in Seq(S) /\ Len(Spliced(p, mark, input)) = Len(p)
         /\ \A k \in 1..Len(p) : p[k] # mark => Spliced(p, mark, input)[k] = p[k]
<1>1. CASE mark \notin Range(p)
  BY <1>1 DEF Spliced
<1>2. CASE mark \in Range(p)
  <2> DEFINE at == CHOOSE j \in DOMAIN p : p[j] = mark
  <2>1. at \in 1..Len(p) /\ p[at] = mark
    <3>1. \E j \in DOMAIN p : p[j] = mark
      BY <1>2, Zenon DEF Range
    <3>2. DOMAIN p = 1..Len(p)
      OBVIOUS
    <3> QED
      BY <3>1, <3>2, Zenon
  <2> HIDE DEF at
  <2> DEFINE left == SubSeq(p, 1, at - 1)
             right == SubSeq(p, at + 1, Len(p))
  <2>2. Len(p) \in Nat /\ Len(input) = 1
    BY <1>2
  <2>3. /\ left \in Seq(S) /\ Len(left) = at - 1
        /\ \A k \in 1..(at - 1) : left[k] = p[k]
    BY <2>1, <2>2
  <2>4. /\ right \in Seq(S) /\ Len(right) = Len(p) - at
        /\ \A k \in 1..(Len(p) - at) : right[k] = p[at + k]
    BY <2>1, <2>2
  <2> HIDE DEF left, right
  <2>5. Spliced(p, mark, input) = left \o input \o right
    BY <1>2, Zenon DEF Spliced, at, left, right
  <2>6. /\ left \o input \in Seq(S) /\ Len(left \o input) = at
        /\ \A k \in 1..(at - 1) : (left \o input)[k] = p[k]
    <3>1. left \o input \in Seq(S) /\ Len(left \o input) = Len(left) + Len(input)
      BY <2>3, ConcatProperties
    <3>2. \A i \in 1..Len(left) + Len(input) :
             (left \o input)[i] = IF i <= Len(left) THEN left[i] ELSE input[i - Len(left)]
      BY <2>3, ConcatProperties
    <3> QED
      BY <2>1, <2>2, <2>3, <3>1, <3>2
  <2> DEFINE begin == left \o input
  <2> HIDE DEF begin
  <2>7. begin \o right \in Seq(S) /\ Len(begin \o right) = Len(p)
    BY <2>1, <2>2, <2>4, <2>6, ConcatProperties DEF begin
  <2>8. ASSUME NEW k \in 1..Len(p), p[k] # mark
        PROVE  (begin \o right)[k] = p[k]
    <3>1. CASE k < at
      <4>1. begin \in Seq(S) /\ Len(begin) = at /\ begin[k] = p[k]
        BY <2>1, <2>2, <2>6, <2>8, <3>1 DEF begin
      <4>2. \A i \in 1..Len(begin) + Len(right) :
               (begin \o right)[i] = IF i <= Len(begin) THEN begin[i] ELSE right[i - Len(begin)]
        BY <2>4, <4>1, ConcatProperties
      <4> QED
        BY <2>1, <2>2, <2>4, <3>1, <4>1, <4>2
    <3>2. CASE k > at
      <4>1. k - at \in 1..Len(right) /\ right[k - at] = p[k]
        BY <2>1, <2>2, <2>4, <3>2
      <4> QED
        BY <2>1, <2>2, <2>4, <2>6, <3>2, <4>1, ConcatProperties DEF begin
    <3>3. k < at \/ k > at
      <4>1. k # at
        BY <2>1, <2>8
      <4> QED
        BY <2>1, <2>2, <4>1
    <3> QED
      BY <3>1, <3>2, <3>3, Zenon
  <2> QED
    BY <2>5, <2>7, <2>8 DEF begin
<1> QED
  BY <1>1, <1>2

\* The segments the tools' and the routes' paths are written with, those an agent sends in, and
\* the paths made of them.
Literals ==
    {"servers", "preview", ":id", "start", "stop", "restart", "reset", "test", "tools", "logs", "oauth",
     "refresh", "namespaces", ":ref", "x", "validate", "instructions", "endpoints", "protocols", "registry",
     "server", "health", "docker", "audit", "settings", "request-log", "api-keys", "clients", "run"}
Segments == Literals \cup STRING
Paths == Seq(Segments)
Methods == {"GET", "POST", "PUT", "PATCH", "DELETE"}

\* Paths by their length.
LEMMA PathsAre ==
  /\ \A a : Len(<<a>>) = 1 /\ (a \in Segments => <<a>> \in Paths)
  /\ \A a, b : Len(<<a, b>>) = 2 /\ ({a, b} \subseteq Segments => <<a, b>> \in Paths)
  /\ \A a, b, c : Len(<<a, b, c>>) = 3 /\ ({a, b, c} \subseteq Segments => <<a, b, c>> \in Paths)
  /\ \A a, b, c, d : Len(<<a, b, c, d>>) = 4 /\ ({a, b, c, d} \subseteq Segments => <<a, b, c, d>> \in Paths)
  /\ \A a, b, c, d, e : /\ Len(<<a, b, c, d, e>>) = 5
                        /\ {a, b, c, d, e} \subseteq Segments => <<a, b, c, d, e>> \in Paths
BY DEF Paths

\* What no tool asks for and no route leads to by it: a request that is nothing of an
\* administrator's alone.
Harmless(q) ==
    /\ Len(q.p) > 0 /\ q.m \in Methods
    /\ q.m # "GET" => q.p[1] \notin {"oauth", "api-keys"}
    /\ q.m = "PUT" => q.p[1] # "servers"
    /\ q.m = "DELETE" /\ q.p[1] = "servers" => Len(q.p) = 2 \/ (Len(q.p) = 3 /\ q.p[3] = "oauth")

\* A tool's path begins with a name, and has a second input only after a first.
Fillable(p) ==
    /\ p \in Paths
    /\ p[1] \notin {":id", ":ref"}
    /\ Len(p) = 3 => p[3] \notin {":id", ":ref"}
    /\ \A k \in 1..Len(p) : p[k] = ":ref" => Len(p) > 1 /\ p[2] = ":id"

\* A tool is its method, its path and the bodies it may send.
LEMMA ToolsAre ==
  /\ \A m, p : Plain(m, p).m = m /\ Plain(m, p).p = p /\ Plain(m, p).bodies = {{}}
  /\ \A m, p, bodies : /\ Tool(m, p, bodies).m = m /\ Tool(m, p, bodies).p = p
                       /\ Tool(m, p, bodies).bodies = bodies
BY DEF Plain, Tool

\* No tool is made to ask for what is an administrator's alone (admin/tools/).
LEMMA ToolsAreHarmless == \A t \in Tools : Harmless(t) /\ Fillable(t.p)
<1>1. Literals \subseteq Segments
  BY DEF Segments
<1> DEFINE Fine(t) == Harmless(t) /\ Fillable(t.p)
<1>2. \A t \in ServerRowTools : Fine(t)
  BY <1>1, PathsAre, ToolsAre DEF ServerRowTools, Literals, Harmless, Fillable, Methods
<1>3. \A t \in ServerProcessTools : Fine(t)
  BY <1>1, PathsAre, ToolsAre DEF ServerProcessTools, Literals, Harmless, Fillable, Methods
<1>4. \A t \in ServerLookTools : Fine(t)
  BY <1>1, PathsAre, ToolsAre DEF ServerLookTools, Literals, Harmless, Fillable, Methods
<1>5. \A t \in ServerOauthTools : Fine(t)
  BY <1>1, PathsAre, ToolsAre DEF ServerOauthTools, Literals, Harmless, Fillable, Methods
<1>6. \A t \in NamespaceRowTools : Fine(t)
  <2>1. \A t \in NamespaceRowTools : Harmless(t)
    BY PathsAre, ToolsAre DEF NamespaceRowTools, Harmless, Methods
  <2>2. \A t \in NamespaceRowTools : t.p \in Paths
    BY <1>1, PathsAre, ToolsAre DEF NamespaceRowTools, Literals
  <2>3. \A t \in NamespaceRowTools :
           /\ t.p[1] \notin {":id", ":ref"}
           /\ Len(t.p) = 3 => t.p[3] \notin {":id", ":ref"}
    BY PathsAre, ToolsAre DEF NamespaceRowTools
  <2>4. \A t \in NamespaceRowTools : \A k \in 1..Len(t.p) : t.p[k] = ":ref" => Len(t.p) > 1 /\ t.p[2] = ":id"
    BY PathsAre, ToolsAre DEF NamespaceRowTools
  <2> QED
    BY <2>1, <2>2, <2>3, <2>4 DEF Fillable
<1>7. \A t \in NamespaceToolTools : Fine(t)
  BY <1>1, PathsAre, ToolsAre DEF NamespaceToolTools, Literals, Harmless, Fillable, Methods
<1>8. \A t \in EndpointTools : Fine(t)
  <2>1. \A t \in EndpointTools : Harmless(t)
    BY PathsAre, ToolsAre DEF EndpointTools, Harmless, Methods
  <2>2. \A t \in EndpointTools : t.p \in Paths
    BY <1>1, PathsAre, ToolsAre DEF EndpointTools, Literals
  <2>3. \A t \in EndpointTools :
           /\ t.p[1] \notin {":id", ":ref"}
           /\ Len(t.p) = 3 => t.p[3] \notin {":id", ":ref"}
    BY PathsAre, ToolsAre DEF EndpointTools
  <2>4. \A t \in EndpointTools : \A k \in 1..Len(t.p) : t.p[k] = ":ref" => Len(t.p) > 1 /\ t.p[2] = ":id"
    BY PathsAre, ToolsAre DEF EndpointTools
  <2> QED
    BY <2>1, <2>2, <2>3, <2>4 DEF Fillable
<1>9. \A t \in RegistryTools : Fine(t)
  BY <1>1, PathsAre, ToolsAre DEF RegistryTools, Literals, Harmless, Fillable, Methods
<1>10. \A t \in MiscTools : Fine(t)
  BY <1>1, PathsAre, ToolsAre DEF MiscTools, Literals, Harmless, Fillable, Methods
<1> HIDE DEF Fine
<1>11. \A t \in Tools : Fine(t)
  BY <1>2, <1>3, <1>4, <1>5, <1>6, <1>7, <1>8, <1>9, <1>10, Zenon DEF Tools
<1> QED
  BY <1>11, Zenon DEF Fine

\* What an agent may send in place of an id is put into one segment, or not at all: the request
\* is as harmless as the tool.
LEMMA CallsAreHarmless ==
  ASSUME NEW t \in Tools, NEW id \in Inputs, NEW ref \in Inputs, NEW body, Accepts(t, id, ref, body)
  PROVE  Harmless(Request(t.m, Filled(t.p, id, ref), body))
<1>1. Harmless(t) /\ Fillable(t.p)
  BY ToolsAreHarmless
<1>2. id \in Paths /\ ref \in Paths
  <2>1. id \in Seq(STRING) /\ ref \in Seq(STRING)
    BY AdminMcpAssumption DEF AdminMcpAssumption
  <2>2. STRING \subseteq Segments
    BY DEF Segments
  <2> QED
    BY <2>1, <2>2, SeqMonotonic, Zenon DEF Paths
<1>3. t.p \in Seq(Segments) /\ DOMAIN t.p = 1..Len(t.p) /\ Len(t.p) \in Nat
  BY <1>1 DEF Fillable, Paths
<1> DEFINE half == Spliced(t.p, ":ref", ref)
           whole == Spliced(half, ":id", id)
<1>4. /\ half \in Seq(Segments) /\ Len(half) = Len(t.p)
      /\ \A k \in 1..Len(t.p) : t.p[k] # ":ref" => half[k] = t.p[k]
  <2>1. ":ref" \in Range(t.p) => Len(ref) = 1
    BY Zenon DEF Accepts, IsId
  <2>2. ref \in Seq(Segments)
    BY <1>2 DEF Paths
  <2> QED
    BY <1>3, <2>1, <2>2, SplicedKeeps
<1> HIDE DEF half
<1>5. ":id" \in Range(half) => Len(id) = 1
  <2>1. ":id" \in Range(t.p) => Len(id) = 1
    BY Zenon DEF Accepts, IsId
  <2>2. CASE ":ref" \in Range(t.p)
    <3>1. PICK k \in 1..Len(t.p) : t.p[k] = ":ref"
      BY <1>3, <2>2, Zenon DEF Range
    <3>2. 2 \in 1..Len(t.p) /\ t.p[2] = ":id"
      BY <1>1, <1>3, <3>1 DEF Fillable
    <3>3. ":id" \in Range(t.p)
      BY <1>3, <3>2, Zenon DEF Range
    <3> QED
      BY <2>1, <3>3
  <2>3. CASE ":ref" \notin Range(t.p)
    <3>1. half = t.p
      BY <2>3, Zenon DEF Spliced, half
    <3> QED
      BY <2>1, <3>1
  <2> QED
    BY <2>2, <2>3
<1>6. /\ Len(whole) = Len(half)
      /\ \A k \in 1..Len(half) : half[k] # ":id" => whole[k] = half[k]
  <2>1. id \in Seq(Segments)
    BY <1>2 DEF Paths
  <2> QED
    BY <1>4, <1>5, <2>1, SplicedKeeps
<1> HIDE DEF whole
<1>7. /\ Len(whole) = Len(t.p) /\ whole[1] = t.p[1]
      /\ Len(t.p) = 3 => whole[3] = t.p[3]
  BY <1>1, <1>3, <1>4, <1>6 DEF Fillable, Harmless
<1>8. Filled(t.p, id, ref) = whole
  BY Zenon DEF Filled, whole, half
<1> QED
  BY <1>1, <1>7, <1>8 DEF Harmless, Request

\* Its body is of nothing reserved either.
LEMMA BodiesAreHarmless ==
  ASSUME NEW t \in Tools, NEW id, NEW ref, NEW body \in t.bodies, Accepts(t, id, ref, body)
  PROVE  body \cap Reserved = {}
<1>1. CASE body = {}
  BY <1>1
<1>2. CASE body \in {{"members"}, {"members", "texts"}}
  BY <1>2 DEF Reserved
<1>3. CASE t.p = <<"settings">>
  BY <1>3 DEF Accepts, AgentSettings, Reserved
<1> DEFINE Small(u) == \/ u.bodies = {{}} \/ u.bodies = {{"members"}, {"members", "texts"}}
                       \/ u.p = <<"settings">>
<1>4. \A u \in ServerRowTools : Small(u)
  BY ToolsAre DEF ServerRowTools
<1>5. \A u \in ServerProcessTools : Small(u)
  BY ToolsAre DEF ServerProcessTools
<1>6. \A u \in ServerLookTools : Small(u)
  BY ToolsAre DEF ServerLookTools
<1>7. \A u \in ServerOauthTools : Small(u)
  BY ToolsAre DEF ServerOauthTools
<1>8. \A u \in NamespaceRowTools : Small(u)
  BY ToolsAre DEF NamespaceRowTools
<1>9. \A u \in NamespaceToolTools : Small(u)
  BY ToolsAre DEF NamespaceToolTools
<1>10. \A u \in EndpointTools : Small(u)
  BY ToolsAre DEF EndpointTools
<1>11. \A u \in RegistryTools : Small(u)
  BY ToolsAre DEF RegistryTools
<1>12. \A u \in MiscTools : Small(u)
  BY ToolsAre DEF MiscTools
<1> HIDE DEF Small
<1>13. Small(t)
  BY <1>4, <1>5, <1>6, <1>7, <1>8, <1>9, <1>10, <1>11, <1>12, Zenon DEF Tools
<1> QED
  BY <1>1, <1>2, <1>3, <1>13, Zenon DEF Small

\* The routes that change what is reserved: those of an administrator alone, and those that
\* delete a server or an endpoint.
Spares(r, cells) == \A cell \in cells : cell \notin r.writes /\ cell \notin r.may

\* The routes of keys and grants, a server's row as a whole, its quarantine and ignored findings.
HumansOnly(r) ==
    /\ Len(r.p) \in Nat \ {0}
    /\ \/ r.m # "GET" /\ r.p[1] \in {"oauth", "api-keys"}
       \/ r.m = "PUT" /\ r.p[1] = "servers"
       \/ /\ r.m = "DELETE" /\ r.p[1] = "servers"
          /\ Len(r.p) = 5 \/ (Len(r.p) = 3 /\ r.p[3] = "quarantine")

\* A route leaves what is reserved, or deletes the row it belongs to, or is an administrator's alone.
Parted(r) ==
    \/ Spares(r, Reserved)
    \/ r.m = "DELETE" /\ r.p = <<"servers", ":id">> /\ Spares(r, Reserved \ {"ignores"})
    \/ r.m = "DELETE" /\ r.p = <<"endpoints", ":id">> /\ Spares(r, Reserved \ {"keys"})
    \/ HumansOnly(r)

\* A route is its method, its path and the cells it writes or may write.
LEMMA RoutesAre ==
  /\ \A p, reads : /\ Get(p, reads).m = "GET" /\ Get(p, reads).p = p
                   /\ Get(p, reads).writes = {} /\ Get(p, reads).may = {}
  /\ \A m, p, reads, writes, may : /\ Route(m, p, reads, writes, may).m = m
                                   /\ Route(m, p, reads, writes, may).p = p
                                   /\ Route(m, p, reads, writes, may).writes = writes
                                   /\ Route(m, p, reads, writes, may).may = may
BY DEF Get, Route

\* The routes of api/ are parted so.
LEMMA RoutesAreParted == \A r \in Routes : Parted(r)
<1>1. \A r \in ServerRowRoutes : Parted(r)
  BY PathsAre, RoutesAre DEF ServerRowRoutes, Parted, Spares, HumansOnly, Reserved
<1>2. \A r \in ServerProcessRoutes : Parted(r)
  BY PathsAre, RoutesAre DEF ServerProcessRoutes, Parted, Spares, HumansOnly, Reserved
<1>3. \A r \in ServerLookRoutes : Parted(r)
  BY PathsAre, RoutesAre DEF ServerLookRoutes, Parted, Spares, HumansOnly, Reserved
<1>4. \A r \in ServerOauthRoutes : Parted(r)
  BY PathsAre, RoutesAre DEF ServerOauthRoutes, Parted, Spares, HumansOnly, Reserved
<1>5. \A r \in ServerAuditRoutes : Parted(r)
  BY PathsAre, RoutesAre DEF ServerAuditRoutes, Parted, Spares, HumansOnly, Reserved
<1>6. \A r \in NamespaceRowRoutes : Parted(r)
  BY PathsAre, RoutesAre DEF NamespaceRowRoutes, Parted, Spares, HumansOnly, Reserved
<1>7. \A r \in NamespaceToolRoutes : Parted(r)
  BY PathsAre, RoutesAre DEF NamespaceToolRoutes, Parted, Spares, HumansOnly, Reserved
<1>8. \A r \in EndpointRoutes : Parted(r)
  BY PathsAre, RoutesAre DEF EndpointRoutes, Parted, Spares, HumansOnly, Reserved
<1>9. \A r \in KeyRoutes : Parted(r)
  BY PathsAre, RoutesAre DEF KeyRoutes, Parted, Spares, HumansOnly, Reserved
<1>10. \A r \in OauthRoutes : Parted(r)
  BY PathsAre, RoutesAre DEF OauthRoutes, Parted, Spares, HumansOnly, Reserved
<1>11. \A r \in RegistryRoutes : Parted(r)
  BY PathsAre, RoutesAre DEF RegistryRoutes, Parted, Spares, HumansOnly, Reserved
<1>12. \A r \in SettingsRoutes : Parted(r)
  BY PathsAre, RoutesAre DEF SettingsRoutes, Parted, Spares, HumansOnly, Reserved
<1>13. \A r \in DockerRoutes : Parted(r)
  BY PathsAre, RoutesAre DEF DockerRoutes, Parted, Spares, HumansOnly, Reserved
<1>14. \A r \in LogRoutes : Parted(r)
  BY PathsAre, RoutesAre DEF LogRoutes, Parted, Spares, HumansOnly, Reserved
<1>15. \A r \in AuditRoutes : Parted(r)
  BY PathsAre, RoutesAre DEF AuditRoutes, Parted, Spares, HumansOnly, Reserved
<1>16. Parted(Get(<<"health">>, HealthCells))
  BY RoutesAre DEF Parted, Spares
<1> QED
  BY <1>1, <1>2, <1>3, <1>4, <1>5, <1>6, <1>7, <1>8, <1>9, <1>10, <1>11, <1>12, <1>13, <1>14, <1>15,
     <1>16, Zenon DEF Routes

\* A harmless request matches none of an administrator's alone.
LEMMA HarmlessMatches ==
  ASSUME NEW r, NEW q, Matches(r, q), HumansOnly(r), Harmless(q)
  PROVE  FALSE
<1>1. /\ r.m = q.m /\ Len(r.p) = Len(q.p)
      /\ \A k \in 1..Len(r.p) : r.p[k] \in {":id", ":x", q.p[k]}
  BY DEF Matches
<1>2. Len(r.p) \in Nat \ {0}
  BY DEF HumansOnly
<1>3. r.p[1] \in {":id", ":x", q.p[1]}
  BY <1>1, <1>2
<1>4. CASE r.m # "GET" /\ r.p[1] \in {"oauth", "api-keys"}
  BY <1>1, <1>3, <1>4 DEF Harmless
<1>5. CASE r.m = "PUT" /\ r.p[1] = "servers"
  BY <1>1, <1>3, <1>5 DEF Harmless
<1>6. CASE r.m = "DELETE" /\ r.p[1] = "servers" /\ Len(r.p) = 5
  BY <1>1, <1>3, <1>6 DEF Harmless
<1>7. CASE r.m = "DELETE" /\ r.p[1] = "servers" /\ Len(r.p) = 3 /\ r.p[3] = "quarantine"
  <2>1. q.m = "DELETE" /\ q.p[1] = "servers" /\ Len(q.p) = 3 /\ q.p[3] = "quarantine"
    BY <1>1, <1>3, <1>7
  <2> QED
    BY <2>1 DEF Harmless
<1> QED
  BY <1>4, <1>5, <1>6, <1>7 DEF HumansOnly

-----------------------------------------------------------------------------
(***************************************************************************)
(* Steps.                                                                  *)
(***************************************************************************)

\* What is reserved is of the gateway.
LEMMA ReservedAreCells == Reserved \subseteq Cells
BY DEF Reserved, Cells, Config

\* What is harmless spares what is reserved, or takes it away with the row it belongs to.
LEMMA HandledSpares ==
  ASSUME gw \in Gateways, NEW q, Harmless(q), q.body \cap Reserved = {},
         NEW o \in Handled(gw, q), gw' = o.gw, NEW cell \in Reserved
  PROVE  gw'.ver[cell] = gw.ver[cell] \/ GoneWith(cell)
<1>1. CASE o.gw = gw
  BY <1>1
<1>2. ASSUME NEW r \in Routes, Matches(r, q), o \in Outcomes(gw, r, q),
             Len(r.p) > 1 /\ r.p[2] = ":id" => q.p[2] \in gw.rows[q.p[1]]
      PROVE  gw'.ver[cell] = gw.ver[cell] \/ GoneWith(cell)
  <2>1. CASE o.gw = gw
    BY <2>1
  <2>2. CASE o.gw # gw
    <3>1. /\ \A c \in Cells \ (r.writes \cup r.may \cup q.body) :
                \/ gw'.ver[c] = gw.ver[c]
                \/ /\ c \in {"keys", "endpoints"}
                   /\ gw'.rows.endpoints # gw.rows.endpoints
          /\ q.p[1] \in Kinds /\ r.m = "DELETE" /\ r.p = <<q.p[1], ":id">> =>
                gw'.rows[q.p[1]] = gw.rows[q.p[1]] \ {q.p[2]}
      BY <1>2, <2>2, OutcomesKeep
    <3>2. ASSUME cell \notin r.writes /\ cell \notin r.may
          PROVE  gw'.ver[cell] = gw.ver[cell] \/ GoneWith(cell)
      <4>1. cell \in Cells \ (r.writes \cup r.may \cup q.body) /\ cell # "endpoints"
        BY <3>2, ReservedAreCells DEF Reserved
      <4> QED
        BY <3>1, <4>1 DEF GoneWith
    <3>3. ASSUME NEW kind \in Kinds, r.m = "DELETE", r.p = <<kind, ":id">>, kind \notin {":id", ":x"}
          PROVE  gw'.rows[kind] # gw.rows[kind]
      <4>1. q.p[1] = kind /\ Len(r.p) = 2 /\ r.p[2] = ":id"
        BY <1>2, <3>3 DEF Matches
      <4>2. q.p[2] \in gw.rows[kind]
        BY <1>2, <4>1
      <4>3. gw'.rows[kind] = gw.rows[kind] \ {q.p[2]}
        BY <3>1, <3>3, <4>1
      <4> QED
        BY <4>2, <4>3
    <3>4. CASE r.m = "DELETE" /\ r.p = <<"servers", ":id">> /\ Spares(r, Reserved \ {"ignores"})
      <4>1. gw'.rows.servers # gw.rows.servers
        BY <3>3, <3>4 DEF Kinds
      <4>2. CASE cell = "ignores"
        BY <4>1, <4>2 DEF GoneWith
      <4>3. CASE cell # "ignores"
        BY <3>2, <3>4, <4>3 DEF Spares
      <4> QED
        BY <4>2, <4>3
    <3>5. CASE r.m = "DELETE" /\ r.p = <<"endpoints", ":id">> /\ Spares(r, Reserved \ {"keys"})
      <4>1. gw'.rows.endpoints # gw.rows.endpoints
        BY <3>3, <3>5 DEF Kinds
      <4>2. CASE cell = "keys"
        BY <4>1, <4>2 DEF GoneWith
      <4>3. CASE cell # "keys"
        BY <3>2, <3>5, <4>3 DEF Spares
      <4> QED
        BY <4>2, <4>3
    <3>6. CASE Spares(r, Reserved)
      BY <3>2, <3>6 DEF Spares
    <3>7. ~HumansOnly(r)
      BY <1>2, HarmlessMatches
    <3> QED
      BY <3>4, <3>5, <3>6, <3>7, RoutesAreParted DEF Parted
  <2> QED
    BY <2>1, <2>2
<1> QED
  BY <1>1, <1>2, HandledBy

\* The requests an agent makes, whatever it sends for an id.
\* A tool without a second input is called with some input all the same.
LEMMA InputsOfOneSegment == <<Ids[1]>> \in Inputs
<1>1. 1 \in 1..Len(Ids)
  BY ManagementAssumption DEF ManagementAssumption
<1> QED
  BY <1>1, AdminMcpAssumption DEF AdminMcpAssumption

LEMMA AgentAsks ==
  ASSUME Agent
  PROVE  \/ UNCHANGED gw
         \/ gw' = [gw EXCEPT !.ver.log = @ + 1]
         \/ \E q : Harmless(q) /\ q.body \cap Reserved = {} /\ \E o \in Handled(gw, q) : gw' = o.gw
<1>1. CASE Admit \/ Refuse \/ ReadResource
  BY <1>1 DEF Admit, Refuse, ReadResource
<1>2. CASE CallTool
  <2>1. PICK t \in Tools :
          \E id \in Inputs, ref \in IF ":ref" \in Range(t.p) THEN Inputs ELSE {<<Ids[1]>>} :
          \E body \in t.bodies :
             /\ Accepts(t, id, ref, body)
             /\ \E o \in Handled(gw, Request(t.m, Filled(t.p, id, ref), body)) : gw' = o.gw
    BY <1>2, Zenon DEF CallTool
  <2>2. PICK id \in Inputs, ref \in Inputs, body \in t.bodies :
             /\ Accepts(t, id, ref, body)
             /\ \E o \in Handled(gw, Request(t.m, Filled(t.p, id, ref), body)) : gw' = o.gw
    <3>1. (IF ":ref" \in Range(t.p) THEN Inputs ELSE {<<Ids[1]>>}) \subseteq Inputs
      BY InputsOfOneSegment
    <3> QED
      BY <2>1, <3>1
  <2> DEFINE q == Request(t.m, Filled(t.p, id, ref), body)
  <2>3. Harmless(q)
    BY <2>2, CallsAreHarmless
  <2>4. q.body \cap Reserved = {}
    <3>1. q.body = body
      BY DEF Request
    <3> QED
      BY <2>2, <3>1, BodiesAreHarmless
  <2> HIDE DEF q
  <2>5. \E o \in Handled(gw, q) : gw' = o.gw
    BY <2>2 DEF q
  <2> QED
    BY <2>3, <2>4, <2>5
<1>3. CASE ReadEntry
  <2> DEFINE q == Request(Installs.m, Installs.p, {})
  <2>1. Harmless(q) /\ q.body \cap Reserved = {}
    BY PathsAre DEF Installs, Plain, Tool, Request, Harmless, Methods
  <2>2. \E o \in Handled(gw, q) : gw' = o.gw
    BY <1>3, Zenon DEF ReadEntry
  <2> QED
    BY <2>1, <2>2
<1>4. CASE Install
  <2>1. Harmless(Creates) /\ Creates.body \cap Reserved = {}
    BY PathsAre DEF Creates, Request, Harmless, Methods
  <2>2. \E o \in Handled(gw, Creates) : gw' = o.gw
    BY <1>4, Zenon DEF Install
  <2> QED
    BY <2>1, <2>2
<1>5. CASE Record
  BY <1>5 DEF Record
<1> QED
  BY <1>1, <1>2, <1>3, <1>4, <1>5 DEF Agent

\* An agent's call is written to the log and nowhere else.
LEMMA LogKeeps ==
  ASSUME NEW g \in Gateways
  PROVE  /\ [g EXCEPT !.ver.log = @ + 1] \in Gateways
         /\ \A cell \in Cells \ {"log"} : [g EXCEPT !.ver.log = @ + 1].ver[cell] = g.ver[cell]
<1> DEFINE new == [g EXCEPT !.ver.log = @ + 1]
           ver == [g.ver EXCEPT !.log = @ + 1]
<1>1. "log" \in Cells
  BY DEF Cells
<1>2. ver \in [Cells -> Nat] /\ \A cell \in Cells \ {"log"} : ver[cell] = g.ver[cell]
  BY <1>1, GatewayFields
<1>3. /\ Whole(new) /\ new.ver = ver /\ \A other \in Fields \ {"ver"} : new[other] = g[other]
  <2> DEFINE same == [g EXCEPT !.ver = ver]
  <2>1. new = same
    BY GatewayFields DEF Whole, Fields
  <2> HIDE DEF new, ver
  <2>2. Whole(g)
    BY GatewayFields
  <2>3. /\ Whole(same) /\ same.ver = ver /\ \A other \in Fields \ {"ver"} : same[other] = g[other]
    BY <2>2 DEF Whole, Fields
  <2> QED
    BY <2>1, <2>3
<1> HIDE DEF new, ver
<1>4. new \in Gateways
  BY <1>2, <1>3, GatewayFields DEF Fields
<1> QED
  BY <1>2, <1>3, <1>4 DEF new

\* An agent's step.
LEMMA AgentSpares ==
  ASSUME gw \in Gateways, Agent
  PROVE  /\ gw' \in Gateways
         /\ \A cell \in Reserved : gw'.ver[cell] = gw.ver[cell] \/ GoneWith(cell)
<1>1. CASE UNCHANGED gw
  BY <1>1
<1>2. CASE gw' = [gw EXCEPT !.ver.log = @ + 1]
  <2>1. \A cell \in Reserved : cell \in Cells \ {"log"}
    BY ReservedAreCells DEF Reserved
  <2> QED
    BY <1>2, <2>1, LogKeeps
<1>3. CASE \E q : Harmless(q) /\ q.body \cap Reserved = {} /\ \E o \in Handled(gw, q) : gw' = o.gw
  <2>1. PICK q : Harmless(q) /\ q.body \cap Reserved = {} /\ \E o \in Handled(gw, q) : gw' = o.gw
    BY <1>3
  <2>2. PICK o \in Handled(gw, q) : gw' = o.gw
    BY <2>1
  <2>3. o.gw \in Gateways
    BY HandledKeeps
  <2>4. \A cell \in Reserved : gw'.ver[cell] = gw.ver[cell] \/ GoneWith(cell)
    BY <2>1, <2>2, HandledSpares
  <2> QED
    BY <2>2, <2>3, <2>4
<1> QED
  BY <1>1, <1>2, <1>3, AgentAsks

\* What the gateway does by itself.
LEMMA BackgroundKeeps ==
  ASSUME gw \in Gateways, Background
  PROVE  gw' \in Gateways
<1>1. CASE Happens
  BY <1>1, BumpKeeps DEF Happens
<1>2. CASE AuditStarts
  <2> DEFINE new == [gw EXCEPT !.auditing = TRUE, !.writes = @ + 1]
  <2>1. Whole(new) /\ new.auditing = TRUE /\ new.writes = gw.writes + 1
        /\ \A other \in Fields \ {"auditing", "writes"} : new[other] = gw[other]
    BY GatewayFields DEF Whole, Fields
  <2>2. gw' = new
    BY <1>2 DEF AuditStarts
  <2> HIDE DEF new
  <2>3. gw.writes + 1 \in Nat
    BY GatewayFields
  <2> QED
    BY <2>1, <2>2, <2>3, GatewayFields DEF Fields
<1>3. CASE AuditEnds
  <2>1. PICK cells : gw' = [gw EXCEPT !.auditing = FALSE,
                                      !.ver = [c \in Cells |-> IF c \in cells THEN @[c] + 1 ELSE @[c]]]
    BY <1>3, Zenon DEF AuditEnds
  <2> DEFINE ver == [c \in Cells |-> IF c \in cells THEN gw.ver[c] + 1 ELSE gw.ver[c]]
             new == [gw EXCEPT !.auditing = FALSE, !.ver = ver]
  <2>2. gw' = new
    BY <2>1, GatewayFields DEF Whole, Fields
  <2>3. ver \in [Cells -> Nat]
    BY GatewayFields
  <2> HIDE DEF ver
  <2>4. Whole(new) /\ new.auditing = FALSE /\ new.ver = ver
        /\ \A other \in Fields \ {"auditing", "ver"} : new[other] = gw[other]
    BY GatewayFields DEF Whole, Fields
  <2> HIDE DEF new
  <2> QED
    BY <2>2, <2>3, <2>4, GatewayFields DEF Fields
<1> QED
  BY <1>1, <1>2, <1>3 DEF Background

\* What the web console does, the requests it makes included.
LEMMA ConsoleKeeps ==
  ASSUME gw \in Gateways, Console
  PROVE  gw' \in Gateways
<1>1. CASE UNCHANGED gw
  BY <1>1
<1>2. CASE gw' = [gw EXCEPT !.session = FALSE]
  <2>1. [gw EXCEPT !["session"] = FALSE] \in Gateways
    BY FlagKeeps
  <2> QED
    BY <1>2, <2>1
<1>3. CASE \E q : \E o \in Served(gw, q) : gw' = o.gw
  BY <1>3, ServedKeeps
<1>4. CASE Answer
  <2>1. PICK c \in web.calls : Handle(c)
    BY <1>4 DEF Answer
  <2> QED
    BY <1>1, <1>3, <2>1, Zenon DEF Handle
<1>5. CASE Settling
  BY <1>1, <1>5, Zenon DEF Settling, Settle
<1>6. CASE Polling
  BY <1>1, <1>6, Zenon DEF Polling, Poll
<1>7. CASE Outage
  BY <1>1, <1>2, <1>7, Zenon DEF Outage
<1>8. CASE BackOnline \/ Unhide
  BY <1>1, <1>8, Zenon DEF BackOnline, Unhide
<1>9. CASE \E script \in DOMAIN Scripts : Click(script)
  BY <1>1, <1>9, Zenon DEF Click
<1>10. CASE \E link \in Links : GoTo(link[1], link[2])
  BY <1>1, <1>10, Zenon DEF GoTo
<1> QED
  BY <1>4, <1>5, <1>6, <1>7, <1>8, <1>9, <1>10, Zenon DEF Console

\* The gateway as it starts, set up or not.
LEMMA GatewayStarts == GatewayInit => gw \in Gateways
<1> SUFFICES ASSUME GatewayInit
             PROVE  gw \in Gateways
  OBVIOUS
<1>1. PICK setup \in BOOLEAN, switch \in BOOLEAN :
        gw = [ver |-> [c \in Cells |-> 0], writes |-> 0, auditing |-> FALSE,
              rows |-> [k \in Kinds |-> {Ids[1]}], born |-> [k \in Kinds |-> 1],
              switch |-> switch, setup |-> setup, session |-> ~setup]
  BY Zenon DEF GatewayInit
<1>2. Ids[1] \in STRING /\ 1 \in 1..Len(Ids)
  BY ManagementAssumption DEF ManagementAssumption
<1>3. /\ [k \in Kinds |-> {Ids[1]}] \in [Kinds -> SUBSET STRING]
      /\ [k \in Kinds |-> 1] \in [Kinds -> 1..Len(Ids)]
      /\ [c \in Cells |-> 0] \in [Cells -> Nat]
  BY <1>2
<1>4. (~setup) \in BOOLEAN
  BY Zenon
<1> QED
  BY <1>1, <1>3, <1>4, Zenon DEF Gateways

\* Type correctness of what the routes of api/ change (the versions, the rows and the flags they
\* keep), whoever administers the gateway: agents with the admin tools, the web console, or none.
THEOREM GatewayIs == AdministrationSpec => [](gw \in Gateways)
<1>1. AdministrationInit => gw \in Gateways
  BY GatewayStarts DEF AdministrationInit
<1>2. gw \in Gateways /\ [AdministrationNext]_administrationVars => (gw \in Gateways)'
  BY AgentSpares, BackgroundKeeps, ConsoleKeeps, Zenon DEF AdministrationNext, administrationVars, Outside
<1> QED
  BY <1>1, <1>2, PTL DEF AdministrationSpec

\* What the admin tools leave to a human they cannot reach by any input: no call of a tool changes
\* the API keys, the OAuth clients, the ignored advisories or the lifted quarantines, nor a setting
\* that AgentSettingsPatch leaves out, but with the server or the endpoint they belong to
\* (admin/server.ts 23-30, admin/tools/kit.ts 25-27).  What is put in place of an id is one
\* segment of the path, so a request is one of its tool's shape, and no route a tool's shape can
\* match writes what is reserved.
THEOREM Reserves == AdministrationSpec => ReservedForHumans
<1>1. gw \in Gateways /\ [AdministrationNext]_administrationVars =>
        [agent' # agent =>
            \A cell \in Reserved : gw'.ver[cell] = gw.ver[cell] \/ GoneWith(cell)]_agentVars
  BY AgentSpares, Zenon DEF AdministrationNext, administrationVars, agentVars, Outside
<1> QED
  BY <1>1, GatewayIs, PTL DEF AdministrationSpec, ReservedForHumans

===============================================================================
