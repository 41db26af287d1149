------------------------------ MODULE GrantLedger ------------------------------
(***************************************************************************)
(* What the gateway's authorization server promises of a grant: it is      *)
(* asked for, approved by a human once, redeemed once, and from then on    *)
(* passed from one token pair to the next, each taking the place of the    *)
(* one before, for the same client and resource, with no more scopes, and  *)
(* no younger.  It may lapse at any time, and does not come back.          *)
(***************************************************************************)
EXTENDS Naturals

CONSTANT Grants

VARIABLE ledger    \* grant -> where it stands

NoGrant == [at |-> "none"]
Over == [at |-> "over"]

Init == ledger = [g \in Grants |-> NoGrant]

Asked(g) ==
    ledger[g] = NoGrant /\ ledger'[g].at = "asked"

Approved(g) ==
    ledger[g].at = "asked" /\ ledger'[g] = [ledger[g] EXCEPT !.at = "approved"]

\* The birthday of the grant is when its code is redeemed.
Redeemed(g) ==
    /\ ledger[g].at = "approved" /\ ledger'[g].at = "live"
    /\ ledger'[g] = [ledger[g] EXCEPT !.at = "live", !.turn = 1, !.born = ledger'[g].born]

Rotated(g) ==
    /\ ledger[g].at = "live" /\ ledger'[g].at = "live"
    /\ ledger'[g].scopes \subseteq ledger[g].scopes
    /\ ledger'[g] = [ledger[g] EXCEPT !.turn = @ + 1, !.scopes = ledger'[g].scopes]

Lapsed(g) ==
    ledger[g] # NoGrant /\ ledger'[g] = Over

\* Several grants may move at once: many lapse when a client is removed or the
\* tables are pruned, and asking for a grant prunes them first.
Next == \A g \in Grants :
    \/ ledger'[g] = ledger[g]
    \/ Asked(g) \/ Approved(g) \/ Redeemed(g) \/ Rotated(g) \/ Lapsed(g)

Spec == Init /\ [][Next]_ledger
=============================================================================
