------------------------------ MODULE TokenLedger ------------------------------
(***************************************************************************)
(* What the token store promises of the credentials of one server: every   *)
(* token set is stored at most once, and within a grant only ever after    *)
(* the sets that were issued before it.  So a rotated refresh token that   *)
(* has been replaced never becomes the stored one again, whatever requests,*)
(* sweeps, logins, disconnections and restarts interleave.                 *)
(***************************************************************************)
EXTENDS Naturals

CONSTANT NoTokens     \* the empty cell

VARIABLES
    cell,             \* the stored token set, a record with a grant and an acc number
    ledger            \* every token set that has been stored

Newer(tokens) == \A old \in ledger : old.grant = tokens.grant => old.acc < tokens.acc

Init == cell = NoTokens /\ ledger = {}

Store(tokens) ==
    /\ Newer(tokens)
    /\ cell' = tokens
    /\ ledger' = ledger \cup {tokens}

Forget ==
    /\ cell' = NoTokens
    /\ UNCHANGED ledger

Next == Store(cell') \/ Forget

Spec == Init /\ [][Next]_<<cell, ledger>>
=============================================================================
