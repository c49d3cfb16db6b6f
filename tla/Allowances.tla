----------------------------- MODULE Allowances -----------------------------
(***************************************************************************)
(* The ledger with allowances: what each signer lets the contract instance *)
(* draw from its balance, and until when.  Like Ledger, none of this is    *)
(* code of this repository: it is the token's approve and transfer_from,   *)
(* modelled from how contracts/recurring uses them.                        *)
(***************************************************************************)
EXTENDS Ledger

CONSTANTS
    Approvers,  \* the signers that use `approve`
    Approvals   \* the amounts offered to `approve`

ASSUME ApprovalsAssumption ==
    /\ Approvers \subseteq Signers
    /\ Approvals \subseteq Nat

VARIABLE allowance  \* of each signer: an amount, and the last moment it is valid

-----------------------------------------------------------------------------

AllowanceTypeOK == allowance \in [Signers -> [amount : Nat, until : 0..U64Max]]

AllowanceInit == allowance = [s \in Signers |-> [amount |-> 0, until |-> 0]]

\* An expired allowance is worth nothing.
Drawable(from) == IF now <= allowance[from].until THEN allowance[from].amount ELSE 0

\* transfer_from, with the contract as the spender.
TransferFromReply(from, to, amount) ==
    IF amount <= Drawable(from) THEN TransferReply(balance, from, to, amount)
    ELSE "TokenError"

Drawn(from, amount) == [allowance EXCEPT ![from].amount = @ - amount]

-----------------------------------------------------------------------------

\* A signer grants, changes or revokes the contract's allowance.
Approve ==
    \E from \in Approvers, amount \in Approvals, until \in now..U64Max :
        /\ allowance' = [allowance EXCEPT ![from] = [amount |-> amount, until |-> until]]
        /\ UNCHANGED ledgerVars

\* A signer spends its tokens elsewhere.
Spend ==
    \E from \in Signers, to \in Signers :
        /\ from # to
        /\ TransferReply(balance, from, to, 1) = "Ok"
        /\ balance' = Transferred(balance, from, to, 1)
        /\ UNCHANGED <<now, frozen, strays, allowance>>

AllowanceNext == Approve \/ Spend \/ (LedgerNext /\ UNCHANGED allowance)

=============================================================================
