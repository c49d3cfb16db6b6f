------------------------------- MODULE Ledger -------------------------------
(***************************************************************************)
(* The ledger around one contract instance: the clock that                 *)
(* env.ledger().timestamp() reads and the token contract that TokenClient  *)
(* calls (a Stellar Asset Contract).  Neither is code of this repository:   *)
(* they are modelled from how the contracts use them.                      *)
(*                                                                         *)
(* A contract call is one transaction: the host runs one call at a time    *)
(* and, when it ends in an error or a trap, undoes all it wrote.  A call   *)
(* that fails is therefore a stuttering step, and an action of a contract  *)
(* module is a call that succeeds.                                         *)
(***************************************************************************)
EXTENDS Integers

CONSTANTS
    Holders,    \* the addresses that can hold the token
    Signers,    \* those that can authorize a call (a contract cannot)
    Self,       \* the address of the contract instance
    U64Max,     \* u64::MAX, scaled down: the bound of every timestamp
    Supply,     \* what each signer owns at first (contracts own nothing)
    Freezable,  \* the holders whose balance the issuer may deauthorize
    Strays      \* bound on the tokens sent to the contract directly

ASSUME LedgerAssumption ==
    /\ Signers \subseteq Holders
    /\ Self \in Holders \ Signers
    /\ U64Max \in Nat
    /\ Supply \in Nat
    /\ Strays \in Nat
    /\ Freezable \subseteq Holders

VARIABLES
    now,      \* the ledger timestamp
    balance,  \* the token balance of each holder
    frozen,   \* the holders the issuer has deauthorized
    strays    \* history: tokens the contract received outside its own calls

ledgerVars == <<now, balance, frozen, strays>>

-----------------------------------------------------------------------------

\* The None of an `Option<u64>` timestamp: later than every timestamp, so that
\* it never is the smaller of two times.
Never == U64Max + 1

\* transfer succeeds for an authorized, covered payment, and traps otherwise.
TransferReply(bal, from, to, amount) ==
    IF {from, to} \cap frozen = {} /\ amount \in 0..bal[from]
    THEN "Ok" ELSE "TokenError"

Transferred(bal, from, to, amount) ==
    [h \in Holders |-> bal[h] - (IF h = from THEN amount ELSE 0)
                              + (IF h = to   THEN amount ELSE 0)]

\* Two payments out of the contract in one call, each made only when positive;
\* the second pays from what the first one left.
PaidBoth(first, x, second, y) ==
    Transferred(Transferred(balance, Self, first, x), Self, second, y)

PayBothReply(first, x, second, y) ==
    LET left == Transferred(balance, Self, first, x)
    IN  IF x > 0 /\ TransferReply(balance, Self, first, x) # "Ok" THEN "TokenError"
        ELSE IF y > 0 THEN TransferReply(left, Self, second, y)
        ELSE "Ok"

\* require_auth: the host traps unless the address signed the transaction.
RequireAuth(signer, address) ==
    IF signer = address THEN "Ok" ELSE "HostAuthError"

\* auth::require_auth_either and require_auth_either_opt: membership first.
RequireAuthEither(signer, caller, parties) ==
    IF caller \in parties THEN RequireAuth(signer, caller) ELSE "Unauthorized"

-----------------------------------------------------------------------------

LedgerTypeOK ==
    /\ now \in 0..U64Max
    /\ balance \in [Holders -> Nat]
    /\ frozen \in SUBSET Freezable
    /\ strays \in Nat

LedgerInit ==
    /\ now = 0
    /\ balance = [h \in Holders |-> IF h \in Signers THEN Supply ELSE 0]
    /\ frozen = {}
    /\ strays = 0

\* The network closes a ledger with a later timestamp.
CloseLedger ==
    /\ now' \in (now + 1)..U64Max
    /\ UNCHANGED <<balance, frozen, strays>>

\* The issuer deauthorizes some holders and authorizes the others.
SetFrozen ==
    /\ frozen' \in SUBSET Freezable \ {frozen}
    /\ UNCHANGED <<now, balance, strays>>

\* Somebody sends a token to the contract's address without calling it.
Stray ==
    \E from \in Signers :
        /\ strays < Strays
        /\ TransferReply(balance, from, Self, 1) = "Ok"
        /\ balance' = Transferred(balance, from, Self, 1)
        /\ strays' = strays + 1
        /\ UNCHANGED <<now, frozen>>

LedgerNext == CloseLedger \/ SetFrozen \/ Stray

\* Ledgers keep closing, and the issuer leaves nobody frozen for ever.
LedgerFairness ==
    /\ WF_ledgerVars(CloseLedger)
    /\ WF_ledgerVars(SetFrozen /\ frozen' = {})

=============================================================================
