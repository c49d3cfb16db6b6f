------------------------------- MODULE Payout -------------------------------
(***************************************************************************)
(* What a batch payout promises whoever funds it: either nothing happens,  *)
(* or in one step every recipient has its share, the payer has paid the    *)
(* receipt's total, and the contract that did it has kept nothing.         *)
(***************************************************************************)
EXTENDS Integers

CONSTANTS
    Holders,   \* the addresses that can hold the token
    Self,      \* the address of the contract
    NoReceipt  \* no payout since the last request

VARIABLES
    balance,  \* the token balance of each holder
    receipt   \* what the last payout reported, until the next request

payoutVars == <<balance, receipt>>

Receipts ==
    [payer : Holders \ {Self}, count : Nat, total : Nat, share : [Holders -> Nat]]

Init ==
    /\ balance \in [Holders -> Nat]
    /\ receipt = NoReceipt

\* Everybody is paid at once.
Pay ==
    /\ receipt' \in Receipts
    /\ receipt'.share[Self] = 0
    /\ balance' = [h \in Holders |->
                      balance[h] + receipt'.share[h]
                          - (IF h = receipt'.payer THEN receipt'.total ELSE 0)]

\* A new request: the last receipt is history.
Forget == receipt' = NoReceipt /\ UNCHANGED balance

\* Somebody sends the contract a token without being asked.
Stray ==
    /\ \E h \in Holders \ {Self} :
           balance' = [balance EXCEPT ![h] = @ - 1, ![Self] = @ + 1]
    /\ UNCHANGED receipt

Next == Pay \/ Forget \/ Stray

Spec == Init /\ [][Next]_payoutVars

=============================================================================
