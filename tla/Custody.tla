------------------------------- MODULE Custody -------------------------------
(***************************************************************************)
(* What every SoroRail contract that holds tokens promises, whatever its   *)
(* rules: tokens come in from one payer, go out to that payer or to one    *)
(* payee, never exceed what came in, and once the position is closed       *)
(* nothing is left and nothing moves again.                                *)
(*                                                                         *)
(* Escrow ("pays exactly that amount out exactly once", escrow/types.rs),  *)
(* Stream ("settlement is immediate and complete", stream/contract.rs) and *)
(* Vesting ("claimed + returned + remaining == total") implement this      *)
(* specification under the mappings their modules give.                    *)
(***************************************************************************)
EXTENDS Integers

VARIABLES
    open,     \* the position may still pull and pay
    pulled,   \* tokens pulled from the payer so far
    toPayee,  \* tokens paid to the payee so far
    toPayer   \* tokens returned to the payer so far

custodyVars == <<open, pulled, toPayee, toPayer>>

Left == pulled - toPayee - toPayer

Init ==
    /\ open = TRUE
    /\ pulled = 0
    /\ toPayee = 0
    /\ toPayer = 0

\* The payer adds tokens.
Pull ==
    /\ open
    /\ pulled' > pulled
    /\ UNCHANGED <<open, toPayee, toPayer>>

\* The payee is paid out of what is left.
Pay ==
    /\ open
    /\ toPayee' > toPayee
    /\ toPayee' - toPayee <= Left
    /\ UNCHANGED <<open, pulled, toPayer>>

\* The position closes and all that is left goes to its two parties.
Close ==
    /\ open
    /\ open' = FALSE
    /\ toPayee' >= toPayee
    /\ toPayer' >= toPayer
    /\ (toPayee' - toPayee) + (toPayer' - toPayer) = Left
    /\ UNCHANGED pulled

Next == Pull \/ Pay \/ Close

Spec == Init /\ [][Next]_custodyVars

=============================================================================
