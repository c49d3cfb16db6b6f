-------------------------- MODULE RecurringClaims --------------------------
(***************************************************************************)
(* A statement that a comment of contracts/recurring makes and the code    *)
(* does not keep, checked by a run that ends in a counterexample.          *)
(***************************************************************************)
EXTENDS Recurring

\* recurring/contract.rs:177: is_chargeable is "Whether a charge would succeed
\* right now."  Leaving the token aside (it may refuse for lack of funds or
\* allowance, which the contract does not know), every check of charge itself
\* would then pass.
ChargeableMeansCharge ==
    authorization # NoAuthorization /\ IsChargeableAt(authorization, now)
        => ChargeReply(authorization.payee) \in {"Ok", "TokenError"}

=============================================================================
