---------------------------- MODULE EscrowClaims ----------------------------
(***************************************************************************)
(* Instances of Escrow for TLC, and statements that the comments of        *)
(* contracts/escrow make and the code does not keep.  Each is checked by a  *)
(* run of its own that ends in a counterexample (PROJECT.json, findings).  *)
(***************************************************************************)
EXTENDS Escrow

\* escrow/contract.rs:85: cancel "provides an exit from a mistaken `init`
\* without burning the deployed instance".  So a cancelled instance would
\* accept some `init` again, before the end of time.
CancelFreesInstance ==
    (\E i \in DOMAIN events : events[i].kind = "Cancelled") /\ now < U64Max =>
        \E s \in Signers, a \in Amounts :
            InitReply(s, s, s, NoArbiter, a, U64Max) = "Ok"

\* escrow/types.rs:88: the arbiter "May release, refund at any time, and
\* resolve disputes"; escrow/contract.rs:163: "The arbiter may do it at any
\* time".  So `refund` by an arbiter would succeed while funds are held.
ArbiterMayRefundAnyTime ==
    Held > 0 /\ escrow.arbiter \in Signers /\ frozen = {} =>
        RefundReply(escrow.arbiter, escrow.arbiter) = "Ok"

\* escrow/events.rs:48: `refunded_by` is "The depositor (after the deadline)
\* or the arbiter (at any time)".
RefundedByDepositorOrArbiter ==
    \A i \in DOMAIN events :
        events[i].kind = "Refunded" =>
            events[i].by \in {escrow.depositor, escrow.arbiter}

=============================================================================
