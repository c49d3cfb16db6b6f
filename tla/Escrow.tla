------------------------------- MODULE Escrow -------------------------------
(***************************************************************************)
(* contracts/escrow: one agreement per deployed instance.  A depositor     *)
(* funds it, the depositor or an optional arbiter releases it to the       *)
(* beneficiary or refunds it, and a disputed one is split by the arbiter   *)
(* or, when the grace period has run out, refunded by anybody.             *)
(*                                                                         *)
(* XxxReply is what entry point xxx returns: its checks in the order of    *)
(* the code, with ?? for `?`.  A call that does not reply "Ok" changes     *)
(* nothing (see Ledger), so the action Xxx is the call that does.          *)
(***************************************************************************)
EXTENDS CheckedMath, Ledger, Sequences

CONSTANTS
    NoArbiter,    \* the None of `arbiter: Option<Address>`
    GracePeriod,  \* DISPUTE_GRACE_PERIOD_SECONDS, scaled down
    Amounts       \* the amounts offered to `init`

ASSUME EscrowAssumption ==
    /\ NoArbiter \notin Holders
    /\ GracePeriod \in Nat
    /\ Amounts \subseteq I128

VARIABLES
    escrow,  \* the stored Escrow record
    flows,   \* history: what the instance pulled from and paid to its parties
    events   \* the events published so far

contractVars == <<escrow, flows, events>>
vars == <<ledgerVars, contractVars>>

-----------------------------------------------------------------------------

Terminal == {"Released", "Refunded", "Resolved"}
States   == {"Created", "Funded", "Disputed"} \cup Terminal

\* No record is stored before `init`.
Absent == [state |-> "Absent"]

Agreements ==
    [depositor   : Signers,
     beneficiary : Holders,
     arbiter     : Holders \cup {NoArbiter},
     amount      : 1..I128Max,
     deadline    : 1..U64Max,
     state       : States]

EventKinds ==
    {"Created", "Funded", "Released", "Refunded", "Disputed", "Resolved", "Cancelled"}

\* `by` is the address the event names as acting, `auth` the one that signed.
Events ==
    [kind          : EventKinds,
     by            : Holders,
     auth          : Signers,
     split         : 0..BpsDenominator,
     toBeneficiary : 0..I128Max,
     toDepositor   : 0..I128Max]

Flows == [pulled : Nat, toBeneficiary : Nat, toDepositor : Nat]

NoFlows == [pulled |-> 0, toBeneficiary |-> 0, toDepositor |-> 0]

Init ==
    /\ LedgerInit
    /\ escrow = Absent
    /\ flows = NoFlows
    /\ events = <<>>

-----------------------------------------------------------------------------
(* Helpers of the entry points.                                            *)

\* storage::load
Load == Require(escrow.state # "Absent", "NotInitialized")

\* Mutant: every state after `fund` counts as funded.
RequireEverFunded == Require(escrow.state # "Created", "EscrowNotFunded")

RequireFunded ==
    Require(escrow.state \notin Terminal, "EscrowClosed")
        ?? Require(escrow.state = "Funded", "EscrowNotFunded")

\* Mutants: a timeout no clock may reach, and one that wraps around.
DisputeTimeoutUnbounded == escrow.deadline + GracePeriod
DisputeTimeoutWrapping  == (escrow.deadline + GracePeriod) % (U64Max + 1)

\* deadline.saturating_add(DISPUTE_GRACE_PERIOD_SECONDS)
DisputeTimeout ==
    IF escrow.deadline + GracePeriod > U64Max
    THEN U64Max ELSE escrow.deadline + GracePeriod

PayReply(to, amount) == TransferReply(balance, Self, to, amount)

Emit(kind, by, auth, split, toBeneficiary, toDepositor) ==
    events' = Append(events, [kind          |-> kind,
                              by            |-> by,
                              auth          |-> auth,
                              split         |-> split,
                              toBeneficiary |-> toBeneficiary,
                              toDepositor   |-> toDepositor])

\* Mutant: the shares are paid and the new state is not saved.
SettleUnsaved(state, toBeneficiary, toDepositor) ==
    /\ escrow' = escrow
    /\ balance' = PaidBoth(escrow.beneficiary, toBeneficiary,
                           escrow.depositor, toDepositor)
    /\ flows' = [flows EXCEPT !.toBeneficiary = @ + toBeneficiary,
                              !.toDepositor   = @ + toDepositor]

\* Save the new state and pay the shares out, the beneficiary's first.
Settle(state, toBeneficiary, toDepositor) ==
    /\ escrow' = [escrow EXCEPT !.state = state]
    /\ balance' = PaidBoth(escrow.beneficiary, toBeneficiary,
                           escrow.depositor, toDepositor)
    /\ flows' = [flows EXCEPT !.toBeneficiary = @ + toBeneficiary,
                              !.toDepositor   = @ + toDepositor]

-----------------------------------------------------------------------------
(* init and cancel: the agreement before any token moves.                  *)

\* Mutant: no require_positive.
InitReplyAnyAmount(signer, depositor, beneficiary, arbiter, amount, deadline) ==
    Require(escrow.state = "Absent", "AlreadyInitialized")
        ?? Require(deadline > now, "InvalidTimeRange")
        ?? Require(arbiter \notin {depositor, beneficiary}, "EscrowArbiterNotNeutral")
        ?? RequireAuth(signer, depositor)

InitReply(signer, depositor, beneficiary, arbiter, amount, deadline) ==
    Require(escrow.state = "Absent", "AlreadyInitialized")
        ?? Require(amount > 0, "InvalidAmount")
        ?? Require(deadline > now, "InvalidTimeRange")
        ?? Require(arbiter \notin {depositor, beneficiary}, "EscrowArbiterNotNeutral")
        ?? RequireAuth(signer, depositor)

Initialize(signer, depositor, beneficiary, arbiter, amount, deadline) ==
    /\ InitReply(signer, depositor, beneficiary, arbiter, amount, deadline) = "Ok"
    /\ escrow' = [depositor   |-> depositor,
                  beneficiary |-> beneficiary,
                  arbiter     |-> arbiter,
                  amount      |-> amount,
                  deadline    |-> deadline,
                  state       |-> "Created"]
    /\ Emit("Created", depositor, signer, 0, 0, 0)
    /\ UNCHANGED <<ledgerVars, flows>>

\* Mutant: cancel accepts a funded escrow.
CancelReplyWhenFunded(signer) ==
    Load
        ?? Require(escrow.state \in {"Created", "Funded"}, "EscrowNotCancellable")
        ?? RequireAuth(signer, escrow.depositor)

CancelReply(signer) ==
    Load
        ?? Require(escrow.state = "Created", "EscrowNotCancellable")
        ?? RequireAuth(signer, escrow.depositor)

Cancel(signer) ==
    /\ CancelReply(signer) = "Ok"
    /\ escrow' = [escrow EXCEPT !.state = "Refunded"]
    /\ Emit("Cancelled", escrow.depositor, signer, 0, 0, 0)
    /\ UNCHANGED <<ledgerVars, flows>>

-----------------------------------------------------------------------------
(* fund, release and refund.                                               *)

FundReply(signer) ==
    Load
        ?? Require(escrow.state \notin Terminal, "EscrowClosed")
        ?? Require(escrow.state = "Created", "EscrowNotFundable")
        ?? Require(now < escrow.deadline, "DeadlinePassed")
        ?? RequireAuth(signer, escrow.depositor)
        ?? TransferReply(balance, escrow.depositor, Self, escrow.amount)

Fund(signer) ==
    /\ FundReply(signer) = "Ok"
    /\ escrow' = [escrow EXCEPT !.state = "Funded"]
    /\ balance' = Transferred(balance, escrow.depositor, Self, escrow.amount)
    /\ flows' = [flows EXCEPT !.pulled = @ + escrow.amount]
    /\ Emit("Funded", escrow.depositor, signer, 0, 0, 0)
    /\ UNCHANGED <<now, frozen, strays>>

ReleaseReply(signer, caller) ==
    Load
        ?? RequireFunded
        ?? RequireAuthEither(signer, caller, {escrow.depositor, escrow.arbiter})
        ?? PayReply(escrow.beneficiary, escrow.amount)

Release(signer, caller) ==
    /\ ReleaseReply(signer, caller) = "Ok"
    /\ Settle("Released", escrow.amount, 0)
    /\ Emit("Released", caller, signer, 0, escrow.amount, 0)
    /\ UNCHANGED <<now, frozen, strays>>

\* A disputed escrow: anybody once the grace period is over, nobody before.
RecoverReply(signer, caller) ==
    IF now >= DisputeTimeout
    THEN PayReply(escrow.depositor, escrow.amount)
    ELSE RequireAuthEither(signer, caller, {escrow.depositor, escrow.arbiter})
             ?? "DeadlineNotReached"

\* Mutant: no recovery of a disputed escrow.
RefundReplyNoRecovery(signer, caller) ==
    Load
        ?? RequireFunded
        ?? RequireAuthEither(signer, caller, {escrow.depositor, escrow.arbiter})
        ?? Require(caller = escrow.arbiter \/ now >= escrow.deadline, "DeadlineNotReached")
        ?? PayReply(escrow.depositor, escrow.amount)

RefundReply(signer, caller) ==
    Load ??
        IF escrow.state = "Disputed"
        THEN RecoverReply(signer, caller)
        ELSE RequireFunded
                 ?? RequireAuthEither(signer, caller, {escrow.depositor, escrow.arbiter})
                 ?? Require(caller = escrow.arbiter \/ now >= escrow.deadline,
                            "DeadlineNotReached")
                 ?? PayReply(escrow.depositor, escrow.amount)

Refund(signer, caller) ==
    /\ RefundReply(signer, caller) = "Ok"
    /\ Settle("Refunded", 0, escrow.amount)
    /\ Emit("Refunded", caller, signer, 0, 0, escrow.amount)
    /\ UNCHANGED <<now, frozen, strays>>

-----------------------------------------------------------------------------
(* dispute and resolve.                                                    *)

\* Mutant: a dispute nobody can resolve.
DisputeReplyNoArbiter(signer, caller) ==
    Load
        ?? Require(escrow.state # "Disputed", "EscrowAlreadyDisputed")
        ?? RequireFunded
        ?? RequireAuthEither(signer, caller, {escrow.depositor, escrow.beneficiary})

DisputeReply(signer, caller) ==
    Load
        ?? Require(escrow.arbiter # NoArbiter, "EscrowNoArbiter")
        ?? Require(escrow.state # "Disputed", "EscrowAlreadyDisputed")
        ?? RequireFunded
        ?? RequireAuthEither(signer, caller, {escrow.depositor, escrow.beneficiary})

Dispute(signer, caller) ==
    /\ DisputeReply(signer, caller) = "Ok"
    /\ escrow' = [escrow EXCEPT !.state = "Disputed"]
    /\ Emit("Disputed", caller, signer, 0, 0, 0)
    /\ UNCHANGED <<ledgerVars, flows>>

ResolveReply(signer, bps) ==
    LET split == SplitBps(escrow.amount, bps)
    IN  Load
            ?? Require(escrow.state = "Disputed", "EscrowNotDisputed")
            ?? Require(escrow.arbiter # NoArbiter, "Trap")
            ?? RequireAuth(signer, escrow.arbiter)
            ?? split.err
            ?? PayBothReply(escrow.beneficiary, split.first,
                            escrow.depositor, split.second)

Resolve(signer, bps) ==
    LET split == SplitBps(escrow.amount, bps)
    IN  /\ ResolveReply(signer, bps) = "Ok"
        /\ Settle("Resolved", split.first, split.second)
        /\ Emit("Resolved", escrow.arbiter, signer, bps, split.first, split.second)
        /\ UNCHANGED <<now, frozen, strays>>

-----------------------------------------------------------------------------

\* The first conjunct only repeats the first check of InitReply, before the
\* arguments are chosen.
Initializes(signer) ==
    /\ escrow.state = "Absent"
    /\ \E depositor \in Holders, beneficiary \in Holders,
          arbiter \in Holders \cup {NoArbiter},
          amount \in Amounts, deadline \in 0..U64Max :
            Initialize(signer, depositor, beneficiary, arbiter, amount, deadline)

Calls ==
    \E signer \in Signers :
        \/ Initializes(signer)
        \/ Cancel(signer)
        \/ Fund(signer)
        \/ \E caller \in Holders :
                \/ Release(signer, caller)
                \/ Refund(signer, caller)
                \/ Dispute(signer, caller)
        \/ \E bps \in 0..(BpsDenominator + 1) : Resolve(signer, bps)

Next == Calls \/ (LedgerNext /\ UNCHANGED contractVars)

Spec == Init /\ [][Next]_vars


\* Somebody keeps calling `refund`: here the depositor, whose money it is.
DepositorRefunds ==
    escrow.state # "Absent" /\ Refund(escrow.depositor, escrow.depositor)

\* Strong fairness, for the issuer may freeze a holder now and then.
LiveSpec == Spec /\ LedgerFairness /\ SF_vars(DepositorRefunds)

-----------------------------------------------------------------------------
(* Properties.                                                             *)

\* What the contract must be holding for its agreement.
Held == IF escrow.state \in {"Funded", "Disputed"} THEN escrow.amount ELSE 0

\* A beneficiary that is the contract itself is paid by a transfer to itself.
Stranded ==
    IF escrow.state # "Absent" /\ escrow.beneficiary = Self
    THEN flows.toBeneficiary ELSE 0

\* Every variable holds a value of its type.
TypeOK ==
    /\ LedgerTypeOK
    /\ escrow \in {Absent} \cup Agreements
    /\ flows \in Flows
    /\ events \in Seq(Events)

\* The contract's real token balance is what the agreement in storage says it
\* holds, plus only what it was sent outside its calls: whatever the order of
\* calls, ledgers, freezes and failed transfers (InsufficientBalance is absent
\* from escrow/errors.rs because "the contract always holds exactly amount").
Solvency == balance[Self] = Held + strays + Stranded

\* The conservation invariant of escrow/types.rs: what was pulled is the agreed
\* amount or nothing, it is paid out exactly once and in full, to the party the
\* terminal state names, and an arbiter's split rounds the beneficiary's share
\* down by less than one unit.
PaidExactlyOnce ==
    escrow.state # "Absent" =>
        /\ flows.pulled = 0 \/ flows.pulled = escrow.amount
        /\ escrow.state \in {"Funded", "Disputed", "Released", "Resolved"}
               => flows.pulled = escrow.amount
        /\ flows.toBeneficiary + flows.toDepositor =
               (IF escrow.state \in Terminal THEN flows.pulled ELSE 0)
        /\ escrow.state = "Released" => flows.toDepositor = 0
        /\ escrow.state = "Refunded" => flows.toBeneficiary = 0
        /\ escrow.state = "Resolved" =>
               LET exact == escrow.amount * events[Len(events)].split
                   paid  == flows.toBeneficiary * BpsDenominator
               IN  paid <= exact /\ exact < paid + BpsDenominator

\* A disputed escrow has a judge who is neither party, so the `expect` of
\* resolve never traps and a dispute never freezes funds nobody can award.
DisputeHasNeutralArbiter ==
    escrow.state = "Disputed" =>
        escrow.arbiter \in Holders \ {escrow.depositor, escrow.beneficiary}

\* No party takes the funds alone: the beneficiary is paid only by a call the
\* depositor or the arbiter signed; the depositor is paid back without the
\* arbiter only after the deadline, by its own signature, or, once a dispute
\* has outlived the deadline and the grace period, by a call of anybody.
Authorized ==
    LET signer == events'[Len(events')].auth
    IN  /\ flows'.toBeneficiary > flows.toBeneficiary =>
               signer \in {escrow.depositor, escrow.arbiter}
        /\ flows'.toDepositor > flows.toDepositor =>
               \/ signer = escrow.arbiter
               \/ /\ escrow.state = "Funded"
                  /\ signer = escrow.depositor
                  /\ now >= escrow.deadline
               \/ /\ escrow.state = "Disputed"
                  /\ now >= escrow.deadline
                  /\ now - escrow.deadline >= GracePeriod \/ now = U64Max

NoUnilateralExit == [][Authorized]_vars

\* Held funds always have an exit the code accepts, whichever calls came
\* before: a funded escrow can be released at any time and refunded from the
\* deadline on, a disputed one can be ruled for the depositor by an arbiter
\* that can sign, and recovered by anybody when the grace period is over.
ExitOpen ==
    Held > 0 /\ frozen = {} =>
        /\ escrow.state = "Funded" =>
               /\ ReleaseReply(escrow.depositor, escrow.depositor) = "Ok"
               /\ now >= escrow.deadline =>
                      RefundReply(escrow.depositor, escrow.depositor) = "Ok"
        /\ escrow.state = "Disputed" =>
               /\ escrow.arbiter \in Signers => ResolveReply(escrow.arbiter, 0) = "Ok"
               /\ now >= escrow.deadline + GracePeriod \/ now = U64Max =>
                      \A s \in Signers : RefundReply(s, s) = "Ok"

\* What an indexer reads off the published events is what happened: they follow
\* the state diagram of escrow/types.rs, the last one names the stored state and
\* carries all that has ever been paid out, the others carry nothing, and the
\* address each names as acting signed it, but for a recovery anybody may call.
EventsTellTheStory ==
    LET diagram == {<<"Created", "Funded">>, <<"Created", "Cancelled">>,
                    <<"Funded", "Released">>, <<"Funded", "Refunded">>,
                    <<"Funded", "Disputed">>,
                    <<"Disputed", "Resolved">>, <<"Disputed", "Refunded">>}
        last == events[Len(events)]
    IN  /\ events = <<>> <=> escrow.state = "Absent"
        /\ events # <<>> =>
               /\ events[1].kind = "Created"
               /\ escrow.state = IF last.kind = "Cancelled" THEN "Refunded" ELSE last.kind
               /\ flows.toBeneficiary = last.toBeneficiary
               /\ flows.toDepositor = last.toDepositor
        /\ \A i \in 1..(Len(events) - 1) :
               /\ <<events[i].kind, events[i + 1].kind>> \in diagram
               /\ events[i].toBeneficiary = 0 /\ events[i].toDepositor = 0
        /\ \A i \in 1..Len(events) :
               \/ events[i].by = events[i].auth
               \/ /\ events[i].kind = "Refunded"
                  /\ events[i - 1].kind = "Disputed"

\* Escrow implements Custody: open until a terminal state.
Custody == INSTANCE Custody WITH
    open    <- escrow.state \notin Terminal,
    pulled  <- flows.pulled,
    toPayee <- flows.toBeneficiary,
    toPayer <- flows.toDepositor

ImplementsCustody == Custody!Spec

\* Funds never stay in the contract for ever: once funded, an escrow is
\* released, resolved or refunded, whatever the parties and the arbiter do or
\* omit, as long as somebody keeps calling `refund` ("Dispute recovery" in
\* the comment of refund).
FundsEventuallyLeave == Held > 0 ~> Held = 0

=============================================================================
