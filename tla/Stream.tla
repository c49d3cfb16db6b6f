------------------------------- MODULE Stream -------------------------------
(***************************************************************************)
(* contracts/stream: a sender funds a span of time in advance and a        *)
(* recipient accrues `rate_per_second` over it.  Accrual is never stored,  *)
(* it is computed from the record and the ledger timestamp at each call.   *)
(*                                                                         *)
(* As in Escrow, XxxReply is what entry point xxx returns and the action   *)
(* Xxx is the call that succeeds.                                          *)
(***************************************************************************)
EXTENDS CheckedMath, Ledger

CONSTANTS
    NoStream,  \* no record is stored before `create`
    Rates,     \* the rates offered to `create`
    Amounts    \* the amounts offered to `withdraw` and `top_up`

VARIABLES
    stream,   \* the stored Stream record
    flows,    \* history: what the instance pulled from and paid to its parties
    signedBy  \* history: who signed the last call

contractVars == <<stream, flows, signedBy>>
vars == <<ledgerVars, contractVars>>

-----------------------------------------------------------------------------

Streams ==
    [sender      : Signers,
     recipient   : Holders,
     rate        : 1..I128Max,
     start       : 0..U64Max,
     stop        : 0..U64Max,
     cancellable : BOOLEAN,
     deposited   : 0..I128Max,
     withdrawn   : 0..I128Max,
     refunded    : 0..I128Max,
     cancelledAt : 0..Never]

Flows == [pulled : Nat, toRecipient : Nat, toSender : Nat]

ASSUME StreamAssumption ==
    /\ NoStream \notin Streams
    /\ U64Max <= I128Max
    /\ Rates \subseteq I128
    /\ Amounts \subseteq I128

Init ==
    /\ LedgerInit
    /\ stream = NoStream
    /\ flows = [pulled |-> 0, toRecipient |-> 0, toSender |-> 0]
    /\ signedBy = Self

-----------------------------------------------------------------------------
(* The pure functions of stream/types.rs.                                  *)

\* Mutants: accrual goes on after a cancellation, and after the stop.
AccruedDespiteCancel(s, at) ==
    LET effective == Smaller(at, s.stop)
        accrued   == Mul(s.rate, effective - s.start)
    IN  IF effective <= s.start THEN Ok(0)
        ELSE IF accrued.err # "Ok" THEN accrued
        ELSE Ok(Smaller(accrued.val, s.deposited))
AccruedPastStop(s, at) ==
    LET effective == Smaller(at, s.cancelledAt)
        accrued   == Mul(s.rate, effective - s.start)
    IN  IF effective <= s.start THEN Ok(0)
        ELSE IF accrued.err # "Ok" THEN accrued
        ELSE Ok(Smaller(accrued.val, s.deposited))

AccruedAt(s, at) ==
    LET effective == Smaller(Smaller(at, s.cancelledAt), s.stop)
        accrued   == Mul(s.rate, effective - s.start)
    IN  IF effective <= s.start THEN Ok(0)
        ELSE IF accrued.err # "Ok" THEN accrued
        ELSE Ok(Smaller(accrued.val, s.deposited))

AvailableAt(s, at) ==
    LET accrued == AccruedAt(s, at)
    IN  IF accrued.err # "Ok" THEN accrued
        ELSE IF s.withdrawn > accrued.val THEN Err("Underflow")
        ELSE Sub(accrued.val, s.withdrawn)

Remaining(s) ==
    LET unpaid == Sub(s.deposited, s.withdrawn)
    IN  IF unpaid.err = "Ok" THEN Sub(unpaid.val, s.refunded) ELSE unpaid

IsCancelled(s) == s.cancelledAt # Never

\* The view balance_of, as of time `at`.
BalanceOf(s, who, at) ==
    LET accrued   == AccruedAt(s, at)
        unaccrued == Sub(s.deposited, accrued.val)
    IN  IF who = s.recipient THEN AvailableAt(s, at)
        ELSE IF who # s.sender THEN Ok(0)
        ELSE IF accrued.err # "Ok" THEN accrued
        ELSE IF unaccrued.err # "Ok" THEN unaccrued
        ELSE Sub(unaccrued.val, s.refunded)

-----------------------------------------------------------------------------

\* storage::load
Load == Require(stream # NoStream, "NotInitialized")

CreateReply(signer, sender, recipient, rate, start, stop) ==
    Require(stream = NoStream, "AlreadyInitialized")
        ?? Require(sender # recipient, "IdenticalParties")
        ?? Require(rate > 0, "InvalidAmount")
        ?? Require(stop > start, "InvalidTimeRange")
        ?? Mul(rate, stop - start).err
        ?? RequireAuth(signer, sender)
        ?? TransferReply(balance, sender, Self, rate * (stop - start))

Create(signer, sender, recipient, rate, start, stop, cancellable) ==
    LET deposited == rate * (stop - start)
    IN  /\ CreateReply(signer, sender, recipient, rate, start, stop) = "Ok"
        /\ stream' = [sender      |-> sender,
                      recipient   |-> recipient,
                      rate        |-> rate,
                      start       |-> start,
                      stop        |-> stop,
                      cancellable |-> cancellable,
                      deposited   |-> deposited,
                      withdrawn   |-> 0,
                      refunded    |-> 0,
                      cancelledAt |-> Never]
        /\ balance' = Transferred(balance, sender, Self, deposited)
        /\ flows' = [flows EXCEPT !.pulled = @ + deposited]
        /\ signedBy' = signer
        /\ UNCHANGED <<now, frozen, strays>>

\* Mutant: all but the last unit can be withdrawn.
WithdrawReplyOffByOne(signer, requested) ==
    LET available == AvailableAt(stream, now)
    IN  Load
            ?? RequireAuth(signer, stream.recipient)
            ?? available.err
            ?? Require(requested > 0, "InvalidAmount")
            ?? Require(requested < available.val, "StreamInsufficientAccrued")
            ?? Add(stream.withdrawn, requested).err
            ?? TransferReply(balance, Self, stream.recipient, requested)

\* `requested` is the argument, or what is available when the argument is None.
WithdrawReply(signer, requested) ==
    LET available == AvailableAt(stream, now)
    IN  Load
            ?? RequireAuth(signer, stream.recipient)
            ?? available.err
            ?? Require(requested > 0, "InvalidAmount")
            ?? Require(requested <= available.val, "StreamInsufficientAccrued")
            ?? Add(stream.withdrawn, requested).err
            ?? TransferReply(balance, Self, stream.recipient, requested)

Withdraw(signer, requested) ==
    /\ WithdrawReply(signer, requested) = "Ok"
    /\ stream' = [stream EXCEPT !.withdrawn = @ + requested]
    /\ balance' = Transferred(balance, Self, stream.recipient, requested)
    /\ flows' = [flows EXCEPT !.toRecipient = @ + requested]
    /\ signedBy' = signer
    /\ UNCHANGED <<now, frozen, strays>>

WithdrawAll(signer) ==
    stream # NoStream /\ Withdraw(signer, AvailableAt(stream, now).val)

-----------------------------------------------------------------------------

\* Mutant: the refund is computed before the settlement is counted.
RefundBeforeSettling == Sub(stream.deposited, stream.withdrawn)

\* What a cancellation pays: the accrued rest, and all that is left after it.
Settled == AvailableAt(stream, now)
Refund  == Sub(stream.deposited, stream.withdrawn + Settled.val)

\* Mutant: the `cancellable` flag is ignored.
CancelReplyAlways(signer) ==
    Load
        ?? Require(~IsCancelled(stream), "StreamCancelled")
        ?? RequireAuth(signer, stream.sender)
        ?? Settled.err
        ?? Add(stream.withdrawn, Settled.val).err
        ?? Refund.err
        ?? PayBothReply(stream.recipient, Settled.val, stream.sender, Refund.val)

CancelReply(signer) ==
    Load
        ?? Require(~IsCancelled(stream), "StreamCancelled")
        ?? Require(stream.cancellable, "StreamNotCancellable")
        ?? RequireAuth(signer, stream.sender)
        ?? Settled.err
        ?? Add(stream.withdrawn, Settled.val).err
        ?? Refund.err
        ?? PayBothReply(stream.recipient, Settled.val, stream.sender, Refund.val)

Cancel(signer) ==
    /\ CancelReply(signer) = "Ok"
    /\ stream' = [stream EXCEPT !.withdrawn   = @ + Settled.val,
                                !.refunded    = Refund.val,
                                !.cancelledAt = now]
    /\ balance' = PaidBoth(stream.recipient, Settled.val, stream.sender, Refund.val)
    /\ flows' = [flows EXCEPT !.toRecipient = @ + Settled.val,
                              !.toSender    = @ + Refund.val]
    /\ signedBy' = signer
    /\ UNCHANGED <<now, frozen, strays>>

-----------------------------------------------------------------------------

\* Mutant: the longer span is saved and not paid for.
LengthenUnfunded(signer, newStop, added) ==
    /\ stream' = [stream EXCEPT !.stop = newStop, !.deposited = @ + added]
    /\ signedBy' = signer
    /\ UNCHANGED <<now, balance, frozen, strays, flows>>

\* Both ways to lengthen a stream end alike: save stop and deposited, and pull.
Lengthen(signer, newStop, added) ==
    /\ stream' = [stream EXCEPT !.stop = newStop, !.deposited = @ + added]
    /\ balance' = Transferred(balance, stream.sender, Self, added)
    /\ flows' = [flows EXCEPT !.pulled = @ + added]
    /\ signedBy' = signer
    /\ UNCHANGED <<now, frozen, strays>>

\* Mutants: a partial second is accepted, and the stop is not checked.
TopUpReplyInexact(signer, amount) ==
    Load
        ?? Require(~IsCancelled(stream), "StreamCancelled")
        ?? RequireAuth(signer, stream.sender)
        ?? Require(amount > 0, "InvalidAmount")
        ?? Require(stream.stop + amount \div stream.rate <= U64Max, "InvalidTimeRange")
        ?? Add(stream.deposited, amount).err
        ?? TransferReply(balance, stream.sender, Self, amount)
TopUpReplyAnyStop(signer, amount) ==
    Load
        ?? Require(~IsCancelled(stream), "StreamCancelled")
        ?? RequireAuth(signer, stream.sender)
        ?? Require(amount > 0, "InvalidAmount")
        ?? Require(amount % stream.rate = 0, "InvalidAmount")
        ?? Add(stream.deposited, amount).err
        ?? TransferReply(balance, stream.sender, Self, amount)

\* Seconds beyond u64 and a stop beyond u64 are the same InvalidTimeRange.
TopUpReply(signer, amount) ==
    Load
        ?? Require(~IsCancelled(stream), "StreamCancelled")
        ?? RequireAuth(signer, stream.sender)
        ?? Require(amount > 0, "InvalidAmount")
        ?? Require(amount % stream.rate = 0, "InvalidAmount")
        ?? Require(stream.stop + amount \div stream.rate <= U64Max, "InvalidTimeRange")
        ?? Add(stream.deposited, amount).err
        ?? TransferReply(balance, stream.sender, Self, amount)

TopUp(signer, amount) ==
    /\ TopUpReply(signer, amount) = "Ok"
    /\ Lengthen(signer, stream.stop + amount \div stream.rate, amount)

ExtendReply(signer, newStop) ==
    LET added == Mul(stream.rate, newStop - stream.stop)
    IN  Load
            ?? Require(~IsCancelled(stream), "StreamCancelled")
            ?? RequireAuth(signer, stream.sender)
            ?? Require(newStop > stream.stop, "StreamNotExtendable")
            ?? added.err
            ?? Add(stream.deposited, added.val).err
            ?? TransferReply(balance, stream.sender, Self, added.val)

Extend(signer, newStop) ==
    /\ ExtendReply(signer, newStop) = "Ok"
    /\ Lengthen(signer, newStop, stream.rate * (newStop - stream.stop))

-----------------------------------------------------------------------------

\* The first conjunct only repeats the first check of CreateReply, before the
\* arguments are chosen.
Creates(signer) ==
    /\ stream = NoStream
    /\ \E sender \in Holders, recipient \in Holders, rate \in Rates,
          start \in 0..U64Max, stop \in 0..U64Max, cancellable \in BOOLEAN :
            Create(signer, sender, recipient, rate, start, stop, cancellable)

Calls ==
    \E signer \in Signers :
        \/ Creates(signer)
        \/ WithdrawAll(signer)
        \/ \E amount \in Amounts : Withdraw(signer, amount)
        \/ Cancel(signer)
        \/ \E amount \in Amounts : TopUp(signer, amount)
        \/ \E newStop \in 0..U64Max : Extend(signer, newStop)

Next == Calls \/ (LedgerNext /\ UNCHANGED contractVars)

Spec == Init /\ [][Next]_vars


\* The recipient keeps withdrawing all that is available; strong fairness, for
\* the issuer may freeze a holder now and then.
LiveSpec ==
    /\ Spec
    /\ LedgerFairness
    /\ \A s \in Signers : SF_vars(WithdrawAll(s))

-----------------------------------------------------------------------------
(* Properties.                                                             *)

\* A recipient that is the contract itself is paid by a transfer to itself.
Stranded == IF stream.recipient = Self THEN flows.toRecipient ELSE 0

\* Every variable holds a value of its type.
TypeOK ==
    /\ LedgerTypeOK
    /\ stream \in {NoStream} \cup Streams
    /\ flows \in [pulled : Nat, toRecipient : Nat, toSender : Nat]
    /\ signedBy \in Signers \cup {Self}

\* The funding invariant of stream/types.rs: after any number of top-ups and
\* extensions the sender has paid for the whole span to the last unit, and
\* the record's totals are what the token calls really moved.
FullyFunded ==
    stream # NoStream =>
        /\ stream.deposited = stream.rate * (stream.stop - stream.start)
        /\ stream.deposited = flows.pulled
        /\ stream.withdrawn = flows.toRecipient
        /\ stream.refunded = flows.toSender

\* The contract's real token balance is what `remaining` reports, plus only
\* what it was sent outside its calls (InsufficientBalance is absent from
\* stream/errors.rs because the stream "always holds what it owes").
Solvency ==
    balance[Self] =
        IF stream = NoStream THEN strays
        ELSE Remaining(stream).val + strays + Stranded

\* At no time from now on do the views fail, and at each the recipient's and
\* the sender's balance_of share out exactly what `remaining` reports:
\* nothing is promised twice and nothing is left over, also after a
\* cancellation, and Underflow never occurs (as stream/errors.rs says).
AccountsAddUp ==
    stream # NoStream =>
        \A t \in now..U64Max :
            LET recipients == BalanceOf(stream, stream.recipient, t)
                senders    == BalanceOf(stream, stream.sender, t)
            IN  /\ {recipients.err, senders.err, Remaining(stream).err} = {"Ok"}
                /\ recipients.val >= 0
                /\ senders.val >= 0
                /\ recipients.val + senders.val = Remaining(stream).val

\* No call takes back what the stream promised ("the recipient can rely on
\* what it promises"): the terms never change, the accrual up to the old stop
\* is never rewritten, and only a cancellation that the sender signed and the
\* terms allow stops the accrual, from that moment on and not before, with all
\* that had accrued paid out.  After it nothing changes any more.
Promise ==
    stream # NoStream =>
        /\ \A f \in {"sender", "recipient", "rate", "start", "cancellable"} :
               stream'[f] = stream[f]
        /\ IsCancelled(stream) => stream' = stream
        /\ \A t \in 0..U64Max :
               LET before == AccruedAt(stream, t).val
                   after  == AccruedAt(stream', t).val
               IN  IF IsCancelled(stream') /\ ~IsCancelled(stream)
                   THEN /\ stream.cancellable
                        /\ signedBy' = stream.sender
                        /\ after = AccruedAt(stream, Smaller(t, now)).val
                        /\ flows'.toRecipient = AccruedAt(stream, now).val
                   ELSE /\ after >= before
                        /\ t <= stream.stop => after = before

PromiseKept == [][Promise]_vars

\* No sequence of calls leaves a stream that its parties cannot use: whatever
\* is available can be withdrawn at once, and a cancellable stream can be
\* cancelled at any time, without an overflow on the way.
NeverBricked ==
    stream # NoStream /\ frozen = {} =>
        /\ AvailableAt(stream, now).err = "Ok"
        /\ AvailableAt(stream, now).val > 0 /\ stream.recipient \in Signers =>
               WithdrawReply(stream.recipient, AvailableAt(stream, now).val) = "Ok"
        /\ stream.cancellable /\ ~IsCancelled(stream) =>
               CancelReply(stream.sender) = "Ok"

\* Stream implements Custody: open until it is cancelled.
Custody == INSTANCE Custody WITH
    open    <- stream = NoStream \/ ~IsCancelled(stream),
    pulled  <- flows.pulled,
    toPayee <- flows.toRecipient,
    toPayer <- flows.toSender

ImplementsCustody == Custody!Spec

\* A recipient that keeps withdrawing is paid all the stream holds, again
\* after each top-up and extension, unless a cancellation settles it first.
RecipientIsPaid ==
    stream # NoStream /\ stream.recipient \in Signers ~>
        stream # NoStream /\ Remaining(stream).val = 0

=============================================================================
