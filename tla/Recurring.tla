----------------------------- MODULE Recurring -----------------------------
(***************************************************************************)
(* contracts/recurring: a payer authorizes a payee to pull a fixed amount  *)
(* once per period, at most a given number of times, out of an allowance   *)
(* that the payer keeps on the token.  The contract holds nothing; skipped *)
(* periods are forfeited.                                                  *)
(*                                                                         *)
(* As in Escrow, XxxReply is what entry point xxx returns and the action   *)
(* Xxx is the call that succeeds.                                          *)
(***************************************************************************)
EXTENDS CheckedMath, Allowances, FiniteSets

CONSTANTS
    NoAuthorization,  \* no record is stored before `authorize`
    U32Max,           \* u32::MAX, scaled down so that the counter can be full
    Amounts           \* the amounts per period offered to `authorize`

VARIABLES
    authorization,  \* the stored Authorization record
    pulled,         \* history: what the instance moved from the payer to the payee
    marks,          \* history: when the consent was given and each charge taken
    signedBy        \* history: who signed the last call

contractVars == <<authorization, pulled, marks, signedBy>>
vars == <<ledgerVars, allowance, contractVars>>

-----------------------------------------------------------------------------

\* The None of `max_periods`: a cap no counter reaches.
NoCap == U32Max + 1

Authorizations ==
    [payer            : Signers,
     payee            : Holders,
     amountPerPeriod  : 1..I128Max,
     periodSeconds    : 1..U64Max,
     maxPeriods       : 1..NoCap,
     periodsCharged   : 0..U32Max,
     nextChargeableAt : 0..U64Max,
     cancelled        : BOOLEAN]

ASSUME RecurringAssumption ==
    /\ U32Max \in Nat \ {0}
    /\ NoAuthorization \notin Authorizations
    /\ Amounts \subseteq I128

Init ==
    /\ LedgerInit
    /\ AllowanceInit
    /\ authorization = NoAuthorization
    /\ pulled = 0
    /\ marks = {}
    /\ signedBy = Self

-----------------------------------------------------------------------------
(* The pure functions of recurring/types.rs.                               *)

\* math::remaining_count
RemainingCount(cap, used) ==
    IF cap = NoCap THEN NoCap ELSE IF used < cap THEN cap - used ELSE 0

RemainingPeriods(a) == RemainingCount(a.maxPeriods, a.periodsCharged)

IsExhausted(a) == RemainingPeriods(a) = 0

\* Mutant: not yet chargeable on the boundary.
IsChargeableAfter(a, at) == ~a.cancelled /\ ~IsExhausted(a) /\ at > a.nextChargeableAt

IsChargeableAt(a, at) == ~a.cancelled /\ ~IsExhausted(a) /\ at >= a.nextChargeableAt

-----------------------------------------------------------------------------

\* storage::load
Load == Require(authorization # NoAuthorization, "NotInitialized")

\* Mutant: the first due date may pass the last timestamp.
AuthorizeReplyAnyPeriod(signer, payer, payee, amount, period, cap) ==
    Require(authorization = NoAuthorization, "AlreadyInitialized")
        ?? Require(payer # payee, "IdenticalParties")
        ?? Require(amount > 0, "InvalidAmount")
        ?? Require(period # 0, "InvalidDuration")
        ?? Require(cap # 0, "InvalidAmount")
        ?? RequireAuth(signer, payer)

AuthorizeReply(signer, payer, payee, amount, period, cap) ==
    Require(authorization = NoAuthorization, "AlreadyInitialized")
        ?? Require(payer # payee, "IdenticalParties")
        ?? Require(amount > 0, "InvalidAmount")
        ?? Require(period # 0, "InvalidDuration")
        ?? Require(cap # 0, "InvalidAmount")
        ?? RequireAuth(signer, payer)
        ?? Require(now + period <= U64Max, "InvalidTimeRange")

Authorize(signer, payer, payee, amount, period, cap) ==
    /\ AuthorizeReply(signer, payer, payee, amount, period, cap) = "Ok"
    /\ authorization' = [payer            |-> payer,
                         payee            |-> payee,
                         amountPerPeriod  |-> amount,
                         periodSeconds    |-> period,
                         maxPeriods       |-> cap,
                         periodsCharged   |-> 0,
                         nextChargeableAt |-> now + period,
                         cancelled        |-> FALSE]
    /\ marks' = {now}
    /\ signedBy' = signer
    /\ UNCHANGED <<ledgerVars, allowance, pulled>>

-----------------------------------------------------------------------------

ChargeReply(signer) ==
    Load
        ?? RequireAuth(signer, authorization.payee)
        ?? Require(~authorization.cancelled, "RecurringCancelled")
        ?? Require(~IsExhausted(authorization), "RecurringExhausted")
        ?? Require(now >= authorization.nextChargeableAt, "RecurringPeriodNotElapsed")
        ?? Require(authorization.periodsCharged < U32Max, "Overflow")
        ?? Require(now + authorization.periodSeconds <= U64Max, "InvalidTimeRange")
        ?? TransferFromReply(authorization.payer, authorization.payee,
                             authorization.amountPerPeriod)

\* Mutant: the next period is counted from the last due date, so that skipped
\* periods are banked.
NextDueBanked == authorization.nextChargeableAt + authorization.periodSeconds

NextDue == now + authorization.periodSeconds

\* The payment of a charge, and its history.
Pull ==
    LET amount == authorization.amountPerPeriod
    IN  /\ balance' = Transferred(balance, authorization.payer, authorization.payee, amount)
        /\ allowance' = Drawn(authorization.payer, amount)
        /\ pulled' = pulled + amount
        /\ marks' = marks \cup {now}

\* Mutant: the record is saved before the counter is updated.
ChargeUncounted(signer) ==
    /\ ChargeReply(signer) = "Ok"
    /\ authorization' = [authorization EXCEPT !.nextChargeableAt = NextDue]
    /\ Pull
    /\ signedBy' = signer
    /\ UNCHANGED <<now, frozen, strays>>

Charge(signer) ==
    /\ ChargeReply(signer) = "Ok"
    /\ authorization' = [authorization EXCEPT !.periodsCharged = @ + 1,
                                              !.nextChargeableAt = NextDue]
    /\ Pull
    /\ signedBy' = signer
    /\ UNCHANGED <<now, frozen, strays>>

-----------------------------------------------------------------------------

\* Mutant: no membership check.
CancelReplyAnyCaller(signer, caller) ==
    Load
        ?? Require(~authorization.cancelled, "RecurringCancelled")
        ?? RequireAuth(signer, caller)

CancelReply(signer, caller) ==
    Load
        ?? Require(~authorization.cancelled, "RecurringCancelled")
        ?? RequireAuthEither(signer, caller, {authorization.payer, authorization.payee})

Cancel(signer, caller) ==
    /\ CancelReply(signer, caller) = "Ok"
    /\ authorization' = [authorization EXCEPT !.cancelled = TRUE]
    /\ signedBy' = signer
    /\ UNCHANGED <<ledgerVars, allowance, pulled, marks>>

-----------------------------------------------------------------------------

\* The first conjunct only repeats the first check of AuthorizeReply, before
\* the arguments are chosen.
Authorizes(signer) ==
    /\ authorization = NoAuthorization
    /\ \E payer \in Holders, payee \in Holders, amount \in Amounts,
          period \in 0..U64Max, cap \in 0..NoCap :
            Authorize(signer, payer, payee, amount, period, cap)

Calls ==
    \E signer \in Signers :
        \/ Authorizes(signer)
        \/ Charge(signer)
        \/ \E caller \in Holders : Cancel(signer, caller)

Next == Calls \/ (AllowanceNext /\ UNCHANGED contractVars)

Spec == Init /\ [][Next]_vars

-----------------------------------------------------------------------------
(* Properties.                                                             *)

\* Every variable holds a value of its type.
TypeOK ==
    /\ LedgerTypeOK
    /\ AllowanceTypeOK
    /\ authorization \in {NoAuthorization} \cup Authorizations
    /\ pulled \in Nat
    /\ marks \in SUBSET (0..U64Max)
    /\ signedBy \in Signers \cup {Self}

\* What was pulled is periods_charged * amount_per_period and never more than
\* the cap allows, and the contract keeps none of it.
PullCounted ==
    /\ balance[Self] = strays
    /\ authorization = NoAuthorization => pulled = 0
    /\ authorization # NoAuthorization =>
           /\ pulled = authorization.periodsCharged * authorization.amountPerPeriod
           /\ authorization.maxPeriods # NoCap =>
                  pulled <= authorization.maxPeriods * authorization.amountPerPeriod

\* Between any two marks there are no more charges than whole periods, so that
\* what was pulled never exceeds one amount per period since the consent.
RateLimited ==
    authorization # NoAuthorization =>
        LET amount == authorization.amountPerPeriod
            period == authorization.periodSeconds
        IN  /\ \A s, t \in marks :
                   s <= t => (Cardinality(marks \cap (s..t)) - 1) * period <= t - s
            /\ \E consent \in marks :
                   /\ \A t \in marks : consent <= t
                   /\ pulled * period <= amount * (now - consent)

\* The pull invariant of recurring/types.rs, about the tokens: how much can be
\* pulled, and how fast.
PullInvariant == PullCounted /\ RateLimited

\* Periods never accrue retroactively: the consent and the charges are all a
\* full period apart, every charge is counted, and the next one is due a
\* period after the last, however late charges were taken.
OnePerPeriod ==
    authorization # NoAuthorization =>
        /\ Cardinality(marks) = authorization.periodsCharged + 1
        /\ \A s, t \in marks : s < t => t - s >= authorization.periodSeconds
        /\ \E last \in marks :
               /\ \A t \in marks : t <= last
               /\ last <= now
               /\ authorization.nextChargeableAt = last + authorization.periodSeconds

\* The views tell what charge would check: is_chargeable is false exactly when
\* charge would refuse for the schedule, the cap or a cancellation, and the
\* counter never passes the cap, so that remaining_periods is exact.
ViewsAgree ==
    authorization # NoAuthorization =>
        /\ IsChargeableAt(authorization, now) <=>
               ChargeReply(authorization.payee) \notin
                   {"RecurringCancelled", "RecurringExhausted", "RecurringPeriodNotElapsed"}
        /\ authorization.maxPeriods # NoCap =>
               RemainingPeriods(authorization) + authorization.periodsCharged
                   = authorization.maxPeriods

\* Whoever acts, the payer's consent stands: the terms never change, only a
\* party cancels, a cancellation is final, and a charge is taken by the payee,
\* moves exactly one period's amount from payer to payee, and is drawn from an
\* allowance that is still valid.
Consent ==
    authorization # NoAuthorization =>
        LET payer  == authorization.payer
            payee  == authorization.payee
            amount == authorization.amountPerPeriod
        IN  /\ \A f \in {"payer", "payee", "amountPerPeriod", "periodSeconds", "maxPeriods"} :
                   authorization'[f] = authorization[f]
            /\ authorization.cancelled => UNCHANGED <<authorization, pulled>>
            /\ authorization' # authorization => signedBy' \in {payer, payee}
            /\ pulled' # pulled =>
                   /\ signedBy' = payee
                   /\ pulled' = pulled + amount
                   /\ balance'[payer] = balance[payer] - amount
                   /\ balance'[payee] = balance[payee] + amount
                   /\ now <= allowance[payer].until
                   /\ allowance'[payer].amount = allowance[payer].amount - amount
                   /\ allowance'[payer].amount >= 0

ConsentKept == [][Consent]_vars

=============================================================================
