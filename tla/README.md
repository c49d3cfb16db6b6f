# SoroRail contracts in TLA+

A verification project for the Soroban contracts under `src/contracts`: TLA+
modules translated from the Rust source, TLC configurations that check them on
small instances, and proofs that TLAPS checks for every value of the constants.
`PROJECT.json` maps every definition to the lines it stands for and lists the
runs, the hazards and the theorems.

## 1. The system

SoroRail is a set of independent contracts. An instance of `escrow`, `stream`,
`vesting` or `recurring` stores **one record** in instance storage and serves one
agreement between two parties; `batch_payout` stores nothing. The contracts never call each
other. Each calls one token contract (`TokenClient`), reads the ledger
timestamp, and asks the host to check signatures (`require_auth`). What they
share is `contracts/common`: checked `i128` arithmetic, authorization guards,
error codes, the storage macro with its TTL bumps.

| component | state | operations | modelled |
|---|---|---|---|
| escrow | an `Escrow` record with a `State` | `init cancel fund release refund dispute resolve bump` | `Escrow`, `EscrowHost` |
| stream | a `Stream` record, accrual computed at each call | `create withdraw cancel top_up extend`, views | `Stream` |
| vesting | a `Grant` record with `claimed`, `returned`, `revoked_at` | `create claim revoke`, views | `Vesting` |
| recurring | an `Authorization` record with a period counter and a due date | `authorize charge cancel`, views | `Recurring` |
| common/math, auth | none | checked arithmetic, splits, guards | `CheckedMath`, part of `Ledger` |
| token and clock (external) | balances, allowances, frozen holders, timestamp | `transfer`, `approve`, `transfer_from`, `timestamp` | `Ledger`, `Allowances` |
| batch_payout | none between calls; in a call the running total and the lines paid | `execute execute_equal`, `preview` | `BatchPayout` |
| storage TTL | the TTL of the instance | `load`, `save`, `bump` extend it, views do not | `Storage`, `EscrowHost` |
| the host (external) | the stack of calls under way and what to restore | call, call back, return, trap and roll back, archive, restore | `EscrowHost`, `BatchPayout` |
| events, error numbers, scripts, fuzz targets | none | | the events of escrow and batch_payout only |

**How they interact.** A call is a transaction: the host runs calls one at a
time; a call that returns an error or traps, in the token too, undoes all its
writes. So interleaving happens mostly *between* calls, and it is where much of the
difficulty lies: any address can call any entry point at any time, the clock
moves between two calls, the token's issuer may deauthorize a holder between
them, anybody may send tokens to a contract without calling it, and the
contract's belief about its balance is only a number in its record. *Inside* a call
there are the transfers: the token may refuse the second after it has made the
first, and the token is a contract, which might call back before it returns.

**Hard behaviours**, the ones `PROJECT.json` lists as hazards line by line:
orders of calls by several parties that reach a state with funds no call can
move, or that pay them twice (escrow); the meeting of two legal calls at a
deadline, or after the grace period (escrow); a record rewritten by `cancel`,
`top_up` and `extend` while accrual is computed from it anew each time (stream);
overflow and rounding that appear only for some timestamps (stream, vesting);
two payments in one call of which one fails (escrow, stream); periods, caps and
an allowance the payer changes in between (recurring); a loop of transfers that
fails in the middle (batch_payout); state that is archived with the funds
(storage TTL).

**What makes each component correct.**

- *escrow*: it holds `amount` exactly while it owes it; what came in goes out
  exactly once, to whom the terminal state says; nobody takes it without the
  consent the agreement asks for; it always gets out in the end.
- *stream*: the span is always paid for to the last unit; accrual never shrinks
  and is never rewritten; the two parties' balances share out what is held;
  a cancellation settles everything at once; no legal sequence of calls makes
  the record unusable.
- *vesting*: `claimed + returned + remaining = total` at all times; vested is
  monotone; revocation freezes it and leaves it claimable.
- *recurring*: `periods_charged * amount_per_period` has been pulled, never two
  charges within a period, never more than the cap.
- *batch_payout*: all or nothing, the receipt's total is what was moved, and a
  batch the funder can cover is not refused half way.
- *host and storage TTL*: a call that fails leaves no trace, what a call that is
  called back sees is already settled, and an instance in use is not archived.

## 2. The modules

```
CheckedMath      Ledger ----------.-----------.     Custody (abstract)   Payout (abstract)
     |         /   |    \          \           \       ^  ^  ^              ^
     |   Escrow  Stream  Vesting  Allowances  BatchPayout |  |              |
     |     | \      |________|_________|___________|______|__|              |
     |     |  \              |         |           |________________________|
     |     |  Storage   VestingClaims  Recurring        (refinements: Escrow, Stream,
     |     |    |                      |                 Vesting of Custody, BatchPayout
     |     |  EscrowHost          RecurringClaims        of Payout, EscrowHost of Escrow)
     |  EscrowClaims
Ledger_proofs -> Escrow_proofs, Stream_proofs, Vesting_proofs, Recurring_proofs,
                 BatchPayout_proofs
Escrow_proofs -> EscrowHost_proofs -> EscrowAtomic_proofs
```

The contract modules extend `CheckedMath` and `Ledger`; `Recurring` does so
through `Allowances`; `EscrowHost` composes `Escrow` with `Storage` and the host. The contracts never call each other, so no module
composes two of them: what a contract interacts with is the token, the clock and
its callers, and each contract module is already that composition.

**CheckedMath** models `common/src/math.rs` and the error plumbing. A `Result` is
a record `[err, val]`; `r ?? s` is Rust's `?`, the first error wins.
`I128Max` stands for `i128::MAX`, so an overflow is an error code reached by
small numbers; a value outside the range never reaches a variable. `Div` truncates toward zero as Rust does.

**Ledger** models the surroundings: `now`, `balance`, `frozen` (holders whose
trustline the issuer deauthorized), `strays` (a history of tokens sent to the
contract directly). Its own steps are `CloseLedger` (time moves by any
amount), `SetFrozen` and `Stray`. `PayBothReply` and `PaidBoth` are the two payments
that `resolve` and `cancel` make, each only when positive, in the code's order.

**Allowances** adds to the ledger what each signer lets the instance draw, and until
when: `Approve` sets, changes or revokes it, `Spend` moves a payer's tokens
elsewhere. Only the signers in `Approvers` approve, which keeps the run small; the
proofs hold for any set of them.

**Escrow**, **Stream**, **Vesting** and **Recurring** model the contracts that keep a record. For an entry point `xxx`,
`XxxReply` is what it returns: its checks *in the order of the code*, the token's
refusal included. The action `Xxx` is the successful call; it does everything
the handler does (save, transfers, event). A failing call changes nothing and
is a stuttering step.

| code | TLA+ |
|---|---|
| the record in instance storage, or none | `escrow` (`Absent`), `stream` (`NoStream`), `grant` (`NoGrant`), `authorization` (`NoAuthorization`) |
| `Option<Address>`, `Option<u64>`, `Option<u32>` | `NoArbiter`; `Never`, later than every timestamp; `NoCap`, above every counter |
| `is_initialized`, `load` | the first check of `InitReply`/`CreateReply`/`AuthorizeReply`; `Load` |
| `require_auth(a)` | `RequireAuth(signer, a)`: one address signs a transaction; a contract never does |
| `require_auth_either(_opt)` | `RequireAuthEither`, membership before signature |
| `deadline.saturating_add(..)` | `DisputeTimeout` |
| the branch of `refund` for a disputed escrow | `RecoverReply` |
| `accrued_at`, `available_at`, `remaining`, `balance_of` | `AccruedAt`, `AvailableAt`, `Remaining`, `BalanceOf` |
| `withdraw(Some(x))`, `withdraw(None)` | `Withdraw`, `WithdrawAll` |
| `planned_vested`, `vested_amount`, `claimable_at`, `checkpoints` | `PlannedVested`, `VestedAmount`, `ClaimableAt`, `Checkpoints` |
| `check_size`, the loops of `execute`, the product of `execute_equal` | `CheckSize`, `TotalLine`, `TransferLine`, `EqualTotal` |
| the rollback of a failed call | `Revert` (batch_payout), `Trap` (escrow) |
| `storage::save`, `pay`, `publish` in one call, one after the other | `Enter...`, `Move`, `Return` of `EscrowHost` |
| `extend_instance` | `Extended` |
| `is_chargeable_at`, `remaining_periods`, `transfer_from` | `IsChargeableAt`, `RemainingPeriods`, `Pull` |
| `publish` | `events` (escrow) |

History variables: `flows` sums what the token really moved between the
instance and its parties, taken from the transfers and not from the record;
`events` is what an indexer sees, with the signer beside the address the event
names; `signedBy` is the signer of the last call; `pulled` and `marks` (recurring)
are what was moved and when the consent was given and each charge taken.

The operators introduced as mutants (`InitReplyAnyAmount`, `SettleUnsaved`,
`AccruedPastStop`, ...) are plausible bugs. No action uses them: substituted for
the definition that follows them, each makes the property named in
`PROJECT.json` fail, so every property is known to be able to fail.

**Custody** is what the three contracts that hold tokens promise, whatever their rules: tokens come in
from one payer, go to the payer or to one payee, never exceed what came in, and
closing pays out all that is left and is final. `Escrow`, `Stream` and `Vesting` each
instantiate it with a refinement mapping: open is not terminal, not cancelled, not
revoked, and the flows are the flows. A revocation closes the grant, so what had
vested and is still to be claimed counts as the beneficiary's from then on.

**BatchPayout** models the stateless contract inside one call: `Execute` or
`ExecuteEqual` begins it, `TotalLine` is one turn of the first loop,
`RequireFunder` asks for the signature, `TransferLine` is one turn of the second, and
`Return` or `Revert` ends it. `Preview` is the view's own copy of the validation. The
balances a failed call restores are in the call's record (`undo`), and so is what each
recipient got (`share`). **Payout** is the promise: nothing happens, or
everybody is paid at once, the payer is down by the receipt's total and the
contract has kept nothing. The refinement mapping shows the balances as they
were before the call while one is under way.

**Storage** is `common/src/storage.rs`: `ttl`, the ledgers the instance still
lives, `Extended` (to `INSTANCE_BUMP` when below `INSTANCE_THRESHOLD`), and the host's part,
`Age` and `Restore`. `idle` is a history: the ledgers since the last call that
succeeded. Constants and time are scaled; that the instance's code has a
time-to-live of its own, extended by the same call, is left out.

**EscrowHost** takes `Escrow`'s calls apart. An entry point that moves tokens is `Enter...`
(load, checks, save: everything before the first call of the token), then `Move`
for each payment, then `Return` (publish). Between any two of these steps the token may
call any entry point again, to the depth `MaxDepth`: 1 is the host as it is
today, which refuses re-entry; 2 is what the comment of `pay` speaks of. `stack`
holds the calls under way, each with what it has still to move and the world to
restore; `due` sums what they have to move. A refused transfer is `Trap`: the
host restores everything the call wrote, what calls inside it wrote
included, and the call around it goes on (a token may catch the failure of what
it called). The checks are those of `Escrow`, by an instance in which
the token accepts everything; whether it does is then decided payment by payment. The
entry points that move no token stay one step, at any depth. Ledgers close, the
issuer acts and instances are restored between transactions only.

**EscrowClaims**, **VestingClaims** and **RecurringClaims** add statements that
comments of the code make and the code does not keep (section 5).

## 3. The runs

| run | instance | size | checks |
|---|---|---|---|
| `escrow` | 3 signers and the contract's address, every choice of depositor, beneficiary and arbiter among them or no arbiter; amounts 0, 2, 3; timestamps 0..5; grace period 2; `I128Max` 9; 4 basis points in a whole | about 225 000 states | see below |
| `stream` | 2 signers and the contract's address; rates, amounts 0..3; timestamps 0..5; `I128Max` 9 | about 49 000 states | see below |
| `vesting` | 2 signers and the contract's address; totals 0, 2, 5; every start, cliff and duration with timestamps 0..5; `I128Max` 9 | about 92 000 states | see below |
| `recurring` | 2 signers and the contract's address; amounts 0..2, every period with timestamps 0..5, caps 1, 2 and none, a counter that is full at 2; one approver, allowances 0 and 2 with every expiry | about 1 050 000 states | see below |
| `batch_payout` | 2 signers and the contract's address; at most 2 lines, and batches of 3; amounts 0, 1, 3; `I128Max` 5 | about 302 000 states | see below |
| `escrow_host` | 2 signers, a third holder and the contract's address; one amount, halves; timestamps 0..2 and grace period 1; calls 2 deep; threshold 2, bump 3, minimum 0 | about 79 000 states | see below |

Six more runs, one for each statement of section 5, end in a counterexample.

All runs let the issuer freeze and unfreeze one holder and, but for `escrow_host`, let one token stray
in, in any state in which no call is under way. No state is a deadlock, for the issuer always has a step.

`escrow` checks, besides `TypeOK`:

- `Solvency` - the token balance is what the record owes plus strays.
- `PaidExactlyOnce` - the conservation invariant of `escrow/types.rs`, with the
  rounding of a split bounded to less than one unit.
- `DisputeHasNeutralArbiter` - the `expect` in `resolve` rests on checks made two
  calls earlier.
- `ExitOpen` - a funded escrow can be released, refunded from the deadline on; a disputed one can be
  ruled on or, after the grace period, recovered by anybody. No overflow or
  check is in the way.
- `NoUnilateralExit` - an action property: who must have signed, and when, for
  money to move each way.
- `EventsTellTheStory` - the published events follow the state diagram, the last
  one names the stored state and carries all that was ever paid out, and the address
  each names as acting signed it, but for a recovery after a dispute.
- `ImplementsCustody` - the refinement.
- `FundsEventuallyLeave` - liveness.

`stream` checks, besides `TypeOK`:

- `FullyFunded` - `deposited = rate * (stop - start)` after any top-ups and
  extensions, and the record's totals are what the token moved.
- `Solvency` - the token balance is what `remaining` reports plus strays.
- `AccountsAddUp` - at *every future timestamp* the views succeed and the
  recipient's and the sender's `balance_of` add up to `remaining`.
- `PromiseKept` - an action property: no call rewrites the accrual up to the old stop
  or lowers it later, and only a permitted cancellation stops it, with all
  accrued paid.
- `NeverBricked` - what is available can always be withdrawn, and a cancellable
  stream cancelled, without an overflow on the way.
- `ImplementsCustody`, and `RecipientIsPaid` (liveness).

`vesting` checks, besides `TypeOK`:

- `Conservation` - `claimed + returned + remaining = total`, with the record's
  numbers equal to the tokens moved and the rest in the contract's balance.
- `ClaimableIsHeld` - at every future timestamp what is claimable is within what is
  held, does not underflow and does not shrink with time; after the end or a revocation it is
  all that is left.
- `PaysTheProportion` - the beneficiary never has more than the exact proportion,
  nothing before the cliff, and a revocation returns less than one unit more than
  the exact rest.
- `NeverLocked` - no grant becomes uncollectable. The product in `planned_vested`
  can overflow *between* the cliff and the end, and `claim` and `revoke` then
  fail; the property says that this is the only obstacle and that it goes away.
- `VestedIsKept` - an action property: nothing takes vested tokens from the
  beneficiary, and a revocation returns just what had not vested.
- `ImplementsCustody`, and `BeneficiaryIsPaid` (liveness).

`recurring` checks, besides `TypeOK`:

- `PullInvariant` - the pull invariant of `recurring/types.rs`, about the tokens, with the cap; and the
  rate it is meant to give: between any two of the consent and the charges there are no more
  charges than whole periods, so never more than `amount` per period has been pulled.
- `OnePerPeriod` - the consent and the charges are pairwise a period apart, each
  counted once, and the last one alone determines the due date: skipped periods
  are forfeited.
- `ViewsAgree` - `is_chargeable` against the checks of `charge`, `remaining_periods`
  against the cap.
- `ConsentKept` - an action property: the terms never change, only a party cancels, nothing
  is pulled after a cancellation, and a charge is the payee's, moves one
  amount from payer to payee and fits an allowance that is valid then.

`batch_payout` checks, besides `TypeOK`:

- `ReceiptIsExact` - the receipt's total, a checked sum or a checked product taken
  before anything moves, is what the token then moved to the recipients.
- `PreviewAgrees` - `preview`, `execute` and `execute_equal` validate with three
  pieces of code in two orders: what `preview` accepts fails only for the signature or
  in the token, and what it refuses is refused.
- `CoveredBatchesPay` - no line is refused in the middle for want of money if
  the funder could pay the total at the start, whichever lines pay the funder itself.
- `ImplementsPayout` - the refinement: nobody is paid unless everybody is.

`escrow_host` checks, besides `HostTypeOK`:

- `Settling` - the comment of `pay`, "a reentrant token cannot observe a stale state": at every step
  inside nested calls the stored record is the one that will be true when
  all payments due are made.
- `ActsAtomically` - every step, seen from outside the outermost call, is a step
  of `Escrow`: the refinement that justifies calls in one step in the other modules.
- `TendedStaysLive` - an instance on which a call succeeds at least every
  `Threshold` ledgers is never archived, whatever fails in between.
- `FundsEventuallyPaid` - liveness, with archival in the way.

**Why the bounds are enough.** An instance has two parties and at most one
arbiter: three signers make all of them distinct with each coinciding in some
behaviour, and the contract's own address covers the degenerate
parties the code does not exclude. In the other contracts, two signers are the two
parties, and each is also the stranger of the other's calls. Time 0..5 puts the start before, at and after the
creation, leaves room for a deadline, the grace period after it and a step
beyond, and is short enough that a deadline near the end saturates at
`U64Max`. `I128Max = 9` is the least that lets some products overflow (rate 3
over 4 seconds; 3 units times 4 basis points) while most do not, so both sides
of each check are reached. Amount 3 with 4 basis points has inexact shares;
amount 2 with 2 has an exact one. Supplies are small enough that a party can
be unable to pay. In `vesting` the product of a total of 5 overflows
two seconds after the start and that of a total of 2 never, so grants with and
without an unavailable stretch are covered. In `recurring` the consent and two charges
fit between 0 and 5 with time to skip a due date, and an uncapped authorization
meets the full counter. In `batch_payout` two lines are what it takes for one payment to
change what the next can draw on, for the second to fail after the first, and for a
total to overflow (3 + 3); three addresses let a line pay the funder, the other
signer or the contract. In `escrow_host` depth 2 is one call inside another, which is
where the two records could differ; with amount 2 in halves `resolve` makes two payments or
one; with threshold 2 an instance is extended, skipped and archived while the deadline and
the grace period pass. What the bounds leave open, the proofs close.

## 4. Fairness

`LedgerFairness`: ledgers keep closing (weak fairness of `CloseLedger`), and the
issuer leaves nobody frozen for ever (weak fairness of the step that unfreezes
everyone). The first is what a blockchain does. The second is an assumption on
the asset: without it no contract can pay a frozen holder.

No party is assumed to act, but the one the property is about: in the escrow the
depositor keeps trying `refund` (`SF(DepositorRefunds)`), in the stream the
recipient keeps withdrawing what is available (`SF(WithdrawAll(s))`), in vesting
the beneficiary keeps claiming (`SF(Claim(s))`). Strong
fairness, because a freeze can disable the call again and again; a client that
retries until it succeeds provides it. The arbiter is never assumed to act, which
is the point of the recovery after the grace period. Liveness is checked at the
last timestamp too: there the clock stops, the saturated timeout has come, and
the recovery is open.

`LiveHostSpec`, the fairness of `escrow_host`: a call under way goes on and ends
(weak fairness of `Steps`, and strong fairness of a step of the outermost call: the host
meters a transaction, so a token cannot call back and fail for ever). The
clock, the unfreezing and `refund` are as above, with strong fairness because
each is possible only between two calls, and calls keep coming. Somebody restores
an archived instance, and the depositor calls, at moments when nobody is frozen; a
client that retries does so.

`recurring` has no liveness property: nothing promises the payee a charge, since the
payer may revoke the allowance at any time and skipped periods are lost. Neither has
`batch_payout`: every call ends after as many steps as it has lines.

## 5. Where comments and code disagree

Each has a run that ends in a counterexample.

- `CancelFreesInstance` - `contract.rs:85` says `cancel` "provides an exit from a
  mistaken `init` without burning the deployed instance". The record stays, and
  `init` answers `AlreadyInitialized` for ever.
- `ArbiterMayRefundAnyTime` - `types.rs:88` and `contract.rs:163` say the arbiter may
  refund at any time. From the dispute to the end of the grace period the
  arbiter's `refund` fails with `DeadlineNotReached`; `resolve` with 0 basis
  points has the same effect.
- `RefundedByDepositorOrArbiter` - `events.rs:48` says `refunded_by` is the depositor
  or the arbiter. A recovered dispute checks neither the argument nor a
  signature, and the event names whatever address the caller passed.
- `StraightLineIsExact` - `vesting/types.rs:143` says that straight lines between
  consecutive checkpoints are the exact schedule. At the cliff the schedule jumps
  from 0 to the proportion, so the first line promises tokens that have not vested;
  the property allows two units for rounding and still fails.
- `SafeTotalNeverOverflows` - `vesting/types.rs:85` puts the maximum safe total at
  about `i128::MAX / (duration / 2)`, by the midpoint. After the midpoint `elapsed`
  grows to nearly the whole duration, so only half of that is safe.
- `ChargeableMeansCharge` - `recurring/contract.rs:177` says `is_chargeable` tells whether
  a charge would succeed right now. It does not look at the two checked
  additions of `charge`, which fail near the end of time or with a full counter.

Met while reading, with no run of their own: `stream/errors.rs:15` lists
`StreamCancelled` for any mutation after a cancellation, while `withdraw` answers
`InvalidAmount` then (nothing is available); `batch_payout`'s `Payment.amount` is
documented as non-negative, while zero is refused; an escrow whose beneficiary
is the contract itself still holds the funds after its release (`Stranded` in
the solvency invariants accounts for it); `common/storage.rs:4` says that every entry
point that touches storage must extend the TTL, while the views, which
use `load_view`, do not; `batch_payout/types.rs:49` calls the receipt's total "the sum
actually moved", while lines that pay the funder move nothing net, as the comment of
`execute` says; and were the host to allow re-entry, a call inside another would
publish its event first, so the event log would tell the story out of order (`EventsTellTheStory` is
a property of calls that are not re-entered).

## 6. The proofs

The eight `_proofs` modules are checked by TLAPS, for
every value of the constants that satisfies the assumptions:
`LedgerAssumption` (signers are holders, the contract is a holder that cannot
sign, naturals are naturals), `I128MaxAssumption`, `BpsAssumption`
(`BpsDenominator` fits `i128`), `ApprovalsAssumption` (approvers are signers), and
`EscrowAssumption`, `StreamAssumption`, `VestingAssumption`, `RecurringAssumption`,
`BatchAssumption`, `AddressAssumption`
(the None value is no record, the amounts offered are of the argument's type,
and a `u64` converts to an `i128`), `StorageAssumption` (the threshold is at most the
bump) and `HostAssumption` (the host runs at least one call). Nothing is assumed of the number of
parties, of `GracePeriod`, of the length of a batch, of the depth of calls within calls, or of the
size of the integers.

`Ledger_proofs` has the arithmetic: what one and two transfers do to a balance
(`TransferMoves`, `PaidBothMoves`), that an exact division buys whole seconds
(`DivisionExact`), and that `split_bps` loses nothing and rounds down by less than a
unit (`SplitIsExact`). The library's induction theorems take an operator, which none of the provers
can instantiate; `Ledger_proofs` has induction as a fact about sets instead. `LeastOfNaturals` says that a
set of naturals with a member has a least one, and `InductionOnSet` that one with 0 and closed under
successor is all of them. Whatever is to be shown of every `n` is then stated as membership in a set.
The loop of `preview`, the sum over the holders and the span of a set of times are done that way.

**Escrow.** The safety invariants are not inductive one by one: `Solvency` in
`Funded` needs to know that nothing has been paid yet, `PaidExactlyOnce` after
`resolve` needs the split to be exact, `DisputeHasNeutralArbiter` needs
neutrality from `init` on. `IInv` is therefore the types, `Neutral` (the
arbiter is neither party in every state), `Moved` (what has moved is a function
of the state: nothing before `fund`, the amount while held, and `PaidOut`, with
the rounding of a split, in a terminal state) and `Solvency`. From it follow
`TypeOK`, `Solvency`, `PaidExactlyOnce`, `DisputeHasNeutralArbiter`,
`ExitOpen`, `NoUnilateralExit` and the refinement of `Custody`. For the last two
the lemma `Effects` sorts all steps into those that move nothing, that fund and
that pay out. `EventsTellTheStory` is inductive relative to `IInv`: `LogGrows` appends one
legal event (`Legal`, the arrows of the state diagram) to a log that tells the story so far,
and needs `Moved` to know that the event before it carried nothing.

**Stream.** `IInv` is the types, `Coherent` (`deposited = rate * (stop - start)`),
`Entitled` (the recipient never holds more than has accrued; after a
cancellation everything is shared out), `Moved` and `Holding`. `Earned` is
accrual without error cases and clamp; `AccrualIsEarned` shows that on a
coherent record the code's `accrued_at` equals it: the product never overflows,
since it is at most `deposited`, and the clamp never bites. `EarnedGrows` makes
`Entitled` survive the clock, and `LongerSpanEarnsOn` makes it survive `top_up` and
`extend`. From `IInv` follow `TypeOK`, `FullyFunded`, `Solvency`, `AccountsAddUp`,
`NeverBricked`, and, with the kinds of steps of `Effects`, `PromiseKept` and the
refinement of `Custody`.

**Vesting.** `IInv` is the types, `Coherent` (the terms `create` accepted),
`Entitled` (claims within what has vested; a revocation returned exactly what had
not), `Moved` and `Holding`. `Vested` is the schedule without error cases;
`PlannedIsVested` says when the code computes it and when its product overflows, and
`VestedGrows` makes `Entitled` survive the clock. The rounding
(`PaysTheProportion`) and the bound on what is claimable follow from
`ShareRoundsDown` and `DivisionMonotone` of `Ledger_proofs`. All safety
properties of the run and the refinement of `Custody` are proved.

**Recurring.** `IInv` is the types, `Coherent` (two distinct parties, a counter
within its cap), `PullInvariant`, that `marks` is finite, and `OnePerPeriod`. The last is inductive
only because it names the latest mark: the due date is a period after it, so a
charge adds a mark at least a period after all others. The mark is therefore a new one, and
the counter and the number of marks grow together. The rate limit is a consequence, not a part, of `IInv`:
`SpacedTimesSpan` shows, by induction on its size, that a finite set of times pairwise a period
apart spans at least that many periods less one, and `RateIsLimited` applies it to the marks between any
two. All properties of the run are proved.

**BatchPayout.** What must be known in the middle of a call is how far the balances are from
those it met. `IInv` is the types, `TotalsGrow` (the running totals are sums of
positive lines, hence grow with them), `PaidSoFar` (every balance is the one at the start, plus the lines
paid to it, minus the running total for the funder) and `CoveredBatchesPay`. A line's
payment is covered because the funder has paid the total of the lines before it
at most, and that and the line are within the whole total, which the funder could pay; lines that pay the funder
only leave it more. `Refinement` maps the world before the call to `Payout`'s: checks, payments and a failure
stutter, and the return of a call is one `Pay`. `PreviewHolds` needs that the loop of `execute` and the one of `preview` compute the same thing: as far
as the call has come its totals are those of `preview` (`PreviewFollows`), a line refused ends both
with the same error, and for equal lines the sums are the multiples whose last is the product
(`EqualLinesAgree`). `ReceiptHolds` adds up a function over the holders, of which there are finitely many
(`AddressAssumption`): a line changes one share, so it adds its amount to the sum, and at the end the sum is
the total.

**EscrowHost.** `HostInv` says of the world now *and of every world the host has put
aside* that it is `Sound`: record, balance, payments made and payments due
fit each other; a rollback then lands in a sound world by hypothesis, whatever happened
since. `Chain` ties the worlds together: what is due is what the
frames on the stack have pending, summed from the bottom up. `Tended` (the
time-to-live covers the rest of the threshold) is likewise a statement about all of them,
for an undone call takes its extension with it. From these
follow `HostTypeOK`, `Settling` and `TendedStaysLive`, at any depth of re-entry.

**EscrowAtomic.** That a call is all or nothing needs more: what exactly has
happened since the outermost call began. `Underway` says it: unless a call within it has
succeeded, the world inside the outermost call is the one it met, with
the new state stored and its first payments made, each accepted by the token; and the
checks of the entry point held then (`FundUnderway`, `PayoutUnderway`). Calls inside are no
trouble, for they work on a world that is put aside meanwhile (`Inside`) and comes back if they
fail. When the outermost call returns, everything pending is paid, and `Underway` yields the guard and
the effect of one action of `Escrow` (`FundSeen`, `PayoutSeen`); all other steps show
nothing outside. `CallsAreAtomic` therefore gives the one-step actions of `Escrow` their
justification, for every number of parties and depth.

**Liveness.** The provers cannot expand `ENABLED`, so the theorems state fairness with the checks of the
code in its place: if the call would be accepted again and again (`RefundAccepted`,
`WithdrawalAccepted`, `ClaimAccepted`, each the reply of the entry point being `Ok`), it is made again and
again (`DepositorPersists`, `RecipientPersists`, `BeneficiaryPersists`), and if holders stay frozen, the step that
unfreezes them is taken (`Unfreezes`). That is what the strong and weak fairness of section 4 say once
`ENABLED` is worked out. Each argument has the same four parts, proved as lemmas: the obligation stays until it is
met (`HeldStays`, `AccrualStays`, `FullyVestedStays`); while nobody is frozen the call that
meets it is accepted, which is where the safety invariant is needed (`OverdueIsAccepted`,
`AccruedIsAccepted`, `LeftIsAccepted`); the accepted call meets it (`RefundEmpties`, `WithdrawalPays`,
`LastClaimEmpties`); and again and again nobody is frozen (`NobodyStaysFrozen`).

- `OverdueFundsLeave`, `AccruedIsPaid`, `FullyVestedIsPaid` say it of what is already due: funds whose
  deadline and grace period have passed, any amount that has accrued, a grant that has ended or was revoked.
  They assume nothing of the clock.
- `FundsLeave`, `RecipientGetsAll`, `BeneficiaryGetsAll` prove the runs' properties
  `FundsEventuallyLeave`, `RecipientIsPaid` and `BeneficiaryIsPaid`, with one more hypothesis: the clock
  reaches its last timestamp, by which everything is due. That closing ledgers reach it is
  an induction over time under fairness, which stays with TLC.

**Only model-checked.** The liveness properties directly from `LiveSpec`, that is, that the explicit fairness is
what `ENABLED` makes of `WF` and `SF`, and that closing ledgers reach any timestamp; `FundsEventuallyPaid` of
`escrow_host`, whose fairness is about steps in the middle of calls; and the six runs of section 5.

## 7. What is not modelled

- *The rollback of stream, vesting and recurring.* That a failed call leaves no trace is a
  result for `escrow` and `batch_payout`, and assumed by the form of the actions
  in the three others: they save first and pay after, as the escrow does, and the
  host undoes them in the same way, but no module steps through them.
- *Hostile tokens.* A token may refuse a payment at any point and, for the escrow, call back
  in the middle of one. One that moves other amounts than it is told, or says yes and
  moves nothing, is not modelled: the contracts take the token's word, and the solvency
  they promise is relative to it.
- *The TTL of the other contracts and of the code.* `Storage` is composed with the
  escrow; stream, vesting and recurring expand the same macro around their records. The contract's code is a ledger
  entry of its own, which `extend_instance` extends with the instance; it can also be restored by anybody.
- *Multi-signature transactions.* One address signs each call. Every entry
  point asks for at most one signature.
- *The events of stream, vesting and recurring*, topics and encodings of all events, error numbers,
  the contract specs, deployment scripts and fuzz targets: no state of the system.

## 8. The plan

Done: the four contracts with a record, their abstract `Custody`; `BatchPayout` as an
atomic payout; the escrow under the host, with re-entry, rollback, archival and restoration; a proof
of every safety property the runs check, and of the liveness of escrow, stream and vesting from fairness stated
with the code's checks. What remains:

1. Stream under the host: `cancel` makes two payments too, and a call in the middle computes an
   accrual from the stored record; the shape is that of `EscrowHost`.
2. The events of stream, vesting and recurring, as `EventsTellTheStory` does for the escrow.
3. The liveness of `escrow_host`, argued as in section 6: its obligation must also survive archival and
   calls within calls.
