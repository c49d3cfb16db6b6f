----------------------------- MODULE EscrowHost -----------------------------
(***************************************************************************)
(* The escrow as the host runs it.  Escrow takes a call as one step; here  *)
(* an entry point that moves tokens stores the new record, then calls the  *)
(* token once per payment, then publishes its event, and the token, which  *)
(* is any contract, may call the escrow back in between.  A payment the    *)
(* token refuses makes the host undo all that the call wrote, and an       *)
(* instance whose time-to-live has run out takes no call at all.           *)
(***************************************************************************)
EXTENDS Escrow, Storage

CONSTANT MaxDepth  \* calls under way at once; 1 is a host that refuses re-entry

ASSUME HostAssumption == MaxDepth \in Nat \ {0}

VARIABLES
    stack,  \* the calls under way, the outermost first
    due     \* history: what the calls under way have still to move

hostVars == <<vars, storageVars, stack, due>>

-----------------------------------------------------------------------------

\* What the host restores when a call fails.
Worlds ==
    [escrow  : {Absent} \cup Agreements,
     balance : [Holders -> Nat],
     flows   : Flows,
     events  : Seq(Events),
     due     : Flows,
     ttl     : Nat,
     idle    : 0..(Threshold + 1)]

World ==
    [escrow |-> escrow, balance |-> balance, flows |-> flows, events |-> events,
     due |-> due, ttl |-> ttl, idle |-> idle]

\* `pending` is what the call has still to move, `event` what it will publish,
\* and `reentered` whether another call has succeeded inside of it.
Frames == [undo : Worlds, pending : Flows, event : Events, reentered : BOOLEAN]

Depth == Len(stack)
Top   == stack[Depth]

HostInit ==
    /\ Init
    /\ StorageInit
    /\ stack = <<>>
    /\ due = NoFlows

-----------------------------------------------------------------------------
(* A call begins.                                                          *)

\* The contract's own checks: its replies where the token accepts everything.
Checks == INSTANCE Escrow WITH
    balance <- [h \in Holders |-> I128Max],
    frozen  <- {}

Callable == Depth < MaxDepth /\ ~Archived

Payment(pulled, toBeneficiary, toDepositor) ==
    [pulled |-> pulled, toBeneficiary |-> toBeneficiary, toDepositor |-> toDepositor]

\* What the event says has moved is what the call moves.
Story(kind, by, auth, split, payment) ==
    [kind          |-> kind,
     by            |-> by,
     auth          |-> auth,
     split         |-> split,
     toBeneficiary |-> payment.toBeneficiary,
     toDepositor   |-> payment.toDepositor]

\* Mutant: the token is called before the new state is stored.
SaveLate(state) == UNCHANGED escrow

Save(state) == escrow' = [escrow EXCEPT !.state = state]

\* storage::load, the checks, storage::save: up to the first call of the token.
Enter(state, payment, event) ==
    /\ Callable
    /\ Save(state)
    /\ Tend
    /\ due' = Payment(due.pulled + payment.pulled,
                      due.toBeneficiary + payment.toBeneficiary,
                      due.toDepositor + payment.toDepositor)
    /\ stack' = Append(stack, [undo |-> World, pending |-> payment,
                               event |-> event, reentered |-> FALSE])
    /\ UNCHANGED <<ledgerVars, flows, events>>

EnterFund(signer) ==
    LET payment == Payment(escrow.amount, 0, 0)
    IN  /\ Checks!FundReply(signer) = "Ok"
        /\ Enter("Funded", payment, Story("Funded", escrow.depositor, signer, 0, payment))

EnterRelease(signer, caller) ==
    LET payment == Payment(0, escrow.amount, 0)
    IN  /\ Checks!ReleaseReply(signer, caller) = "Ok"
        /\ Enter("Released", payment, Story("Released", caller, signer, 0, payment))

EnterRefund(signer, caller) ==
    LET payment == Payment(0, 0, escrow.amount)
    IN  /\ Checks!RefundReply(signer, caller) = "Ok"
        /\ Enter("Refunded", payment, Story("Refunded", caller, signer, 0, payment))

EnterResolve(signer, bps) ==
    LET split   == SplitBps(escrow.amount, bps)
        payment == Payment(0, split.first, split.second)
    IN  /\ Checks!ResolveReply(signer, bps) = "Ok"
        /\ Enter("Resolved", payment, Story("Resolved", escrow.arbiter, signer, bps, payment))

Entries(signer) ==
    \/ EnterFund(signer)
    \/ \E caller \in Holders : EnterRelease(signer, caller) \/ EnterRefund(signer, caller)
    \/ \E bps \in 0..(BpsDenominator + 1) : EnterResolve(signer, bps)

\* A call that ends well inside another one.
Reentering(frames) ==
    IF frames = <<>> THEN frames ELSE [frames EXCEPT ![Len(frames)].reentered = TRUE]

\* The entry points that move no token are one step at any depth.
WholeCall(signer) ==
    /\ Callable
    /\ \/ Initializes(signer)
       \/ Cancel(signer)
       \/ \E caller \in Holders : Dispute(signer, caller)
    /\ Tend
    /\ stack' = Reentering(stack)
    /\ UNCHANGED due

\* The entry point `bump`: anybody may keep the instance alive.
BumpTtl ==
    /\ Callable
    /\ Load = "Ok"
    /\ Tend
    /\ UNCHANGED <<vars, stack, due>>

-----------------------------------------------------------------------------
(* The innermost call goes on.                                             *)

\* The order of the code: resolve pays the beneficiary first.
Upcoming ==
    IF Top.pending.pulled > 0 THEN "pulled"
    ELSE IF Top.pending.toBeneficiary > 0 THEN "toBeneficiary"
    ELSE "toDepositor"

Payer(flow) == IF flow = "pulled" THEN escrow.depositor ELSE Self

Payee(flow) ==
    CASE flow = "pulled"        -> Self
      [] flow = "toBeneficiary" -> escrow.beneficiary
      [] flow = "toDepositor"   -> escrow.depositor

Accepted(flow) ==
    TransferReply(balance, Payer(flow), Payee(flow), Top.pending[flow]) = "Ok"

Busy == stack # <<>> /\ Top.pending # NoFlows

\* Mutant: a payment is not crossed off.
MoveAgain ==
    /\ Busy /\ Accepted(Upcoming)
    /\ LET amount == Top.pending[Upcoming]
       IN  /\ balance' = Transferred(balance, Payer(Upcoming), Payee(Upcoming), amount)
           /\ flows' = [flows EXCEPT ![Upcoming] = @ + amount]
           /\ due' = [due EXCEPT ![Upcoming] = @ - amount]
           /\ stack' = stack
    /\ UNCHANGED <<now, frozen, strays, escrow, events, storageVars>>

Move ==
    /\ Busy /\ Accepted(Upcoming)
    /\ LET amount == Top.pending[Upcoming]
       IN  /\ balance' = Transferred(balance, Payer(Upcoming), Payee(Upcoming), amount)
           /\ flows' = [flows EXCEPT ![Upcoming] = @ + amount]
           /\ due' = [due EXCEPT ![Upcoming] = @ - amount]
           /\ stack' = [stack EXCEPT ![Depth].pending[Upcoming] = 0]
    /\ UNCHANGED <<now, frozen, strays, escrow, events, storageVars>>

\* Everything is paid: publish the event and return.
Return ==
    /\ stack # <<>> /\ Top.pending = NoFlows
    /\ events' = Append(events, Top.event)
    /\ stack' = Reentering(SubSeq(stack, 1, Depth - 1))
    /\ UNCHANGED <<ledgerVars, escrow, flows, storageVars, due>>

\* Mutant: the tokens move back, the record stays as the call stored it.
TrapKeepingRecord ==
    /\ Busy /\ ~Accepted(Upcoming)
    /\ balance' = Top.undo.balance
    /\ flows' = Top.undo.flows
    /\ due' = Top.undo.due
    /\ stack' = SubSeq(stack, 1, Depth - 1)
    /\ UNCHANGED <<now, frozen, strays, escrow, events, storageVars>>

\* Mutant: the record goes back, what the token has moved stays moved.
TrapKeepingPayments ==
    /\ Busy /\ ~Accepted(Upcoming)
    /\ escrow' = Top.undo.escrow
    /\ due' = Top.undo.due
    /\ stack' = SubSeq(stack, 1, Depth - 1)
    /\ UNCHANGED <<ledgerVars, flows, events, storageVars>>

\* The token refuses: the host undoes the call, also the extended time-to-live.
Trap ==
    /\ Busy /\ ~Accepted(Upcoming)
    /\ escrow'  = Top.undo.escrow
    /\ balance' = Top.undo.balance
    /\ flows'   = Top.undo.flows
    /\ events'  = Top.undo.events
    /\ due'     = Top.undo.due
    /\ ttl'     = Top.undo.ttl
    /\ idle'    = Top.undo.idle
    /\ stack' = SubSeq(stack, 1, Depth - 1)
    /\ UNCHANGED <<now, frozen, strays>>

Steps == Move \/ Return \/ Trap

-----------------------------------------------------------------------------
(* Between two transactions.                                               *)

\* Also a ledger whose timestamp the scaled clock does not tell apart.
LedgerCloses ==
    /\ stack = <<>>
    /\ CloseLedger \/ UNCHANGED ledgerVars
    /\ Age
    /\ UNCHANGED <<contractVars, stack, due>>

OthersAct ==
    /\ stack = <<>>
    /\ SetFrozen \/ Stray
    /\ UNCHANGED <<contractVars, storageVars, stack, due>>

\* Anybody may pay for it.
RestoreInstance ==
    /\ stack = <<>>
    /\ Restore
    /\ UNCHANGED <<vars, stack, due>>

HostNext ==
    \/ \E signer \in Signers : Entries(signer) \/ WholeCall(signer)
    \/ BumpTtl \/ Steps
    \/ LedgerCloses \/ OthersAct \/ RestoreInstance

HostSpec == HostInit /\ [][HostNext]_hostVars

\* The depositor calls `refund` at a moment when the token would let it, and
\* restores the instance at such a moment when it must.
DepositorEnters ==
    /\ escrow.state # "Absent" /\ stack = <<>> /\ frozen = {}
    /\ EnterRefund(escrow.depositor, escrow.depositor)

\* The host meters a transaction: it cannot call back and fail for ever.  The
\* rest is as in LedgerFairness and LiveSpec, but calls begin and end between
\* two ledgers, so that what is enabled only between calls needs strength.
LiveHostSpec ==
    /\ HostSpec
    /\ WF_hostVars(Steps) /\ SF_hostVars(Depth = 1 /\ Steps)
    /\ SF_hostVars(LedgerCloses /\ now' > now)
    /\ SF_hostVars(OthersAct /\ frozen' = {})
    /\ SF_hostVars(RestoreInstance /\ frozen = {})
    /\ SF_hostVars(DepositorEnters)

-----------------------------------------------------------------------------
(* Properties.                                                             *)

\* Every variable holds a value of its type.
HostTypeOK ==
    /\ TypeOK
    /\ StorageTypeOK
    /\ stack \in Seq(Frames) /\ Depth <= MaxDepth
    /\ due \in Flows

\* "A reentrant token cannot observe a stale state" (comment of pay): at every
\* moment, also when the token is being called and calls back, the record in
\* storage already says what will be true when all the calls under way have
\* paid.  The contract holds Held once they have, and all the payments, made
\* and due, pull the agreed amount once and pay it out once, to whom the stored
\* state names.
Settling ==
    LET all(flow) == flows[flow] + due[flow]
    IN  /\ balance[Self] + due.pulled - due.toBeneficiary - due.toDepositor =
               Held + strays + Stranded
        /\ escrow.state # "Absent" =>
               /\ all("pulled") \in {0, escrow.amount}
               /\ escrow.state \in {"Funded", "Disputed", "Released", "Resolved"}
                      => all("pulled") = escrow.amount
               /\ all("toBeneficiary") + all("toDepositor") =
                      (IF escrow.state \in Terminal THEN all("pulled") ELSE 0)
               /\ escrow.state = "Released" => all("toDepositor") = 0
               /\ escrow.state = "Refunded" => all("toBeneficiary") = 0

\* What an outsider sees: the world before the outermost call under way.
Committed == IF stack = <<>> THEN World ELSE stack[1].undo

\* Escrow, seen from outside.
Atomic == INSTANCE Escrow WITH
    escrow  <- Committed.escrow,
    balance <- Committed.balance,
    flows   <- Committed.flows,
    events  <- Committed.events

Reentered == stack # <<>> /\ stack[1].reentered

\* A call is all or nothing: seen from outside, every step is a step of Escrow,
\* so a call of which the token refuses the second payment leaves no trace of
\* the first.  (A call the token re-entered is the one exception: Escrow has no
\* step that does two calls.)
ActsAtomically == [][Atomic!Next \/ Reentered]_Atomic!vars

\* The promise of storage.rs, "extended to 30 days whenever they fall below 29
\* days remaining", is worth 29 days: an instance that some call succeeds on at
\* least that often is never archived, whatever calls fail in between.
TendedStaysLive == idle <= Threshold => ~Archived

\* Archived or not, frozen or not, what was pulled ends up paid out (or the call
\* that was to pull it has failed): as long as somebody restores the instance and
\* the depositor keeps calling `refund`.
FundsEventuallyPaid ==
    Held > 0 ~> /\ stack = <<>> /\ Held = 0
                /\ flows.toBeneficiary + flows.toDepositor = flows.pulled

=============================================================================
