--------------------------- MODULE Escrow_proofs ---------------------------
(***************************************************************************)
(* The escrow's safety, for every value of the constants: its types, its   *)
(* solvency, its conservation of the amount, its disputes, its exits, who  *)
(* may move the funds, and that it implements Custody, from one inductive  *)
(* invariant.                                                              *)
(***************************************************************************)
EXTENDS Escrow, Ledger_proofs

\* The arbiter is neutral, and a disputed escrow has one.
Neutral ==
    escrow.state # "Absent" =>
        /\ escrow.arbiter \notin {escrow.depositor, escrow.beneficiary}
        /\ escrow.state = "Disputed" => escrow.arbiter # NoArbiter

\* A split of the agreed amount: the beneficiary's share of `bps` basis points
\* of it is rounded down by less than a unit.
RoundedDown(share, bps) ==
    /\ share * BpsDenominator <= escrow.amount * bps
    /\ escrow.amount * bps < share * BpsDenominator + BpsDenominator

\* What has been paid out in a terminal state.
PaidOut ==
    \/ escrow.state = "Refunded" /\ flows = NoFlows
    \/ /\ flows.pulled = escrow.amount
       /\ flows.toBeneficiary + flows.toDepositor = escrow.amount
       /\ escrow.state = "Released" => flows.toDepositor = 0
       /\ escrow.state = "Refunded" => flows.toBeneficiary = 0
       /\ escrow.state = "Resolved" =>
              RoundedDown(flows.toBeneficiary, events[Len(events)].split)

\* What has moved follows from the state.
Moved ==
    /\ escrow.state \in {"Absent", "Created"} => flows = NoFlows
    /\ escrow.state \in {"Funded", "Disputed"} =>
           flows = [pulled |-> escrow.amount, toBeneficiary |-> 0, toDepositor |-> 0]
    /\ escrow.state \in Terminal => PaidOut

\* The inductive invariant.
IInv ==
    /\ TypeOK
    /\ Neutral
    /\ Moved
    /\ Solvency

-----------------------------------------------------------------------------

\* The types of a stored agreement and of the ledger around it.
LEMMA Types ==
    ASSUME TypeOK, escrow.state # "Absent"
    PROVE  /\ escrow \in Agreements
           /\ escrow.depositor \in Holders /\ escrow.depositor \in Signers
           /\ escrow.depositor # Self
           /\ escrow.beneficiary \in Holders
           /\ escrow.arbiter \in Holders \cup {NoArbiter}
           /\ escrow.amount \in Nat /\ escrow.amount > 0
           /\ escrow.amount \in 0..I128Max /\ I128Max \in Nat
           /\ escrow.deadline \in Nat /\ escrow.deadline <= U64Max
           /\ escrow.state \in States
BY LedgerAssumption, I128MaxAssumption DEF TypeOK, Absent, Agreements

\* The types of the ledger.
LEMMA LedgerTypes ==
    ASSUME TypeOK
    PROVE  /\ now \in Nat /\ now <= U64Max /\ U64Max \in Nat
           /\ balance \in [Holders -> Nat] /\ strays \in Nat
           /\ Self \in Holders /\ Self \notin Signers /\ Signers \subseteq Holders
           /\ NoArbiter \notin Holders /\ GracePeriod \in Nat
           /\ BpsDenominator \in Nat /\ BpsDenominator > 0
BY LedgerAssumption, EscrowAssumption, I128MaxAssumption, BpsAssumption
   DEF TypeOK, LedgerTypeOK

LEMMA InitEstablishes == Init => IInv
<1> SUFFICES ASSUME Init PROVE IInv
  OBVIOUS
<1>1. LedgerTypeOK /\ balance[Self] = 0
  BY LedgerAssumption DEF Init, LedgerInit, LedgerTypeOK
<1>2. events \in Seq(Events)
  BY DEF Init
<1>3. TypeOK
  BY <1>1, <1>2 DEF Init, TypeOK, Flows, NoFlows
<1>4. escrow.state = "Absent"
  BY DEF Init, Absent
<1>5. Neutral /\ Moved
  BY <1>4 DEF Init, Neutral, Moved, Terminal
<1>6. Held = 0 /\ Stranded = 0 /\ strays = 0
  BY <1>4 DEF Held, Stranded, Init, LedgerInit
<1>7. Solvency
  BY <1>1, <1>6 DEF Solvency
<1>8. QED
  BY <1>3, <1>5, <1>7 DEF IInv

\* An event of the types of its fields keeps `events` typed, and is the last.
LEMMA EmitAppends ==
    ASSUME TypeOK, NEW kind \in EventKinds, NEW by \in Holders, NEW auth \in Signers,
           NEW split \in 0..BpsDenominator, NEW x \in 0..I128Max, NEW y \in 0..I128Max,
           Emit(kind, by, auth, split, x, y)
    PROVE  /\ events' \in Seq(Events)
           /\ events'[Len(events')].split = split
           /\ events'[Len(events')].auth = auth
<1> DEFINE e == [kind |-> kind, by |-> by, auth |-> auth, split |-> split,
                 toBeneficiary |-> x, toDepositor |-> y]
<1>1. e \in Events
  BY DEF Events
<1>2. events \in Seq(Events) /\ events' = Append(events, e)
  BY DEF TypeOK, Emit
<1> HIDE DEF e
<1>3. events' \in Seq(Events) /\ Len(events') = Len(events) + 1
      /\ events'[Len(events) + 1] = e
  BY <1>1, <1>2
<1>4. QED
  BY <1>3 DEF e

\* A change of state that moves no tokens: init, cancel, dispute.
LEMMA StateChangeKeeps ==
    ASSUME IInv, UNCHANGED <<ledgerVars, flows>>, TypeOK',
           escrow' \in Agreements, Neutral', Moved',
           Held' = Held, flows.toBeneficiary = 0
    PROVE  IInv'
<1>1. Stranded' = 0 /\ Stranded = 0
  BY DEF Stranded
<1>2. Solvency'
  BY <1>1 DEF IInv, Solvency, ledgerVars
<1>3. QED
  BY <1>2 DEF IInv

LEMMA InitializeKeeps ==
    ASSUME IInv, NEW signer \in Signers, NEW depositor \in Holders,
           NEW beneficiary \in Holders, NEW arbiter \in Holders \cup {NoArbiter},
           NEW amount \in Amounts, NEW deadline \in 0..U64Max,
           Initialize(signer, depositor, beneficiary, arbiter, amount, deadline)
    PROVE  IInv'
<1>1. /\ escrow.state = "Absent" /\ amount > 0 /\ deadline > now
      /\ arbiter \notin {depositor, beneficiary} /\ signer = depositor
      /\ escrow' = [depositor |-> depositor, beneficiary |-> beneficiary,
                    arbiter |-> arbiter, amount |-> amount, deadline |-> deadline,
                    state |-> "Created"]
      /\ Emit("Created", depositor, signer, 0, 0, 0)
      /\ UNCHANGED <<ledgerVars, flows>>
  BY DEF Initialize, InitReply, Require, RequireAuth, ??
<1>2. now \in Nat /\ BpsDenominator \in Nat /\ I128Max \in Nat /\ flows = NoFlows
  BY <1>1, LedgerTypes, I128MaxAssumption DEF IInv, Moved
<1>3. amount \in 1..I128Max /\ deadline \in 1..U64Max
  BY <1>1, <1>2, LedgerTypes, EscrowAssumption DEF IInv, I128
<1>4. escrow' \in Agreements
  BY <1>1, <1>3 DEF Agreements, States
<1>5. events' \in Seq(Events)
  BY <1>1, <1>2, EmitAppends DEF IInv, EventKinds
<1>6. TypeOK'
  BY <1>1, <1>4, <1>5 DEF IInv, TypeOK, LedgerTypeOK, ledgerVars
<1>7. Neutral' /\ Moved'
  BY <1>1, <1>2 DEF Neutral, Moved, Terminal
<1>8. Held' = Held
  BY <1>1 DEF Held
<1>9. QED
  BY <1>1, <1>2, <1>4, <1>6, <1>7, <1>8, StateChangeKeeps DEF NoFlows

LEMMA CancelKeeps ==
    ASSUME IInv, NEW signer \in Signers, Cancel(signer)
    PROVE  IInv'
<1>1. /\ escrow.state = "Created" /\ signer = escrow.depositor
      /\ escrow' = [escrow EXCEPT !.state = "Refunded"]
      /\ Emit("Cancelled", escrow.depositor, signer, 0, 0, 0)
      /\ UNCHANGED <<ledgerVars, flows>>
  BY DEF Cancel, CancelReply, Load, Require, RequireAuth, ??
<1>2. escrow \in Agreements /\ escrow.depositor \in Holders /\ flows = NoFlows
      /\ I128Max \in Nat /\ BpsDenominator \in Nat
  BY <1>1, Types, LedgerTypes DEF IInv, Moved
<1>3. escrow' \in Agreements /\ escrow'.state = "Refunded"
  BY <1>1, <1>2 DEF Agreements, States, Terminal
<1>4. events' \in Seq(Events)
  BY <1>1, <1>2, EmitAppends DEF IInv, EventKinds
<1>5. TypeOK'
  BY <1>1, <1>3, <1>4 DEF IInv, TypeOK, LedgerTypeOK, ledgerVars
<1>6. Neutral'
  BY <1>1, <1>2, <1>3 DEF IInv, Neutral, Agreements
<1>7. Moved'
  BY <1>1, <1>2, <1>3 DEF Moved, Terminal, PaidOut
<1>8. Held' = Held
  BY <1>1, <1>3 DEF Held
<1>9. QED
  BY <1>1, <1>2, <1>3, <1>5, <1>6, <1>7, <1>8, StateChangeKeeps DEF NoFlows

LEMMA DisputeKeeps ==
    ASSUME IInv, NEW signer \in Signers, NEW caller \in Holders, Dispute(signer, caller)
    PROVE  IInv'
<1>1. /\ escrow.state = "Funded" /\ escrow.arbiter # NoArbiter
      /\ escrow' = [escrow EXCEPT !.state = "Disputed"]
      /\ Emit("Disputed", caller, signer, 0, 0, 0)
      /\ UNCHANGED <<ledgerVars, flows>>
  BY DEF Dispute, DisputeReply, RequireFunded, Load, Require, ??
<1>2. /\ escrow \in Agreements /\ I128Max \in Nat /\ BpsDenominator \in Nat
      /\ flows = [pulled |-> escrow.amount, toBeneficiary |-> 0, toDepositor |-> 0]
  BY <1>1, Types, LedgerTypes DEF IInv, Moved
<1>3. escrow' \in Agreements /\ escrow'.state = "Disputed" /\ escrow'.amount = escrow.amount
  BY <1>1, <1>2 DEF Agreements, States
<1>4. events' \in Seq(Events)
  BY <1>1, <1>2, EmitAppends DEF IInv, EventKinds
<1>5. TypeOK'
  BY <1>1, <1>3, <1>4 DEF IInv, TypeOK, LedgerTypeOK, ledgerVars
<1>6. Neutral'
  BY <1>1, <1>2, <1>3 DEF IInv, Neutral, Agreements
<1>7. Moved'
  BY <1>1, <1>2, <1>3 DEF Moved, Terminal
<1>8. Held' = Held
  BY <1>1, <1>3 DEF Held
<1>9. QED
  BY <1>1, <1>2, <1>3, <1>5, <1>6, <1>7, <1>8, StateChangeKeeps

LEMMA FundKeeps ==
    ASSUME IInv, NEW signer \in Signers, Fund(signer)
    PROVE  IInv'
<1>1. /\ escrow.state = "Created" /\ signer = escrow.depositor
      /\ TransferReply(balance, escrow.depositor, Self, escrow.amount) = "Ok"
      /\ escrow' = [escrow EXCEPT !.state = "Funded"]
      /\ balance' = Transferred(balance, escrow.depositor, Self, escrow.amount)
      /\ flows' = [flows EXCEPT !.pulled = @ + escrow.amount]
      /\ Emit("Funded", escrow.depositor, signer, 0, 0, 0)
      /\ UNCHANGED <<now, frozen, strays>>
  BY DEF Fund, FundReply, Load, Require, RequireAuth, ??
<1>2. /\ escrow \in Agreements /\ I128Max \in Nat /\ BpsDenominator \in Nat
      /\ escrow.depositor \in Holders /\ escrow.depositor # Self
      /\ escrow.amount \in Nat /\ flows = NoFlows
      /\ Self \in Holders /\ balance \in [Holders -> Nat] /\ strays \in Nat
  BY <1>1, Types, LedgerTypes DEF IInv, Moved
<1>3. /\ escrow' \in Agreements /\ escrow'.state = "Funded"
      /\ escrow'.amount = escrow.amount
  BY <1>1, <1>2 DEF Agreements, States
<1>4. flows' = [pulled |-> escrow.amount, toBeneficiary |-> 0, toDepositor |-> 0]
  BY <1>1, <1>2 DEF NoFlows
<1>5. /\ balance' \in [Holders -> Nat]
      /\ balance'[Self] = balance[Self] + escrow.amount
  <2>1. escrow.amount \in 0..balance[escrow.depositor]
    BY <1>1, TransferAccepted
  <2>2. /\ balance' \in [Holders -> Nat]
        /\ balance'[Self] = balance[Self] - 0 + escrow.amount
    BY <1>1, <1>2, <2>1, TransferMoves
  <2>3. QED
    BY <1>2, <2>2
<1>6. events' \in Seq(Events)
  BY <1>1, <1>2, EmitAppends DEF IInv, EventKinds
<1>7. TypeOK'
  <2>1. LedgerTypeOK'
    BY <1>1, <1>5 DEF IInv, TypeOK, LedgerTypeOK
  <2>2. flows' \in Flows
    BY <1>2, <1>4 DEF Flows
  <2>3. QED
    BY <1>3, <1>6, <2>1, <2>2 DEF TypeOK
<1>8. Neutral'
  BY <1>1, <1>2, <1>3 DEF IInv, Neutral, Agreements
<1>9. Moved'
  BY <1>3, <1>4 DEF Moved, Terminal
<1>10. Solvency'
  <2>1. Held = 0 /\ Stranded = 0
    BY <1>1, <1>2 DEF Held, Stranded, NoFlows
  <2>2. Held' = escrow.amount /\ Stranded' = 0
    BY <1>3, <1>4 DEF Held, Stranded
  <2>3. balance[Self] = strays
    BY <1>2, <2>1 DEF IInv, Solvency
  <2>4. QED
    BY <1>1, <1>2, <1>5, <2>2, <2>3 DEF Solvency
<1>11. QED
  BY <1>7, <1>8, <1>9, <1>10 DEF IInv

\* release, refund and resolve: all that is held goes to the two parties.
LEMMA SettleKeeps ==
    ASSUME IInv, escrow.state \in {"Funded", "Disputed"},
           NEW state \in Terminal, NEW x \in Nat, NEW y \in Nat, x + y = escrow.amount,
           PayBothReply(escrow.beneficiary, x, escrow.depositor, y) = "Ok",
           Settle(state, x, y),
           NEW kind \in EventKinds, NEW by \in Holders, NEW auth \in Signers,
           NEW split \in 0..BpsDenominator, Emit(kind, by, auth, split, x, y),
           UNCHANGED <<now, frozen, strays>>,
           state = "Released" => y = 0,
           state = "Refunded" => x = 0,
           state = "Resolved" => RoundedDown(x, split)
    PROVE  IInv'
<1>1. /\ escrow.state # "Absent" /\ escrow \in Agreements /\ I128Max \in Nat
      /\ BpsDenominator \in Nat
      /\ escrow.depositor \in Holders /\ escrow.depositor # Self
      /\ escrow.beneficiary \in Holders
      /\ escrow.amount \in Nat /\ escrow.amount <= I128Max
      /\ flows = [pulled |-> escrow.amount, toBeneficiary |-> 0, toDepositor |-> 0]
      /\ Self \in Holders /\ balance \in [Holders -> Nat] /\ strays \in Nat
  BY Types, LedgerTypes DEF IInv, Moved
<1>2. /\ escrow' \in Agreements /\ escrow'.state = state
      /\ escrow'.depositor = escrow.depositor /\ escrow'.beneficiary = escrow.beneficiary
      /\ escrow'.arbiter = escrow.arbiter /\ escrow'.amount = escrow.amount
  BY <1>1 DEF Settle, Agreements, States
<1>3. flows' = [pulled |-> escrow.amount, toBeneficiary |-> x, toDepositor |-> y]
  <2>1. flows' = [pulled |-> escrow.amount, toBeneficiary |-> 0 + x, toDepositor |-> 0 + y]
    BY <1>1 DEF Settle
  <2>2. 0 + x = x /\ 0 + y = y
    OBVIOUS
  <2>3. QED
    BY <2>1, <2>2
<1>4. /\ balance' \in [Holders -> Nat]
      /\ balance'[Self] = balance[Self] - (IF escrow.beneficiary = Self THEN 0 ELSE x) - y
  <2>1. balance' = PaidBoth(escrow.beneficiary, x, escrow.depositor, y)
    BY DEF Settle
  <2>2. /\ balance' \in [Holders -> Nat]
        /\ balance'[Self] = balance[Self] - (IF escrow.beneficiary = Self THEN 0 ELSE x)
                                          - (IF escrow.depositor = Self THEN 0 ELSE y)
    BY <1>1, <2>1, PaidBothMoves
  <2>3. QED
    BY <1>1, <2>2
<1>5. events' \in Seq(Events) /\ events'[Len(events')].split = split
  <2>1. x \in 0..I128Max /\ y \in 0..I128Max
    BY <1>1
  <2>2. QED
    BY <2>1, EmitAppends DEF IInv
<1>6. TypeOK'
  BY <1>1, <1>2, <1>3, <1>4, <1>5 DEF IInv, TypeOK, LedgerTypeOK, Flows
<1>7. Neutral'
  BY <1>1, <1>2 DEF IInv, Neutral, Terminal
<1>8. Moved'
  <2>1. state \notin {"Absent", "Created", "Funded", "Disputed"}
    BY DEF Terminal
  <2>2. state = "Resolved" =>
            /\ flows'.toBeneficiary * BpsDenominator <= escrow'.amount * split
            /\ escrow'.amount * split
                   < flows'.toBeneficiary * BpsDenominator + BpsDenominator
    BY <1>2, <1>3 DEF RoundedDown
  <2>3. PaidOut'
    BY <1>2, <1>3, <1>5, <2>2 DEF PaidOut, RoundedDown
  <2>4. QED
    BY <1>2, <2>1, <2>3 DEF Moved
<1>9. Solvency'
  <2>1. Held = escrow.amount /\ Stranded = 0
    BY <1>1 DEF Held, Stranded
  <2>2. Held' = 0 /\ Stranded' = IF escrow.beneficiary = Self THEN x ELSE 0
    BY <1>2, <1>3 DEF Held, Stranded, Terminal
  <2>3. balance[Self] = escrow.amount + strays
    BY <1>1, <2>1 DEF IInv, Solvency
  <2>4. strays' = strays
    OBVIOUS
  <2>5. CASE escrow.beneficiary = Self
    BY <1>1, <1>4, <2>2, <2>3, <2>4, <2>5 DEF Solvency
  <2>6. CASE escrow.beneficiary # Self
    BY <1>1, <1>4, <2>2, <2>3, <2>4, <2>6 DEF Solvency
  <2>7. QED
    BY <2>5, <2>6
<1>10. QED
  BY <1>6, <1>7, <1>8, <1>9 DEF IInv

\* One payment of the whole amount, seen as two of which the other is nothing.
LEMMA WholeToOne ==
    ASSUME balance \in [Holders -> Nat], Self \in Holders,
           NEW first \in Holders, NEW second \in Holders, NEW amount \in Nat
    PROVE  /\ PayReply(first, amount) = "Ok" => PayBothReply(first, amount, second, 0) = "Ok"
           /\ PayReply(second, amount) = "Ok" => PayBothReply(first, 0, second, amount) = "Ok"
<1>1. PayReply(first, amount) = "Ok" => PayBothReply(first, amount, second, 0) = "Ok"
  BY DEF PayReply, PayBothReply
<1>2. Transferred(balance, Self, first, 0) = balance
  <2>1. \A h \in Holders : balance[h] - (IF h = Self THEN 0 ELSE 0)
                                      + (IF h = first THEN 0 ELSE 0) = balance[h]
    OBVIOUS
  <2>2. QED
    BY <2>1 DEF Transferred
<1>3. PayReply(second, amount) = "Ok" => PayBothReply(first, 0, second, amount) = "Ok"
  BY <1>2 DEF PayReply, PayBothReply
<1>4. QED
  BY <1>1, <1>3

\* Who may call release, and what it replies on.
LEMMA ReleaseChecks ==
    ASSUME NEW signer, NEW caller, ReleaseReply(signer, caller) = "Ok"
    PROVE  /\ escrow.state = "Funded"
           /\ signer = caller /\ caller \in {escrow.depositor, escrow.arbiter}
           /\ PayReply(escrow.beneficiary, escrow.amount) = "Ok"
BY DEF ReleaseReply, Load, RequireFunded, RequireAuthEither, RequireAuth, Require, ??

\* Who may call refund, when, and what it replies on.
LEMMA RefundChecks ==
    ASSUME NEW signer, NEW caller, RefundReply(signer, caller) = "Ok"
    PROVE  /\ PayReply(escrow.depositor, escrow.amount) = "Ok"
           /\ \/ escrow.state = "Disputed" /\ now >= DisputeTimeout
              \/ /\ escrow.state = "Funded" /\ signer = caller
                 /\ \/ caller = escrow.arbiter
                    \/ caller = escrow.depositor /\ now >= escrow.deadline
<1>1. CASE escrow.state = "Disputed"
  <2>1. RecoverReply(signer, caller) = "Ok"
    BY <1>1 DEF RefundReply, Load, Require, ??
  <2>2. CASE now >= DisputeTimeout
    BY <1>1, <2>1, <2>2 DEF RecoverReply
  <2>3. CASE ~(now >= DisputeTimeout)
    BY <2>1, <2>3 DEF RecoverReply, ??
  <2>4. QED
    BY <2>2, <2>3
<1>2. CASE escrow.state # "Disputed"
  BY <1>2 DEF RefundReply, Load, RequireFunded, RequireAuthEither, RequireAuth, Require, ??
<1>3. QED
  BY <1>1, <1>2

\* Who may call resolve, and what it replies on.
LEMMA ResolveChecks ==
    ASSUME NEW signer, NEW bps, ResolveReply(signer, bps) = "Ok"
    PROVE  /\ escrow.state = "Disputed" /\ signer = escrow.arbiter
           /\ SplitBps(escrow.amount, bps).err = "Ok"
           /\ PayBothReply(escrow.beneficiary, SplitBps(escrow.amount, bps).first,
                           escrow.depositor, SplitBps(escrow.amount, bps).second) = "Ok"
BY DEF ResolveReply, Load, RequireAuth, Require, ??

LEMMA ReleaseKeeps ==
    ASSUME IInv, NEW signer \in Signers, NEW caller \in Holders, Release(signer, caller)
    PROVE  IInv'
<1>1. /\ escrow.state = "Funded" /\ PayReply(escrow.beneficiary, escrow.amount) = "Ok"
      /\ Settle("Released", escrow.amount, 0)
      /\ Emit("Released", caller, signer, 0, escrow.amount, 0)
      /\ UNCHANGED <<now, frozen, strays>>
  BY ReleaseChecks DEF Release
<1>2. /\ escrow.amount \in Nat /\ escrow.depositor \in Holders /\ BpsDenominator \in Nat
      /\ escrow.beneficiary \in Holders /\ balance \in [Holders -> Nat] /\ Self \in Holders
  BY <1>1, Types, LedgerTypes DEF IInv
<1>3. PayBothReply(escrow.beneficiary, escrow.amount, escrow.depositor, 0) = "Ok"
  BY <1>1, <1>2, WholeToOne
<1>4. "Released" \in Terminal /\ "Released" \in EventKinds /\ 0 \in 0..BpsDenominator
      /\ escrow.amount + 0 = escrow.amount
  BY <1>2 DEF Terminal, EventKinds
<1>5. QED
  BY <1>1, <1>2, <1>3, <1>4, SettleKeeps

LEMMA RefundKeeps ==
    ASSUME IInv, NEW signer \in Signers, NEW caller \in Holders, Refund(signer, caller)
    PROVE  IInv'
<1>1. /\ escrow.state \in {"Funded", "Disputed"}
      /\ PayReply(escrow.depositor, escrow.amount) = "Ok"
      /\ Settle("Refunded", 0, escrow.amount)
      /\ Emit("Refunded", caller, signer, 0, 0, escrow.amount)
      /\ UNCHANGED <<now, frozen, strays>>
  BY RefundChecks DEF Refund
<1>2. /\ escrow.amount \in Nat /\ escrow.depositor \in Holders /\ BpsDenominator \in Nat
      /\ escrow.beneficiary \in Holders /\ balance \in [Holders -> Nat] /\ Self \in Holders
  BY <1>1, Types, LedgerTypes DEF IInv
<1>3. PayBothReply(escrow.beneficiary, 0, escrow.depositor, escrow.amount) = "Ok"
  BY <1>1, <1>2, WholeToOne
<1>4. "Refunded" \in Terminal /\ "Refunded" \in EventKinds /\ 0 \in 0..BpsDenominator
      /\ 0 + escrow.amount = escrow.amount
  BY <1>2 DEF Terminal, EventKinds
<1>5. QED
  BY <1>1, <1>2, <1>3, <1>4, SettleKeeps

LEMMA ResolveKeeps ==
    ASSUME IInv, NEW signer \in Signers, NEW bps \in 0..(BpsDenominator + 1),
           Resolve(signer, bps)
    PROVE  IInv'
<1> DEFINE x == SplitBps(escrow.amount, bps).first
           y == SplitBps(escrow.amount, bps).second
<1>1. /\ escrow.state = "Disputed" /\ SplitBps(escrow.amount, bps).err = "Ok"
      /\ signer = escrow.arbiter
      /\ PayBothReply(escrow.beneficiary, x, escrow.depositor, y) = "Ok"
      /\ Settle("Resolved", x, y)
      /\ Emit("Resolved", escrow.arbiter, signer, bps, x, y)
      /\ UNCHANGED <<now, frozen, strays>>
  BY ResolveChecks DEF Resolve
<1>2. /\ escrow.amount \in 0..I128Max /\ I128Max \in Nat /\ bps \in Nat
      /\ BpsDenominator \in Nat /\ escrow.arbiter \in Holders
  BY <1>1, Types, LedgerTypes DEF IInv
<1>3. /\ bps <= BpsDenominator /\ x \in 0..escrow.amount /\ y = escrow.amount - x
      /\ RoundedDown(x, bps)
  BY <1>1, <1>2, SplitIsExact DEF RoundedDown
<1> HIDE DEF x, y
<1>4. x \in Nat /\ y \in Nat /\ x + y = escrow.amount /\ bps \in 0..BpsDenominator
  BY <1>2, <1>3
<1>5. "Resolved" \in Terminal /\ "Resolved" \in EventKinds
  BY DEF Terminal, EventKinds
<1>6. QED
  BY <1>1, <1>2, <1>3, <1>4, <1>5, SettleKeeps

LEMMA LedgerKeeps ==
    ASSUME IInv, LedgerNext, UNCHANGED contractVars
    PROVE  IInv'
<1>1. escrow' = escrow /\ flows' = flows /\ events' = events
  BY DEF contractVars
<1>2. /\ now \in Nat /\ U64Max \in Nat /\ balance \in [Holders -> Nat] /\ strays \in Nat
      /\ frozen \in SUBSET Freezable /\ Self \in Holders /\ Self \notin Signers
      /\ Signers \subseteq Holders /\ now \in 0..U64Max
  BY LedgerTypes DEF IInv, TypeOK, LedgerTypeOK
<1>3. Neutral' /\ Moved' /\ Held' = Held /\ Stranded' = Stranded
  BY <1>1 DEF IInv, Neutral, Moved, PaidOut, RoundedDown, Held, Stranded
<1>4. CASE CloseLedger \/ SetFrozen
  <2>1. balance' = balance /\ strays' = strays /\ LedgerTypeOK'
    BY <1>2, <1>4 DEF CloseLedger, SetFrozen, LedgerTypeOK
  <2>2. QED
    BY <1>1, <1>3, <2>1 DEF IInv, TypeOK, Solvency
<1>5. CASE Stray
  <2>1. PICK from \in Signers :
            /\ TransferReply(balance, from, Self, 1) = "Ok"
            /\ balance' = Transferred(balance, from, Self, 1)
            /\ strays' = strays + 1 /\ now' = now /\ frozen' = frozen
    BY <1>5 DEF Stray
  <2>2. balance' \in [Holders -> Nat] /\ balance'[Self] = balance[Self] + 1
    <3>1. 1 \in 0..balance[from] /\ from \in Holders /\ from # Self
      BY <1>2, <2>1, TransferAccepted
    <3>2. balance' \in [Holders -> Nat] /\ balance'[Self] = balance[Self] - 0 + 1
      BY <1>2, <2>1, <3>1, TransferMoves
    <3>3. QED
      BY <1>2, <3>2
  <2>3. LedgerTypeOK'
    BY <1>2, <2>1, <2>2 DEF LedgerTypeOK
  <2>4. Held \in Int /\ Stranded \in Int
    <3>1. Held \in Int
      BY Types DEF IInv, Held
    <3>2. Stranded \in Int
      BY DEF IInv, TypeOK, Flows, Stranded
    <3>3. QED
      BY <3>1, <3>2
  <2>5. Solvency'
    BY <1>2, <1>3, <2>1, <2>2, <2>4 DEF IInv, Solvency
  <2>6. QED
    BY <1>1, <1>3, <2>3, <2>5 DEF IInv, TypeOK
<1>6. QED
  BY <1>4, <1>5 DEF LedgerNext

LEMMA StepKeeps == IInv /\ [Next]_vars => IInv'
<1> SUFFICES ASSUME IInv, [Next]_vars PROVE IInv'
  OBVIOUS
<1>1. ASSUME NEW signer \in Signers, Initializes(signer) PROVE IInv'
  BY <1>1, InitializeKeeps DEF Initializes
<1>2. ASSUME NEW signer \in Signers, Cancel(signer) PROVE IInv'
  BY <1>2, CancelKeeps
<1>3. ASSUME NEW signer \in Signers, Fund(signer) PROVE IInv'
  BY <1>3, FundKeeps
<1>4. ASSUME NEW signer \in Signers, NEW caller \in Holders,
             Release(signer, caller) \/ Refund(signer, caller) \/ Dispute(signer, caller)
      PROVE  IInv'
  BY <1>4, ReleaseKeeps, RefundKeeps, DisputeKeeps
<1>5. ASSUME NEW signer \in Signers, NEW bps \in 0..(BpsDenominator + 1), Resolve(signer, bps)
      PROVE  IInv'
  BY <1>5, ResolveKeeps
<1>6. CASE LedgerNext /\ UNCHANGED contractVars
  BY <1>6, LedgerKeeps
<1>7. CASE UNCHANGED vars
  BY <1>7 DEF vars, ledgerVars, contractVars, IInv, TypeOK, LedgerTypeOK, Neutral, Moved,
              PaidOut, RoundedDown, Solvency, Held, Stranded
<1>8. QED
  BY <1>1, <1>2, <1>3, <1>4, <1>5, <1>6, <1>7 DEF Next, Calls

-----------------------------------------------------------------------------

\* The invariant holds in every state, whatever the calls and their order.
THEOREM Invariance == Spec => []IInv
<1>1. QED
  BY InitEstablishes, StepKeeps, PTL DEF Spec

\* Every stored amount fits i128, every deadline u64, every event its types.
THEOREM TypeCorrect == Spec => []TypeOK
<1>1. IInv => TypeOK
  BY DEF IInv
<1>2. QED
  BY <1>1, Invariance, PTL

\* The contract holds what its agreement says, and what it was sent directly.
THEOREM SolvencyHolds == Spec => []Solvency
<1>1. IInv => Solvency
  BY DEF IInv
<1>2. QED
  BY <1>1, Invariance, PTL

\* The conservation invariant of escrow/types.rs, with the rounding of resolve.
THEOREM ConservationHolds == Spec => []PaidExactlyOnce
<1>1. IInv => PaidExactlyOnce
  <2> SUFFICES ASSUME IInv, escrow.state # "Absent" PROVE PaidExactlyOnce
    BY DEF PaidExactlyOnce
  <2>1. escrow.amount \in Nat /\ escrow.amount > 0 /\ escrow.state \in States
    BY Types DEF IInv
  <2>2. CASE escrow.state = "Created"
    BY <2>1, <2>2 DEF IInv, Moved, NoFlows, PaidExactlyOnce, Terminal
  <2>3. CASE escrow.state \in {"Funded", "Disputed"}
    BY <2>1, <2>3 DEF IInv, Moved, PaidExactlyOnce, Terminal
  <2>4. CASE escrow.state \in Terminal
    <3>1. PaidOut
      BY <2>4 DEF IInv, Moved
    <3>2. CASE escrow.state = "Refunded" /\ flows = NoFlows
      BY <2>1, <2>4, <3>2 DEF NoFlows, PaidExactlyOnce
    <3>3. CASE ~(escrow.state = "Refunded" /\ flows = NoFlows)
      BY <2>1, <2>4, <3>1, <3>3 DEF PaidOut, RoundedDown, PaidExactlyOnce
    <3>4. QED
      BY <3>2, <3>3
  <2>5. QED
    BY <2>1, <2>2, <2>3, <2>4 DEF States
<1>2. QED
  BY <1>1, Invariance, PTL

\* No dispute is without a neutral judge: resolve's `expect` never traps.
THEOREM DisputesAreJudged == Spec => []DisputeHasNeutralArbiter
<1>1. IInv => DisputeHasNeutralArbiter
  BY Types DEF IInv, Neutral, DisputeHasNeutralArbiter
<1>2. QED
  BY <1>1, Invariance, PTL

\* While the contract holds the amount it can pay all of it to anybody whom
\* the token accepts.
LEMMA HoldsTheAmount ==
    ASSUME IInv, escrow.state \in {"Funded", "Disputed"}
    PROVE  escrow.amount \in 0..balance[Self]
<1>1. /\ escrow.amount \in Nat /\ strays \in Nat /\ Self \in Holders
      /\ balance \in [Holders -> Nat]
  BY Types, LedgerTypes DEF IInv
<1>2. Held = escrow.amount /\ Stranded = 0
  BY DEF IInv, Moved, Held, Stranded
<1>3. balance[Self] \in Nat /\ balance[Self] = escrow.amount + strays + 0
  BY <1>1, <1>2 DEF IInv, Solvency
<1>4. QED
  BY <1>1, <1>3

\* An arbiter's ruling of nothing for the beneficiary always computes.
LEMMA NothingSplits ==
    ASSUME NEW amount \in 0..I128Max
    PROVE  /\ SplitBps(amount, 0).err = "Ok"
           /\ SplitBps(amount, 0).first = 0
           /\ SplitBps(amount, 0).second = amount
<1>1. I128Max \in Nat /\ BpsDenominator \in Nat /\ BpsDenominator > 0
  BY I128MaxAssumption, BpsAssumption
<1>2. Mul(amount, 0) = Ok(0)
  BY <1>1 DEF Mul, Checked, I128
<1>3. Truncated(0, BpsDenominator) = 0
  BY <1>1 DEF Truncated
<1>4. Div(0, BpsDenominator) = Ok(0)
  BY <1>1, <1>3 DEF Div, Checked, I128
<1>5. MulBps(amount, 0) = Ok(0)
  BY <1>1, <1>2, <1>4 DEF MulBps, MulDiv, Ok
<1>6. Sub(amount, 0) = Ok(amount)
  BY <1>1 DEF Sub, Checked, I128
<1>7. QED
  BY <1>5, <1>6 DEF SplitBps, Ok, ??

\* Held funds always have an exit the code accepts.
THEOREM ExitsAreOpen == Spec => []ExitOpen
<1>1. IInv => ExitOpen
  <2> SUFFICES ASSUME IInv, Held > 0, frozen = {} PROVE ExitOpen
    BY DEF ExitOpen
  <2>1. escrow.state \in {"Funded", "Disputed"}
    BY DEF Held
  <2>2. /\ escrow.amount \in 0..balance[Self] /\ escrow.amount \in 0..I128Max
        /\ \A to \in Holders : PayReply(to, escrow.amount) = "Ok"
    BY <2>1, HoldsTheAmount, Types DEF IInv, PayReply, TransferReply
  <2>3. /\ escrow.depositor \in Holders /\ escrow.beneficiary \in Holders
        /\ escrow.amount \in Nat /\ escrow.amount > 0
        /\ now \in Nat /\ now <= U64Max /\ U64Max \in Nat /\ escrow.deadline \in Nat
        /\ GracePeriod \in Nat /\ escrow.arbiter \in Holders \cup {NoArbiter}
        /\ balance \in [Holders -> Nat] /\ Self \in Holders
        /\ NoArbiter \notin Holders /\ Signers \subseteq Holders
    BY <2>1, Types, LedgerTypes DEF IInv
  <2>4. CASE escrow.state = "Funded"
    <3>1. ReleaseReply(escrow.depositor, escrow.depositor) = "Ok"
      BY <2>2, <2>3, <2>4 DEF ReleaseReply, Load, RequireFunded, RequireAuthEither,
                              RequireAuth, Require, Terminal, ??
    <3>2. now >= escrow.deadline => RefundReply(escrow.depositor, escrow.depositor) = "Ok"
      BY <2>2, <2>3, <2>4 DEF RefundReply, Load, RequireFunded, RequireAuthEither,
                              RequireAuth, Require, Terminal, ??
    <3>3. QED
      BY <2>4, <3>1, <3>2 DEF ExitOpen
  <2>5. CASE escrow.state = "Disputed"
    <3>1. escrow.arbiter \in Signers => ResolveReply(escrow.arbiter, 0) = "Ok"
      <4>1. SplitBps(escrow.amount, 0).err = "Ok" /\ SplitBps(escrow.amount, 0).first = 0
            /\ SplitBps(escrow.amount, 0).second = escrow.amount
        BY <2>2, NothingSplits
      <4>2. PayBothReply(escrow.beneficiary, 0, escrow.depositor, escrow.amount) = "Ok"
        BY <2>2, <2>3, WholeToOne
      <4>3. QED
        BY <2>3, <2>5, <4>1, <4>2 DEF ResolveReply, Load, RequireAuth, Require, ??
    <3>2. ASSUME now >= escrow.deadline + GracePeriod \/ now = U64Max, NEW s \in Signers
          PROVE  RefundReply(s, s) = "Ok"
      <4>1. now >= DisputeTimeout
        BY <2>3, <3>2 DEF DisputeTimeout
      <4>2. QED
        BY <2>2, <2>3, <2>5, <4>1 DEF RefundReply, RecoverReply, Load, Require, ??
    <3>3. QED
      BY <2>5, <3>1, <3>2 DEF ExitOpen
  <2>6. QED
    BY <2>1, <2>4, <2>5
<1>2. QED
  BY <1>1, Invariance, PTL

-----------------------------------------------------------------------------

\* The kinds of event a call may publish in the stored state.
Legal(kind) ==
    \/ escrow.state = "Absent" /\ kind = "Created"
    \/ escrow.state = "Created" /\ kind \in {"Funded", "Cancelled"}
    \/ escrow.state = "Funded" /\ kind \in {"Released", "Refunded", "Disputed"}
    \/ escrow.state = "Disputed" /\ kind \in {"Resolved", "Refunded"}

\* A legal event that names the new state and all that is paid out by then
\* continues the story.
LEMMA LogGrows ==
    ASSUME IInv, EventsTellTheStory,
           NEW kind \in EventKinds, NEW by \in Holders, NEW auth \in Signers,
           NEW split \in 0..BpsDenominator, NEW x \in 0..I128Max, NEW y \in 0..I128Max,
           Emit(kind, by, auth, split, x, y), Legal(kind),
           escrow'.state = (IF kind = "Cancelled" THEN "Refunded" ELSE kind),
           flows'.toBeneficiary = x, flows'.toDepositor = y,
           by = auth \/ (kind = "Refunded" /\ escrow.state = "Disputed")
    PROVE  EventsTellTheStory'
<1> DEFINE e == [kind |-> kind, by |-> by, auth |-> auth, split |-> split,
                 toBeneficiary |-> x, toDepositor |-> y]
           n == Len(events)
<1>1. /\ e \in Events /\ e.kind = kind /\ e.by = by /\ e.auth = auth
      /\ e.toBeneficiary = x /\ e.toDepositor = y
  BY DEF Events
<1>2. events \in Seq(Events) /\ events' = Append(events, e)
  BY DEF IInv, TypeOK, Emit
<1> HIDE DEF e
<1>3. /\ n \in Nat /\ Len(events') = n + 1 /\ events' # <<>>
      /\ events'[n + 1] = e /\ \A i \in 1..n : events'[i] = events[i]
      /\ events = <<>> <=> n = 0
  BY <1>1, <1>2
<1>4. n > 0 =>
          /\ events[1].kind = "Created" /\ events[n].kind = escrow.state
          /\ events[n].toBeneficiary = 0 /\ events[n].toDepositor = 0
  <2> SUFFICES ASSUME n > 0
               PROVE  /\ events[1].kind = "Created" /\ events[n].kind = escrow.state
                      /\ events[n].toBeneficiary = 0 /\ events[n].toDepositor = 0
    OBVIOUS
  <2>1. /\ events[1].kind = "Created"
        /\ escrow.state = IF events[n].kind = "Cancelled" THEN "Refunded"
                          ELSE events[n].kind
        /\ flows.toBeneficiary = events[n].toBeneficiary
        /\ flows.toDepositor = events[n].toDepositor
        /\ escrow.state # "Absent"
    BY <1>3 DEF EventsTellTheStory
  <2>2. escrow.state \in {"Created", "Funded", "Disputed"}
    BY <2>1 DEF Legal
  <2>3. flows.toBeneficiary = 0 /\ flows.toDepositor = 0
    BY <2>2 DEF IInv, Moved, NoFlows
  <2>4. QED
    BY <2>1, <2>2, <2>3
<1>5. n = 0 => kind = "Created"
  BY <1>3 DEF EventsTellTheStory, Legal
<1>6. /\ events' # <<>> /\ escrow'.state # "Absent"
      /\ events'[1].kind = "Created"
      /\ escrow'.state = IF e.kind = "Cancelled" THEN "Refunded" ELSE e.kind
      /\ flows'.toBeneficiary = e.toBeneficiary /\ flows'.toDepositor = e.toDepositor
  <2>1. escrow'.state # "Absent"
    BY DEF Legal
  <2>2. CASE n = 0
    BY <1>1, <1>3, <1>5, <2>1, <2>2
  <2>3. CASE n > 0
    BY <1>1, <1>3, <1>4, <2>1, <2>3
  <2>4. QED
    BY <1>3, <2>2, <2>3
<1>7. ASSUME NEW i \in 1..(Len(events') - 1)
      PROVE  /\ <<events'[i].kind, events'[i + 1].kind>> \in
                    {<<"Created", "Funded">>, <<"Created", "Cancelled">>,
                     <<"Funded", "Released">>, <<"Funded", "Refunded">>,
                     <<"Funded", "Disputed">>,
                     <<"Disputed", "Resolved">>, <<"Disputed", "Refunded">>}
             /\ events'[i].toBeneficiary = 0 /\ events'[i].toDepositor = 0
  <2>1. i \in 1..n /\ events'[i] = events[i]
    BY <1>3
  <2>2. CASE i < n
    <3>1. i \in 1..(n - 1) /\ i + 1 \in 1..n /\ events'[i + 1] = events[i + 1]
      BY <1>3, <2>1, <2>2
    <3>2. QED
      BY <2>1, <3>1 DEF EventsTellTheStory
  <2>3. CASE i = n
    <3>1. /\ events'[i].kind = escrow.state /\ events'[i + 1].kind = kind
          /\ events'[i].toBeneficiary = 0 /\ events'[i].toDepositor = 0
          /\ escrow.state # "Absent"
      BY <1>1, <1>3, <1>4, <2>1, <2>3 DEF EventsTellTheStory
    <3>2. QED
      BY <3>1 DEF Legal
  <2>4. QED
    BY <1>3, <2>1, <2>2, <2>3
<1>8. ASSUME NEW i \in 1..Len(events')
      PROVE  \/ events'[i].by = events'[i].auth
             \/ events'[i].kind = "Refunded" /\ events'[i - 1].kind = "Disputed"
  <2>1. CASE i <= n
    <3>1. i \in 1..n /\ events'[i] = events[i]
      BY <1>3, <2>1
    <3>2. CASE i = 1
      <4>1. events[1].kind = "Created"
        BY <1>3, <1>4, <3>1
      <4>2. QED
        BY <3>1, <3>2, <4>1 DEF EventsTellTheStory
    <3>3. CASE i # 1
      <4>1. events'[i - 1] = events[i - 1]
        BY <1>3, <3>1, <3>3
      <4>2. QED
        BY <3>1, <4>1 DEF EventsTellTheStory
    <3>4. QED
      BY <3>2, <3>3
  <2>2. CASE i = n + 1
    <3>1. CASE by = auth
      BY <1>1, <1>3, <2>2, <3>1
    <3>2. CASE kind = "Refunded" /\ escrow.state = "Disputed"
      <4>1. n > 0 /\ n \in 1..n /\ i - 1 = n
        BY <1>3, <1>5, <2>2, <3>2
      <4>2. QED
        BY <1>1, <1>3, <1>4, <2>2, <3>2, <4>1
    <3>3. QED
      BY <3>1, <3>2
  <2>3. QED
    BY <1>3, <2>1, <2>2
<1>9. QED
  BY <1>3, <1>6, <1>7, <1>8 DEF EventsTellTheStory

\* The story goes on at every call.
LEMMA StoryGoesOn ==
    ASSUME IInv, EventsTellTheStory, [Next]_vars
    PROVE  EventsTellTheStory'
<1>1. ASSUME escrow.state # "Absent"
      PROVE  /\ escrow \in Agreements /\ escrow.amount \in 0..I128Max
             /\ escrow.depositor \in Holders /\ I128Max \in Nat /\ 0 \in 0..I128Max
             /\ BpsDenominator \in Nat /\ 0 \in 0..BpsDenominator
             /\ Signers \subseteq Holders
  BY <1>1, Types, LedgerTypes DEF IInv
<1>2. escrow.state \in {"Absent", "Created"} =>
          flows.toBeneficiary = 0 /\ flows.toDepositor = 0
  BY DEF IInv, Moved, NoFlows
<1>3. escrow.state \in {"Funded", "Disputed"} =>
          flows = [pulled |-> escrow.amount, toBeneficiary |-> 0, toDepositor |-> 0]
  BY DEF IInv, Moved
<1>4. ASSUME NEW signer \in Signers, Initializes(signer) PROVE EventsTellTheStory'
  <2>1. PICK depositor \in Holders :
            /\ escrow.state = "Absent" /\ signer = depositor
            /\ escrow'.state = "Created" /\ flows' = flows
            /\ Emit("Created", depositor, signer, 0, 0, 0)
    BY <1>4 DEF Initializes, Initialize, InitReply, Require, RequireAuth, ??
  <2>2. 0 \in 0..I128Max /\ 0 \in 0..BpsDenominator /\ "Created" \in EventKinds
    BY LedgerTypes, I128MaxAssumption DEF IInv, EventKinds
  <2>3. Legal("Created")
    BY <2>1 DEF Legal
  <2>4. QED
    BY <1>2, <2>1, <2>2, <2>3, LogGrows
<1>5. ASSUME NEW signer \in Signers, Cancel(signer) PROVE EventsTellTheStory'
  <2>1. /\ escrow.state = "Created" /\ signer = escrow.depositor
        /\ escrow' = [escrow EXCEPT !.state = "Refunded"] /\ flows' = flows
        /\ Emit("Cancelled", escrow.depositor, signer, 0, 0, 0)
    BY <1>5 DEF Cancel, CancelReply, Load, Require, RequireAuth, ??
  <2>2. escrow'.state = "Refunded" /\ "Cancelled" \in EventKinds /\ Legal("Cancelled")
    BY <1>1, <2>1 DEF Agreements, EventKinds, Legal
  <2>3. QED
    BY <1>1, <1>2, <2>1, <2>2, LogGrows
<1>6. ASSUME NEW signer \in Signers, Fund(signer) PROVE EventsTellTheStory'
  <2>1. /\ escrow.state = "Created" /\ signer = escrow.depositor
        /\ escrow' = [escrow EXCEPT !.state = "Funded"]
        /\ flows' = [flows EXCEPT !.pulled = @ + escrow.amount]
        /\ Emit("Funded", escrow.depositor, signer, 0, 0, 0)
    BY <1>6 DEF Fund, FundReply, Load, Require, RequireAuth, ??
  <2>2. escrow'.state = "Funded" /\ "Funded" \in EventKinds /\ Legal("Funded")
    BY <1>1, <2>1 DEF Agreements, EventKinds, Legal
  <2>3. flows'.toBeneficiary = 0 /\ flows'.toDepositor = 0
    BY <1>2, <2>1 DEF IInv, TypeOK, Flows
  <2>4. QED
    BY <1>1, <2>1, <2>2, <2>3, LogGrows
<1>7. ASSUME NEW signer \in Signers, NEW caller \in Holders, Dispute(signer, caller)
      PROVE  EventsTellTheStory'
  <2>1. /\ escrow.state = "Funded" /\ signer = caller
        /\ escrow' = [escrow EXCEPT !.state = "Disputed"] /\ flows' = flows
        /\ Emit("Disputed", caller, signer, 0, 0, 0)
    BY <1>7 DEF Dispute, DisputeReply, RequireFunded, RequireAuthEither, RequireAuth,
                Load, Require, ??
  <2>2. escrow'.state = "Disputed" /\ "Disputed" \in EventKinds /\ Legal("Disputed")
    BY <1>1, <2>1 DEF Agreements, EventKinds, Legal
  <2>3. flows'.toBeneficiary = 0 /\ flows'.toDepositor = 0
    BY <1>3, <2>1
  <2>4. QED
    BY <1>1, <2>1, <2>2, <2>3, LogGrows
<1>8. ASSUME escrow.state \in {"Funded", "Disputed"}, NEW state \in Terminal,
             NEW x \in 0..I128Max, NEW y \in 0..I128Max, Settle(state, x, y)
      PROVE  escrow'.state = state /\ flows'.toBeneficiary = x /\ flows'.toDepositor = y
  <2>1. escrow'.state = state
    BY <1>1, <1>8 DEF Settle, Agreements
  <2>2. flows'.toBeneficiary = 0 + x /\ flows'.toDepositor = 0 + y
    BY <1>3, <1>8 DEF Settle
  <2>3. QED
    BY <1>1, <1>8, <2>1, <2>2
<1>9. ASSUME NEW signer \in Signers, NEW caller \in Holders, Release(signer, caller)
      PROVE  EventsTellTheStory'
  <2>1. /\ escrow.state = "Funded" /\ signer = caller
        /\ Settle("Released", escrow.amount, 0)
        /\ Emit("Released", caller, signer, 0, escrow.amount, 0)
    BY <1>9, ReleaseChecks DEF Release
  <2>2. "Released" \in Terminal /\ "Released" \in EventKinds /\ Legal("Released")
    BY <2>1 DEF Terminal, EventKinds, Legal
  <2>3. /\ escrow'.state = "Released"
        /\ flows'.toBeneficiary = escrow.amount /\ flows'.toDepositor = 0
    BY <1>1, <1>8, <2>1, <2>2
  <2>4. QED
    BY <1>1, <2>1, <2>2, <2>3, LogGrows
<1>10. ASSUME NEW signer \in Signers, NEW caller \in Holders, Refund(signer, caller)
       PROVE  EventsTellTheStory'
  <2>1. /\ \/ escrow.state = "Disputed"
           \/ escrow.state = "Funded" /\ signer = caller
        /\ Settle("Refunded", 0, escrow.amount)
        /\ Emit("Refunded", caller, signer, 0, 0, escrow.amount)
    BY <1>10, RefundChecks DEF Refund
  <2>2. "Refunded" \in Terminal /\ "Refunded" \in EventKinds /\ Legal("Refunded")
    BY <2>1 DEF Terminal, EventKinds, Legal
  <2>3. /\ escrow'.state = "Refunded"
        /\ flows'.toBeneficiary = 0 /\ flows'.toDepositor = escrow.amount
    BY <1>1, <1>8, <2>1, <2>2
  <2>4. QED
    BY <1>1, <2>1, <2>2, <2>3, LogGrows
<1>11. ASSUME NEW signer \in Signers, NEW bps \in 0..(BpsDenominator + 1),
              Resolve(signer, bps)
       PROVE  EventsTellTheStory'
  <2> DEFINE x == SplitBps(escrow.amount, bps).first
             y == SplitBps(escrow.amount, bps).second
  <2>1. /\ escrow.state = "Disputed" /\ signer = escrow.arbiter
        /\ SplitBps(escrow.amount, bps).err = "Ok"
        /\ Settle("Resolved", x, y)
        /\ Emit("Resolved", escrow.arbiter, signer, bps, x, y)
    BY <1>11, ResolveChecks DEF Resolve
  <2>2. x \in 0..escrow.amount /\ y = escrow.amount - x /\ bps \in 0..BpsDenominator
    BY <1>1, <2>1, SplitIsExact
  <2> HIDE DEF x, y
  <2>3. x \in 0..I128Max /\ y \in 0..I128Max
    BY <1>1, <2>1, <2>2
  <2>4. "Resolved" \in Terminal /\ "Resolved" \in EventKinds /\ Legal("Resolved")
    BY <2>1 DEF Terminal, EventKinds, Legal
  <2>5. escrow'.state = "Resolved" /\ flows'.toBeneficiary = x /\ flows'.toDepositor = y
    BY <1>8, <2>1, <2>3, <2>4
  <2>6. QED
    BY <1>1, <2>1, <2>2, <2>3, <2>4, <2>5, LogGrows
<1>12. CASE UNCHANGED contractVars
  BY <1>12 DEF contractVars, EventsTellTheStory
<1>13. QED
  BY <1>4, <1>5, <1>6, <1>7, <1>9, <1>10, <1>11, <1>12 DEF Next, Calls, vars

\* The published events tell what the contract did.
THEOREM EventsHold == Spec => []EventsTellTheStory
<1>1. Init => EventsTellTheStory
  BY DEF Init, Absent, EventsTellTheStory
<1>2. IInv /\ EventsTellTheStory /\ [Next]_vars => EventsTellTheStory'
  BY StoryGoesOn
<1>3. QED
  BY <1>1, <1>2, Invariance, PTL DEF Spec

-----------------------------------------------------------------------------

\* The three kinds of step: one that moves none of the escrow's tokens, the
\* funding, and the payment of all that is held to the two parties.
NoFlow ==
    /\ flows' = flows
    /\ \/ escrow'.state = escrow.state
       \/ escrow.state \notin Terminal /\ escrow'.state \notin Terminal
       \/ escrow.state = "Created" /\ escrow'.state = "Refunded" /\ flows = NoFlows

Funding ==
    /\ escrow.state = "Created" /\ escrow'.state = "Funded"
    /\ flows' = [flows EXCEPT !.pulled = @ + escrow.amount]
    /\ escrow.amount > 0 /\ escrow.amount \in Nat

PayingOut ==
    /\ escrow.state \in {"Funded", "Disputed"} /\ escrow'.state \in Terminal
    /\ \E x \in Nat, y \in Nat :
           /\ x + y = escrow.amount
           /\ flows' = [pulled |-> escrow.amount, toBeneficiary |-> x, toDepositor |-> y]
    /\ Authorized

\* Every step is of one of these kinds.
LEMMA Effects ==
    ASSUME IInv, [Next]_vars
    PROVE  NoFlow \/ Funding \/ PayingOut
<1>1. ASSUME escrow.state \in {"Funded", "Disputed"}
      PROVE  /\ escrow \in Agreements /\ escrow.amount \in Nat
             /\ escrow.amount \in 0..I128Max /\ escrow.deadline \in Nat
             /\ escrow.deadline <= U64Max
             /\ now \in Nat /\ now <= U64Max /\ U64Max \in Nat /\ GracePeriod \in Nat
             /\ BpsDenominator \in Nat /\ I128Max \in Nat
             /\ escrow.arbiter \in Holders \cup {NoArbiter}
             /\ Signers \subseteq Holders
             /\ flows = [pulled |-> escrow.amount, toBeneficiary |-> 0, toDepositor |-> 0]
  BY <1>1, Types, LedgerTypes DEF IInv, Moved
<1>2. ASSUME escrow.state \in {"Funded", "Disputed"},
             NEW state \in Terminal, NEW x \in Nat, NEW y \in Nat, x + y = escrow.amount,
             Settle(state, x, y), Authorized
      PROVE  PayingOut
  <2>1. escrow'.state = state
    BY <1>1, <1>2 DEF Settle, Agreements
  <2>2. flows = [pulled |-> escrow.amount, toBeneficiary |-> 0, toDepositor |-> 0]
    BY <1>1, <1>2
  <2>3. flows' = [flows EXCEPT !.toBeneficiary = @ + x, !.toDepositor = @ + y]
    BY <1>2 DEF Settle
  <2>4. 0 + x = x /\ 0 + y = y
    OBVIOUS
  <2>5. flows' = [pulled |-> escrow.amount, toBeneficiary |-> x, toDepositor |-> y]
    BY <2>2, <2>3, <2>4
  <2>6. QED
    BY <1>2, <2>1, <2>5 DEF PayingOut
<1>3. ASSUME NEW signer \in Signers, Initializes(signer) PROVE NoFlow
  BY <1>3 DEF Initializes, Initialize, Terminal, NoFlow
<1>4. ASSUME NEW signer \in Signers, Cancel(signer) PROVE NoFlow
  <2>1. escrow.state = "Created" /\ escrow' = [escrow EXCEPT !.state = "Refunded"]
        /\ flows' = flows
    BY <1>4 DEF Cancel, CancelReply, Load, Require, ??
  <2>2. escrow \in Agreements /\ flows = NoFlows
    BY <2>1, Types DEF IInv, Moved
  <2>3. escrow'.state = "Refunded"
    BY <2>1, <2>2 DEF Agreements
  <2>4. QED
    BY <2>1, <2>2, <2>3 DEF NoFlow
<1>5. ASSUME NEW signer \in Signers, Fund(signer) PROVE Funding
  <2>1. escrow.state = "Created" /\ escrow' = [escrow EXCEPT !.state = "Funded"]
        /\ flows' = [flows EXCEPT !.pulled = @ + escrow.amount]
    BY <1>5 DEF Fund, FundReply, Load, Require, ??
  <2>2. escrow \in Agreements /\ escrow.amount > 0 /\ escrow.amount \in Nat
    BY <2>1, Types DEF IInv
  <2>3. escrow'.state = "Funded"
    BY <2>1, <2>2 DEF Agreements
  <2>4. QED
    BY <2>1, <2>2, <2>3 DEF Funding
<1>6. ASSUME NEW signer \in Signers, NEW caller \in Holders, Dispute(signer, caller)
      PROVE  NoFlow
  <2>1. escrow.state = "Funded" /\ escrow' = [escrow EXCEPT !.state = "Disputed"]
        /\ flows' = flows
    BY <1>6 DEF Dispute, DisputeReply, RequireFunded, Load, Require, ledgerVars, ??
  <2>2. escrow'.state = "Disputed"
    BY <1>1, <2>1 DEF Agreements
  <2>3. QED
    BY <2>1, <2>2 DEF Terminal, NoFlow
<1>7. ASSUME NEW signer \in Signers, NEW caller \in Holders, Release(signer, caller)
      PROVE  PayingOut
  <2>1. /\ escrow.state = "Funded" /\ signer \in {escrow.depositor, escrow.arbiter}
        /\ Settle("Released", escrow.amount, 0)
        /\ Emit("Released", caller, signer, 0, escrow.amount, 0)
    BY <1>7, ReleaseChecks DEF Release
  <2>2. events'[Len(events')].auth = signer
    <3>1. "Released" \in EventKinds /\ 0 \in 0..BpsDenominator /\ 0 \in 0..I128Max
      BY <1>1, <2>1 DEF EventKinds
    <3>2. QED
      BY <1>1, <2>1, <3>1, EmitAppends DEF IInv
  <2>3. flows'.toDepositor = flows.toDepositor
    BY <1>1, <2>1 DEF Settle
  <2>4. Authorized
    BY <1>1, <2>1, <2>2, <2>3 DEF Authorized
  <2>5. QED
    BY <1>1, <1>2, <2>1, <2>4 DEF Terminal
<1>8. ASSUME NEW signer \in Signers, NEW caller \in Holders, Refund(signer, caller)
      PROVE  PayingOut
  <2>1. /\ \/ escrow.state = "Disputed" /\ now >= DisputeTimeout
           \/ /\ escrow.state = "Funded"
              /\ \/ signer = escrow.arbiter
                 \/ signer = escrow.depositor /\ now >= escrow.deadline
        /\ Settle("Refunded", 0, escrow.amount)
        /\ Emit("Refunded", caller, signer, 0, 0, escrow.amount)
    BY <1>8, RefundChecks DEF Refund
  <2>2. events'[Len(events')].auth = signer
    <3>1. "Refunded" \in EventKinds /\ 0 \in 0..BpsDenominator /\ 0 \in 0..I128Max
      BY <1>1, <2>1 DEF EventKinds
    <3>2. QED
      BY <1>1, <2>1, <3>1, EmitAppends DEF IInv
  <2>3. flows'.toBeneficiary = flows.toBeneficiary
    BY <1>1, <2>1 DEF Settle
  <2>4. escrow.state = "Disputed" /\ now >= DisputeTimeout =>
            now >= escrow.deadline /\ (now - escrow.deadline >= GracePeriod \/ now = U64Max)
    BY <1>1 DEF DisputeTimeout
  <2>5. Authorized
    BY <1>1, <2>1, <2>2, <2>3, <2>4 DEF Authorized
  <2>6. escrow.state \in {"Funded", "Disputed"}
    BY <2>1
  <2>7. 0 + escrow.amount = escrow.amount /\ escrow.amount \in Nat
    BY <1>1, <2>6
  <2>8. QED
    BY <1>2, <2>1, <2>5, <2>6, <2>7 DEF Terminal
<1>9. ASSUME NEW signer \in Signers, NEW bps \in 0..(BpsDenominator + 1),
             Resolve(signer, bps)
      PROVE  PayingOut
  <2> DEFINE x == SplitBps(escrow.amount, bps).first
             y == SplitBps(escrow.amount, bps).second
  <2>1. /\ escrow.state = "Disputed" /\ signer = escrow.arbiter
        /\ SplitBps(escrow.amount, bps).err = "Ok"
        /\ Settle("Resolved", x, y)
        /\ Emit("Resolved", escrow.arbiter, signer, bps, x, y)
    BY <1>9, ResolveChecks DEF Resolve
  <2>2. x \in 0..escrow.amount /\ y = escrow.amount - x /\ bps \in 0..BpsDenominator
    BY <1>1, <2>1, SplitIsExact
  <2> HIDE DEF x, y
  <2>3. x \in Nat /\ y \in Nat /\ x + y = escrow.amount
        /\ x \in 0..I128Max /\ y \in 0..I128Max
    BY <1>1, <2>1, <2>2
  <2>4. events'[Len(events')].auth = signer
    BY <1>1, <2>1, <2>2, <2>3, EmitAppends DEF IInv, EventKinds
  <2>5. Authorized
    BY <2>1, <2>4 DEF Authorized
  <2>6. QED
    BY <1>2, <2>1, <2>3, <2>5 DEF Terminal
<1>10. CASE UNCHANGED contractVars
  BY <1>10 DEF contractVars, NoFlow
<1>11. QED
  BY <1>3, <1>4, <1>5, <1>6, <1>7, <1>8, <1>9, <1>10 DEF Next, Calls, vars

\* Nobody takes the funds alone.
THEOREM NobodyExitsAlone == Spec => NoUnilateralExit
<1>1. IInv /\ [Next]_vars => [Authorized]_vars
  <2> SUFFICES ASSUME IInv, [Next]_vars PROVE Authorized \/ UNCHANGED vars
    OBVIOUS
  <2>1. flows \in Flows
    BY DEF IInv, TypeOK
  <2>2. CASE flows'.toBeneficiary = flows.toBeneficiary /\ flows'.toDepositor = flows.toDepositor
    BY <2>1, <2>2 DEF Authorized, Flows
  <2>3. CASE Authorized
    BY <2>3
  <2>4. QED
    BY <2>1, <2>2, <2>3, Effects DEF Flows, NoFlow, Funding, PayingOut
<1>2. QED
  BY <1>1, Invariance, PTL DEF Spec, NoUnilateralExit

\* The escrow implements Custody.
THEOREM Refinement == Spec => ImplementsCustody
<1>1. Init => Custody!Init
  BY DEF Init, Absent, NoFlows, Custody!Init, Terminal
<1>2. IInv /\ [Next]_vars => [Custody!Next]_Custody!custodyVars
  <2> SUFFICES ASSUME IInv, [Next]_vars PROVE Custody!Next \/ UNCHANGED Custody!custodyVars
    OBVIOUS
  <2>1. CASE flows' = flows /\ \/ escrow'.state = escrow.state
                               \/ escrow.state \notin Terminal /\ escrow'.state \notin Terminal
    BY <2>1 DEF Custody!custodyVars
  <2>2. CASE flows' = flows /\ flows = NoFlows
             /\ escrow.state = "Created" /\ escrow'.state = "Refunded"
    <3>1. Custody!Close
      BY <2>2 DEF Custody!Close, Custody!Left, NoFlows, Terminal
    <3>2. QED
      BY <3>1 DEF Custody!Next
  <2>3. CASE /\ escrow.state = "Created" /\ escrow'.state = "Funded"
             /\ flows' = [flows EXCEPT !.pulled = @ + escrow.amount]
             /\ escrow.amount > 0 /\ escrow.amount \in Nat
    <3>1. flows \in Flows
      BY DEF IInv, TypeOK
    <3>2. flows'.pulled > flows.pulled /\ flows'.toBeneficiary = flows.toBeneficiary
          /\ flows'.toDepositor = flows.toDepositor
      BY <2>3, <3>1 DEF Flows
    <3>3. Custody!Pull
      BY <2>3, <3>2 DEF Custody!Pull, Terminal
    <3>4. QED
      BY <3>3 DEF Custody!Next
  <2>4. ASSUME escrow.state \in {"Funded", "Disputed"}, escrow'.state \in Terminal,
               NEW x \in Nat, NEW y \in Nat, x + y = escrow.amount,
               flows' = [pulled        |-> escrow.amount,
                         toBeneficiary |-> x,
                         toDepositor   |-> y]
        PROVE  Custody!Next
    <3>1. flows = [pulled |-> escrow.amount, toBeneficiary |-> 0, toDepositor |-> 0]
          /\ escrow.amount \in Nat
      BY <2>4, Types DEF IInv, Moved
    <3>2. Custody!Close
      BY <2>4, <3>1 DEF Custody!Close, Custody!Left, Terminal
    <3>3. QED
      BY <3>2 DEF Custody!Next
  <2>5. QED
    BY <2>1, <2>2, <2>3, <2>4, Effects DEF NoFlow, Funding, PayingOut
<1>3. QED
  BY <1>1, <1>2, Invariance, PTL DEF Spec, ImplementsCustody, Custody!Spec

-----------------------------------------------------------------------------
(* Liveness.  ENABLED is beyond the provers, so the fairness of LiveSpec is *)
(* stated with the checks of the code in its place.                         *)

\* refund would accept the depositor's call.
RefundAccepted ==
    escrow.state # "Absent" /\ RefundReply(escrow.depositor, escrow.depositor) = "Ok"

\* SF_vars(DepositorRefunds): the depositor does not give up.
DepositorPersists == []<>RefundAccepted => []<><<DepositorRefunds>>_vars

\* Funds are held, and the time of every party but the depositor is over.
Overdue == Held > 0 /\ now >= DisputeTimeout

\* Held funds stay as they are, under the same terms, until they leave.
LEMMA HeldStays ==
    ASSUME IInv, Held > 0, [Next]_vars
    PROVE  \/ Held' = 0
           \/ /\ Held' > 0 /\ now' >= now
              /\ escrow'.deadline = escrow.deadline
<1>1. /\ escrow.state \in {"Funded", "Disputed"} /\ escrow \in Agreements
      /\ now \in Nat /\ U64Max \in Nat
  BY Types, LedgerTypes DEF IInv, Held
<1>2. ASSUME PayingOut PROVE Held' = 0
  BY <1>2 DEF PayingOut, Held, Terminal
<1>3. ASSUME NEW signer \in Signers, NEW caller \in Holders, Dispute(signer, caller)
      PROVE  Held' > 0 /\ now' >= now /\ escrow'.deadline = escrow.deadline
  <2>1. escrow' = [escrow EXCEPT !.state = "Disputed"] /\ now' = now
    BY <1>3 DEF Dispute, ledgerVars
  <2>2. /\ escrow'.state = "Disputed" /\ escrow'.amount = escrow.amount
        /\ escrow'.deadline = escrow.deadline
    BY <1>1, <2>1 DEF Agreements
  <2>3. QED
    BY <1>1, <2>1, <2>2 DEF Held
<1>4. CASE UNCHANGED contractVars /\ LedgerNext
  <2>1. now' >= now
    BY <1>1, <1>4 DEF LedgerNext, CloseLedger, SetFrozen, Stray
  <2>2. QED
    BY <1>4, <2>1 DEF contractVars, Held
<1>5. CASE UNCHANGED vars
  BY <1>1, <1>5 DEF vars, ledgerVars, contractVars, Held
<1>6. ASSUME NEW signer \in Signers
      PROVE  ~Initializes(signer) /\ ~Cancel(signer) /\ ~Fund(signer)
  BY <1>1 DEF Initializes, Cancel, CancelReply, Fund, FundReply, Load, Require, Absent, ??
<1>7. ASSUME NEW signer \in Signers, NEW caller \in Holders,
             Release(signer, caller) \/ Refund(signer, caller)
      PROVE  Held' = 0
  <2>1. escrow'.state \in {"Released", "Refunded"}
    BY <1>1, <1>7 DEF Release, Refund, Settle, Agreements
  <2>2. QED
    BY <2>1 DEF Held
<1>8. ASSUME NEW signer \in Signers, NEW bps \in 0..(BpsDenominator + 1),
             Resolve(signer, bps)
      PROVE  Held' = 0
  <2>1. escrow'.state = "Resolved"
    BY <1>1, <1>8 DEF Resolve, Settle, Agreements
  <2>2. QED
    BY <2>1 DEF Held
<1>9. QED
  BY <1>3, <1>4, <1>5, <1>6, <1>7, <1>8 DEF Next, Calls

\* What is overdue stays so until the funds have left.
LEMMA OverdueStays == IInv /\ Overdue /\ [Next]_vars => Overdue' \/ (Held = 0)'
<1> SUFFICES ASSUME IInv, Overdue, [Next]_vars, Held' # 0 PROVE Overdue'
  OBVIOUS
<1>1. Held' > 0 /\ now' >= now /\ escrow'.deadline = escrow.deadline /\ now >= DisputeTimeout
  BY HeldStays DEF Overdue
<1>2. DisputeTimeout' = DisputeTimeout
  BY <1>1 DEF DisputeTimeout
<1>3. now' \in Nat /\ now \in Nat /\ U64Max \in Nat
  <2>1. IInv'
    BY StepKeeps
  <2>2. QED
    BY <2>1, LedgerAssumption DEF IInv, TypeOK, LedgerTypeOK
<1>4. DisputeTimeout \in Nat
  <2>1. escrow.state \in {"Funded", "Disputed"}
    BY DEF Overdue, Held
  <2>2. escrow.deadline \in Nat /\ GracePeriod \in Nat
    BY <2>1, Types, LedgerTypes DEF IInv
  <2>3. QED
    BY <1>3, <2>2 DEF DisputeTimeout
<1>5. QED
  BY <1>1, <1>2, <1>3, <1>4 DEF Overdue

\* Nothing but a freeze keeps the depositor from an overdue refund.
LEMMA OverdueIsAccepted == IInv /\ Overdue /\ frozen = {} => RefundAccepted
<1> SUFFICES ASSUME IInv, Overdue, frozen = {} PROVE RefundAccepted
  OBVIOUS
<1>1. escrow.state \in {"Funded", "Disputed"} /\ now >= DisputeTimeout
  BY DEF Overdue, Held
<1>2. PayReply(escrow.depositor, escrow.amount) = "Ok"
  BY <1>1, HoldsTheAmount, Types DEF IInv, PayReply, TransferReply
<1>3. now >= escrow.deadline
  BY <1>1, Types, LedgerTypes DEF IInv, DisputeTimeout
<1>4. CASE escrow.state = "Disputed"
  BY <1>1, <1>2, <1>4 DEF RefundAccepted, RefundReply, RecoverReply, Load, Require, ??
<1>5. CASE escrow.state = "Funded"
  BY <1>2, <1>3, <1>5 DEF RefundAccepted, RefundReply, Load, RequireFunded,
                          RequireAuthEither, RequireAuth, Require, Terminal, ??
<1>6. QED
  BY <1>1, <1>4, <1>5

LEMMA RefundEmpties == IInv /\ <<DepositorRefunds>>_vars => (Held = 0)'
<1> SUFFICES ASSUME IInv, DepositorRefunds PROVE Held' = 0
  OBVIOUS
<1>1. escrow.state # "Absent" /\ escrow' = [escrow EXCEPT !.state = "Refunded"]
  BY DEF DepositorRefunds, Refund, Settle
<1>2. escrow \in Agreements
  BY <1>1, Types DEF IInv
<1>3. escrow'.state = "Refunded"
  BY <1>1, <1>2 DEF Agreements
<1>4. QED
  BY <1>3 DEF Held

\* Once the deadline and the grace period are over, a depositor who keeps
\* calling `refund` empties the escrow, whatever anybody else does or omits.
THEOREM OverdueFundsLeave ==
    Spec /\ Unfreezes /\ DepositorPersists => (Overdue ~> Held = 0)
<1>1. Spec => []IInv
  BY Invariance
<1>2. IInv /\ Overdue /\ [Next]_vars => Overdue' \/ (Held = 0)'
  BY OverdueStays
<1>3. IInv /\ Overdue /\ frozen = {} => RefundAccepted
  BY OverdueIsAccepted
<1>4. IInv /\ <<DepositorRefunds>>_vars => (Held = 0)'
  BY RefundEmpties
<1>5. Unfreezes => []<>(frozen = {})
  BY NobodyStaysFrozen
<1>6. QED
  BY <1>1, <1>2, <1>3, <1>4, <1>5, PTL DEF Spec, DepositorPersists

\* Every escrow that is funded is overdue or empty in the end, if time goes on
\* to the last timestamp there is; so funds never stay for ever.
THEOREM FundsLeave ==
    Spec /\ Unfreezes /\ DepositorPersists /\ <>(now = U64Max) => FundsEventuallyLeave
<1>1. Spec => []IInv
  BY Invariance
<1>2. IInv /\ now = U64Max /\ [Next]_vars => (now = U64Max)'
  <2> SUFFICES ASSUME IInv, now = U64Max, [Next]_vars PROVE now' = U64Max
    OBVIOUS
  <2>1. U64Max \in Nat
    BY LedgerAssumption
  <2>2. ~CloseLedger
    BY <2>1 DEF CloseLedger
  <2>3. CASE UNCHANGED ledgerVars
    BY <2>3 DEF ledgerVars
  <2>4. CASE Calls
    BY <2>4 DEF Calls, Initializes, Initialize, Cancel, Fund, Release, Refund, Dispute,
                Resolve, ledgerVars
  <2>5. QED
    BY <2>2, <2>3, <2>4 DEF Next, LedgerNext, SetFrozen, Stray, vars
<1>3. IInv /\ Held > 0 /\ [Next]_vars => (Held > 0)' \/ (Held = 0)'
  BY HeldStays
<1>4. IInv /\ Held > 0 /\ now = U64Max => Overdue
  <2> SUFFICES ASSUME IInv, Held > 0, now = U64Max PROVE Overdue
    OBVIOUS
  <2>1. escrow.deadline \in Nat /\ GracePeriod \in Nat /\ U64Max \in Nat
    BY Types, LedgerTypes DEF IInv, Held
  <2>2. QED
    BY <2>1 DEF Overdue, DisputeTimeout
<1>5. Spec /\ Unfreezes /\ DepositorPersists => (Overdue ~> Held = 0)
  BY OverdueFundsLeave
<1>6. QED
  BY <1>1, <1>2, <1>3, <1>4, <1>5, PTL DEF Spec, FundsEventuallyLeave

=============================================================================
