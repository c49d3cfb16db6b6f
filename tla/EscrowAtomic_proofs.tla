------------------------ MODULE EscrowAtomic_proofs ------------------------
(***************************************************************************)
(* A call of the escrow is all or nothing, whatever the token refuses and  *)
(* whatever it tries in between: seen from outside, the host's many steps  *)
(* are the single steps of Escrow.  The proof follows the outermost call.  *)
(* As long as no call inside it has succeeded, the world inside it is the  *)
(* one it met, with the new state stored and its first payments made.      *)
(***************************************************************************)
EXTENDS EscrowHost_proofs

\* The token's answer to a payment while `held` are frozen.
Pays(held, bal, from, to, amount) ==
    {from, to} \cap held = {} /\ amount \in 0..bal[from]

\* Two payments of the contract in a row.
Both(bal, first, x, second, y) ==
    Transferred(Transferred(bal, Self, first, x), Self, second, y)

\* `fund`, of which `z` has been pulled, called in the world `u` at time `t`.
FundUnderway(u, frame, w, t, held) ==
    \E signer \in Signers, z \in Nat :
        /\ u.escrow.state = "Created"
        /\ signer = u.escrow.depositor /\ t < u.escrow.deadline
        /\ frame.event = Story("Funded", u.escrow.depositor, signer, 0,
                               Payment(u.escrow.amount, 0, 0))
        /\ z \in {0, u.escrow.amount}
        /\ frame.pending = Payment(u.escrow.amount - z, 0, 0)
        /\ z > 0 => Pays(held, u.balance, u.escrow.depositor, Self, z)
        /\ w.escrow = [u.escrow EXCEPT !.state = "Funded"]
        /\ w.balance = Transferred(u.balance, u.escrow.depositor, Self, z)
        /\ w.flows = [u.flows EXCEPT !.pulled = @ + z]

Timeout(e) ==
    IF e.deadline + GracePeriod > U64Max THEN U64Max ELSE e.deadline + GracePeriod

\* The calls that pay out `a` and `b`, and what makes them legal.
Releasing(e, event, signer, state, a, b) ==
    \E caller \in Holders :
        /\ state = "Released" /\ a = e.amount /\ b = 0
        /\ event = Story("Released", caller, signer, 0, Payment(0, e.amount, 0))
        /\ e.state = "Funded"
        /\ signer = caller /\ caller \in {e.depositor, e.arbiter}

Refunding(e, event, signer, state, a, b, t) ==
    \E caller \in Holders :
        /\ state = "Refunded" /\ a = 0 /\ b = e.amount
        /\ event = Story("Refunded", caller, signer, 0, Payment(0, 0, e.amount))
        /\ \/ e.state = "Disputed" /\ t >= Timeout(e)
           \/ /\ e.state = "Funded" /\ signer = caller
              /\ \/ caller = e.arbiter
                 \/ caller = e.depositor /\ t >= e.deadline

Resolving(e, event, signer, state, a, b) ==
    \E bps \in 0..(BpsDenominator + 1) :
        /\ state = "Resolved"
        /\ a = SplitBps(e.amount, bps).first /\ b = SplitBps(e.amount, bps).second
        /\ event = Story("Resolved", e.arbiter, signer, bps, Payment(0, a, b))
        /\ e.state = "Disputed" /\ signer = e.arbiter /\ e.arbiter # NoArbiter
        /\ SplitBps(e.amount, bps).err = "Ok"

Ruled(e, event, signer, state, a, b, t) ==
    \/ Releasing(e, event, signer, state, a, b)
    \/ Refunding(e, event, signer, state, a, b, t)
    \/ Resolving(e, event, signer, state, a, b)

\* A call that pays out, of which `x` and `y` have been paid.
PaidSoFar(u, frame, w, t, held, signer, state, a, b, x, y) ==
    /\ Ruled(u.escrow, frame.event, signer, state, a, b, t)
    /\ x \in {0, a} /\ y \in {0, b} /\ (y > 0 => x = a)
    /\ frame.pending = Payment(0, a - x, b - y)
    /\ x > 0 => Pays(held, u.balance, Self, u.escrow.beneficiary, x)
    /\ y > 0 => Pays(held, Transferred(u.balance, Self, u.escrow.beneficiary, x),
                     Self, u.escrow.depositor, y)
    /\ w.escrow = [u.escrow EXCEPT !.state = state]
    /\ w.balance = Both(u.balance, u.escrow.beneficiary, x, u.escrow.depositor, y)
    /\ w.flows = [u.flows EXCEPT !.toBeneficiary = @ + x, !.toDepositor = @ + y]

\* `release`, `refund` or `resolve`.
PayoutUnderway(u, frame, w, t, held) ==
    \E signer \in Signers, state \in Terminal, a, b, x, y \in Nat :
        PaidSoFar(u, frame, w, t, held, signer, state, a, b, x, y)

Begun(frame, w, t, held) ==
    /\ w.events = frame.undo.events
    /\ \/ FundUnderway(frame.undo, frame, w, t, held)
       \/ PayoutUnderway(frame.undo, frame, w, t, held)

\* The world inside the outermost call, were the calls inside it to fail.
Inside == IF Depth = 1 THEN World ELSE stack[2].undo

\* The inductive invariant, beside HostInv.
Underway == stack # <<>> /\ ~stack[1].reentered => Begun(stack[1], Inside, now, frozen)

-----------------------------------------------------------------------------

\* A payment of nothing moves nothing.
LEMMA NothingMoves ==
    ASSUME NEW bal \in [Holders -> Nat], NEW from, NEW to
    PROVE  Transferred(bal, from, to, 0) = bal
<1>1. ASSUME NEW h \in Holders PROVE bal[h] \in Nat
  OBVIOUS
<1>2. ASSUME NEW h \in Holders
      PROVE  bal[h] - (IF h = from THEN 0 ELSE 0) + (IF h = to THEN 0 ELSE 0) = bal[h]
  BY <1>1
<1>3. QED
  BY <1>2 DEF Transferred

\* What a call has done does not depend on the time-to-live.
LEMMA BegunReads ==
    ASSUME NEW frame, NEW w, NEW v, NEW t, NEW held, Begun(frame, w, t, held),
           v.escrow = w.escrow, v.balance = w.balance, v.flows = w.flows,
           v.events = w.events
    PROVE  Begun(frame, v, t, held)
<1>1. FundUnderway(frame.undo, frame, w, t, held) => FundUnderway(frame.undo, frame, v, t, held)
  BY DEF FundUnderway
<1>2. PayoutUnderway(frame.undo, frame, w, t, held) => PayoutUnderway(frame.undo, frame, v, t, held)
  <2>1. ASSUME NEW signer \in Signers, NEW state \in Terminal,
               NEW a \in Nat, NEW b \in Nat, NEW x \in Nat, NEW y \in Nat,
               PaidSoFar(frame.undo, frame, w, t, held, signer, state, a, b, x, y)
        PROVE  PaidSoFar(frame.undo, frame, v, t, held, signer, state, a, b, x, y)
    BY <2>1 DEF PaidSoFar
  <2>2. QED
    BY <2>1 DEF PayoutUnderway
<1>3. QED
  BY <1>1, <1>2 DEF Begun

\* A step that leaves the outermost frame and the world inside it alone.
LEMMA UnderwayStays ==
    ASSUME Underway, now' = now, frozen' = frozen,
           stack' # <<>> => /\ stack # <<>>
                            /\ stack'[1].reentered \/ stack'[1] = stack[1],
           stack' # <<>> /\ ~stack'[1].reentered =>
               /\ Inside'.escrow = Inside.escrow /\ Inside'.balance = Inside.balance
               /\ Inside'.flows = Inside.flows /\ Inside'.events = Inside.events
    PROVE  Underway'
<1> SUFFICES ASSUME stack' # <<>>, ~stack'[1].reentered
             PROVE  Begun(stack'[1], Inside', now', frozen')
  BY DEF Underway
<1>1. stack'[1] = stack[1] /\ Begun(stack[1], Inside, now, frozen)
  BY DEF Underway
<1>2. Begun(stack[1], Inside', now, frozen)
  BY <1>1, BegunReads
<1>3. QED
  BY <1>1, <1>2

-----------------------------------------------------------------------------
(* Calls begin.                                                            *)

\* What a call leaves alone, and what it puts on the stack.
LEMMA EnterShape ==
    ASSUME HostInv, NEW state, NEW payment, NEW event, Enter(state, payment, event)
    PROVE  LET frame == [undo |-> World, pending |-> payment, event |-> event,
                         reentered |-> FALSE]
           IN  /\ escrow' = [escrow EXCEPT !.state = state]
               /\ now' = now /\ balance' = balance /\ frozen' = frozen /\ strays' = strays
               /\ flows' = flows /\ events' = events
               /\ stack' # <<>> /\ Depth' = Depth + 1 /\ Depth \in Nat
               /\ stack'[Depth + 1] = frame /\ \A i \in 1..Depth : stack'[i] = stack[i]
<1> DEFINE frame == [undo |-> World, pending |-> payment, event |-> event,
                     reentered |-> FALSE]
<1>1. /\ escrow' = [escrow EXCEPT !.state = state] /\ stack' = Append(stack, frame)
      /\ now' = now /\ balance' = balance /\ frozen' = frozen /\ strays' = strays
      /\ flows' = flows /\ events' = events
  BY DEF Enter, Save, ledgerVars
<1>2. stack \in Seq(Frames) /\ Depth \in Nat /\ Depth = Len(stack)
  BY HostTypes DEF HostInv, Depth
<1> HIDE DEF frame
<1>3. stack \in Seq(Frames \cup {frame})
  BY <1>2
<1>4. /\ stack' \in Seq(Frames \cup {frame}) /\ Len(stack') = Len(stack) + 1
      /\ stack'[Len(stack) + 1] = frame
      /\ \A i \in 1..Len(stack) : stack'[i] = stack[i]
  BY <1>1, <1>3, AppendProperties
<1>5. stack' # <<>>
  BY <1>2, <1>4
<1>6. QED
  BY <1>1, <1>2, <1>4, <1>5 DEF frame, Depth

\* A call within a call: the world inside the outermost one is put aside.
LEMMA EnterInside ==
    ASSUME HostInv, Underway, stack # <<>>,
           NEW state, NEW payment, NEW event, Enter(state, payment, event)
    PROVE  Underway'
<1>1. /\ now' = now /\ frozen' = frozen /\ stack' # <<>> /\ Depth' = Depth + 1
      /\ Depth \in Nat /\ stack'[Depth + 1].undo = World
      /\ \A i \in 1..Depth : stack'[i] = stack[i]
  <2> DEFINE frame == [undo |-> World, pending |-> payment, event |-> event,
                       reentered |-> FALSE]
  <2>1. /\ now' = now /\ frozen' = frozen /\ stack' # <<>> /\ Depth' = Depth + 1
        /\ Depth \in Nat /\ stack'[Depth + 1] = frame
        /\ \A i \in 1..Depth : stack'[i] = stack[i]
    BY EnterShape
  <2>2. frame.undo = World
    OBVIOUS
  <2> HIDE DEF frame
  <2>3. QED
    BY <2>1, <2>2
<1>2. Depth > 0 /\ 1 \in 1..Depth
  BY <1>1, TopIs
<1>3. Inside' = stack'[2].undo
  BY <1>1, <1>2 DEF Inside
<1>4. Depth # 1 => 2 \in 1..Depth
  BY <1>1, <1>2
<1>5. Inside' = Inside
  <2>1. CASE Depth = 1
    BY <1>1, <1>3, <2>1 DEF Inside
  <2>2. CASE Depth # 1
    BY <1>1, <1>3, <1>4, <2>2 DEF Inside
  <2>3. QED
    BY <2>1, <2>2
<1>6. stack'[1] = stack[1]
  BY <1>1, <1>2
<1>7. QED
  BY <1>1, <1>5, <1>6, UnderwayStays

\* An outermost call has moved nothing yet.
LEMMA FundBegins ==
    ASSUME HostInv, stack = <<>>, NEW signer \in Signers, EnterFund(signer)
    PROVE  Underway'
<1> DEFINE payment == Payment(escrow.amount, 0, 0)
           event   == Story("Funded", escrow.depositor, signer, 0, payment)
           frame   == [undo |-> World, pending |-> payment, event |-> event,
                       reentered |-> FALSE]
<1>1. Checks!FundReply(signer) = "Ok" /\ Enter("Funded", payment, event)
  BY DEF EnterFund
<1>2. /\ escrow' = [escrow EXCEPT !.state = "Funded"]
      /\ now' = now /\ balance' = balance /\ frozen' = frozen
      /\ flows' = flows /\ events' = events
      /\ Depth' = Depth + 1 /\ stack'[Depth + 1] = frame
  BY <1>1, EnterShape
<1>3. Depth = 0
  BY DEF Depth
<1>4. escrow.state = "Created" /\ signer = escrow.depositor /\ now < escrow.deadline
  BY <1>1, FundChecked
<1>5. /\ escrow.amount \in Nat /\ flows \in Flows /\ flows.pulled \in Nat
      /\ balance \in [Holders -> Nat]
  BY <1>4, SoundNumbers, HostTypes
<1>6. stack'[1] = frame /\ Inside' = World'
  BY <1>2, <1>3 DEF Inside
<1>7. /\ frame.undo.escrow = escrow /\ frame.undo.balance = balance
      /\ frame.undo.flows = flows /\ frame.undo.events = events
      /\ frame.pending = payment /\ frame.event = event
  BY DEF World
<1>8. /\ World'.escrow = escrow' /\ World'.balance = balance'
      /\ World'.flows = flows' /\ World'.events = events'
  BY DEF World
<1> HIDE DEF frame
<1>9. [flows EXCEPT !.pulled = @ + 0] = flows
  BY <1>5 DEF Flows
<1>10. Transferred(balance, escrow.depositor, Self, 0) = balance
  BY <1>5, NothingMoves
<1>11. payment = Payment(escrow.amount - 0, 0, 0)
  BY <1>5
<1>12. FundUnderway(frame.undo, frame, World', now, frozen)
  <2>1. 0 \in {0, escrow.amount} /\ 0 \in Nat /\ ~(0 > 0)
    OBVIOUS
  <2>2. QED
    BY <1>2, <1>4, <1>7, <1>8, <1>9, <1>10, <1>11, <2>1 DEF FundUnderway
<1>13. Begun(stack'[1], Inside', now', frozen')
  BY <1>2, <1>6, <1>7, <1>8, <1>12 DEF Begun
<1>14. QED
  BY <1>13 DEF Underway

\* Likewise for the calls that pay out.
LEMMA PayingOutBegins ==
    ASSUME HostInv, stack = <<>>, escrow.state # "Absent",
           NEW signer \in Signers, NEW state \in Terminal,
           NEW a \in Nat, NEW b \in Nat, NEW event, Enter(state, Payment(0, a, b), event),
           Ruled(escrow, event, signer, state, a, b, now)
    PROVE  Underway'
<1> DEFINE payment == Payment(0, a, b)
           frame   == [undo |-> World, pending |-> payment, event |-> event,
                       reentered |-> FALSE]
<1>1. /\ escrow' = [escrow EXCEPT !.state = state]
      /\ now' = now /\ balance' = balance /\ frozen' = frozen
      /\ flows' = flows /\ events' = events
      /\ Depth' = Depth + 1 /\ stack'[Depth + 1] = frame
  BY EnterShape
<1>2. Depth = 0
  BY DEF Depth
<1>3. /\ flows \in Flows /\ flows.toBeneficiary \in Nat /\ flows.toDepositor \in Nat
      /\ balance \in [Holders -> Nat]
  BY SoundNumbers, HostTypes
<1>4. stack'[1] = frame /\ Inside' = World'
  BY <1>1, <1>2 DEF Inside
<1>5. /\ frame.undo.escrow = escrow /\ frame.undo.balance = balance
      /\ frame.undo.flows = flows /\ frame.undo.events = events
      /\ frame.pending = payment /\ frame.event = event
  BY DEF World
<1>6. /\ World'.escrow = escrow' /\ World'.balance = balance'
      /\ World'.flows = flows' /\ World'.events = events'
  BY DEF World
<1> HIDE DEF frame
<1>7. [flows EXCEPT !.toBeneficiary = @ + 0, !.toDepositor = @ + 0] = flows
  <2>1. flows.toBeneficiary + 0 = flows.toBeneficiary /\ flows.toDepositor + 0 = flows.toDepositor
    BY <1>3
  <2>2. [flows EXCEPT !.toBeneficiary = flows.toBeneficiary,
                      !.toDepositor = flows.toDepositor] = flows
    BY <1>3 DEF Flows
  <2>3. QED
    BY <2>1, <2>2
<1>8. Both(balance, escrow.beneficiary, 0, escrow.depositor, 0) = balance
  BY <1>3, NothingMoves DEF Both
<1>9. payment = Payment(0, a - 0, b - 0)
  OBVIOUS
<1>10. PayoutUnderway(frame.undo, frame, World', now, frozen)
  <2>1. 0 \in {0, a} /\ 0 \in {0, b} /\ 0 \in Nat /\ ~(0 > 0)
    OBVIOUS
  <2>2. PaidSoFar(frame.undo, frame, World', now, frozen, signer, state, a, b, 0, 0)
    BY <1>1, <1>5, <1>6, <1>7, <1>8, <1>9, <2>1 DEF PaidSoFar
  <2>3. QED
    BY <2>1, <2>2 DEF PayoutUnderway
<1>11. Begun(stack'[1], Inside', now', frozen')
  BY <1>1, <1>4, <1>5, <1>6, <1>10 DEF Begun
<1>12. QED
  BY <1>11 DEF Underway

LEMMA EntriesUnderway ==
    ASSUME HostInv, Underway, NEW signer \in Signers, Entries(signer)
    PROVE  Underway'
<1>1. CASE EnterFund(signer)
  <2>1. CASE stack = <<>>
    BY <1>1, <2>1, FundBegins
  <2>2. CASE stack # <<>>
    BY <1>1, <2>2, EnterInside DEF EnterFund
  <2>3. QED
    BY <2>1, <2>2
<1>2. ASSUME NEW caller \in Holders, EnterRelease(signer, caller) PROVE Underway'
  <2> DEFINE event == Story("Released", caller, signer, 0, Payment(0, escrow.amount, 0))
  <2>1. /\ Checks!ReleaseReply(signer, caller) = "Ok"
        /\ Enter("Released", Payment(0, escrow.amount, 0), event)
    BY <1>2 DEF EnterRelease
  <2>2. CASE stack = <<>>
    <3>1. /\ escrow.state = "Funded" /\ signer = caller
          /\ caller \in {escrow.depositor, escrow.arbiter}
      BY <2>1, ReleaseChecked
    <3>2. escrow.amount \in Nat /\ 0 \in Nat
      BY <3>1, SoundNumbers
    <3>3. Ruled(escrow, event, signer, "Released", escrow.amount, 0, now)
      BY <3>1 DEF Ruled, Releasing
    <3>4. "Released" \in Terminal
      BY DEF Terminal
    <3> HIDE DEF event
    <3>5. QED
      BY <2>1, <2>2, <3>1, <3>2, <3>3, <3>4, PayingOutBegins
  <2>3. CASE stack # <<>>
    BY <2>1, <2>3, EnterInside
  <2>4. QED
    BY <2>2, <2>3
<1>3. ASSUME NEW caller \in Holders, EnterRefund(signer, caller) PROVE Underway'
  <2> DEFINE event == Story("Refunded", caller, signer, 0, Payment(0, 0, escrow.amount))
  <2>1. /\ Checks!RefundReply(signer, caller) = "Ok"
        /\ Enter("Refunded", Payment(0, 0, escrow.amount), event)
    BY <1>3 DEF EnterRefund
  <2>2. CASE stack = <<>>
    <3>1. \/ escrow.state = "Disputed" /\ now >= DisputeTimeout
          \/ /\ escrow.state = "Funded" /\ signer = caller
             /\ \/ caller = escrow.arbiter
                \/ caller = escrow.depositor /\ now >= escrow.deadline
      BY <2>1, RefundChecked
    <3>2. escrow.amount \in Nat /\ 0 \in Nat
      BY <3>1, SoundNumbers
    <3>3. DisputeTimeout = Timeout(escrow)
      BY DEF DisputeTimeout, Timeout
    <3>4. Ruled(escrow, event, signer, "Refunded", 0, escrow.amount, now)
      BY <3>1, <3>3 DEF Ruled, Refunding
    <3>5. "Refunded" \in Terminal
      BY DEF Terminal
    <3> HIDE DEF event
    <3>6. QED
      BY <2>1, <2>2, <3>1, <3>2, <3>4, <3>5, PayingOutBegins
  <2>3. CASE stack # <<>>
    BY <2>1, <2>3, EnterInside
  <2>4. QED
    BY <2>2, <2>3
<1>4. ASSUME NEW bps \in 0..(BpsDenominator + 1), EnterResolve(signer, bps) PROVE Underway'
  <2> DEFINE a == SplitBps(escrow.amount, bps).first
             b == SplitBps(escrow.amount, bps).second
             event == Story("Resolved", escrow.arbiter, signer, bps, Payment(0, a, b))
  <2>1. /\ Checks!ResolveReply(signer, bps) = "Ok"
        /\ Enter("Resolved", Payment(0, a, b), event)
    BY <1>4 DEF EnterResolve
  <2>2. CASE stack = <<>>
    <3>1. /\ escrow.state = "Disputed" /\ signer = escrow.arbiter
          /\ escrow.arbiter # NoArbiter
          /\ SplitBps(escrow.amount, bps).err = "Ok"
      BY <2>1, ResolveChecked
    <3>2. escrow.amount \in 0..I128Max /\ bps \in Nat
      BY <3>1, SoundNumbers
    <3>3. a \in 0..escrow.amount /\ b = escrow.amount - a
      BY <3>1, <3>2, SplitIsExact
    <3>4. Ruled(escrow, event, signer, "Resolved", a, b, now)
      BY <3>1 DEF Ruled, Resolving
    <3>5. "Resolved" \in Terminal
      BY DEF Terminal
    <3> HIDE DEF a, b
    <3>6. a \in Nat /\ b \in Nat
      BY <3>2, <3>3
    <3> HIDE DEF event
    <3>7. QED
      BY <2>1, <2>2, <3>1, <3>4, <3>5, <3>6, PayingOutBegins
  <2>3. CASE stack # <<>>
    BY <2>1, <2>3, EnterInside
  <2>4. QED
    BY <2>2, <2>3
<1>5. QED
  BY <1>1, <1>2, <1>3, <1>4 DEF Entries

\* A whole call that succeeds within others marks the one it was called from.
LEMMA WholeCallUnderway ==
    ASSUME HostInv, Underway, NEW signer \in Signers, WholeCall(signer)
    PROVE  Underway'
<1>1. stack' = Reentering(stack) /\ now' = now /\ frozen' = frozen
  BY WholeCallChanges DEF WholeCall, ledgerVars
<1>2. stack \in Seq(Frames) /\ Depth = Len(stack) /\ Depth \in Nat
  BY HostTypes DEF HostInv, Depth
<1>3. /\ Len(stack') = Depth /\ Depth' = Depth
      /\ \A i \in 1..Depth :
             /\ stack'[i].undo = stack[i].undo
             /\ i # Depth => stack'[i] = stack[i]
             /\ i = Depth => stack'[i].reentered
  BY <1>1, <1>2, ReenteringKeeps DEF Depth
<1>4. CASE stack = <<>>
  BY <1>1, <1>4 DEF Reentering, Underway
<1>5. CASE stack # <<>>
  <2>1. Depth > 0 /\ 1 \in 1..Depth
    BY <1>2, <1>5, TopIs
  <2>2. CASE Depth = 1
    BY <1>3, <2>1, <2>2 DEF Underway
  <2>3. CASE Depth # 1
    <3>1. 2 \in 1..Depth
      BY <1>2, <2>1, <2>3
    <3>2. stack'[1] = stack[1] /\ Inside' = Inside
      BY <1>3, <2>1, <2>3, <3>1 DEF Inside
    <3>3. QED
      BY <1>1, <1>5, <3>2, UnderwayStays
  <2>4. QED
    BY <2>2, <2>3
<1>6. QED
  BY <1>4, <1>5

LEMMA BumpUnderway ==
    ASSUME HostInv, Underway, BumpTtl
    PROVE  Underway'
<1>1. /\ stack' = stack /\ now' = now /\ frozen' = frozen /\ balance' = balance
      /\ escrow' = escrow /\ flows' = flows /\ events' = events
  BY DEF BumpTtl, vars, ledgerVars, contractVars
<1>2. /\ Inside'.escrow = Inside.escrow /\ Inside'.balance = Inside.balance
      /\ Inside'.flows = Inside.flows /\ Inside'.events = Inside.events
  BY <1>1 DEF Inside, Depth, World
<1>3. QED
  BY <1>1, <1>2, UnderwayStays

-----------------------------------------------------------------------------
(* The innermost call goes on.                                             *)

\* A return marks the call below, a trap restores the world put aside.
LEMMA ReturnUnderway ==
    ASSUME HostInv, Underway, Return
    PROVE  Underway'
<1> DEFINE rest == SubSeq(stack, 1, Depth - 1)
<1>1. /\ stack # <<>> /\ stack' = Reentering(rest) /\ now' = now /\ frozen' = frozen
  BY DEF Return, ledgerVars
<1>2. Depth \in Nat /\ HostTypeOK
  BY HostTypes DEF HostInv
<1>3. /\ rest \in Seq(Frames) /\ Len(rest) = Depth - 1 /\ Depth > 0
      /\ \A i \in 1..(Depth - 1) : rest[i] = stack[i]
  BY <1>1, <1>2, Popped
<1> HIDE DEF rest
<1>4. /\ Len(stack') = Depth - 1 /\ Depth' = Depth - 1
      /\ \A i \in 1..(Depth - 1) :
             /\ stack'[i].undo = stack[i].undo
             /\ i # Depth - 1 => stack'[i] = stack[i]
             /\ i = Depth - 1 => stack'[i].reentered
  <2>1. /\ Reentering(rest) \in Seq(Frames) /\ Len(Reentering(rest)) = Depth - 1
        /\ \A i \in 1..(Depth - 1) :
               /\ Reentering(rest)[i].undo = rest[i].undo
               /\ i # Depth - 1 => Reentering(rest)[i] = rest[i]
               /\ i = Depth - 1 => Reentering(rest)[i].reentered
    BY <1>3, ReenteringKeeps
  <2>2. Len(stack') = Depth - 1 /\ Depth' = Depth - 1
    BY <1>1, <2>1 DEF Depth
  <2>3. QED
    BY <1>1, <1>3, <2>1, <2>2
<1>5. CASE Depth = 1
  <2>1. stack' = <<>>
    BY <1>1, <1>3, <1>4, <1>5, EmptySeq, ReenteringKeeps
  <2>2. QED
    BY <2>1 DEF Underway
<1>6. CASE Depth = 2
  <2>1. stack'[1].reentered
    BY <1>4, <1>6
  <2>2. QED
    BY <2>1 DEF Underway
<1>7. CASE Depth > 2
  <2>1. 1 \in 1..(Depth - 1) /\ 2 \in 1..(Depth - 1) /\ 1 # Depth - 1 /\ Depth' # 1 /\ Depth # 1
    BY <1>2, <1>4, <1>7
  <2>2. stack'[1] = stack[1] /\ Inside' = Inside
    BY <1>4, <2>1 DEF Inside
  <2>3. QED
    BY <1>1, <2>2, UnderwayStays
<1>8. QED
  BY <1>2, <1>3, <1>5, <1>6, <1>7

LEMMA TrapUnderway ==
    ASSUME HostInv, Underway, Trap
    PROVE  Underway'
<1>1. /\ stack # <<>> /\ escrow' = Top.undo.escrow /\ balance' = Top.undo.balance
      /\ flows' = Top.undo.flows /\ events' = Top.undo.events
      /\ stack' = SubSeq(stack, 1, Depth - 1)
      /\ now' = now /\ frozen' = frozen
  BY DEF Trap, Busy
<1>2. Depth \in Nat /\ HostTypeOK /\ Top = stack[Depth]
  BY HostTypes DEF HostInv, Top
<1>3. /\ stack' \in Seq(Frames) /\ Len(stack') = Depth - 1 /\ Depth > 0 /\ Depth' = Depth - 1
      /\ \A i \in 1..(Depth - 1) : stack'[i] = stack[i]
  BY <1>1, <1>2, Popped DEF Depth
<1>4. CASE Depth = 1
  <2>1. stack' = <<>>
    BY <1>3, <1>4, EmptySeq
  <2>2. QED
    BY <2>1 DEF Underway
<1>5. CASE Depth = 2
  <2>1. stack'[1] = stack[1]
    BY <1>3, <1>5
  <2>2. /\ Inside'.escrow = Inside.escrow /\ Inside'.balance = Inside.balance
        /\ Inside'.flows = Inside.flows /\ Inside'.events = Inside.events
    <3>1. Inside = Top.undo
      BY <1>2, <1>5 DEF Inside
    <3>2. Inside' = World'
      BY <1>3, <1>5 DEF Inside
    <3>3. QED
      BY <1>1, <3>1, <3>2 DEF World
  <2>3. QED
    BY <1>1, <2>1, <2>2, UnderwayStays
<1>6. CASE Depth > 2
  <2>1. 1 \in 1..(Depth - 1) /\ 2 \in 1..(Depth - 1) /\ Depth' # 1 /\ Depth # 1
    BY <1>2, <1>3, <1>6
  <2>2. stack'[1] = stack[1] /\ Inside' = Inside
    BY <1>3, <2>1 DEF Inside
  <2>3. QED
    BY <1>1, <2>2, UnderwayStays
<1>7. QED
  BY <1>2, <1>3, <1>4, <1>5, <1>6

-----------------------------------------------------------------------------
(* Payments of the outermost call.                                         *)

\* The payment of `fund`.
LEMMA FundMoves ==
    ASSUME NEW frame \in Frames, NEW after, NEW w, NEW v, NEW t, NEW held,
           frame.undo.escrow \in Agreements, frame.pending # NoFlows,
           FundUnderway(frame.undo, frame, w, t, held),
           after.event = frame.event, after.pending = [frame.pending EXCEPT !.pulled = 0],
           Pays(held, w.balance, w.escrow.depositor, Self, frame.pending.pulled),
           v.escrow = w.escrow,
           v.balance = Transferred(w.balance, w.escrow.depositor, Self, frame.pending.pulled),
           v.flows = [w.flows EXCEPT !.pulled = @ + frame.pending.pulled]
    PROVE  FundUnderway(frame.undo, after, v, t, held)
<1> DEFINE u == frame.undo
           amount == u.escrow.amount
           payer == u.escrow.depositor
<1>1. PICK signer \in Signers, z \in Nat :
          /\ u.escrow.state = "Created"
          /\ signer = payer /\ t < u.escrow.deadline
          /\ frame.event = Story("Funded", payer, signer, 0, Payment(amount, 0, 0))
          /\ z \in {0, amount}
          /\ frame.pending = Payment(amount - z, 0, 0)
          /\ w.escrow = [u.escrow EXCEPT !.state = "Funded"]
          /\ w.balance = Transferred(u.balance, payer, Self, z)
          /\ w.flows = [u.flows EXCEPT !.pulled = @ + z]
  BY DEF FundUnderway
<1>2. amount \in Nat /\ amount > 0 /\ u.balance \in [Holders -> Nat] /\ u.flows \in Flows
  BY FrameTypes DEF Agreements
<1>3. z = 0
  <2>1. z # amount
    BY <1>1, <1>2 DEF Payment, NoFlows
  <2>2. QED
    BY <1>1, <2>1
<1>4. frame.pending = Payment(amount, 0, 0) /\ frame.pending.pulled = amount
  BY <1>1, <1>2, <1>3 DEF Payment
<1>5. w.escrow.depositor = payer
  BY <1>1 DEF Agreements
<1>6. w.balance = u.balance
  BY <1>1, <1>2, <1>3, NothingMoves
<1>7. w.flows = u.flows
  BY <1>1, <1>2, <1>3 DEF Flows
<1>8. after.pending = Payment(amount - amount, 0, 0)
  BY <1>2, <1>4 DEF Payment
<1>9. QED
  <2>1. /\ v.escrow = [u.escrow EXCEPT !.state = "Funded"]
        /\ v.balance = Transferred(u.balance, payer, Self, amount)
        /\ v.flows = [u.flows EXCEPT !.pulled = @ + amount]
        /\ Pays(held, u.balance, payer, Self, amount)
    BY <1>1, <1>4, <1>5, <1>6, <1>7
  <2>2. after.event = Story("Funded", payer, signer, 0, Payment(amount, 0, 0))
    BY <1>1
  <2> HIDE DEF amount, payer
  <2>3. FundUnderway(u, after, v, t, held)
    BY <1>1, <1>2, <1>8, <2>1, <2>2 DEF FundUnderway, amount, payer
  <2>4. QED
    BY <2>3

LEMMA FlowsEqual ==
    ASSUME NEW f \in Flows, NEW g \in Flows, f.pulled = g.pulled,
           f.toBeneficiary = g.toBeneficiary, f.toDepositor = g.toDepositor
    PROVE  f = g
BY DEF Flows

\* What the two payments of a call add to them, one after the other.
LEMMA BothAdded ==
    ASSUME NEW f \in Flows, NEW a \in Nat, NEW b \in Nat
    PROVE  LET g == [f EXCEPT !.toBeneficiary = @ + a, !.toDepositor = @ + b]
           IN  /\ g \in Flows /\ g.pulled = f.pulled
               /\ g.toBeneficiary = f.toBeneficiary + a /\ g.toDepositor = f.toDepositor + b
<1>1. f.toBeneficiary + a \in Nat /\ f.toDepositor + b \in Nat
  BY DEF Flows
<1>2. QED
  BY <1>1 DEF Flows

LEMMA NothingAdded ==
    ASSUME NEW f \in Flows
    PROVE  [f EXCEPT !.toBeneficiary = @ + 0, !.toDepositor = @ + 0] = f
<1> DEFINE g == [f EXCEPT !.toBeneficiary = @ + 0, !.toDepositor = @ + 0]
<1>1. /\ g \in Flows /\ g.pulled = f.pulled
      /\ g.toBeneficiary = f.toBeneficiary + 0 /\ g.toDepositor = f.toDepositor + 0
  BY BothAdded
<1>2. f.toBeneficiary + 0 = f.toBeneficiary /\ f.toDepositor + 0 = f.toDepositor
  BY DEF Flows
<1> HIDE DEF g
<1>3. g = f
  BY <1>1, <1>2, FlowsEqual
<1>4. QED
  BY <1>3 DEF g

LEMMA FirstAdded ==
    ASSUME NEW f \in Flows, NEW a \in Nat
    PROVE  [f EXCEPT !.toBeneficiary = @ + a] =
               [f EXCEPT !.toBeneficiary = @ + a, !.toDepositor = @ + 0]
<1> DEFINE g == [f EXCEPT !.toBeneficiary = @ + a, !.toDepositor = @ + 0]
           h == [f EXCEPT !.toBeneficiary = @ + a]
<1>1. /\ g \in Flows /\ g.pulled = f.pulled
      /\ g.toBeneficiary = f.toBeneficiary + a /\ g.toDepositor = f.toDepositor + 0
  BY BothAdded
<1>2. f.toBeneficiary + a \in Nat /\ f.toDepositor + 0 = f.toDepositor
  BY DEF Flows
<1>3. /\ h \in Flows /\ h.pulled = f.pulled
      /\ h.toBeneficiary = f.toBeneficiary + a /\ h.toDepositor = f.toDepositor
  BY <1>2 DEF Flows
<1> HIDE DEF g, h
<1>4. h = g
  BY <1>1, <1>2, <1>3, FlowsEqual
<1>5. QED
  BY <1>4 DEF g, h

\* The beneficiary's share.
LEMMA FirstShareMoves ==
    ASSUME NEW frame \in Frames, NEW after, NEW w, NEW v, NEW t, NEW held,
           frame.undo.escrow \in Agreements, frame.pending.toBeneficiary > 0,
           PayoutUnderway(frame.undo, frame, w, t, held),
           after.event = frame.event,
           after.pending = [frame.pending EXCEPT !.toBeneficiary = 0],
           Pays(held, w.balance, Self, w.escrow.beneficiary, frame.pending.toBeneficiary),
           v.escrow = w.escrow,
           v.balance = Transferred(w.balance, Self, w.escrow.beneficiary,
                                   frame.pending.toBeneficiary),
           v.flows = [w.flows EXCEPT !.toBeneficiary = @ + frame.pending.toBeneficiary]
    PROVE  PayoutUnderway(frame.undo, after, v, t, held)
<1> DEFINE u == frame.undo
           payee == u.escrow.beneficiary
           other == u.escrow.depositor
<1>1. PICK signer \in Signers, state \in Terminal, a \in Nat, b \in Nat, x \in Nat, y \in Nat :
          PaidSoFar(u, frame, w, t, held, signer, state, a, b, x, y)
  BY DEF PayoutUnderway
<1>2. /\ frame.pending = Payment(0, a - x, b - y) /\ frame.pending.toBeneficiary = a - x
      /\ x \in {0, a} /\ y \in {0, b} /\ w.escrow.beneficiary = payee
      /\ u.balance \in [Holders -> Nat] /\ u.flows \in Flows
  <2>1. /\ frame.pending = Payment(0, a - x, b - y) /\ x \in {0, a} /\ y \in {0, b}
        /\ w.escrow = [u.escrow EXCEPT !.state = state]
    BY <1>1 DEF PaidSoFar
  <2>2. u.balance \in [Holders -> Nat] /\ u.flows \in Flows
    BY FrameTypes
  <2>3. QED
    BY <2>1, <2>2 DEF Payment, Agreements
<1>3. /\ Ruled(u.escrow, frame.event, signer, state, a, b, t) /\ (y > 0 => x = a)
      /\ w.escrow = [u.escrow EXCEPT !.state = state]
      /\ w.balance = Both(u.balance, payee, x, other, y)
      /\ w.flows = [u.flows EXCEPT !.toBeneficiary = @ + x, !.toDepositor = @ + y]
  BY <1>1 DEF PaidSoFar
<1>4. x = 0 /\ y = 0 /\ a > 0 /\ frame.pending.toBeneficiary = a
  <2>1. x # a
    BY <1>2
  <2>2. QED
    BY <1>2, <1>3, <2>1
<1>5. w.balance = u.balance
  BY <1>2, <1>3, <1>4, NothingMoves DEF Both
<1>6. w.flows = u.flows
  BY <1>2, <1>3, <1>4, NothingAdded
<1>7. v.balance = Transferred(u.balance, Self, payee, a) /\ Pays(held, u.balance, Self, payee, a)
  BY <1>2, <1>4, <1>5
<1>8. v.balance = Both(u.balance, payee, a, other, 0)
  <2>1. Transferred(u.balance, Self, payee, a) \in [Holders -> Nat]
    BY <1>2, <1>7, LedgerAssumption DEF Transferred, Pays
  <2>2. QED
    BY <1>7, <2>1, NothingMoves DEF Both
<1>9. v.flows = [u.flows EXCEPT !.toBeneficiary = @ + a, !.toDepositor = @ + 0]
  <2>1. v.flows = [u.flows EXCEPT !.toBeneficiary = @ + a]
    BY <1>4, <1>6
  <2>2. QED
    BY <1>2, <2>1, FirstAdded
<1>10. after.pending = Payment(0, a - a, b - 0)
  BY <1>2, <1>4 DEF Payment
<1>11. PaidSoFar(u, after, v, t, held, signer, state, a, b, a, 0)
  <2>1. a \in {0, a} /\ 0 \in {0, b} /\ ~(0 > 0)
    OBVIOUS
  <2> HIDE DEF payee, other
  <2>2. QED
    BY <1>3, <1>7, <1>8, <1>9, <1>10, <2>1 DEF PaidSoFar, payee, other
<1>12. QED
  BY <1>11 DEF PayoutUnderway

\* The depositor's share, when the beneficiary has its own.
LEMMA SecondShareMoves ==
    ASSUME NEW frame \in Frames, NEW after, NEW w, NEW v, NEW t, NEW held,
           frame.undo.escrow \in Agreements, frame.pending # NoFlows,
           frame.pending.toBeneficiary = 0,
           PayoutUnderway(frame.undo, frame, w, t, held),
           after.event = frame.event,
           after.pending = [frame.pending EXCEPT !.toDepositor = 0],
           Pays(held, w.balance, Self, w.escrow.depositor, frame.pending.toDepositor),
           v.escrow = w.escrow,
           v.balance = Transferred(w.balance, Self, w.escrow.depositor,
                                   frame.pending.toDepositor),
           v.flows = [w.flows EXCEPT !.toDepositor = @ + frame.pending.toDepositor]
    PROVE  PayoutUnderway(frame.undo, after, v, t, held)
<1> DEFINE u == frame.undo
           first == u.escrow.beneficiary
           payee == u.escrow.depositor
<1>1. PICK signer \in Signers, state \in Terminal, a \in Nat, b \in Nat, x \in Nat, y \in Nat :
          PaidSoFar(u, frame, w, t, held, signer, state, a, b, x, y)
  BY DEF PayoutUnderway
<1>2. /\ frame.pending = Payment(0, a - x, b - y) /\ frame.pending.toBeneficiary = a - x
      /\ frame.pending.toDepositor = b - y
      /\ x \in {0, a} /\ y \in {0, b} /\ w.escrow.depositor = payee
      /\ u.balance \in [Holders -> Nat] /\ u.flows \in Flows
  <2>1. /\ frame.pending = Payment(0, a - x, b - y) /\ x \in {0, a} /\ y \in {0, b}
        /\ w.escrow = [u.escrow EXCEPT !.state = state]
    BY <1>1 DEF PaidSoFar
  <2>2. u.balance \in [Holders -> Nat] /\ u.flows \in Flows
    BY FrameTypes
  <2>3. QED
    BY <2>1, <2>2 DEF Payment, Agreements
<1>3. /\ Ruled(u.escrow, frame.event, signer, state, a, b, t)
      /\ x > 0 => Pays(held, u.balance, Self, first, x)
      /\ w.escrow = [u.escrow EXCEPT !.state = state]
      /\ w.balance = Both(u.balance, first, x, payee, y)
      /\ w.flows = [u.flows EXCEPT !.toBeneficiary = @ + x, !.toDepositor = @ + y]
  BY <1>1 DEF PaidSoFar
<1>4. x = a /\ y = 0 /\ b > 0 /\ frame.pending.toDepositor = b
  <2>1. x = a
    BY <1>2
  <2>2. y # b
    BY <1>2, <2>1 DEF Payment, NoFlows
  <2>3. QED
    BY <1>2, <2>1, <2>2
<1> DEFINE left == Transferred(u.balance, Self, first, a)
<1>5. left \in [Holders -> Nat]
  <2>1. CASE a = 0
    BY <1>2, <2>1, NothingMoves
  <2>2. CASE a > 0
    BY <1>2, <1>3, <1>4, <2>2, LedgerAssumption DEF Transferred, Pays
  <2>3. QED
    BY <2>1, <2>2
<1>6. w.balance = left
  <2> HIDE DEF left
  <2>1. w.balance = Transferred(left, Self, payee, 0)
    BY <1>3, <1>4 DEF Both, left
  <2>2. QED
    BY <1>5, <2>1, NothingMoves
<1>7. /\ v.balance = Both(u.balance, first, a, payee, b)
      /\ Pays(held, left, Self, payee, b)
  BY <1>2, <1>4, <1>6 DEF Both
<1>8. v.flows = [u.flows EXCEPT !.toBeneficiary = @ + a, !.toDepositor = @ + b]
  <2> DEFINE f == u.flows
             g == w.flows
             h == [f EXCEPT !.toBeneficiary = @ + a, !.toDepositor = @ + b]
             k == [g EXCEPT !.toDepositor = @ + b]
  <2>1. v.flows = k
    BY <1>4
  <2>2. g = [f EXCEPT !.toBeneficiary = @ + a, !.toDepositor = @ + 0]
    BY <1>3, <1>4
  <2>3. f \in Flows
    BY <1>2
  <2> HIDE DEF f, g
  <2>4. f.toBeneficiary + a \in Nat /\ f.toDepositor + b \in Nat /\ f.toDepositor + 0 \in Nat
    BY <2>3 DEF Flows
  <2>5. /\ g \in Flows /\ g.pulled = f.pulled
        /\ g.toBeneficiary = f.toBeneficiary + a /\ g.toDepositor = f.toDepositor + 0
    BY <2>2, <2>3, <2>4 DEF Flows
  <2>6. /\ h \in Flows /\ h.pulled = f.pulled
        /\ h.toBeneficiary = f.toBeneficiary + a /\ h.toDepositor = f.toDepositor + b
    BY <2>3, <2>4 DEF Flows
  <2> HIDE DEF h
  <2>7. g.toDepositor + b \in Nat /\ g.toDepositor + b = f.toDepositor + b
    BY <2>3, <2>5 DEF Flows
  <2>8. /\ k \in Flows /\ k.pulled = g.pulled
        /\ k.toBeneficiary = g.toBeneficiary /\ k.toDepositor = g.toDepositor + b
    BY <2>5, <2>7 DEF Flows
  <2> HIDE DEF k
  <2>9. k = h
    BY <2>5, <2>6, <2>7, <2>8, FlowsEqual
  <2>10. QED
    BY <2>1, <2>9 DEF f, h
<1>9. after.pending = Payment(0, a - a, b - b)
  BY <1>2, <1>4 DEF Payment
<1>10. PaidSoFar(u, after, v, t, held, signer, state, a, b, a, b)
  <2>1. a \in {0, a} /\ b \in {0, b}
    OBVIOUS
  <2>2. a > 0 => Pays(held, u.balance, Self, first, a)
    BY <1>3, <1>4
  <2> HIDE DEF payee, first
  <2>3. QED
    BY <1>3, <1>7, <1>8, <1>9, <2>1, <2>2 DEF PaidSoFar, payee, first
<1>11. QED
  BY <1>10 DEF PayoutUnderway

\* A payment of the innermost call, which may be the outermost one.
LEMMA MoveUnderway ==
    ASSUME HostInv, Underway, Move
    PROVE  Underway'
<1> DEFINE flow   == Upcoming
           amount == Top.pending[flow]
<1>1. /\ stack # <<>> /\ Top.pending # NoFlows /\ flow \in FlowNames
      /\ TransferReply(balance, Payer(flow), Payee(flow), amount) = "Ok"
      /\ balance' = Transferred(balance, Payer(flow), Payee(flow), amount)
      /\ flows' = [flows EXCEPT ![flow] = @ + amount]
      /\ stack' = [stack EXCEPT ![Depth].pending[flow] = 0]
      /\ escrow' = escrow /\ events' = events /\ now' = now /\ frozen' = frozen
  BY UpcomingIs DEF Move, Busy, Accepted
<1>2. /\ Depth' = Depth
      /\ \A i \in 1..Depth :
             /\ stack'[i].undo = stack[i].undo
             /\ stack'[i].event = stack[i].event
             /\ stack'[i].reentered = stack[i].reentered
             /\ i # Depth => stack'[i] = stack[i]
      /\ stack'[Depth].pending = [Top.pending EXCEPT ![flow] = 0]
  BY <1>1, CrossedOff
<1>3. Depth \in Nat /\ Depth \in 1..Depth /\ 1 \in 1..Depth /\ Top = stack[Depth] /\ Top \in Frames
  BY <1>1, TopIs, HostTypes DEF HostInv
<1>4. CASE Depth # 1
  <2>1. 2 \in 1..Depth
    BY <1>3, <1>4
  <2>2. stack'[1] = stack[1] /\ Inside' = Inside
    BY <1>2, <1>3, <1>4, <2>1 DEF Inside
  <2>3. QED
    BY <1>1, <2>2, UnderwayStays
<1>5. CASE Depth = 1
  <2> SUFFICES ASSUME ~stack'[1].reentered PROVE Begun(stack'[1], Inside', now', frozen')
    BY DEF Underway
  <2> DEFINE after == stack'[1]
  <2>1. /\ after.undo = Top.undo /\ after.event = Top.event
        /\ after.pending = [Top.pending EXCEPT ![flow] = 0]
        /\ Inside = World /\ Inside' = World'
        /\ Begun(Top, World, now, frozen)
    BY <1>1, <1>2, <1>3, <1>5 DEF Inside, Underway
  <2>2. /\ World.escrow = escrow /\ World.balance = balance /\ World.flows = flows
        /\ World'.escrow = World.escrow /\ World'.balance = balance'
        /\ World'.flows = flows' /\ World'.events = World.events
    BY <1>1 DEF World
  <2>3. Pays(frozen, World.balance, Payer(flow), Payee(flow), amount)
    BY <1>1, <2>2 DEF TransferReply, Pays
  <2>4. /\ World'.balance = Transferred(World.balance, Payer(flow), Payee(flow), amount)
        /\ World'.flows = [World.flows EXCEPT ![flow] = @ + amount]
    BY <1>1, <2>2
  <2>5. Top.undo.escrow \in Agreements
    BY <1>3, FrameTypes DEF HostInv, Absent
  <2>6. World.events = Top.undo.events
    BY <2>1 DEF Begun
  <2> HIDE DEF after, flow, amount
  <2>7. CASE FundUnderway(Top.undo, Top, World, now, frozen)
    <3>1. flow = "pulled"
      <4>1. Top.pending.toBeneficiary = 0 /\ Top.pending.toDepositor = 0
        BY <2>7 DEF FundUnderway, Payment
      <4>2. Top.pending.pulled \in Nat
        BY <1>3, FrameTypes
      <4>3. Top.pending.pulled > 0
        <5>1. Top.pending.pulled # 0
          BY <1>1, <1>3, <4>1, FrameTypes DEF Flows, NoFlows
        <5>2. QED
          BY <4>2, <5>1
      <4>4. QED
        BY <4>3 DEF Upcoming, flow
    <3>2. Payer(flow) = World.escrow.depositor /\ Payee(flow) = Self
      BY <2>2, <3>1 DEF Payer, Payee
    <3>3. amount = Top.pending.pulled
      BY <3>1 DEF amount
    <3>4. FundUnderway(Top.undo, after, World', now, frozen)
      <4>1. after.pending = [Top.pending EXCEPT !.pulled = 0]
        BY <2>1, <3>1
      <4>2. Pays(frozen, World.balance, World.escrow.depositor, Self, Top.pending.pulled)
        BY <2>3, <3>2, <3>3
      <4>3. World'.balance =
                Transferred(World.balance, World.escrow.depositor, Self, Top.pending.pulled)
        BY <2>4, <3>2, <3>3
      <4>4. World'.flows = [World.flows EXCEPT !.pulled = @ + Top.pending.pulled]
        BY <2>4, <3>1, <3>3
      <4>5. QED
        BY <1>1, <1>3, <2>1, <2>2, <2>5, <2>7, <4>1, <4>2, <4>3, <4>4, FundMoves
    <3>5. QED
      BY <1>1, <2>1, <2>2, <2>6, <3>4 DEF Begun, after
  <2>8. CASE PayoutUnderway(Top.undo, Top, World, now, frozen)
    <3>1. Top.pending.pulled = 0 /\ Top.pending.toBeneficiary \in Nat
      <4>1. ASSUME NEW signer \in Signers, NEW state \in Terminal,
                   NEW a \in Nat, NEW b \in Nat, NEW x \in Nat, NEW y \in Nat,
                   PaidSoFar(Top.undo, Top, World, now, frozen, signer, state, a, b, x, y)
            PROVE  Top.pending.pulled = 0
        BY <4>1 DEF PaidSoFar, Payment
      <4>2. QED
        BY <1>3, <2>8, <4>1, FrameTypes DEF PayoutUnderway
    <3>2. CASE Top.pending.toBeneficiary > 0
      <4>1. flow = "toBeneficiary" /\ amount = Top.pending.toBeneficiary
        BY <3>1, <3>2 DEF Upcoming, flow, amount
      <4>2. Payer(flow) = Self /\ Payee(flow) = World.escrow.beneficiary
        BY <2>2, <4>1 DEF Payer, Payee
      <4>3. PayoutUnderway(Top.undo, after, World', now, frozen)
        <5>1. after.pending = [Top.pending EXCEPT !.toBeneficiary = 0]
          BY <2>1, <4>1
        <5>2. Pays(frozen, World.balance, Self, World.escrow.beneficiary,
                   Top.pending.toBeneficiary)
          BY <2>3, <4>1, <4>2
        <5>3. World'.balance = Transferred(World.balance, Self, World.escrow.beneficiary,
                                           Top.pending.toBeneficiary)
          BY <2>4, <4>1, <4>2
        <5>4. World'.flows =
                  [World.flows EXCEPT !.toBeneficiary = @ + Top.pending.toBeneficiary]
          BY <2>4, <4>1
        <5>5. QED
          BY <1>3, <2>1, <2>2, <2>5, <2>8, <3>2, <5>1, <5>2, <5>3, <5>4, FirstShareMoves
      <4>4. QED
        BY <1>1, <2>1, <2>2, <2>6, <4>3 DEF Begun, after
    <3>3. CASE ~(Top.pending.toBeneficiary > 0)
      <4>1. flow = "toDepositor" /\ amount = Top.pending.toDepositor
        BY <3>1, <3>3 DEF Upcoming, flow, amount
      <4>2. Payer(flow) = Self /\ Payee(flow) = World.escrow.depositor
        BY <2>2, <4>1 DEF Payer, Payee
      <4>3. PayoutUnderway(Top.undo, after, World', now, frozen)
        <5>1. after.pending = [Top.pending EXCEPT !.toDepositor = 0]
          BY <2>1, <4>1
        <5>2. Pays(frozen, World.balance, Self, World.escrow.depositor,
                   Top.pending.toDepositor)
          BY <2>3, <4>1, <4>2
        <5>3. World'.balance = Transferred(World.balance, Self, World.escrow.depositor,
                                           Top.pending.toDepositor)
          BY <2>4, <4>1, <4>2
        <5>4. World'.flows = [World.flows EXCEPT !.toDepositor = @ + Top.pending.toDepositor]
          BY <2>4, <4>1
        <5>5. Top.pending.toBeneficiary = 0
          BY <3>1, <3>3
        <5>6. QED
          BY <1>1, <1>3, <2>1, <2>2, <2>5, <2>8, <5>1, <5>2, <5>3, <5>4, <5>5, SecondShareMoves
      <4>4. QED
        BY <1>1, <2>1, <2>2, <2>6, <4>3 DEF Begun, after
    <3>4. QED
      BY <3>2, <3>3
  <2>9. QED
    BY <2>1, <2>7, <2>8 DEF Begun
<1>6. QED
  BY <1>4, <1>5

\* Between two transactions nothing is under way.
LEMMA StepUnderway == HostInv /\ Underway /\ [HostNext]_hostVars => Underway'
<1> SUFFICES ASSUME HostInv, Underway, [HostNext]_hostVars PROVE Underway'
  OBVIOUS
<1>1. ASSUME NEW signer \in Signers, Entries(signer) PROVE Underway'
  BY <1>1, EntriesUnderway
<1>2. ASSUME NEW signer \in Signers, WholeCall(signer) PROVE Underway'
  BY <1>2, WholeCallUnderway
<1>3. CASE BumpTtl
  BY <1>3, BumpUnderway
<1>4. CASE Steps
  BY <1>4, MoveUnderway, ReturnUnderway, TrapUnderway DEF Steps
<1>5. CASE LedgerCloses \/ OthersAct \/ RestoreInstance
  <2>1. stack' = <<>>
    BY <1>5 DEF LedgerCloses, OthersAct, RestoreInstance
  <2>2. QED
    BY <2>1 DEF Underway
<1>6. CASE UNCHANGED hostVars
  <2>1. /\ stack' = stack /\ now' = now /\ frozen' = frozen /\ balance' = balance
        /\ escrow' = escrow /\ flows' = flows /\ events' = events
    BY <1>6 DEF hostVars, vars, ledgerVars, contractVars
  <2>2. /\ Inside'.escrow = Inside.escrow /\ Inside'.balance = Inside.balance
        /\ Inside'.flows = Inside.flows /\ Inside'.events = Inside.events
    BY <2>1 DEF Inside, Depth, World
  <2>3. QED
    BY <2>1, <2>2, UnderwayStays
<1>7. QED
  BY <1>1, <1>2, <1>3, <1>4, <1>5, <1>6 DEF HostNext

LEMMA UnderwayInvariance == HostSpec => [](HostInv /\ Underway)
<1>1. HostInit => HostInv /\ Underway
  BY HostInitEstablishes DEF HostInit, Underway
<1>2. (HostInv /\ Underway) /\ [HostNext]_hostVars => (HostInv /\ Underway)'
  BY HostStepKeeps, StepUnderway
<1>3. QED
  BY <1>1, <1>2, PTL DEF HostSpec

-----------------------------------------------------------------------------
(* What is seen from outside.                                              *)

\* Nothing, when neither the world before the outermost call nor the ledger
\* changes.
LEMMA Unseen ==
    ASSUME now' = now, frozen' = frozen, strays' = strays,
           Committed'.escrow = Committed.escrow, Committed'.balance = Committed.balance,
           Committed'.flows = Committed.flows, Committed'.events = Committed.events
    PROVE  UNCHANGED Atomic!vars
BY DEF Atomic!vars, Atomic!ledgerVars, Atomic!contractVars

\* A call that begins, and what happens inside a call.
LEMMA EnterUnseen ==
    ASSUME HostInv, NEW state, NEW payment, NEW event, Enter(state, payment, event)
    PROVE  UNCHANGED Atomic!vars
<1> DEFINE frame == [undo |-> World, pending |-> payment, event |-> event,
                     reentered |-> FALSE]
<1>1. /\ now' = now /\ frozen' = frozen /\ strays' = strays
      /\ stack' # <<>> /\ Depth \in Nat
      /\ stack'[Depth + 1] = frame /\ \A i \in 1..Depth : stack'[i] = stack[i]
  BY EnterShape
<1>2. frame.undo = World
  OBVIOUS
<1> HIDE DEF frame
<1>3. Committed' = Committed
  <2>1. CASE stack = <<>>
    <3>1. Depth + 1 = 1
      BY <2>1 DEF Depth
    <3>2. QED
      BY <1>1, <1>2, <2>1, <3>1 DEF Committed
  <2>2. CASE stack # <<>>
    <3>1. 1 \in 1..Depth
      BY <2>2, TopIs, HostTypes, <1>1
    <3>2. QED
      BY <1>1, <2>2, <3>1 DEF Committed
  <2>3. QED
    BY <2>1, <2>2
<1>4. QED
  BY <1>1, <1>3, Unseen

LEMMA EntriesUnseen ==
    ASSUME HostInv, NEW signer \in Signers, Entries(signer)
    PROVE  UNCHANGED Atomic!vars
<1>1. \E state, payment, event : Enter(state, payment, event)
  BY DEF Entries, EnterFund, EnterRelease, EnterRefund, EnterResolve
<1>2. QED
  BY <1>1, EnterUnseen

\* A step that keeps the world the outermost call has put aside.
LEMMA InnerUnseen ==
    ASSUME stack # <<>>, stack' # <<>>, stack'[1].undo = stack[1].undo,
           now' = now, frozen' = frozen, strays' = strays
    PROVE  UNCHANGED Atomic!vars
<1>1. Committed' = Committed
  BY DEF Committed
<1>2. QED
  BY <1>1, Unseen

\* Without a call under way, the outside sees the variables themselves.
LEMMA OpenlySeen ==
    ASSUME stack = <<>>
    PROVE  /\ Committed.escrow = escrow /\ Committed.balance = balance
           /\ Committed.flows = flows /\ Committed.events = events
BY DEF Committed, World

LEMMA MoveUnseen ==
    ASSUME HostInv, Move
    PROVE  UNCHANGED Atomic!vars
<1>1. /\ stack # <<>> /\ Upcoming \in FlowNames
      /\ stack' = [stack EXCEPT ![Depth].pending[Upcoming] = 0]
      /\ now' = now /\ frozen' = frozen /\ strays' = strays
  BY UpcomingIs DEF Move, Busy
<1>2. stack' # <<>> /\ \A i \in 1..Depth : stack'[i].undo = stack[i].undo
  BY <1>1, CrossedOff
<1>3. 1 \in 1..Depth
  BY <1>1, TopIs, HostTypes DEF HostInv
<1>4. QED
  BY <1>1, <1>2, <1>3, InnerUnseen

LEMMA BumpUnseen ==
    ASSUME BumpTtl
    PROVE  UNCHANGED Atomic!vars
<1>1. /\ stack' = stack /\ now' = now /\ frozen' = frozen /\ balance' = balance
      /\ escrow' = escrow /\ flows' = flows /\ events' = events /\ strays' = strays
  BY DEF BumpTtl, vars, ledgerVars, contractVars
<1>2. /\ Committed'.escrow = Committed.escrow /\ Committed'.balance = Committed.balance
      /\ Committed'.flows = Committed.flows /\ Committed'.events = Committed.events
  BY <1>1 DEF Committed, World
<1>3. QED
  BY <1>1, <1>2, Unseen

LEMMA TrapUnseen ==
    ASSUME HostInv, Trap
    PROVE  UNCHANGED Atomic!vars
<1>1. /\ stack # <<>> /\ escrow' = Top.undo.escrow /\ balance' = Top.undo.balance
      /\ flows' = Top.undo.flows /\ events' = Top.undo.events
      /\ stack' = SubSeq(stack, 1, Depth - 1)
      /\ now' = now /\ frozen' = frozen /\ strays' = strays
  BY DEF Trap, Busy
<1>2. Depth \in Nat /\ HostTypeOK /\ Top = stack[Depth]
  BY HostTypes DEF HostInv, Top
<1>3. /\ stack' \in Seq(Frames) /\ Len(stack') = Depth - 1 /\ Depth > 0
      /\ \A i \in 1..(Depth - 1) : stack'[i] = stack[i]
  BY <1>1, <1>2, Popped
<1>4. CASE Depth = 1
  <2>1. stack' = <<>> /\ Committed = Top.undo
    BY <1>1, <1>2, <1>3, <1>4, EmptySeq DEF Committed
  <2>2. /\ Committed'.escrow = escrow' /\ Committed'.balance = balance'
        /\ Committed'.flows = flows' /\ Committed'.events = events'
    BY <2>1 DEF Committed, World
  <2>3. QED
    BY <1>1, <2>1, <2>2, Unseen
<1>5. CASE Depth # 1
  <2>1. 1 \in 1..(Depth - 1) /\ stack' # <<>>
    BY <1>2, <1>3, <1>5, EmptySeq
  <2>2. QED
    BY <1>1, <1>3, <2>1, InnerUnseen
<1>6. QED
  BY <1>4, <1>5

\* A call that returns within another one.
LEMMA ReturnUnseen ==
    ASSUME HostInv, Return, Depth # 1
    PROVE  UNCHANGED Atomic!vars
<1> DEFINE rest == SubSeq(stack, 1, Depth - 1)
<1>1. /\ stack # <<>> /\ stack' = Reentering(rest)
      /\ now' = now /\ frozen' = frozen /\ strays' = strays
  BY DEF Return, ledgerVars
<1>2. Depth \in Nat /\ HostTypeOK
  BY HostTypes DEF HostInv
<1>3. /\ rest \in Seq(Frames) /\ Len(rest) = Depth - 1 /\ Depth > 0
      /\ \A i \in 1..(Depth - 1) : rest[i] = stack[i]
  BY <1>1, <1>2, Popped
<1> HIDE DEF rest
<1>4. 1 \in 1..(Depth - 1)
  BY <1>2, <1>3
<1>5. Len(stack') = Depth - 1 /\ stack'[1].undo = rest[1].undo /\ stack' \in Seq(Frames)
  BY <1>1, <1>3, <1>4, ReenteringKeeps
<1>6. stack' # <<>>
  BY <1>2, <1>4, <1>5, EmptySeq
<1>7. QED
  BY <1>1, <1>3, <1>4, <1>5, <1>6, InnerUnseen

-----------------------------------------------------------------------------
(* Steps of Escrow: calls that move no token.                              *)

LEMMA WholeCallSeen ==
    ASSUME HostInv, NEW signer \in Signers, WholeCall(signer)
    PROVE  Atomic!Next \/ UNCHANGED Atomic!vars
<1>1. /\ stack' = Reentering(stack)
      /\ now' = now /\ frozen' = frozen /\ strays' = strays /\ balance' = balance
      /\ flows' = flows
  BY WholeCallChanges DEF WholeCall, ledgerVars
<1>2. CASE stack # <<>>
  <2>1. stack \in Seq(Frames) /\ 1 \in 1..Len(stack) /\ Depth = Len(stack)
    BY <1>2, TopIs, HostTypes DEF HostInv, Depth
  <2>2. Len(stack') = Len(stack) /\ stack'[1].undo = stack[1].undo /\ stack' \in Seq(Frames)
    BY <1>1, <2>1, ReenteringKeeps
  <2>3. stack' # <<>>
    BY <2>1, <2>2, EmptySeq
  <2>4. QED
    BY <1>1, <1>2, <2>2, <2>3, InnerUnseen
<1>3. CASE stack = <<>>
  <2>1. stack' = <<>>
    BY <1>1, <1>3 DEF Reentering
  <2>2. /\ Committed.escrow = escrow /\ Committed.balance = balance
        /\ Committed.flows = flows /\ Committed.events = events
    BY <1>3, OpenlySeen
  <2>3. /\ Committed'.escrow = escrow' /\ Committed'.balance = balance'
        /\ Committed'.flows = flows' /\ Committed'.events = events'
    BY <2>1 DEF Committed, World
  <2>4. UNCHANGED <<Atomic!ledgerVars, Committed.flows>>
    BY <1>1, <2>2, <2>3 DEF Atomic!ledgerVars
  <2>5. ASSUME NEW kind, NEW by, NEW split, NEW x, NEW y, Emit(kind, by, signer, split, x, y)
        PROVE  Atomic!Emit(kind, by, signer, split, x, y)
    BY <2>2, <2>3, <2>5 DEF Emit, Atomic!Emit
  <2>6. CASE Initializes(signer)
    <3>1. PICK depositor \in Holders, beneficiary \in Holders,
               arbiter \in Holders \cup {NoArbiter}, amount \in Amounts,
               deadline \in 0..U64Max :
              Initialize(signer, depositor, beneficiary, arbiter, amount, deadline)
      BY <2>6 DEF Initializes
    <3>2. Atomic!InitReply(signer, depositor, beneficiary, arbiter, amount, deadline) = "Ok"
      BY <2>2, <3>1 DEF Initialize, InitReply, RequireAuth, Require, ??,
                        Atomic!InitReply, Atomic!RequireAuth, Atomic!Require, Atomic!??
    <3>3. Atomic!Initialize(signer, depositor, beneficiary, arbiter, amount, deadline)
      BY <2>2, <2>3, <2>4, <2>5, <3>1, <3>2 DEF Initialize, Atomic!Initialize
    <3>4. Committed.escrow.state = "Absent"
      BY <2>2, <2>6 DEF Initializes
    <3>5. QED
      BY <3>3, <3>4 DEF Atomic!Next, Atomic!Calls, Atomic!Initializes
  <2>7. CASE Cancel(signer)
    <3>1. Atomic!CancelReply(signer) = "Ok"
      BY <2>2, <2>7 DEF Cancel, CancelReply, Load, RequireAuth, Require, ??,
                        Atomic!CancelReply, Atomic!Load, Atomic!RequireAuth,
                        Atomic!Require, Atomic!??
    <3>2. Atomic!Cancel(signer)
      BY <2>2, <2>3, <2>4, <2>5, <2>7, <3>1 DEF Cancel, Atomic!Cancel
    <3>3. QED
      BY <3>2 DEF Atomic!Next, Atomic!Calls
  <2>8. ASSUME NEW caller \in Holders, Dispute(signer, caller) PROVE Atomic!Next
    <3>1. Atomic!DisputeReply(signer, caller) = "Ok"
      BY <2>2, <2>8
         DEF Dispute, DisputeReply, Load, RequireFunded, RequireAuthEither, RequireAuth,
             Require, ??, Terminal, Atomic!DisputeReply, Atomic!Load, Atomic!RequireFunded,
             Atomic!RequireAuthEither, Atomic!RequireAuth, Atomic!Require, Atomic!??,
             Atomic!Terminal
    <3>2. Atomic!Dispute(signer, caller)
      BY <2>2, <2>3, <2>4, <2>5, <2>8, <3>1 DEF Dispute, Atomic!Dispute
    <3>3. QED
      BY <3>2 DEF Atomic!Next, Atomic!Calls
  <2>9. QED
    BY <2>6, <2>7, <2>8 DEF WholeCall
<1>4. QED
  BY <1>2, <1>3

-----------------------------------------------------------------------------
(* Steps of Escrow: an outermost call that has made all its payments.      *)

\* What the outside sees when the outermost call returns.
LEMMA ReturnShows ==
    ASSUME HostInv, Return, Depth = 1
    PROVE  LET frame == stack[1]
           IN  /\ stack # <<>> /\ frame \in Frames /\ frame.pending = NoFlows
               /\ Inside = World /\ Committed = frame.undo
               /\ Committed.escrow \in Agreements /\ Committed.balance \in [Holders -> Nat]
               /\ Committed'.escrow = World.escrow /\ Committed'.balance = World.balance
               /\ Committed'.flows = World.flows
               /\ Committed'.events = Append(World.events, frame.event)
               /\ now' = now /\ frozen' = frozen /\ strays' = strays
<1> DEFINE rest == SubSeq(stack, 1, Depth - 1)
<1>1. /\ stack # <<>> /\ Top.pending = NoFlows /\ events' = Append(events, Top.event)
      /\ stack' = Reentering(rest) /\ escrow' = escrow /\ balance' = balance
      /\ flows' = flows /\ now' = now /\ frozen' = frozen /\ strays' = strays
  BY DEF Return, ledgerVars
<1>2. rest \in Seq(Frames) /\ Len(rest) = 0
  BY <1>1, Popped DEF HostInv
<1>3. stack' = <<>>
  <2> HIDE DEF rest
  <2>1. rest = <<>>
    BY <1>2, EmptySeq
  <2>2. QED
    BY <1>1, <2>1 DEF Reentering
<1>4. 1 \in 1..Depth /\ Top = stack[1] /\ stack[1] \in Frames
  BY <1>1, TopIs, HostTypes DEF HostInv
<1>5. stack[1].undo.escrow \in Agreements /\ stack[1].undo.balance \in [Holders -> Nat]
  BY <1>4, FrameTypes DEF HostInv, Absent
<1>6. Committed = stack[1].undo
  BY <1>1 DEF Committed
<1>7. /\ Committed'.escrow = escrow' /\ Committed'.balance = balance'
      /\ Committed'.flows = flows' /\ Committed'.events = events'
  BY <1>3 DEF Committed, World
<1>8. /\ World.escrow = escrow /\ World.balance = balance
      /\ World.flows = flows /\ World.events = events
  BY DEF World
<1>9. Inside = World
  BY DEF Inside
<1>10. QED
  BY <1>1, <1>4, <1>5, <1>6, <1>7, <1>8, <1>9

\* `fund` has pulled the amount.
LEMMA FundSeen ==
    ASSUME HostInv, Return, Depth = 1,
           FundUnderway(stack[1].undo, stack[1], World, now, frozen),
           World.events = stack[1].undo.events
    PROVE  Atomic!Next
<1> DEFINE e == Committed.escrow
           frame == stack[1]
<1>1. /\ frame.pending = NoFlows /\ Committed = frame.undo /\ e \in Agreements
      /\ Committed'.escrow = World.escrow /\ Committed'.balance = World.balance
      /\ Committed'.flows = World.flows
      /\ Committed'.events = Append(World.events, frame.event)
      /\ now' = now /\ frozen' = frozen /\ strays' = strays
  BY ReturnShows
<1>2. FundUnderway(Committed, frame, World, now, frozen) /\ World.events = Committed.events
  BY <1>1
<1>3. PICK signer \in Signers, z \in Nat :
          /\ e.state = "Created"
          /\ signer = e.depositor /\ now < e.deadline
          /\ frame.event = Story("Funded", e.depositor, signer, 0, Payment(e.amount, 0, 0))
          /\ z \in {0, e.amount}
          /\ frame.pending = Payment(e.amount - z, 0, 0)
          /\ z > 0 => Pays(frozen, Committed.balance, e.depositor, Self, z)
          /\ World.escrow = [e EXCEPT !.state = "Funded"]
          /\ World.balance = Transferred(Committed.balance, e.depositor, Self, z)
          /\ World.flows = [Committed.flows EXCEPT !.pulled = @ + z]
  BY <1>2 DEF FundUnderway
<1>4. e.amount \in Nat /\ e.amount > 0
  BY <1>1 DEF Agreements
<1>5. z = e.amount
  <2>1. e.amount - z = 0
    BY <1>1, <1>3 DEF Payment, NoFlows
  <2>2. QED
    BY <1>3, <1>4, <2>1
<1>6. Pays(frozen, Committed.balance, e.depositor, Self, e.amount)
  BY <1>3, <1>4, <1>5
<1>7. Atomic!FundReply(signer) = "Ok"
  BY <1>3, <1>6 DEF Atomic!FundReply, Atomic!Load, Atomic!Require, Atomic!RequireAuth,
                    Atomic!TransferReply, Atomic!??, Atomic!Terminal, Pays
<1>8. Atomic!Emit("Funded", e.depositor, signer, 0, 0, 0)
  BY <1>1, <1>2, <1>3 DEF Atomic!Emit, Story, Payment
<1>9. Atomic!Transferred(Committed.balance, e.depositor, Self, e.amount) =
          Transferred(Committed.balance, e.depositor, Self, e.amount)
  BY DEF Atomic!Transferred, Transferred
<1>10. Atomic!Fund(signer)
  BY <1>1, <1>3, <1>5, <1>7, <1>8, <1>9 DEF Atomic!Fund
<1>11. QED
  BY <1>10 DEF Atomic!Next, Atomic!Calls

\* What has been paid was accepted in one go.
LEMMA BothAccepted ==
    ASSUME NEW bal \in [Holders -> Nat], NEW first \in Holders, NEW second \in Holders,
           NEW a \in Nat, NEW b \in Nat, Committed.balance = bal,
           a > 0 => Pays(frozen, bal, Self, first, a),
           b > 0 => Pays(frozen, Transferred(bal, Self, first, a), Self, second, b)
    PROVE  /\ Atomic!PayBothReply(first, a, second, b) = "Ok"
           /\ Atomic!PaidBoth(first, a, second, b) = Both(bal, first, a, second, b)
           /\ a > 0 => Atomic!PayReply(first, a) = "Ok"
           /\ a = 0 /\ b > 0 => Atomic!PayReply(second, b) = "Ok"
<1>1. Atomic!Transferred(bal, Self, first, a) = Transferred(bal, Self, first, a)
  BY DEF Atomic!Transferred, Transferred
<1>2. ASSUME NEW x, NEW from, NEW to, NEW amount, Pays(frozen, x, from, to, amount)
      PROVE  Atomic!TransferReply(x, from, to, amount) = "Ok"
  BY <1>2 DEF Pays, Atomic!TransferReply
<1>3. Atomic!PayBothReply(first, a, second, b) = "Ok"
  BY <1>1, <1>2 DEF Atomic!PayBothReply
<1>4. Atomic!PaidBoth(first, a, second, b) = Both(bal, first, a, second, b)
  BY <1>1 DEF Atomic!PaidBoth, Both, Atomic!Transferred, Transferred
<1>5. a > 0 => Atomic!PayReply(first, a) = "Ok"
  BY <1>2 DEF Atomic!PayReply
<1>6. a = 0 /\ b > 0 => Atomic!PayReply(second, b) = "Ok"
  BY <1>2, NothingMoves DEF Atomic!PayReply
<1>7. QED
  BY <1>3, <1>4, <1>5, <1>6

\* `release`, `refund` and `resolve` have made their payments.
LEMMA PayoutSeen ==
    ASSUME HostInv, Return, Depth = 1,
           PayoutUnderway(stack[1].undo, stack[1], World, now, frozen),
           World.events = stack[1].undo.events
    PROVE  Atomic!Next
<1> DEFINE e == Committed.escrow
           frame == stack[1]
<1>1. /\ frame.pending = NoFlows /\ Committed = frame.undo /\ e \in Agreements
      /\ Committed.balance \in [Holders -> Nat]
      /\ Committed'.escrow = World.escrow /\ Committed'.balance = World.balance
      /\ Committed'.flows = World.flows
      /\ Committed'.events = Append(World.events, frame.event)
      /\ now' = now /\ frozen' = frozen /\ strays' = strays
  BY ReturnShows
<1>2. PayoutUnderway(Committed, frame, World, now, frozen) /\ World.events = Committed.events
  BY <1>1
<1>3. PICK signer \in Signers, state \in Terminal, a \in Nat, b \in Nat, x \in Nat, y \in Nat :
          PaidSoFar(Committed, frame, World, now, frozen, signer, state, a, b, x, y)
  BY <1>2 DEF PayoutUnderway
<1>4. /\ Ruled(e, frame.event, signer, state, a, b, now)
      /\ x \in {0, a} /\ y \in {0, b}
      /\ frame.pending = Payment(0, a - x, b - y)
      /\ x > 0 => Pays(frozen, Committed.balance, Self, e.beneficiary, x)
      /\ y > 0 => Pays(frozen, Transferred(Committed.balance, Self, e.beneficiary, x),
                       Self, e.depositor, y)
      /\ World.escrow = [e EXCEPT !.state = state]
      /\ World.balance = Both(Committed.balance, e.beneficiary, x, e.depositor, y)
      /\ World.flows = [Committed.flows EXCEPT !.toBeneficiary = @ + x, !.toDepositor = @ + y]
  BY <1>3 DEF PaidSoFar
<1>5. x = a /\ y = b
  <2>1. a - x = 0 /\ b - y = 0
    BY <1>1, <1>4 DEF Payment, NoFlows
  <2>2. QED
    BY <2>1
<1>6. /\ e.amount \in Nat /\ e.amount > 0 /\ e.depositor \in Holders
      /\ e.beneficiary \in Holders
  <2>1. e \in Agreements /\ Signers \subseteq Holders
    BY <1>1, LedgerAssumption
  <2> HIDE DEF e
  <2>2. e.amount \in 1..I128Max /\ e.depositor \in Signers /\ e.beneficiary \in Holders
    BY <2>1 DEF Agreements
  <2>3. QED
    BY <2>1, <2>2
<1>7. /\ Atomic!PayBothReply(e.beneficiary, a, e.depositor, b) = "Ok"
      /\ Atomic!PaidBoth(e.beneficiary, a, e.depositor, b) =
             Both(Committed.balance, e.beneficiary, a, e.depositor, b)
      /\ a > 0 => Atomic!PayReply(e.beneficiary, a) = "Ok"
      /\ a = 0 /\ b > 0 => Atomic!PayReply(e.depositor, b) = "Ok"
  BY <1>1, <1>4, <1>5, <1>6, BothAccepted
<1>8. Atomic!Settle(state, a, b)
  BY <1>1, <1>4, <1>5, <1>7 DEF Atomic!Settle
<1>9. ASSUME NEW kind, NEW by, NEW split,
             frame.event = Story(kind, by, signer, split, Payment(0, a, b))
      PROVE  Atomic!Emit(kind, by, signer, split, a, b)
  BY <1>1, <1>2, <1>9 DEF Atomic!Emit, Story, Payment
<1> HIDE DEF e, frame
<1>10. CASE Releasing(e, frame.event, signer, state, a, b)
  <2>1. PICK caller \in Holders :
            /\ state = "Released" /\ a = e.amount /\ b = 0
            /\ frame.event = Story("Released", caller, signer, 0, Payment(0, e.amount, 0))
            /\ e.state = "Funded"
            /\ signer = caller /\ caller \in {e.depositor, e.arbiter}
    BY <1>10 DEF Releasing
  <2>2. Atomic!ReleaseReply(signer, caller) = "Ok"
    <3>1. Atomic!PayReply(e.beneficiary, e.amount) = "Ok"
      BY <1>6, <1>7, <2>1
    <3>2. QED
      BY <2>1, <3>1
         DEF e, Atomic!ReleaseReply, Atomic!Load, Atomic!Require, Atomic!RequireFunded,
             Atomic!RequireAuthEither, Atomic!RequireAuth, Atomic!??, Atomic!Terminal
  <2>3. Atomic!Emit("Released", caller, signer, 0, e.amount, 0)
    BY <1>9, <2>1
  <2>4. Atomic!Release(signer, caller)
    BY <1>1, <1>8, <2>1, <2>2, <2>3 DEF e, Atomic!Release
  <2>5. QED
    BY <2>4 DEF Atomic!Next, Atomic!Calls
<1>11. CASE Refunding(e, frame.event, signer, state, a, b, now)
  <2>1. PICK caller \in Holders :
            /\ state = "Refunded" /\ a = 0 /\ b = e.amount
            /\ frame.event = Story("Refunded", caller, signer, 0, Payment(0, 0, e.amount))
            /\ \/ e.state = "Disputed" /\ now >= Timeout(e)
               \/ /\ e.state = "Funded" /\ signer = caller
                  /\ \/ caller = e.arbiter
                     \/ caller = e.depositor /\ now >= e.deadline
    BY <1>11 DEF Refunding
  <2>2. Atomic!PayReply(e.depositor, e.amount) = "Ok"
    BY <1>6, <1>7, <2>1
  <2>3. Atomic!RefundReply(signer, caller) = "Ok"
    <3>1. CASE e.state = "Disputed"
      <4>1. now >= Timeout(e)
        BY <2>1, <3>1
      <4>2. Timeout(e) = Atomic!DisputeTimeout
        BY DEF e, Timeout, Atomic!DisputeTimeout
      <4>3. Atomic!RecoverReply(signer, caller) = "Ok"
        BY <2>2, <4>1, <4>2 DEF e, Atomic!RecoverReply
      <4>4. QED
        BY <3>1, <4>3 DEF e, Atomic!RefundReply, Atomic!Load, Atomic!Require, Atomic!??
    <3>2. CASE e.state # "Disputed"
      <4>1. /\ e.state = "Funded" /\ signer = caller /\ caller \in {e.depositor, e.arbiter}
            /\ caller = e.arbiter \/ now >= e.deadline
        BY <2>1, <3>2
      <4>2. QED
        BY <2>2, <4>1
           DEF e, Atomic!RefundReply, Atomic!Load, Atomic!Require, Atomic!RequireFunded,
               Atomic!RequireAuthEither, Atomic!RequireAuth, Atomic!??, Atomic!Terminal
    <3>3. QED
      BY <3>1, <3>2
  <2>4. Atomic!Emit("Refunded", caller, signer, 0, 0, e.amount)
    BY <1>9, <2>1
  <2>5. Atomic!Refund(signer, caller)
    BY <1>1, <1>8, <2>1, <2>3, <2>4 DEF e, Atomic!Refund
  <2>6. QED
    BY <2>5 DEF Atomic!Next, Atomic!Calls
<1>12. CASE Resolving(e, frame.event, signer, state, a, b)
  <2>1. PICK bps \in 0..(BpsDenominator + 1) :
            /\ state = "Resolved"
            /\ a = SplitBps(e.amount, bps).first /\ b = SplitBps(e.amount, bps).second
            /\ frame.event = Story("Resolved", e.arbiter, signer, bps, Payment(0, a, b))
            /\ e.state = "Disputed" /\ signer = e.arbiter /\ e.arbiter # NoArbiter
            /\ SplitBps(e.amount, bps).err = "Ok"
    BY <1>12 DEF Resolving
  <2>2. Atomic!SplitBps(e.amount, bps) = SplitBps(e.amount, bps)
    BY DEF Atomic!SplitBps, SplitBps, Atomic!MulBps, MulBps, Atomic!MulDiv, MulDiv,
           Atomic!Div, Div, Atomic!Mul, Mul, Atomic!Sub, Sub, Atomic!Checked, Checked,
           Atomic!Truncated, Truncated, Atomic!Ok, Ok, Atomic!Err, Err, Atomic!??, ??,
           Atomic!I128, I128
  <2>3. Atomic!ResolveReply(signer, bps) = "Ok"
    BY <1>7, <2>1, <2>2
       DEF e, Atomic!ResolveReply, Atomic!Load, Atomic!Require, Atomic!RequireAuth, Atomic!??
  <2>4. Atomic!Emit("Resolved", e.arbiter, signer, bps, a, b)
    BY <1>9, <2>1
  <2>5. Atomic!Resolve(signer, bps)
    BY <1>1, <1>8, <2>1, <2>2, <2>3, <2>4 DEF e, Atomic!Resolve
  <2>6. QED
    BY <2>5 DEF Atomic!Next, Atomic!Calls
<1>13. QED
  BY <1>4, <1>10, <1>11, <1>12 DEF Ruled, e, frame

-----------------------------------------------------------------------------
(* Between two transactions, and the theorem.                              *)

LEMMA LedgerSeen ==
    ASSUME LedgerCloses \/ OthersAct \/ RestoreInstance
    PROVE  Atomic!Next \/ UNCHANGED Atomic!vars
<1>1. /\ stack = <<>> /\ stack' = <<>>
      /\ escrow' = escrow /\ flows' = flows /\ events' = events
      /\ CloseLedger \/ SetFrozen \/ Stray \/ UNCHANGED ledgerVars
  BY DEF LedgerCloses, OthersAct, RestoreInstance, contractVars, vars
<1>2. /\ Committed.escrow = escrow /\ Committed.balance = balance
      /\ Committed.flows = flows /\ Committed.events = events
      /\ Committed'.escrow = escrow' /\ Committed'.balance = balance'
      /\ Committed'.flows = flows' /\ Committed'.events = events'
  BY <1>1 DEF Committed, World
<1>3. UNCHANGED Atomic!contractVars
  BY <1>1, <1>2 DEF Atomic!contractVars
<1>4. CASE UNCHANGED ledgerVars
  BY <1>2, <1>3, <1>4 DEF ledgerVars, Atomic!vars, Atomic!ledgerVars
<1>5. CASE CloseLedger
  <2>1. Atomic!CloseLedger
    BY <1>2, <1>5 DEF CloseLedger, Atomic!CloseLedger
  <2>2. QED
    BY <1>3, <2>1 DEF Atomic!Next, Atomic!LedgerNext
<1>6. CASE SetFrozen
  <2>1. Atomic!SetFrozen
    BY <1>2, <1>6 DEF SetFrozen, Atomic!SetFrozen
  <2>2. QED
    BY <1>3, <2>1 DEF Atomic!Next, Atomic!LedgerNext
<1>7. CASE Stray
  <2>1. Atomic!Stray
    BY <1>2, <1>7 DEF Stray, Atomic!Stray, TransferReply, Atomic!TransferReply,
                      Transferred, Atomic!Transferred
  <2>2. QED
    BY <1>3, <2>1 DEF Atomic!Next, Atomic!LedgerNext
<1>8. QED
  BY <1>1, <1>4, <1>5, <1>6, <1>7

LEMMA StepsSeen ==
    HostInv /\ Underway /\ [HostNext]_hostVars => [Atomic!Next \/ Reentered]_(Atomic!vars)
<1> SUFFICES ASSUME HostInv, Underway, [HostNext]_hostVars
             PROVE  Atomic!Next \/ Reentered \/ UNCHANGED Atomic!vars
  OBVIOUS
<1>1. ASSUME NEW signer \in Signers, Entries(signer) PROVE UNCHANGED Atomic!vars
  BY <1>1, EntriesUnseen
<1>2. ASSUME NEW signer \in Signers, WholeCall(signer)
      PROVE  Atomic!Next \/ UNCHANGED Atomic!vars
  BY <1>2, WholeCallSeen
<1>3. CASE BumpTtl
  BY <1>3, BumpUnseen
<1>4. CASE Move
  BY <1>4, MoveUnseen
<1>5. CASE Trap
  BY <1>5, TrapUnseen
<1>6. CASE Return
  <2>1. CASE Depth # 1
    BY <1>6, <2>1, ReturnUnseen
  <2>2. CASE Depth = 1
    <3>1. stack # <<>> /\ Inside = World
      BY <1>6, <2>2, ReturnShows
    <3>2. CASE stack[1].reentered
      BY <3>1, <3>2 DEF Reentered
    <3>3. CASE ~stack[1].reentered
      <4>1. Begun(stack[1], World, now, frozen)
        BY <3>1, <3>3 DEF Underway
      <4>2. QED
        BY <1>6, <2>2, <4>1, FundSeen, PayoutSeen DEF Begun
    <3>4. QED
      BY <3>2, <3>3
  <2>3. QED
    BY <2>1, <2>2
<1>7. CASE LedgerCloses \/ OthersAct \/ RestoreInstance
  BY <1>7, LedgerSeen
<1>8. CASE UNCHANGED hostVars
  <2>1. /\ stack' = stack /\ now' = now /\ frozen' = frozen /\ strays' = strays
        /\ balance' = balance /\ escrow' = escrow /\ flows' = flows /\ events' = events
    BY <1>8 DEF hostVars, vars, ledgerVars, contractVars
  <2>2. /\ Committed'.escrow = Committed.escrow /\ Committed'.balance = Committed.balance
        /\ Committed'.flows = Committed.flows /\ Committed'.events = Committed.events
    BY <2>1 DEF Committed, World
  <2>3. QED
    BY <2>1, <2>2, Unseen
<1>9. QED
  BY <1>1, <1>2, <1>3, <1>4, <1>5, <1>6, <1>7, <1>8 DEF HostNext, Steps

\* Seen from outside, whatever happens while a call is under way, every step is
\* one of Escrow: a call does all it does at once, when it returns, or nothing,
\* when the token refuses one of its payments; the exception is the return of a
\* call in which the token has made another one succeed.
THEOREM CallsAreAtomic == HostSpec => ActsAtomically
<1>1. HostInv /\ Underway /\ [HostNext]_hostVars => [Atomic!Next \/ Reentered]_(Atomic!vars)
  BY StepsSeen
<1>2. HostSpec => [](HostInv /\ Underway)
  BY UnderwayInvariance
<1>3. QED
  BY <1>1, <1>2, PTL DEF HostSpec, ActsAtomically

=============================================================================
