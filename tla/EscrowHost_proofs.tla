------------------------- MODULE EscrowHost_proofs -------------------------
(***************************************************************************)
(* The escrow as the host runs it, for any depth of calls within calls:    *)
(* its types, that its record is settled whenever the token is called, and *)
(* that an instance called often enough stays live.  What makes these      *)
(* inductive is that they hold of the worlds the host has put aside too,   *)
(* and that what is due is what the frames on the stack have pending.      *)
(***************************************************************************)
EXTENDS EscrowHost, Escrow_proofs, SequenceTheorems

\* Record, own balance, payments made and payments due that fit each other.
Sound(e, own, f, d, s) ==
    LET pulled == f.pulled + d.pulled
        out    == f.toBeneficiary + d.toBeneficiary
        back   == f.toDepositor + d.toDepositor
        kept   == own + d.pulled - d.toBeneficiary - d.toDepositor - s
    IN  \/ /\ e.state \in {"Absent", "Created", "Refunded"}
           /\ pulled = 0 /\ out = 0 /\ back = 0 /\ kept = 0
        \/ /\ e.state \in {"Funded", "Disputed"}
           /\ pulled = e.amount /\ out = 0 /\ back = 0 /\ kept = e.amount
        \/ /\ e.state \in Terminal
           /\ pulled = e.amount /\ out + back = e.amount
           /\ e.state = "Released" => back = 0
           /\ e.state = "Refunded" => out = 0
           /\ kept = (IF e.beneficiary = Self THEN f.toBeneficiary ELSE 0)

SoundWorld(w, s) == Sound(w.escrow, w.balance[Self], w.flows, w.due, s)

\* A world some call has tended `idle` ledgers ago.
Tended(t, i) == i <= Threshold => t >= Threshold - i

\* What was due before frame `i` began, and what is while only it is under way.
Waiting(i) == IF i = Depth THEN due ELSE stack[i + 1].undo.due

Chain ==
    /\ stack = <<>> => due = NoFlows
    /\ stack # <<>> => stack[1].undo.due = NoFlows
    /\ \A i \in 1..Depth :
           /\ Waiting(i).pulled = stack[i].undo.due.pulled + stack[i].pending.pulled
           /\ Waiting(i).toBeneficiary =
                  stack[i].undo.due.toBeneficiary + stack[i].pending.toBeneficiary
           /\ Waiting(i).toDepositor =
                  stack[i].undo.due.toDepositor + stack[i].pending.toDepositor

\* The inductive invariant.
HostInv ==
    /\ HostTypeOK
    /\ Sound(escrow, balance[Self], flows, due, strays)
    /\ Tended(ttl, idle)
    /\ stack # <<>> => escrow.state # "Absent"
    /\ \A i \in 1..Depth :
           /\ SoundWorld(stack[i].undo, strays)
           /\ Tended(stack[i].undo.ttl, stack[i].undo.idle)
           /\ stack[i].undo.escrow.state # "Absent"
    /\ Chain

-----------------------------------------------------------------------------
(* Types.                                                                  *)

\* The types of the host's own variables.
LEMMA HostTypes ==
    ASSUME HostTypeOK
    PROVE  /\ TypeOK
           /\ flows \in Flows /\ due \in Flows
           /\ flows.pulled \in Nat /\ flows.toBeneficiary \in Nat
           /\ flows.toDepositor \in Nat
           /\ due.pulled \in Nat /\ due.toBeneficiary \in Nat /\ due.toDepositor \in Nat
           /\ balance \in [Holders -> Nat] /\ Self \in Holders /\ balance[Self] \in Nat
           /\ strays \in Nat
           /\ ttl \in Int /\ idle \in Nat
           /\ Threshold \in Nat /\ Bump \in Nat /\ Threshold <= Bump /\ MinTtl \in Nat
           /\ MaxDepth \in Nat
           /\ stack \in Seq(Frames) /\ Depth \in Nat /\ Depth <= MaxDepth
           /\ \A i \in 1..Depth : stack[i] \in Frames
<1>1. TypeOK /\ StorageTypeOK /\ stack \in Seq(Frames) /\ Depth <= MaxDepth /\ due \in Flows
  BY DEF HostTypeOK
<1>2. flows \in Flows /\ balance \in [Holders -> Nat] /\ strays \in Nat /\ Self \in Holders
  BY <1>1, LedgerTypes DEF TypeOK
<1>3. ttl \in Int /\ idle \in Nat
  BY <1>1, StorageAssumption DEF StorageTypeOK
<1>4. Depth \in Nat /\ \A i \in 1..Depth : stack[i] \in Frames
  BY <1>1 DEF Depth
<1>5. /\ flows.pulled \in Nat /\ flows.toBeneficiary \in Nat /\ flows.toDepositor \in Nat
      /\ due.pulled \in Nat /\ due.toBeneficiary \in Nat /\ due.toDepositor \in Nat
  BY <1>1, <1>2 DEF Flows
<1>6. QED
  BY <1>1, <1>2, <1>3, <1>4, <1>5, StorageAssumption, HostAssumption

\* Those that are numbers.
LEMMA HostNumbers ==
    ASSUME HostTypeOK
    PROVE  /\ flows.pulled \in Nat /\ flows.toBeneficiary \in Nat
           /\ flows.toDepositor \in Nat
           /\ due.pulled \in Nat /\ due.toBeneficiary \in Nat /\ due.toDepositor \in Nat
           /\ balance[Self] \in Nat /\ strays \in Nat
           /\ Depth \in Nat /\ MaxDepth \in Nat /\ Depth <= MaxDepth
BY HostTypes

\* The types of a frame and of the world it put aside.
LEMMA FrameTypes ==
    ASSUME NEW frame \in Frames
    PROVE  /\ frame.undo \in Worlds /\ frame.pending \in Flows /\ frame.event \in Events
           /\ frame.reentered \in BOOLEAN
           /\ frame.pending.pulled \in Nat /\ frame.pending.toBeneficiary \in Nat
           /\ frame.pending.toDepositor \in Nat
           /\ frame.undo.escrow \in {Absent} \cup Agreements
           /\ frame.undo.balance \in [Holders -> Nat]
           /\ frame.undo.flows \in Flows /\ frame.undo.due \in Flows
           /\ frame.undo.events \in Seq(Events)
           /\ frame.undo.ttl \in Nat /\ frame.undo.idle \in 0..(Threshold + 1)
           /\ frame.undo.due.pulled \in Nat /\ frame.undo.due.toBeneficiary \in Nat
           /\ frame.undo.due.toDepositor \in Nat
BY DEF Frames, Worlds, Flows

\* The world a call puts aside.
LEMMA WorldTypes ==
    ASSUME HostTypeOK, ~Archived
    PROVE  World \in Worlds
BY StorageAssumption
   DEF HostTypeOK, TypeOK, LedgerTypeOK, StorageTypeOK, Archived, World, Worlds

\* An extended time-to-live covers the threshold.
LEMMA ExtendedCovers ==
    ASSUME HostTypeOK, ~Archived
    PROVE  Extended(ttl) \in Nat /\ Extended(ttl) >= Threshold
BY StorageAssumption, HostTypes DEF HostTypeOK, StorageTypeOK, Archived, Extended

LEMMA HostInitEstablishes == HostInit => HostInv
<1> SUFFICES ASSUME HostInit PROVE HostInv
  OBVIOUS
<1>1. IInv
  BY InitEstablishes DEF HostInit
<1>2. TypeOK /\ escrow.state = "Absent" /\ flows = NoFlows /\ strays = 0 /\ balance[Self] = 0
  BY <1>1, LedgerAssumption DEF IInv, HostInit, Init, LedgerInit, Absent
<1>3. StorageTypeOK /\ Tended(ttl, idle)
  BY StorageAssumption DEF HostInit, StorageInit, StorageTypeOK, Tended
<1>4. stack \in Seq(Frames) /\ Depth = 0
  BY DEF HostInit, Depth
<1>5. due = NoFlows /\ NoFlows \in Flows
  BY DEF HostInit, NoFlows, Flows
<1>6. HostTypeOK
  BY <1>2, <1>3, <1>4, <1>5, HostAssumption DEF HostTypeOK
<1>7. Sound(escrow, balance[Self], flows, due, strays)
  BY <1>2, <1>5 DEF Sound, NoFlows
<1>8. Chain
  BY <1>4, <1>5 DEF HostInit, Chain
<1>9. QED
  BY <1>3, <1>4, <1>6, <1>7, <1>8 DEF HostInv, HostInit

-----------------------------------------------------------------------------
(* The stack.                                                              *)

LEMMA Pushed ==
    ASSUME HostTypeOK, NEW frame \in Frames, stack' = Append(stack, frame)
    PROVE  /\ stack' \in Seq(Frames) /\ stack' # <<>> /\ Depth' = Depth + 1
           /\ stack'[Depth + 1] = frame
           /\ \A i \in 1..Depth : stack'[i] = stack[i]
<1>1. stack \in Seq(Frames) /\ Depth = Len(stack)
  BY HostTypes DEF Depth
<1>2. /\ stack' \in Seq(Frames) /\ Len(stack') = Len(stack) + 1
      /\ stack'[Len(stack) + 1] = frame
      /\ \A i \in 1..Len(stack) : stack'[i] = stack[i]
  BY <1>1
<1>3. stack' # <<>>
  BY <1>1, <1>2
<1>4. QED
  BY <1>1, <1>2, <1>3 DEF Depth

LEMMA Popped ==
    ASSUME HostTypeOK, stack # <<>>
    PROVE  LET rest == SubSeq(stack, 1, Depth - 1)
           IN  /\ rest \in Seq(Frames) /\ Len(rest) = Depth - 1 /\ Depth > 0
               /\ \A i \in 1..(Depth - 1) : rest[i] = stack[i]
<1>1. stack \in Seq(Frames) /\ Depth = Len(stack) /\ Depth \in Nat
  BY HostTypes DEF Depth
<1>2. Depth > 0
  BY <1>1, EmptySeq
<1>3. \A i \in 1..(Depth - 1) : stack[i] \in Frames
  BY <1>1, HostTypes
<1>4. QED
  BY <1>1, <1>2, <1>3, SubSeqProperties

\* That a frame was re-entered changes nothing else of it.
LEMMA ReenteringKeeps ==
    ASSUME NEW frames \in Seq(Frames)
    PROVE  /\ Reentering(frames) \in Seq(Frames)
           /\ Len(Reentering(frames)) = Len(frames)
           /\ \A i \in 1..Len(frames) :
                  /\ Reentering(frames)[i].undo = frames[i].undo
                  /\ Reentering(frames)[i].pending = frames[i].pending
                  /\ Reentering(frames)[i].event = frames[i].event
                  /\ i # Len(frames) => Reentering(frames)[i] = frames[i]
                  /\ i = Len(frames) => Reentering(frames)[i].reentered
<1>1. CASE frames = <<>>
  BY <1>1 DEF Reentering
<1>2. CASE frames # <<>>
  <2> DEFINE last  == frames[Len(frames)]
             entry == [last EXCEPT !.reentered = TRUE]
  <2>1. Len(frames) \in 1..Len(frames)
    BY <1>2, EmptySeq, LenProperties
  <2>2. last \in Frames
    BY <2>1, ElementOfSeq
  <2>3. /\ entry \in Frames /\ entry.undo = last.undo /\ entry.pending = last.pending
        /\ entry.event = last.event /\ entry.reentered
    BY <2>2 DEF Frames
  <2>4. Reentering(frames) = [frames EXCEPT ![Len(frames)] = entry]
    BY <1>2 DEF Reentering
  <2> HIDE DEF entry
  <2>5. /\ Reentering(frames) \in Seq(Frames) /\ Len(Reentering(frames)) = Len(frames)
        /\ \A i \in 1..Len(frames) :
               Reentering(frames)[i] = IF i = Len(frames) THEN entry ELSE frames[i]
    BY <2>1, <2>3, <2>4, ExceptSeq
  <2>6. QED
    BY <2>3, <2>5
<1>3. QED
  BY <1>1, <1>2

\* A call that ends, well or not, leaves what was due before it began.
LEMMA EndKeeps ==
    ASSUME HostInv, stack # <<>>, due' = Top.undo.due, strays' = strays,
           stack' \in Seq(Frames), Depth' = Depth - 1,
           \A i \in 1..(Depth - 1) :
               stack'[i].undo = stack[i].undo /\ stack'[i].pending = stack[i].pending
    PROVE  /\ Chain' /\ Depth' <= MaxDepth /\ due' \in Flows
           /\ \A i \in 1..Depth' :
                  /\ SoundWorld(stack'[i].undo, strays')
                  /\ Tended(stack'[i].undo.ttl, stack'[i].undo.idle)
                  /\ stack'[i].undo.escrow.state # "Absent"
<1>1. HostTypeOK /\ Chain
  BY DEF HostInv
<1>2. /\ Depth \in Nat /\ Depth > 0 /\ MaxDepth \in Nat /\ Depth <= MaxDepth
      /\ Depth \in 1..Depth
  <2>1. Depth > 0 /\ Depth \in Nat /\ MaxDepth \in Nat /\ Depth <= MaxDepth
    BY <1>1, Popped, HostNumbers
  <2>2. QED
    BY <2>1
<1>3. due' \in Flows
  BY <1>1, <1>2, HostTypes, FrameTypes DEF Top
<1>4. ASSUME NEW i \in 1..Depth'
      PROVE  /\ stack'[i].undo = stack[i].undo /\ stack'[i].pending = stack[i].pending
             /\ i \in 1..Depth /\ i + 1 \in 1..Depth /\ i # Depth
             /\ i # Depth' => i + 1 \in 1..(Depth - 1)
             /\ i = Depth' => i + 1 = Depth
  BY <1>2
<1>5. ASSUME NEW i \in 1..Depth' PROVE Waiting(i)' = Waiting(i)
  BY <1>4 DEF Waiting, Top
<1>6. ASSUME NEW i \in 1..Depth'
      PROVE  /\ SoundWorld(stack'[i].undo, strays')
             /\ Tended(stack'[i].undo.ttl, stack'[i].undo.idle)
             /\ stack'[i].undo.escrow.state # "Absent"
  BY <1>4 DEF HostInv
<1>7. Chain'
  <2>1. stack' = <<>> => due' = NoFlows
    <3>1. stack' = <<>> => Depth' = 0
      BY DEF Depth
    <3>2. Depth' = 0 => Depth = 1
      BY <1>2
    <3>3. QED
      BY <1>1, <3>1, <3>2 DEF Chain, Top
  <2>2. stack' # <<>> => stack'[1].undo.due = NoFlows
    <3>1. stack' # <<>> => 1 \in 1..(Depth - 1)
      BY <1>2, EmptySeq DEF Depth
    <3>2. QED
      BY <1>1, <3>1 DEF Chain
  <2>3. QED
    BY <1>1, <1>4, <1>5, <2>1, <2>2 DEF Chain
<1>8. QED
  BY <1>2, <1>3, <1>6, <1>7

-----------------------------------------------------------------------------
(* Calls begin.                                                            *)

\* A call puts a sound world aside and adds its payments to what is due.
LEMMA EnterKeeps ==
    ASSUME HostInv, escrow.state # "Absent",
           NEW state \in States, NEW payment \in Flows, NEW event \in Events,
           Enter(state, payment, event),
           Sound([escrow EXCEPT !.state = state], balance[Self], flows, due', strays)
    PROVE  HostInv'
<1> DEFINE frame == [undo |-> World, pending |-> payment, event |-> event,
                     reentered |-> FALSE]
<1>1. /\ Depth < MaxDepth /\ ~Archived /\ escrow' = [escrow EXCEPT !.state = state]
      /\ ttl' = Extended(ttl) /\ idle' = 0
      /\ due' = Payment(due.pulled + payment.pulled,
                        due.toBeneficiary + payment.toBeneficiary,
                        due.toDepositor + payment.toDepositor)
      /\ stack' = Append(stack, frame)
      /\ now' = now /\ balance' = balance /\ frozen' = frozen /\ strays' = strays
      /\ flows' = flows /\ events' = events
  BY DEF Enter, Callable, Save, Tend, ledgerVars
<1>2. HostTypeOK /\ Chain /\ TypeOK
  BY DEF HostInv, HostTypeOK
<1>3. escrow \in Agreements /\ escrow' \in Agreements /\ escrow'.state = state
      /\ state # "Absent"
  BY <1>1, <1>2, Types DEF Agreements, States, Terminal
<1>4. frame \in Frames
  BY <1>1, <1>2, WorldTypes DEF Frames
<1>5. /\ frame.undo.escrow = escrow /\ frame.undo.balance = balance
      /\ frame.undo.flows = flows /\ frame.undo.due = due /\ frame.pending = payment
      /\ frame.undo.ttl = ttl /\ frame.undo.idle = idle
  BY DEF World
<1> HIDE DEF frame
<1>6. /\ stack' \in Seq(Frames) /\ stack' # <<>> /\ Depth' = Depth + 1
      /\ stack'[Depth + 1] = frame /\ \A i \in 1..Depth : stack'[i] = stack[i]
  BY <1>1, <1>2, <1>4, Pushed
<1>7. Depth \in Nat /\ MaxDepth \in Nat
  BY <1>2, HostNumbers
<1>8. payment.pulled \in Nat /\ payment.toBeneficiary \in Nat /\ payment.toDepositor \in Nat
  BY DEF Flows
<1>9. due' \in Flows
  <2>1. /\ due.pulled + payment.pulled \in Nat
        /\ due.toBeneficiary + payment.toBeneficiary \in Nat
        /\ due.toDepositor + payment.toDepositor \in Nat
    BY <1>2, <1>8, HostNumbers
  <2>2. QED
    BY <1>1, <2>1 DEF Payment, Flows
<1>10. HostTypeOK'
  <2>1. TypeOK'
    BY <1>1, <1>2, <1>3 DEF TypeOK, LedgerTypeOK
  <2>2. StorageTypeOK'
    BY <1>1, <1>2, ExtendedCovers, StorageAssumption DEF StorageTypeOK
  <2>3. QED
    BY <1>1, <1>6, <1>7, <1>9, <2>1, <2>2 DEF HostTypeOK
<1>11. Sound(escrow', balance'[Self], flows', due', strays')
  BY <1>1 DEF HostInv
<1>12. Tended(ttl', idle')
  BY <1>1, <1>2, ExtendedCovers, StorageAssumption DEF Tended
<1>13. \A i \in 1..Depth' :
           /\ SoundWorld(stack'[i].undo, strays')
           /\ Tended(stack'[i].undo.ttl, stack'[i].undo.idle)
           /\ stack'[i].undo.escrow.state # "Absent"
  <2>1. SoundWorld(frame.undo, strays) /\ Tended(frame.undo.ttl, frame.undo.idle)
        /\ frame.undo.escrow.state # "Absent"
    BY <1>5 DEF HostInv, SoundWorld
  <2>2. \A i \in 1..Depth' : i \in 1..Depth \/ i = Depth + 1
    BY <1>6, <1>7
  <2>3. QED
    BY <1>1, <1>6, <2>1, <2>2 DEF HostInv
<1>14. Chain'
  <2>1. stack'[1].undo.due = NoFlows
    <3>1. CASE Depth = 0
      <4>1. stack = <<>>
        BY <1>2, <3>1, HostTypes, EmptySeq DEF Depth
      <4>2. QED
        BY <1>2, <1>5, <1>6, <3>1, <4>1 DEF Chain
    <3>2. CASE Depth # 0
      <4>1. stack # <<>> /\ 1 \in 1..Depth
        BY <1>7, <3>2 DEF Depth
      <4>2. QED
        BY <1>2, <1>6, <4>1 DEF Chain
    <3>3. QED
      BY <3>1, <3>2
  <2>2. \A i \in 1..Depth : Waiting(i)' = Waiting(i)
    <3>1. ASSUME NEW i \in 1..Depth PROVE i # Depth' /\ (i # Depth => i + 1 \in 1..Depth)
      BY <1>6, <1>7
    <3>2. QED
      BY <1>5, <1>6, <3>1 DEF Waiting
  <2>3. ASSUME NEW i, i = Depth + 1 PROVE Waiting(i)' = due'
    BY <1>6, <2>3 DEF Waiting
  <2>4. /\ due'.pulled = due.pulled + payment.pulled
        /\ due'.toBeneficiary = due.toBeneficiary + payment.toBeneficiary
        /\ due'.toDepositor = due.toDepositor + payment.toDepositor
    BY <1>1 DEF Payment
  <2>5. \A i \in 1..Depth' : i \in 1..Depth \/ i = Depth + 1
    BY <1>6, <1>7
  <2>6. ASSUME NEW i \in 1..Depth
        PROVE  /\ Waiting(i)'.pulled = stack'[i].undo.due.pulled + stack'[i].pending.pulled
               /\ Waiting(i)'.toBeneficiary =
                      stack'[i].undo.due.toBeneficiary + stack'[i].pending.toBeneficiary
               /\ Waiting(i)'.toDepositor =
                      stack'[i].undo.due.toDepositor + stack'[i].pending.toDepositor
    BY <1>2, <1>6, <2>2 DEF Chain
  <2>7. ASSUME NEW i, i = Depth + 1
        PROVE  /\ Waiting(i)'.pulled = stack'[i].undo.due.pulled + stack'[i].pending.pulled
               /\ Waiting(i)'.toBeneficiary =
                      stack'[i].undo.due.toBeneficiary + stack'[i].pending.toBeneficiary
               /\ Waiting(i)'.toDepositor =
                      stack'[i].undo.due.toDepositor + stack'[i].pending.toDepositor
    BY <1>5, <1>6, <2>3, <2>4, <2>7
  <2>8. QED
    BY <1>6, <2>1, <2>5, <2>6, <2>7 DEF Chain
<1>15. QED
  BY <1>3, <1>6, <1>10, <1>11, <1>12, <1>13, <1>14 DEF HostInv

LEMMA FundChecked ==
    ASSUME NEW signer, Checks!FundReply(signer) = "Ok"
    PROVE  escrow.state = "Created" /\ signer = escrow.depositor /\ now < escrow.deadline
BY DEF Checks!FundReply, Checks!Load, Checks!Require, Checks!RequireAuth, Checks!??

LEMMA ReleaseChecked ==
    ASSUME NEW signer, NEW caller, Checks!ReleaseReply(signer, caller) = "Ok"
    PROVE  /\ escrow.state = "Funded"
           /\ signer = caller /\ caller \in {escrow.depositor, escrow.arbiter}
BY DEF Checks!ReleaseReply, Checks!Load, Checks!RequireFunded, Checks!RequireAuthEither,
       Checks!RequireAuth, Checks!Require, Checks!??

LEMMA RefundChecked ==
    ASSUME NEW signer, NEW caller, Checks!RefundReply(signer, caller) = "Ok"
    PROVE  \/ escrow.state = "Disputed" /\ now >= DisputeTimeout
           \/ /\ escrow.state = "Funded" /\ signer = caller
              /\ \/ caller = escrow.arbiter
                 \/ caller = escrow.depositor /\ now >= escrow.deadline
<1>1. CASE escrow.state = "Disputed"
  <2>1. Checks!RecoverReply(signer, caller) = "Ok"
    BY <1>1 DEF Checks!RefundReply, Checks!Load, Checks!Require, Checks!??
  <2>2. now >= DisputeTimeout
    BY <2>1 DEF Checks!RecoverReply, Checks!??, Checks!DisputeTimeout, DisputeTimeout
  <2>3. QED
    BY <1>1, <2>2
<1>2. CASE escrow.state # "Disputed"
  BY <1>2 DEF Checks!RefundReply, Checks!Load, Checks!RequireFunded,
              Checks!RequireAuthEither, Checks!RequireAuth, Checks!Require, Checks!??
<1>3. QED
  BY <1>1, <1>2

LEMMA ResolveChecked ==
    ASSUME NEW signer, NEW bps, Checks!ResolveReply(signer, bps) = "Ok"
    PROVE  /\ escrow.state = "Disputed" /\ signer = escrow.arbiter
           /\ escrow.arbiter # NoArbiter
           /\ SplitBps(escrow.amount, bps).err = "Ok"
<1>1. Checks!SplitBps(escrow.amount, bps) = SplitBps(escrow.amount, bps)
  BY DEF Checks!SplitBps, SplitBps, Checks!MulBps, MulBps, Checks!MulDiv, MulDiv,
         Checks!Div, Div, Checks!Mul, Mul, Checks!Sub, Sub, Checks!Checked, Checked,
         Checks!Truncated, Truncated, Checks!Ok, Ok, Checks!Err, Err, Checks!??, ??,
         Checks!I128, I128
<1>2. QED
  BY <1>1 DEF Checks!ResolveReply, Checks!Load, Checks!RequireAuth, Checks!Require, Checks!??

\* What is due and sound, as numbers.
LEMMA SoundNumbers ==
    ASSUME HostInv, escrow.state # "Absent"
    PROVE  /\ HostTypeOK /\ TypeOK /\ escrow \in Agreements
           /\ Sound(escrow, balance[Self], flows, due, strays)
           /\ flows.pulled \in Nat /\ flows.toBeneficiary \in Nat
           /\ flows.toDepositor \in Nat
           /\ due.pulled \in Nat /\ due.toBeneficiary \in Nat /\ due.toDepositor \in Nat
           /\ balance[Self] \in Nat /\ strays \in Nat
           /\ escrow.amount \in Nat /\ escrow.amount > 0 /\ escrow.amount <= I128Max
           /\ I128Max \in Nat /\ BpsDenominator \in Nat
           /\ escrow.depositor \in Signers /\ escrow.depositor \in Holders
           /\ escrow.beneficiary \in Holders /\ escrow.arbiter \in Holders \cup {NoArbiter}
<1>1. HostTypeOK /\ TypeOK /\ Sound(escrow, balance[Self], flows, due, strays)
  BY DEF HostInv, HostTypeOK
<1>2. BpsDenominator \in Nat
  BY BpsAssumption, I128MaxAssumption
<1>3. QED
  BY <1>1, <1>2, HostNumbers, Types

\* What a call is to do adds up with the state it stores.
LEMMA PaymentIsSound ==
    ASSUME HostInv, escrow.state # "Absent", NEW state \in States,
           NEW payment \in Flows, NEW event \in Events, Enter(state, payment, event),
           \/ /\ escrow.state = "Created" /\ state = "Funded"
              /\ payment.pulled = escrow.amount
              /\ payment.toBeneficiary = 0 /\ payment.toDepositor = 0
           \/ /\ escrow.state \in {"Funded", "Disputed"}
              /\ state \in Terminal /\ payment.pulled = 0
              /\ payment.toBeneficiary + payment.toDepositor = escrow.amount
              /\ state = "Released" => payment.toDepositor = 0
              /\ state = "Refunded" => payment.toBeneficiary = 0
    PROVE  HostInv'
<1> DEFINE e == [escrow EXCEPT !.state = state]
<1>1. /\ due'.pulled = due.pulled + payment.pulled
      /\ due'.toBeneficiary = due.toBeneficiary + payment.toBeneficiary
      /\ due'.toDepositor = due.toDepositor + payment.toDepositor
  BY DEF Enter, Payment
<1>2. /\ e.state = state /\ e.amount = escrow.amount
      /\ e.beneficiary = escrow.beneficiary
  BY SoundNumbers DEF Agreements
<1>3. payment.pulled \in Nat /\ payment.toBeneficiary \in Nat /\ payment.toDepositor \in Nat
  BY DEF Flows
<1>4. /\ flows.pulled \in Nat /\ flows.toBeneficiary \in Nat /\ flows.toDepositor \in Nat
      /\ due.pulled \in Nat /\ due.toBeneficiary \in Nat /\ due.toDepositor \in Nat
      /\ balance[Self] \in Nat /\ strays \in Nat
      /\ escrow.amount \in Nat /\ escrow.amount > 0
      /\ Sound(escrow, balance[Self], flows, due, strays)
  BY SoundNumbers
<1> HIDE DEF e
<1>5. Sound(e, balance[Self], flows, due', strays)
  <2>1. CASE escrow.state = "Created"
    <3>1. /\ flows.pulled + due.pulled = 0 /\ flows.toBeneficiary + due.toBeneficiary = 0
          /\ flows.toDepositor + due.toDepositor = 0
          /\ balance[Self] + due.pulled - due.toBeneficiary - due.toDepositor - strays = 0
      BY <1>4, <2>1 DEF Sound, Terminal
    <3>2. /\ payment.pulled = escrow.amount /\ payment.toBeneficiary = 0
          /\ payment.toDepositor = 0 /\ state = "Funded"
      BY <2>1
    <3>3. /\ flows.pulled = 0 /\ flows.toBeneficiary = 0 /\ flows.toDepositor = 0
          /\ due.pulled = 0 /\ due.toBeneficiary = 0 /\ due.toDepositor = 0
          /\ balance[Self] = strays
      <4>1. flows.pulled = 0 /\ due.pulled = 0
        BY <1>4, <3>1
      <4>2. flows.toBeneficiary = 0 /\ due.toBeneficiary = 0
        BY <1>4, <3>1
      <4>3. flows.toDepositor = 0 /\ due.toDepositor = 0
        BY <1>4, <3>1
      <4>4. balance[Self] = strays
        BY <1>4, <3>1, <4>1, <4>2, <4>3
      <4>5. QED
        BY <4>1, <4>2, <4>3, <4>4
    <3>4. due'.pulled = e.amount /\ due'.toBeneficiary = 0 /\ due'.toDepositor = 0
      BY <1>1, <1>2, <1>4, <3>2, <3>3
    <3>5. /\ flows.pulled + due'.pulled = e.amount
          /\ flows.toBeneficiary + due'.toBeneficiary = 0
          /\ flows.toDepositor + due'.toDepositor = 0
          /\ balance[Self] + due'.pulled - due'.toBeneficiary - due'.toDepositor - strays
                 = e.amount
      BY <1>2, <1>4, <3>3, <3>4
    <3>6. e.state = "Funded"
      BY <1>2, <3>2
    <3>7. QED
      BY <3>5, <3>6 DEF Sound
  <2>2. CASE escrow.state \in {"Funded", "Disputed"}
    <3>1. /\ flows.pulled + due.pulled = escrow.amount
          /\ flows.toBeneficiary + due.toBeneficiary = 0
          /\ flows.toDepositor + due.toDepositor = 0
          /\ balance[Self] + due.pulled - due.toBeneficiary - due.toDepositor - strays
                 = escrow.amount
      BY <1>4, <2>2 DEF Sound, Terminal
    <3>2. flows.toBeneficiary = 0 /\ flows.toDepositor = 0
      BY <1>4, <3>1
    <3>3. /\ payment.pulled = 0 /\ state \in Terminal
          /\ payment.toBeneficiary + payment.toDepositor = escrow.amount
          /\ state = "Released" => payment.toDepositor = 0
          /\ state = "Refunded" => payment.toBeneficiary = 0
      BY <2>2
    <3>4. /\ flows.pulled + due'.pulled = e.amount
          /\ (flows.toBeneficiary + due'.toBeneficiary)
                 + (flows.toDepositor + due'.toDepositor) = e.amount
          /\ flows.toBeneficiary + due'.toBeneficiary = payment.toBeneficiary
          /\ flows.toDepositor + due'.toDepositor = payment.toDepositor
          /\ balance[Self] + due'.pulled - due'.toBeneficiary - due'.toDepositor - strays = 0
      BY <1>1, <1>2, <1>3, <1>4, <3>1, <3>2, <3>3
    <3>5. e.state = state
      BY <1>2
    <3>6. QED
      BY <3>2, <3>3, <3>4, <3>5 DEF Sound
  <2>3. QED
    BY <2>1, <2>2
<1>6. QED
  BY <1>5, EnterKeeps DEF e

LEMMA EntriesKeep ==
    ASSUME HostInv, NEW signer \in Signers, Entries(signer)
    PROVE  HostInv'
<1>1. ASSUME NEW kind \in EventKinds, NEW by \in Holders, NEW split \in 0..BpsDenominator,
             NEW payment \in Flows,
             payment.toBeneficiary <= I128Max, payment.toDepositor <= I128Max
      PROVE  Story(kind, by, signer, split, payment) \in Events
  <2>1. payment.toBeneficiary \in Nat /\ payment.toDepositor \in Nat /\ I128Max \in Nat
    BY I128MaxAssumption DEF Flows
  <2>2. payment.toBeneficiary \in 0..I128Max /\ payment.toDepositor \in 0..I128Max
    BY <1>1, <2>1
  <2>3. QED
    BY <2>2 DEF Story, Events
<1>2. ASSUME NEW x \in Nat, NEW y \in Nat, NEW z \in Nat
      PROVE  /\ Payment(x, y, z) \in Flows /\ Payment(x, y, z).pulled = x
             /\ Payment(x, y, z).toBeneficiary = y /\ Payment(x, y, z).toDepositor = z
  BY DEF Payment, Flows
<1>3. /\ {"Funded", "Released", "Refunded", "Resolved"} \subseteq States \cap EventKinds
      /\ Terminal = {"Released", "Refunded", "Resolved"}
  BY DEF States, Terminal, EventKinds
<1>4. 0 \in 0..BpsDenominator /\ 0 \in Nat
  BY BpsAssumption, I128MaxAssumption
<1>5. CASE EnterFund(signer)
  <2> DEFINE payment == Payment(escrow.amount, 0, 0)
             event   == Story("Funded", escrow.depositor, signer, 0, payment)
  <2>1. /\ Checks!FundReply(signer) = "Ok" /\ Enter("Funded", payment, event)
    BY <1>5 DEF EnterFund
  <2>2. escrow.state = "Created"
    BY <2>1, FundChecked
  <2>3. escrow.amount \in Nat /\ escrow.depositor \in Holders /\ I128Max \in Nat
    BY <2>2, SoundNumbers
  <2>4. /\ payment \in Flows /\ payment.pulled = escrow.amount
        /\ payment.toBeneficiary = 0 /\ payment.toDepositor = 0
    BY <1>2, <1>4, <2>3
  <2> HIDE DEF payment
  <2>5. event \in Events
    BY <1>1, <1>3, <1>4, <2>3, <2>4
  <2> HIDE DEF event
  <2>6. QED
    BY <1>3, <2>1, <2>2, <2>4, <2>5, PaymentIsSound
<1>6. ASSUME NEW caller \in Holders, EnterRelease(signer, caller) PROVE HostInv'
  <2> DEFINE payment == Payment(0, escrow.amount, 0)
             event   == Story("Released", caller, signer, 0, payment)
  <2>1. /\ Checks!ReleaseReply(signer, caller) = "Ok" /\ Enter("Released", payment, event)
    BY <1>6 DEF EnterRelease
  <2>2. escrow.state = "Funded"
    BY <2>1, ReleaseChecked
  <2>3. escrow.amount \in Nat /\ escrow.amount <= I128Max /\ I128Max \in Nat
    BY <2>2, SoundNumbers
  <2>4. /\ payment \in Flows /\ payment.pulled = 0
        /\ payment.toBeneficiary = escrow.amount /\ payment.toDepositor = 0
    BY <1>2, <1>4, <2>3
  <2> HIDE DEF payment
  <2>5. event \in Events
    BY <1>1, <1>3, <1>4, <2>3, <2>4
  <2> HIDE DEF event
  <2>6. payment.toBeneficiary + payment.toDepositor = escrow.amount
    BY <2>3, <2>4
  <2>7. QED
    BY <1>3, <2>1, <2>2, <2>4, <2>5, <2>6, PaymentIsSound
<1>7. ASSUME NEW caller \in Holders, EnterRefund(signer, caller) PROVE HostInv'
  <2> DEFINE payment == Payment(0, 0, escrow.amount)
             event   == Story("Refunded", caller, signer, 0, payment)
  <2>1. /\ Checks!RefundReply(signer, caller) = "Ok" /\ Enter("Refunded", payment, event)
    BY <1>7 DEF EnterRefund
  <2>2. escrow.state \in {"Funded", "Disputed"}
    BY <2>1, RefundChecked
  <2>3. escrow.amount \in Nat /\ escrow.amount <= I128Max /\ I128Max \in Nat
    BY <2>2, SoundNumbers
  <2>4. /\ payment \in Flows /\ payment.pulled = 0
        /\ payment.toBeneficiary = 0 /\ payment.toDepositor = escrow.amount
    BY <1>2, <1>4, <2>3
  <2> HIDE DEF payment
  <2>5. event \in Events
    BY <1>1, <1>3, <1>4, <2>3, <2>4
  <2> HIDE DEF event
  <2>6. payment.toBeneficiary + payment.toDepositor = escrow.amount
    BY <2>3, <2>4
  <2>7. QED
    BY <1>3, <2>1, <2>2, <2>4, <2>5, <2>6, PaymentIsSound
<1>8. ASSUME NEW bps \in 0..(BpsDenominator + 1), EnterResolve(signer, bps) PROVE HostInv'
  <2> DEFINE x       == SplitBps(escrow.amount, bps).first
             y       == SplitBps(escrow.amount, bps).second
             payment == Payment(0, x, y)
             event   == Story("Resolved", escrow.arbiter, signer, bps, payment)
  <2>1. /\ Checks!ResolveReply(signer, bps) = "Ok" /\ Enter("Resolved", payment, event)
    BY <1>8 DEF EnterResolve
  <2>2. /\ escrow.state = "Disputed" /\ escrow.arbiter # NoArbiter
        /\ SplitBps(escrow.amount, bps).err = "Ok"
    BY <2>1, ResolveChecked
  <2>3. /\ escrow.amount \in Nat /\ escrow.amount <= I128Max /\ I128Max \in Nat
        /\ escrow.arbiter \in Holders /\ BpsDenominator \in Nat
    BY <2>2, SoundNumbers
  <2>4. escrow.amount \in 0..I128Max /\ bps \in Nat
    BY <2>3
  <2>5. bps <= BpsDenominator /\ x \in 0..escrow.amount /\ y = escrow.amount - x
    BY <2>2, <2>4, SplitIsExact
  <2> HIDE DEF x, y
  <2>6. /\ x \in Nat /\ y \in Nat /\ x + y = escrow.amount
        /\ x <= I128Max /\ y <= I128Max /\ bps \in 0..BpsDenominator
    BY <2>3, <2>4, <2>5
  <2>7. /\ payment \in Flows /\ payment.pulled = 0
        /\ payment.toBeneficiary = x /\ payment.toDepositor = y
    BY <1>2, <1>4, <2>6
  <2> HIDE DEF payment
  <2>8. event \in Events
    BY <1>1, <1>3, <2>3, <2>6, <2>7
  <2> HIDE DEF event
  <2>9. QED
    BY <1>3, <2>1, <2>2, <2>6, <2>7, <2>8, PaymentIsSound
<1>9. QED
  BY <1>5, <1>6, <1>7, <1>8 DEF Entries

\* What the calls that move no tokens do to the record.
LEMMA WholeCallChanges ==
    ASSUME HostInv, NEW signer \in Signers, WholeCall(signer)
    PROVE  /\ UNCHANGED <<ledgerVars, flows>> /\ escrow' \in Agreements
           /\ events' \in Seq(Events)
           /\ \/ escrow.state = "Absent" /\ escrow'.state = "Created"
              \/ escrow.state = "Created" /\ escrow'.state = "Refunded"
              \/ /\ escrow.state = "Funded" /\ escrow'.state = "Disputed"
                 /\ escrow'.amount = escrow.amount
<1>1. TypeOK /\ HostTypeOK
  BY DEF HostInv, HostTypeOK
<1>2. 0 \in 0..BpsDenominator /\ 0 \in 0..I128Max
  BY BpsAssumption, I128MaxAssumption
<1>3. {"Created", "Cancelled", "Disputed"} \subseteq EventKinds
  BY DEF EventKinds
<1>4. ASSUME NEW depositor \in Holders, NEW beneficiary \in Holders,
             NEW arbiter \in Holders \cup {NoArbiter}, NEW amount \in Amounts,
             NEW deadline \in 0..U64Max,
             Initialize(signer, depositor, beneficiary, arbiter, amount, deadline)
      PROVE  /\ UNCHANGED <<ledgerVars, flows>> /\ escrow' \in Agreements
             /\ events' \in Seq(Events)
             /\ escrow.state = "Absent" /\ escrow'.state = "Created"
  <2>1. /\ escrow.state = "Absent" /\ amount > 0 /\ deadline > now /\ signer = depositor
        /\ escrow' = [depositor |-> depositor, beneficiary |-> beneficiary,
                      arbiter |-> arbiter, amount |-> amount, deadline |-> deadline,
                      state |-> "Created"]
        /\ Emit("Created", depositor, signer, 0, 0, 0)
        /\ UNCHANGED <<ledgerVars, flows>>
    BY <1>4 DEF Initialize, InitReply, Require, RequireAuth, ??
  <2>2. now \in Nat /\ amount \in I128 /\ I128Max \in Nat /\ U64Max \in Nat
    BY <1>1, LedgerTypes, EscrowAssumption, I128MaxAssumption
  <2>3. amount \in 1..I128Max /\ deadline \in 1..U64Max
    BY <2>1, <2>2 DEF I128
  <2>4. escrow' \in Agreements
    BY <2>1, <2>3 DEF Agreements, States
  <2>5. events' \in Seq(Events)
    BY <1>1, <1>2, <1>3, <2>1, EmitAppends
  <2>6. QED
    BY <2>1, <2>4, <2>5
<1>5. ASSUME Cancel(signer)
      PROVE  /\ UNCHANGED <<ledgerVars, flows>> /\ escrow' \in Agreements
             /\ events' \in Seq(Events)
             /\ escrow.state = "Created" /\ escrow'.state = "Refunded"
  <2>1. /\ escrow.state = "Created" /\ escrow' = [escrow EXCEPT !.state = "Refunded"]
        /\ Emit("Cancelled", escrow.depositor, signer, 0, 0, 0)
        /\ UNCHANGED <<ledgerVars, flows>>
    BY <1>5 DEF Cancel, CancelReply, Load, Require, ??
  <2>2. escrow \in Agreements /\ escrow.depositor \in Holders
    BY <1>1, <2>1, Types
  <2>3. escrow' \in Agreements /\ escrow'.state = "Refunded"
    BY <2>1, <2>2 DEF Agreements, States, Terminal
  <2>4. QED
    BY <1>1, <1>2, <1>3, <2>1, <2>2, <2>3, EmitAppends
<1>6. ASSUME NEW caller \in Holders, Dispute(signer, caller)
      PROVE  /\ UNCHANGED <<ledgerVars, flows>> /\ escrow' \in Agreements
             /\ events' \in Seq(Events)
             /\ escrow.state = "Funded" /\ escrow'.state = "Disputed"
             /\ escrow'.amount = escrow.amount
  <2>1. /\ escrow.state = "Funded" /\ escrow' = [escrow EXCEPT !.state = "Disputed"]
        /\ Emit("Disputed", caller, signer, 0, 0, 0)
        /\ UNCHANGED <<ledgerVars, flows>>
    BY <1>6 DEF Dispute, DisputeReply, RequireFunded, Load, Require, ??
  <2>2. escrow \in Agreements
    BY <1>1, <2>1, Types
  <2>3. /\ escrow' \in Agreements /\ escrow'.state = "Disputed"
        /\ escrow'.amount = escrow.amount
    BY <2>1, <2>2 DEF Agreements, States
  <2>4. QED
    BY <1>1, <1>2, <1>3, <2>1, <2>3, EmitAppends
<1>7. QED
  BY <1>4, <1>5, <1>6 DEF WholeCall, Initializes

\* Frames that keep their worlds and payments, and as many, keep the chain.
LEMMA SameFramesKeep ==
    ASSUME HostInv, due' = due, strays' = strays,
           stack' = stack \/ stack' = Reentering(stack)
    PROVE  /\ Chain' /\ stack' \in Seq(Frames) /\ Depth' = Depth
           /\ stack' # <<>> => stack # <<>>
           /\ \A i \in 1..Depth' :
                  /\ SoundWorld(stack'[i].undo, strays')
                  /\ Tended(stack'[i].undo.ttl, stack'[i].undo.idle)
                  /\ stack'[i].undo.escrow.state # "Absent"
<1>1. /\ HostTypeOK /\ Chain /\ stack \in Seq(Frames) /\ Depth = Len(stack) /\ Depth \in Nat
  BY HostTypes DEF HostInv, Depth
<1>2. /\ stack' \in Seq(Frames) /\ Depth' = Depth
      /\ \A i \in 1..Depth :
             stack'[i].undo = stack[i].undo /\ stack'[i].pending = stack[i].pending
  BY <1>1, ReenteringKeeps DEF Depth
<1>3. stack' = <<>> <=> stack = <<>>
  BY <1>1, <1>2, EmptySeq DEF Depth
<1>4. ASSUME NEW i \in 1..Depth
      PROVE  Waiting(i)' = Waiting(i)
  <2>1. i # Depth => i + 1 \in 1..Depth
    BY <1>1
  <2>2. QED
    BY <1>2, <2>1 DEF Waiting
<1>5. stack # <<>> => 1 \in 1..Depth
  BY <1>1, EmptySeq
<1>6. Chain'
  BY <1>1, <1>2, <1>3, <1>4, <1>5 DEF Chain
<1>7. QED
  BY <1>2, <1>3, <1>6 DEF HostInv

LEMMA WholeCallKeeps ==
    ASSUME HostInv, NEW signer \in Signers, WholeCall(signer)
    PROVE  HostInv'
<1>1. /\ ~Archived /\ ttl' = Extended(ttl) /\ idle' = 0 /\ due' = due
      /\ stack' = Reentering(stack)
  BY DEF WholeCall, Callable, Tend
<1>2. /\ HostTypeOK /\ TypeOK /\ Sound(escrow, balance[Self], flows, due, strays)
      /\ due \in Flows
  BY DEF HostInv, HostTypeOK
<1>3. /\ UNCHANGED <<ledgerVars, flows>> /\ escrow' \in Agreements
      /\ events' \in Seq(Events)
      /\ \/ escrow.state = "Absent" /\ escrow'.state = "Created"
         \/ escrow.state = "Created" /\ escrow'.state = "Refunded"
         \/ /\ escrow.state = "Funded" /\ escrow'.state = "Disputed"
            /\ escrow'.amount = escrow.amount
  BY WholeCallChanges
<1>4. /\ now' = now /\ balance' = balance /\ frozen' = frozen /\ strays' = strays
      /\ flows' = flows
  BY <1>3 DEF ledgerVars
<1>5. escrow'.state # "Absent"
  BY <1>3
<1>6. Sound(escrow', balance'[Self], flows', due', strays')
  BY <1>1, <1>2, <1>3, <1>4 DEF Sound, Terminal
<1>7. Tended(ttl', idle')
  BY <1>1, <1>2, ExtendedCovers, StorageAssumption DEF Tended
<1>8. HostTypeOK'
  <2>1. TypeOK'
    BY <1>2, <1>3, <1>4 DEF TypeOK, LedgerTypeOK
  <2>2. StorageTypeOK'
    BY <1>1, <1>2, ExtendedCovers, StorageAssumption DEF StorageTypeOK
  <2>3. QED
    BY <1>1, <1>2, <1>4, <2>1, <2>2, SameFramesKeep, HostTypes DEF HostTypeOK
<1>9. QED
  BY <1>1, <1>4, <1>5, <1>6, <1>7, <1>8, SameFramesKeep DEF HostInv

LEMMA BumpKeeps ==
    ASSUME HostInv, BumpTtl
    PROVE  HostInv'
<1>1. /\ ~Archived /\ ttl' = Extended(ttl) /\ idle' = 0 /\ due' = due /\ stack' = stack
      /\ now' = now /\ balance' = balance /\ frozen' = frozen /\ strays' = strays
      /\ escrow' = escrow /\ flows' = flows /\ events' = events
  BY DEF BumpTtl, Callable, Tend, vars, ledgerVars, contractVars
<1>2. /\ HostTypeOK /\ TypeOK /\ Sound(escrow, balance[Self], flows, due, strays)
  BY DEF HostInv, HostTypeOK
<1>3. Tended(ttl', idle') /\ StorageTypeOK'
  BY <1>1, <1>2, ExtendedCovers, StorageAssumption DEF Tended, StorageTypeOK
<1>4. HostTypeOK'
  BY <1>1, <1>2, <1>3 DEF HostTypeOK, TypeOK, LedgerTypeOK, Depth
<1>5. QED
  BY <1>1, <1>2, <1>3, <1>4, SameFramesKeep DEF HostInv

-----------------------------------------------------------------------------
(* Calls go on.                                                            *)

FlowNames == {"pulled", "toBeneficiary", "toDepositor"}

LEMMA UpcomingIs ==
    Upcoming \in FlowNames
BY DEF Upcoming, FlowNames

\* The innermost call, and that what it has pending is due.
LEMMA TopIs ==
    ASSUME HostInv, stack # <<>>
    PROVE  /\ HostTypeOK /\ TypeOK /\ escrow \in Agreements
           /\ Depth \in Nat /\ Depth \in 1..Depth /\ Depth <= MaxDepth
           /\ Top = stack[Depth] /\ Top \in Frames
           /\ due.pulled = Top.undo.due.pulled + Top.pending.pulled
           /\ due.toBeneficiary = Top.undo.due.toBeneficiary + Top.pending.toBeneficiary
           /\ due.toDepositor = Top.undo.due.toDepositor + Top.pending.toDepositor
<1>1. HostTypeOK /\ TypeOK /\ Chain /\ escrow.state # "Absent"
  BY DEF HostInv, HostTypeOK
<1>2. escrow \in Agreements
  BY <1>1, Types
<1>3. Depth \in Nat /\ Depth \in 1..Depth /\ Depth <= MaxDepth
  <2>1. Depth \in Nat /\ Depth > 0 /\ Depth <= MaxDepth
    BY <1>1, Popped, HostNumbers
  <2>2. QED
    BY <2>1
<1>4. Top = stack[Depth] /\ Top \in Frames
  BY <1>1, <1>3, HostTypes DEF Top
<1>5. Waiting(Depth) = due
  BY DEF Waiting
<1>6. QED
  BY <1>1, <1>2, <1>3, <1>4, <1>5 DEF Chain

\* Crossing off a payment of the innermost call.
LEMMA CrossedOff ==
    ASSUME HostInv, stack # <<>>, NEW flow \in FlowNames,
           stack' = [stack EXCEPT ![Depth].pending[flow] = 0]
    PROVE  /\ stack' \in Seq(Frames) /\ Depth' = Depth /\ stack' # <<>>
           /\ \A i \in 1..Depth :
                  /\ stack'[i].undo = stack[i].undo
                  /\ stack'[i].event = stack[i].event
                  /\ stack'[i].reentered = stack[i].reentered
                  /\ i # Depth => stack'[i] = stack[i]
           /\ stack'[Depth].pending = [Top.pending EXCEPT ![flow] = 0]
<1> DEFINE entry == [Top EXCEPT !.pending = [Top.pending EXCEPT ![flow] = 0]]
<1>1. /\ stack \in Seq(Frames) /\ Depth = Len(stack) /\ Depth \in 1..Depth
      /\ Top = stack[Depth] /\ Top \in Frames
  BY TopIs, HostTypes DEF Depth
<1>2. Top.pending \in Flows /\ [Top.pending EXCEPT ![flow] = 0] \in Flows
  BY <1>1, FrameTypes DEF Flows, FlowNames
<1>3. /\ entry \in Frames /\ entry.undo = Top.undo /\ entry.event = Top.event
      /\ entry.reentered = Top.reentered
      /\ entry.pending = [Top.pending EXCEPT ![flow] = 0]
  BY <1>1, <1>2 DEF Frames
<1>4. stack' = [stack EXCEPT ![Depth] = entry]
  BY <1>1
<1> HIDE DEF entry
<1>5. /\ stack' \in Seq(Frames) /\ Len(stack') = Len(stack)
      /\ \A i \in 1..Depth : stack'[i] = IF i = Depth THEN entry ELSE stack[i]
  BY <1>1, <1>3, <1>4, ExceptSeq
<1>6. Depth' = Depth
  BY <1>1, <1>5 DEF Depth
<1>7. stack' # <<>>
  BY <1>1, <1>5, <1>6, EmptySeq DEF Depth
<1>8. QED
  BY <1>1, <1>3, <1>5, <1>6, <1>7

\* What a payment changes, flow by flow.
LEMMA MoveChanges ==
    ASSUME HostInv, Move
    PROVE  LET flow   == Upcoming
               amount == Top.pending[flow]
               less(f) == IF f = flow THEN amount ELSE 0
           IN  /\ amount \in Nat
               /\ flows' \in Flows /\ due' \in Flows
               /\ flows'.pulled = flows.pulled + less("pulled")
               /\ flows'.toBeneficiary = flows.toBeneficiary + less("toBeneficiary")
               /\ flows'.toDepositor = flows.toDepositor + less("toDepositor")
               /\ due'.pulled = due.pulled - less("pulled")
               /\ due'.toBeneficiary = due.toBeneficiary - less("toBeneficiary")
               /\ due'.toDepositor = due.toDepositor - less("toDepositor")
               /\ balance' \in [Holders -> Nat]
               /\ balance'[Self] = balance[Self] + less("pulled") - less("toDepositor")
                       - (IF escrow.beneficiary = Self THEN 0 ELSE less("toBeneficiary"))
<1> DEFINE flow   == Upcoming
           amount == Top.pending[flow]
<1>1. /\ stack # <<>> /\ flow \in FlowNames
      /\ TransferReply(balance, Payer(flow), Payee(flow), amount) = "Ok"
      /\ balance' = Transferred(balance, Payer(flow), Payee(flow), amount)
      /\ flows' = [flows EXCEPT ![flow] = @ + amount]
      /\ due' = [due EXCEPT ![flow] = @ - amount]
  BY UpcomingIs DEF Move, Busy, Accepted
<1>2. /\ flows \in Flows /\ due \in Flows /\ Top \in Frames
      /\ escrow.depositor \in Holders /\ escrow.depositor # Self
      /\ escrow.beneficiary \in Holders /\ Self \in Holders
      /\ balance \in [Holders -> Nat]
  BY <1>1, TopIs, HostTypes, SoundNumbers, LedgerAssumption DEF HostInv
<1>3. Top.pending \in Flows /\ Top.undo.due \in Flows
  BY <1>2, FrameTypes
<1>4. amount \in Nat /\ due[flow] - amount \in Nat /\ flows[flow] + amount \in Nat
  <2>1. /\ Top.pending.pulled \in Nat /\ Top.pending.toBeneficiary \in Nat
        /\ Top.pending.toDepositor \in Nat
        /\ Top.undo.due.pulled \in Nat /\ Top.undo.due.toBeneficiary \in Nat
        /\ Top.undo.due.toDepositor \in Nat
        /\ flows.pulled \in Nat /\ flows.toBeneficiary \in Nat /\ flows.toDepositor \in Nat
    BY <1>2, <1>3 DEF Flows
  <2>2. /\ due.pulled = Top.undo.due.pulled + Top.pending.pulled
        /\ due.toBeneficiary = Top.undo.due.toBeneficiary + Top.pending.toBeneficiary
        /\ due.toDepositor = Top.undo.due.toDepositor + Top.pending.toDepositor
    BY <1>1, TopIs
  <2> HIDE DEF flow
  <2>3. CASE flow = "pulled"
    <3>1. /\ amount = Top.pending.pulled /\ due[flow] = due.pulled
          /\ flows[flow] = flows.pulled
      BY <2>3
    <3> HIDE DEF amount
    <3>2. QED
      BY <2>1, <2>2, <3>1
  <2>4. CASE flow = "toBeneficiary"
    <3>1. /\ amount = Top.pending.toBeneficiary /\ due[flow] = due.toBeneficiary
          /\ flows[flow] = flows.toBeneficiary
      BY <2>4
    <3> HIDE DEF amount
    <3>2. QED
      BY <2>1, <2>2, <3>1
  <2>5. CASE flow = "toDepositor"
    <3>1. /\ amount = Top.pending.toDepositor /\ due[flow] = due.toDepositor
          /\ flows[flow] = flows.toDepositor
      BY <2>5
    <3> HIDE DEF amount
    <3>2. QED
      BY <2>1, <2>2, <3>1
  <2>6. QED
    BY <1>1, <2>3, <2>4, <2>5 DEF FlowNames
<1>5. Payer(flow) \in Holders /\ Payee(flow) \in Holders
  BY <1>1, <1>2 DEF Payer, Payee, FlowNames
<1> HIDE DEF amount, flow
<1>6. amount \in 0..balance[Payer(flow)]
  BY <1>1, TransferAccepted
<1>7. /\ balance' \in [Holders -> Nat]
      /\ balance'[Self] = balance[Self] - (IF Self = Payer(flow) THEN amount ELSE 0)
                                       + (IF Self = Payee(flow) THEN amount ELSE 0)
  <2>1. PICK from \in Holders, to \in Holders : from = Payer(flow) /\ to = Payee(flow)
    BY <1>5
  <2>2. balance \in [Holders -> Nat] /\ amount \in 0..balance[from] /\ Self \in Holders
    BY <1>2, <1>6, <2>1
  <2>3. balance' = Transferred(balance, from, to, amount)
    BY <1>1, <2>1
  <2>4. /\ balance' \in [Holders -> Nat]
        /\ balance'[Self] = balance[Self] - (IF Self = from THEN amount ELSE 0)
                                         + (IF Self = to THEN amount ELSE 0)
    BY <2>2, <2>3, TransferMoves
  <2>5. QED
    BY <2>1, <2>4
<1>8. /\ flows' \in Flows /\ due' \in Flows
  BY <1>1, <1>2, <1>4 DEF Flows, FlowNames
<1>9. balance[Self] \in Nat
  BY <1>2
<1>10. CASE flow = "pulled"
  <2>1. /\ flows'.pulled = flows.pulled + amount /\ due'.pulled = due.pulled - amount
        /\ flows'.toBeneficiary = flows.toBeneficiary /\ flows'.toDepositor = flows.toDepositor
        /\ due'.toBeneficiary = due.toBeneficiary /\ due'.toDepositor = due.toDepositor
        /\ Payer(flow) = escrow.depositor /\ Payee(flow) = Self
    BY <1>1, <1>2, <1>10 DEF Flows, Payer, Payee
  <2>2. balance'[Self] = balance[Self] + amount
    BY <1>2, <1>4, <1>7, <1>9, <2>1
  <2>3. QED
    BY <1>2, <1>4, <1>7, <1>8, <1>9, <1>10, <2>1, <2>2 DEF Flows, flow, amount
<1>11. CASE flow = "toBeneficiary"
  <2>1. /\ flows'.toBeneficiary = flows.toBeneficiary + amount
        /\ due'.toBeneficiary = due.toBeneficiary - amount
        /\ flows'.pulled = flows.pulled /\ flows'.toDepositor = flows.toDepositor
        /\ due'.pulled = due.pulled /\ due'.toDepositor = due.toDepositor
        /\ Payer(flow) = Self /\ Payee(flow) = escrow.beneficiary
    BY <1>1, <1>2, <1>11 DEF Flows, Payer, Payee
  <2>2. balance'[Self] = balance[Self] - (IF escrow.beneficiary = Self THEN 0 ELSE amount)
    BY <1>2, <1>4, <1>7, <1>9, <2>1
  <2>3. QED
    BY <1>2, <1>4, <1>7, <1>8, <1>9, <1>11, <2>1, <2>2 DEF Flows, flow, amount
<1>12. CASE flow = "toDepositor"
  <2>1. /\ flows'.toDepositor = flows.toDepositor + amount
        /\ due'.toDepositor = due.toDepositor - amount
        /\ flows'.pulled = flows.pulled /\ flows'.toBeneficiary = flows.toBeneficiary
        /\ due'.pulled = due.pulled /\ due'.toBeneficiary = due.toBeneficiary
        /\ Payer(flow) = Self /\ Payee(flow) = escrow.depositor
    BY <1>1, <1>2, <1>12 DEF Flows, Payer, Payee
  <2>2. balance'[Self] = balance[Self] - amount
    BY <1>2, <1>4, <1>7, <1>9, <2>1
  <2>3. QED
    BY <1>2, <1>4, <1>7, <1>8, <1>9, <1>12, <2>1, <2>2 DEF Flows, flow, amount
<1>13. QED
  BY <1>1, <1>10, <1>11, <1>12 DEF FlowNames

LEMMA MoveKeeps ==
    ASSUME HostInv, Move
    PROVE  HostInv'
<1> DEFINE less(f) == IF f = Upcoming THEN Top.pending[Upcoming] ELSE 0
<1>1. /\ stack # <<>> /\ Upcoming \in FlowNames
      /\ stack' = [stack EXCEPT ![Depth].pending[Upcoming] = 0]
      /\ now' = now /\ frozen' = frozen /\ strays' = strays /\ escrow' = escrow
      /\ events' = events /\ ttl' = ttl /\ idle' = idle
  BY UpcomingIs DEF Move, Busy, storageVars
<1>2. PICK x \in Nat, y \in Nat, z \in Nat :
          /\ x = less("pulled") /\ y = less("toBeneficiary") /\ z = less("toDepositor")
  <2>1. Top.pending[Upcoming] \in Nat
    BY MoveChanges
  <2>2. QED
    BY <2>1
<1>3. /\ flows' \in Flows /\ due' \in Flows /\ balance' \in [Holders -> Nat]
      /\ flows'.pulled = flows.pulled + x /\ due'.pulled = due.pulled - x
      /\ flows'.toBeneficiary = flows.toBeneficiary + y
      /\ due'.toBeneficiary = due.toBeneficiary - y
      /\ flows'.toDepositor = flows.toDepositor + z
      /\ due'.toDepositor = due.toDepositor - z
      /\ balance'[Self] = balance[Self] + x - z
                              - (IF escrow.beneficiary = Self THEN 0 ELSE y)
  BY <1>2, MoveChanges
<1>4. /\ HostTypeOK /\ TypeOK /\ Depth \in Nat /\ Depth \in 1..Depth /\ Depth <= MaxDepth
      /\ Top = stack[Depth] /\ Top.pending \in Flows /\ Chain
      /\ due.pulled = Top.undo.due.pulled + Top.pending.pulled
      /\ due.toBeneficiary = Top.undo.due.toBeneficiary + Top.pending.toBeneficiary
      /\ due.toDepositor = Top.undo.due.toDepositor + Top.pending.toDepositor
  BY <1>1, TopIs, FrameTypes DEF HostInv
<1>5. /\ stack' \in Seq(Frames) /\ Depth' = Depth /\ stack' # <<>>
      /\ \A i \in 1..Depth :
             /\ stack'[i].undo = stack[i].undo
             /\ i # Depth => stack'[i] = stack[i]
      /\ stack'[Depth].pending = [Top.pending EXCEPT ![Upcoming] = 0]
  BY <1>1, CrossedOff
<1>6. HostTypeOK'
  <2>1. TypeOK'
    BY <1>1, <1>3, <1>4 DEF TypeOK, LedgerTypeOK
  <2>2. StorageTypeOK'
    BY <1>1, <1>4 DEF HostTypeOK, StorageTypeOK
  <2>3. QED
    BY <1>3, <1>4, <1>5, <2>1, <2>2 DEF HostTypeOK
<1>7. Sound(escrow', balance'[Self], flows', due', strays')
  <2> DEFINE own == balance[Self]
             own2 == balance'[Self]
  <2>1. /\ flows.pulled \in Nat /\ flows.toBeneficiary \in Nat /\ flows.toDepositor \in Nat
        /\ due.pulled \in Nat /\ due.toBeneficiary \in Nat /\ due.toDepositor \in Nat
        /\ own \in Nat /\ strays \in Nat
    BY <1>4, HostNumbers
  <2>2. own2 = own + x - z - (IF escrow.beneficiary = Self THEN 0 ELSE y)
    BY <1>3
  <2> HIDE DEF own, own2
  <2>3. /\ flows'.pulled + due'.pulled = flows.pulled + due.pulled
        /\ flows'.toBeneficiary + due'.toBeneficiary = flows.toBeneficiary + due.toBeneficiary
        /\ flows'.toDepositor + due'.toDepositor = flows.toDepositor + due.toDepositor
    BY <1>3, <2>1
  <2>4. own2 + due'.pulled - due'.toBeneficiary - due'.toDepositor - strays =
            own + due.pulled - due.toBeneficiary - due.toDepositor - strays
                + (IF escrow.beneficiary = Self THEN y ELSE 0)
    BY <1>3, <2>1, <2>2
  <2>5. flows.toBeneficiary + due.toBeneficiary = 0 => y = 0
    <3>1. y <= due.toBeneficiary
      <4>1. due'.toBeneficiary \in Nat
        BY <1>3 DEF Flows
      <4>2. QED
        BY <1>3, <2>1, <4>1
    <3>2. QED
      BY <2>1, <3>1
  <2>6. Sound(escrow, own, flows, due, strays)
    BY DEF HostInv, own
  <2>7. own + due.pulled - due.toBeneficiary - due.toDepositor - strays \in Int
    BY <2>1
  <2>8. CASE escrow.beneficiary = Self
    <3>1. own2 + due'.pulled - due'.toBeneficiary - due'.toDepositor - strays =
              own + due.pulled - due.toBeneficiary - due.toDepositor - strays + y
      BY <2>4, <2>8
    <3>2. CASE flows.toBeneficiary + due.toBeneficiary = 0
      <4>1. own2 + due'.pulled - due'.toBeneficiary - due'.toDepositor - strays =
                own + due.pulled - due.toBeneficiary - due.toDepositor - strays
            /\ flows'.toBeneficiary = flows.toBeneficiary
        BY <1>3, <2>1, <2>5, <2>7, <3>1, <3>2
      <4>2. Sound(escrow, own2, flows', due', strays)
        BY <2>3, <2>6, <4>1 DEF Sound
      <4>3. QED
        BY <1>1, <4>2 DEF own2
    <3>3. CASE flows.toBeneficiary + due.toBeneficiary # 0
      <4>1. /\ escrow.state \in Terminal /\ flows.pulled + due.pulled = escrow.amount
            /\ (flows.toBeneficiary + due.toBeneficiary)
                   + (flows.toDepositor + due.toDepositor) = escrow.amount
            /\ escrow.state = "Released" => flows.toDepositor + due.toDepositor = 0
            /\ escrow.state = "Refunded" => flows.toBeneficiary + due.toBeneficiary = 0
            /\ own + due.pulled - due.toBeneficiary - due.toDepositor - strays
                   = flows.toBeneficiary
        BY <2>6, <2>8, <3>3 DEF Sound
      <4>2. own2 + due'.pulled - due'.toBeneficiary - due'.toDepositor - strays
                = flows'.toBeneficiary
        BY <1>3, <3>1, <4>1
      <4>3. Sound(escrow, own2, flows', due', strays)
        BY <2>3, <2>8, <4>1, <4>2 DEF Sound
      <4>4. QED
        BY <1>1, <4>3 DEF own2
    <3>4. QED
      BY <3>2, <3>3
  <2>9. CASE escrow.beneficiary # Self
    <3>1. own2 + due'.pulled - due'.toBeneficiary - due'.toDepositor - strays =
              own + due.pulled - due.toBeneficiary - due.toDepositor - strays
      BY <2>4, <2>7, <2>9
    <3>2. Sound(escrow, own2, flows', due', strays)
      BY <2>3, <2>6, <2>9, <3>1 DEF Sound
    <3>3. QED
      BY <1>1, <3>2 DEF own2
  <2>10. QED
    BY <2>8, <2>9
<1>8. Chain'
  <2>1. /\ stack'[Depth].pending.pulled = Top.pending.pulled - x
        /\ stack'[Depth].pending.toBeneficiary = Top.pending.toBeneficiary - y
        /\ stack'[Depth].pending.toDepositor = Top.pending.toDepositor - z
    BY <1>1, <1>2, <1>4, <1>5 DEF Flows, FlowNames
  <2>2. ASSUME NEW i, i = Depth PROVE Waiting(i)' = due'
    BY <1>5, <2>2 DEF Waiting
  <2>3. ASSUME NEW i \in 1..Depth, i # Depth
        PROVE  Waiting(i)' = Waiting(i) /\ stack'[i] = stack[i]
    <3>1. i + 1 \in 1..Depth
      BY <1>4, <2>3
    <3>2. QED
      BY <1>5, <2>3, <3>1 DEF Waiting
  <2>4. Top.undo.due \in Flows
    BY <1>1, TopIs, FrameTypes
  <2>5. /\ Top.pending.pulled \in Nat /\ Top.pending.toBeneficiary \in Nat
        /\ Top.pending.toDepositor \in Nat
        /\ Top.undo.due.pulled \in Nat /\ Top.undo.due.toBeneficiary \in Nat
        /\ Top.undo.due.toDepositor \in Nat
    BY <1>4, <2>4 DEF Flows
  <2>6. /\ due'.pulled = Top.undo.due.pulled + stack'[Depth].pending.pulled
        /\ due'.toBeneficiary = Top.undo.due.toBeneficiary + stack'[Depth].pending.toBeneficiary
        /\ due'.toDepositor = Top.undo.due.toDepositor + stack'[Depth].pending.toDepositor
    BY <1>3, <1>4, <2>1, <2>5
  <2>7. ASSUME NEW i, i = Depth
        PROVE  /\ Waiting(i)'.pulled = stack'[i].undo.due.pulled + stack'[i].pending.pulled
               /\ Waiting(i)'.toBeneficiary =
                      stack'[i].undo.due.toBeneficiary + stack'[i].pending.toBeneficiary
               /\ Waiting(i)'.toDepositor =
                      stack'[i].undo.due.toDepositor + stack'[i].pending.toDepositor
    <3>1. stack'[i].undo.due = Top.undo.due /\ stack'[i].pending = stack'[Depth].pending
      BY <1>4, <1>5, <2>7
    <3>2. Waiting(i)' = due'
      BY <2>2, <2>7
    <3>3. QED
      BY <2>6, <3>1, <3>2
  <2>8. ASSUME NEW i \in 1..Depth, i # Depth
        PROVE  /\ Waiting(i)'.pulled = stack'[i].undo.due.pulled + stack'[i].pending.pulled
               /\ Waiting(i)'.toBeneficiary =
                      stack'[i].undo.due.toBeneficiary + stack'[i].pending.toBeneficiary
               /\ Waiting(i)'.toDepositor =
                      stack'[i].undo.due.toDepositor + stack'[i].pending.toDepositor
    BY <1>4, <2>3, <2>8 DEF Chain
  <2>9. stack'[1].undo.due = NoFlows
    <3>1. 1 \in 1..Depth
      BY <1>4
    <3>2. QED
      BY <1>1, <1>4, <1>5, <3>1 DEF Chain
  <2>10. QED
    BY <1>5, <2>7, <2>8, <2>9 DEF Chain
<1>9. \A i \in 1..Depth' :
          /\ SoundWorld(stack'[i].undo, strays')
          /\ Tended(stack'[i].undo.ttl, stack'[i].undo.idle)
          /\ stack'[i].undo.escrow.state # "Absent"
  BY <1>1, <1>5 DEF HostInv
<1>10. QED
  BY <1>1, <1>6, <1>7, <1>8, <1>9 DEF HostInv

LEMMA ReturnKeeps ==
    ASSUME HostInv, Return
    PROVE  HostInv'
<1> DEFINE rest == SubSeq(stack, 1, Depth - 1)
<1>1. /\ stack # <<>> /\ Top.pending = NoFlows /\ events' = Append(events, Top.event)
      /\ stack' = Reentering(rest)
      /\ now' = now /\ balance' = balance /\ frozen' = frozen /\ strays' = strays
      /\ escrow' = escrow /\ flows' = flows /\ ttl' = ttl /\ idle' = idle /\ due' = due
  BY DEF Return, ledgerVars, storageVars
<1>2. HostTypeOK /\ TypeOK /\ Top \in Frames /\ due \in Flows /\ MaxDepth \in Nat
  BY <1>1, TopIs, HostTypes
<1>3. due' = Top.undo.due
  <2>1. /\ due.pulled = Top.undo.due.pulled + 0
        /\ due.toBeneficiary = Top.undo.due.toBeneficiary + 0
        /\ due.toDepositor = Top.undo.due.toDepositor + 0
    BY <1>1, TopIs DEF NoFlows
  <2>2. Top.undo.due \in Flows
    BY <1>2, FrameTypes
  <2>3. /\ due.pulled = Top.undo.due.pulled
        /\ due.toBeneficiary = Top.undo.due.toBeneficiary
        /\ due.toDepositor = Top.undo.due.toDepositor
    <3>1. /\ Top.undo.due.pulled \in Nat /\ Top.undo.due.toBeneficiary \in Nat
          /\ Top.undo.due.toDepositor \in Nat
      BY <2>2 DEF Flows
    <3>2. QED
      BY <2>1, <3>1
  <2>4. QED
    BY <1>1, <1>2, <2>2, <2>3 DEF Flows
<1>4. /\ rest \in Seq(Frames) /\ Len(rest) = Depth - 1
      /\ \A i \in 1..(Depth - 1) : rest[i] = stack[i]
  BY <1>1, <1>2, Popped
<1> HIDE DEF rest
<1>5. /\ stack' \in Seq(Frames) /\ Depth' = Depth - 1
      /\ \A i \in 1..(Depth - 1) :
             stack'[i].undo = stack[i].undo /\ stack'[i].pending = stack[i].pending
  <2>1. /\ Reentering(rest) \in Seq(Frames) /\ Len(Reentering(rest)) = Len(rest)
        /\ \A i \in 1..Len(rest) :
               /\ Reentering(rest)[i].undo = rest[i].undo
               /\ Reentering(rest)[i].pending = rest[i].pending
    BY <1>4, ReenteringKeeps
  <2>2. Len(stack') = Depth - 1
    BY <1>1, <1>4, <2>1
  <2>3. Depth' = Depth - 1
    BY <2>2 DEF Depth
  <2>4. ASSUME NEW i \in 1..(Depth - 1)
        PROVE  stack'[i].undo = stack[i].undo /\ stack'[i].pending = stack[i].pending
    <3>1. rest[i] = stack[i] /\ i \in 1..Len(rest)
      BY <1>4
    <3>2. stack'[i].undo = rest[i].undo /\ stack'[i].pending = rest[i].pending
      BY <1>1, <2>1, <3>1
    <3>3. QED
      BY <3>1, <3>2
  <2>5. QED
    BY <1>1, <2>1, <2>3, <2>4
<1>6. /\ Chain' /\ Depth' <= MaxDepth
      /\ \A i \in 1..Depth' :
             /\ SoundWorld(stack'[i].undo, strays')
             /\ Tended(stack'[i].undo.ttl, stack'[i].undo.idle)
             /\ stack'[i].undo.escrow.state # "Absent"
  BY <1>1, <1>3, <1>5, EndKeeps
<1>7. events' \in Seq(Events)
  BY <1>1, <1>2, FrameTypes DEF TypeOK
<1>8. TypeOK' /\ StorageTypeOK'
  BY <1>1, <1>2, <1>7 DEF TypeOK, LedgerTypeOK, HostTypeOK, StorageTypeOK
<1>9. HostTypeOK'
  BY <1>1, <1>2, <1>5, <1>6, <1>8 DEF HostTypeOK
<1>10. QED
  BY <1>1, <1>6, <1>9 DEF HostInv

LEMMA TrapKeeps ==
    ASSUME HostInv, Trap
    PROVE  HostInv'
<1>1. /\ stack # <<>> /\ escrow' = Top.undo.escrow /\ balance' = Top.undo.balance
      /\ flows' = Top.undo.flows /\ events' = Top.undo.events /\ due' = Top.undo.due
      /\ ttl' = Top.undo.ttl /\ idle' = Top.undo.idle
      /\ stack' = SubSeq(stack, 1, Depth - 1)
      /\ now' = now /\ frozen' = frozen /\ strays' = strays
  BY DEF Trap, Busy
<1>2. /\ HostTypeOK /\ TypeOK /\ Top \in Frames /\ Top = stack[Depth]
      /\ Depth \in 1..Depth /\ MaxDepth \in Nat
  BY <1>1, TopIs, HostTypes
<1>3. /\ stack' \in Seq(Frames) /\ Depth' = Depth - 1
      /\ \A i \in 1..(Depth - 1) : stack'[i] = stack[i]
  BY <1>1, <1>2, Popped DEF Depth
<1>4. /\ Chain' /\ Depth' <= MaxDepth /\ due' \in Flows
      /\ \A i \in 1..Depth' :
             /\ SoundWorld(stack'[i].undo, strays')
             /\ Tended(stack'[i].undo.ttl, stack'[i].undo.idle)
             /\ stack'[i].undo.escrow.state # "Absent"
  BY <1>1, <1>3, EndKeeps
<1>5. TypeOK' /\ StorageTypeOK'
  BY <1>1, <1>2, FrameTypes, StorageAssumption
  DEF TypeOK, LedgerTypeOK, StorageTypeOK
<1>6. HostTypeOK'
  BY <1>1, <1>2, <1>3, <1>4, <1>5 DEF HostTypeOK
<1>7. /\ SoundWorld(Top.undo, strays) /\ Tended(Top.undo.ttl, Top.undo.idle)
      /\ Top.undo.escrow.state # "Absent"
  BY <1>2 DEF HostInv
<1>8. Sound(escrow', balance'[Self], flows', due', strays') /\ Tended(ttl', idle')
  BY <1>1, <1>7 DEF SoundWorld
<1>9. QED
  BY <1>1, <1>4, <1>6, <1>7, <1>8 DEF HostInv

-----------------------------------------------------------------------------
(* Between two transactions.                                               *)

\* With no call under way only the ledger and the time-to-live can go wrong.
LEMMA QuietKeeps ==
    ASSUME HostInv, stack = <<>>, UNCHANGED <<contractVars, stack, due>>,
           LedgerTypeOK', StorageTypeOK', Tended(ttl', idle'),
           balance'[Self] - strays' = balance[Self] - strays
    PROVE  HostInv'
<1>1. /\ escrow' = escrow /\ flows' = flows /\ events' = events /\ stack' = <<>>
      /\ due' = due
  BY DEF contractVars
<1>2. /\ HostTypeOK /\ TypeOK /\ due \in Flows /\ Chain /\ MaxDepth \in Nat
      /\ Sound(escrow, balance[Self], flows, due, strays)
  BY HostTypes DEF HostInv
<1>3. Depth' = 0 /\ stack' \in Seq(Frames)
  BY <1>1 DEF Depth
<1>4. TypeOK' /\ HostTypeOK'
  BY <1>1, <1>2, <1>3 DEF TypeOK, HostTypeOK
<1>5. Chain'
  BY <1>1, <1>2, <1>3 DEF Chain
<1>6. Sound(escrow', balance'[Self], flows', due', strays')
  <2>1. /\ due.pulled \in Nat /\ due.toBeneficiary \in Nat /\ due.toDepositor \in Nat
        /\ balance[Self] \in Nat /\ strays \in Nat
    BY <1>2, HostNumbers
  <2>2. balance'[Self] \in Nat /\ strays' \in Nat
    BY LedgerAssumption DEF LedgerTypeOK
  <2>3. balance'[Self] + due.pulled - due.toBeneficiary - due.toDepositor - strays' =
            balance[Self] + due.pulled - due.toBeneficiary - due.toDepositor - strays
    <3>1. PICK own \in Nat : own = balance'[Self]
      BY <2>2
    <3>2. PICK sent \in Nat : sent = strays'
      BY <2>2
    <3>3. own - sent = balance[Self] - strays
      BY <3>1, <3>2
    <3>4. PICK before \in Nat : before = balance[Self]
      BY <2>1
    <3>5. PICK p \in Nat, b \in Nat, d \in Nat :
              p = due.pulled /\ b = due.toBeneficiary /\ d = due.toDepositor
      BY <2>1
    <3>6. own - sent = before - strays
      BY <3>3, <3>4
    <3>7. own + p - b - d - sent = before + p - b - d - strays
      BY <2>1, <3>6
    <3>8. QED
      BY <3>1, <3>2, <3>4, <3>5, <3>7
  <2>4. QED
    BY <1>1, <1>2, <2>3 DEF Sound
<1>7. QED
  BY <1>1, <1>3, <1>4, <1>5, <1>6 DEF HostInv

LEMMA LedgerClosesKeeps ==
    ASSUME HostInv, LedgerCloses
    PROVE  HostInv'
<1>1. /\ stack = <<>>
      /\ CloseLedger \/ UNCHANGED ledgerVars
      /\ Age
      /\ UNCHANGED <<contractVars, stack, due>>
  BY DEF LedgerCloses
<1>2. HostTypeOK /\ LedgerTypeOK /\ StorageTypeOK /\ Tended(ttl, idle) /\ now \in Nat
      /\ U64Max \in Nat
  BY LedgerAssumption DEF HostInv, HostTypeOK, TypeOK, LedgerTypeOK
<1>3. LedgerTypeOK' /\ balance' = balance /\ strays' = strays
  BY <1>1, <1>2 DEF CloseLedger, ledgerVars, LedgerTypeOK
<1>4. StorageTypeOK' /\ Tended(ttl', idle')
  BY <1>1, <1>2, StorageAssumption DEF Age, Archived, StorageTypeOK, Tended
<1>5. balance'[Self] - strays' = balance[Self] - strays
  BY <1>3
<1>6. stack = <<>> /\ UNCHANGED <<contractVars, stack, due>>
  BY <1>1
<1>7. QED
  BY <1>3, <1>4, <1>5, <1>6, QuietKeeps

LEMMA OthersActKeeps ==
    ASSUME HostInv, OthersAct
    PROVE  HostInv'
<1>1. /\ stack = <<>>
      /\ SetFrozen \/ Stray
      /\ ttl' = ttl /\ idle' = idle
      /\ UNCHANGED <<contractVars, stack, due>>
  BY DEF OthersAct, storageVars
<1>2. /\ HostTypeOK /\ LedgerTypeOK /\ StorageTypeOK /\ Tended(ttl, idle)
      /\ balance \in [Holders -> Nat] /\ strays \in Nat /\ Self \in Holders
      /\ Self \notin Signers /\ Signers \subseteq Holders
  BY LedgerAssumption DEF HostInv, HostTypeOK, TypeOK, LedgerTypeOK
<1>3. StorageTypeOK' /\ Tended(ttl', idle')
  BY <1>1, <1>2 DEF StorageTypeOK
<1>4. CASE SetFrozen
  <2>1. /\ frozen' \in SUBSET Freezable /\ now' = now /\ balance' = balance
        /\ strays' = strays
    BY <1>4 DEF SetFrozen
  <2>2. LedgerTypeOK'
    BY <1>2, <2>1 DEF LedgerTypeOK
  <2>3. balance'[Self] - strays' = balance[Self] - strays
    BY <2>1
  <2>4. stack = <<>> /\ UNCHANGED <<contractVars, stack, due>>
    BY <1>1
  <2>5. QED
    BY <1>3, <2>2, <2>3, <2>4, QuietKeeps
<1>5. CASE Stray
  <2>1. PICK from \in Signers :
            /\ TransferReply(balance, from, Self, 1) = "Ok"
            /\ balance' = Transferred(balance, from, Self, 1)
            /\ strays' = strays + 1 /\ now' = now /\ frozen' = frozen
    BY <1>5 DEF Stray
  <2>2. 1 \in 0..balance[from] /\ from \in Holders /\ from # Self
    BY <1>2, <2>1, TransferAccepted
  <2>3. /\ balance' \in [Holders -> Nat]
        /\ balance'[Self] = balance[Self] - (IF Self = from THEN 1 ELSE 0)
                                         + (IF Self = Self THEN 1 ELSE 0)
    BY <1>2, <2>1, <2>2, TransferMoves
  <2>4. balance[Self] \in Nat /\ strays' \in Nat
    BY <1>2, <2>1
  <2>5. balance'[Self] - strays' = balance[Self] - strays
    BY <1>2, <2>1, <2>2, <2>3, <2>4
  <2>6. LedgerTypeOK'
    BY <1>2, <2>1, <2>3, <2>4 DEF LedgerTypeOK
  <2>7. stack = <<>> /\ UNCHANGED <<contractVars, stack, due>>
    BY <1>1
  <2>8. QED
    BY <1>3, <2>5, <2>6, <2>7, QuietKeeps
<1>6. QED
  BY <1>1, <1>4, <1>5

LEMMA RestoreKeeps ==
    ASSUME HostInv, RestoreInstance
    PROVE  HostInv'
<1>1. /\ stack = <<>> /\ ttl < 0 /\ ttl' = MinTtl /\ idle' = idle
      /\ UNCHANGED <<contractVars, stack, due>>
      /\ now' = now /\ balance' = balance /\ frozen' = frozen /\ strays' = strays
  BY DEF RestoreInstance, Restore, Archived, vars, ledgerVars
<1>2. LedgerTypeOK /\ StorageTypeOK /\ Tended(ttl, idle)
  BY DEF HostInv, HostTypeOK, TypeOK
<1>3. LedgerTypeOK'
  BY <1>1, <1>2 DEF LedgerTypeOK
<1>4. StorageTypeOK' /\ Tended(ttl', idle')
  BY <1>1, <1>2, StorageAssumption DEF StorageTypeOK, Tended
<1>5. balance'[Self] - strays' = balance[Self] - strays
  BY <1>1
<1>6. stack = <<>> /\ UNCHANGED <<contractVars, stack, due>>
  BY <1>1
<1>7. QED
  BY <1>3, <1>4, <1>5, <1>6, QuietKeeps

LEMMA HostStepKeeps == HostInv /\ [HostNext]_hostVars => HostInv'
<1> SUFFICES ASSUME HostInv, [HostNext]_hostVars PROVE HostInv'
  OBVIOUS
<1>1. CASE \E signer \in Signers : Entries(signer) \/ WholeCall(signer)
  BY <1>1, EntriesKeep, WholeCallKeeps
<1>2. CASE BumpTtl \/ Steps
  BY <1>2, BumpKeeps, MoveKeeps, ReturnKeeps, TrapKeeps DEF Steps
<1>3. CASE LedgerCloses \/ OthersAct \/ RestoreInstance
  BY <1>3, LedgerClosesKeeps, OthersActKeeps, RestoreKeeps
<1>4. CASE UNCHANGED hostVars
  <2>1. /\ now' = now /\ balance' = balance /\ frozen' = frozen /\ strays' = strays
        /\ escrow' = escrow /\ flows' = flows /\ events' = events
        /\ ttl' = ttl /\ idle' = idle /\ stack' = stack /\ due' = due
    BY <1>4 DEF hostVars, vars, ledgerVars, contractVars, storageVars
  <2>2. HostTypeOK'
    BY <2>1 DEF HostInv, HostTypeOK, TypeOK, LedgerTypeOK, StorageTypeOK, Depth
  <2>3. QED
    BY <2>1, <2>2, SameFramesKeep DEF HostInv
<1>5. QED
  BY <1>1, <1>2, <1>3, <1>4 DEF HostNext

-----------------------------------------------------------------------------

\* In every reachable state the record, the balance, what has been paid and
\* what is due fit each other, and so they do in every world put aside.
THEOREM HostInvariance == HostSpec => []HostInv
BY HostInitEstablishes, HostStepKeeps, PTL DEF HostSpec

\* The types hold in every reachable state, at any depth of calls.
THEOREM HostTypeCorrect == HostSpec => []HostTypeOK
<1>1. HostInv => HostTypeOK
  BY DEF HostInv
<1>2. QED
  BY <1>1, HostInvariance, PTL

\* Whenever the token is called, and whatever it calls back, the stored record
\* is the one that will be true when all is paid.
THEOREM SettlingHolds == HostSpec => []Settling
<1>1. HostInv => Settling
  <2> SUFFICES ASSUME HostInv PROVE Settling
    OBVIOUS
  <2> DEFINE pulled == flows.pulled + due.pulled
             out    == flows.toBeneficiary + due.toBeneficiary
             back   == flows.toDepositor + due.toDepositor
             left   == balance[Self] + due.pulled - due.toBeneficiary - due.toDepositor
  <2>1. /\ Sound(escrow, balance[Self], flows, due, strays)
        /\ pulled \in Nat /\ out \in Nat /\ back \in Nat /\ left \in Int
        /\ strays \in Nat /\ flows.toBeneficiary \in Nat /\ flows.toBeneficiary <= out
        /\ left - strays = balance[Self] + due.pulled - due.toBeneficiary - due.toDepositor
                              - strays
    <3>1. HostTypeOK /\ Sound(escrow, balance[Self], flows, due, strays)
      BY DEF HostInv
    <3>2. /\ flows.pulled \in Nat /\ flows.toBeneficiary \in Nat
          /\ flows.toDepositor \in Nat
          /\ due.pulled \in Nat /\ due.toBeneficiary \in Nat /\ due.toDepositor \in Nat
          /\ balance[Self] \in Nat /\ strays \in Nat
      BY <3>1, HostNumbers
    <3>3. pulled \in Nat /\ out \in Nat /\ back \in Nat /\ left \in Int
      BY <3>2
    <3>4. flows.toBeneficiary <= out
      BY <3>2
    <3>5. left - strays = balance[Self] + due.pulled - due.toBeneficiary - due.toDepositor
                              - strays
      BY <3>2
    <3>6. QED
      BY <3>1, <3>2, <3>3, <3>4, <3>5
  <2>2. \/ /\ escrow.state \in {"Absent", "Created", "Refunded"}
           /\ pulled = 0 /\ out = 0 /\ back = 0 /\ left - strays = 0
        \/ /\ escrow.state \in {"Funded", "Disputed"}
           /\ pulled = escrow.amount /\ out = 0 /\ back = 0
           /\ left - strays = escrow.amount
        \/ /\ escrow.state \in Terminal
           /\ pulled = escrow.amount /\ out + back = escrow.amount
           /\ escrow.state = "Released" => back = 0
           /\ escrow.state = "Refunded" => out = 0
           /\ left - strays = (IF escrow.beneficiary = Self THEN flows.toBeneficiary ELSE 0)
    <3>1. PICK kept : kept = left - strays
      OBVIOUS
    <3>2. PICK p, o, b : p = pulled /\ o = out /\ b = back
      OBVIOUS
    <3>3. \/ /\ escrow.state \in {"Absent", "Created", "Refunded"}
             /\ p = 0 /\ o = 0 /\ b = 0 /\ kept = 0
          \/ /\ escrow.state \in {"Funded", "Disputed"}
             /\ p = escrow.amount /\ o = 0 /\ b = 0
             /\ kept = escrow.amount
          \/ /\ escrow.state \in Terminal
             /\ p = escrow.amount /\ o + b = escrow.amount
             /\ escrow.state = "Released" => b = 0
             /\ escrow.state = "Refunded" => o = 0
             /\ kept = (IF escrow.beneficiary = Self THEN flows.toBeneficiary ELSE 0)
      BY ONLY <2>1, <3>1, <3>2 DEF Sound
    <3>4. QED
      BY <3>1, <3>2, <3>3
  <2> SUFFICES /\ left = Held + strays + Stranded
               /\ escrow.state # "Absent" =>
                      /\ pulled \in {0, escrow.amount}
                      /\ escrow.state \in {"Funded", "Disputed", "Released", "Resolved"}
                             => pulled = escrow.amount
                      /\ out + back = (IF escrow.state \in Terminal THEN pulled ELSE 0)
                      /\ escrow.state = "Released" => back = 0
                      /\ escrow.state = "Refunded" => out = 0
    BY DEF Settling
  <2>3. escrow.state # "Absent" => escrow.amount \in Nat
    BY SoundNumbers
  <2> HIDE DEF pulled, out, back, left
  <2>4. out = 0 => Stranded = 0
    BY <2>1 DEF Stranded
  <2>5. CASE /\ escrow.state \in {"Absent", "Created", "Refunded"}
             /\ pulled = 0 /\ out = 0 /\ back = 0 /\ left - strays = 0
    <3>1. Held = 0 /\ Stranded = 0
      BY <2>4, <2>5 DEF Held
    <3>2. QED
      BY <2>1, <2>5, <3>1 DEF Terminal
  <2>6. CASE /\ escrow.state \in {"Funded", "Disputed"}
             /\ pulled = escrow.amount /\ out = 0 /\ back = 0
             /\ left - strays = escrow.amount
    <3>1. Held = escrow.amount /\ Stranded = 0
      BY <2>4, <2>6 DEF Held
    <3>2. QED
      BY <2>1, <2>3, <2>6, <3>1 DEF Terminal
  <2>7. CASE /\ escrow.state \in Terminal
             /\ pulled = escrow.amount /\ out + back = escrow.amount
             /\ escrow.state = "Released" => back = 0
             /\ escrow.state = "Refunded" => out = 0
             /\ left - strays = (IF escrow.beneficiary = Self THEN flows.toBeneficiary ELSE 0)
    <3>1. Held = 0 /\ Stranded = left - strays
      BY <2>7 DEF Held, Stranded, Terminal
    <3>2. QED
      BY <2>1, <2>3, <2>7, <3>1 DEF Terminal
  <2>8. QED
    BY <2>2, <2>5, <2>6, <2>7
<1>2. QED
  BY <1>1, HostInvariance, PTL

\* An instance on which some call succeeds at least every `Threshold` ledgers is
\* never archived, whatever the two TTL constants and the host's own minimum.
THEOREM TendedInstancesLive == HostSpec => []TendedStaysLive
<1>1. HostInv => TendedStaysLive
  <2> SUFFICES ASSUME HostInv PROVE TendedStaysLive
    OBVIOUS
  <2>1. Tended(ttl, idle) /\ ttl \in Int /\ idle \in Nat /\ Threshold \in Nat
    BY HostTypes DEF HostInv
  <2>2. QED
    BY <2>1 DEF Tended, TendedStaysLive, Archived
<1>2. QED
  BY <1>1, HostInvariance, PTL

=============================================================================
