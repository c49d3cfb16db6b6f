--------------------------- MODULE Stream_proofs ---------------------------
(***************************************************************************)
(* The stream's safety, for every value of the constants: its types, its   *)
(* funding invariant, its solvency and the agreement of its views, from    *)
(* one inductive invariant.                                                *)
(***************************************************************************)
EXTENDS Stream, Ledger_proofs

\* The accrual without its error cases and its clamp to `deposited`.
Earned(s, at) ==
    LET effective == Smaller(Smaller(at, s.cancelledAt), s.stop)
    IN  IF effective <= s.start THEN 0 ELSE s.rate * (effective - s.start)

\* What a record says about itself, whatever the ledger.
Coherent(s) ==
    /\ s.sender # s.recipient
    /\ s.start < s.stop
    /\ s.deposited = s.rate * (s.stop - s.start)

\* The recipient never holds more than has accrued, and a cancellation has
\* shared out everything.
Entitled ==
    /\ stream.withdrawn <= Earned(stream, now)
    /\ ~IsCancelled(stream) => stream.refunded = 0
    /\ IsCancelled(stream) =>
           /\ stream.cancelledAt <= now
           /\ stream.withdrawn = Earned(stream, stream.cancelledAt)
           /\ stream.withdrawn + stream.refunded = stream.deposited

Moved ==
    /\ stream = NoStream => flows = [pulled |-> 0, toRecipient |-> 0, toSender |-> 0]
    /\ stream # NoStream =>
           flows = [pulled      |-> stream.deposited,
                    toRecipient |-> stream.withdrawn,
                    toSender    |-> stream.refunded]

Holding ==
    balance[Self] =
        IF stream = NoStream THEN strays
        ELSE stream.deposited - stream.withdrawn - stream.refunded + strays + Stranded

\* The inductive invariant.
IInv ==
    /\ TypeOK
    /\ stream # NoStream => Coherent(stream) /\ Entitled
    /\ Moved
    /\ Holding

-----------------------------------------------------------------------------
(* Accrual.                                                                *)

\* accrued_at never fails on a coherent record, stays within what was
\* deposited, and is what the rate has earned (stream/types.rs, accrued_at).
LEMMA AccrualIsEarned ==
    ASSUME NEW s \in Streams, Coherent(s), NEW at \in Nat
    PROVE  /\ AccruedAt(s, at) = Ok(Earned(s, at))
           /\ Earned(s, at) \in 0..s.deposited
<1> DEFINE effective == Smaller(Smaller(at, s.cancelledAt), s.stop)
           elapsed   == effective - s.start
<1>1. /\ s.rate \in Nat /\ s.start \in Nat /\ s.stop \in Nat
      /\ s.cancelledAt \in Nat /\ s.deposited \in 0..I128Max /\ I128Max \in Nat
  BY LedgerAssumption, I128MaxAssumption DEF Streams, Never
<1>2. effective \in Nat /\ effective <= s.stop
  BY <1>1 DEF Smaller
<1> HIDE DEF effective
<1>3. CASE effective <= s.start
  <2>1. Earned(s, at) = 0
    BY <1>3 DEF Earned, effective
  <2>2. AccruedAt(s, at) = Ok(0)
    BY <1>3 DEF AccruedAt, effective
  <2>3. QED
    BY <1>1, <2>1, <2>2
<1>4. CASE effective > s.start
  <2>1. elapsed \in Nat /\ s.stop - s.start \in Nat /\ elapsed <= s.stop - s.start
    BY <1>1, <1>2, <1>4
  <2>2. s.rate * elapsed \in Nat
    BY <1>1, <2>1, SMT
  <2>3. s.rate * elapsed <= s.deposited
    BY <1>1, <2>1, ProductMonotone DEF Coherent
  <2>4. Earned(s, at) = s.rate * elapsed
    BY <1>1, <1>2, <1>4 DEF Earned, effective
  <2>5. Mul(s.rate, elapsed) = Ok(s.rate * elapsed)
    <3>1. s.rate * elapsed \in I128
      BY <1>1, <2>2, <2>3 DEF I128
    <3>2. QED
      BY <3>1 DEF Mul, Checked
  <2>6. AccruedAt(s, at) = Ok(Smaller(s.rate * elapsed, s.deposited))
    <3>1. ~(effective <= s.start)
      BY <1>1, <1>2, <1>4
    <3>2. Mul(s.rate, elapsed).err = "Ok" /\ Mul(s.rate, elapsed).val = s.rate * elapsed
      BY <2>5 DEF Ok
    <3>3. QED
      BY <3>1, <3>2 DEF AccruedAt, effective, elapsed
  <2>7. Smaller(s.rate * elapsed, s.deposited) = s.rate * elapsed
    BY <1>1, <2>2, <2>3 DEF Smaller
  <2>8. QED
    BY <1>1, <2>2, <2>3, <2>4, <2>6, <2>7
<1>5. QED
  BY <1>1, <1>2, <1>3, <1>4

\* Accrual never goes back.
LEMMA EarnedGrows ==
    ASSUME NEW s \in Streams, NEW t \in Nat, NEW u \in Nat, t <= u
    PROVE  Earned(s, t) <= Earned(s, u)
<1> DEFINE e(x) == Smaller(Smaller(x, s.cancelledAt), s.stop)
<1>1. /\ s.rate \in Nat /\ s.start \in Nat /\ s.stop \in Nat
      /\ s.cancelledAt \in Nat
  BY LedgerAssumption, I128MaxAssumption DEF Streams, Never
<1>2. e(t) \in Nat /\ e(u) \in Nat /\ e(t) <= e(u)
  BY <1>1 DEF Smaller
<1>3. Earned(s, t) = (IF e(t) <= s.start THEN 0 ELSE s.rate * (e(t) - s.start))
  BY DEF Earned
<1>4. Earned(s, u) = (IF e(u) <= s.start THEN 0 ELSE s.rate * (e(u) - s.start))
  BY DEF Earned
<1> HIDE DEF e
<1>5. CASE e(u) <= s.start
  BY <1>1, <1>2, <1>3, <1>4, <1>5
<1>6. CASE e(t) <= s.start /\ e(u) > s.start
  <2>1. s.rate * (e(u) - s.start) >= 0
    <3>1. e(u) - s.start \in Nat
      BY <1>1, <1>2, <1>6
    <3>2. QED
      BY <1>1, <3>1, SMT
  <2>2. QED
    BY <1>1, <1>2, <1>3, <1>4, <1>6, <2>1
<1>7. CASE e(t) > s.start
  <2>1. s.rate * (e(t) - s.start) <= s.rate * (e(u) - s.start)
    BY <1>1, <1>2, ProductMonotone
  <2>2. QED
    BY <1>1, <1>2, <1>3, <1>4, <1>7, <2>1
<1>8. QED
  BY <1>1, <1>2, <1>5, <1>6, <1>7

\* Earned reads the terms of the record, never its totals.
LEMMA EarnedReadsTerms ==
    ASSUME NEW s, NEW r, NEW at,
           r.rate = s.rate, r.start = s.start, r.stop = s.stop,
           r.cancelledAt = s.cancelledAt
    PROVE  Earned(r, at) = Earned(s, at)
BY DEF Earned

\* available_at never fails from now on: Underflow is unreachable.
LEMMA AvailableIsEarned ==
    ASSUME IInv, stream # NoStream, NEW at \in Nat, now <= at
    PROVE  /\ AvailableAt(stream, at) = Ok(Earned(stream, at) - stream.withdrawn)
           /\ Earned(stream, at) - stream.withdrawn \in 0..stream.deposited
<1>1. /\ stream \in Streams /\ Coherent(stream) /\ Entitled
      /\ now \in Nat /\ I128Max \in Nat
  BY LedgerAssumption, I128MaxAssumption DEF IInv, TypeOK, LedgerTypeOK
<1>2. stream.withdrawn \in Nat /\ stream.deposited \in 0..I128Max
  BY <1>1 DEF Streams
<1>3. /\ AccruedAt(stream, at) = Ok(Earned(stream, at))
      /\ Earned(stream, at) \in 0..stream.deposited
  BY <1>1, AccrualIsEarned
<1>4. Earned(stream, now) <= Earned(stream, at)
  BY <1>1, EarnedGrows
<1>5. Earned(stream, now) \in 0..stream.deposited
  BY <1>1, AccrualIsEarned
<1>6. stream.withdrawn <= Earned(stream, at)
  BY <1>1, <1>2, <1>3, <1>4, <1>5 DEF Entitled
<1>7. Earned(stream, at) - stream.withdrawn \in I128
  BY <1>1, <1>2, <1>3, <1>6 DEF I128
<1>8. AvailableAt(stream, at) = Ok(Earned(stream, at) - stream.withdrawn)
  <2>1. AccruedAt(stream, at).err = "Ok" /\ AccruedAt(stream, at).val = Earned(stream, at)
    BY <1>3 DEF Ok
  <2>2. ~(stream.withdrawn > Earned(stream, at))
    BY <1>2, <1>3, <1>6
  <2>3. QED
    BY <1>7, <2>1, <2>2 DEF AvailableAt, Sub, Checked
<1>9. QED
  BY <1>2, <1>3, <1>6, <1>8

-----------------------------------------------------------------------------
(* The invariant holds at first and every step keeps it.                   *)

\* The facts about the types that every step uses.
LEMMA Types ==
    ASSUME IInv
    PROVE  /\ now \in 0..U64Max /\ U64Max \in Nat /\ I128Max \in Nat /\ U64Max <= I128Max
           /\ balance \in [Holders -> Nat] /\ strays \in Nat
           /\ Self \in Holders /\ Self \notin Signers /\ Signers \subseteq Holders
           /\ NoStream \notin Streams
           /\ stream # NoStream =>
                  /\ stream \in Streams
                  /\ stream.sender \in Holders /\ stream.sender # Self
                  /\ stream.recipient \in Holders
                  /\ stream.rate \in 1..I128Max
                  /\ stream.start \in 0..U64Max /\ stream.stop \in 0..U64Max
                  /\ stream.deposited \in 0..I128Max
                  /\ stream.withdrawn \in 0..I128Max
                  /\ stream.refunded \in 0..I128Max
                  /\ stream.cancelledAt \in 0..Never
<1>1. stream \in {NoStream} \cup Streams
  BY DEF IInv, TypeOK
<1>2. now \in 0..U64Max /\ balance \in [Holders -> Nat] /\ strays \in Nat
  BY DEF IInv, TypeOK, LedgerTypeOK
<1>3. /\ U64Max \in Nat /\ I128Max \in Nat /\ U64Max <= I128Max /\ NoStream \notin Streams
      /\ Self \in Holders /\ Self \notin Signers /\ Signers \subseteq Holders
  BY LedgerAssumption, I128MaxAssumption, StreamAssumption
<1>4. QED
  BY <1>1, <1>2, <1>3 DEF Streams

LEMMA InitEstablishes == Init => IInv
<1> SUFFICES ASSUME Init PROVE IInv
  OBVIOUS
<1>1. TypeOK
  <2>1. LedgerTypeOK
    BY LedgerAssumption DEF Init, LedgerInit, LedgerTypeOK
  <2>2. QED
    BY <2>1 DEF Init, TypeOK
<1>2. Holding
  BY LedgerAssumption DEF Init, LedgerInit, Holding
<1>3. QED
  BY <1>1, <1>2 DEF Init, IInv, Moved


LEMMA CreateKeeps ==
    ASSUME IInv,
           NEW signer \in Signers, NEW sender \in Holders, NEW recipient \in Holders,
           NEW rate \in Rates, NEW start \in 0..U64Max, NEW stop \in 0..U64Max,
           NEW cancellable \in BOOLEAN,
           Create(signer, sender, recipient, rate, start, stop, cancellable)
    PROVE  IInv'
<1> DEFINE deposited == rate * (stop - start)
<1>1. /\ stream = NoStream /\ sender # recipient /\ rate > 0 /\ stop > start
      /\ Mul(rate, stop - start).err = "Ok" /\ signer = sender
      /\ TransferReply(balance, sender, Self, deposited) = "Ok"
  BY DEF Create, CreateReply, Require, RequireAuth, ??
<1>2. /\ stream' = [sender |-> sender, recipient |-> recipient, rate |-> rate,
                    start |-> start, stop |-> stop, cancellable |-> cancellable,
                    deposited |-> deposited, withdrawn |-> 0, refunded |-> 0,
                    cancelledAt |-> Never]
      /\ balance' = Transferred(balance, sender, Self, deposited)
      /\ flows' = [flows EXCEPT !.pulled = @ + deposited]
      /\ signedBy' = signer
      /\ UNCHANGED <<now, frozen, strays>>
  BY DEF Create
<1>3. /\ now \in Nat /\ U64Max \in Nat /\ I128Max \in Nat /\ rate \in Int
      /\ strays \in Nat /\ balance \in [Holders -> Nat]
      /\ Self \in Holders /\ Self \notin Signers /\ NoStream \notin Streams
  BY Types, StreamAssumption DEF I128
<1>4. deposited \in 0..I128Max
  <2>1. Mul(rate, stop - start) = Checked(deposited, "Overflow")
    BY DEF Mul
  <2>2. deposited \in I128
    BY <1>1, <2>1 DEF Checked, Err
  <2>3. deposited \in 0..balance[sender]
    BY <1>1, TransferAccepted
  <2>4. QED
    BY <1>3, <2>2, <2>3 DEF I128
<1>5. deposited \in 0..balance[sender]
  BY <1>1, TransferAccepted
<1> HIDE DEF deposited
<1>6. stream' \in Streams
  <2>1. rate \in 1..I128Max
    BY <1>1, <1>3, StreamAssumption DEF I128
  <2>2. Never \in 0..Never
    BY <1>3 DEF Never
  <2>3. sender \in Signers
    BY <1>1
  <2>4. QED
    BY <1>2, <1>3, <1>4, <2>1, <2>2, <2>3 DEF Streams
<1>7. flows' = [pulled |-> deposited, toRecipient |-> 0, toSender |-> 0]
  BY <1>1, <1>2, <1>4 DEF IInv, Moved
<1>8. balance' \in [Holders -> Nat] /\ balance'[Self] = balance[Self] + deposited
  <2>1. sender # Self
    BY <1>1, <1>3
  <2>2. balance[Self] \in Nat /\ deposited \in Int
    BY <1>3, <1>4
  <2>3. QED
    BY <1>2, <1>3, <1>5, <2>1, <2>2, TransferMoves
<1>9. TypeOK'
  <2>1. LedgerTypeOK'
    BY <1>2, <1>8 DEF IInv, TypeOK, LedgerTypeOK
  <2>2. flows' \in [pulled : Nat, toRecipient : Nat, toSender : Nat]
    BY <1>3, <1>4, <1>7
  <2>3. QED
    BY <1>2, <1>6, <2>1, <2>2 DEF TypeOK
<1>10. Coherent(stream')
  BY <1>1, <1>2 DEF Coherent, deposited
<1>11. Entitled'
  <2>1. Earned(stream', now') \in 0..stream'.deposited
    BY <1>2, <1>3, <1>6, <1>10, AccrualIsEarned
  <2>2. ~IsCancelled(stream')
    BY <1>2 DEF IsCancelled
  <2>3. stream'.withdrawn = 0 /\ stream'.refunded = 0
    BY <1>2
  <2>4. QED
    BY <1>2, <1>4, <2>1, <2>2, <2>3 DEF Entitled
<1>12. Moved'
  BY <1>2, <1>3, <1>6, <1>7 DEF Moved
<1>13. Holding'
  <2>1. balance[Self] = strays
    BY <1>1 DEF IInv, Holding
  <2>2. Stranded' = 0
    BY <1>7 DEF Stranded
  <2>3. stream' # NoStream /\ stream'.deposited = deposited
        /\ stream'.withdrawn = 0 /\ stream'.refunded = 0 /\ strays' = strays
    BY <1>2, <1>3, <1>6
  <2>4. QED
    BY <1>3, <1>4, <1>8, <2>1, <2>2, <2>3 DEF Holding
<1>14. QED
  BY <1>9, <1>10, <1>11, <1>12, <1>13 DEF IInv

LEMMA WithdrawKeeps ==
    ASSUME IInv, NEW signer \in Signers, NEW requested, Withdraw(signer, requested)
    PROVE  IInv'
<1>1. /\ stream # NoStream
      /\ signer = stream.recipient
      /\ requested > 0 /\ requested <= AvailableAt(stream, now).val
      /\ TransferReply(balance, Self, stream.recipient, requested) = "Ok"
  BY DEF Withdraw, WithdrawReply, Load, Require, RequireAuth, ??
<1>2. /\ stream' = [stream EXCEPT !.withdrawn = @ + requested]
      /\ balance' = Transferred(balance, Self, stream.recipient, requested)
      /\ flows' = [flows EXCEPT !.toRecipient = @ + requested]
      /\ signedBy' = signer
      /\ UNCHANGED <<now, frozen, strays>>
  BY DEF Withdraw
<1>3. /\ stream \in Streams /\ Coherent(stream) /\ Entitled /\ Moved /\ Holding
      /\ now \in Nat /\ I128Max \in Nat /\ strays \in Nat
      /\ balance \in [Holders -> Nat] /\ Self \in Holders /\ Self \notin Signers
      /\ NoStream \notin Streams /\ stream.recipient \in Holders
      /\ stream.withdrawn \in Nat /\ stream.deposited \in 0..I128Max
      /\ stream.refunded \in Nat
  BY <1>1, Types DEF IInv
<1>4. requested \in 0..balance[Self]
  BY <1>1, TransferAccepted
<1>5. requested \in Nat
  BY <1>3, <1>4
<1>6. /\ requested <= Earned(stream, now) - stream.withdrawn
      /\ Earned(stream, now) \in 0..stream.deposited
  <2>1. AvailableAt(stream, now).val = Earned(stream, now) - stream.withdrawn
    BY <1>1, <1>3, AvailableIsEarned DEF Ok
  <2>2. QED
    BY <1>1, <1>3, <2>1, AccrualIsEarned
<1>7. stream' \in Streams /\ stream'.withdrawn = stream.withdrawn + requested
  <2>1. stream.withdrawn + requested \in 0..I128Max
    BY <1>3, <1>5, <1>6
  <2>2. QED
    BY <1>2, <1>3, <2>1 DEF Streams
<1>8. \A f \in {"sender", "recipient", "rate", "start", "stop", "deposited", "refunded",
                "cancelledAt"} : stream'[f] = stream[f]
  BY <1>2, <1>3 DEF Streams
<1>9. Earned(stream', now') = Earned(stream, now)
  BY <1>2, <1>8, EarnedReadsTerms
<1>10. ~IsCancelled(stream)
  <2>1. SUFFICES ASSUME IsCancelled(stream) PROVE FALSE
    OBVIOUS
  <2>2. stream.cancelledAt <= now /\ stream.withdrawn = Earned(stream, stream.cancelledAt)
    BY <1>3, <2>1 DEF Entitled
  <2>3. stream.cancelledAt \in Nat /\ stream.stop \in Nat
    BY <1>3, Types DEF Streams, Never
  <2>4. Earned(stream, now) = Earned(stream, stream.cancelledAt)
    BY <1>3, <2>2, <2>3 DEF Earned, Smaller
  <2>5. QED
    BY <1>1, <1>3, <1>5, <1>6, <2>2, <2>4
<1>11. flows' = [pulled      |-> stream'.deposited,
                 toRecipient |-> stream'.withdrawn,
                 toSender    |-> stream'.refunded]
  BY <1>1, <1>2, <1>3, <1>7, <1>8 DEF Moved
<1>12. /\ balance' \in [Holders -> Nat]
       /\ balance'[Self] = balance[Self] - requested
                           + (IF stream.recipient = Self THEN requested ELSE 0)
  BY <1>2, <1>3, <1>4, TransferMoves
<1>13. TypeOK'
  <2>1. LedgerTypeOK'
    BY <1>2, <1>12 DEF IInv, TypeOK, LedgerTypeOK
  <2>2. flows' \in [pulled : Nat, toRecipient : Nat, toSender : Nat]
    BY <1>3, <1>5, <1>7, <1>8, <1>11
  <2>3. QED
    BY <1>2, <1>7, <2>1, <2>2 DEF TypeOK
<1>14. Coherent(stream')
  BY <1>3, <1>8 DEF Coherent
<1>15. Entitled'
  <2>1. ~IsCancelled(stream')
    BY <1>8, <1>10 DEF IsCancelled
  <2>2. stream'.refunded = 0
    BY <1>3, <1>8, <1>10 DEF Entitled
  <2>3. stream'.withdrawn <= Earned(stream', now')
    BY <1>3, <1>5, <1>6, <1>7, <1>9
  <2>4. QED
    BY <2>1, <2>2, <2>3 DEF Entitled
<1>16. Holding'
  <2>1. balance[Self] = stream.deposited - stream.withdrawn - stream.refunded
                        + strays + Stranded
    BY <1>1, <1>3 DEF Holding
  <2>2. Stranded = IF stream.recipient = Self THEN stream.withdrawn ELSE 0
    BY <1>1, <1>3 DEF Stranded, Moved
  <2>3. Stranded' = IF stream.recipient = Self THEN stream'.withdrawn ELSE 0
    BY <1>8, <1>11 DEF Stranded
  <2>4. balance[Self] \in Nat /\ stream' # NoStream /\ strays' = strays
    BY <1>2, <1>3, <1>7
  <2>5. QED
    BY <1>3, <1>5, <1>7, <1>8, <1>12, <2>1, <2>2, <2>3, <2>4 DEF Holding
<1>17. Moved'
  BY <1>3, <1>7, <1>11 DEF Moved
<1>18. QED
  BY <1>13, <1>14, <1>15, <1>16, <1>17 DEF IInv

LEMMA CancelKeeps ==
    ASSUME IInv, NEW signer \in Signers, Cancel(signer)
    PROVE  IInv'
<1> DEFINE x == Settled.val
           y == Refund.val
<1>1. /\ stream # NoStream
      /\ ~IsCancelled(stream)
      /\ Refund.err = "Ok"
      /\ PayBothReply(stream.recipient, x, stream.sender, y) = "Ok"
  BY DEF Cancel, CancelReply, Load, Require, ??
<1>2. /\ stream' = [stream EXCEPT !.withdrawn   = @ + x,
                                  !.refunded    = y,
                                  !.cancelledAt = now]
      /\ balance' = PaidBoth(stream.recipient, x, stream.sender, y)
      /\ flows' = [flows EXCEPT !.toRecipient = @ + x, !.toSender = @ + y]
      /\ signedBy' = signer
      /\ UNCHANGED <<now, frozen, strays>>
  BY DEF Cancel
<1>3. /\ stream \in Streams /\ Coherent(stream) /\ Entitled /\ Moved /\ Holding
      /\ now \in 0..U64Max /\ U64Max \in Nat /\ I128Max \in Nat /\ strays \in Nat
      /\ balance \in [Holders -> Nat] /\ Self \in Holders /\ Self \notin Signers
      /\ NoStream \notin Streams /\ stream.recipient \in Holders
      /\ stream.sender \in Holders /\ stream.sender # Self
      /\ stream.withdrawn \in Nat /\ stream.deposited \in 0..I128Max
      /\ stream.refunded = 0 /\ stream.stop \in Nat
      /\ stream.cancelledAt = Never
  BY <1>1, Types DEF IInv, Entitled, IsCancelled
<1>4. /\ x = Earned(stream, now) - stream.withdrawn
      /\ x \in 0..stream.deposited
      /\ Earned(stream, now) \in 0..stream.deposited
  <2>1. now \in Nat /\ now <= now
    BY <1>3
  <2>2. Settled = Ok(Earned(stream, now) - stream.withdrawn)
        /\ Earned(stream, now) - stream.withdrawn \in 0..stream.deposited
    BY <1>1, <2>1, AvailableIsEarned DEF Settled
  <2>3. QED
    BY <1>3, <2>1, <2>2, AccrualIsEarned DEF Ok
<1>5. y = stream.deposited - (stream.withdrawn + x) /\ y \in 0..stream.deposited
  <2>1. y = stream.deposited - (stream.withdrawn + x)
    BY <1>1 DEF Refund, Sub, Checked, Ok, Err
  <2>2. QED
    BY <1>3, <1>4, <2>1
<1>6. x \in Nat /\ y \in Nat
  BY <1>3, <1>4, <1>5
<1> HIDE DEF x, y
<1>7. /\ stream' \in Streams
      /\ stream'.withdrawn = stream.withdrawn + x
      /\ stream'.refunded = y
      /\ stream'.cancelledAt = now
  <2>1. stream.withdrawn + x \in 0..I128Max /\ y \in 0..I128Max /\ now \in 0..Never
    BY <1>3, <1>4, <1>5 DEF Never
  <2>2. QED
    BY <1>2, <1>3, <2>1 DEF Streams
<1>8. \A f \in {"sender", "recipient", "rate", "start", "stop", "deposited"} :
          stream'[f] = stream[f]
  BY <1>2, <1>3 DEF Streams
<1>9. Earned(stream', now) = Earned(stream, now)
  <2>1. Smaller(now, stream'.cancelledAt) = Smaller(now, stream.cancelledAt)
    BY <1>3, <1>7 DEF Smaller, Never
  <2>2. QED
    BY <1>8, <2>1 DEF Earned
<1>10. flows' = [pulled      |-> stream'.deposited,
                 toRecipient |-> stream'.withdrawn,
                 toSender    |-> stream'.refunded]
  <2>1. flows = [pulled |-> stream.deposited, toRecipient |-> stream.withdrawn,
                 toSender |-> 0]
    BY <1>1, <1>3 DEF Moved
  <2>2. flows' = [pulled |-> stream.deposited, toRecipient |-> stream.withdrawn + x,
                  toSender |-> 0 + y]
    BY <1>2, <2>1
  <2>3. 0 + y = y
    BY <1>6
  <2>4. QED
    BY <1>7, <1>8, <2>2, <2>3
<1>11. /\ balance' \in [Holders -> Nat]
       /\ balance'[Self] = balance[Self] - (IF stream.recipient = Self THEN 0 ELSE x) - y
  <2>1. PayBothReply(stream.recipient, x, stream.sender, y) = "Ok"
    BY <1>1 DEF x, y
  <2>2. /\ PaidBoth(stream.recipient, x, stream.sender, y) \in [Holders -> Nat]
        /\ PaidBoth(stream.recipient, x, stream.sender, y)[Self] =
               balance[Self] - (IF stream.recipient = Self THEN 0 ELSE x)
                             - (IF stream.sender = Self THEN 0 ELSE y)
    BY <1>3, <1>6, <2>1, PaidBothMoves
  <2>3. QED
    BY <1>2, <1>3, <2>2
<1>12. TypeOK'
  <2>1. LedgerTypeOK'
    BY <1>2, <1>11 DEF IInv, TypeOK, LedgerTypeOK
  <2>2. flows' \in [pulled : Nat, toRecipient : Nat, toSender : Nat]
    BY <1>3, <1>6, <1>7, <1>8, <1>10
  <2>3. QED
    BY <1>2, <1>7, <2>1, <2>2 DEF TypeOK
<1>13. Coherent(stream')
  BY <1>3, <1>8 DEF Coherent
<1>14. Entitled'
  <2>1. stream'.withdrawn = Earned(stream', now)
    BY <1>3, <1>4, <1>7, <1>9
  <2>2. stream'.withdrawn + stream'.refunded = stream'.deposited
    BY <1>3, <1>4, <1>5, <1>7, <1>8
  <2>3. now' = now /\ stream'.cancelledAt = now /\ now # Never /\ now <= now
    BY <1>2, <1>3, <1>7 DEF Never
  <2>4. stream'.withdrawn <= Earned(stream', now')
    BY <1>3, <1>4, <2>1, <2>3, <1>9
  <2>5. IsCancelled(stream')
    BY <2>3 DEF IsCancelled
  <2>6. QED
    BY <2>1, <2>2, <2>3, <2>4, <2>5 DEF Entitled
<1>15. Moved'
  BY <1>3, <1>7, <1>10 DEF Moved
<1>16. Holding'
  <2>1. balance[Self] = stream.deposited - stream.withdrawn - stream.refunded
                        + strays + Stranded
    BY <1>1, <1>3 DEF Holding
  <2>2. Stranded = IF stream.recipient = Self THEN stream.withdrawn ELSE 0
    BY <1>1, <1>3 DEF Stranded, Moved
  <2>3. Stranded' = IF stream.recipient = Self THEN stream'.withdrawn ELSE 0
    BY <1>8, <1>10 DEF Stranded
  <2>4. balance[Self] \in Nat /\ stream' # NoStream /\ strays' = strays
    BY <1>2, <1>3, <1>7
  <2>5. /\ stream.deposited \in Int /\ stream.withdrawn \in Int /\ x \in Int /\ y \in Int
        /\ stream'.deposited = stream.deposited /\ stream.recipient \in Holders
        /\ strays \in Int
    BY <1>1, <1>3, <1>6, <1>8 DEF IInv, TypeOK, LedgerTypeOK
  <2>6. CASE stream.recipient = Self
    BY <1>3, <1>5, <1>7, <1>11, <2>1, <2>2, <2>3, <2>4, <2>5, <2>6 DEF Holding
  <2>7. CASE stream.recipient # Self
    BY <1>3, <1>5, <1>7, <1>11, <2>1, <2>2, <2>3, <2>4, <2>5, <2>7 DEF Holding
  <2>8. QED
    BY <2>6, <2>7
<1>17. QED
  BY <1>12, <1>13, <1>14, <1>15, <1>16 DEF IInv

\* top_up and extend: a longer, paid-for span whose past accrual stands.
LEMMA LengthenKeeps ==
    ASSUME IInv, NEW signer \in Signers, NEW newStop, NEW added,
           stream # NoStream, ~IsCancelled(stream), signer = stream.sender,
           newStop \in 0..U64Max, newStop > stream.stop,
           added = stream.rate * (newStop - stream.stop),
           stream.deposited + added \in I128,
           TransferReply(balance, stream.sender, Self, added) = "Ok",
           Lengthen(signer, newStop, added)
    PROVE  IInv'
<1>1. /\ stream' = [stream EXCEPT !.stop = newStop, !.deposited = @ + added]
      /\ balance' = Transferred(balance, stream.sender, Self, added)
      /\ flows' = [flows EXCEPT !.pulled = @ + added]
      /\ signedBy' = signer
      /\ UNCHANGED <<now, frozen, strays>>
  BY DEF Lengthen
<1>2. /\ stream \in Streams /\ Coherent(stream) /\ Entitled /\ Moved /\ Holding
      /\ now \in 0..U64Max /\ U64Max \in Nat /\ I128Max \in Nat /\ strays \in Nat
      /\ balance \in [Holders -> Nat] /\ Self \in Holders
      /\ NoStream \notin Streams
      /\ stream.sender \in Holders /\ stream.sender # Self
      /\ stream.withdrawn \in Nat /\ stream.deposited \in 0..I128Max
      /\ stream.refunded = 0 /\ stream.stop \in Nat /\ stream.start \in Nat
      /\ stream.rate \in Nat /\ stream.cancelledAt = Never
  BY Types DEF IInv, Entitled, IsCancelled
<1>3. added \in 0..balance[stream.sender]
  BY TransferAccepted
<1>4. added \in Nat
  BY <1>2, <1>3
<1>5. stream' \in Streams /\ stream'.stop = newStop /\ stream'.deposited = stream.deposited + added
  <2>1. stream.deposited + added \in 0..I128Max
    BY <1>2, <1>4 DEF I128
  <2>2. QED
    BY <1>1, <1>2, <2>1 DEF Streams
<1>6. \A f \in {"sender", "recipient", "rate", "start", "withdrawn", "refunded", "cancelledAt"} :
          stream'[f] = stream[f]
  BY <1>1, <1>2 DEF Streams
<1>7. Coherent(stream')
  <2>1. stream.rate * (newStop - stream.start) =
            stream.rate * (stream.stop - stream.start) + stream.rate * (newStop - stream.stop)
    <3>1. newStop \in Int
      BY <1>2
    <3>2. QED
      BY <1>2, <3>1
  <2>2. QED
    BY <1>2, <1>5, <1>6, <2>1 DEF Coherent
<1>8. Earned(stream, now) <= Earned(stream', now)
  <2> DEFINE e == Smaller(Smaller(now, stream.cancelledAt), stream.stop)
             n == Smaller(Smaller(now, stream.cancelledAt), newStop)
  <2>1. e \in Nat /\ n \in Nat /\ e <= n
    BY <1>2 DEF Smaller, Never
  <2>2. Earned(stream, now) = (IF e <= stream.start THEN 0 ELSE stream.rate * (e - stream.start))
    BY DEF Earned
  <2>3. Earned(stream', now) = (IF n <= stream.start THEN 0 ELSE stream.rate * (n - stream.start))
    BY <1>5, <1>6 DEF Earned
  <2> HIDE DEF e, n
  <2>4. n > stream.start => stream.rate * (n - stream.start) >= 0
    <3>1. n > stream.start => n - stream.start \in Nat
      BY <1>2, <2>1
    <3>2. QED
      BY <1>2, <3>1, SMT
  <2>5. stream.rate * (e - stream.start) <= stream.rate * (n - stream.start)
    BY <1>2, <2>1, ProductMonotone
  <2>6. QED
    BY <1>2, <2>1, <2>2, <2>3, <2>4, <2>5
<1>9. flows' = [pulled      |-> stream'.deposited,
                toRecipient |-> stream'.withdrawn,
                toSender    |-> stream'.refunded]
  BY <1>1, <1>2, <1>5, <1>6 DEF Moved
<1>10. balance' \in [Holders -> Nat] /\ balance'[Self] = balance[Self] + added
  <2>1. balance[Self] \in Nat
    BY <1>2
  <2>2. QED
    BY <1>1, <1>2, <1>3, <1>4, <2>1, TransferMoves
<1>11. TypeOK'
  <2>1. LedgerTypeOK'
    BY <1>1, <1>10 DEF IInv, TypeOK, LedgerTypeOK
  <2>2. flows' \in [pulled : Nat, toRecipient : Nat, toSender : Nat]
    BY <1>2, <1>4, <1>5, <1>6, <1>9
  <2>3. QED
    BY <1>1, <1>5, <2>1, <2>2 DEF TypeOK
<1>12. Entitled'
  <2>1. ~IsCancelled(stream')
    BY <1>6 DEF IsCancelled
  <2>2. stream.withdrawn <= Earned(stream, now)
    BY <1>2 DEF Entitled
  <2>3. Earned(stream, now) \in Int /\ Earned(stream', now) \in Int
    <3>1. now \in Nat /\ stream'.deposited \in Int /\ stream.deposited \in Int
      BY <1>2, <1>4, <1>5
    <3>2. QED
      BY <1>2, <1>5, <1>7, <3>1, AccrualIsEarned
  <2>4. QED
    BY <1>1, <1>2, <1>6, <1>8, <2>1, <2>2, <2>3 DEF Entitled
<1>13. Moved'
  BY <1>2, <1>5, <1>9 DEF Moved
<1>14. Holding'
  <2>1. balance[Self] = stream.deposited - stream.withdrawn - stream.refunded
                        + strays + Stranded
    BY <1>2 DEF Holding
  <2>2. Stranded = IF stream.recipient = Self THEN stream.withdrawn ELSE 0
    BY <1>2 DEF Stranded, Moved
  <2>3. Stranded' = IF stream.recipient = Self THEN stream.withdrawn ELSE 0
    BY <1>6, <1>9 DEF Stranded
  <2>4. stream' # NoStream /\ strays' = strays
    BY <1>1, <1>2, <1>5
  <2>5. QED
    BY <1>2, <1>4, <1>5, <1>6, <1>10, <2>1, <2>2, <2>3, <2>4 DEF Holding
<1>15. QED
  BY <1>7, <1>11, <1>12, <1>13, <1>14 DEF IInv

LEMMA TopUpKeeps ==
    ASSUME IInv, NEW signer \in Signers, NEW amount \in Amounts, TopUp(signer, amount)
    PROVE  IInv'
<1> DEFINE seconds == amount \div stream.rate
           newStop == stream.stop + seconds
<1>1. /\ stream # NoStream /\ ~IsCancelled(stream) /\ signer = stream.sender
      /\ amount > 0 /\ amount % stream.rate = 0 /\ newStop <= U64Max
      /\ Add(stream.deposited, amount).err = "Ok"
      /\ TransferReply(balance, stream.sender, Self, amount) = "Ok"
      /\ Lengthen(signer, newStop, amount)
  BY DEF TopUp, TopUpReply, Load, Require, RequireAuth, ??
<1>2. /\ amount \in Int /\ stream.rate \in 1..I128Max /\ I128Max \in Nat
      /\ U64Max \in Nat /\ stream.stop \in 0..U64Max
  BY <1>1, Types, StreamAssumption DEF I128
<1>3. stream.rate \in Nat /\ stream.rate > 0
  BY <1>2
<1>4. seconds \in Nat /\ seconds > 0 /\ amount = stream.rate * seconds
  BY <1>1, <1>2, <1>3, DivisionExact
<1>6. newStop \in 0..U64Max /\ newStop > stream.stop /\ newStop - stream.stop = seconds
  <2> HIDE DEF seconds
  <2> QED
    BY <1>1, <1>2, <1>4
<1>7. stream.deposited + amount \in I128
  BY <1>1 DEF Add, Checked, Err
<1> HIDE DEF seconds, newStop
<1>8. amount = stream.rate * (newStop - stream.stop)
  BY <1>4, <1>6
<1>9. QED
  BY <1>1, <1>6, <1>7, <1>8, LengthenKeeps

LEMMA ExtendKeeps ==
    ASSUME IInv, NEW signer \in Signers, NEW newStop \in 0..U64Max, Extend(signer, newStop)
    PROVE  IInv'
<1> DEFINE added == stream.rate * (newStop - stream.stop)
<1>1. /\ stream # NoStream /\ ~IsCancelled(stream) /\ signer = stream.sender
      /\ newStop > stream.stop
      /\ Mul(stream.rate, newStop - stream.stop).err = "Ok"
      /\ Add(stream.deposited, Mul(stream.rate, newStop - stream.stop).val).err = "Ok"
      /\ TransferReply(balance, stream.sender, Self,
                       Mul(stream.rate, newStop - stream.stop).val) = "Ok"
      /\ Lengthen(signer, newStop, added)
  BY DEF Extend, ExtendReply, Load, Require, RequireAuth, ??
<1>2. Mul(stream.rate, newStop - stream.stop).val = added
  BY <1>1 DEF Mul, Checked, Ok, Err
<1>3. stream.deposited + added \in I128
  BY <1>1, <1>2 DEF Add, Checked, Err
<1>4. QED
  BY <1>1, <1>2, <1>3, LengthenKeeps

LEMMA LedgerKeeps ==
    ASSUME IInv, LedgerNext, UNCHANGED contractVars
    PROVE  IInv'
<1>1. stream' = stream /\ flows' = flows /\ signedBy' = signedBy
  BY DEF contractVars
<1>2. /\ now \in 0..U64Max /\ balance \in [Holders -> Nat] /\ strays \in Nat
      /\ frozen \in SUBSET Freezable /\ U64Max \in Nat
      /\ Self \in Holders /\ Self \notin Signers /\ Signers \subseteq Holders
  BY LedgerAssumption DEF IInv, TypeOK, LedgerTypeOK
<1>3. ASSUME LedgerTypeOK', now <= now',
             balance'[Self] - strays' = balance[Self] - strays,
             balance'[Self] \in Nat, strays' \in Nat
      PROVE  IInv'
  <2>1. TypeOK'
    BY <1>1, <1>3 DEF IInv, TypeOK
  <2>2. Moved'
    BY <1>1 DEF IInv, Moved
  <2>3. Holding'
    <3>1. balance[Self] \in Nat /\ balance'[Self] = balance[Self] - strays + strays'
      BY <1>2, <1>3
    <3>2. Stranded' = Stranded
      BY <1>1 DEF Stranded
    <3>3. Holding
      BY DEF IInv
    <3>4. CASE stream = NoStream
      <4>1. balance[Self] = strays
        BY <3>3, <3>4 DEF Holding
      <4>2. balance'[Self] = strays'
        <5>1. balance'[Self] - strays' = 0
          BY <1>2, <1>3, <4>1
        <5>2. QED
          BY <1>3, <5>1
      <4>3. QED
        BY <1>1, <3>4, <4>2 DEF Holding
    <3>5. CASE stream # NoStream
      <4>1. /\ stream.deposited \in Int /\ stream.withdrawn \in Int
            /\ stream.refunded \in Int /\ Stranded \in Int
        BY <3>5, Types DEF IInv, Moved, Stranded
      <4>2. QED
        BY <1>1, <1>2, <1>3, <3>1, <3>2, <3>3, <3>5, <4>1 DEF Holding
    <3>6. QED
      BY <3>4, <3>5
  <2>4. stream # NoStream => Coherent(stream') /\ Entitled'
    <3>1. SUFFICES ASSUME stream # NoStream PROVE Coherent(stream') /\ Entitled'
      OBVIOUS
    <3>2. stream \in Streams /\ Coherent(stream) /\ Entitled
      BY <3>1, Types DEF IInv
    <3>3. now' \in 0..U64Max
      BY <1>3 DEF LedgerTypeOK
    <3>4. Earned(stream, now) <= Earned(stream, now')
      BY <1>2, <1>3, <3>2, <3>3, EarnedGrows
    <3>5. /\ Earned(stream, now) \in 0..stream.deposited
          /\ Earned(stream, now') \in 0..stream.deposited
      BY <1>2, <3>2, <3>3, AccrualIsEarned
    <3>6. stream.withdrawn \in Nat /\ stream.deposited \in Nat /\ stream.cancelledAt \in Int
      BY <1>2, <3>1, Types DEF Never
    <3>7. stream.withdrawn <= Earned(stream, now')
      BY <3>2, <3>4, <3>5, <3>6 DEF Entitled
    <3>8. IsCancelled(stream) => stream.cancelledAt <= now'
      BY <1>2, <1>3, <3>2, <3>3, <3>6 DEF Entitled
    <3>9. QED
      BY <1>1, <3>2, <3>7, <3>8 DEF Entitled
  <2>5. QED
    BY <1>1, <2>1, <2>2, <2>3, <2>4 DEF IInv
<1>4. CASE CloseLedger
  <2>1. now' \in 0..U64Max /\ now <= now' /\ UNCHANGED <<balance, frozen, strays>>
    BY <1>2, <1>4 DEF CloseLedger
  <2>2. QED
    BY <1>2, <1>3, <2>1 DEF LedgerTypeOK
<1>5. CASE SetFrozen
  <2>1. frozen' \in SUBSET Freezable /\ UNCHANGED <<now, balance, strays>>
    BY <1>5 DEF SetFrozen
  <2>2. QED
    BY <1>2, <1>3, <2>1 DEF LedgerTypeOK
<1>6. CASE Stray
  <2>1. PICK from \in Signers :
            /\ TransferReply(balance, from, Self, 1) = "Ok"
            /\ balance' = Transferred(balance, from, Self, 1)
            /\ strays' = strays + 1
            /\ UNCHANGED <<now, frozen>>
    BY <1>6 DEF Stray
  <2>2. 1 \in 0..balance[from] /\ from \in Holders /\ from # Self
    BY <1>2, <2>1, TransferAccepted
  <2>3. balance' \in [Holders -> Nat] /\ balance'[Self] = balance[Self] + 1
    <3>1. balance[Self] \in Nat
      BY <1>2
    <3>2. QED
      BY <1>2, <2>1, <2>2, <3>1, TransferMoves
  <2>4. balance[Self] \in Nat /\ balance'[Self] \in Nat
    BY <1>2, <2>3
  <2>5. QED
    BY <1>2, <1>3, <2>1, <2>3, <2>4 DEF LedgerTypeOK
<1>7. QED
  BY <1>4, <1>5, <1>6 DEF LedgerNext

\* One step per disjunct of the next-state relation.
LEMMA StepKeeps == IInv /\ [Next]_vars => IInv'
<1> SUFFICES ASSUME IInv, [Next]_vars PROVE IInv'
  OBVIOUS
<1>1. ASSUME NEW signer \in Signers, Creates(signer) PROVE IInv'
  BY <1>1, CreateKeeps DEF Creates
<1>2. ASSUME NEW signer \in Signers, WithdrawAll(signer) PROVE IInv'
  BY <1>2, WithdrawKeeps DEF WithdrawAll
<1>3. ASSUME NEW signer \in Signers, NEW amount \in Amounts, Withdraw(signer, amount)
      PROVE  IInv'
  BY <1>3, WithdrawKeeps
<1>4. ASSUME NEW signer \in Signers, Cancel(signer) PROVE IInv'
  BY <1>4, CancelKeeps
<1>5. ASSUME NEW signer \in Signers, NEW amount \in Amounts, TopUp(signer, amount)
      PROVE  IInv'
  BY <1>5, TopUpKeeps
<1>6. ASSUME NEW signer \in Signers, NEW newStop \in 0..U64Max, Extend(signer, newStop)
      PROVE  IInv'
  BY <1>6, ExtendKeeps
<1>7. CASE LedgerNext /\ UNCHANGED contractVars
  BY <1>7, LedgerKeeps
<1>8. CASE UNCHANGED vars
  <2>1. /\ UNCHANGED <<now, balance, frozen, strays>>
        /\ UNCHANGED <<stream, flows, signedBy>>
    BY <1>8 DEF vars, ledgerVars, contractVars
  <2>2. TypeOK'
    BY <2>1 DEF IInv, TypeOK, LedgerTypeOK
  <2>3. (stream # NoStream => Coherent(stream) /\ Entitled)'
    BY <2>1 DEF IInv, Coherent, Entitled, IsCancelled, Earned, Smaller
  <2>4. Moved' /\ Holding'
    BY <2>1 DEF IInv, Moved, Holding, Stranded
  <2>5. QED
    BY <2>2, <2>3, <2>4 DEF IInv
<1>9. QED
  BY <1>1, <1>2, <1>3, <1>4, <1>5, <1>6, <1>7, <1>8 DEF Next, Calls

THEOREM Invariance == Spec => []IInv
<1>1. Init => IInv
  BY InitEstablishes
<1>2. IInv /\ [Next]_vars => IInv'
  BY StepKeeps
<1>3. QED
  BY <1>1, <1>2, PTL DEF Spec

-----------------------------------------------------------------------------
(* What the invariant gives.                                               *)

\* What remaining() returns while the invariant holds.
LEMMA RemainingIsLeft ==
    ASSUME IInv, stream # NoStream
    PROVE  /\ Remaining(stream) =
                  Ok(stream.deposited - stream.withdrawn - stream.refunded)
           /\ stream.deposited - stream.withdrawn - stream.refunded \in 0..stream.deposited
<1>1. /\ stream \in Streams /\ Coherent(stream) /\ Entitled
      /\ now \in Nat /\ I128Max \in Nat
      /\ stream.deposited \in 0..I128Max /\ stream.withdrawn \in Nat
      /\ stream.refunded \in Nat
  BY Types DEF IInv
<1>2. Earned(stream, now) \in 0..stream.deposited
  BY <1>1, AccrualIsEarned
<1>3. stream.withdrawn + stream.refunded <= stream.deposited
  BY <1>1, <1>2 DEF Entitled
<1>4. /\ stream.deposited - stream.withdrawn \in I128
      /\ stream.deposited - stream.withdrawn - stream.refunded \in I128
  BY <1>1, <1>3 DEF I128
<1>5. QED
  BY <1>1, <1>3, <1>4 DEF Remaining, Sub, Checked, Ok

\* The types of all variables (contracts/stream/src/types.rs).
THEOREM TypeCorrect == Spec => []TypeOK
<1>1. IInv => TypeOK
  BY DEF IInv
<1>2. QED
  BY <1>1, Invariance, PTL

\* deposited is always rate * (stop - start), and the record tells what the
\* token moved, whatever top-ups, extensions and cancellations came before.
THEOREM FundingHolds == Spec => []FullyFunded
<1>1. IInv => FullyFunded
  BY DEF IInv, FullyFunded, Coherent, Moved
<1>2. QED
  BY <1>1, Invariance, PTL

\* The contract always holds what `remaining` reports.
THEOREM SolvencyHolds == Spec => []Solvency
<1>1. IInv => Solvency
  <2> SUFFICES ASSUME IInv PROVE Solvency
    OBVIOUS
  <2>1. stream # NoStream =>
            Remaining(stream).val = stream.deposited - stream.withdrawn - stream.refunded
    BY RemainingIsLeft DEF Ok
  <2>2. QED
    BY <2>1 DEF IInv, Holding, Solvency
<1>2. QED
  BY <1>1, Invariance, PTL

\* From now on the two balance_of views never fail and add up to `remaining`.
THEOREM AccountsHold == Spec => []AccountsAddUp
<1>1. IInv => AccountsAddUp
  <2> SUFFICES ASSUME IInv, stream # NoStream, NEW t \in now..U64Max
               PROVE  /\ BalanceOf(stream, stream.recipient, t).err = "Ok"
                      /\ BalanceOf(stream, stream.sender, t).err = "Ok"
                      /\ Remaining(stream).err = "Ok"
                      /\ BalanceOf(stream, stream.recipient, t).val >= 0
                      /\ BalanceOf(stream, stream.sender, t).val >= 0
                      /\ BalanceOf(stream, stream.recipient, t).val
                             + BalanceOf(stream, stream.sender, t).val
                         = Remaining(stream).val
    BY DEF AccountsAddUp
  <2>1. /\ stream \in Streams /\ Coherent(stream) /\ Entitled
        /\ now \in Nat /\ t \in Nat /\ now <= t /\ I128Max \in Nat
        /\ stream.deposited \in 0..I128Max /\ stream.withdrawn \in Nat
        /\ stream.refunded \in Nat /\ stream.cancelledAt \in Nat /\ stream.stop \in Nat
        /\ U64Max \in Nat
    BY Types DEF IInv, Never
  <2>2. /\ AvailableAt(stream, t) = Ok(Earned(stream, t) - stream.withdrawn)
        /\ Earned(stream, t) - stream.withdrawn \in 0..stream.deposited
    BY <2>1, AvailableIsEarned
  <2>3. /\ AccruedAt(stream, t) = Ok(Earned(stream, t))
        /\ Earned(stream, t) \in 0..stream.deposited
    BY <2>1, AccrualIsEarned
  <2>4. /\ Remaining(stream) = Ok(stream.deposited - stream.withdrawn - stream.refunded)
        /\ stream.deposited - stream.withdrawn - stream.refunded \in 0..stream.deposited
    BY RemainingIsLeft
  <2>5. stream.refunded <= stream.deposited - Earned(stream, t)
    <3>1. CASE ~IsCancelled(stream)
      BY <2>1, <2>3, <3>1 DEF Entitled
    <3>2. CASE IsCancelled(stream)
      <4>1. /\ stream.cancelledAt <= t
            /\ stream.withdrawn = Earned(stream, stream.cancelledAt)
            /\ stream.withdrawn + stream.refunded = stream.deposited
        BY <2>1, <3>2 DEF Entitled
      <4>2. Earned(stream, t) = Earned(stream, stream.cancelledAt)
        BY <2>1, <4>1 DEF Earned, Smaller
      <4>3. QED
        BY <2>1, <4>1, <4>2
    <3>3. QED
      BY <3>1, <3>2
  <2>6. /\ BalanceOf(stream, stream.recipient, t).err = "Ok"
        /\ BalanceOf(stream, stream.recipient, t).val = Earned(stream, t) - stream.withdrawn
    BY <2>2 DEF BalanceOf, Ok
  <2>7. /\ BalanceOf(stream, stream.sender, t).err = "Ok"
        /\ BalanceOf(stream, stream.sender, t).val =
               stream.deposited - Earned(stream, t) - stream.refunded
    <3>1. /\ stream.deposited - Earned(stream, t) \in I128
          /\ stream.deposited - Earned(stream, t) - stream.refunded \in I128
      BY <2>1, <2>3, <2>5 DEF I128
    <3>2. AccruedAt(stream, t).err = "Ok" /\ AccruedAt(stream, t).val = Earned(stream, t)
      BY <2>3 DEF Ok
    <3>3. Sub(stream.deposited, Earned(stream, t)).err = "Ok"
          /\ Sub(stream.deposited, Earned(stream, t)).val = stream.deposited - Earned(stream, t)
      BY <3>1 DEF Sub, Checked, Ok
    <3>4. Sub(stream.deposited - Earned(stream, t), stream.refunded)
              = Ok(stream.deposited - Earned(stream, t) - stream.refunded)
      BY <3>1 DEF Sub, Checked
    <3>5. QED
      BY <2>1, <3>2, <3>3, <3>4 DEF BalanceOf, Coherent, Ok
  <2>8. Remaining(stream).err = "Ok"
        /\ Remaining(stream).val = stream.deposited - stream.withdrawn - stream.refunded
    BY <2>4 DEF Ok
  <2>9. QED
    BY <2>1, <2>2, <2>3, <2>5, <2>6, <2>7, <2>8
<1>2. QED
  BY <1>1, Invariance, PTL

\* What is available is covered by the balance, and once cancelled nothing is
\* available.
LEMMA AvailableIsCovered ==
    ASSUME IInv, stream # NoStream
    PROVE  LET a == Earned(stream, now) - stream.withdrawn
           IN  /\ AvailableAt(stream, now) = Ok(a)
               /\ Earned(stream, now) \in 0..stream.deposited
               /\ a \in Nat
               /\ IsCancelled(stream) => a = 0
               /\ ~IsCancelled(stream) =>
                      balance[Self] >= stream.deposited - stream.withdrawn
<1>1. /\ stream \in Streams /\ Coherent(stream) /\ Entitled /\ Holding
      /\ now \in Nat /\ I128Max \in Nat /\ U64Max \in Nat
      /\ stream.deposited \in Nat /\ stream.withdrawn \in Nat
      /\ stream.cancelledAt \in Nat /\ stream.stop \in Nat /\ strays \in Nat
  BY Types DEF IInv, Never
<1>2. /\ AvailableAt(stream, now) = Ok(Earned(stream, now) - stream.withdrawn)
      /\ Earned(stream, now) - stream.withdrawn \in 0..stream.deposited
  BY <1>1, AvailableIsEarned
<1>3. Earned(stream, now) \in 0..stream.deposited
  BY <1>1, AccrualIsEarned
<1>4. ASSUME IsCancelled(stream) PROVE Earned(stream, now) - stream.withdrawn = 0
  <2>1. /\ stream.cancelledAt <= now
        /\ stream.withdrawn = Earned(stream, stream.cancelledAt)
    BY <1>1, <1>4 DEF Entitled
  <2>2. Earned(stream, now) = Earned(stream, stream.cancelledAt)
    BY <1>1, <2>1 DEF Earned, Smaller
  <2>3. QED
    BY <1>1, <1>3, <2>1, <2>2
<1>5. ASSUME ~IsCancelled(stream)
      PROVE  balance[Self] >= stream.deposited - stream.withdrawn
  <2>1. stream.refunded = 0
    BY <1>1, <1>5 DEF Entitled
  <2>2. Stranded \in Nat
    BY DEF IInv, TypeOK, Stranded
  <2>3. balance[Self] =
            stream.deposited - stream.withdrawn - stream.refunded + strays + Stranded
    BY <1>1 DEF Holding
  <2>4. QED
    BY <1>1, <2>1, <2>2, <2>3
<1>6. QED
  BY <1>2, <1>3, <1>4, <1>5

\* The parties can always use the stream: no overflow, underflow or shortage
\* ever blocks a withdrawal of what is available or a cancellation.
THEOREM NeverBrickedHolds == Spec => []NeverBricked
<1>1. IInv => NeverBricked
  <2> SUFFICES ASSUME IInv, stream # NoStream, frozen = {} PROVE NeverBricked
    BY DEF NeverBricked
  <2> DEFINE a == Earned(stream, now) - stream.withdrawn
             y == stream.deposited - Earned(stream, now)
  <2>1. /\ stream.deposited \in 0..I128Max /\ stream.withdrawn \in Nat
        /\ I128Max \in Nat /\ balance \in [Holders -> Nat] /\ Self \in Holders
        /\ stream.recipient \in Holders /\ stream.sender \in Holders
    BY Types
  <2>2. /\ AvailableAt(stream, now) = Ok(a)
        /\ Earned(stream, now) \in 0..stream.deposited
        /\ a \in Nat
        /\ IsCancelled(stream) => a = 0
        /\ ~IsCancelled(stream) => balance[Self] >= stream.deposited - stream.withdrawn
    BY AvailableIsCovered
  <2>3. AvailableAt(stream, now).err = "Ok" /\ AvailableAt(stream, now).val = a
    BY <2>2 DEF Ok
  <2>4. Add(stream.withdrawn, a).err = "Ok"
    <3>1. stream.withdrawn + a = Earned(stream, now)
      BY <2>1, <2>2
    <3>2. Earned(stream, now) \in I128
      BY <2>1, <2>2 DEF I128
    <3>3. QED
      BY <3>1, <3>2 DEF Add, Checked, Ok
  <2>5. ASSUME a > 0
        PROVE  TransferReply(balance, Self, stream.recipient, a) = "Ok"
    <3>1. balance[Self] \in Nat /\ a <= balance[Self]
      BY <2>1, <2>2, <2>5
    <3>2. QED
      BY <2>2, <3>1 DEF TransferReply
  <2>6. ASSUME a > 0 PROVE WithdrawReply(stream.recipient, a) = "Ok"
    <3>1. a <= a
      BY <2>2
    <3> HIDE DEF a
    <3>2. QED
      BY <2>3, <2>4, <2>5, <2>6, <3>1
      DEF WithdrawReply, Load, Require, RequireAuth, ??
  <2>7. ASSUME stream.cancellable, ~IsCancelled(stream)
        PROVE  CancelReply(stream.sender) = "Ok"
    <3>1. Settled.err = "Ok" /\ Settled.val = a
      BY <2>3 DEF Settled
    <3>2. Refund.err = "Ok" /\ Refund.val = y /\ y \in Nat
      <4>1. stream.deposited - (stream.withdrawn + a) = y /\ y \in Nat /\ y \in I128
        BY <2>1, <2>2 DEF I128
      <4>2. QED
        BY <3>1, <4>1 DEF Refund, Sub, Checked, Ok
    <3>3. PayBothReply(stream.recipient, a, stream.sender, y) = "Ok"
      <4> DEFINE left == Transferred(balance, Self, stream.recipient, a)
      <4>1. balance[Self] \in Nat /\ a \in 0..balance[Self]
        BY <2>1, <2>2, <2>7
      <4>2. /\ left \in [Holders -> Nat]
            /\ left[Self] = balance[Self] - a + (IF Self = stream.recipient THEN a ELSE 0)
        BY <2>1, <4>1, TransferMoves
      <4>3. y <= left[Self]
        BY <2>1, <2>2, <2>7, <4>1, <4>2
      <4> HIDE DEF a, y, left
      <4>4. y \in 0..left[Self]
        BY <2>1, <3>2, <4>2, <4>3
      <4>5. TransferReply(left, Self, stream.sender, y) = "Ok"
        BY <4>4 DEF TransferReply
      <4>6. QED
        BY <2>5, <4>5 DEF PayBothReply, left
    <3> HIDE DEF a, y
    <3>4. QED
      BY <2>4, <2>7, <3>1, <3>2, <3>3
      DEF CancelReply, Load, Require, RequireAuth, ??
  <2>8. QED
    BY <2>3, <2>6, <2>7 DEF NeverBricked
<1>2. QED
  BY <1>1, Invariance, PTL

-----------------------------------------------------------------------------
(* What a step does, and what it may never do.                             *)

\* The kinds of step: one that leaves the stream alone, its creation, a
\* withdrawal, the cancellation, and a longer span.
Untouched == stream' = stream /\ flows' = flows

Creating ==
    /\ stream = NoStream /\ stream' # NoStream /\ stream'.cancelledAt = Never
    /\ \E paid \in Nat \ {0} :
           flows' = [pulled |-> paid, toRecipient |-> 0, toSender |-> 0]

Withdrawing ==
    \E x \in Nat \ {0} :
        /\ x <= stream.deposited - stream.withdrawn
        /\ stream' = [stream EXCEPT !.withdrawn = @ + x]
        /\ flows' = [flows EXCEPT !.toRecipient = @ + x]

Cancelling ==
    LET earned == Earned(stream, now)
    IN  /\ stream.cancellable
        /\ signedBy' = stream.sender
        /\ stream' = [stream EXCEPT !.withdrawn   = earned,
                                    !.refunded    = stream.deposited - earned,
                                    !.cancelledAt = now]
        /\ flows' = [flows EXCEPT !.toRecipient = earned,
                                  !.toSender    = stream.deposited - earned]

Lengthening ==
    \E newStop \in 0..U64Max, added \in Nat \ {0} :
        /\ newStop > stream.stop
        /\ stream' = [stream EXCEPT !.stop = newStop, !.deposited = @ + added]
        /\ flows' = [flows EXCEPT !.pulled = @ + added]

\* A product of positive factors is positive.
LEMMA ProductPositive ==
    ASSUME NEW a \in Nat, a > 0, NEW b \in Nat, b > 0
    PROVE  a * b \in Nat /\ a * b > 0
<1>1. a * 1 <= a * b
  BY ProductMonotone
<1>2. QED
  BY <1>1

LEMMA Effects ==
    ASSUME IInv, [Next]_vars
    PROVE  \/ Untouched
           \/ Creating
           \/ /\ stream # NoStream /\ ~IsCancelled(stream)
              /\ Withdrawing \/ Cancelling \/ Lengthening
<1>1. ASSUME NEW signer \in Signers, Creates(signer) PROVE Creating
  <2>1. PICK sender \in Holders, recipient \in Holders, rate \in Rates,
             start \in 0..U64Max, stop \in 0..U64Max, cancellable \in BOOLEAN :
                 Create(signer, sender, recipient, rate, start, stop, cancellable)
    BY <1>1 DEF Creates
  <2>2. /\ stream = NoStream /\ rate > 0 /\ stop > start
        /\ stream'.cancelledAt = Never
        /\ flows' = [flows EXCEPT !.pulled = @ + rate * (stop - start)]
    BY <2>1 DEF Create, CreateReply, Require, RequireAuth, ??
  <2>3. rate \in Nat /\ stop - start \in Nat /\ stop - start > 0
    BY <2>2, StreamAssumption, Types DEF I128
  <2>4. rate * (stop - start) \in Nat /\ rate * (stop - start) > 0
    BY <2>2, <2>3, ProductPositive
  <2>5. flows = [pulled |-> 0, toRecipient |-> 0, toSender |-> 0]
    BY <2>2 DEF IInv, Moved
  <2>6. flows' = [pulled |-> 0 + rate * (stop - start), toRecipient |-> 0, toSender |-> 0]
    BY <2>2, <2>5
  <2>7. stream' # NoStream
    <3>1. IInv'
      BY <2>1, CreateKeeps
    <3>2. flows'.pulled # 0
      BY <2>4, <2>6
    <3>3. QED
      BY <3>1, <3>2 DEF IInv, Moved
  <2>8. 0 + rate * (stop - start) = rate * (stop - start)
    BY <2>4
  <2>9. PICK paid \in Nat : paid = rate * (stop - start)
    BY <2>4
  <2>10. flows' = [pulled |-> paid, toRecipient |-> 0, toSender |-> 0]
    BY <2>6, <2>8, <2>9
  <2>11. paid \in Nat \ {0}
    BY <2>4, <2>9
  <2>12. \E p \in Nat \ {0} : flows' = [pulled |-> p, toRecipient |-> 0, toSender |-> 0]
    BY <2>10, <2>11
  <2>13. QED
    BY <2>2, <2>7, <2>12 DEF Creating
<1>2. ASSUME NEW signer \in Signers, NEW requested, Withdraw(signer, requested)
      PROVE  stream # NoStream /\ ~IsCancelled(stream) /\ Withdrawing
  <2>1. /\ stream # NoStream
        /\ requested > 0 /\ requested <= AvailableAt(stream, now).val
        /\ TransferReply(balance, Self, stream.recipient, requested) = "Ok"
        /\ stream' = [stream EXCEPT !.withdrawn = @ + requested]
        /\ flows' = [flows EXCEPT !.toRecipient = @ + requested]
    BY <1>2 DEF Withdraw, WithdrawReply, Load, Require, RequireAuth, ??
  <2>2. /\ stream \in Streams /\ Coherent(stream) /\ Entitled /\ now \in Nat
        /\ stream.withdrawn \in Nat /\ stream.deposited \in Nat
        /\ stream.cancelledAt \in Nat /\ stream.stop \in Nat
        /\ balance \in [Holders -> Nat] /\ Self \in Holders
    BY <2>1, Types DEF IInv, Never
  <2>3. requested \in Nat
    BY <2>1, <2>2, TransferAccepted
  <2>4. AvailableAt(stream, now).val = Earned(stream, now) - stream.withdrawn
        /\ Earned(stream, now) \in 0..stream.deposited
    BY <2>1, <2>2, AvailableIsEarned, AccrualIsEarned DEF Ok
  <2>5. requested <= stream.deposited - stream.withdrawn
    BY <2>1, <2>2, <2>3, <2>4
  <2>6. ~IsCancelled(stream)
    <3>1. SUFFICES ASSUME IsCancelled(stream) PROVE FALSE
      OBVIOUS
    <3>2. stream.cancelledAt <= now /\ stream.withdrawn = Earned(stream, stream.cancelledAt)
      BY <2>2, <3>1 DEF Entitled
    <3>3. Earned(stream, now) = Earned(stream, stream.cancelledAt)
      BY <2>2, <3>2 DEF Earned, Smaller
    <3>4. QED
      BY <2>1, <2>2, <2>3, <2>4, <3>2, <3>3
  <2>7. QED
    BY <2>1, <2>3, <2>5, <2>6 DEF Withdrawing
<1>3. ASSUME NEW signer \in Signers, Cancel(signer)
      PROVE  stream # NoStream /\ ~IsCancelled(stream) /\ Cancelling
  <2>1. /\ stream # NoStream /\ ~IsCancelled(stream) /\ stream.cancellable
        /\ signer = stream.sender /\ signedBy' = signer
        /\ stream' = [stream EXCEPT !.withdrawn   = @ + Settled.val,
                                    !.refunded    = Refund.val,
                                    !.cancelledAt = now]
        /\ flows' = [flows EXCEPT !.toRecipient = @ + Settled.val,
                                  !.toSender    = @ + Refund.val]
        /\ Refund.err = "Ok"
    BY <1>3 DEF Cancel, CancelReply, Load, Require, RequireAuth, ??
  <2>2. /\ stream \in Streams /\ Coherent(stream) /\ Moved /\ now \in Nat
        /\ stream.withdrawn \in Nat /\ stream.deposited \in Nat /\ stream.refunded = 0
    BY <2>1, Types DEF IInv, Entitled
  <2>3. Settled.val = Earned(stream, now) - stream.withdrawn
        /\ Earned(stream, now) \in 0..stream.deposited
    BY <2>1, <2>2, AvailableIsEarned, AccrualIsEarned DEF Settled, Ok
  <2>4. stream.withdrawn + Settled.val = Earned(stream, now)
    BY <2>2, <2>3
  <2>5. Refund.val = stream.deposited - Earned(stream, now)
    BY <2>1, <2>4 DEF Refund, Sub, Checked, Ok, Err
  <2>6. flows.toRecipient = stream.withdrawn /\ flows.toSender = 0
        /\ flows = [pulled |-> stream.deposited, toRecipient |-> stream.withdrawn,
                    toSender |-> 0]
    BY <2>1, <2>2 DEF Moved
  <2>7. 0 + (stream.deposited - Earned(stream, now)) = stream.deposited - Earned(stream, now)
    BY <2>2, <2>3
  <2>8. flows' = [flows EXCEPT !.toRecipient = Earned(stream, now),
                               !.toSender    = stream.deposited - Earned(stream, now)]
    BY <2>1, <2>4, <2>5, <2>6, <2>7
  <2>9. stream' = [stream EXCEPT !.withdrawn   = Earned(stream, now),
                                 !.refunded    = stream.deposited - Earned(stream, now),
                                 !.cancelledAt = now]
    BY <2>1, <2>2, <2>4, <2>5 DEF Streams
  <2>10. QED
    BY <2>1, <2>8, <2>9 DEF Cancelling
<1>4. ASSUME NEW signer \in Signers, NEW newStop \in 0..U64Max,
             stream # NoStream, newStop > stream.stop,
             NEW added, added = stream.rate * (newStop - stream.stop),
             Lengthen(signer, newStop, added)
      PROVE  Lengthening
  <2>1. stream.rate \in Nat /\ stream.rate > 0 /\ newStop - stream.stop \in Nat
        /\ newStop - stream.stop > 0
    BY <1>4, Types
  <2>2. added \in Nat /\ added > 0
    BY <1>4, <2>1, ProductPositive
  <2>3. newStop > stream.stop
    BY <1>4
  <2>4. /\ stream' = [stream EXCEPT !.stop = newStop, !.deposited = @ + added]
        /\ flows' = [flows EXCEPT !.pulled = @ + added]
    BY <1>4 DEF Lengthen
  <2>5. added \in Nat \ {0}
    BY <2>2
  <2>6. QED
    BY <2>3, <2>4, <2>5, Zenon DEF Lengthening
<1>5. ASSUME NEW signer \in Signers, NEW amount \in Amounts, TopUp(signer, amount)
      PROVE  stream # NoStream /\ ~IsCancelled(stream) /\ Lengthening
  <2> DEFINE seconds == amount \div stream.rate
  <2>1. /\ stream # NoStream /\ ~IsCancelled(stream)
        /\ amount > 0 /\ amount % stream.rate = 0 /\ stream.stop + seconds <= U64Max
        /\ Lengthen(signer, stream.stop + seconds, amount)
    BY <1>5 DEF TopUp, TopUpReply, Load, Require, RequireAuth, ??
  <2>2. /\ amount \in Int /\ stream.rate \in Nat /\ stream.rate > 0
        /\ U64Max \in Nat /\ stream.stop \in Nat
    BY <2>1, Types, StreamAssumption DEF I128
  <2>3. seconds \in Nat /\ seconds > 0 /\ amount = stream.rate * seconds
    BY <2>1, <2>2, DivisionExact
  <2> HIDE DEF seconds
  <2>4. PICK newStop \in 0..U64Max : newStop = stream.stop + seconds
    BY <2>1, <2>2, <2>3
  <2>5. newStop > stream.stop /\ newStop - stream.stop = seconds
    BY <2>2, <2>3, <2>4
  <2>6. amount = stream.rate * (newStop - stream.stop)
    BY <2>3, <2>5
  <2>7. Lengthen(signer, newStop, amount)
    BY <2>1, <2>4
  <2>8. Lengthening
    BY <1>4, <2>1, <2>5, <2>6, <2>7
  <2>9. QED
    BY <2>1, <2>8
<1>6. ASSUME NEW signer \in Signers, NEW newStop \in 0..U64Max, Extend(signer, newStop)
      PROVE  stream # NoStream /\ ~IsCancelled(stream) /\ Lengthening
  <2>1. /\ stream # NoStream /\ ~IsCancelled(stream) /\ newStop > stream.stop
        /\ Lengthen(signer, newStop, stream.rate * (newStop - stream.stop))
    BY <1>6 DEF Extend, ExtendReply, Load, Require, RequireAuth, ??
  <2>2. QED
    BY <1>4, <2>1
<1>7. CASE UNCHANGED contractVars
  BY <1>7 DEF contractVars, Untouched
<1>8. QED
  BY <1>1, <1>2, <1>3, <1>5, <1>6, <1>7 DEF Next, Calls, WithdrawAll, vars

\* A stored stream stays stored: what it pulled is never given back.
LEMMA StaysStored ==
    /\ IInv /\ IInv' /\ stream # NoStream
    /\ Withdrawing \/ Cancelling \/ Lengthening
    => stream' # NoStream
<1> SUFFICES ASSUME IInv, IInv', stream # NoStream,
                    Withdrawing \/ Cancelling \/ Lengthening
             PROVE  stream' # NoStream
  OBVIOUS
<1>1. /\ stream \in Streams /\ Coherent(stream) /\ I128Max \in Nat
      /\ stream.rate \in Nat /\ stream.rate > 0
      /\ stream.stop - stream.start \in Nat /\ stream.stop - stream.start > 0
  BY Types DEF IInv, Coherent
<1>2. stream.deposited \in Nat /\ stream.deposited > 0
  BY <1>1, ProductPositive DEF Coherent
<1>3. flows = [pulled      |-> stream.deposited,
               toRecipient |-> stream.withdrawn,
               toSender    |-> stream.refunded]
  BY DEF IInv, Moved
<1>4. flows'.pulled >= stream.deposited
  <2>1. CASE Withdrawing
    BY <1>2, <1>3, <2>1 DEF Withdrawing
  <2>2. CASE Cancelling
    BY <1>2, <1>3, <2>2 DEF Cancelling
  <2>3. CASE Lengthening
    <3>1. PICK added \in Nat \ {0} : flows' = [flows EXCEPT !.pulled = @ + added]
      BY <2>3 DEF Lengthening
    <3>2. flows'.pulled = stream.deposited + added
      BY <1>3, <3>1
    <3>3. QED
      BY <1>2, <3>1, <3>2
  <2>4. QED
    BY <2>1, <2>2, <2>3
<1>5. flows'.pulled # 0
  BY <1>2, <1>4
<1>6. stream' = NoStream => flows'.pulled = 0
  BY DEF IInv, Moved
<1>7. QED
  BY <1>5, <1>6

\* Accrual up to the stop does not depend on where the stop is, and a later
\* stop never lowers it.
LEMMA LongerSpanEarnsOn ==
    ASSUME NEW s \in Streams, NEW r \in Streams, NEW t \in Nat,
           r.rate = s.rate, r.start = s.start, r.cancelledAt = s.cancelledAt,
           r.stop >= s.stop
    PROVE  /\ t <= s.stop => Earned(r, t) = Earned(s, t)
           /\ Earned(r, t) >= Earned(s, t)
<1> DEFINE e == Smaller(Smaller(t, s.cancelledAt), s.stop)
           n == Smaller(Smaller(t, s.cancelledAt), r.stop)
<1>1. /\ s.rate \in Nat /\ s.start \in Nat /\ s.stop \in Nat /\ r.stop \in Nat
      /\ s.cancelledAt \in Nat
  BY LedgerAssumption, I128MaxAssumption DEF Streams, Never
<1>2. e \in Nat /\ n \in Nat /\ e <= n /\ (t <= s.stop => e = n)
  BY <1>1 DEF Smaller
<1>3. Earned(s, t) = (IF e <= s.start THEN 0 ELSE s.rate * (e - s.start))
  BY DEF Earned
<1>4. Earned(r, t) = (IF n <= s.start THEN 0 ELSE s.rate * (n - s.start))
  BY DEF Earned
<1> HIDE DEF e, n
<1>5. s.rate * (e - s.start) <= s.rate * (n - s.start)
  BY <1>1, <1>2, ProductMonotone
<1>6. n > s.start => s.rate * (n - s.start) >= 0
  <2>1. n > s.start => s.rate * 0 <= s.rate * (n - s.start)
    BY <1>1, <1>2, ProductMonotone
  <2>2. s.rate * 0 = 0
    BY <1>1
  <2>3. QED
    BY <2>1, <2>2
<1>7. s.rate * (e - s.start) \in Int /\ s.rate * (n - s.start) \in Int
  BY <1>1, <1>2
<1>8. Earned(r, t) >= Earned(s, t)
  BY <1>1, <1>2, <1>3, <1>4, <1>5, <1>6, <1>7
<1>9. t <= s.stop => Earned(r, t) = Earned(s, t)
  BY <1>2, <1>3, <1>4
<1>10. QED
  BY <1>8, <1>9

\* What the recipient has been promised is never taken back.
THEOREM PromiseHolds == Spec => PromiseKept
<1>1. IInv /\ IInv' /\ [Next]_vars => [Promise]_vars
  <2> SUFFICES ASSUME IInv, IInv', [Next]_vars, stream # NoStream PROVE Promise
    BY DEF Promise
  <2>1. /\ stream \in Streams /\ Coherent(stream) /\ now \in Nat /\ U64Max \in Nat
        /\ stream.stop \in Nat /\ stream.deposited \in 0..I128Max /\ I128Max \in Nat
    BY Types DEF IInv
  <2>2. ASSUME NEW t \in Nat
        PROVE  /\ AccruedAt(stream, t).val = Earned(stream, t)
               /\ Earned(stream, t) \in Int
               /\ stream' # NoStream => /\ AccruedAt(stream', t).val = Earned(stream', t)
                                        /\ Earned(stream', t) \in Int
    <3>1. AccruedAt(stream, t).val = Earned(stream, t) /\ Earned(stream, t) \in Int
      BY <2>1, AccrualIsEarned DEF Ok
    <3>2. ASSUME stream' # NoStream
          PROVE  AccruedAt(stream', t).val = Earned(stream', t) /\ Earned(stream', t) \in Int
      <4>1. stream' \in Streams /\ Coherent(stream') /\ stream'.deposited \in Int
        BY <3>2 DEF IInv, TypeOK, Streams
      <4>2. QED
        BY <4>1, AccrualIsEarned DEF Ok
    <3>3. QED
      BY <3>1, <3>2
  <2>3. CASE Untouched
    <3>1. stream' = stream
      BY <2>3 DEF Untouched
    <3>2. \A t \in 0..U64Max : AccruedAt(stream, t).val \in Int
      BY <2>1, <2>2
    <3>3. QED
      BY <3>1, <3>2 DEF Promise
  <2>4. CASE ~IsCancelled(stream) /\ (Withdrawing \/ Lengthening)
    <3>1. /\ stream' \in Streams
          /\ \A f \in {"sender", "recipient", "rate", "start", "cancellable"} :
                 stream'[f] = stream[f]
          /\ stream'.rate = stream.rate /\ stream'.start = stream.start
          /\ stream'.cancelledAt = stream.cancelledAt /\ stream'.stop >= stream.stop
      <4>1. stream' # NoStream
        BY <2>4, StaysStored
      <4>2. stream' \in Streams
        BY <4>1 DEF IInv, TypeOK
      <4>3. CASE Withdrawing
        BY <2>1, <4>2, <4>3 DEF Withdrawing, Streams
      <4>4. CASE Lengthening
        BY <2>1, <4>2, <4>4 DEF Lengthening, Streams
      <4>5. QED
        BY <2>4, <4>3, <4>4
    <3>2. ~IsCancelled(stream) /\ ~IsCancelled(stream')
      BY <2>4, <3>1 DEF IsCancelled
    <3>3. ASSUME NEW t \in 0..U64Max
          PROVE  /\ AccruedAt(stream', t).val >= AccruedAt(stream, t).val
                 /\ t <= stream.stop => AccruedAt(stream', t).val = AccruedAt(stream, t).val
      <4>1. t \in Nat /\ stream' # NoStream
        BY <2>1, <3>1, Types
      <4>2. QED
        BY <2>1, <2>2, <3>1, <4>1, LongerSpanEarnsOn
    <3>4. QED
      BY <3>1, <3>2, <3>3 DEF Promise
  <2>5. CASE ~IsCancelled(stream) /\ Cancelling
    <3>1. /\ \A f \in {"sender", "recipient", "rate", "start", "cancellable"} :
                 stream'[f] = stream[f]
          /\ stream'.rate = stream.rate /\ stream'.start = stream.start
          /\ stream'.stop = stream.stop /\ stream'.cancelledAt = now
          /\ stream.cancellable /\ signedBy' = stream.sender
      BY <2>1, <2>5 DEF Cancelling, Streams
    <3>2. flows'.toRecipient = Earned(stream, now)
      <4>1. flows \in [pulled : Nat, toRecipient : Nat, toSender : Nat]
        BY DEF IInv, TypeOK
      <4>2. QED
        BY <2>5, <4>1 DEF Cancelling
    <3>3. stream.cancelledAt = Never /\ now <= U64Max /\ now # Never
      BY <2>1, <2>5, Types DEF IsCancelled, Never
    <3>4. ASSUME NEW t \in 0..U64Max
          PROVE  AccruedAt(stream', t).val = AccruedAt(stream, Smaller(t, now)).val
      <4>1. t \in Nat /\ Smaller(t, now) \in Nat /\ stream' # NoStream
        <5>1. stream' # NoStream
          BY <2>5, StaysStored
        <5>2. QED
          BY <2>1, <5>1 DEF Smaller
      <4>2. Smaller(t, stream'.cancelledAt) = Smaller(Smaller(t, now), stream.cancelledAt)
        BY <2>1, <3>1, <3>3 DEF Smaller, Never
      <4>3. Earned(stream', t) = Earned(stream, Smaller(t, now))
        BY <3>1, <4>2 DEF Earned
      <4>4. QED
        BY <2>2, <4>1, <4>3
    <3>5. AccruedAt(stream, now).val = Earned(stream, now)
      BY <2>1, <2>2
    <3>6. IsCancelled(stream') /\ ~IsCancelled(stream)
      BY <2>5, <3>1, <3>3 DEF IsCancelled
    <3>7. QED
      BY <3>1, <3>2, <3>4, <3>5, <3>6 DEF Promise
  <2>6. QED
    BY <2>3, <2>4, <2>5, Effects DEF Creating
<1>2. QED
  BY <1>1, Invariance, PTL DEF Spec, PromiseKept

\* The stream implements Custody.
THEOREM Refinement == Spec => ImplementsCustody
<1>1. Init => Custody!Init
  BY DEF Init, Custody!Init
<1>2. IInv /\ [Next]_vars => [Custody!Next]_Custody!custodyVars
  <2> SUFFICES ASSUME IInv, [Next]_vars PROVE Custody!Next \/ UNCHANGED Custody!custodyVars
    OBVIOUS
  <2>1. CASE Untouched
    BY <2>1 DEF Untouched, Custody!custodyVars, IsCancelled
  <2>2. CASE Creating
    <3>1. flows = [pulled |-> 0, toRecipient |-> 0, toSender |-> 0]
      BY <2>2 DEF Creating, IInv, Moved
    <3>2. flows'.pulled > 0 /\ flows'.toRecipient = 0 /\ flows'.toSender = 0
      BY <2>2 DEF Creating
    <3>3. ~IsCancelled(stream') /\ stream = NoStream
      BY <2>2 DEF Creating, IsCancelled
    <3>4. Custody!Pull
      BY <3>1, <3>2, <3>3 DEF Custody!Pull
    <3>5. QED
      BY <3>4 DEF Custody!Next
  <2>3. ASSUME stream # NoStream, ~IsCancelled(stream)
        PROVE  /\ stream \in Streams /\ Coherent(stream) /\ now \in Nat
               /\ stream.deposited \in Nat /\ stream.withdrawn \in Nat
               /\ flows = [pulled |-> stream.deposited, toRecipient |-> stream.withdrawn,
                           toSender |-> 0]
               /\ stream.withdrawn <= Earned(stream, now)
               /\ Earned(stream, now) \in 0..stream.deposited
               /\ stream.cancelledAt = Never /\ now # Never
    <3>1. /\ stream \in Streams /\ Coherent(stream) /\ now \in Nat /\ now <= U64Max
          /\ U64Max \in Nat /\ stream.deposited \in Nat /\ stream.withdrawn \in Nat
      BY <2>3, Types DEF IInv
    <3>2. QED
      BY <2>3, <3>1, AccrualIsEarned DEF IInv, Moved, Entitled, IsCancelled, Never
  <2>4. CASE stream # NoStream /\ ~IsCancelled(stream) /\ Withdrawing
    <3>1. PICK x \in Nat \ {0} :
              /\ x <= stream.deposited - stream.withdrawn
              /\ stream' = [stream EXCEPT !.withdrawn = @ + x]
              /\ flows' = [flows EXCEPT !.toRecipient = @ + x]
      BY <2>4 DEF Withdrawing
    <3>2. stream'.cancelledAt = stream.cancelledAt
      BY <2>3, <2>4, <3>1 DEF Streams
    <3>3. /\ flows'.toRecipient = flows.toRecipient + x
          /\ flows'.pulled = flows.pulled /\ flows'.toSender = flows.toSender
      BY <2>3, <2>4, <3>1
    <3>4. Custody!Pay
      BY <2>3, <2>4, <3>1, <3>2, <3>3 DEF Custody!Pay, Custody!Left, IsCancelled
    <3>5. QED
      BY <3>4 DEF Custody!Next
  <2>5. CASE stream # NoStream /\ ~IsCancelled(stream) /\ Lengthening
    <3>1. PICK newStop \in 0..U64Max, added \in Nat \ {0} :
              /\ stream' = [stream EXCEPT !.stop = newStop, !.deposited = @ + added]
              /\ flows' = [flows EXCEPT !.pulled = @ + added]
      BY <2>5 DEF Lengthening
    <3>2. stream'.cancelledAt = stream.cancelledAt
      BY <2>3, <2>5, <3>1 DEF Streams
    <3>3. /\ flows'.pulled = flows.pulled + added
          /\ flows'.toRecipient = flows.toRecipient /\ flows'.toSender = flows.toSender
      BY <2>3, <2>5, <3>1
    <3>4. Custody!Pull
      BY <2>3, <2>5, <3>1, <3>2, <3>3 DEF Custody!Pull, IsCancelled
    <3>5. QED
      BY <3>4 DEF Custody!Next
  <2>6. CASE stream # NoStream /\ ~IsCancelled(stream) /\ Cancelling
    <3>1. stream'.cancelledAt = now
      BY <2>3, <2>6 DEF Cancelling, Streams
    <3>2. /\ flows'.pulled = flows.pulled
          /\ flows'.toRecipient = Earned(stream, now)
          /\ flows'.toSender = stream.deposited - Earned(stream, now)
      BY <2>3, <2>6 DEF Cancelling
    <3>3. stream' # NoStream
      <4>1. IInv'
        BY StepKeeps
      <4>2. QED
        BY <2>3, <2>6, <4>1, StaysStored
    <3>4. Custody!Close
      BY <2>3, <2>6, <3>1, <3>2, <3>3 DEF Custody!Close, Custody!Left, IsCancelled
    <3>5. QED
      BY <3>4 DEF Custody!Next
  <2>7. QED
    BY <2>1, <2>2, <2>4, <2>5, <2>6, Effects
<1>3. QED
  BY <1>1, <1>2, Invariance, PTL DEF Spec, ImplementsCustody, Custody!Spec

-----------------------------------------------------------------------------
(* Liveness.  ENABLED is beyond the provers, so the fairness of LiveSpec is *)
(* stated with the checks of the code in its place.                         *)

\* A stream whose recipient can sign.
Signable == stream # NoStream /\ stream.recipient \in Signers

\* Such a stream has accrued x.
HasAccrued(x) == Signable /\ Earned(stream, now) >= x

\* withdraw(None) would accept the recipient's call.
WithdrawalAccepted ==
    Signable /\ WithdrawReply(stream.recipient, AvailableAt(stream, now).val) = "Ok"

RecipientWithdraws == \E s \in Signers : WithdrawAll(s)

\* Strong fairness: the recipient does not give up.
RecipientPersists == []<>WithdrawalAccepted => []<><<RecipientWithdraws>>_vars

\* No step takes time back.
LEMMA TimeGoesOn ==
    ASSUME IInv, [Next]_vars
    PROVE  /\ now \in Nat /\ now' \in Nat /\ now <= now'
           /\ now = U64Max => now' = U64Max
<1>1. now \in 0..U64Max /\ U64Max \in Nat
  BY Types
<1>2. CASE Calls
  <2>1. ASSUME NEW signer \in Signers, Creates(signer) PROVE now' = now
    BY <2>1 DEF Creates, Create
  <2>2. ASSUME NEW signer \in Signers, NEW requested, Withdraw(signer, requested)
        PROVE  now' = now
    BY <2>2 DEF Withdraw
  <2>3. ASSUME NEW signer \in Signers, Cancel(signer) PROVE now' = now
    BY <2>3 DEF Cancel
  <2>4. ASSUME NEW signer \in Signers, NEW newStop, NEW added,
               Lengthen(signer, newStop, added)
        PROVE  now' = now
    BY <2>4 DEF Lengthen
  <2>5. now' = now
    BY <1>2, <2>1, <2>2, <2>3, <2>4 DEF Calls, WithdrawAll, TopUp, Extend
  <2>6. QED
    BY <1>1, <2>5
<1>3. CASE LedgerNext
  BY <1>1, <1>3 DEF LedgerNext, CloseLedger, SetFrozen, Stray
<1>4. CASE UNCHANGED vars
  BY <1>1, <1>4 DEF vars, ledgerVars
<1>5. QED
  BY <1>2, <1>3, <1>4 DEF Next

\* A stored stream keeps its recipient, and what has accrued stays accrued:
\* after a withdrawal, a cancellation, a top-up and an extension too.
LEMMA AccrualStays ==
    ASSUME IInv, Signable, [Next]_vars
    PROVE  Signable' /\ Earned(stream', now') >= Earned(stream, now)
<1>1. /\ stream # NoStream /\ stream \in Streams /\ Coherent(stream)
      /\ stream.deposited \in Nat /\ stream.withdrawn \in Nat
      /\ stream.stop \in Nat /\ U64Max \in Nat
      /\ now \in Nat /\ now <= U64Max /\ now' \in Nat /\ now <= now'
      /\ stream.recipient \in Signers
  BY Types, TimeGoesOn DEF IInv, Signable
<1>2. IInv'
  BY StepKeeps
<1>3. Earned(stream, now) \in Nat /\ Earned(stream, now') \in Nat
      /\ Earned(stream, now) <= Earned(stream, now')
  BY <1>1, AccrualIsEarned, EarnedGrows
<1>4. CASE Untouched
  <2>1. stream' = stream
    BY <1>4 DEF Untouched
  <2>2. Earned(stream', now') = Earned(stream, now')
    BY <2>1
  <2>3. QED
    BY <1>1, <1>3, <2>1, <2>2 DEF Signable
<1>5. ASSUME Withdrawing \/ Cancelling \/ Lengthening
      PROVE  stream' # NoStream /\ stream' \in Streams /\ Coherent(stream')
  <2>1. stream' # NoStream
    BY <1>1, <1>2, <1>5, StaysStored
  <2>2. QED
    BY <1>2, <2>1 DEF IInv, TypeOK
<1>6. CASE Withdrawing
  <2>1. /\ stream'.recipient = stream.recipient /\ stream'.rate = stream.rate
        /\ stream'.start = stream.start /\ stream'.stop = stream.stop
        /\ stream'.cancelledAt = stream.cancelledAt
    BY <1>1, <1>6 DEF Withdrawing, Streams
  <2>2. Earned(stream', now') = Earned(stream, now')
    BY <2>1, EarnedReadsTerms
  <2>3. QED
    BY <1>1, <1>3, <1>5, <1>6, <2>1, <2>2 DEF Signable
<1>7. CASE ~IsCancelled(stream) /\ Cancelling
  <2>1. /\ stream'.recipient = stream.recipient /\ stream'.rate = stream.rate
        /\ stream'.start = stream.start /\ stream'.stop = stream.stop
        /\ stream'.cancelledAt = now /\ stream.cancelledAt = Never
    BY <1>1, <1>7 DEF Cancelling, Streams, IsCancelled
  <2>2. Earned(stream', now') = Earned(stream, now)
    <3>1. Smaller(now', now) = Smaller(now, Never)
      BY <1>1 DEF Smaller, Never
    <3>2. QED
      BY <2>1, <3>1 DEF Earned
  <2>3. QED
    BY <1>1, <1>3, <1>5, <1>7, <2>1, <2>2 DEF Signable
<1>8. CASE Lengthening
  <2>1. /\ stream'.recipient = stream.recipient /\ stream'.rate = stream.rate
        /\ stream'.start = stream.start /\ stream'.stop >= stream.stop
        /\ stream'.cancelledAt = stream.cancelledAt
    BY <1>1, <1>8 DEF Lengthening, Streams
  <2>2. stream' \in Streams /\ Coherent(stream')
    BY <1>5, <1>8
  <2>3. Earned(stream', now') >= Earned(stream, now')
    BY <1>1, <2>1, <2>2, LongerSpanEarnsOn
  <2>4. Earned(stream', now') \in Nat
    <3>1. stream'.deposited \in Nat
      BY <2>2, I128MaxAssumption DEF Streams
    <3>2. Earned(stream', now') \in 0..stream'.deposited
      BY <1>1, <2>2, AccrualIsEarned
    <3>3. QED
      BY <3>1, <3>2
  <2>5. QED
    BY <1>1, <1>3, <1>5, <1>8, <2>1, <2>3, <2>4 DEF Signable
<1>9. QED
  BY <1>1, <1>4, <1>6, <1>7, <1>8, Effects DEF Creating

\* Nothing but a freeze keeps the recipient from what has accrued.
LEMMA AccruedIsAccepted ==
    ASSUME IInv, Signable, frozen = {}, stream.withdrawn < Earned(stream, now)
    PROVE  WithdrawalAccepted
<1> DEFINE a == Earned(stream, now) - stream.withdrawn
<1>1. stream # NoStream
  BY DEF Signable
<1>2. /\ AvailableAt(stream, now) = Ok(a) /\ a \in Nat
      /\ Earned(stream, now) \in 0..stream.deposited
      /\ IsCancelled(stream) => a = 0
      /\ ~IsCancelled(stream) => balance[Self] >= stream.deposited - stream.withdrawn
  BY <1>1, AvailableIsCovered
<1>3. /\ stream.deposited \in 0..I128Max /\ stream.withdrawn \in Nat /\ I128Max \in Nat
      /\ balance[Self] \in Nat
  BY <1>1, Types
<1>4. a > 0 /\ a <= a /\ a \in 0..balance[Self]
  BY <1>2, <1>3
<1>5. AvailableAt(stream, now).err = "Ok" /\ AvailableAt(stream, now).val = a
  BY <1>2 DEF Ok
<1>6. Add(stream.withdrawn, a).err = "Ok"
  <2>1. stream.withdrawn + a = Earned(stream, now) /\ Earned(stream, now) \in I128
    BY <1>2, <1>3 DEF I128
  <2>2. QED
    BY <2>1 DEF Add, Checked, Ok
<1> HIDE DEF a
<1>7. TransferReply(balance, Self, stream.recipient, a) = "Ok"
  BY <1>4 DEF TransferReply
<1>8. QED
  BY <1>1, <1>4, <1>5, <1>6, <1>7
  DEF Signable, WithdrawalAccepted, WithdrawReply, Load, Require, RequireAuth, ??

\* A withdrawal of all that is available pays all that has accrued.
LEMMA WithdrawalPays ==
    ASSUME IInv, RecipientWithdraws
    PROVE  /\ stream'.withdrawn = Earned(stream, now)
           /\ stream'.deposited = stream.deposited
           /\ stream # NoStream /\ ~IsCancelled(stream)
<1>1. PICK s \in Signers : stream # NoStream /\ Withdraw(s, AvailableAt(stream, now).val)
  BY DEF RecipientWithdraws, WithdrawAll
<1>2. AvailableAt(stream, now).val = Earned(stream, now) - stream.withdrawn
  BY <1>1, AvailableIsCovered DEF Ok
<1>3. ~IsCancelled(stream)
  <2>1. AvailableAt(stream, now).val > 0
    BY <1>1 DEF Withdraw, WithdrawReply, Load, Require, RequireAuth, ??
  <2>2. QED
    BY <1>1, <1>2, <2>1, AvailableIsCovered
<1>4. /\ stream \in Streams /\ stream.withdrawn \in Nat /\ stream.deposited \in Nat
      /\ Earned(stream, now) \in Int
  BY <1>1, Types, AvailableIsCovered
<1>5. stream' = [stream EXCEPT !.withdrawn = @ + (Earned(stream, now) - stream.withdrawn)]
  BY <1>1, <1>2 DEF Withdraw
<1>6. QED
  BY <1>1, <1>3, <1>4, <1>5 DEF Streams

\* Whatever has accrued at some moment is paid out in the end to a recipient
\* who keeps withdrawing, whether the stream is then cancelled, topped up,
\* extended or left alone.
THEOREM AccruedIsPaid ==
    ASSUME NEW x \in Nat
    PROVE  Spec /\ Unfreezes /\ RecipientPersists
               => (HasAccrued(x) ~> Signable /\ stream.withdrawn >= x)
<1> DEFINE Paid == Signable /\ stream.withdrawn >= x
<1>1. Spec => []IInv
  BY Invariance
<1>2. IInv /\ HasAccrued(x) /\ [Next]_vars => HasAccrued(x)'
  <2> SUFFICES ASSUME IInv, HasAccrued(x), [Next]_vars PROVE HasAccrued(x)'
    OBVIOUS
  <2>1. Signable' /\ Earned(stream', now') >= Earned(stream, now)
    BY AccrualStays DEF HasAccrued
  <2>2. Earned(stream, now) \in Int /\ Earned(stream', now') \in Int
    <3>1. IInv' /\ stream # NoStream /\ stream' # NoStream
      BY <2>1, StepKeeps DEF HasAccrued, Signable
    <3>2. /\ stream \in Streams /\ Coherent(stream) /\ now \in Nat
          /\ stream' \in Streams /\ Coherent(stream') /\ now' \in Nat
      BY <3>1, TimeGoesOn DEF IInv, TypeOK
    <3>3. QED
      BY <3>2, AccrualIsEarned
  <2>3. QED
    BY <2>1, <2>2 DEF HasAccrued
<1>3. IInv /\ HasAccrued(x) /\ frozen = {} => Paid \/ WithdrawalAccepted
  <2> SUFFICES ASSUME IInv, HasAccrued(x), frozen = {}, stream.withdrawn < x
               PROVE  WithdrawalAccepted
    <3>1. HasAccrued(x) /\ IInv => Signable /\ stream.withdrawn \in Nat
      BY Types DEF HasAccrued, Signable
    <3>2. QED
      BY <3>1
  <2>1. Signable /\ stream # NoStream /\ Earned(stream, now) >= x
    BY DEF HasAccrued, Signable
  <2>2. stream.withdrawn \in Nat /\ Earned(stream, now) \in Int
    BY <2>1, Types, AvailableIsCovered
  <2>3. QED
    BY <2>1, <2>2, AccruedIsAccepted
<1>4. IInv /\ HasAccrued(x) /\ [Next]_vars /\ <<RecipientWithdraws>>_vars => Paid'
  <2> SUFFICES ASSUME IInv, HasAccrued(x), [Next]_vars, RecipientWithdraws PROVE Paid'
    OBVIOUS
  <2>1. Signable' /\ stream'.withdrawn = Earned(stream, now)
    BY AccrualStays, WithdrawalPays DEF HasAccrued
  <2>2. QED
    BY <2>1 DEF HasAccrued
<1>5. Unfreezes => []<>(frozen = {})
  BY NobodyStaysFrozen
<1>6. QED
  BY <1>1, <1>2, <1>3, <1>4, <1>5, PTL DEF Spec, RecipientPersists

\* If time goes on to the last timestamp there is, the recipient is paid all
\* that the stream holds.
THEOREM RecipientGetsAll ==
    Spec /\ Unfreezes /\ RecipientPersists /\ <>(now = U64Max) => RecipientIsPaid
<1> DEFINE Ended == Signable /\ now = U64Max
           Empty == stream # NoStream /\ Remaining(stream).val = 0
<1>1. Spec => []IInv
  BY Invariance
<1>2. IInv /\ Signable /\ [Next]_vars => Signable'
  BY AccrualStays
<1>3. IInv /\ now = U64Max /\ [Next]_vars => (now = U64Max)'
  BY TimeGoesOn
<1>4. IInv /\ stream # NoStream /\ now = U64Max /\ ~IsCancelled(stream) =>
          Earned(stream, now) = stream.deposited
  <2> SUFFICES ASSUME IInv, stream # NoStream, now = U64Max, ~IsCancelled(stream)
               PROVE  Earned(stream, now) = stream.deposited
    OBVIOUS
  <2>1. /\ Coherent(stream) /\ stream.stop \in Nat /\ stream.start \in Nat
        /\ stream.stop <= U64Max /\ U64Max \in Nat /\ stream.cancelledAt = Never
    BY Types DEF IInv, IsCancelled
  <2>2. Smaller(Smaller(now, stream.cancelledAt), stream.stop) = stream.stop
    BY <2>1 DEF Smaller, Never
  <2>3. QED
    BY <2>1, <2>2 DEF Earned, Coherent
<1>5. IInv /\ Ended /\ frozen = {} => Empty \/ WithdrawalAccepted
  <2> SUFFICES ASSUME IInv, Ended, frozen = {}, ~WithdrawalAccepted PROVE Empty
    OBVIOUS
  <2>1. /\ stream # NoStream /\ stream \in Streams /\ Coherent(stream) /\ Entitled
        /\ stream.withdrawn \in Nat /\ stream.deposited \in Nat
        /\ Earned(stream, now) \in 0..stream.deposited
    BY Types, AvailableIsCovered DEF IInv, Signable
  <2>2. stream.withdrawn = Earned(stream, now)
    BY <2>1, AccruedIsAccepted DEF Entitled
  <2>3. Remaining(stream).val = stream.deposited - stream.withdrawn - stream.refunded
    BY <2>1, RemainingIsLeft DEF Ok
  <2>4. stream.deposited - stream.withdrawn - stream.refunded = 0
    <3>1. CASE IsCancelled(stream)
      <4>1. stream.withdrawn + stream.refunded = stream.deposited /\ stream.refunded \in Nat
        BY <2>1, <3>1, Types DEF Entitled
      <4>2. QED
        BY <2>1, <4>1
    <3>2. CASE ~IsCancelled(stream)
      BY <1>4, <2>1, <2>2, <3>2 DEF Entitled
    <3>3. QED
      BY <3>1, <3>2
  <2>5. QED
    BY <2>1, <2>3, <2>4
<1>6. IInv /\ stream # NoStream =>
          /\ Remaining(stream).val
                 = stream.deposited - stream.withdrawn - stream.refunded
          /\ stream.deposited - stream.withdrawn - stream.refunded \in 0..stream.deposited
          /\ stream.deposited \in Nat /\ stream.refunded \in Nat
  BY RemainingIsLeft, Types DEF Ok
<1>7. (IInv /\ stream # NoStream =>
          /\ Remaining(stream).val
                 = stream.deposited - stream.withdrawn - stream.refunded
          /\ stream.deposited - stream.withdrawn - stream.refunded \in 0..stream.deposited
          /\ stream.deposited \in Nat /\ stream.refunded \in Nat)'
  BY <1>6, PTL
<1>8. IInv /\ Ended /\ [Next]_vars /\ <<RecipientWithdraws>>_vars => Empty'
  <2> SUFFICES ASSUME IInv, Ended, [Next]_vars, RecipientWithdraws PROVE Empty'
    OBVIOUS
  <2>1. stream # NoStream /\ stream' # NoStream /\ IInv'
    BY AccrualStays, StepKeeps DEF Signable
  <2>2. stream'.withdrawn = stream'.deposited
    BY <1>4, <2>1, WithdrawalPays
  <2>3. Remaining(stream').val = stream'.deposited - stream'.withdrawn - stream'.refunded
        /\ stream'.deposited - stream'.withdrawn - stream'.refunded \in 0..stream'.deposited
        /\ stream'.deposited \in Nat /\ stream'.refunded \in Nat
    BY <1>7, <2>1
  <2>4. QED
    BY <2>1, <2>2, <2>3
<1>9. Unfreezes => []<>(frozen = {})
  BY NobodyStaysFrozen
<1>10. QED
  BY <1>1, <1>2, <1>3, <1>5, <1>8, <1>9, PTL
  DEF Spec, RecipientPersists, RecipientIsPaid, Signable

=============================================================================
