------------------------- MODULE BatchPayout_proofs -------------------------
(***************************************************************************)
(* The batch payout's types, that a covered batch is never refused half    *)
(* way, and that a call is all or nothing, for batches of any length and   *)
(* any amounts.  The invariant ties the balances in the middle of a call   *)
(* to those it found: the lines already paid are the only difference.      *)
(***************************************************************************)
EXTENDS BatchPayout, Ledger_proofs, SequenceTheorems, FiniteSetTheorems

\* The total of the first k lines, as the call has computed it.
Running(k) == IF k = 0 THEN 0 ELSE call.totals[k]

\* Every line totalled so far is payable, and the running totals grow by it.
TotalsGrow ==
    /\ \A k \in 1..Len(call.totals) :
           /\ call.lines[k].to # Self
           /\ call.lines[k].amount > 0
           /\ Running(k) = Running(k - 1) + call.lines[k].amount
    /\ \A j, k \in 0..Len(call.totals) : j <= k => Running(j) <= Running(k)

\* What the lines paid so far have moved is all that has moved.
PaidSoFar ==
    /\ call.share[Self] = 0
    /\ \A h \in Holders :
           balance[h] = call.undo[h] + call.share[h]
                            - (IF h = call.funder THEN Running(call.paid) ELSE 0)

CallInv ==
    /\ Len(call.totals) <= Len(call.lines)
    /\ call.paid <= Len(call.totals)
    /\ call.total = Running(Len(call.totals))
    /\ call.phase # "Failed" => Len(call.lines) \in 1..MaxRecipients
    /\ call.phase = "Paying" => Totalled
    /\ TotalsGrow
    /\ PaidSoFar

IInv ==
    /\ TypeOK
    /\ call.phase # "Idle" => CallInv
    /\ CoveredBatchesPay

-----------------------------------------------------------------------------

\* The types of a call under way.
LEMMA CallTypes ==
    ASSUME TypeOK, call.phase # "Idle"
    PROVE  /\ call \in Calls
           /\ call.signer \in Signers /\ call.funder \in Signers
           /\ call.funder \in Holders /\ call.funder # Self
           /\ call.lines \in Seq(Payments) /\ Len(call.lines) \in Nat
           /\ \A k \in 1..Len(call.lines) :
                  /\ call.lines[k] \in Payments
                  /\ call.lines[k].to \in Holders
                  /\ call.lines[k].amount \in I128
           /\ call.totals \in Seq(0..I128Max) /\ Len(call.totals) \in Nat
           /\ \A k \in 1..Len(call.totals) : call.totals[k] \in 0..I128Max
           /\ call.total \in 0..I128Max /\ call.paid \in Nat
           /\ call.share \in [Holders -> Nat] /\ call.undo \in [Holders -> Nat]
           /\ call.phase \in Phases
<1>1. call \in Calls
  BY DEF TypeOK, NoCall
<1>2. call.lines \in Seq(Payments) /\ call.totals \in Seq(0..I128Max)
  BY <1>1 DEF Calls
<1>3. /\ Len(call.lines) \in Nat
      /\ \A k \in 1..Len(call.lines) : call.lines[k] \in Payments
  BY <1>2
<1>4. /\ Len(call.totals) \in Nat
      /\ \A k \in 1..Len(call.totals) : call.totals[k] \in 0..I128Max
  BY <1>2, LenProperties, ElementOfSeq
<1>5. \A k \in 1..Len(call.lines) :
          call.lines[k].to \in Holders /\ call.lines[k].amount \in I128
  BY <1>3 DEF Payments
<1>6. QED
  BY <1>1, <1>2, <1>3, <1>4, <1>5, LedgerAssumption DEF Calls

\* The types around it.
LEMMA WorldTypes ==
    ASSUME TypeOK
    PROVE  /\ balance \in [Holders -> Nat] /\ Self \in Holders /\ Self \notin Signers
           /\ Signers \subseteq Holders /\ I128Max \in Nat /\ MaxRecipients \in Nat
BY LedgerAssumption, BatchAssumption, I128MaxAssumption DEF TypeOK, LedgerTypeOK

LEMMA InitEstablishes == Init => IInv
<1> SUFFICES ASSUME Init PROVE IInv
  OBVIOUS
<1>1. TypeOK
  BY LedgerAssumption DEF Init, LedgerInit, TypeOK, LedgerTypeOK
<1>2. QED
  BY <1>1 DEF Init, IInv, CoveredBatchesPay, NoCall

\* A call that begins has moved nothing.
LEMMA BeginKeeps ==
    ASSUME IInv, NEW entry \in Entries, NEW signer \in Signers, NEW funder \in Signers,
           NEW lines \in Seq(Payments), NEW reply \in Replies, reply # "TokenError",
           NEW totals \in Seq(0..I128Max), NEW total \in 0..I128Max,
           call' = Opened(entry, signer, funder, lines, reply, totals, total),
           receipt' = NoReceipt, UNCHANGED ledgerVars,
           Len(totals) <= Len(lines),
           total = (IF Len(totals) = 0 THEN 0 ELSE totals[Len(totals)]),
           reply = "Ok" => Len(lines) \in 1..MaxRecipients,
           TotalsGrow'
    PROVE  IInv'
<1>1. balance \in [Holders -> Nat] /\ Self \in Holders /\ Self \notin Signers
  BY WorldTypes DEF IInv
<1>2. /\ call'.lines = lines /\ call'.totals = totals /\ call'.total = total
      /\ call'.paid = 0 /\ call'.reply = reply /\ call'.funder = funder
      /\ call'.share = [h \in Holders |-> 0] /\ call'.undo = balance
      /\ call'.phase = (IF reply = "Ok" THEN "Totalling" ELSE "Failed")
  BY DEF Opened
<1>3. call' \in Calls
  BY <1>1 DEF Opened, Calls, Phases, Replies
<1>4. TypeOK'
  BY <1>3 DEF IInv, TypeOK, LedgerTypeOK, ledgerVars
<1>5. PaidSoFar'
  BY <1>1, <1>2 DEF PaidSoFar, Running, ledgerVars
<1>6. CallInv'
  BY <1>2, <1>5 DEF CallInv, Running, Totalled
<1>7. CoveredBatchesPay'
  BY <1>2 DEF CoveredBatchesPay
<1>8. QED
  BY <1>4, <1>6, <1>7 DEF IInv

\* The enumerated batches are sequences.
LEMMA SequencesAre ==
    ASSUME NEW S, NEW s \in Sequences(S)
    PROVE  /\ s \in Seq(S) /\ Len(s) \in Nat /\ DOMAIN s = 1..Len(s)
           /\ \A i \in 1..Len(s) : s[i] \in S
<1>1. PICK n \in 0..(MaxRecipients + 1) : s \in [1..n -> S]
  BY DEF Sequences
<1>2. n \in Nat
  BY <1>1, BatchAssumption
<1>3. s \in Seq(S)
  BY <1>1, <1>2, SeqDef
<1>4. QED
  BY <1>3, LenProperties, ElementOfSeq

LEMMA ExecuteKeeps ==
    ASSUME IInv, NEW signer \in Signers, NEW funder \in Signers,
           NEW lines \in Sequences([to : Holders, amount : PayAmounts]),
           Execute(signer, funder, lines)
    PROVE  IInv'
<1> DEFINE reply == CheckSize(Len(lines))
<1>1. /\ lines \in Seq([to : Holders, amount : PayAmounts]) /\ Len(lines) \in Nat
      /\ DOMAIN lines = 1..Len(lines)
      /\ \A i \in 1..Len(lines) : lines[i] \in [to : Holders, amount : PayAmounts]
  BY SequencesAre
<1>2. \A i \in 1..Len(lines) : lines[i] \in Payments
  BY <1>1, BatchAssumption DEF Payments
<1>3. lines \in Seq(Payments)
  <2>1. lines \in [1..Len(lines) -> Payments]
    BY <1>1, <1>2, LenProperties
  <2>2. QED
    BY <1>1, <2>1, SeqDef
<1>4. /\ call' = Opened("execute", signer, funder, lines, reply, <<>>, 0)
      /\ receipt' = NoReceipt /\ UNCHANGED ledgerVars
  BY DEF Execute
<1>5. /\ reply \in Replies /\ reply # "TokenError"
      /\ reply = "Ok" => Len(lines) \in 1..MaxRecipients
  <2>1. reply \in {"Ok", "BatchEmpty", "BatchTooLarge"}
    BY DEF CheckSize, Require, ??
  <2>2. reply = "Ok" => Len(lines) > 0 /\ Len(lines) <= MaxRecipients
    BY DEF CheckSize, Require, ??
  <2>3. QED
    BY <1>1, <2>1, <2>2, BatchAssumption DEF Replies
<1>6. call'.totals = <<>> /\ call'.lines = lines
  BY <1>4 DEF Opened
<1>7. TotalsGrow'
  BY <1>6 DEF TotalsGrow, Running
<1>8. /\ 0 \in 0..I128Max /\ <<>> \in Seq(0..I128Max)
      /\ Len(<<>>) = 0 /\ Len(<<>>) <= Len(lines)
      /\ 0 = (IF Len(<<>>) = 0 THEN 0 ELSE <<>>[Len(<<>>)])
      /\ "execute" \in Entries
  BY <1>1, I128MaxAssumption, EmptySeq DEF Entries
<1> HIDE DEF reply
<1>9. QED
  BY <1>1, <1>3, <1>4, <1>5, <1>7, <1>8, BeginKeeps

\* The running totals of equal lines are the multiples of the amount.
LEMMA MultiplesGrow ==
    ASSUME NEW amount \in Nat, NEW n \in Nat, amount * n <= I128Max,
           NEW k \in 1..n
    PROVE  /\ amount * k \in 0..I128Max
           /\ amount * k = (IF k - 1 = 0 THEN 0 ELSE amount * (k - 1)) + amount
<1>1. amount * k <= amount * n
  BY ProductMonotone
<1>2. amount * 0 <= amount * k
  BY ProductMonotone
<1>3. amount * k \in Int /\ amount * n \in Int /\ amount * 0 = 0
  OBVIOUS
<1>4. amount * k = amount * (k - 1) + amount
  OBVIOUS
<1>5. QED
  BY <1>1, <1>2, <1>3, <1>4, I128MaxAssumption

LEMMA ExecuteEqualKeeps ==
    ASSUME IInv, NEW signer \in Signers, NEW funder \in Signers,
           NEW recipients \in Sequences(Holders), NEW amount \in PayAmounts,
           ExecuteEqual(signer, funder, recipients, amount)
    PROVE  IInv'
<1> DEFINE reply  == EqualReply(recipients, amount)
           lines  == [i \in DOMAIN recipients |-> [to |-> recipients[i], amount |-> amount]]
           totals == [i \in DOMAIN recipients |-> amount * i]
           total  == EqualTotal(amount, Len(recipients)).val
           n      == Len(recipients)
<1>1. /\ n \in Nat /\ DOMAIN recipients = 1..n
      /\ \A i \in 1..n : recipients[i] \in Holders
  BY SequencesAre
<1>2. amount \in I128 /\ I128Max \in Nat /\ amount \in Int
  BY BatchAssumption, I128MaxAssumption DEF I128
<1>3. lines \in [1..n -> Payments]
  BY <1>1, <1>2 DEF Payments
<1>4. lines \in Seq(Payments) /\ Len(lines) = n
  BY <1>1, <1>3, SeqDef, LenProperties
<1>5. /\ receipt' = NoReceipt /\ UNCHANGED ledgerVars
      /\ call' = IF reply = "Ok"
                 THEN Opened("execute_equal", signer, funder, lines, reply, totals, total)
                 ELSE Opened("execute_equal", signer, funder, lines, reply, <<>>, 0)
  BY DEF ExecuteEqual
<1>6. reply \in Replies /\ reply # "TokenError" /\ "execute_equal" \in Entries
  BY DEF EqualReply, CheckSize, EqualTotal, Mul, Checked, Ok, Err, Require, ??,
         Replies, Entries
<1> HIDE DEF lines
<1>7. CASE reply # "Ok"
  <2>1. call' = Opened("execute_equal", signer, funder, lines, reply, <<>>, 0)
    BY <1>5, <1>7
  <2>2. call'.totals = <<>>
    BY <2>1 DEF Opened
  <2>3. TotalsGrow'
    BY <2>2 DEF TotalsGrow, Running
  <2>4. /\ 0 \in 0..I128Max /\ <<>> \in Seq(0..I128Max)
        /\ Len(<<>>) = 0 /\ Len(<<>>) <= Len(lines)
        /\ 0 = (IF Len(<<>>) = 0 THEN 0 ELSE <<>>[Len(<<>>)])
    BY <1>1, <1>2, <1>4, EmptySeq
  <2> HIDE DEF reply
  <2>5. QED
    BY <1>4, <1>5, <1>6, <1>7, <2>1, <2>3, <2>4, BeginKeeps
<1>8. CASE reply = "Ok"
  <2>1. /\ amount > 0 /\ n > 0 /\ n <= MaxRecipients
        /\ \A i \in DOMAIN recipients : recipients[i] # Self
        /\ EqualTotal(amount, n).err = "Ok"
    BY <1>8 DEF EqualReply, CheckSize, Require, ??
  <2>2. total = amount * n /\ amount * n <= I128Max /\ amount \in Nat
    BY <1>1, <1>2, <2>1 DEF EqualTotal, Mul, Checked, Ok, Err, I128
  <2>3. \A k \in 1..n : amount * k \in 0..I128Max
    BY <1>1, <2>2, MultiplesGrow
  <2>4. totals \in [1..n -> 0..I128Max]
    BY <1>1, <2>3
  <2>5. totals \in Seq(0..I128Max) /\ Len(totals) = n
    BY <1>1, <2>4, SeqDef, LenProperties
  <2>6. call' = Opened("execute_equal", signer, funder, lines, reply, totals, total)
    BY <1>5, <1>8
  <2>7. \A k \in 1..n : totals[k] = amount * k
    BY <1>1
  <2> HIDE DEF totals, total
  <2>8. call'.totals = totals /\ call'.lines = lines
    BY <2>6 DEF Opened
  <2>9. TotalsGrow'
    <3>1. ASSUME NEW k \in 1..n
          PROVE  /\ lines[k].to # Self /\ lines[k].amount > 0
                 /\ Running(k)' = Running(k - 1)' + lines[k].amount
      <4>1. lines[k].to = recipients[k] /\ lines[k].amount = amount
        BY <1>1 DEF lines
      <4>2. amount * k = (IF k - 1 = 0 THEN 0 ELSE amount * (k - 1)) + amount
        BY <1>1, <2>2, MultiplesGrow
      <4>3. k # 0 /\ (k - 1 # 0 => k - 1 \in 1..n)
        BY <1>1
      <4>4. QED
        BY <1>1, <2>1, <2>7, <2>8, <4>1, <4>2, <4>3 DEF Running
    <3>2. ASSUME NEW j \in 0..n, NEW k \in 0..n, j <= k
          PROVE  Running(j)' <= Running(k)'
      <4>1. amount * j <= amount * k /\ amount * 0 = 0
        BY <1>1, <2>2, <3>2, ProductMonotone
      <4>2. \A i \in 0..n : Running(i)' = amount * i
        BY <1>1, <2>2, <2>7, <2>8 DEF Running
      <4>3. QED
        BY <4>1, <4>2
    <3>3. QED
      BY <2>5, <2>8, <3>1, <3>2 DEF TotalsGrow
  <2>10. total \in 0..I128Max
    BY <1>1, <2>1, <2>2, <2>3
  <2>11. total = (IF Len(totals) = 0 THEN 0 ELSE totals[Len(totals)])
    BY <1>1, <2>1, <2>2, <2>5, <2>7
  <2>12. Len(lines) \in 1..MaxRecipients /\ Len(totals) <= Len(lines)
    BY <1>1, <1>4, <2>1, <2>5, BatchAssumption
  <2> HIDE DEF reply
  <2>13. QED
    BY <1>4, <1>5, <1>6, <2>5, <2>6, <2>9, <2>10, <2>11, <2>12, BeginKeeps
<1>9. QED
  BY <1>7, <1>8

-----------------------------------------------------------------------------

\* A call that fails keeps all it knows but its phase and its reply.
LEMMA FailKeeps ==
    ASSUME IInv, call.phase # "Idle", NEW reply \in Replies, Fails(reply),
           UNCHANGED <<ledgerVars, receipt>>,
           reply = "TokenError" =>
               \/ call.undo[call.funder] < call.total
               \/ call.funder \in frozen
               \/ \E i \in DOMAIN call.lines : call.lines[i].to \in frozen
    PROVE  IInv'
<1>1. call \in Calls
  BY CallTypes DEF IInv
<1>2. /\ call'.lines = call.lines /\ call'.totals = call.totals
      /\ call'.total = call.total /\ call'.paid = call.paid
      /\ call'.funder = call.funder /\ call'.share = call.share
      /\ call'.undo = call.undo /\ call'.phase = "Failed" /\ call'.reply = reply
      /\ call' \in Calls
  BY <1>1 DEF Fails, Calls, Phases
<1>3. TypeOK'
  BY <1>2 DEF IInv, TypeOK, LedgerTypeOK, ledgerVars
<1>4. CallInv'
  BY <1>2 DEF IInv, CallInv, TotalsGrow, PaidSoFar, Running, ledgerVars, Totalled
<1>5. CoveredBatchesPay'
  BY <1>2 DEF CoveredBatchesPay, ledgerVars
<1>6. QED
  BY <1>3, <1>4, <1>5 DEF IInv

LEMMA TotalLineKeeps ==
    ASSUME IInv, TotalLine
    PROVE  IInv'
<1> PICK n : n = Len(call.totals)
  OBVIOUS
<1> DEFINE line == call.lines[n + 1]
           sum  == AddLine(call.total, line)
<1>1. /\ call.phase = "Totalling" /\ n # Len(call.lines)
      /\ UNCHANGED <<ledgerVars, receipt>>
      /\ IF sum.err = "Ok"
         THEN call' = [call EXCEPT !.totals = Append(@, sum.val), !.total = sum.val]
         ELSE Fails(sum.err)
  BY DEF TotalLine, Totalled
<1>2. TypeOK /\ CallInv
  BY <1>1 DEF IInv
<1>3. /\ call \in Calls /\ n \in Nat /\ Len(call.lines) \in Nat
      /\ call.totals \in Seq(0..I128Max) /\ call.total \in 0..I128Max
      /\ call.paid \in Nat
  BY <1>1, <1>2, CallTypes
<1>4. n < Len(call.lines) /\ call.total = Running(n)
  BY <1>1, <1>2, <1>3 DEF CallInv
<1>5. line.to \in Holders /\ line.amount \in I128 /\ line.amount \in Int
  <2>1. n + 1 \in 1..Len(call.lines)
    BY <1>3, <1>4
  <2>2. line.to \in Holders /\ line.amount \in I128
    BY <1>1, <1>2, <2>1, CallTypes
  <2> HIDE DEF line
  <2>3. QED
    BY <2>2, I128MaxAssumption DEF I128
<1>6. CASE sum.err # "Ok"
  <2>1. sum.err \in Replies /\ sum.err # "TokenError"
    BY DEF AddLine, Add, Checked, Ok, Err, Require, ??, Replies
  <2>2. Fails(sum.err)
    BY <1>1, <1>6
  <2> HIDE DEF sum
  <2>3. QED
    BY <1>1, <2>1, <2>2, FailKeeps
<1>7. CASE sum.err = "Ok"
  <2>1. /\ line.to # Self /\ line.amount > 0
        /\ sum.val = call.total + line.amount /\ sum.val \in 0..I128Max
    BY <1>3, <1>5, <1>7, I128MaxAssumption
    DEF AddLine, Add, Checked, Ok, Err, Require, ??, I128
  <2>2. call' = [call EXCEPT !.totals = Append(@, sum.val), !.total = sum.val]
    BY <1>1, <1>7
  <2> HIDE DEF sum
  <2>3. /\ call'.lines = call.lines /\ call'.paid = call.paid
        /\ call'.funder = call.funder /\ call'.share = call.share
        /\ call'.undo = call.undo /\ call'.phase = call.phase /\ call'.reply = call.reply
        /\ call'.totals = Append(call.totals, sum.val) /\ call'.total = sum.val
    BY <1>3, <2>2 DEF Calls
  <2>4. Append(call.totals, sum.val) \in Seq(0..I128Max)
    BY <1>3, <2>1, AppendProperties
  <2>5. call' \in Calls
    BY <1>3, <2>1, <2>2, <2>4 DEF Calls
  <2>6. TypeOK'
    BY <1>1, <1>2, <2>5 DEF TypeOK, LedgerTypeOK, ledgerVars
  <2>7. /\ Len(call'.totals) = n + 1 /\ call'.totals[n + 1] = sum.val
        /\ \A k \in 1..n : call'.totals[k] = call.totals[k]
    BY <1>3, <2>1, <2>3, AppendProperties
  <2>8. /\ Running(n + 1)' = sum.val
        /\ \A k \in 0..n : Running(k)' = Running(k)
    BY <1>3, <2>7 DEF Running
  <2>9. \A k \in 0..n : Running(k) \in Int /\ Running(k) <= Running(n)
    <3>1. \A k \in 1..n : call.totals[k] \in 0..I128Max
      BY <1>1, <1>2, CallTypes
    <3>2. \A k \in 0..n : k <= n /\ n \in 0..n
      BY <1>3
    <3>3. \A k \in 0..n : Running(k) <= Running(n)
      BY <1>2, <1>3, <3>2 DEF CallInv, TotalsGrow
    <3>4. \A k \in 0..n : Running(k) \in Int
      BY <1>3, <3>1, I128MaxAssumption DEF Running
    <3>5. QED
      BY <3>3, <3>4
  <2>10. TotalsGrow'
    <3>1. ASSUME NEW k \in 1..(n + 1)
          PROVE  /\ call.lines[k].to # Self /\ call.lines[k].amount > 0
                 /\ Running(k)' = Running(k - 1)' + call.lines[k].amount
      <4>1. CASE k = n + 1
        BY <1>3, <1>4, <2>1, <2>8, <4>1
      <4>2. CASE k # n + 1
        <5>1. k \in 1..n /\ k \in 0..n /\ k - 1 \in 0..n
          BY <1>3, <4>2
        <5>2. QED
          BY <1>2, <2>8, <5>1 DEF CallInv, TotalsGrow
      <4>3. QED
        BY <4>1, <4>2
    <3>2. ASSUME NEW j \in 0..(n + 1), NEW k \in 0..(n + 1), j <= k
          PROVE  Running(j)' <= Running(k)'
      <4>1. CASE k # n + 1
        <5>1. j \in 0..n /\ k \in 0..n
          BY <1>3, <3>2, <4>1
        <5>2. QED
          BY <1>2, <2>8, <3>2, <5>1 DEF CallInv, TotalsGrow
      <4>2. CASE k = n + 1 /\ j # n + 1
        <5>1. j \in 0..n
          BY <1>3, <4>2
        <5>2. Running(j) <= Running(n) /\ Running(j) \in Int
          BY <2>9, <5>1
        <5>3. Running(n) <= sum.val
          BY <1>3, <1>4, <1>5, <2>1
        <5>4. QED
          BY <1>3, <1>4, <2>1, <2>8, <4>2, <5>1, <5>2, <5>3
      <4>3. CASE k = n + 1 /\ j = n + 1
        BY <2>1, <2>8, <4>3
      <4>4. QED
        BY <4>1, <4>2, <4>3
    <3>3. QED
      BY <2>3, <2>7, <3>1, <3>2 DEF TotalsGrow
  <2>11. PaidSoFar'
    <3>1. call.paid \in 0..n
      BY <1>2, <1>3 DEF CallInv
    <3>2. Running(call.paid)' = Running(call.paid)
      BY <2>3, <2>8, <3>1 DEF Running
    <3>3. QED
      BY <1>1, <1>2, <2>3, <3>2 DEF CallInv, PaidSoFar, ledgerVars, Running
  <2>12. CallInv'
    BY <1>1, <1>2, <1>3, <1>4, <2>3, <2>7, <2>8, <2>10, <2>11 DEF CallInv, Totalled, Running
  <2>13. CoveredBatchesPay'
    BY <1>1, <2>3 DEF CoveredBatchesPay
  <2>14. QED
    BY <2>6, <2>12, <2>13 DEF IInv
<1>8. QED
  BY <1>6, <1>7

LEMMA RequireFunderKeeps ==
    ASSUME IInv, RequireFunder
    PROVE  IInv'
<1>1. /\ call.phase = "Totalling" /\ Totalled
      /\ UNCHANGED <<ledgerVars, receipt>>
  BY DEF RequireFunder
<1>2. call \in Calls /\ TypeOK /\ CallInv
  BY <1>1, CallTypes DEF IInv
<1>3. CASE Fails("HostAuthError")
  BY <1>1, <1>3, FailKeeps DEF Replies
<1>4. CASE call' = [call EXCEPT !.phase = "Paying"]
  <2>1. /\ call'.lines = call.lines /\ call'.totals = call.totals
        /\ call'.total = call.total /\ call'.paid = call.paid
        /\ call'.funder = call.funder /\ call'.share = call.share
        /\ call'.undo = call.undo /\ call'.phase = "Paying" /\ call' \in Calls
    BY <1>2, <1>4 DEF Calls, Phases
  <2>2. TypeOK'
    BY <1>1, <1>2, <2>1 DEF TypeOK, LedgerTypeOK, ledgerVars
  <2>3. CallInv'
    BY <1>1, <1>2, <2>1 DEF CallInv, TotalsGrow, PaidSoFar, Running, ledgerVars, Totalled
  <2>4. CoveredBatchesPay'
    BY <2>1 DEF CoveredBatchesPay
  <2>5. QED
    BY <2>2, <2>3, <2>4 DEF IInv
<1>5. QED
  BY <1>3, <1>4 DEF RequireFunder

\* The line to be paid next, and what is left for it: all that the funder had
\* but the lines before it.
LEMMA NextLine ==
    ASSUME IInv, call.phase # "Idle", call.phase = "Paying", call.paid < Len(call.lines)
    PROVE  LET line == call.lines[call.paid + 1]
           IN  /\ line.to \in Holders /\ line.to # Self
               /\ line.amount \in Nat /\ line.amount > 0
               /\ call.paid \in Nat /\ call.paid + 1 <= Len(call.totals)
               /\ Running(call.paid) \in Nat /\ Running(call.paid + 1) \in Nat
               /\ Running(call.paid + 1) = Running(call.paid) + line.amount
               /\ Running(call.paid + 1) <= call.total
               /\ call.undo[call.funder] - Running(call.paid) <= balance[call.funder]
<1> DEFINE k == call.paid + 1
<1>1. TypeOK /\ CallInv
  BY DEF IInv
<1>2. Len(call.totals) = Len(call.lines) /\ call.paid \in Nat /\ Len(call.lines) \in Nat
  BY <1>1, CallTypes DEF CallInv, Totalled
<1>3. /\ k \in 1..Len(call.lines) /\ k \in 1..Len(call.totals)
      /\ k \in 0..Len(call.totals) /\ call.paid \in 0..Len(call.totals)
      /\ Len(call.totals) \in 0..Len(call.totals)
      /\ k <= Len(call.totals) /\ k - 1 = call.paid
  BY <1>2
<1>4. call.lines[k].to \in Holders /\ call.lines[k].amount \in I128
  BY <1>1, <1>3, CallTypes
<1>5. /\ call.lines[k].to # Self /\ call.lines[k].amount > 0
      /\ Running(k) = Running(k - 1) + call.lines[k].amount
      /\ Running(k) <= Running(Len(call.totals))
  BY <1>1, <1>3 DEF CallInv, TotalsGrow
<1>6. call.lines[k].amount \in Nat
  BY <1>4, <1>5, I128MaxAssumption DEF I128
<1>7. \A j \in 0..Len(call.totals) : Running(j) \in Nat
  BY <1>1, <1>2, CallTypes, I128MaxAssumption DEF Running
<1>8. call.undo[call.funder] - Running(call.paid) <= balance[call.funder]
  <2>1. /\ call.funder \in Holders /\ call.share[call.funder] \in Nat
        /\ call.undo[call.funder] \in Nat
    BY <1>1, CallTypes
  <2>2. balance[call.funder] =
            call.undo[call.funder] + call.share[call.funder] - Running(call.paid)
    BY <1>1, <2>1 DEF CallInv, PaidSoFar
  <2>3. QED
    BY <1>3, <1>7, <2>1, <2>2
<1> HIDE DEF k
<1>9. QED
  BY <1>1, <1>2, <1>3, <1>4, <1>5, <1>6, <1>7, <1>8 DEF CallInv, k

LEMMA TransferLineKeeps ==
    ASSUME IInv, TransferLine
    PROVE  IInv'
<1>0. PICK to, amount : to = call.lines[call.paid + 1].to
                        /\ amount = call.lines[call.paid + 1].amount
  OBVIOUS
<1>1. /\ call.phase = "Paying" /\ call.paid < Len(call.lines)
      /\ UNCHANGED <<now, frozen, strays, receipt>>
      /\ IF TransferReply(balance, call.funder, to, amount) = "Ok"
         THEN /\ balance' = Transferred(balance, call.funder, to, amount)
              /\ call' = [call EXCEPT !.paid = @ + 1, !.share[to] = @ + amount]
         ELSE Fails("TokenError") /\ UNCHANGED balance
  BY <1>0 DEF TransferLine, LineAmount
<1>2. call \in Calls /\ TypeOK /\ CallInv
  BY <1>1, CallTypes DEF IInv
<1>3. /\ to \in Holders /\ to # Self /\ amount \in Nat
      /\ Running(call.paid) \in Nat /\ Running(call.paid + 1) \in Nat
      /\ Running(call.paid + 1) = Running(call.paid) + amount
      /\ Running(call.paid + 1) <= call.total
      /\ call.undo[call.funder] - Running(call.paid) <= balance[call.funder]
  BY <1>0, <1>1, NextLine
<1>4. /\ call.funder \in Holders /\ balance \in [Holders -> Nat] /\ Self \in Holders
      /\ call.undo \in [Holders -> Nat] /\ call.share \in [Holders -> Nat]
  BY <1>1, <1>2, CallTypes, WorldTypes
<1>5. /\ call.total \in Int /\ call.paid \in Nat /\ Len(call.totals) = Len(call.lines)
      /\ call.paid + 1 \in 1..Len(call.lines) /\ call.paid + 1 <= Len(call.totals)
  <2>1. call.total \in Int /\ call.paid \in Nat /\ Len(call.lines) \in Nat
    BY <1>1, <1>2, CallTypes, I128MaxAssumption
  <2>2. Len(call.totals) = Len(call.lines)
    BY <1>1, <1>2 DEF CallInv, Totalled
  <2>3. QED
    BY <1>1, <2>1, <2>2
<1>6. CASE TransferReply(balance, call.funder, to, amount) # "Ok"
  <2>1. \/ {call.funder, to} \cap frozen # {}
        \/ amount \notin 0..balance[call.funder]
    BY <1>6 DEF TransferReply
  <2>2. amount \notin 0..balance[call.funder] => call.undo[call.funder] < call.total
    <3>1. balance[call.funder] \in Nat /\ call.undo[call.funder] \in Nat
      BY <1>4
    <3>2. QED
      BY <1>3, <1>5, <3>1
  <2>3. call.paid + 1 \in DOMAIN call.lines
    <3>1. DOMAIN call.lines = 1..Len(call.lines)
      BY <1>1, <1>2, CallTypes, LenProperties
    <3>2. QED
      BY <1>5, <3>1
  <2>4. \/ call.undo[call.funder] < call.total
        \/ call.funder \in frozen
        \/ \E i \in DOMAIN call.lines : call.lines[i].to \in frozen
    BY <1>0, <2>1, <2>2, <2>3
  <2>5. Fails("TokenError") /\ UNCHANGED <<ledgerVars, receipt>>
    BY <1>1, <1>6 DEF ledgerVars
  <2>6. QED
    BY <1>1, <2>4, <2>5, FailKeeps DEF Replies
<1>7. CASE TransferReply(balance, call.funder, to, amount) = "Ok"
  <2>1. to \in Holders /\ to # Self /\ amount \in Nat
    BY <1>3
  <2>2. /\ balance' \in [Holders -> Nat]
        /\ \A h \in Holders :
               balance'[h] = balance[h] - (IF h = call.funder THEN amount ELSE 0)
                                        + (IF h = to THEN amount ELSE 0)
    <3>1. balance' = Transferred(balance, call.funder, to, amount)
      BY <1>1, <1>7
    <3>2. amount \in 0..balance[call.funder]
      BY <1>7, TransferAccepted
    <3>3. balance \in [Holders -> Nat] /\ call.funder \in Holders /\ to \in Holders
      BY <1>3, <1>4
    <3>4. QED
      BY <3>1, <3>2, <3>3, TransferMoves
  <2>3. /\ call'.lines = call.lines /\ call'.totals = call.totals
        /\ call'.total = call.total /\ call'.paid = call.paid + 1
        /\ call'.funder = call.funder /\ call'.undo = call.undo
        /\ call'.phase = "Paying" /\ call'.reply = call.reply
        /\ call'.share = [call.share EXCEPT ![to] = @ + amount]
        /\ call' = [call EXCEPT !.paid = call'.paid, !.share = call'.share]
    BY <1>1, <1>2, <1>7 DEF Calls
  <2>4. call'.share \in [Holders -> Nat] /\ call'.paid \in Nat
    <3>1. \A h \in Holders : call.share[h] + amount \in Nat
      BY <1>4, <2>1
    <3>2. call'.paid \in Nat
      BY <1>5, <2>3
    <3>3. call'.share = [h \in Holders |-> IF h = to THEN call.share[h] + amount
                                                   ELSE call.share[h]]
      BY <1>4, <2>3
    <3>4. \A h \in Holders : call.share[h] \in Nat
      BY <1>4
    <3>5. QED
      BY <3>1, <3>2, <3>3, <3>4
  <2>5. call' \in Calls
    BY <1>2, <2>3, <2>4 DEF Calls
  <2>6. TypeOK'
    BY <1>1, <1>2, <2>2, <2>5 DEF TypeOK, LedgerTypeOK
  <2>7. Running(call.paid)' = Running(call.paid + 1)
    BY <1>5, <2>3 DEF Running
  <2>8. PaidSoFar'
    <3>1. call'.share[Self] = 0
      BY <1>2, <1>3, <1>4, <2>3 DEF CallInv, PaidSoFar
    <3>2. ASSUME NEW h \in Holders
          PROVE  balance'[h] = call.undo[h] + call'.share[h]
                     - (IF h = call.funder THEN Running(call.paid + 1) ELSE 0)
      <4>1. balance[h] = call.undo[h] + call.share[h]
                             - (IF h = call.funder THEN Running(call.paid) ELSE 0)
        BY <1>2 DEF CallInv, PaidSoFar
      <4>2. call'.share[h] = call.share[h] + (IF h = to THEN amount ELSE 0)
        BY <1>4, <2>1, <2>3
      <4>3. balance[h] \in Nat /\ call.undo[h] \in Nat /\ call.share[h] \in Nat
        BY <1>4
      <4>4. QED
        BY <1>3, <2>1, <2>2, <4>1, <4>2, <4>3
    <3>3. QED
      BY <2>3, <2>7, <3>1, <3>2 DEF PaidSoFar
  <2>9. TotalsGrow'
    BY <1>2, <2>3 DEF CallInv, TotalsGrow, Running
  <2>10. CallInv'
    <3>1. call'.total = Running(Len(call.totals))'
      BY <1>2, <2>3 DEF CallInv, Running
    <3>2. QED
      BY <1>1, <1>2, <1>5, <2>3, <2>8, <2>9, <3>1 DEF CallInv, Totalled
  <2>11. CoveredBatchesPay'
    BY <2>3 DEF CoveredBatchesPay
  <2>12. QED
    BY <2>6, <2>10, <2>11 DEF IInv
<1>8. QED
  BY <1>6, <1>7

LEMMA ReturnKeeps ==
    ASSUME IInv, Return
    PROVE  IInv'
<1>1. /\ call.phase = "Paying" /\ call' = NoCall /\ UNCHANGED ledgerVars
      /\ receipt' = [payer |-> call.funder, count |-> Len(call.lines),
                     total |-> call.total, share |-> call.share]
  BY DEF Return
<1>2. receipt' \in Receipts
  BY <1>1, CallTypes DEF IInv, CallInv, Receipts
<1>3. TypeOK'
  BY <1>1, <1>2 DEF IInv, TypeOK, LedgerTypeOK, ledgerVars
<1>4. QED
  BY <1>1, <1>3 DEF IInv, CoveredBatchesPay, NoCall

LEMMA RevertKeeps ==
    ASSUME IInv, Revert
    PROVE  IInv'
<1>1. call.phase # "Idle" /\ call' = NoCall /\ balance' = call.undo
      /\ UNCHANGED <<now, frozen, strays, receipt>>
  BY DEF Revert
<1>2. balance' \in [Holders -> Nat]
  BY <1>1, CallTypes DEF IInv
<1>3. TypeOK'
  BY <1>1, <1>2 DEF IInv, TypeOK, LedgerTypeOK
<1>4. QED
  BY <1>1, <1>3 DEF IInv, CoveredBatchesPay, NoCall

\* Between two calls the ledger keeps its types.
LEMMA LedgerKeeps ==
    ASSUME IInv, call.phase = "Idle", LedgerNext, UNCHANGED batchVars
    PROVE  IInv'
<1>1. /\ now \in 0..U64Max /\ U64Max \in Nat /\ balance \in [Holders -> Nat]
      /\ frozen \in SUBSET Freezable /\ strays \in Nat
      /\ Self \in Holders /\ Signers \subseteq Holders
  BY LedgerAssumption DEF IInv, TypeOK, LedgerTypeOK
<1>2. CloseLedger \/ SetFrozen => LedgerTypeOK'
  BY <1>1 DEF CloseLedger, SetFrozen, LedgerTypeOK
<1>3. ASSUME Stray PROVE LedgerTypeOK'
  <2>1. PICK from \in Signers :
            /\ TransferReply(balance, from, Self, 1) = "Ok"
            /\ balance' = Transferred(balance, from, Self, 1)
            /\ strays' = strays + 1 /\ now' = now /\ frozen' = frozen
    BY <1>3 DEF Stray
  <2>2. balance' \in [Holders -> Nat]
    BY <1>1, <2>1, TransferAccepted, TransferMoves
  <2>3. QED
    BY <1>1, <2>1, <2>2 DEF LedgerTypeOK
<1>4. LedgerTypeOK'
  BY <1>2, <1>3 DEF LedgerNext
<1>5. QED
  BY <1>4 DEF IInv, TypeOK, batchVars, CoveredBatchesPay

LEMMA StepKeeps == IInv /\ [Next]_vars => IInv'
<1> SUFFICES ASSUME IInv, [Next]_vars PROVE IInv'
  OBVIOUS
<1>1. CASE Begin
  BY <1>1, ExecuteKeeps, ExecuteEqualKeeps DEF Begin
<1>2. CASE TotalLine \/ RequireFunder \/ TransferLine \/ Return \/ Revert
  BY <1>2, TotalLineKeeps, RequireFunderKeeps, TransferLineKeeps, ReturnKeeps, RevertKeeps
<1>3. CASE call.phase = "Idle" /\ LedgerNext /\ UNCHANGED batchVars
  BY <1>3, LedgerKeeps
<1>4. CASE UNCHANGED vars
  <2>1. UNCHANGED <<now, balance, frozen, strays, call, receipt>>
    BY <1>4 DEF vars, ledgerVars, batchVars
  <2>2. TypeOK' /\ CoveredBatchesPay'
    BY <2>1 DEF IInv, TypeOK, LedgerTypeOK, CoveredBatchesPay
  <2>3. CallInv' = CallInv
    BY <2>1 DEF CallInv, TotalsGrow, PaidSoFar, Running, Totalled
  <2>4. QED
    BY <2>1, <2>2, <2>3 DEF IInv
<1>5. QED
  BY <1>1, <1>2, <1>3, <1>4 DEF Next

-----------------------------------------------------------------------------

\* In every reachable state what a call has moved is what its paid lines say.
THEOREM Invariance == Spec => []IInv
BY InitEstablishes, StepKeeps, PTL DEF Spec

\* The types hold in every reachable state, whatever the length of the batch.
THEOREM TypeCorrect == Spec => []TypeOK
<1>1. IInv => TypeOK
  BY DEF IInv
<1>2. QED
  BY <1>1, Invariance, PTL

\* A batch the funder can cover, among holders nobody froze, is never refused
\* by the token half way.
THEOREM CoveredPay == Spec => []CoveredBatchesPay
<1>1. IInv => CoveredBatchesPay
  BY DEF IInv
<1>2. QED
  BY <1>1, Invariance, PTL

\* A call is all or nothing: seen from outside, nothing happens until it
\* returns, and then everybody is paid at once.
THEOREM Refinement == Spec => ImplementsPayout
<1>1. Init => Payout!Init
  BY LedgerAssumption
  DEF Init, LedgerInit, Payout!Init, Committed, NoCall
<1>2. IInv /\ [Next]_vars => [Payout!Next]_Payout!payoutVars
  <2> SUFFICES ASSUME IInv, [Next]_vars
               PROVE  Payout!Next \/ (Committed' = Committed /\ receipt' = receipt)
    BY DEF Payout!payoutVars
  <2>1. TypeOK /\ TypeOK'
    BY StepKeeps DEF IInv
  <2>2. ASSUME call.phase = "Idle", receipt' = NoReceipt, balance' = balance,
               call'.undo = balance
        PROVE  Payout!Next
    BY <2>2 DEF Payout!Next, Payout!Forget, Committed
  <2>3. CASE Begin
    <3>1. ASSUME NEW signer, NEW funder, NEW lines, Execute(signer, funder, lines)
          PROVE  receipt' = NoReceipt /\ balance' = balance /\ call'.undo = balance
      BY <3>1 DEF Execute, Opened, ledgerVars
    <3>2. ASSUME NEW signer, NEW funder, NEW recipients, NEW amount,
                 ExecuteEqual(signer, funder, recipients, amount)
          PROVE  receipt' = NoReceipt /\ balance' = balance /\ call'.undo = balance
      BY <3>2 DEF ExecuteEqual, Opened, ledgerVars
    <3>3. QED
      BY <2>2, <2>3, <3>1, <3>2 DEF Begin
  <2>4. CASE TotalLine \/ RequireFunder \/ TransferLine
    <3>1. call.phase # "Idle" /\ receipt' = receipt
      BY <2>4 DEF TotalLine, RequireFunder, TransferLine
    <3>2. call \in Calls
      BY <2>1, <3>1 DEF TypeOK, NoCall
    <3>3. call'.undo = call.undo /\ call'.funder = call.funder
      BY <2>4, <3>2 DEF TotalLine, RequireFunder, TransferLine, Fails, Calls
    <3>4. call'.phase # "Idle"
      BY <2>4, <3>2 DEF TotalLine, RequireFunder, TransferLine, Fails, Calls, Phases
    <3>5. QED
      BY <3>1, <3>3, <3>4 DEF Committed
  <2>5. CASE Return
    <3>1. /\ call.phase = "Paying" /\ call.paid = Len(call.lines)
          /\ call' = NoCall /\ balance' = balance
          /\ receipt' = [payer |-> call.funder, count |-> Len(call.lines),
                         total |-> call.total, share |-> call.share]
      BY <2>5 DEF Return, ledgerVars
    <3>2. CallInv /\ call.funder \in Holders \ {Self} /\ call.total \in Nat
          /\ call.share \in [Holders -> Nat] /\ Len(call.lines) \in 1..MaxRecipients
          /\ Len(call.lines) \in Nat
      BY <2>1, <3>1, CallTypes, I128MaxAssumption DEF IInv, CallInv
    <3>3. Running(call.paid) = call.total
      BY <3>1, <3>2 DEF CallInv, Totalled
    <3>4. receipt' \in Payout!Receipts /\ receipt'.share[Self] = 0
      BY <3>1, <3>2 DEF Payout!Receipts, CallInv, PaidSoFar
    <3>5. \A h \in Holders :
              balance'[h] = call.undo[h] + receipt'.share[h]
                                - (IF h = receipt'.payer THEN receipt'.total ELSE 0)
      BY <3>1, <3>2, <3>3 DEF CallInv, PaidSoFar
    <3>6. Committed' = balance' /\ Committed = call.undo
      BY <3>1 DEF Committed, NoCall
    <3>7. balance' \in [Holders -> Nat]
      BY <2>1 DEF TypeOK, LedgerTypeOK
    <3>8. Payout!Pay
      BY <3>4, <3>5, <3>6, <3>7 DEF Payout!Pay
    <3>9. QED
      BY <3>8 DEF Payout!Next
  <2>6. CASE Revert
    BY <2>6 DEF Revert, Committed, NoCall
  <2>7. CASE call.phase = "Idle" /\ LedgerNext /\ UNCHANGED batchVars
    <3>1. receipt' = receipt /\ Committed = balance /\ Committed' = balance'
      BY <2>7 DEF batchVars, Committed
    <3>2. CASE CloseLedger \/ SetFrozen
      BY <3>1, <3>2 DEF CloseLedger, SetFrozen
    <3>3. CASE Stray
      <4>1. PICK from \in Signers :
                TransferReply(balance, from, Self, 1) = "Ok"
                /\ balance' = Transferred(balance, from, Self, 1)
        BY <3>3 DEF Stray
      <4>2. balance \in [Holders -> Nat] /\ from \in Holders \ {Self} /\ Self \in Holders
        BY <2>1, WorldTypes
      <4>3. /\ balance' \in [Holders -> Nat]
            /\ \A h \in Holders : balance'[h] = balance[h] - (IF h = from THEN 1 ELSE 0)
                                                          + (IF h = Self THEN 1 ELSE 0)
        BY <4>1, <4>2, TransferAccepted, TransferMoves
      <4>4. balance' = [balance EXCEPT ![from] = @ - 1, ![Self] = @ + 1]
        BY <4>2, <4>3
      <4>5. Payout!Stray
        BY <3>1, <4>2, <4>4 DEF Payout!Stray
      <4>6. QED
        BY <4>5 DEF Payout!Next
    <3>4. QED
      BY <2>7, <3>2, <3>3 DEF LedgerNext
  <2>8. CASE UNCHANGED vars
    BY <2>8 DEF vars, ledgerVars, batchVars, Committed
  <2>9. QED
    BY <2>3, <2>4, <2>5, <2>6, <2>7, <2>8 DEF Next
<1>3. QED
  BY <1>1, <1>2, Invariance, PTL DEF Spec, ImplementsPayout, Payout!Spec

-----------------------------------------------------------------------------
(* The view `preview` says what `execute` and `execute_equal` will say.      *)

\* The running totals of preview's loop over the first n lines.
Judged(judged, lines, n) ==
    judged = [i \in 0..n |->
                 IF i = 0 THEN Ok(0)
                 ELSE IF judged[i - 1].err = "Ok"
                      THEN AddLine(judged[i - 1].val, lines[i])
                      ELSE judged[i - 1]]

\* The loop is defined for every batch, by induction on the number of lines.
LEMMA LoopIsDefined ==
    ASSUME NEW lines, NEW n \in Nat
    PROVE  \E judged : Judged(judged, lines, n)
<1> DEFINE S == {k \in Nat : \E judged : Judged(judged, lines, k)}
<1>1. 0 \in S
  <2>1. Judged([i \in 0..0 |-> Ok(0)], lines, 0)
    BY DEF Judged
  <2>2. QED
    BY <2>1
<1>2. ASSUME NEW k \in S PROVE k + 1 \in S
  <2>1. PICK judged : Judged(judged, lines, k)
    OBVIOUS
  <2> DEFINE last == IF judged[k].err = "Ok"
                     THEN AddLine(judged[k].val, lines[k + 1]) ELSE judged[k]
             longer == [i \in 0..(k + 1) |-> IF i = k + 1 THEN last ELSE judged[i]]
  <2>2. k \in Nat
    OBVIOUS
  <2>3. ASSUME NEW i \in 0..(k + 1)
        PROVE  longer[i] = IF i = 0 THEN Ok(0)
                           ELSE IF longer[i - 1].err = "Ok"
                                THEN AddLine(longer[i - 1].val, lines[i])
                                ELSE longer[i - 1]
    <3>1. CASE i = k + 1
      <4>1. longer[i] = last /\ longer[i - 1] = judged[k] /\ i # 0
        BY <2>2, <3>1
      <4> HIDE DEF longer
      <4>2. QED
        BY <3>1, <4>1
    <3>2. CASE i # k + 1
      <4>1. i \in 0..k /\ longer[i] = judged[i] /\ (i # 0 => longer[i - 1] = judged[i - 1])
        BY <2>2, <3>2
      <4> HIDE DEF longer
      <4>2. judged[i] = IF i = 0 THEN Ok(0)
                        ELSE IF judged[i - 1].err = "Ok"
                             THEN AddLine(judged[i - 1].val, lines[i])
                             ELSE judged[i - 1]
        BY <2>1, <4>1 DEF Judged
      <4>3. QED
        BY <4>1, <4>2
    <3>3. QED
      BY <3>1, <3>2
  <2>4. longer = [i \in 0..(k + 1) |-> longer[i]]
    OBVIOUS
  <2> HIDE DEF longer
  <2>5. Judged(longer, lines, k + 1)
    BY <2>3, <2>4 DEF Judged
  <2>6. QED
    BY <2>2, <2>5
<1> HIDE DEF S
<1>3. S \in SUBSET Nat
  BY DEF S
<1>4. S = Nat
  BY <1>1, <1>2, <1>3, InductionOnSet
<1>5. QED
  BY <1>4 DEF S

\* What preview answers is what its loop ends with; a line refused ends it.
LEMMA PreviewLoops ==
    ASSUME NEW lines, Len(lines) \in Nat
    PROVE  \E judged :
               /\ judged[0] = Ok(0)
               /\ \A k \in 1..Len(lines) :
                      judged[k] = IF judged[k - 1].err = "Ok"
                                  THEN AddLine(judged[k - 1].val, lines[k])
                                  ELSE judged[k - 1]
               /\ \A j, k \in 0..Len(lines) :
                      j <= k /\ judged[j].err # "Ok" => judged[k] = judged[j]
               /\ Preview(lines) = IF CheckSize(Len(lines)) = "Ok"
                                   THEN judged[Len(lines)]
                                   ELSE Err(CheckSize(Len(lines)))
<1> DEFINE n == Len(lines)
           judged == CHOOSE judged : Judged(judged, lines, n)
<1>1. Judged(judged, lines, n)
  BY LoopIsDefined
<1>2. Preview(lines) = IF CheckSize(n) = "Ok" THEN judged[n] ELSE Err(CheckSize(n))
  BY DEF Preview, Judged
<1> HIDE DEF judged
<1>3. judged[0] = Ok(0)
  BY <1>1 DEF Judged
<1>4. ASSUME NEW k \in 1..n
      PROVE  judged[k] = IF judged[k - 1].err = "Ok"
                         THEN AddLine(judged[k - 1].val, lines[k]) ELSE judged[k - 1]
  <2>1. k \in 0..n /\ k # 0
    OBVIOUS
  <2>2. QED
    BY <1>1, <2>1 DEF Judged
<1>5. ASSUME NEW j \in 0..n, judged[j].err # "Ok", NEW k \in 0..n, j <= k
      PROVE  judged[k] = judged[j]
  <2> DEFINE S == {d \in Nat : j + d <= n => judged[j + d] = judged[j]}
  <2>1. 0 \in S
    OBVIOUS
  <2>2. ASSUME NEW d \in S PROVE d + 1 \in S
    <3> SUFFICES ASSUME j + (d + 1) <= n PROVE judged[j + (d + 1)] = judged[j]
      OBVIOUS
    <3>1. judged[j + d] = judged[j]
      OBVIOUS
    <3>2. j + (d + 1) \in 1..n /\ (j + (d + 1)) - 1 = j + d
      OBVIOUS
    <3>3. QED
      BY <1>4, <1>5, <3>1, <3>2
  <2> HIDE DEF S
  <2>3. S \in SUBSET Nat
    BY DEF S
  <2>4. k - j \in Nat /\ j + (k - j) = k
    BY <1>5
  <2>5. k - j \in S
    BY <2>1, <2>2, <2>3, <2>4, InductionOnSet
  <2>6. QED
    BY <1>5, <2>4, <2>5 DEF S
<1>6. QED
  BY <1>2, <1>3, <1>4, <1>5

\* The totals of a call are those of preview, as far as the call has come.
LEMMA PreviewFollows ==
    ASSUME TypeOK, call.phase # "Idle", CallInv, NEW judged,
           judged[0] = Ok(0),
           \A k \in 1..Len(call.lines) :
               judged[k] = IF judged[k - 1].err = "Ok"
                           THEN AddLine(judged[k - 1].val, call.lines[k])
                           ELSE judged[k - 1]
    PROVE  judged[Len(call.totals)] = Ok(call.total)
<1> DEFINE n == Len(call.totals)
           S == {k \in Nat : k <= n => judged[k] = Ok(Running(k))}
<1>1. /\ n \in Nat /\ n <= Len(call.lines) /\ Len(call.lines) \in Nat
      /\ \A k \in 1..n : call.totals[k] \in 0..I128Max
      /\ \A k \in 1..Len(call.lines) : call.lines[k].amount \in I128
      /\ I128Max \in Nat
  BY CallTypes, WorldTypes DEF CallInv
<1>2. 0 \in S
  BY DEF Running
<1>3. ASSUME NEW k \in S PROVE k + 1 \in S
  <2> SUFFICES ASSUME k + 1 <= n PROVE judged[k + 1] = Ok(Running(k + 1))
    OBVIOUS
  <2>1. /\ k + 1 \in 1..n /\ k + 1 \in 1..Len(call.lines) /\ (k + 1) - 1 = k
        /\ judged[k] = Ok(Running(k))
    BY <1>1
  <2>2. /\ call.lines[k + 1].to # Self /\ call.lines[k + 1].amount > 0
        /\ Running(k + 1) = Running(k) + call.lines[k + 1].amount
    BY <2>1 DEF CallInv, TotalsGrow
  <2>3. Running(k + 1) \in I128
    BY <1>1, <2>1 DEF Running, I128
  <2>4. AddLine(Running(k), call.lines[k + 1]) = Ok(Running(k + 1))
    BY <2>2, <2>3 DEF AddLine, Add, Checked, Ok, Err, Require, ??
  <2>5. judged[k + 1] = AddLine(Running(k), call.lines[k + 1])
    BY <2>1 DEF Ok
  <2>6. QED
    BY <2>4, <2>5
<1> HIDE DEF S
<1>4. S \in SUBSET Nat
  BY DEF S
<1>5. n \in S
  BY <1>1, <1>2, <1>3, <1>4, InductionOnSet
<1>6. QED
  BY <1>1, <1>5 DEF S, CallInv

\* A call that has totalled all its lines has preview's total.
LEMMA TotalIsPreviewed ==
    ASSUME TypeOK, call.phase # "Idle", CallInv, Totalled,
           Len(call.lines) \in 1..MaxRecipients
    PROVE  Preview(call.lines) = Ok(call.total)
<1>1. Len(call.lines) \in Nat /\ MaxRecipients \in Nat
  BY CallTypes, WorldTypes
<1>2. CheckSize(Len(call.lines)) = "Ok"
  BY <1>1 DEF CheckSize, Require, ??
<1>3. PICK judged :
          /\ judged[0] = Ok(0)
          /\ \A k \in 1..Len(call.lines) :
                 judged[k] = IF judged[k - 1].err = "Ok"
                             THEN AddLine(judged[k - 1].val, call.lines[k])
                             ELSE judged[k - 1]
          /\ Preview(call.lines) = judged[Len(call.lines)]
  BY <1>1, <1>2, PreviewLoops
<1>4. judged[Len(call.totals)] = Ok(call.total)
  BY <1>3, PreviewFollows
<1>5. QED
  BY <1>3, <1>4 DEF Totalled

\* A line the call refuses is refused by preview, for the same reason.
LEMMA RefusalIsPreviewed ==
    ASSUME TypeOK, call.phase # "Idle", CallInv, ~Totalled,
           Len(call.lines) \in 1..MaxRecipients,
           NEW err, err # "Ok",
           AddLine(call.total, call.lines[Len(call.totals) + 1]).err = err
    PROVE  Preview(call.lines).err = err
<1> DEFINE n == Len(call.totals)
           m == Len(call.lines)
<1>1. m \in Nat /\ n \in Nat /\ n < m /\ MaxRecipients \in Nat
  BY CallTypes, WorldTypes DEF CallInv, Totalled
<1>2. CheckSize(m) = "Ok"
  BY <1>1 DEF CheckSize, Require, ??
<1>3. PICK judged :
          /\ judged[0] = Ok(0)
          /\ \A k \in 1..m : judged[k] = IF judged[k - 1].err = "Ok"
                                         THEN AddLine(judged[k - 1].val, call.lines[k])
                                         ELSE judged[k - 1]
          /\ \A j, k \in 0..m : j <= k /\ judged[j].err # "Ok" => judged[k] = judged[j]
          /\ Preview(call.lines) = judged[m]
  BY <1>1, <1>2, PreviewLoops
<1>4. judged[n] = Ok(call.total)
  BY <1>3, PreviewFollows
<1>5. n + 1 \in 1..m /\ (n + 1) - 1 = n
  BY <1>1
<1>6. judged[n + 1].err = err
  BY <1>3, <1>4, <1>5 DEF Ok
<1>7. judged[m] = judged[n + 1]
  BY <1>1, <1>3, <1>5, <1>6
<1>8. QED
  BY <1>3, <1>6, <1>7

\* Equal lines preview accepts are payable, and their product is the total.
LEMMA EqualLinesAgree ==
    ASSUME NEW lines, NEW n \in Nat, Len(lines) = n, NEW amount \in I128,
           \A k \in 1..n : lines[k].amount = amount,
           Preview(lines).err = "Ok"
    PROVE  /\ CheckSize(n) = "Ok" /\ amount > 0
           /\ \A k \in 1..n : lines[k].to # Self
           /\ EqualTotal(amount, n).err = "Ok"
<1>1. CheckSize(n) = "Ok"
  BY PreviewLoops DEF Err
<1>2. PICK judged :
          /\ judged[0] = Ok(0)
          /\ \A k \in 1..n : judged[k] = IF judged[k - 1].err = "Ok"
                                         THEN AddLine(judged[k - 1].val, lines[k])
                                         ELSE judged[k - 1]
          /\ \A j, k \in 0..n : j <= k /\ judged[j].err # "Ok" => judged[k] = judged[j]
          /\ Preview(lines) = judged[n]
  BY <1>1, PreviewLoops
<1>3. \A k \in 0..n : judged[k].err = "Ok"
  BY <1>2
<1>4. ASSUME NEW k \in 1..n
      PROVE  /\ judged[k] = AddLine(judged[k - 1].val, lines[k])
             /\ lines[k].to # Self /\ amount > 0
             /\ judged[k].val = judged[k - 1].val + amount /\ judged[k].val \in I128
  <2>1. judged[k - 1].err = "Ok" /\ judged[k].err = "Ok"
    BY <1>3
  <2>2. judged[k] = AddLine(judged[k - 1].val, lines[k])
    BY <1>2, <2>1
  <2>3. QED
    BY <2>1, <2>2 DEF AddLine, Add, Checked, Ok, Err, Require, ??
<1>5. n >= 1 /\ amount > 0
  BY <1>1, <1>4 DEF CheckSize, Require, ??
<1> DEFINE S == {k \in Nat : k <= n => judged[k].val = amount * k}
<1>6. n \in S
  <2>1. 0 \in S
    BY <1>2, I128MaxAssumption DEF Ok, I128
  <2>2. ASSUME NEW k \in S PROVE k + 1 \in S
    <3> SUFFICES ASSUME k + 1 <= n PROVE judged[k + 1].val = amount * (k + 1)
      OBVIOUS
    <3>1. k + 1 \in 1..n /\ (k + 1) - 1 = k /\ judged[k].val = amount * k
      OBVIOUS
    <3>2. judged[k + 1].val = amount * k + amount
      BY <1>4, <3>1
    <3>3. amount * (k + 1) = amount * k + amount
      BY I128MaxAssumption DEF I128
    <3>4. QED
      BY <3>2, <3>3
  <2> HIDE DEF S
  <2>3. S \in SUBSET Nat
    BY DEF S
  <2>4. QED
    BY <2>1, <2>2, <2>3, InductionOnSet
<1>7. amount * n \in I128
  BY <1>4, <1>5, <1>6
<1>8. EqualTotal(amount, n).err = "Ok"
  BY <1>7 DEF EqualTotal, Mul, Checked, Ok
<1>9. QED
  BY <1>1, <1>4, <1>5, <1>8

\* preview and the two entry points agree at every step of a call.
LEMMA PreviewKeepsAgreeing ==
    ASSUME IInv, PreviewAgrees, [Next]_vars
    PROVE  PreviewAgrees'
<1>1. ASSUME NEW signer \in Signers, NEW funder \in Signers,
             NEW lines \in Sequences([to : Holders, amount : PayAmounts]),
             Execute(signer, funder, lines)
      PROVE  PreviewAgrees'
  <2> DEFINE reply == CheckSize(Len(lines))
  <2>1. call' = Opened("execute", signer, funder, lines, reply, <<>>, 0)
    BY <1>1 DEF Execute
  <2>2. /\ call'.lines = lines /\ call'.reply = reply
        /\ call'.phase = (IF reply = "Ok" THEN "Totalling" ELSE "Failed")
    BY <2>1 DEF Opened
  <2>3. reply \in {"Ok", "BatchEmpty", "BatchTooLarge"} /\ Len(lines) \in Nat
    BY SequencesAre DEF CheckSize, Require, ??
  <2>4. reply # "Ok" => Preview(lines) = Err(reply)
    BY <2>3, PreviewLoops
  <2> HIDE DEF reply
  <2>5. QED
    BY <2>2, <2>3, <2>4 DEF PreviewAgrees, Err
<1>2. ASSUME NEW signer \in Signers, NEW funder \in Signers,
             NEW recipients \in Sequences(Holders), NEW amount \in PayAmounts,
             ExecuteEqual(signer, funder, recipients, amount)
      PROVE  PreviewAgrees'
  <2> DEFINE reply == EqualReply(recipients, amount)
             lines == [i \in DOMAIN recipients |-> [to |-> recipients[i], amount |-> amount]]
             n     == Len(recipients)
  <2>1. /\ call'.lines = lines /\ call'.reply = reply /\ call'.entry = "execute_equal"
        /\ call'.phase = (IF reply = "Ok" THEN "Totalling" ELSE "Failed")
    BY <1>2 DEF ExecuteEqual, Opened
  <2>2. /\ n \in Nat /\ DOMAIN recipients = 1..n
        /\ \A i \in 1..n : recipients[i] \in Holders
    BY SequencesAre
  <2>3. amount \in I128
    BY BatchAssumption
  <2>4. /\ \A k \in 1..n : lines[k].amount = amount /\ lines[k].to = recipients[k]
        /\ lines \in [1..n -> [to : Holders, amount : {amount}]]
    BY <2>2
  <2>5. Len(lines) = n
    <3>1. lines \in Seq([to : Holders, amount : {amount}])
      BY <2>2, <2>4, SeqDef
    <3>2. QED
      BY <2>2, <2>4, <3>1, LenProperties
  <2>6. reply \notin {"HostAuthError", "TokenError"}
    BY DEF EqualReply, CheckSize, EqualTotal, Mul, Checked, Ok, Err, Require, ??
  <2> HIDE DEF lines
  <2>7. Preview(lines).err = "Ok" => reply = "Ok"
    <3> SUFFICES ASSUME Preview(lines).err = "Ok" PROVE reply = "Ok"
      OBVIOUS
    <3>1. /\ CheckSize(n) = "Ok" /\ amount > 0
          /\ \A k \in 1..n : lines[k].to # Self
          /\ EqualTotal(amount, n).err = "Ok"
      BY <2>2, <2>3, <2>4, <2>5, EqualLinesAgree
    <3>2. \A k \in DOMAIN recipients : recipients[k] # Self
      BY <2>2, <2>4, <3>1
    <3>3. QED
      BY <3>1, <3>2 DEF EqualReply, Require, ??
  <2> HIDE DEF reply
  <2>8. QED
    BY <2>1, <2>6, <2>7 DEF PreviewAgrees
<1>3. CASE TotalLine
  <2>1. /\ call.phase = "Totalling" /\ ~Totalled /\ call \in Calls /\ CallInv /\ TypeOK
        /\ Len(call.lines) \in 1..MaxRecipients
    BY <1>3, CallTypes DEF TotalLine, IInv, CallInv
  <2> DEFINE sum == AddLine(call.total, call.lines[Len(call.totals) + 1])
  <2>2. CASE sum.err = "Ok"
    <3>1. call'.phase = "Totalling"
      BY <1>3, <2>1, <2>2 DEF TotalLine, Calls
    <3>2. QED
      BY <3>1 DEF PreviewAgrees
  <2>3. CASE sum.err # "Ok"
    <3>1. Preview(call.lines).err = sum.err
      BY <2>1, <2>3, RefusalIsPreviewed
    <3>2. Fails(sum.err)
      BY <1>3, <2>3 DEF TotalLine
    <3>3. sum.err \notin {"HostAuthError", "TokenError"}
      BY DEF AddLine, Add, Checked, Ok, Err, Require, ??
    <3> HIDE DEF sum
    <3>4. call'.phase = "Failed" /\ call'.reply = sum.err /\ call'.lines = call.lines
      BY <2>1, <3>2 DEF Fails, Calls
    <3>5. QED
      BY <2>3, <3>1, <3>3, <3>4 DEF PreviewAgrees
  <2>4. QED
    BY <2>2, <2>3
<1>4. CASE RequireFunder
  <2>1. /\ call.phase = "Totalling" /\ Totalled /\ call \in Calls /\ CallInv /\ TypeOK
        /\ Len(call.lines) \in 1..MaxRecipients
    BY <1>4, CallTypes DEF RequireFunder, IInv, CallInv
  <2>2. Preview(call.lines) = Ok(call.total)
    BY <2>1, TotalIsPreviewed
  <2>3. /\ call'.lines = call.lines /\ call'.total = call.total
        /\ \/ call'.phase = "Paying"
           \/ call'.phase = "Failed" /\ call'.reply = "HostAuthError"
    BY <1>4, <2>1 DEF RequireFunder, Fails, Calls
  <2>4. QED
    BY <2>2, <2>3 DEF PreviewAgrees
<1>5. CASE TransferLine
  <2>1. call.phase = "Paying" /\ call \in Calls
    BY <1>5, CallTypes DEF TransferLine, IInv
  <2>2. Preview(call.lines) = Ok(call.total)
    BY <2>1 DEF PreviewAgrees
  <2>3. /\ call'.lines = call.lines /\ call'.total = call.total
        /\ \/ call'.phase = "Paying"
           \/ call'.phase = "Failed" /\ call'.reply = "TokenError"
    BY <1>5, <2>1 DEF TransferLine, Fails, Calls
  <2>4. QED
    BY <2>2, <2>3 DEF PreviewAgrees
<1>6. CASE Return \/ Revert
  BY <1>6 DEF Return, Revert, NoCall, PreviewAgrees
<1>7. CASE UNCHANGED call
  BY <1>7 DEF PreviewAgrees
<1>8. QED
  BY <1>1, <1>2, <1>3, <1>4, <1>5, <1>6, <1>7 DEF Next, Begin, vars, batchVars

\* preview runs exactly the validation of the entry points, for every batch.
THEOREM PreviewHolds == Spec => []PreviewAgrees
<1>1. Init => PreviewAgrees
  BY DEF Init, NoCall, PreviewAgrees
<1>2. IInv /\ PreviewAgrees /\ [Next]_vars => PreviewAgrees'
  BY PreviewKeepsAgreeing
<1>3. QED
  BY <1>1, <1>2, Invariance, PTL DEF Spec

-----------------------------------------------------------------------------
(* The receipt's total is the sum of what was moved.                         *)

\* The member a sum takes next.
Pick(s) == CHOOSE x \in s : TRUE

\* The sums of f over the sets of a family.
Sums(sums, f, family) ==
    sums = [s \in family |-> IF s = {} THEN 0 ELSE f[Pick(s)] + sums[s \ {Pick(s)}]]

\* The sum of f over S.
Total(f, S) == (CHOOSE sums : Sums(sums, f, SUBSET S))[S]

\* This is the sum of ReceiptIsExact.
LEMMA ReceiptTotals ==
    /\ ReceiptIsExact <=>
           (receipt # NoReceipt => receipt.total = Total(receipt.share, Holders))
    /\ ReceiptIsExact' <=>
           (receipt' # NoReceipt => receipt'.total = Total(receipt'.share, Holders))
BY DEF ReceiptIsExact, Total, Sums, Pick, Sets!MapThenSumSet, Sets!MapThenFoldSet

\* The subsets of S of at most n members.
UpTo(S, n) == {s \in SUBSET S : Cardinality(s) <= n}

\* The size of the subsets of a finite set.
LEMMA SubsetSizes ==
    ASSUME NEW S, IsFiniteSet(S)
    PROVE  /\ Cardinality(S) \in Nat
           /\ \A s \in SUBSET S :
                  /\ Cardinality(s) \in Nat /\ Cardinality(s) <= Cardinality(S)
                  /\ Cardinality(s) = 0 <=> s = {}
BY FS_Subset, FS_EmptySet, FS_CardinalityType

\* Taking a member out of a finite set leaves a smaller one.
LEMMA PickLeavesLess ==
    ASSUME NEW S, IsFiniteSet(S), NEW s \in SUBSET S, s # {}
    PROVE  /\ Pick(s) \in s /\ s \ {Pick(s)} \in SUBSET S
           /\ Cardinality(s \ {Pick(s)}) = Cardinality(s) - 1
<1>1. Pick(s) \in s
  BY DEF Pick
<1>2. IsFiniteSet(s)
  BY FS_Subset
<1>3. QED
  BY <1>1, <1>2, FS_RemoveElement

\* The sums over the subsets of a finite set are defined, by induction on the
\* size of the subsets.
LEMMA SumsAreDefined ==
    ASSUME NEW S, IsFiniteSet(S), NEW f
    PROVE  \E sums : Sums(sums, f, SUBSET S)
<1> DEFINE N == {n \in Nat : \E sums : Sums(sums, f, UpTo(S, n))}
<1>1. 0 \in N
  <2>1. \A s \in UpTo(S, 0) : s = {}
    BY SubsetSizes DEF UpTo
  <2>2. Sums([s \in UpTo(S, 0) |-> 0], f, UpTo(S, 0))
    BY <2>1 DEF Sums
  <2>3. QED
    BY <2>2
<1>2. ASSUME NEW n \in N PROVE n + 1 \in N
  <2>1. PICK sums : Sums(sums, f, UpTo(S, n))
    OBVIOUS
  <2>2. n \in Nat
    OBVIOUS
  <2> DEFINE more == [s \in UpTo(S, n + 1) |->
                         IF s \in UpTo(S, n) THEN sums[s]
                         ELSE f[Pick(s)] + sums[s \ {Pick(s)}]]
  <2>3. ASSUME NEW s \in UpTo(S, n + 1), s # {}
        PROVE  /\ more[s] = f[Pick(s)] + more[s \ {Pick(s)}]
    <3>1. /\ s \ {Pick(s)} \in UpTo(S, n) /\ s \ {Pick(s)} \in UpTo(S, n + 1)
      BY <2>2, <2>3, PickLeavesLess, SubsetSizes DEF UpTo
    <3>2. more[s \ {Pick(s)}] = sums[s \ {Pick(s)}]
      BY <3>1
    <3>3. s \in UpTo(S, n) => sums[s] = f[Pick(s)] + sums[s \ {Pick(s)}]
      BY <2>1, <2>3 DEF Sums
    <3>4. QED
      BY <3>2, <3>3
  <2>4. {} \in UpTo(S, n) /\ {} \in UpTo(S, n + 1)
    BY <2>2, SubsetSizes DEF UpTo
  <2>5. more[{}] = 0
    BY <2>1, <2>4 DEF Sums
  <2>6. more = [s \in UpTo(S, n + 1) |-> more[s]]
    OBVIOUS
  <2> HIDE DEF more
  <2>7. Sums(more, f, UpTo(S, n + 1))
    BY <2>3, <2>5, <2>6 DEF Sums
  <2>8. QED
    BY <2>2, <2>7
<1> HIDE DEF N
<1>3. N \in SUBSET Nat
  BY DEF N
<1>4. N = Nat
  BY <1>1, <1>2, <1>3, InductionOnSet
<1>5. Cardinality(S) \in Nat /\ \A s \in SUBSET S : Cardinality(s) <= Cardinality(S)
  BY SubsetSizes
<1>6. UpTo(S, Cardinality(S)) = SUBSET S
  BY <1>5 DEF UpTo
<1>7. QED
  BY <1>4, <1>5, <1>6 DEF N

\* F takes the members of each subset of S one by one.
TakesOneByOne(F, f, S) ==
    /\ F[{}] = 0
    /\ \A s \in SUBSET S : s # {} => F[s] = f[Pick(s)] + F[s \ {Pick(s)}]

\* A sum is the value at the whole set of sums over its subsets.
LEMMA TotalSums ==
    ASSUME NEW S, IsFiniteSet(S), NEW f
    PROVE  \E F : Total(f, S) = F[S] /\ TakesOneByOne(F, f, S)
<1> DEFINE sums == CHOOSE sums : Sums(sums, f, SUBSET S)
<1>1. Sums(sums, f, SUBSET S)
  BY SumsAreDefined
<1>2. Total(f, S) = sums[S]
  BY DEF Total
<1> HIDE DEF sums
<1>3. QED
  BY <1>1, <1>2 DEF Sums, TakesOneByOne

\* Adding to one member of a function adds as much to its sum.
LEMMA TotalGrows ==
    ASSUME NEW S, IsFiniteSet(S), NEW f \in [S -> Nat], NEW g \in [S -> Nat],
           NEW x \in S, NEW a \in Nat,
           \A h \in S : g[h] = f[h] + (IF h = x THEN a ELSE 0)
    PROVE  Total(g, S) = Total(f, S) + a
<1>1. PICK F : Total(f, S) = F[S] /\ TakesOneByOne(F, f, S)
  BY TotalSums
<1>2. PICK G : Total(g, S) = G[S] /\ TakesOneByOne(G, g, S)
  BY TotalSums
<1> DEFINE N == {n \in Nat : \A s \in SUBSET S :
                                 Cardinality(s) = n =>
                                     /\ F[s] \in Nat
                                     /\ G[s] = F[s] + (IF x \in s THEN a ELSE 0)}
<1>3. 0 \in N
  <2>1. \A s \in SUBSET S : Cardinality(s) = 0 => s = {}
    BY SubsetSizes
  <2>2. F[{}] = 0 /\ G[{}] = 0 /\ x \notin {}
    BY <1>1, <1>2 DEF TakesOneByOne
  <2>3. QED
    BY <2>1, <2>2
<1>4. ASSUME NEW n \in N PROVE n + 1 \in N
  <2>1. n \in Nat
    OBVIOUS
  <2>2. ASSUME NEW s \in SUBSET S, Cardinality(s) = n + 1
        PROVE  F[s] \in Nat /\ G[s] = F[s] + (IF x \in s THEN a ELSE 0)
    <3> DEFINE p == Pick(s)
               t == s \ {p}
    <3>1. s # {}
      BY <2>1, <2>2, SubsetSizes
    <3>2. p \in s /\ p \in S /\ t \in SUBSET S /\ Cardinality(t) = n
      BY <2>1, <2>2, <3>1, PickLeavesLess
    <3>3. F[t] \in Nat /\ G[t] = F[t] + (IF x \in t THEN a ELSE 0)
      BY <3>2
    <3>4. F[s] = f[p] + F[t] /\ G[s] = g[p] + G[t]
      BY <1>1, <1>2, <3>1 DEF TakesOneByOne
    <3>5. f[p] \in Nat /\ g[p] = f[p] + (IF p = x THEN a ELSE 0)
      BY <3>2
    <3>6. x \in s <=> (x \in t \/ p = x)
      BY <3>2
    <3>7. p = x => x \notin t
      OBVIOUS
    <3> HIDE DEF p, t
    <3>8. QED
      BY <3>3, <3>4, <3>5, <3>6, <3>7
  <2>3. QED
    BY <2>1, <2>2
<1> HIDE DEF N
<1>5. N \in SUBSET Nat
  BY DEF N
<1>6. Cardinality(S) \in N
  BY <1>3, <1>4, <1>5, InductionOnSet, SubsetSizes
<1>7. QED
  BY <1>1, <1>2, <1>6 DEF N

\* The sum of nothing but zeros.
LEMMA TotalOfNothing ==
    ASSUME NEW S, IsFiniteSet(S), NEW f, \A h \in S : f[h] = 0
    PROVE  Total(f, S) = 0
<1>1. PICK F : Total(f, S) = F[S] /\ TakesOneByOne(F, f, S)
  BY TotalSums
<1> DEFINE N == {n \in Nat : \A s \in SUBSET S : Cardinality(s) = n => F[s] = 0}
<1>2. 0 \in N
  BY <1>1, SubsetSizes DEF TakesOneByOne
<1>3. ASSUME NEW n \in N PROVE n + 1 \in N
  <2>1. ASSUME NEW s \in SUBSET S, Cardinality(s) = n + 1 PROVE F[s] = 0
    <3>1. s # {} /\ n \in Nat
      BY <2>1, SubsetSizes
    <3>2. /\ Pick(s) \in S /\ s \ {Pick(s)} \in SUBSET S
          /\ Cardinality(s \ {Pick(s)}) = n
      BY <2>1, <3>1, PickLeavesLess
    <3>3. F[s \ {Pick(s)}] = 0 /\ f[Pick(s)] = 0
      BY <3>2
    <3>4. F[s] = f[Pick(s)] + F[s \ {Pick(s)}]
      BY <1>1, <3>1 DEF TakesOneByOne
    <3>5. QED
      BY <3>3, <3>4
  <2>2. QED
    BY <2>1
<1> HIDE DEF N
<1>4. N \in SUBSET Nat
  BY DEF N
<1>5. Cardinality(S) \in N
  BY <1>2, <1>3, <1>4, InductionOnSet, SubsetSizes
<1>6. QED
  BY <1>1, <1>5 DEF N

\* The shares of a call add up to the total of the lines paid.
SharesAddUp ==
    call.phase # "Idle" => Total(call.share, Holders) = Running(call.paid)

\* What a call has moved adds up at every step of it, and so does a receipt.
LEMMA SharesKeepAddingUp ==
    ASSUME IInv, SharesAddUp, ReceiptIsExact, [Next]_vars
    PROVE  SharesAddUp' /\ ReceiptIsExact'
<1>1. ASSUME call'.share = [h \in Holders |-> 0], call'.paid = 0, receipt' = NoReceipt
      PROVE  SharesAddUp' /\ ReceiptIsExact'
  <2>1. Total(call'.share, Holders) = 0
    BY <1>1, AddressAssumption, TotalOfNothing
  <2>2. QED
    BY <1>1, <2>1, ReceiptTotals DEF SharesAddUp, Running
<1>2. CASE Begin
  <2>1. ASSUME NEW signer, NEW funder, NEW lines, Execute(signer, funder, lines)
        PROVE  SharesAddUp' /\ ReceiptIsExact'
    BY <1>1, <2>1 DEF Execute, Opened
  <2>2. ASSUME NEW signer, NEW funder, NEW recipients, NEW amount,
               ExecuteEqual(signer, funder, recipients, amount)
        PROVE  SharesAddUp' /\ ReceiptIsExact'
    BY <1>1, <2>2 DEF ExecuteEqual, Opened
  <2>3. QED
    BY <1>2, <2>1, <2>2 DEF Begin
<1>3. ASSUME receipt' = receipt PROVE ReceiptIsExact'
  BY <1>3, ReceiptTotals
<1>4. ASSUME call.phase # "Idle", call'.share = call.share, call'.paid = call.paid,
             Running(call.paid)' = Running(call.paid), receipt' = receipt
      PROVE  SharesAddUp' /\ ReceiptIsExact'
  BY <1>3, <1>4 DEF SharesAddUp
<1>5. CASE TotalLine \/ RequireFunder
  <2>1. call.phase # "Idle" /\ call \in Calls /\ CallInv /\ receipt' = receipt
    BY <1>5, CallTypes DEF TotalLine, RequireFunder, IInv
  <2>2. call'.share = call.share /\ call'.paid = call.paid
    BY <1>5, <2>1 DEF TotalLine, RequireFunder, Fails, Calls
  <2>3. call.paid # 0 => call'.totals[call.paid] = call.totals[call.paid]
    <3>1. /\ call.paid \in 0..Len(call.totals) /\ call.totals \in Seq(0..I128Max)
      BY <2>1, CallTypes DEF CallInv, IInv
    <3>2. \/ call'.totals = call.totals
          \/ \E t : call'.totals = Append(call.totals, t)
      BY <1>5, <2>1 DEF TotalLine, RequireFunder, Fails, Calls
    <3>3. QED
      BY <3>1, <3>2
  <2>4. Running(call.paid)' = Running(call.paid)
    BY <2>2, <2>3 DEF Running
  <2>5. QED
    BY <1>4, <2>1, <2>2, <2>4
<1>6. CASE TransferLine
  <2> DEFINE line == call.lines[call.paid + 1]
  <2>1. /\ call.phase = "Paying" /\ call \in Calls /\ CallInv /\ receipt' = receipt
        /\ call.paid < Len(call.lines)
    BY <1>6, CallTypes DEF TransferLine, IInv
  <2>2. CASE call'.phase = "Failed"
    <3>1. call' = [call EXCEPT !.phase = "Failed", !.reply = "TokenError"]
      BY <1>6, <2>1, <2>2 DEF TransferLine, Fails, Calls
    <3>2. /\ call'.share = call.share /\ call'.paid = call.paid
          /\ call'.totals = call.totals
      BY <2>1, <3>1 DEF Calls
    <3>3. Running(call.paid)' = Running(call.paid)
      BY <3>2 DEF Running
    <3>4. QED
      BY <1>4, <2>1, <3>2, <3>3
  <2>3. CASE call'.phase # "Failed"
    <3>1. call' = [call EXCEPT !.paid = @ + 1, !.share[line.to] = @ + line.amount]
      BY <1>6, <2>1, <2>3 DEF TransferLine, Fails, LineAmount, Calls
    <3>2. /\ call.paid \in Nat /\ call.paid + 1 \in 1..Len(call.totals)
          /\ line.to \in Holders /\ line.amount \in I128
          /\ call.share \in [Holders -> Nat]
      <4>1. /\ call.paid \in Nat /\ Len(call.lines) = Len(call.totals)
            /\ Len(call.lines) \in Nat /\ call.share \in [Holders -> Nat]
        BY <2>1, CallTypes DEF CallInv, Totalled, IInv
      <4>2. call.paid + 1 \in 1..Len(call.lines)
        BY <2>1, <4>1
      <4>3. line.to \in Holders /\ line.amount \in I128
        BY <2>1, <4>2, CallTypes DEF IInv
      <4>4. QED
        BY <4>1, <4>2, <4>3
    <3>3. line.amount > 0 /\ Running(call.paid + 1) = Running(call.paid) + line.amount
      BY <2>1, <3>2 DEF CallInv, TotalsGrow
    <3>4. /\ call'.paid = call.paid + 1 /\ call'.totals = call.totals
          /\ call'.share = [call.share EXCEPT ![line.to] = @ + line.amount]
      BY <2>1, <3>1 DEF Calls
    <3>5. line.amount \in Nat
      BY <3>2, <3>3, I128MaxAssumption DEF I128
    <3> HIDE DEF line
    <3>6. /\ call'.share \in [Holders -> Nat]
          /\ \A h \in Holders :
                 call'.share[h] = call.share[h] + (IF h = line.to THEN line.amount ELSE 0)
      BY <3>2, <3>4, <3>5
    <3>7. Total(call'.share, Holders) = Total(call.share, Holders) + line.amount
      BY <3>2, <3>5, <3>6, AddressAssumption, TotalGrows
    <3>8. Running(call.paid)' = Running(call.paid + 1)
      BY <3>4 DEF Running
    <3>9. SharesAddUp'
      BY <2>1, <3>3, <3>7, <3>8 DEF SharesAddUp
    <3>10. QED
      BY <1>3, <2>1, <3>9
  <2>4. QED
    BY <2>2, <2>3
<1>7. CASE Return
  <2>1. /\ call.phase = "Paying" /\ call.paid = Len(call.lines) /\ call' = NoCall
        /\ receipt'.total = call.total /\ receipt'.share = call.share
    BY <1>7 DEF Return
  <2>2. Running(call.paid) = call.total
    BY <2>1 DEF IInv, CallInv, Totalled
  <2>3. receipt'.total = Total(receipt'.share, Holders)
    BY <2>1, <2>2 DEF SharesAddUp
  <2>4. ReceiptIsExact'
    BY <2>3, ReceiptTotals
  <2>5. QED
    BY <2>1, <2>4 DEF SharesAddUp, NoCall
<1>8. CASE Revert
  BY <1>3, <1>8 DEF Revert, SharesAddUp, NoCall
<1>9. CASE UNCHANGED batchVars
  BY <1>3, <1>9 DEF batchVars, SharesAddUp, Running
<1>10. QED
  BY <1>2, <1>5, <1>6, <1>7, <1>8, <1>9 DEF Next, vars

\* The receipt's total is what the token moved, for every batch.
THEOREM ReceiptHolds == Spec => []ReceiptIsExact
<1>1. Init => SharesAddUp /\ ReceiptIsExact
  BY DEF Init, NoCall, SharesAddUp, ReceiptIsExact
<1>2. IInv /\ SharesAddUp /\ ReceiptIsExact /\ [Next]_vars
          => SharesAddUp' /\ ReceiptIsExact'
  BY SharesKeepAddingUp
<1>3. QED
  BY <1>1, <1>2, Invariance, PTL DEF Spec

=============================================================================
