------------------------- MODULE Recurring_proofs -------------------------
(***************************************************************************)
(* The recurring authorization's safety, for every value of the constants: *)
(* its types, the pull invariant, the spacing of charges, the agreement of *)
(* its views and the payer's consent, from one inductive invariant.        *)
(***************************************************************************)
EXTENDS Recurring, Ledger_proofs, FiniteSetTheorems

\* What a record says about itself.
Coherent(a) ==
    /\ a.payer # a.payee
    /\ a.maxPeriods # NoCap => a.periodsCharged <= a.maxPeriods

\* The inductive invariant.
IInv ==
    /\ TypeOK
    /\ authorization # NoAuthorization => Coherent(authorization)
    /\ PullCounted
    /\ IsFiniteSet(marks)
    /\ OnePerPeriod

-----------------------------------------------------------------------------

\* The facts about the types that every step uses.
LEMMA Types ==
    ASSUME IInv
    PROVE  /\ now \in Nat /\ now <= U64Max /\ U64Max \in Nat
           /\ U32Max \in Nat /\ U32Max > 0 /\ NoCap = U32Max + 1 /\ I128Max \in Nat
           /\ balance \in [Holders -> Nat] /\ balance[Self] \in Nat /\ strays \in Nat
           /\ allowance \in [Signers -> [amount : Nat, until : 0..U64Max]]
           /\ Self \in Holders /\ Self \notin Signers /\ Signers \subseteq Holders
           /\ NoAuthorization \notin Authorizations /\ pulled \in Nat
           /\ authorization # NoAuthorization =>
                  /\ authorization \in Authorizations /\ Coherent(authorization)
                  /\ authorization.payer \in Signers
                  /\ authorization.payee \in Holders
                  /\ authorization.amountPerPeriod \in Nat
                  /\ authorization.amountPerPeriod > 0
                  /\ authorization.periodSeconds \in Nat
                  /\ authorization.periodSeconds > 0
                  /\ authorization.maxPeriods \in Nat
                  /\ authorization.maxPeriods > 0
                  /\ authorization.maxPeriods <= NoCap
                  /\ authorization.periodsCharged \in Nat
                  /\ authorization.periodsCharged <= U32Max
                  /\ authorization.nextChargeableAt \in Nat
<1>1. /\ now \in 0..U64Max /\ balance \in [Holders -> Nat] /\ strays \in Nat
      /\ allowance \in [Signers -> [amount : Nat, until : 0..U64Max]]
      /\ authorization \in {NoAuthorization} \cup Authorizations /\ pulled \in Nat
  BY DEF IInv, TypeOK, LedgerTypeOK, AllowanceTypeOK
<1>2. /\ U64Max \in Nat /\ I128Max \in Nat /\ U32Max \in Nat /\ U32Max > 0
      /\ Self \in Holders /\ Self \notin Signers /\ Signers \subseteq Holders
      /\ NoAuthorization \notin Authorizations
  BY LedgerAssumption, I128MaxAssumption, RecurringAssumption
<1>3. ASSUME authorization # NoAuthorization
      PROVE  /\ authorization \in Authorizations /\ Coherent(authorization)
             /\ authorization.payer \in Signers
             /\ authorization.payee \in Holders
             /\ authorization.amountPerPeriod \in Nat
             /\ authorization.amountPerPeriod > 0
             /\ authorization.periodSeconds \in Nat
             /\ authorization.periodSeconds > 0
             /\ authorization.maxPeriods \in Nat
             /\ authorization.maxPeriods > 0
             /\ authorization.maxPeriods <= NoCap
             /\ authorization.periodsCharged \in Nat
             /\ authorization.periodsCharged <= U32Max
             /\ authorization.nextChargeableAt \in Nat
  <2>1. authorization \in Authorizations /\ Coherent(authorization)
    BY <1>1, <1>3 DEF IInv
  <2>2. QED
    BY <1>2, <2>1 DEF Authorizations, NoCap
<1>4. QED
  BY <1>1, <1>2, <1>3 DEF NoCap

LEMMA InitEstablishes == Init => IInv
<1> SUFFICES ASSUME Init PROVE IInv
  OBVIOUS
<1>1. TypeOK
  <2>1. LedgerTypeOK
    BY LedgerAssumption DEF Init, LedgerInit, LedgerTypeOK
  <2>2. AllowanceTypeOK
    BY LedgerAssumption DEF Init, AllowanceInit, AllowanceTypeOK
  <2>3. QED
    BY <2>1, <2>2 DEF Init, TypeOK
<1>2. PullCounted
  BY LedgerAssumption DEF Init, LedgerInit, PullCounted
<1>3. IsFiniteSet(marks)
  BY FS_EmptySet DEF Init
<1>4. QED
  BY <1>1, <1>2, <1>3 DEF Init, IInv, OnePerPeriod

\* authorize: the first period starts with the consent.
LEMMA AuthorizeKeeps ==
    ASSUME IInv,
           NEW signer \in Signers, NEW payer \in Holders, NEW payee \in Holders,
           NEW amount \in Amounts, NEW period \in 0..U64Max, NEW cap \in 0..NoCap,
           Authorize(signer, payer, payee, amount, period, cap)
    PROVE  IInv'
<1>1. /\ authorization = NoAuthorization /\ payer # payee /\ amount > 0 /\ period # 0
      /\ cap # 0 /\ signer = payer /\ now + period <= U64Max
  BY DEF Authorize, AuthorizeReply, Require, RequireAuth, ??
<1>2. /\ authorization' = [payer            |-> payer,
                           payee            |-> payee,
                           amountPerPeriod  |-> amount,
                           periodSeconds    |-> period,
                           maxPeriods       |-> cap,
                           periodsCharged   |-> 0,
                           nextChargeableAt |-> now + period,
                           cancelled        |-> FALSE]
      /\ marks' = {now} /\ signedBy' = signer
      /\ UNCHANGED <<now, balance, frozen, strays, allowance, pulled>>
  BY DEF Authorize, ledgerVars
<1>3. /\ now \in Nat /\ now <= U64Max /\ U64Max \in Nat /\ U32Max \in Nat
      /\ NoCap = U32Max + 1 /\ NoAuthorization \notin Authorizations /\ I128Max \in Nat
  BY Types
<1>4. amount \in 1..I128Max
  BY <1>1, <1>3, RecurringAssumption DEF I128
<1>5. authorization' \in Authorizations
  <2>1. period \in 1..U64Max /\ cap \in 1..NoCap /\ now + period \in 0..U64Max
    BY <1>1, <1>3
  <2>2. QED
    BY <1>1, <1>2, <1>3, <1>4, <2>1 DEF Authorizations
<1>6. Coherent(authorization')
  BY <1>1, <1>2, <1>3 DEF Coherent
<1>7. TypeOK'
  <2>1. LedgerTypeOK' /\ AllowanceTypeOK'
    BY <1>2 DEF IInv, TypeOK, LedgerTypeOK, AllowanceTypeOK
  <2>2. marks' \in SUBSET (0..U64Max)
    BY <1>2, <1>3
  <2>3. pulled' \in Nat /\ signedBy' \in Signers
    BY <1>2 DEF IInv, TypeOK
  <2>4. QED
    BY <1>5, <2>1, <2>2, <2>3 DEF TypeOK
<1>8. PullCounted'
  <2>1. balance[Self] = strays /\ pulled = 0
    BY <1>1 DEF IInv, PullCounted
  <2>2. 0 * amount = 0 /\ 0 <= cap * amount
    <3>1. amount \in Nat /\ cap \in Nat
      BY <1>3, <1>4
    <3>2. QED
      BY <3>1, SMT
  <2>3. /\ authorization'.periodsCharged = 0 /\ authorization'.amountPerPeriod = amount
        /\ authorization'.maxPeriods = cap /\ pulled' = 0 /\ balance'[Self] = strays'
    BY <1>2, <2>1
  <2>4. QED
    BY <2>2, <2>3 DEF PullCounted
<1>9. IsFiniteSet(marks') /\ Cardinality(marks') = 1
  BY <1>2, FS_Singleton
<1>10. OnePerPeriod'
  BY <1>2, <1>3, <1>9 DEF OnePerPeriod
<1>11. QED
  BY <1>6, <1>7, <1>8, <1>9, <1>10 DEF IInv

\* What an accepted charge does.
LEMMA ChargeFacts ==
    ASSUME IInv, NEW signer \in Signers, Charge(signer)
    PROVE  LET a == authorization
           IN  /\ a # NoAuthorization /\ signer = a.payee /\ ~a.cancelled
               /\ ~IsExhausted(a)
               /\ now >= a.nextChargeableAt /\ a.periodsCharged < U32Max
               /\ now + a.periodSeconds <= U64Max
               /\ a.amountPerPeriod <= Drawable(a.payer)
               /\ a.amountPerPeriod \in 0..balance[a.payer]
               /\ a' = [a EXCEPT !.periodsCharged   = @ + 1,
                                 !.nextChargeableAt = now + a.periodSeconds]
               /\ balance' = Transferred(balance, a.payer, a.payee, a.amountPerPeriod)
               /\ allowance' = Drawn(a.payer, a.amountPerPeriod)
               /\ pulled' = pulled + a.amountPerPeriod
               /\ marks' = marks \cup {now}
               /\ signedBy' = signer
               /\ UNCHANGED <<now, frozen, strays>>
<1>1. /\ authorization # NoAuthorization /\ signer = authorization.payee
      /\ ~authorization.cancelled /\ ~IsExhausted(authorization)
      /\ now >= authorization.nextChargeableAt /\ authorization.periodsCharged < U32Max
      /\ now + authorization.periodSeconds <= U64Max
      /\ TransferFromReply(authorization.payer, authorization.payee,
                           authorization.amountPerPeriod) = "Ok"
  BY DEF Charge, ChargeReply, Load, Require, RequireAuth, ??
<1>2. /\ authorization.amountPerPeriod <= Drawable(authorization.payer)
      /\ authorization.amountPerPeriod \in 0..balance[authorization.payer]
  BY <1>1, TransferAccepted DEF TransferFromReply
<1>3. /\ authorization' = [authorization EXCEPT
                               !.periodsCharged   = @ + 1,
                               !.nextChargeableAt = now + authorization.periodSeconds]
      /\ balance' = Transferred(balance, authorization.payer, authorization.payee,
                                authorization.amountPerPeriod)
      /\ allowance' = Drawn(authorization.payer, authorization.amountPerPeriod)
      /\ pulled' = pulled + authorization.amountPerPeriod
      /\ marks' = marks \cup {now}
      /\ signedBy' = signer
      /\ UNCHANGED <<now, frozen, strays>>
  BY DEF Charge, Pull, NextDue
<1>4. QED
  BY <1>1, <1>2, <1>3

\* charge: counted, paid for, and a period after the last mark.
LEMMA ChargeKeeps ==
    ASSUME IInv, NEW signer \in Signers, Charge(signer)
    PROVE  IInv'
<1> DEFINE a == authorization
           amount == a.amountPerPeriod
<1>1. /\ a # NoAuthorization /\ signer = a.payee /\ ~IsExhausted(a)
      /\ now >= a.nextChargeableAt /\ a.periodsCharged < U32Max
      /\ now + a.periodSeconds <= U64Max
      /\ amount <= Drawable(a.payer) /\ amount \in 0..balance[a.payer]
      /\ a' = [a EXCEPT !.periodsCharged   = @ + 1,
                        !.nextChargeableAt = now + a.periodSeconds]
      /\ balance' = Transferred(balance, a.payer, a.payee, amount)
      /\ allowance' = Drawn(a.payer, amount)
      /\ pulled' = pulled + amount
      /\ marks' = marks \cup {now}
      /\ signedBy' = signer
      /\ UNCHANGED <<now, frozen, strays>>
  BY ChargeFacts
<1>2. /\ a \in Authorizations /\ Coherent(a) /\ NoAuthorization \notin Authorizations
      /\ now \in Nat /\ now <= U64Max /\ U64Max \in Nat /\ U32Max \in Nat
      /\ NoCap = U32Max + 1
      /\ a.payer \in Signers /\ a.payer \in Holders /\ a.payee \in Holders
      /\ amount \in Nat /\ a.periodSeconds \in Nat /\ a.periodSeconds > 0
      /\ a.periodsCharged \in Nat /\ a.maxPeriods \in Nat
      /\ balance \in [Holders -> Nat] /\ balance[Self] \in Nat
      /\ Self \in Holders /\ Self \notin Signers /\ pulled \in Nat
      /\ allowance \in [Signers -> [amount : Nat, until : 0..U64Max]]
  BY <1>1, Types
<1>3. /\ a' \in Authorizations
      /\ a'.periodsCharged = a.periodsCharged + 1
      /\ a'.nextChargeableAt = now + a.periodSeconds
  <2>1. a.periodsCharged + 1 \in 0..U32Max /\ now + a.periodSeconds \in 0..U64Max
    BY <1>1, <1>2
  <2>2. a \in Authorizations
    BY <1>2
  <2>3. a' = [a EXCEPT !.periodsCharged   = @ + 1,
                       !.nextChargeableAt = now + a.periodSeconds]
    BY <1>1
  <2>4. QED
    BY <2>1, <2>2, <2>3 DEF Authorizations
<1>4. \A f \in {"payer", "payee", "amountPerPeriod", "periodSeconds", "maxPeriods",
                "cancelled"} : a'[f] = a[f]
  BY <1>1, <1>2 DEF Authorizations
<1>5. a.maxPeriods # NoCap => a.periodsCharged < a.maxPeriods
  BY <1>1, <1>2 DEF IsExhausted, RemainingPeriods, RemainingCount
<1>6. Coherent(a')
  BY <1>2, <1>3, <1>4, <1>5 DEF Coherent
<1>7. a.payee # Self /\ a.payer # Self
  BY <1>1, <1>2
<1>8. balance' \in [Holders -> Nat] /\ balance'[Self] = balance[Self]
  BY <1>1, <1>2, <1>7, TransferMoves
<1>9. TypeOK'
  <2>1. LedgerTypeOK'
    BY <1>1, <1>8 DEF IInv, TypeOK, LedgerTypeOK
  <2>2. AllowanceTypeOK'
    <3>1. allowance[a.payer].amount - amount \in Nat
      BY <1>1, <1>2 DEF Drawable
    <3>2. QED
      BY <1>1, <1>2, <3>1 DEF AllowanceTypeOK, Drawn
  <2>3. marks' \in SUBSET (0..U64Max) /\ pulled' \in Nat
    <3>1. marks \in SUBSET (0..U64Max)
      BY DEF IInv, TypeOK
    <3>2. QED
      BY <1>1, <1>2, <3>1
  <2>4. QED
    BY <1>1, <1>3, <2>1, <2>2, <2>3 DEF TypeOK
<1>10. PullCounted'
  <2>1. /\ balance[Self] = strays /\ pulled = a.periodsCharged * amount
    BY <1>1 DEF IInv, PullCounted
  <2>2. pulled' = (a.periodsCharged + 1) * amount
    <3>1. ASSUME NEW n \in Nat, NEW d \in Nat PROVE (n + 1) * d = n * d + d
      OBVIOUS
    <3>2. QED
      BY <1>1, <1>2, <2>1, <3>1
  <2>3. ASSUME a.maxPeriods # NoCap
        PROVE  (a.periodsCharged + 1) * amount <= a.maxPeriods * amount
    <3>1. amount * (a.periodsCharged + 1) <= amount * a.maxPeriods
      BY <1>2, <1>5, <2>3, ProductMonotone
    <3>2. /\ amount * (a.periodsCharged + 1) = (a.periodsCharged + 1) * amount
          /\ amount * a.maxPeriods = a.maxPeriods * amount
      BY <1>2
    <3>3. QED
      BY <3>1, <3>2
  <2>4. a' # NoAuthorization /\ balance'[Self] = strays'
    BY <1>1, <1>2, <1>3, <1>8, <2>1
  <2>5. QED
    BY <1>3, <1>4, <2>2, <2>3, <2>4 DEF PullCounted
<1>11. PICK last \in marks :
           /\ \A t \in marks : t <= last
           /\ last <= now
           /\ a.nextChargeableAt = last + a.periodSeconds
  BY <1>1 DEF IInv, OnePerPeriod
<1>12. /\ marks \in SUBSET (0..U64Max)
       /\ last \in Nat /\ last + a.periodSeconds <= now
       /\ \A t \in marks : t \in Nat /\ t + a.periodSeconds <= now
       /\ now \notin marks
  <2>1. marks \in SUBSET (0..U64Max)
    BY DEF IInv, TypeOK
  <2>2. \A t \in marks : t \in Nat
    BY <2>1
  <2>3. QED
    BY <1>1, <1>2, <1>11, <2>1, <2>2
<1>13. IsFiniteSet(marks') /\ Cardinality(marks') = a'.periodsCharged + 1
  <2>1. IsFiniteSet(marks) /\ Cardinality(marks) = a.periodsCharged + 1
    BY <1>1 DEF IInv, OnePerPeriod
  <2>2. IsFiniteSet(marks \cup {now}) /\ Cardinality(marks \cup {now}) = Cardinality(marks) + 1
    BY <1>12, <2>1, FS_AddElement
  <2>3. QED
    BY <1>1, <1>2, <1>3, <2>1, <2>2
<1>14. OnePerPeriod'
  <2>1. \A s, t \in marks : s < t => t - s >= a.periodSeconds
    BY <1>1 DEF IInv, OnePerPeriod
  <2>2. ASSUME NEW s \in marks', NEW t \in marks', s < t
        PROVE  t - s >= a'.periodSeconds
    <3>1. CASE s \in marks /\ t \in marks
      BY <1>4, <2>1, <2>2, <3>1
    <3>2. CASE s \in marks /\ t = now
      BY <1>2, <1>4, <1>12, <3>2
    <3>3. CASE s = now
      BY <1>1, <1>2, <1>12, <2>2, <3>3
    <3>4. QED
      BY <1>1, <3>1, <3>2, <3>3
  <2>3. /\ now \in marks' /\ (\A t \in marks' : t <= now) /\ now <= now'
        /\ a'.nextChargeableAt = now + a'.periodSeconds
    BY <1>1, <1>2, <1>3, <1>4, <1>12
  <2>4. QED
    BY <1>13, <2>2, <2>3 DEF OnePerPeriod
<1>15. QED
  BY <1>6, <1>9, <1>10, <1>13, <1>14 DEF IInv

\* cancel: only the flag changes.
LEMMA CancelKeeps ==
    ASSUME IInv, NEW signer \in Signers, NEW caller \in Holders, Cancel(signer, caller)
    PROVE  IInv'
<1>1. authorization # NoAuthorization
  BY DEF Cancel, CancelReply, Load, Require, ??
<1>2. /\ authorization' = [authorization EXCEPT !.cancelled = TRUE]
      /\ signedBy' = signer
      /\ UNCHANGED <<now, balance, frozen, strays, allowance, pulled, marks>>
  BY DEF Cancel, ledgerVars
<1>3. authorization \in Authorizations /\ NoAuthorization \notin Authorizations
  BY <1>1, Types
<1>4. /\ authorization' \in Authorizations
      /\ \A f \in {"payer", "payee", "amountPerPeriod", "periodSeconds", "maxPeriods",
                   "periodsCharged", "nextChargeableAt"} :
             authorization'[f] = authorization[f]
  BY <1>2, <1>3 DEF Authorizations
<1>5. TypeOK'
  BY <1>2, <1>4 DEF IInv, TypeOK, LedgerTypeOK, AllowanceTypeOK
<1>6. Coherent(authorization')
  BY <1>1, <1>4 DEF IInv, Coherent
<1>7. PullCounted'
  BY <1>1, <1>2, <1>3, <1>4 DEF IInv, PullCounted
<1>8. OnePerPeriod'
  BY <1>1, <1>2, <1>4 DEF IInv, OnePerPeriod
<1>9. QED
  BY <1>2, <1>5, <1>6, <1>7, <1>8 DEF IInv

\* Between the calls: approvals, payments between signers, and the ledger.
LEMMA AllowanceKeeps ==
    ASSUME IInv, AllowanceNext, UNCHANGED contractVars
    PROVE  IInv'
<1>1. UNCHANGED <<authorization, pulled, marks, signedBy>>
  BY DEF contractVars
<1>2. /\ now \in 0..U64Max /\ U64Max \in Nat /\ balance \in [Holders -> Nat]
      /\ frozen \in SUBSET Freezable /\ strays \in Nat
      /\ allowance \in [Signers -> [amount : Nat, until : 0..U64Max]]
      /\ Self \in Holders /\ Self \notin Signers /\ Signers \subseteq Holders
      /\ balance[Self] = strays /\ marks \in SUBSET (0..U64Max)
  BY Types DEF IInv, TypeOK, LedgerTypeOK, PullCounted
<1>3. ASSUME LedgerTypeOK', AllowanceTypeOK', now <= now', balance'[Self] = strays'
      PROVE  IInv'
  <2>1. TypeOK'
    BY <1>1, <1>3 DEF IInv, TypeOK
  <2>2. authorization' # NoAuthorization => Coherent(authorization')
    BY <1>1 DEF IInv
  <2>3. PullCounted'
    BY <1>1, <1>3 DEF IInv, PullCounted
  <2>4. OnePerPeriod'
    <3>1. \A t \in marks : t <= now => t <= now'
      BY <1>2, <1>3 DEF LedgerTypeOK
    <3>2. QED
      BY <1>1, <3>1 DEF IInv, OnePerPeriod
  <2>5. QED
    BY <1>1, <2>1, <2>2, <2>3, <2>4 DEF IInv
<1>4. CASE Approve
  <2>1. PICK from \in Approvers, amount \in Approvals, until \in now..U64Max :
            allowance' = [allowance EXCEPT ![from] = [amount |-> amount, until |-> until]]
    BY <1>4 DEF Approve
  <2>2. UNCHANGED <<now, balance, frozen, strays>>
    BY <1>4 DEF Approve, ledgerVars
  <2>3. amount \in Nat /\ until \in 0..U64Max
    BY <1>2, ApprovalsAssumption
  <2>4. AllowanceTypeOK'
    BY <1>2, <2>1, <2>3 DEF AllowanceTypeOK
  <2>5. QED
    BY <1>2, <1>3, <2>2, <2>4 DEF LedgerTypeOK
<1>5. CASE Spend
  <2>1. PICK from \in Signers, to \in Signers :
            /\ from # to
            /\ TransferReply(balance, from, to, 1) = "Ok"
            /\ balance' = Transferred(balance, from, to, 1)
            /\ UNCHANGED <<now, frozen, strays, allowance>>
    BY <1>5 DEF Spend
  <2>2. 1 \in 0..balance[from] /\ from \in Holders /\ to \in Holders
    BY <1>2, <2>1, TransferAccepted
  <2>3. /\ Transferred(balance, from, to, 1) \in [Holders -> Nat]
        /\ Transferred(balance, from, to, 1)[Self]
               = balance[Self] - (IF Self = from THEN 1 ELSE 0)
                               + (IF Self = to THEN 1 ELSE 0)
    BY <1>2, <2>2, TransferMoves
  <2>4. balance' \in [Holders -> Nat] /\ balance'[Self] = balance[Self]
    BY <1>2, <2>1, <2>3
  <2>5. QED
    BY <1>2, <1>3, <2>1, <2>4 DEF LedgerTypeOK, AllowanceTypeOK
<1>6. CASE CloseLedger /\ UNCHANGED allowance
  <2>1. now' \in 0..U64Max /\ now <= now' /\ UNCHANGED <<balance, frozen, strays>>
    BY <1>2, <1>6 DEF CloseLedger
  <2>2. QED
    BY <1>2, <1>3, <1>6, <2>1 DEF LedgerTypeOK, AllowanceTypeOK
<1>7. CASE SetFrozen /\ UNCHANGED allowance
  <2>1. frozen' \in SUBSET Freezable /\ UNCHANGED <<now, balance, strays>>
    BY <1>7 DEF SetFrozen
  <2>2. QED
    BY <1>2, <1>3, <1>7, <2>1 DEF LedgerTypeOK, AllowanceTypeOK
<1>8. CASE Stray /\ UNCHANGED allowance
  <2>1. PICK from \in Signers :
            /\ TransferReply(balance, from, Self, 1) = "Ok"
            /\ balance' = Transferred(balance, from, Self, 1)
            /\ strays' = strays + 1
            /\ UNCHANGED <<now, frozen>>
    BY <1>8 DEF Stray
  <2>2. 1 \in 0..balance[from] /\ from \in Holders /\ from # Self
    BY <1>2, <2>1, TransferAccepted
  <2>3. /\ Transferred(balance, from, Self, 1) \in [Holders -> Nat]
        /\ Transferred(balance, from, Self, 1)[Self]
               = balance[Self] - (IF Self = from THEN 1 ELSE 0)
                               + (IF Self = Self THEN 1 ELSE 0)
    BY <1>2, <2>2, TransferMoves
  <2>4. balance' \in [Holders -> Nat] /\ balance'[Self] = strays'
    BY <1>2, <2>1, <2>2, <2>3
  <2>5. QED
    BY <1>2, <1>3, <1>8, <2>1, <2>4 DEF LedgerTypeOK, AllowanceTypeOK
<1>9. QED
  BY <1>4, <1>5, <1>6, <1>7, <1>8 DEF AllowanceNext, LedgerNext

LEMMA StepKeeps == IInv /\ [Next]_vars => IInv'
<1> SUFFICES ASSUME IInv, [Next]_vars PROVE IInv'
  OBVIOUS
<1>1. ASSUME NEW signer \in Signers, Authorizes(signer) PROVE IInv'
  BY <1>1, AuthorizeKeeps DEF Authorizes
<1>2. ASSUME NEW signer \in Signers, Charge(signer) PROVE IInv'
  BY <1>2, ChargeKeeps
<1>3. ASSUME NEW signer \in Signers, NEW caller \in Holders, Cancel(signer, caller)
      PROVE  IInv'
  BY <1>3, CancelKeeps
<1>4. CASE AllowanceNext /\ UNCHANGED contractVars
  BY <1>4, AllowanceKeeps
<1>5. CASE UNCHANGED vars
  <2>1. UNCHANGED <<now, balance, frozen, strays, allowance, authorization, pulled,
                    marks, signedBy>>
    BY <1>5 DEF vars, ledgerVars, contractVars
  <2>2. QED
    BY <2>1 DEF IInv, TypeOK, LedgerTypeOK, AllowanceTypeOK, Coherent, PullCounted,
                OnePerPeriod
<1>6. QED
  BY <1>1, <1>2, <1>3, <1>4, <1>5 DEF Next, Calls

\* The inductive invariant holds in every reachable state.
THEOREM Invariance == Spec => []IInv
<1>1. Init => IInv
  BY InitEstablishes
<1>2. IInv /\ [Next]_vars => IInv'
  BY StepKeeps
<1>3. QED
  BY <1>1, <1>2, PTL DEF Spec

-----------------------------------------------------------------------------
(* What the invariant gives.                                               *)

\* The types of all variables; in particular the next due date always fits u64
\* and the counter u32 (contracts/recurring/src/types.rs).
THEOREM TypeCorrect == Spec => []TypeOK
<1>1. IInv => TypeOK
  BY DEF IInv
<1>2. QED
  BY <1>1, Invariance, PTL

\* A set of times p apart is as long as it has gaps, by induction on its size:
\* the earliest is p before the rest.
LEMMA SpacedTimesSpan ==
    ASSUME NEW p \in Nat, NEW S \in SUBSET Nat, IsFiniteSet(S),
           \A s, t \in S : s < t => t - s >= p,
           NEW lo \in S, NEW hi \in S, \A k \in S : lo <= k /\ k <= hi
    PROVE  Cardinality(S) \in Nat /\ (Cardinality(S) - 1) * p <= hi - lo
<1> DEFINE Apart(T) == \A s, t \in T : s < t => t - s >= p
           Within(T, first, last) == \A k \in T : first <= k /\ k <= last
           Spans(n) == \A T \in SUBSET Nat :
                           IsFiniteSet(T) /\ Cardinality(T) = n + 1 /\ Apart(T) =>
                               \A first, last \in T :
                                   Within(T, first, last) => n * p <= last - first
           Sizes == {n \in Nat : Spans(n)}
<1>1. 0 \in Sizes
  <2>1. 0 * p = 0
    OBVIOUS
  <2>2. ASSUME NEW T \in SUBSET Nat, NEW first \in T, NEW last \in T,
               Within(T, first, last)
        PROVE  0 * p <= last - first
    BY <2>1, <2>2
  <2>3. QED
    BY <2>2
<1>2. ASSUME NEW n \in Sizes PROVE n + 1 \in Sizes
  <2>1. n \in Nat /\ Spans(n)
    OBVIOUS
  <2>2. ASSUME NEW T \in SUBSET Nat, IsFiniteSet(T), Cardinality(T) = (n + 1) + 1, Apart(T),
               NEW first \in T, NEW last \in T, Within(T, first, last)
        PROVE  (n + 1) * p <= last - first
    <3> DEFINE R == T \ {first}
    <3>1. IsFiniteSet(R) /\ Cardinality(R) = n + 1
      BY <2>1, <2>2, FS_RemoveElement
    <3>2. R # {}
      BY <2>1, <3>1, FS_EmptySet
    <3>3. PICK next \in R : \A k \in R : next <= k
      BY <3>2, LeastOfNaturals
    <3>4. first < next /\ next - first >= p /\ last \in R
      BY <2>2, <3>3
    <3>5. Apart(R) /\ Within(R, next, last)
      BY <2>2, <3>3
    <3>6. n * p <= last - next
      BY <2>1, <3>1, <3>3, <3>4, <3>5
    <3>7. (n + 1) * p = n * p + p /\ n * p \in Nat
      BY <2>1, SMT
    <3>8. first \in Nat /\ last \in Nat /\ next \in Nat
      OBVIOUS
    <3>9. QED
      BY <3>4, <3>6, <3>7, <3>8
  <2> HIDE DEF Apart, Within
  <2>3. QED
    BY <2>1, <2>2
<1> HIDE DEF Sizes
<1>3. Sizes = Nat
  <2>1. Sizes \in SUBSET Nat
    BY DEF Sizes
  <2>2. QED
    BY <1>1, <1>2, <2>1, InductionOnSet
<1>4. PICK n \in Nat : Cardinality(S) = n + 1
  <2>1. Cardinality(S) \in Nat /\ Cardinality(S) # 0
    BY FS_CardinalityType, FS_EmptySet
  <2>2. Cardinality(S) - 1 \in Nat
    BY <2>1
  <2>3. QED
    BY <2>1, <2>2
<1>5. n * p <= hi - lo
  <2>1. Spans(n)
    BY <1>3 DEF Sizes
  <2>2. Apart(S) /\ Within(S, lo, hi)
    OBVIOUS
  <2> HIDE DEF Apart, Within
  <2>3. QED
    BY <1>4, <2>1, <2>2
<1>6. QED
  BY <1>4, <1>5

\* Spaced marks, each charge one of them, limit the rate.
LEMMA RateIsLimited == IInv => RateLimited
<1> SUFFICES ASSUME IInv, authorization # NoAuthorization PROVE RateLimited
  BY DEF RateLimited
<1> DEFINE amount == authorization.amountPerPeriod
           period == authorization.periodSeconds
<1>1. /\ marks \in SUBSET Nat /\ IsFiniteSet(marks)
      /\ Cardinality(marks) = authorization.periodsCharged + 1
      /\ \A s, t \in marks : s < t => t - s >= period
      /\ pulled = authorization.periodsCharged * amount
  <2>1. marks \in SUBSET (0..U64Max) /\ U64Max \in Nat
    BY Types DEF IInv, TypeOK
  <2>2. QED
    BY <2>1 DEF IInv, OnePerPeriod, PullCounted
<1>2. /\ amount \in Nat /\ period \in Nat /\ authorization.periodsCharged \in Nat
      /\ now \in Nat
  BY Types
<1> HIDE DEF amount, period
<1>3. ASSUME NEW s \in marks, NEW t \in marks, s <= t
      PROVE  (Cardinality(marks \cap (s..t)) - 1) * period <= t - s
  <2> DEFINE S == marks \cap (s..t)
  <2>1. /\ S \in SUBSET Nat /\ IsFiniteSet(S)
        /\ \A u, v \in S : u < v => v - u >= period
        /\ s \in S /\ t \in S /\ \A k \in S : s <= k /\ k <= t
    BY <1>1, <1>3, FS_Subset
  <2> HIDE DEF S
  <2>2. (Cardinality(S) - 1) * period <= t - s
    BY <1>2, <2>1, SpacedTimesSpan
  <2>3. QED
    BY <2>2 DEF S
<1>4. PICK last \in marks : (\A t \in marks : t <= last) /\ last <= now
  BY DEF IInv, OnePerPeriod
<1>5. PICK consent \in marks : \A t \in marks : consent <= t
  BY <1>1, <1>4, LeastOfNaturals
<1>6. authorization.periodsCharged * period <= now - consent
  <2>1. (Cardinality(marks) - 1) * period <= last - consent
    BY <1>1, <1>2, <1>4, <1>5, SpacedTimesSpan
  <2>2. (authorization.periodsCharged + 1) - 1 = authorization.periodsCharged
    BY <1>2
  <2>3. authorization.periodsCharged * period <= last - consent
    BY <1>1, <2>1, <2>2
  <2>4. last \in Nat /\ consent \in Nat /\ authorization.periodsCharged * period \in Nat
    BY <1>1, <1>2
  <2>5. QED
    BY <1>2, <1>4, <2>3, <2>4
<1>7. pulled * period <= amount * (now - consent)
  <2>1. ASSUME NEW n \in Nat, NEW a \in Nat, NEW d \in Nat
        PROVE  (n * a) * d = a * (n * d) /\ n * d \in Nat
    BY SMT
  <2>2. now - consent \in Nat
    BY <1>1, <1>2, <1>4, <1>5
  <2>3. amount * (authorization.periodsCharged * period) <= amount * (now - consent)
    BY <1>2, <1>6, <2>1, <2>2, ProductMonotone
  <2>4. QED
    BY <1>1, <1>2, <2>1, <2>3
<1>8. QED
  BY <1>3, <1>5, <1>7 DEF RateLimited, amount, period

\* What was pulled is periods_charged * amount_per_period, at most
\* max_periods * amount_per_period, and none of it stays in the contract; and
\* it is never more than one amount per period, since the consent and between
\* any two charges.
THEOREM PullHolds == Spec => []PullInvariant
<1>1. IInv => PullInvariant
  BY RateIsLimited DEF IInv, PullInvariant
<1>2. QED
  BY <1>1, Invariance, PTL

\* The consent and all charges are a full period apart, whatever the delays.
THEOREM SpacingHolds == Spec => []OnePerPeriod
<1>1. IInv => OnePerPeriod
  BY DEF IInv
<1>2. QED
  BY <1>1, Invariance, PTL

\* is_chargeable is false exactly when charge refuses for the schedule, the cap
\* or a cancellation, and remaining_periods is exact.
THEOREM ViewsHold == Spec => []ViewsAgree
<1>1. IInv => ViewsAgree
  <2> SUFFICES ASSUME IInv, authorization # NoAuthorization PROVE ViewsAgree
    BY DEF ViewsAgree
  <2> DEFINE a == authorization
             Refusals == {"RecurringCancelled", "RecurringExhausted",
                          "RecurringPeriodNotElapsed"}
  <2>1. /\ now \in Nat /\ a.nextChargeableAt \in Nat /\ a.periodsCharged \in Nat
        /\ a.maxPeriods \in Nat /\ NoCap \in Nat /\ Coherent(a)
    BY Types
  <2>2. IsChargeableAt(a, now) <=>
            ~a.cancelled /\ ~IsExhausted(a) /\ now >= a.nextChargeableAt
    BY DEF IsChargeableAt
  <2>3. ASSUME ~a.cancelled, ~IsExhausted(a), now >= a.nextChargeableAt
        PROVE  ChargeReply(a.payee) \notin Refusals
    <3>1. TransferFromReply(a.payer, a.payee, a.amountPerPeriod) \in {"Ok", "TokenError"}
      BY DEF TransferFromReply, TransferReply
    <3>2. ChargeReply(a.payee) \in {"Ok", "TokenError", "Overflow", "InvalidTimeRange"}
      BY <2>3, <3>1 DEF ChargeReply, Load, Require, RequireAuth, ??
    <3>3. QED
      BY <3>2
  <2>4. ASSUME ~(~a.cancelled /\ ~IsExhausted(a) /\ now >= a.nextChargeableAt)
        PROVE  ChargeReply(a.payee) \in Refusals
    BY <2>4 DEF ChargeReply, Load, Require, RequireAuth, ??
  <2>5. a.maxPeriods # NoCap => RemainingPeriods(a) + a.periodsCharged = a.maxPeriods
    BY <2>1 DEF Coherent, RemainingPeriods, RemainingCount
  <2>6. QED
    BY <2>2, <2>3, <2>4, <2>5 DEF ViewsAgree
<1>2. QED
  BY <1>1, Invariance, PTL

\* No step changes the terms, revives a cancelled authorization, or moves the
\* payer's tokens except as one charge taken by the payee within an allowance.
THEOREM ConsentHolds == Spec => ConsentKept
<1>1. IInv /\ [Next]_vars => [Consent]_vars
  <2> SUFFICES ASSUME IInv, [Next]_vars, authorization # NoAuthorization PROVE Consent
    BY DEF Consent
  <2> DEFINE a == authorization
  <2>1. /\ a \in Authorizations /\ a.payer # a.payee
        /\ a.payer \in Signers /\ a.payer \in Holders /\ a.payee \in Holders
        /\ a.amountPerPeriod \in Nat /\ a.amountPerPeriod > 0 /\ pulled \in Nat
        /\ now \in Nat /\ balance \in [Holders -> Nat]
        /\ allowance \in [Signers -> [amount : Nat, until : 0..U64Max]]
    BY Types DEF Coherent
  <2>2. ASSUME NEW signer \in Signers, Charge(signer) PROVE Consent
    <3>1. /\ signer = a.payee /\ ~a.cancelled /\ signedBy' = signer
          /\ a.amountPerPeriod <= Drawable(a.payer)
          /\ a.amountPerPeriod \in 0..balance[a.payer]
          /\ a' = [a EXCEPT !.periodsCharged   = @ + 1,
                            !.nextChargeableAt = now + a.periodSeconds]
          /\ balance' = Transferred(balance, a.payer, a.payee, a.amountPerPeriod)
          /\ allowance' = Drawn(a.payer, a.amountPerPeriod)
          /\ pulled' = pulled + a.amountPerPeriod
      BY <2>2, ChargeFacts
    <3>2. \A f \in {"payer", "payee", "amountPerPeriod", "periodSeconds", "maxPeriods"} :
              a'[f] = a[f]
      BY <2>1, <3>1 DEF Authorizations
    <3>3. /\ balance'[a.payer] = balance[a.payer] - a.amountPerPeriod
          /\ balance'[a.payee] = balance[a.payee] + a.amountPerPeriod
      BY <2>1, <3>1 DEF Transferred
    <3>4. /\ now <= allowance[a.payer].until
          /\ a.amountPerPeriod <= allowance[a.payer].amount
      BY <2>1, <3>1 DEF Drawable
    <3>5. allowance'[a.payer].amount = allowance[a.payer].amount - a.amountPerPeriod
      BY <2>1, <3>1 DEF Drawn
    <3>6. allowance'[a.payer].amount >= 0
      BY <2>1, <3>4, <3>5
    <3>7. QED
      BY <3>1, <3>2, <3>3, <3>4, <3>5, <3>6 DEF Consent
  <2>3. ASSUME NEW signer \in Signers, NEW caller \in Holders, Cancel(signer, caller)
        PROVE  Consent
    <3>1. /\ ~a.cancelled /\ caller \in {a.payer, a.payee} /\ signer = caller
      BY <2>3 DEF Cancel, CancelReply, Load, Require, RequireAuthEither, RequireAuth, ??
    <3>2. a' = [a EXCEPT !.cancelled = TRUE] /\ signedBy' = signer /\ pulled' = pulled
      BY <2>3 DEF Cancel
    <3>3. \A f \in {"payer", "payee", "amountPerPeriod", "periodSeconds", "maxPeriods"} :
              a'[f] = a[f]
      BY <2>1, <3>2 DEF Authorizations
    <3>4. QED
      BY <3>1, <3>2, <3>3 DEF Consent
  <2>4. ASSUME a' = a, pulled' = pulled PROVE Consent
    BY <2>4 DEF Consent
  <2>5. ASSUME NEW signer \in Signers PROVE ~Authorizes(signer)
    BY DEF Authorizes
  <2>6. CASE UNCHANGED contractVars \/ UNCHANGED vars
    BY <2>4, <2>6 DEF contractVars, vars
  <2>7. QED
    BY <2>2, <2>3, <2>5, <2>6 DEF Next, Calls
<1>2. QED
  BY <1>1, Invariance, PTL DEF Spec, ConsentKept

=============================================================================
