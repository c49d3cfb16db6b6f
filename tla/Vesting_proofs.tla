-------------------------- MODULE Vesting_proofs --------------------------
(***************************************************************************)
(* The grant's safety, for every value of the constants: its types, its    *)
(* conservation, what is claimable, the exactness of its proportional      *)
(* schedule, what a step may never take, and that it implements Custody,   *)
(* from one inductive invariant.                                           *)
(***************************************************************************)
EXTENDS Vesting, Ledger_proofs

\* What has vested by `at`, without the error of an overflowing product.
Vested(g, at) ==
    IF at < g.start + g.cliff THEN 0
    ELSE IF at >= g.start + g.duration THEN g.total
    ELSE (g.total * (at - g.start)) \div g.duration

\* The product of a schedule in its linear part fits i128.
Fits(g, at) == PlannedVested(g, at).err = "Ok"

\* What a record says about itself, whatever the ledger.
Coherent(g) ==
    /\ g.grantor # g.beneficiary
    /\ g.cliff <= g.duration
    /\ g.start + g.duration <= U64Max

\* The beneficiary never has more than has vested, and a revocation has
\* returned exactly what had not.
Entitled ==
    /\ grant.claimed <= Vested(grant, Smaller(now, grant.revokedAt))
    /\ ~IsRevoked(grant) => grant.returned = 0
    /\ IsRevoked(grant) =>
           /\ grant.revokedAt <= now
           /\ grant.returned = grant.total - Vested(grant, grant.revokedAt)
           /\ Fits(grant, grant.revokedAt)

Moved ==
    /\ grant = NoGrant => flows = [pulled |-> 0, toBeneficiary |-> 0, toGrantor |-> 0]
    /\ grant # NoGrant =>
           flows = [pulled        |-> grant.total,
                    toBeneficiary |-> grant.claimed,
                    toGrantor     |-> grant.returned]

Holding ==
    balance[Self] =
        IF grant = NoGrant THEN strays
        ELSE grant.total - grant.claimed - grant.returned + strays + Stranded

\* The inductive invariant.
IInv ==
    /\ TypeOK
    /\ grant # NoGrant => Coherent(grant) /\ Entitled
    /\ Moved
    /\ Holding

-----------------------------------------------------------------------------
(* The schedule.                                                           *)

\* The types of a coherent grant.
LEMMA GrantTypes ==
    ASSUME NEW g \in Grants, Coherent(g)
    PROVE  /\ g.total \in Nat /\ g.total > 0 /\ g.total <= I128Max /\ I128Max \in Nat
           /\ g.start \in Nat /\ g.cliff \in Nat /\ g.duration \in Nat /\ g.duration > 0
           /\ g.cliff <= g.duration /\ g.start + g.duration <= U64Max /\ U64Max \in Nat
           /\ g.claimed \in Nat /\ g.returned \in Nat /\ g.revokedAt \in Nat
           /\ g.duration <= I128Max
           /\ g.start + g.cliff <= g.start + g.duration
           /\ CliffAt(g) = g.start + g.cliff /\ EndAt(g) = g.start + g.duration
<1>1. /\ g.total \in Nat /\ g.total > 0 /\ g.total <= I128Max /\ I128Max \in Nat
      /\ g.start \in Nat /\ g.cliff \in Nat /\ g.duration \in Nat /\ g.duration > 0
      /\ g.claimed \in Nat /\ g.returned \in Nat /\ g.revokedAt \in Nat
      /\ U64Max \in Nat /\ g.duration <= U64Max /\ U64Max <= I128Max
  BY LedgerAssumption, I128MaxAssumption, VestingAssumption DEF Grants, Never
<1>2. g.cliff <= g.duration /\ g.start + g.duration <= U64Max
  BY DEF Coherent
<1>3. CliffAt(g) = g.start + g.cliff /\ EndAt(g) = g.start + g.duration
  BY <1>1, <1>2 DEF CliffAt, EndAt, Smaller
<1>4. QED
  BY <1>1, <1>2, <1>3

\* The linear part of the schedule: a share of the total.
LEMMA VestedShare ==
    ASSUME NEW g \in Grants, Coherent(g), NEW at \in Nat,
           at >= g.start + g.cliff, at < g.start + g.duration
    PROVE  /\ Vested(g, at) = (g.total * (at - g.start)) \div g.duration
           /\ Vested(g, at) \in 0..g.total
           /\ Vested(g, at) * g.duration <= g.total * (at - g.start)
           /\ g.total * (at - g.start) < Vested(g, at) * g.duration + g.duration
<1>1. /\ at - g.start \in Nat /\ at - g.start <= g.duration
      /\ g.total \in Nat /\ g.duration \in Nat /\ g.duration > 0
      /\ g.start \in Nat /\ g.cliff \in Nat
  BY GrantTypes
<1>2. Vested(g, at) = (g.total * (at - g.start)) \div g.duration
  BY <1>1 DEF Vested
<1>3. /\ (g.total * (at - g.start)) \div g.duration \in 0..g.total
      /\ ((g.total * (at - g.start)) \div g.duration) * g.duration <= g.total * (at - g.start)
      /\ g.total * (at - g.start) <
             ((g.total * (at - g.start)) \div g.duration) * g.duration + g.duration
  BY <1>1, ShareRoundsDown
<1>4. QED
  BY <1>2, <1>3

LEMMA VestedBounded ==
    ASSUME NEW g \in Grants, Coherent(g), NEW at \in Nat
    PROVE  Vested(g, at) \in 0..g.total
<1>1. g.total \in Nat
  BY GrantTypes
<1>2. CASE at >= g.start + g.cliff /\ at < g.start + g.duration
  BY <1>2, VestedShare
<1>3. CASE at < g.start + g.cliff
  BY <1>1, <1>3 DEF Vested
<1>4. CASE ~(at < g.start + g.cliff) /\ at >= g.start + g.duration
  BY <1>1, <1>4 DEF Vested
<1>5. QED
  BY <1>2, <1>3, <1>4, GrantTypes

\* Vesting never goes back.
LEMMA VestedGrows ==
    ASSUME NEW g \in Grants, Coherent(g), NEW t \in Nat, NEW u \in Nat, t <= u
    PROVE  Vested(g, t) <= Vested(g, u)
<1>1. /\ g.total \in Nat /\ g.start \in Nat /\ g.cliff \in Nat /\ g.duration \in Nat
      /\ g.duration > 0 /\ g.start + g.cliff <= g.start + g.duration
  BY GrantTypes
<1>2. Vested(g, t) \in 0..g.total /\ Vested(g, u) \in 0..g.total
  BY VestedBounded
<1>3. CASE t < g.start + g.cliff
  <2>1. Vested(g, t) = 0
    BY <1>3 DEF Vested
  <2>2. QED
    BY <1>1, <1>2, <2>1
<1>4. CASE u >= g.start + g.duration
  <2>1. Vested(g, u) = g.total
    BY <1>1, <1>4 DEF Vested
  <2>2. QED
    BY <1>1, <1>2, <2>1
<1>5. CASE ~(t < g.start + g.cliff) /\ ~(u >= g.start + g.duration)
  <2>1. /\ t - g.start \in Nat /\ u - g.start \in Nat /\ t - g.start <= u - g.start
        /\ t >= g.start + g.cliff /\ t < g.start + g.duration
        /\ u >= g.start + g.cliff /\ u < g.start + g.duration
    BY <1>1, <1>5
  <2>2. g.total * (t - g.start) <= g.total * (u - g.start)
    BY <1>1, <2>1, ProductMonotone
  <2>3. g.total * (t - g.start) \in Nat /\ g.total * (u - g.start) \in Nat
    BY <1>1, <2>1, SMT
  <2>4. (g.total * (t - g.start)) \div g.duration <= (g.total * (u - g.start)) \div g.duration
    BY <1>1, <2>2, <2>3, DivisionMonotone
  <2>5. QED
    BY <2>1, <2>4, VestedShare
<1>6. QED
  BY <1>3, <1>4, <1>5

\* planned_vested is what has vested, or Overflow at a moment of the linear
\* part whose product exceeds i128 (vesting/types.rs).
LEMMA PlannedIsVested ==
    ASSUME NEW g \in Grants, Coherent(g), NEW at \in Nat
    PROVE  \/ Fits(g, at) /\ PlannedVested(g, at) = Ok(Vested(g, at))
           \/ /\ ~Fits(g, at) /\ PlannedVested(g, at) = Err("Overflow")
              /\ at >= g.start + g.cliff /\ at < g.start + g.duration
              /\ g.total * (at - g.start) > I128Max
<1>1. /\ g.total \in Nat /\ g.start \in Nat /\ g.cliff \in Nat /\ g.duration \in Nat
      /\ g.duration > 0 /\ g.start + g.cliff <= g.start + g.duration
      /\ CliffAt(g) = g.start + g.cliff /\ EndAt(g) = g.start + g.duration
      /\ g.total <= I128Max /\ I128Max \in Nat
  BY GrantTypes
<1>2. CASE at < g.start + g.cliff
  <2>1. PlannedVested(g, at) = Ok(0) /\ Vested(g, at) = 0
    BY <1>1, <1>2 DEF PlannedVested, Vested
  <2>2. QED
    BY <2>1 DEF Fits, Ok
<1>3. CASE ~(at < g.start + g.cliff) /\ at >= g.start + g.duration
  <2>1. PlannedVested(g, at) = Ok(g.total) /\ Vested(g, at) = g.total
    BY <1>1, <1>3 DEF PlannedVested, Vested
  <2>2. QED
    BY <2>1 DEF Fits, Ok
<1>4. CASE ~(at < g.start + g.cliff) /\ ~(at >= g.start + g.duration)
  <2>1. at >= g.start + g.cliff /\ at < g.start + g.duration /\ at - g.start \in Nat
    BY <1>1, <1>4
  <2>2. PlannedVested(g, at) = MulDiv(g.total, at - g.start, g.duration)
    BY <1>1, <1>4 DEF PlannedVested
  <2>3. PICK p \in Nat : p = g.total * (at - g.start)
    BY <1>1, <2>1, SMT
  <2>4. CASE p > I128Max
    <3>1. p \notin I128
      BY <1>1, <2>3, <2>4 DEF I128
    <3>2. MulDiv(g.total, at - g.start, g.duration) = Err("Overflow")
      BY <2>3, <3>1 DEF MulDiv, Mul, Checked, Err
    <3>3. QED
      BY <2>1, <2>2, <2>3, <2>4, <3>2 DEF Fits, Err
  <2>5. CASE ~(p > I128Max)
    <3>1. p \in I128
      BY <1>1, <2>3, <2>5 DEF I128
    <3>2. MulDiv(g.total, at - g.start, g.duration) = Div(p, g.duration)
      BY <2>3, <3>1 DEF MulDiv, Mul, Checked, Ok
    <3>3. Vested(g, at) = p \div g.duration /\ Vested(g, at) \in 0..g.total
      BY <2>1, <2>3, VestedShare
    <3>4. Truncated(p, g.duration) = p \div g.duration
      BY <1>1, <2>3 DEF Truncated
    <3>5. Vested(g, at) \in I128
      BY <1>1, <3>3 DEF I128
    <3>6. Div(p, g.duration) = Ok(Vested(g, at))
      BY <1>1, <3>3, <3>4, <3>5 DEF Div, Checked
    <3>7. QED
      BY <2>2, <3>2, <3>6 DEF Fits, Ok
  <2>6. QED
    BY <2>4, <2>5
<1>5. QED
  BY <1>2, <1>3, <1>4

\* The schedule reads the terms of the record, never its totals.
LEMMA ScheduleReadsTerms ==
    ASSUME NEW g, NEW h, NEW at,
           h.total = g.total, h.start = g.start, h.cliff = g.cliff,
           h.duration = g.duration
    PROVE  /\ Vested(h, at) = Vested(g, at)
           /\ PlannedVested(h, at) = PlannedVested(g, at)
           /\ Fits(h, at) = Fits(g, at)
           /\ CliffAt(h) = CliffAt(g) /\ EndAt(h) = EndAt(g)
BY DEF Vested, PlannedVested, Fits, CliffAt, EndAt

-----------------------------------------------------------------------------
(* The invariant holds at first and every step keeps it.                   *)

\* The facts about the types that every step uses.
LEMMA Types ==
    ASSUME IInv
    PROVE  /\ now \in Nat /\ now <= U64Max /\ U64Max \in Nat
           /\ I128Max \in Nat /\ U64Max <= I128Max
           /\ balance \in [Holders -> Nat] /\ balance[Self] \in Nat /\ strays \in Nat
           /\ Self \in Holders /\ Self \notin Signers /\ Signers \subseteq Holders
           /\ NoGrant \notin Grants
           /\ grant # NoGrant =>
                  /\ grant \in Grants /\ Coherent(grant) /\ Entitled
                  /\ grant.grantor \in Holders /\ grant.grantor # Self
                  /\ grant.beneficiary \in Holders
                  /\ grant.total \in Nat /\ grant.total <= I128Max
                  /\ grant.claimed \in Nat /\ grant.claimed <= I128Max
                  /\ grant.returned \in Nat /\ grant.returned <= I128Max
                  /\ grant.revokedAt \in Nat
<1>1. grant \in {NoGrant} \cup Grants
  BY DEF IInv, TypeOK
<1>2. now \in 0..U64Max /\ balance \in [Holders -> Nat] /\ strays \in Nat
  BY DEF IInv, TypeOK, LedgerTypeOK
<1>3. /\ U64Max \in Nat /\ I128Max \in Nat /\ U64Max <= I128Max /\ NoGrant \notin Grants
      /\ Self \in Holders /\ Self \notin Signers /\ Signers \subseteq Holders
  BY LedgerAssumption, I128MaxAssumption, VestingAssumption
<1>4. ASSUME grant # NoGrant
      PROVE  /\ grant \in Grants /\ Coherent(grant) /\ Entitled
             /\ grant.grantor \in Holders /\ grant.grantor # Self
             /\ grant.beneficiary \in Holders
             /\ grant.total \in Nat /\ grant.total <= I128Max
             /\ grant.claimed \in Nat /\ grant.claimed <= I128Max
             /\ grant.returned \in Nat /\ grant.returned <= I128Max
             /\ grant.revokedAt \in Nat
  <2>1. grant \in Grants /\ Coherent(grant) /\ Entitled
    BY <1>1, <1>4 DEF IInv
  <2>2. QED
    BY <1>3, <2>1 DEF Grants, Never
<1>5. QED
  BY <1>1, <1>2, <1>3, <1>4

\* claimable_at from now on: what has vested and is not claimed, or Overflow
\* in the linear part; never Underflow, and always known after a revocation.
LEMMA ClaimableIsVested ==
    ASSUME IInv, grant # NoGrant, NEW at \in Nat, now <= at
    PROVE  LET e == Smaller(at, grant.revokedAt)
               c == Vested(grant, e) - grant.claimed
           IN  /\ e \in Nat
               /\ Vested(grant, e) \in 0..grant.total
               /\ c \in Nat
               /\ \/ /\ Fits(grant, e)
                     /\ VestedAmount(grant, at) = Ok(Vested(grant, e))
                     /\ ClaimableAt(grant, at) = Ok(c)
                  \/ /\ ~Fits(grant, e) /\ ~IsRevoked(grant)
                     /\ VestedAmount(grant, at) = Err("Overflow")
                     /\ ClaimableAt(grant, at) = Err("Overflow")
<1> DEFINE e == Smaller(at, grant.revokedAt)
           d == Smaller(now, grant.revokedAt)
           c == Vested(grant, e) - grant.claimed
<1>1. /\ grant \in Grants /\ Coherent(grant) /\ Entitled
      /\ now \in Nat /\ grant.revokedAt \in Nat
      /\ grant.total \in Nat /\ grant.total <= I128Max /\ I128Max \in Nat
      /\ grant.claimed \in Nat
  BY Types
<1>2. e \in Nat /\ d \in Nat /\ d <= e
  BY <1>1 DEF Smaller
<1>3. Vested(grant, e) \in 0..grant.total /\ Vested(grant, d) \in 0..grant.total
      /\ Vested(grant, d) <= Vested(grant, e)
  BY <1>1, <1>2, VestedBounded, VestedGrows
<1>4. grant.claimed <= Vested(grant, d)
  BY <1>1 DEF Entitled
<1>5. c \in Nat /\ c \in I128
  BY <1>1, <1>3, <1>4 DEF I128
<1>6. VestedAmount(grant, at) = PlannedVested(grant, e)
  BY DEF VestedAmount
<1>7. IsRevoked(grant) => Fits(grant, e)
  BY <1>1 DEF Entitled, Smaller
<1>8. CASE Fits(grant, e) /\ PlannedVested(grant, e) = Ok(Vested(grant, e))
  <2>1. ClaimableAt(grant, at) = Sub(Vested(grant, e), grant.claimed)
    BY <1>6, <1>8 DEF ClaimableAt, Ok
  <2>2. Sub(Vested(grant, e), grant.claimed) = Ok(c)
    BY <1>5 DEF Sub, Checked
  <2>3. QED
    BY <1>2, <1>3, <1>5, <1>6, <1>8, <2>1, <2>2
<1>9. CASE ~Fits(grant, e) /\ PlannedVested(grant, e) = Err("Overflow")
  <2>1. ClaimableAt(grant, at) = Err("Overflow")
    BY <1>6, <1>9 DEF ClaimableAt, Err
  <2>2. QED
    BY <1>2, <1>3, <1>5, <1>6, <1>7, <1>9, <2>1
<1>10. QED
  BY <1>1, <1>2, <1>8, <1>9, PlannedIsVested

LEMMA InitEstablishes == Init => IInv
<1> SUFFICES ASSUME Init PROVE IInv
  OBVIOUS
<1>1. TypeOK
  <2>1. LedgerTypeOK
    BY LedgerAssumption DEF Init, LedgerInit, LedgerTypeOK
  <2>2. QED
    BY <2>1 DEF Init, TypeOK
<1>2. Holding
  BY LedgerAssumption DEF Init, LedgerInit, Holding
<1>3. QED
  BY <1>1, <1>2 DEF Init, IInv, Moved

\* create: a coherent grant, paid for in full.
LEMMA CreateKeeps ==
    ASSUME IInv,
           NEW signer \in Signers, NEW grantor \in Holders, NEW beneficiary \in Holders,
           NEW total \in Amounts, NEW start \in 0..U64Max, NEW cliff \in 0..U64Max,
           NEW duration \in 0..U64Max, NEW revocable \in BOOLEAN,
           Create(signer, grantor, beneficiary, total, start, cliff, duration, revocable)
    PROVE  IInv'
<1>1. /\ grant = NoGrant /\ grantor # beneficiary /\ total > 0 /\ duration # 0
      /\ cliff <= duration /\ start + duration <= U64Max /\ signer = grantor
      /\ TransferReply(balance, grantor, Self, total) = "Ok"
  BY DEF Create, CreateReply, Require, RequireAuth, ??
<1>2. /\ grant' = [grantor |-> grantor, beneficiary |-> beneficiary, total |-> total,
                   start |-> start, cliff |-> cliff, duration |-> duration,
                   revocable |-> revocable, claimed |-> 0, returned |-> 0,
                   revokedAt |-> Never]
      /\ balance' = Transferred(balance, grantor, Self, total)
      /\ flows' = [flows EXCEPT !.pulled = @ + total]
      /\ signedBy' = signer
      /\ UNCHANGED <<now, frozen, strays>>
  BY DEF Create
<1>3. /\ now \in Nat /\ U64Max \in Nat /\ I128Max \in Nat /\ now <= U64Max
      /\ strays \in Nat /\ balance \in [Holders -> Nat] /\ balance[Self] \in Nat
      /\ Self \in Holders /\ Self \notin Signers /\ NoGrant \notin Grants
  BY Types
<1>4. total \in 0..balance[grantor] /\ total \in Nat /\ total \in 1..I128Max
  <2>1. total \in 0..balance[grantor]
    BY <1>1, TransferAccepted
  <2>2. total \in I128
    BY VestingAssumption
  <2>3. QED
    BY <1>1, <1>3, <2>1, <2>2 DEF I128
<1>5. grant' \in Grants
  <2>1. Never \in 0..Never /\ duration \in 1..U64Max
    BY <1>1, <1>3 DEF Never
  <2>2. QED
    BY <1>1, <1>2, <1>3, <1>4, <2>1 DEF Grants
<1>6. Coherent(grant')
  BY <1>1, <1>2 DEF Coherent
<1>7. flows' = [pulled |-> total, toBeneficiary |-> 0, toGrantor |-> 0]
  BY <1>1, <1>2, <1>4 DEF IInv, Moved
<1>8. balance' \in [Holders -> Nat] /\ balance'[Self] = balance[Self] + total
  <2>1. grantor # Self
    BY <1>1, <1>3
  <2>2. QED
    BY <1>2, <1>3, <1>4, <2>1, TransferMoves
<1>9. TypeOK'
  <2>1. LedgerTypeOK'
    BY <1>2, <1>8 DEF IInv, TypeOK, LedgerTypeOK
  <2>2. flows' \in [pulled : Nat, toBeneficiary : Nat, toGrantor : Nat]
    BY <1>4, <1>7
  <2>3. QED
    BY <1>2, <1>5, <2>1, <2>2 DEF TypeOK
<1>10. Entitled'
  <2>1. ~IsRevoked(grant') /\ grant'.claimed = 0 /\ grant'.returned = 0
        /\ grant'.revokedAt = Never
    BY <1>2 DEF IsRevoked
  <2>2. Smaller(now', grant'.revokedAt) = now
    BY <1>2, <1>3, <2>1 DEF Smaller, Never
  <2>3. Vested(grant', now) >= 0
    BY <1>3, <1>5, <1>6, VestedBounded, GrantTypes
  <2>4. QED
    BY <2>1, <2>2, <2>3 DEF Entitled
<1>11. Moved'
  BY <1>2, <1>3, <1>5, <1>7 DEF Moved
<1>12. Holding'
  <2>1. balance[Self] = strays
    BY <1>1 DEF IInv, Holding
  <2>2. Stranded' = 0
    BY <1>7 DEF Stranded
  <2>3. grant' # NoGrant /\ grant'.total = total
        /\ grant'.claimed = 0 /\ grant'.returned = 0 /\ strays' = strays
    BY <1>2, <1>3, <1>5
  <2>4. QED
    BY <1>3, <1>4, <1>8, <2>1, <2>2, <2>3 DEF Holding
<1>13. QED
  BY <1>6, <1>9, <1>10, <1>11, <1>12 DEF IInv

\* What an accepted claim pays: all that has vested and is not claimed.
LEMMA ClaimFacts ==
    ASSUME IInv, NEW signer \in Signers, Claim(signer)
    PROVE  LET e == Smaller(now, grant.revokedAt)
           IN  /\ grant # NoGrant
               /\ signer = grant.beneficiary
               /\ e >= grant.start + grant.cliff
               /\ e \in Nat
               /\ VestedAmount(grant, now) = Ok(Vested(grant, e))
               /\ Vested(grant, e) \in 0..grant.total
               /\ Claimable.val = Vested(grant, e) - grant.claimed
               /\ Claimable.val \in Nat /\ Claimable.val > 0
               /\ Claimable.val \in 0..balance[Self]
               /\ grant' = [grant EXCEPT !.claimed = Vested(grant, e)]
               /\ balance' = Transferred(balance, Self, grant.beneficiary, Claimable.val)
               /\ flows' = [flows EXCEPT !.toBeneficiary = Vested(grant, e)]
               /\ signedBy' = signer
               /\ UNCHANGED <<now, frozen, strays>>
<1> DEFINE e == Smaller(now, grant.revokedAt)
           c == Claimable.val
<1>1. /\ grant # NoGrant /\ signer = grant.beneficiary /\ e >= CliffAt(grant)
      /\ Claimable.err = "Ok" /\ c > 0
      /\ TransferReply(balance, Self, grant.beneficiary, c) = "Ok"
  BY DEF Claim, ClaimReply, Load, Require, RequireAuth, ??
<1>2. /\ grant' = [grant EXCEPT !.claimed = @ + c]
      /\ balance' = Transferred(balance, Self, grant.beneficiary, c)
      /\ flows' = [flows EXCEPT !.toBeneficiary = @ + c]
      /\ signedBy' = signer
      /\ UNCHANGED <<now, frozen, strays>>
  BY DEF Claim
<1>3. /\ grant \in Grants /\ Coherent(grant) /\ now \in Nat /\ now <= now
      /\ grant.claimed \in Nat /\ grant.total \in Nat
  BY <1>1, Types
<1>4. e >= grant.start + grant.cliff
  BY <1>1, <1>3, GrantTypes
<1>5. /\ e \in Nat /\ Vested(grant, e) \in 0..grant.total
      /\ c = Vested(grant, e) - grant.claimed
      /\ VestedAmount(grant, now) = Ok(Vested(grant, e)) /\ c \in Nat
  BY <1>1, <1>3, ClaimableIsVested DEF Claimable, Ok, Err
<1>6. c \in 0..balance[Self]
  BY <1>1, TransferAccepted
<1>7. flows = [pulled |-> grant.total, toBeneficiary |-> grant.claimed,
               toGrantor |-> grant.returned]
  BY <1>1 DEF IInv, Moved
<1> HIDE DEF e, c
<1>8. grant.claimed + c = Vested(grant, e)
  BY <1>3, <1>5
<1>9. /\ grant' = [grant EXCEPT !.claimed = Vested(grant, e)]
      /\ flows' = [flows EXCEPT !.toBeneficiary = Vested(grant, e)]
  BY <1>2, <1>7, <1>8
<1>10. QED
  BY <1>1, <1>2, <1>4, <1>5, <1>6, <1>9 DEF e, c


\* claim: the record follows the payment, and all that has vested is claimed.
LEMMA ClaimKeeps ==
    ASSUME IInv, NEW signer \in Signers, Claim(signer)
    PROVE  IInv'
<1> DEFINE e == Smaller(now, grant.revokedAt)
           c == Claimable.val
           v == Vested(grant, e)
<1>1. /\ grant # NoGrant /\ e \in Nat /\ v \in 0..grant.total
      /\ c = v - grant.claimed /\ c \in Nat /\ c \in 0..balance[Self]
      /\ grant' = [grant EXCEPT !.claimed = v]
      /\ balance' = Transferred(balance, Self, grant.beneficiary, c)
      /\ flows' = [flows EXCEPT !.toBeneficiary = v]
      /\ signedBy' = signer
      /\ UNCHANGED <<now, frozen, strays>>
  BY ClaimFacts
<1>2. /\ grant \in Grants /\ Coherent(grant) /\ Entitled /\ Moved /\ Holding
      /\ now \in Nat /\ strays \in Nat /\ I128Max \in Nat /\ NoGrant \notin Grants
      /\ balance \in [Holders -> Nat] /\ balance[Self] \in Nat /\ Self \in Holders
      /\ grant.beneficiary \in Holders
      /\ grant.total \in Nat /\ grant.total <= I128Max
      /\ grant.claimed \in Nat /\ grant.returned \in Nat
  BY <1>1, Types DEF IInv
<1> HIDE DEF e, c, v
<1>3. v \in Nat /\ v <= I128Max
  BY <1>1, <1>2
<1>4. grant' \in Grants /\ grant'.claimed = v
  BY <1>1, <1>2, <1>3 DEF Grants
<1>5. \A f \in {"grantor", "beneficiary", "total", "start", "cliff", "duration",
                "revocable", "returned", "revokedAt"} : grant'[f] = grant[f]
  BY <1>1, <1>2 DEF Grants
<1>6. flows' = [pulled        |-> grant'.total,
                toBeneficiary |-> grant'.claimed,
                toGrantor     |-> grant'.returned]
  BY <1>1, <1>2, <1>4, <1>5 DEF Moved
<1>7. /\ balance' \in [Holders -> Nat]
      /\ balance'[Self] = balance[Self] - c
                          + (IF grant.beneficiary = Self THEN c ELSE 0)
  BY <1>1, <1>2, TransferMoves
<1>8. TypeOK'
  <2>1. LedgerTypeOK'
    BY <1>1, <1>7 DEF IInv, TypeOK, LedgerTypeOK
  <2>2. flows' \in [pulled : Nat, toBeneficiary : Nat, toGrantor : Nat]
    BY <1>2, <1>3, <1>4, <1>5, <1>6
  <2>3. QED
    BY <1>1, <1>4, <2>1, <2>2 DEF TypeOK
<1>9. Coherent(grant')
  BY <1>2, <1>5 DEF Coherent
<1>10. Entitled'
  <2>1. \A at : Vested(grant', at) = Vested(grant, at) /\ Fits(grant', at) = Fits(grant, at)
    BY <1>5, ScheduleReadsTerms
  <2>2. Smaller(now', grant'.revokedAt) = e
    BY <1>1, <1>5 DEF e
  <2>3. grant'.claimed <= Vested(grant', Smaller(now', grant'.revokedAt))
    BY <1>3, <1>4, <2>1, <2>2 DEF v
  <2>4. IsRevoked(grant') = IsRevoked(grant)
    BY <1>5 DEF IsRevoked
  <2>5. QED
    BY <1>1, <1>2, <1>5, <2>1, <2>3, <2>4 DEF Entitled
<1>11. Holding'
  <2>1. balance[Self] = grant.total - grant.claimed - grant.returned + strays + Stranded
    BY <1>1, <1>2 DEF Holding
  <2>2. Stranded = IF grant.beneficiary = Self THEN grant.claimed ELSE 0
    BY <1>1, <1>2 DEF Stranded, Moved
  <2>3. Stranded' = IF grant.beneficiary = Self THEN v ELSE 0
    BY <1>4, <1>5, <1>6 DEF Stranded
  <2>4. grant' # NoGrant /\ strays' = strays
    BY <1>1, <1>2, <1>4
  <2>5. QED
    BY <1>1, <1>2, <1>3, <1>4, <1>5, <1>7, <2>1, <2>2, <2>3, <2>4 DEF Holding
<1>12. Moved'
  BY <1>2, <1>4, <1>6 DEF Moved
<1>13. QED
  BY <1>8, <1>9, <1>10, <1>11, <1>12 DEF IInv

\* What an accepted revocation does: it returns all that has not vested.
LEMMA RevokeFacts ==
    ASSUME IInv, NEW signer \in Signers, Revoke(signer)
    PROVE  LET v == Vested(grant, now)
           IN  /\ grant # NoGrant /\ ~IsRevoked(grant) /\ grant.revocable
               /\ signer = grant.grantor
               /\ v \in 0..grant.total /\ Fits(grant, now)
               /\ VestedAmount(grant, now) = Ok(v)
               /\ grant.total - v \in 0..balance[Self]
               /\ grant' = [grant EXCEPT !.revokedAt = now, !.returned = grant.total - v]
               /\ balance' = Transferred(balance, Self, grant.grantor, grant.total - v)
               /\ flows' = [flows EXCEPT !.toGrantor = grant.total - v]
               /\ signedBy' = signer
               /\ UNCHANGED <<now, frozen, strays>>
<1> DEFINE v == Vested(grant, now)
           u == Unvested.val
<1>1. /\ grant # NoGrant /\ ~IsRevoked(grant) /\ grant.revocable
      /\ signer = grant.grantor
      /\ VestedAmount(grant, now).err = "Ok" /\ Unvested.err = "Ok"
      /\ u > 0 => TransferReply(balance, Self, grant.grantor, u) = "Ok"
  BY DEF Revoke, RevokeReply, Load, Require, RequireAuth, ??
<1>2. /\ grant' = [grant EXCEPT !.revokedAt = now, !.returned = u]
      /\ balance' = Transferred(balance, Self, grant.grantor, u)
      /\ flows' = [flows EXCEPT !.toGrantor = @ + u]
      /\ signedBy' = signer
      /\ UNCHANGED <<now, frozen, strays>>
  BY DEF Revoke
<1>3. /\ grant \in Grants /\ Coherent(grant) /\ Entitled /\ Moved
      /\ now \in Nat /\ now <= U64Max /\ U64Max \in Nat /\ now <= now
      /\ grant.total \in Nat /\ grant.total <= I128Max /\ I128Max \in Nat
      /\ balance[Self] \in Nat
  BY <1>1, Types DEF IInv
<1>4. Smaller(now, grant.revokedAt) = now
  BY <1>1, <1>3 DEF IsRevoked, Never, Smaller
<1>5. /\ v \in 0..grant.total /\ Fits(grant, now)
      /\ VestedAmount(grant, now) = Ok(v)
  BY <1>1, <1>3, <1>4, ClaimableIsVested DEF Err
<1> HIDE DEF v
<1>6. u = grant.total - v
  <2>1. grant.total - v \in I128
    BY <1>3, <1>5 DEF I128
  <2>2. VestedAmount(grant, now).val = v
    BY <1>5 DEF Ok
  <2>3. QED
    BY <2>1, <2>2 DEF Unvested, Sub, Checked, Ok
<1> HIDE DEF u
<1>7. u \in 0..balance[Self]
  <2>1. u \in Nat
    BY <1>3, <1>5, <1>6
  <2>2. CASE u > 0
    BY <1>1, <2>2, TransferAccepted
  <2>3. CASE u = 0
    BY <1>3, <2>3
  <2>4. QED
    BY <2>1, <2>2, <2>3
<1>8. flows.toGrantor = 0 /\ flows.toGrantor + u = u
  BY <1>1, <1>3, <1>7 DEF Moved, Entitled
<1>9. flows' = [flows EXCEPT !.toGrantor = u]
  BY <1>1, <1>2, <1>3, <1>8 DEF Moved
<1>10. QED
  BY <1>1, <1>2, <1>5, <1>6, <1>7, <1>9 DEF v

\* revoke: what had vested stays, the rest is returned.
LEMMA RevokeKeeps ==
    ASSUME IInv, NEW signer \in Signers, Revoke(signer)
    PROVE  IInv'
<1> DEFINE v == Vested(grant, now)
           u == grant.total - v
<1>1. /\ grant # NoGrant /\ ~IsRevoked(grant)
      /\ v \in 0..grant.total /\ Fits(grant, now) /\ u \in 0..balance[Self]
      /\ grant' = [grant EXCEPT !.revokedAt = now, !.returned = u]
      /\ balance' = Transferred(balance, Self, grant.grantor, u)
      /\ flows' = [flows EXCEPT !.toGrantor = u]
      /\ signedBy' = signer
      /\ UNCHANGED <<now, frozen, strays>>
  BY RevokeFacts
<1>2. /\ grant \in Grants /\ Coherent(grant) /\ Entitled /\ Moved /\ Holding
      /\ now \in Nat /\ now <= U64Max /\ U64Max \in Nat
      /\ strays \in Nat /\ I128Max \in Nat /\ NoGrant \notin Grants
      /\ balance \in [Holders -> Nat] /\ balance[Self] \in Nat /\ Self \in Holders
      /\ grant.grantor \in Holders /\ grant.grantor # Self
      /\ grant.beneficiary \in Holders
      /\ grant.total \in Nat /\ grant.total <= I128Max
      /\ grant.claimed \in Nat /\ grant.returned = 0
  BY <1>1, Types DEF IInv, Entitled
<1>3. /\ v \in Nat /\ u \in Nat /\ u <= I128Max /\ now \in 0..Never
  BY <1>1, <1>2 DEF Never
<1>4. Smaller(now, grant.revokedAt) = now
  BY <1>1, <1>2 DEF IsRevoked, Never, Smaller
<1>5. grant.claimed <= v
  BY <1>2, <1>4 DEF Entitled
<1> HIDE DEF v, u
<1>6. grant' \in Grants /\ grant'.returned = u /\ grant'.revokedAt = now
  <2>1. u \in 0..I128Max /\ now \in 0..Never /\ grant \in Grants
    BY <1>2, <1>3
  <2>2. grant' = [grant EXCEPT !.revokedAt = now, !.returned = u]
    BY <1>1
  <2>3. QED
    BY <2>1, <2>2 DEF Grants
<1>7. \A f \in {"grantor", "beneficiary", "total", "start", "cliff", "duration",
                "revocable", "claimed"} : grant'[f] = grant[f]
  BY <1>1, <1>2 DEF Grants
<1>8. flows' = [pulled        |-> grant'.total,
                toBeneficiary |-> grant'.claimed,
                toGrantor     |-> grant'.returned]
  BY <1>1, <1>2, <1>6, <1>7 DEF Moved
<1>9. /\ balance' \in [Holders -> Nat]
      /\ balance'[Self] = balance[Self] - u
  BY <1>1, <1>2, <1>3, TransferMoves
<1>10. TypeOK'
  <2>1. LedgerTypeOK'
    BY <1>1, <1>9 DEF IInv, TypeOK, LedgerTypeOK
  <2>2. flows' \in [pulled : Nat, toBeneficiary : Nat, toGrantor : Nat]
    BY <1>2, <1>3, <1>6, <1>7, <1>8
  <2>3. QED
    BY <1>1, <1>6, <2>1, <2>2 DEF TypeOK
<1>11. Coherent(grant')
  BY <1>2, <1>7 DEF Coherent
<1>12. Entitled'
  <2>1. Vested(grant', now) = v /\ Fits(grant', now)
    BY <1>1, <1>7, ScheduleReadsTerms DEF v
  <2>2. Smaller(now', grant'.revokedAt) = now
    BY <1>1, <1>2, <1>6 DEF Smaller
  <2>3. IsRevoked(grant')
    BY <1>2, <1>6 DEF IsRevoked, Never
  <2>4. grant'.returned = grant'.total - v /\ grant'.claimed <= v /\ now' = now
    BY <1>1, <1>5, <1>6, <1>7 DEF u
  <2>5. QED
    BY <1>2, <1>6, <2>1, <2>2, <2>3, <2>4 DEF Entitled
<1>13. Holding'
  <2>1. balance[Self] = grant.total - grant.claimed - grant.returned + strays + Stranded
    BY <1>1, <1>2 DEF Holding
  <2>2. Stranded \in Nat
    BY DEF IInv, TypeOK, Stranded
  <2>3. Stranded' = Stranded
    BY <1>1, <1>2, <1>7, <1>8 DEF Stranded, Moved
  <2>4. grant' # NoGrant /\ strays' = strays
    BY <1>1, <1>2, <1>6
  <2>5. QED
    BY <1>2, <1>3, <1>6, <1>7, <1>9, <2>1, <2>2, <2>3, <2>4 DEF Holding
<1>14. Moved'
  BY <1>2, <1>6, <1>8 DEF Moved
<1>15. QED
  BY <1>10, <1>11, <1>12, <1>13, <1>14 DEF IInv

LEMMA LedgerKeeps ==
    ASSUME IInv, LedgerNext, UNCHANGED contractVars
    PROVE  IInv'
<1>1. grant' = grant /\ flows' = flows /\ signedBy' = signedBy
  BY DEF contractVars
<1>2. /\ now \in 0..U64Max /\ balance \in [Holders -> Nat] /\ strays \in Nat
      /\ frozen \in SUBSET Freezable /\ U64Max \in Nat
      /\ Self \in Holders /\ Self \notin Signers /\ Signers \subseteq Holders
  BY LedgerAssumption DEF IInv, TypeOK, LedgerTypeOK
<1>3. ASSUME LedgerTypeOK', now <= now',
             balance'[Self] - strays' = balance[Self] - strays,
             balance'[Self] \in Nat, strays' \in Nat
      PROVE  IInv'
  <2>1. TypeOK'
    BY <1>1, <1>3 DEF IInv, TypeOK
  <2>2. Moved'
    BY <1>1 DEF IInv, Moved
  <2>3. Holding'
    <3>1. balance[Self] \in Nat /\ balance'[Self] = balance[Self] - strays + strays'
      BY <1>2, <1>3
    <3>2. Stranded' = Stranded
      BY <1>1 DEF Stranded
    <3>3. Holding
      BY DEF IInv
    <3>4. CASE grant = NoGrant
      <4>1. balance[Self] = strays
        BY <3>3, <3>4 DEF Holding
      <4>2. balance'[Self] = strays'
        <5>1. balance'[Self] - strays' = 0
          BY <1>2, <1>3, <4>1
        <5>2. QED
          BY <1>3, <5>1
      <4>3. QED
        BY <1>1, <3>4, <4>2 DEF Holding
    <3>5. CASE grant # NoGrant
      <4>1. /\ grant.total \in Int /\ grant.claimed \in Int
            /\ grant.returned \in Int /\ Stranded \in Int
        BY <3>5, Types DEF IInv, Moved, Stranded
      <4>2. QED
        BY <1>1, <1>2, <1>3, <3>1, <3>2, <3>3, <3>5, <4>1 DEF Holding
    <3>6. QED
      BY <3>4, <3>5
  <2>4. grant # NoGrant => Coherent(grant') /\ Entitled'
    <3>1. SUFFICES ASSUME grant # NoGrant PROVE Coherent(grant') /\ Entitled'
      OBVIOUS
    <3> DEFINE before == Vested(grant, Smaller(now, grant.revokedAt))
               after  == Vested(grant, Smaller(now', grant.revokedAt))
    <3>2. /\ grant \in Grants /\ Coherent(grant) /\ Entitled
          /\ grant.revokedAt \in Nat /\ grant.claimed \in Nat /\ grant.total \in Nat
      BY <3>1, Types
    <3>3. now' \in 0..U64Max
      BY <1>3 DEF LedgerTypeOK
    <3>4. /\ Smaller(now, grant.revokedAt) \in Nat /\ Smaller(now', grant.revokedAt) \in Nat
          /\ Smaller(now, grant.revokedAt) <= Smaller(now', grant.revokedAt)
      BY <1>2, <1>3, <3>2, <3>3 DEF Smaller
    <3>5. before <= after /\ before \in 0..grant.total /\ after \in 0..grant.total
      BY <3>2, <3>4, VestedGrows, VestedBounded
    <3>6. grant.claimed <= before
      BY <3>2 DEF Entitled
    <3>7. grant.claimed <= after
      BY <3>2, <3>5, <3>6
    <3>8. IsRevoked(grant) => grant.revokedAt <= now'
      BY <1>2, <1>3, <3>2, <3>3 DEF Entitled
    <3>9. QED
      BY <1>1, <3>2, <3>7, <3>8 DEF Entitled
  <2>5. QED
    BY <1>1, <2>1, <2>2, <2>3, <2>4 DEF IInv
<1>4. CASE CloseLedger
  <2>1. now' \in 0..U64Max /\ now <= now' /\ UNCHANGED <<balance, frozen, strays>>
    BY <1>2, <1>4 DEF CloseLedger
  <2>2. QED
    BY <1>2, <1>3, <2>1 DEF LedgerTypeOK
<1>5. CASE SetFrozen
  <2>1. frozen' \in SUBSET Freezable /\ UNCHANGED <<now, balance, strays>>
    BY <1>5 DEF SetFrozen
  <2>2. QED
    BY <1>2, <1>3, <2>1 DEF LedgerTypeOK
<1>6. CASE Stray
  <2>1. PICK from \in Signers :
            /\ TransferReply(balance, from, Self, 1) = "Ok"
            /\ balance' = Transferred(balance, from, Self, 1)
            /\ strays' = strays + 1
            /\ UNCHANGED <<now, frozen>>
    BY <1>6 DEF Stray
  <2>2. 1 \in 0..balance[from] /\ from \in Holders /\ from # Self
    BY <1>2, <2>1, TransferAccepted
  <2>3. balance' \in [Holders -> Nat] /\ balance'[Self] = balance[Self] + 1
    <3>1. balance[Self] \in Nat
      BY <1>2
    <3>2. QED
      BY <1>2, <2>1, <2>2, <3>1, TransferMoves
  <2>4. balance[Self] \in Nat /\ balance'[Self] \in Nat
    BY <1>2, <2>3
  <2>5. QED
    BY <1>2, <1>3, <2>1, <2>3, <2>4 DEF LedgerTypeOK
<1>7. QED
  BY <1>4, <1>5, <1>6 DEF LedgerNext

\* One step per disjunct of the next-state relation.
LEMMA StepKeeps == IInv /\ [Next]_vars => IInv'
<1> SUFFICES ASSUME IInv, [Next]_vars PROVE IInv'
  OBVIOUS
<1>1. ASSUME NEW signer \in Signers, Creates(signer) PROVE IInv'
  BY <1>1, CreateKeeps DEF Creates
<1>2. ASSUME NEW signer \in Signers, Claim(signer) PROVE IInv'
  BY <1>2, ClaimKeeps
<1>3. ASSUME NEW signer \in Signers, Revoke(signer) PROVE IInv'
  BY <1>3, RevokeKeeps
<1>4. CASE LedgerNext /\ UNCHANGED contractVars
  BY <1>4, LedgerKeeps
<1>5. CASE UNCHANGED vars
  <2>1. /\ UNCHANGED <<now, balance, frozen, strays>>
        /\ UNCHANGED <<grant, flows, signedBy>>
    BY <1>5 DEF vars, ledgerVars, contractVars
  <2>2. TypeOK'
    BY <2>1 DEF IInv, TypeOK, LedgerTypeOK
  <2>3. (grant # NoGrant => Coherent(grant) /\ Entitled)'
    BY <2>1 DEF IInv, Entitled
  <2>4. Moved' /\ Holding'
    BY <2>1 DEF IInv, Moved, Holding, Stranded
  <2>5. QED
    BY <2>2, <2>3, <2>4 DEF IInv
<1>6. QED
  BY <1>1, <1>2, <1>3, <1>4, <1>5 DEF Next, Calls

\* The invariant holds in every reachable state.
THEOREM Invariance == Spec => []IInv
<1>1. Init => IInv
  BY InitEstablishes
<1>2. IInv /\ [Next]_vars => IInv'
  BY StepKeeps
<1>3. QED
  BY <1>1, <1>2, PTL DEF Spec

-----------------------------------------------------------------------------
(* What the invariant gives.                                               *)

\* remaining() of a record that has paid out no more than its total.
LEMMA RemainingIsDifference ==
    ASSUME NEW g \in Grants, g.claimed + g.returned <= g.total
    PROVE  Remaining(g) = Ok(g.total - g.claimed - g.returned)
<1>1. /\ g.total \in Nat /\ g.total <= I128Max /\ I128Max \in Nat
      /\ g.claimed \in Nat /\ g.returned \in Nat
  BY I128MaxAssumption DEF Grants
<1>2. g.total - g.claimed \in I128 /\ g.total - g.claimed - g.returned \in I128
  BY <1>1 DEF I128
<1>3. QED
  BY <1>2 DEF Remaining, Sub, Checked, Ok

\* What remaining() returns while the invariant holds.
LEMMA RemainingIsLeft ==
    ASSUME IInv, grant # NoGrant
    PROVE  /\ Remaining(grant) = Ok(grant.total - grant.claimed - grant.returned)
           /\ grant.total - grant.claimed - grant.returned \in 0..grant.total
<1> DEFINE v == Vested(grant, Smaller(now, grant.revokedAt))
<1>1. /\ grant \in Grants /\ Coherent(grant) /\ Entitled
      /\ now \in Nat /\ I128Max \in Nat /\ grant.revokedAt \in Nat
      /\ grant.total \in Nat /\ grant.total <= I128Max
      /\ grant.claimed \in Nat /\ grant.returned \in Nat
  BY Types
<1>2. v \in 0..grant.total /\ grant.claimed <= v
  <2>1. Smaller(now, grant.revokedAt) \in Nat
    BY <1>1 DEF Smaller
  <2>2. QED
    BY <1>1, <2>1, VestedBounded DEF Entitled
<1>3. IsRevoked(grant) => grant.returned = grant.total - v
  BY <1>1 DEF Entitled, Smaller
<1>4. grant.claimed + grant.returned <= grant.total
  <2>1. CASE IsRevoked(grant)
    <3>1. grant.returned = grant.total - v
      BY <1>3, <2>1
    <3> HIDE DEF v
    <3>2. QED
      BY <1>1, <1>2, <3>1
  <2>2. CASE ~IsRevoked(grant)
    <3>1. grant.returned = 0
      BY <1>1, <2>2 DEF Entitled
    <3> HIDE DEF v
    <3>2. QED
      BY <1>1, <1>2, <3>1
  <2>3. QED
    BY <2>1, <2>2
<1>5. QED
  BY <1>1, <1>4, RemainingIsDifference

\* The types of all variables (contracts/vesting/src/types.rs).
THEOREM TypeCorrect == Spec => []TypeOK
<1>1. IInv => TypeOK
  BY DEF IInv
<1>2. QED
  BY <1>1, Invariance, PTL

\* The record tells what the token moved, and the contract holds the rest.
THEOREM ConservationHolds == Spec => []Conservation
<1>1. IInv => Conservation
  <2> SUFFICES ASSUME IInv PROVE Conservation
    OBVIOUS
  <2>1. grant # NoGrant =>
            /\ Remaining(grant).err = "Ok"
            /\ Remaining(grant).val = grant.total - grant.claimed - grant.returned
    BY RemainingIsLeft DEF Ok
  <2>2. QED
    BY <2>1 DEF IInv, Moved, Holding, Conservation
<1>2. QED
  BY <1>1, Invariance, PTL


\* What is claimable from now on is part of what is left, and all of it after
\* a revocation or from the end on.
LEMMA ClaimableIsLeft ==
    ASSUME IInv, grant # NoGrant, NEW t \in Nat, now <= t, t <= U64Max
    PROVE  LET e == Smaller(t, grant.revokedAt)
               c == Vested(grant, e) - grant.claimed
               r == grant.total - grant.claimed - grant.returned
           IN  /\ c \in 0..r
               /\ Remaining(grant) = Ok(r)
               /\ IsRevoked(grant) \/ t >= EndAt(grant) =>
                      c = r /\ ClaimableAt(grant, t) = Ok(c)
               /\ ClaimableAt(grant, t) \in {Ok(c), Err("Overflow")}
<1> DEFINE e == Smaller(t, grant.revokedAt)
           v == Vested(grant, e)
           c == v - grant.claimed
           r == grant.total - grant.claimed - grant.returned
<1>1. /\ grant \in Grants /\ Coherent(grant) /\ Entitled
      /\ now \in Nat /\ U64Max \in Nat /\ grant.revokedAt \in Nat
      /\ grant.total \in Nat /\ grant.claimed \in Nat /\ grant.returned \in Nat
  BY Types
<1>2. EndAt(grant) = grant.start + grant.duration /\ EndAt(grant) \in Nat
      /\ grant.start + grant.cliff <= EndAt(grant)
      /\ grant.start \in Nat /\ grant.cliff \in Nat
  BY <1>1, GrantTypes
<1>3. e \in Nat /\ v \in 0..grant.total /\ c \in Nat
      /\ \/ Fits(grant, e) /\ ClaimableAt(grant, t) = Ok(c)
         \/ /\ ~Fits(grant, e) /\ ~IsRevoked(grant)
            /\ ClaimableAt(grant, t) = Err("Overflow")
  BY <1>1, ClaimableIsVested
<1>4. Remaining(grant) = Ok(r)
  BY RemainingIsLeft
<1>5. ASSUME IsRevoked(grant) PROVE c = r /\ ClaimableAt(grant, t) = Ok(c)
  <2>1. e = grant.revokedAt /\ grant.returned = grant.total - Vested(grant, grant.revokedAt)
    BY <1>1, <1>5 DEF Entitled, Smaller
  <2>2. grant.returned = grant.total - v
    BY <2>1
  <2> HIDE DEF e, v
  <2>3. c = r
    BY <1>1, <1>3, <2>2
  <2>4. QED
    BY <1>3, <1>5, <2>3
<1>6. ASSUME ~IsRevoked(grant) PROVE e = t /\ grant.returned = 0
  BY <1>1, <1>6 DEF Entitled, IsRevoked, Never, Smaller
<1>7. ASSUME ~IsRevoked(grant), t >= EndAt(grant)
      PROVE  c = r /\ ClaimableAt(grant, t) = Ok(c)
  <2>1. v = grant.total
    BY <1>2, <1>6, <1>7 DEF Vested
  <2>2. Fits(grant, e)
    BY <1>1, <1>2, <1>6, <1>7, PlannedIsVested
  <2> HIDE DEF e, v
  <2>3. c = r
    BY <1>1, <1>3, <1>6, <1>7, <2>1
  <2>4. QED
    BY <1>3, <2>2, <2>3
<1>8. c \in 0..r
  <2>1. CASE IsRevoked(grant)
    BY <1>3, <1>5, <2>1
  <2>2. CASE ~IsRevoked(grant)
    <3>1. grant.returned = 0
      BY <1>6, <2>2
    <3> HIDE DEF v
    <3>2. QED
      BY <1>1, <1>3, <3>1
  <2>3. QED
    BY <2>1, <2>2
<1> HIDE DEF e, v, c, r
<1>9. IsRevoked(grant) \/ t >= EndAt(grant) => c = r /\ ClaimableAt(grant, t) = Ok(c)
  BY <1>5, <1>7
<1>10. ClaimableAt(grant, t) \in {Ok(c), Err("Overflow")}
  BY <1>3
<1>11. QED
  BY <1>4, <1>8, <1>9, <1>10 DEF e, v, c, r

\* What is claimable is held, never goes back, and is all that is left once
\* the schedule has ended or the grant is revoked.
THEOREM ClaimableHolds == Spec => []ClaimableIsHeld
<1>1. IInv => ClaimableIsHeld
  <2> SUFFICES ASSUME IInv, grant # NoGrant PROVE ClaimableIsHeld
    BY DEF ClaimableIsHeld
  <2> DEFINE e(t) == Smaller(t, grant.revokedAt)
             v(t) == Vested(grant, e(t))
             c(t) == v(t) - grant.claimed
             r    == grant.total - grant.claimed - grant.returned
  <2>1. /\ grant \in Grants /\ Coherent(grant) /\ now \in Nat /\ U64Max \in Nat
        /\ grant.revokedAt \in Nat /\ grant.claimed \in Nat /\ grant.total \in Nat
        /\ grant.returned \in Nat
    BY Types
  <2>2. Remaining(grant).val = r /\ r \in Nat
    BY <2>1, RemainingIsLeft DEF Ok
  <2>3. ASSUME NEW t \in now..U64Max
        PROVE  /\ ClaimableAt(grant, t).err \in {"Ok", "Overflow"}
               /\ ClaimableAt(grant, t).val \in 0..r
               /\ ClaimableAt(grant, t).err = "Ok" => ClaimableAt(grant, t).val = c(t)
               /\ ClaimableAt(grant, t).val \in {0, c(t)}
               /\ c(t) \in 0..r
               /\ IsRevoked(grant) \/ t >= EndAt(grant) => ClaimableAt(grant, t) = Ok(r)
    <3>1. t \in Nat /\ now <= t /\ t <= U64Max
      BY <2>1
    <3>2. /\ c(t) \in 0..r
          /\ IsRevoked(grant) \/ t >= EndAt(grant) =>
                 c(t) = r /\ ClaimableAt(grant, t) = Ok(c(t))
          /\ ClaimableAt(grant, t) \in {Ok(c(t)), Err("Overflow")}
      BY <3>1, ClaimableIsLeft
    <3> HIDE DEF c, r
    <3>3. QED
      BY <2>2, <3>2 DEF Ok, Err
  <2>4. ASSUME NEW t \in now..U64Max, NEW u \in t..U64Max,
               ClaimableAt(grant, u).err = "Ok"
        PROVE  ClaimableAt(grant, t).val <= ClaimableAt(grant, u).val
    <3>1. t \in Nat /\ u \in Nat /\ t <= u /\ u \in now..U64Max
      BY <2>1
    <3>2. e(t) \in Nat /\ e(u) \in Nat /\ e(t) <= e(u)
      BY <2>1, <3>1 DEF Smaller
    <3>3. v(t) <= v(u) /\ v(t) \in 0..grant.total /\ v(u) \in 0..grant.total
      BY <2>1, <3>2, VestedGrows, VestedBounded
    <3>4. c(t) \in 0..r /\ c(u) \in 0..r
          /\ ClaimableAt(grant, t).val \in {0, c(t)} /\ ClaimableAt(grant, u).val = c(u)
      BY <2>3, <2>4, <3>1
    <3> HIDE DEF v, r
    <3>5. QED
      BY <2>1, <2>2, <3>3, <3>4
  <2> HIDE DEF c, r
  <2>5. QED
    BY <2>2, <2>3, <2>4 DEF ClaimableIsHeld
<1>2. QED
  BY <1>1, Invariance, PTL

-----------------------------------------------------------------------------

\* What has vested against the exact proportion: less than one unit below it.
LEMMA VestedIsProportional ==
    ASSUME NEW g \in Grants, Coherent(g), NEW at \in Nat
    PROVE  LET elapsed == Smaller(at - g.start, g.duration)
               exact   == IF at < CliffAt(g) THEN 0 ELSE g.total * elapsed
           IN  /\ Vested(g, at) * g.duration <= exact
               /\ exact < (Vested(g, at) + 1) * g.duration
<1>1. /\ g.total \in Nat /\ g.start \in Nat /\ g.cliff \in Nat /\ g.duration \in Nat
      /\ g.duration > 0 /\ g.cliff <= g.duration
      /\ CliffAt(g) = g.start + g.cliff
  BY GrantTypes
<1>2. Vested(g, at) \in Nat
  BY <1>1, VestedBounded
<1>3. (Vested(g, at) + 1) * g.duration = Vested(g, at) * g.duration + g.duration
  <2>1. ASSUME NEW n \in Nat, NEW d \in Nat PROVE (n + 1) * d = n * d + d
    OBVIOUS
  <2>2. QED
    BY <1>1, <1>2, <2>1
<1>4. CASE at < g.start + g.cliff
  <2>1. Vested(g, at) = 0
    BY <1>4 DEF Vested
  <2>2. 0 * g.duration = 0 /\ 0 + g.duration = g.duration
    BY <1>1
  <2>3. QED
    BY <1>1, <1>3, <1>4, <2>1, <2>2
<1>5. CASE at >= g.start + g.cliff /\ at < g.start + g.duration
  <2>1. Smaller(at - g.start, g.duration) = at - g.start
    BY <1>1, <1>5 DEF Smaller
  <2>2. ~(at < CliffAt(g))
    BY <1>1, <1>5
  <2>3. /\ Vested(g, at) * g.duration <= g.total * (at - g.start)
        /\ g.total * (at - g.start) < Vested(g, at) * g.duration + g.duration
    BY <1>5, VestedShare
  <2>4. QED
    BY <1>3, <2>1, <2>2, <2>3
<1>6. CASE ~(at < g.start + g.cliff) /\ at >= g.start + g.duration
  <2>1. Smaller(at - g.start, g.duration) = g.duration
    BY <1>1, <1>6 DEF Smaller
  <2>2. Vested(g, at) = g.total
    BY <1>6 DEF Vested
  <2>3. ~(at < CliffAt(g))
    BY <1>1, <1>6
  <2>4. PICK p \in Nat : p = g.total * g.duration
    BY <1>1, SMT
  <2>5. QED
    BY <1>1, <1>3, <2>1, <2>2, <2>3, <2>4
<1>7. QED
  BY <1>1, <1>4, <1>5, <1>6

\* Nobody is paid more than the exact proportion gives.
THEOREM ProportionHolds == Spec => []PaysTheProportion
<1>1. IInv => PaysTheProportion
  <2> SUFFICES ASSUME IInv, grant # NoGrant PROVE PaysTheProportion
    BY DEF PaysTheProportion
  <2> DEFINE t       == Smaller(now, grant.revokedAt)
             elapsed == Smaller(t - grant.start, grant.duration)
             exact   == IF t < CliffAt(grant) THEN 0 ELSE grant.total * elapsed
             v       == Vested(grant, t)
  <2>1. /\ grant \in Grants /\ Coherent(grant) /\ Entitled
        /\ now \in Nat /\ grant.revokedAt \in Nat /\ grant.claimed \in Nat
        /\ grant.total \in Nat
    BY Types
  <2>2. t \in Nat
    BY <2>1 DEF Smaller
  <2>3. v * grant.duration <= exact /\ exact < (v + 1) * grant.duration
    BY <2>1, <2>2, VestedIsProportional
  <2>4. v \in 0..grant.total /\ grant.claimed <= v
    BY <2>1, <2>2, VestedBounded DEF Entitled
  <2>5. grant.duration \in Nat /\ grant.start \in Nat
    BY <2>1, GrantTypes
  <2>6. exact \in Int
    <3>1. elapsed \in Int
      BY <2>2, <2>5 DEF Smaller
    <3> HIDE DEF elapsed
    <3>2. QED
      BY <2>1, <3>1
  <2>7. flows.toBeneficiary = grant.claimed /\ flows.toGrantor = grant.returned
    BY DEF IInv, Moved
  <2>8. IsRevoked(grant) => grant.total - grant.returned = v
    <3>1. IsRevoked(grant) => t = grant.revokedAt
                              /\ grant.returned = grant.total - Vested(grant, grant.revokedAt)
      BY <2>1 DEF Entitled, Smaller
    <3>2. IsRevoked(grant) => grant.returned = grant.total - v
      BY <3>1
    <3> HIDE DEF v
    <3>3. QED
      BY <2>1, <2>4, <3>2
  <2> HIDE DEF exact, v, t
  <2>9. grant.claimed * grant.duration <= exact
    <3>1. grant.duration * grant.claimed <= grant.duration * v
      BY <2>1, <2>4, <2>5, ProductMonotone
    <3>2. /\ grant.duration * grant.claimed = grant.claimed * grant.duration
          /\ grant.duration * v = v * grant.duration
          /\ grant.claimed * grant.duration \in Int /\ v * grant.duration \in Int
      BY <2>1, <2>4, <2>5
    <3>3. QED
      BY <2>3, <2>6, <3>1, <3>2
  <2>10. IsRevoked(grant) =>
             /\ (grant.total - flows.toGrantor) * grant.duration <= exact
             /\ exact < (grant.total - flows.toGrantor + 1) * grant.duration
    BY <2>3, <2>7, <2>8
  <2>11. QED
    BY <2>7, <2>9, <2>10 DEF PaysTheProportion, exact, t
<1>2. QED
  BY <1>1, Invariance, PTL


-----------------------------------------------------------------------------

\* The contract holds at least what is left of the grant.
LEMMA LeftIsCovered ==
    ASSUME IInv, grant # NoGrant
    PROVE  grant.total - grant.claimed - grant.returned <= balance[Self]
<1>1. /\ grant.total \in Nat /\ grant.claimed \in Nat /\ grant.returned \in Nat
      /\ strays \in Nat /\ balance[Self] \in Nat
  BY Types
<1>2. Stranded \in Nat
  BY DEF IInv, TypeOK, Stranded
<1>3. balance[Self] = grant.total - grant.claimed - grant.returned + strays + Stranded
  BY DEF IInv, Holding
<1>4. QED
  BY <1>1, <1>2, <1>3

\* No grant locks its tokens: whatever is left can be claimed at the end, and
\* only its own overflow delays a revocation.
THEOREM LocksNothing == Spec => []NeverLocked
<1>1. IInv => NeverLocked
  <2> SUFFICES ASSUME IInv, grant # NoGrant, frozen = {} PROVE NeverLocked
    BY DEF NeverLocked
  <2> DEFINE e == Smaller(now, grant.revokedAt)
             v == Vested(grant, e)
             c == v - grant.claimed
             r == grant.total - grant.claimed - grant.returned
  <2>1. /\ grant \in Grants /\ Coherent(grant) /\ Entitled
        /\ now \in Nat /\ now <= U64Max /\ U64Max \in Nat /\ now <= now
        /\ grant.revokedAt \in Nat /\ grant.claimed \in Nat /\ grant.total \in Nat
        /\ grant.returned \in Nat /\ grant.total <= I128Max /\ I128Max \in Nat
        /\ balance[Self] \in Nat
    BY Types
  <2>2. /\ grant.start \in Nat /\ grant.cliff \in Nat /\ grant.duration \in Nat
        /\ grant.cliff <= grant.duration
        /\ CliffAt(grant) = grant.start + grant.cliff
        /\ EndAt(grant) = grant.start + grant.duration
    BY <2>1, GrantTypes
  <2>3. Remaining(grant).val = r /\ r <= balance[Self] /\ r \in Int
    BY <2>1, RemainingIsLeft, LeftIsCovered DEF Ok
  <2>4. e \in Nat /\ v \in 0..grant.total
    BY <2>1, ClaimableIsVested
  <2>5. ASSUME IsRevoked(grant) \/ now >= EndAt(grant), Remaining(grant).val > 0,
               NEW s \in Signers, s = grant.beneficiary
        PROVE  ClaimReply(s) = "Ok"
    <3>1. Claimable = Ok(c) /\ c = r
      BY <2>1, <2>5, ClaimableIsLeft DEF Claimable
    <3>2. Claimable.err = "Ok" /\ Claimable.val = c /\ c > 0 /\ c = r
      BY <2>3, <2>5, <3>1 DEF Ok
    <3>3. e >= CliffAt(grant)
      <4>1. SUFFICES ASSUME e < grant.start + grant.cliff PROVE FALSE
        BY <2>2, <2>4
      <4>2. v = 0
        BY <4>1 DEF Vested
      <4> HIDE DEF v
      <4>3. QED
        BY <2>1, <3>2, <4>2
    <3>4. Add(grant.claimed, c).err = "Ok"
      <4> HIDE DEF v
      <4>1. grant.claimed + c \in I128
        BY <2>1, <2>4 DEF I128
      <4>2. QED
        BY <4>1 DEF Add, Checked, Ok
    <3>5. TransferReply(balance, Self, grant.beneficiary, c) = "Ok"
      <4>1. c \in 0..balance[Self]
        <5> HIDE DEF c, r
        <5>1. QED
          BY <2>1, <2>3, <3>2
      <4>2. QED
        BY <4>1 DEF TransferReply
    <3> HIDE DEF e, c
    <3>6. QED
      BY <2>5, <3>2, <3>3, <3>4, <3>5
      DEF ClaimReply, Load, Require, RequireAuth, ??, e
  <2>6. ASSUME grant.revocable, ~IsRevoked(grant)
        PROVE  \/ RevokeReply(grant.grantor) = "Ok"
               \/ /\ RevokeReply(grant.grantor) = "Overflow"
                  /\ now \in (grant.start + grant.cliff)..(grant.start + grant.duration - 1)
                  /\ grant.total * (now - grant.start) > I128Max
    <3>1. e = now
      BY <2>1, <2>6 DEF IsRevoked, Never, Smaller
    <3>2. VestedAmount(grant, now) = PlannedVested(grant, now)
      BY <3>1 DEF VestedAmount
    <3>3. CASE ~Fits(grant, now)
      <4>1. /\ VestedAmount(grant, now).err = "Overflow"
            /\ now >= grant.start + grant.cliff /\ now < grant.start + grant.duration
            /\ grant.total * (now - grant.start) > I128Max
        BY <2>1, <3>2, <3>3, PlannedIsVested DEF Err
      <4>2. RevokeReply(grant.grantor) = "Overflow"
        BY <2>6, <4>1 DEF RevokeReply, Load, Require, RequireAuth, ??
      <4>3. QED
        BY <2>1, <2>2, <4>1, <4>2
    <3>4. CASE Fits(grant, now)
      <4>1. VestedAmount(grant, now) = Ok(v)
        BY <2>1, <3>1, <3>2, <3>4, PlannedIsVested
      <4>2. VestedAmount(grant, now).err = "Ok" /\ VestedAmount(grant, now).val = v
        BY <4>1 DEF Ok
      <4>3. grant.claimed <= v /\ grant.returned = 0
        BY <2>1, <2>6 DEF Entitled
      <4> HIDE DEF v, e
      <4>4. grant.total - v \in I128 /\ v - grant.claimed \in I128
        BY <2>1, <2>4, <4>3 DEF I128
      <4>5. Unvested.err = "Ok" /\ Unvested.val = grant.total - v
        BY <4>2, <4>4 DEF Unvested, Sub, Checked, Ok
      <4>6. Sub(VestedAmount(grant, now).val, grant.claimed).err = "Ok"
        BY <4>2, <4>4 DEF Sub, Checked, Ok
      <4>7. TransferReply(balance, Self, grant.grantor, grant.total - v) = "Ok"
        <5>1. grant.total - v \in 0..balance[Self]
          BY <2>1, <2>3, <2>4, <4>3
        <5>2. QED
          BY <5>1 DEF TransferReply
      <4>8. RevokeReply(grant.grantor) = "Ok"
        BY <2>6, <4>2, <4>5, <4>6, <4>7 DEF RevokeReply, Load, Require, RequireAuth, ??
      <4>9. QED
        BY <4>8
    <3>5. QED
      BY <3>3, <3>4
  <2> HIDE DEF e, v, c, r
  <2>7. QED
    BY <2>5, <2>6 DEF NeverLocked
<1>2. QED
  BY <1>1, Invariance, PTL


-----------------------------------------------------------------------------

\* What has vested is the beneficiary's: no step takes it back, and a
\* revocation returns exactly what has not vested.
THEOREM KeptHolds == Spec => VestedIsKept
<1>1. IInv /\ [Next]_vars => [Kept]_vars
  <2> SUFFICES ASSUME IInv, [Next]_vars, grant # NoGrant PROVE Kept
    BY DEF Kept
  <2> USE DEF Kept
  <2>1. /\ grant \in Grants /\ Coherent(grant) /\ now \in Nat /\ now <= U64Max
        /\ U64Max \in Nat /\ grant.revokedAt \in Nat
    BY Types
  <2>2. flows = [pulled |-> grant.total, toBeneficiary |-> grant.claimed,
                 toGrantor |-> grant.returned]
    BY DEF IInv, Moved
  <2>3. CASE grant' = grant /\ flows' = flows
    BY <2>3
  <2>4. ASSUME NEW signer \in Signers, Claim(signer) PROVE Kept
    <3> DEFINE v == Vested(grant, Smaller(now, grant.revokedAt))
    <3>1. /\ signer = grant.beneficiary /\ signedBy' = signer
          /\ VestedAmount(grant, now) = Ok(v)
          /\ grant' = [grant EXCEPT !.claimed = v]
          /\ flows' = [flows EXCEPT !.toBeneficiary = v]
      BY <2>4, ClaimFacts
    <3> HIDE DEF v
    <3>2. VestedAmount(grant, now).val = v
      BY <3>1 DEF Ok
    <3>3. /\ grant'.revokedAt = grant.revokedAt /\ grant'.total = grant.total
          /\ grant'.start = grant.start /\ grant'.cliff = grant.cliff
          /\ grant'.duration = grant.duration
      BY <2>1, <3>1 DEF Grants
    <3>4. flows'.toBeneficiary = v /\ flows'.toGrantor = flows.toGrantor
      BY <2>2, <3>1
    <3>5. \A t : VestedAmount(grant', t) = VestedAmount(grant, t)
      BY <3>3, ScheduleReadsTerms DEF VestedAmount
    <3>6. IsRevoked(grant') = IsRevoked(grant)
      BY <3>3 DEF IsRevoked
    <3>7. QED
      BY <3>1, <3>2, <3>3, <3>4, <3>5, <3>6
  <2>5. ASSUME NEW signer \in Signers, Revoke(signer) PROVE Kept
    <3> DEFINE v == Vested(grant, now)
    <3>1. /\ ~IsRevoked(grant) /\ grant.revocable
          /\ signer = grant.grantor /\ signedBy' = signer
          /\ VestedAmount(grant, now) = Ok(v)
          /\ grant' = [grant EXCEPT !.revokedAt = now, !.returned = grant.total - v]
          /\ flows' = [flows EXCEPT !.toGrantor = grant.total - v]
      BY <2>5, RevokeFacts
    <3> HIDE DEF v
    <3>2. VestedAmount(grant, now).val = v
      BY <3>1 DEF Ok
    <3>3. /\ grant'.revokedAt = now /\ grant'.total = grant.total
          /\ grant'.start = grant.start /\ grant'.cliff = grant.cliff
          /\ grant'.duration = grant.duration
      BY <2>1, <3>1 DEF Grants
    <3>4. flows'.toBeneficiary = flows.toBeneficiary /\ flows'.toGrantor = grant.total - v
      BY <2>2, <3>1
    <3>5. IsRevoked(grant') /\ grant.revokedAt = Never
      BY <2>1, <3>1, <3>3 DEF IsRevoked, Never
    <3>6. ASSUME NEW t \in 0..U64Max
          PROVE  VestedAmount(grant', t) = VestedAmount(grant, Smaller(t, now))
      <4>1. Smaller(t, grant'.revokedAt) = Smaller(Smaller(t, now), grant.revokedAt)
        BY <2>1, <3>3, <3>5 DEF Smaller, Never
      <4>2. QED
        BY <3>3, <4>1, ScheduleReadsTerms DEF VestedAmount
    <3>7. QED
      BY <3>1, <3>2, <3>4, <3>5, <3>6
  <2>6. CASE UNCHANGED contractVars
    BY <2>3, <2>6 DEF contractVars
  <2>7. QED
    BY <2>4, <2>5, <2>6 DEF Next, Calls, Creates, vars
<1>2. QED
  BY <1>1, Invariance, PTL DEF Spec, VestedIsKept

\* A funded grant stays stored: its total is in the token's history.
LEMMA StaysStored ==
    ASSUME IInv, IInv', grant # NoGrant, flows'.pulled = flows.pulled
    PROVE  grant' # NoGrant
<1>1. flows.pulled = grant.total /\ grant.total > 0
  BY Types DEF IInv, Moved, Grants
<1>2. grant' = NoGrant => flows'.pulled = 0
  BY DEF IInv, Moved
<1>3. grant.total \in Nat
  BY Types
<1>4. QED
  BY <1>1, <1>2, <1>3

\* The grant implements Custody.
THEOREM Refinement == Spec => ImplementsCustody
<1>1. Init => Custody!Init
  BY DEF Init, Custody!Init
<1>2. IInv /\ IInv' /\ [Next]_vars => [Custody!Next]_Custody!custodyVars
  <2> SUFFICES ASSUME IInv, IInv', [Next]_vars
               PROVE  Custody!Next \/ UNCHANGED Custody!custodyVars
    OBVIOUS
  <2>1. CASE UNCHANGED contractVars
    BY <2>1 DEF contractVars, Custody!custodyVars, IsRevoked, Remaining
  <2>2. ASSUME NEW signer \in Signers, Creates(signer) PROVE Custody!Pull
    <3>1. PICK total \in Amounts, grantor \in Holders, beneficiary \in Holders,
               start \in 0..U64Max, cliff \in 0..U64Max, duration \in 0..U64Max,
               revocable \in BOOLEAN :
              Create(signer, grantor, beneficiary, total, start, cliff, duration, revocable)
      BY <2>2 DEF Creates
    <3>2. grant = NoGrant /\ total > 0 /\ total \in Int
      <4>1. grant = NoGrant /\ total > 0
        BY <3>1 DEF Create, CreateReply, Require, RequireAuth, ??
      <4>2. QED
        BY <4>1, VestingAssumption DEF I128
    <3>3. flows = [pulled |-> 0, toBeneficiary |-> 0, toGrantor |-> 0]
      BY <3>2 DEF IInv, Moved
    <3>4. /\ grant'.revokedAt = Never
          /\ flows' = [flows EXCEPT !.pulled = @ + total]
      BY <3>1 DEF Create
    <3>5. /\ flows'.pulled = total /\ flows.pulled = 0
          /\ flows'.toBeneficiary = flows.toBeneficiary
          /\ flows'.toGrantor = flows.toGrantor
      BY <3>2, <3>3, <3>4
    <3>6. ~IsRevoked(grant')
      BY <3>4 DEF IsRevoked
    <3>7. QED
      BY <3>2, <3>5, <3>6 DEF Custody!Pull
  <2>3. ASSUME NEW signer \in Signers, Claim(signer)
        PROVE  Custody!Pay \/ UNCHANGED Custody!custodyVars
    <3> DEFINE v == Vested(grant, Smaller(now, grant.revokedAt))
    <3>1. /\ grant # NoGrant /\ v \in 0..grant.total
          /\ v - grant.claimed \in Nat /\ v - grant.claimed > 0
          /\ grant' = [grant EXCEPT !.claimed = v]
          /\ flows' = [flows EXCEPT !.toBeneficiary = v]
      BY <2>3, ClaimFacts, Zenon DEF Claimable
    <3> HIDE DEF v
    <3>2. /\ grant \in Grants /\ grant.total \in Nat /\ grant.claimed \in Nat
          /\ grant.returned \in Nat /\ Entitled
          /\ flows = [pulled |-> grant.total, toBeneficiary |-> grant.claimed,
                      toGrantor |-> grant.returned]
      BY <3>1, Types DEF IInv, Moved
    <3>3. /\ grant'.claimed = v /\ grant'.total = grant.total
          /\ grant'.returned = grant.returned /\ grant'.revokedAt = grant.revokedAt
      BY <3>1, <3>2 DEF Grants
    <3>4. /\ flows'.pulled = flows.pulled /\ flows'.toGrantor = flows.toGrantor
          /\ flows'.toBeneficiary = v
      BY <3>1, <3>2
    <3>5. grant' # NoGrant
      BY <3>1, <3>4, StaysStored
    <3>6. IsRevoked(grant') = IsRevoked(grant)
      BY <3>3 DEF IsRevoked
    <3>7. /\ Remaining(grant).val = grant.total - grant.claimed - grant.returned
          /\ Remaining(grant').val = grant'.total - grant'.claimed - grant'.returned
      <4>1. Remaining(grant).val = grant.total - grant.claimed - grant.returned
        BY <3>1, RemainingIsLeft DEF Ok
      <4>2. grant' \in Grants
        BY <3>5 DEF IInv, TypeOK
      <4>3. v + grant.returned <= grant.total
        <5>1. CASE IsRevoked(grant)
          <6>1. /\ grant.returned = grant.total - Vested(grant, grant.revokedAt)
                /\ Smaller(now, grant.revokedAt) = grant.revokedAt
            BY <3>2, <5>1, Types DEF Entitled, Smaller
          <6>2. grant.returned = grant.total - v
            BY <6>1 DEF v
          <6>3. QED
            BY <3>1, <3>2, <6>2
        <5>2. CASE ~IsRevoked(grant)
          BY <3>1, <3>2, <5>2 DEF Entitled
        <5>3. QED
          BY <5>1, <5>2
      <4>4. Remaining(grant') = Ok(grant'.total - grant'.claimed - grant'.returned)
        BY <3>3, <4>2, <4>3, RemainingIsDifference
      <4>5. QED
        BY <4>1, <4>4 DEF Ok
    <3>8. CASE IsRevoked(grant)
      <4>1. flows'.toBeneficiary + Remaining(grant').val
                = flows.toBeneficiary + Remaining(grant).val
        BY <3>1, <3>2, <3>3, <3>4, <3>7
      <4>2. QED
        BY <3>1, <3>4, <3>5, <3>6, <3>8, <4>1 DEF Custody!custodyVars
    <3>9. CASE ~IsRevoked(grant)
      <4>1. grant.returned = 0
        BY <3>2, <3>9 DEF Entitled
      <4>2. Custody!Pay
        BY <3>1, <3>2, <3>4, <3>6, <3>9, <4>1 DEF Custody!Pay, Custody!Left
      <4>3. QED
        BY <4>2
    <3>10. QED
      BY <3>8, <3>9
  <2>4. ASSUME NEW signer \in Signers, Revoke(signer) PROVE Custody!Close
    <3> DEFINE v == Vested(grant, now)
    <3>1. /\ grant # NoGrant /\ ~IsRevoked(grant) /\ v \in 0..grant.total
          /\ grant' = [grant EXCEPT !.revokedAt = now, !.returned = grant.total - v]
          /\ flows' = [flows EXCEPT !.toGrantor = grant.total - v]
      BY <2>4, RevokeFacts
    <3>2. /\ grant \in Grants /\ grant.total \in Nat /\ grant.claimed \in Nat
          /\ grant.returned = 0 /\ grant.claimed <= v
          /\ now \in Nat /\ now <= U64Max /\ U64Max \in Nat
          /\ flows = [pulled |-> grant.total, toBeneficiary |-> grant.claimed,
                      toGrantor |-> 0]
      <4>1. /\ grant \in Grants /\ grant.total \in Nat /\ grant.claimed \in Nat
            /\ now \in Nat /\ now <= U64Max /\ U64Max \in Nat /\ Entitled
        BY <3>1, Types
      <4>2. Smaller(now, grant.revokedAt) = now
        BY <3>1, <4>1 DEF IsRevoked, Never, Smaller
      <4>3. grant.returned = 0 /\ grant.claimed <= v
        BY <3>1, <4>1, <4>2 DEF Entitled
      <4>4. QED
        BY <3>1, <4>1, <4>3 DEF IInv, Moved
    <3> HIDE DEF v
    <3>3. /\ grant'.claimed = grant.claimed /\ grant'.total = grant.total
          /\ grant'.returned = grant.total - v /\ grant'.revokedAt = now
      BY <3>1, <3>2 DEF Grants
    <3>4. /\ flows'.pulled = flows.pulled /\ flows'.toGrantor = grant.total - v
          /\ flows'.toBeneficiary = flows.toBeneficiary
      BY <3>1, <3>2
    <3>5. grant' # NoGrant
      BY <3>1, <3>4, StaysStored
    <3>6. IsRevoked(grant')
      BY <3>2, <3>3 DEF IsRevoked, Never
    <3>7. Remaining(grant').val = v - grant.claimed
      <4>1. grant' \in Grants
        BY <3>5 DEF IInv, TypeOK
      <4>2. Remaining(grant') = Ok(grant'.total - grant'.claimed - grant'.returned)
        <5>1. grant'.claimed + grant'.returned <= grant'.total
          BY <3>1, <3>2, <3>3
        <5>2. QED
          BY <4>1, <5>1, RemainingIsDifference
      <4>3. Remaining(grant').val = grant.total - grant.claimed - (grant.total - v)
        BY <3>3, <4>2 DEF Ok
      <4>4. QED
        BY <3>1, <3>2, <4>3
    <3>8. QED
      BY <3>1, <3>2, <3>4, <3>5, <3>6, <3>7 DEF Custody!Close, Custody!Left
  <2>5. QED
    BY <2>1, <2>2, <2>3, <2>4 DEF Next, Calls, Custody!Next, vars
<1>3. QED
  BY <1>1, <1>2, Invariance, PTL DEF Spec, ImplementsCustody, Custody!Spec

-----------------------------------------------------------------------------
(* Liveness.  ENABLED is beyond the provers, so the fairness of LiveSpec is *)
(* stated with the checks of the code in its place.                         *)

\* A grant whose beneficiary can sign.
Signable == grant # NoGrant /\ grant.beneficiary \in Signers

\* Such a grant vests no more: it is over, or revoked.
FullyVested == Signable /\ (IsRevoked(grant) \/ now >= EndAt(grant))

\* Everything has been paid out or returned.
Empty == grant # NoGrant /\ Remaining(grant).val = 0

\* claim would accept the beneficiary's call.
ClaimAccepted == Signable /\ ClaimReply(grant.beneficiary) = "Ok"

BeneficiaryClaims == \E s \in Signers : Claim(s)

\* Strong fairness: the beneficiary does not give up.
BeneficiaryPersists == []<>ClaimAccepted => []<><<BeneficiaryClaims>>_vars

\* A stored grant keeps its beneficiary and its end, a revocation is final, and
\* no step takes time back.
LEMMA TermsStay ==
    ASSUME IInv, grant # NoGrant, [Next]_vars
    PROVE  /\ grant' # NoGrant /\ grant'.beneficiary = grant.beneficiary
           /\ EndAt(grant') = EndAt(grant)
           /\ IsRevoked(grant) => IsRevoked(grant')
           /\ now \in Nat /\ now' \in Nat /\ now <= now'
<1>1. /\ grant \in Grants /\ now \in Nat /\ now <= U64Max /\ U64Max \in Nat
  BY Types
<1>2. IInv'
  BY StepKeeps
<1>3. ASSUME flows'.pulled = flows.pulled PROVE grant' # NoGrant
  BY <1>2, <1>3, StaysStored
<1>4. flows = [pulled |-> grant.total, toBeneficiary |-> grant.claimed,
               toGrantor |-> grant.returned]
  BY DEF IInv, Moved
<1>5. ASSUME NEW signer \in Signers, Claim(signer)
      PROVE  /\ grant' # NoGrant /\ grant'.beneficiary = grant.beneficiary
             /\ EndAt(grant') = EndAt(grant) /\ now' = now
             /\ IsRevoked(grant') = IsRevoked(grant)
  <2>1. /\ grant' = [grant EXCEPT !.claimed = @ + Claimable.val]
        /\ flows' = [flows EXCEPT !.toBeneficiary = @ + Claimable.val]
        /\ now' = now
    BY <1>5 DEF Claim
  <2>2. /\ grant'.beneficiary = grant.beneficiary /\ grant'.start = grant.start
        /\ grant'.duration = grant.duration /\ grant'.revokedAt = grant.revokedAt
        /\ flows'.pulled = flows.pulled
    BY <1>1, <1>4, <2>1 DEF Grants
  <2>3. QED
    BY <1>3, <2>1, <2>2 DEF EndAt, IsRevoked
<1>6. ASSUME NEW signer \in Signers, Revoke(signer)
      PROVE  /\ grant' # NoGrant /\ grant'.beneficiary = grant.beneficiary
             /\ EndAt(grant') = EndAt(grant) /\ now' = now /\ IsRevoked(grant')
  <2>1. /\ grant' = [grant EXCEPT !.revokedAt = now, !.returned = Unvested.val]
        /\ flows' = [flows EXCEPT !.toGrantor = @ + Unvested.val]
        /\ now' = now
    BY <1>6 DEF Revoke
  <2>2. /\ grant'.beneficiary = grant.beneficiary /\ grant'.start = grant.start
        /\ grant'.duration = grant.duration /\ grant'.revokedAt = now
        /\ flows'.pulled = flows.pulled
    BY <1>1, <1>4, <2>1 DEF Grants
  <2>3. QED
    BY <1>1, <1>3, <2>1, <2>2 DEF EndAt, IsRevoked, Never
<1>7. CASE LedgerNext /\ UNCHANGED contractVars
  <2>1. now' \in Nat /\ now <= now'
    BY <1>1, <1>7 DEF LedgerNext, CloseLedger, SetFrozen, Stray
  <2>2. grant' = grant
    BY <1>7 DEF contractVars
  <2>3. QED
    BY <1>1, <2>1, <2>2
<1>8. CASE UNCHANGED vars
  <2>1. grant' = grant /\ now' = now
    BY <1>8 DEF vars, contractVars, ledgerVars
  <2>2. QED
    BY <1>1, <2>1
<1>9. QED
  BY <1>1, <1>5, <1>6, <1>7, <1>8 DEF Next, Calls, Creates

\* What vests no more stays so.
LEMMA FullyVestedStays == IInv /\ FullyVested /\ [Next]_vars => FullyVested'
<1> SUFFICES ASSUME IInv, FullyVested, [Next]_vars PROVE FullyVested'
  OBVIOUS
<1>1. /\ grant # NoGrant /\ grant \in Grants /\ Coherent(grant)
      /\ grant.beneficiary \in Signers
  BY Types DEF FullyVested, Signable
<1>2. EndAt(grant) \in Nat
  BY <1>1, GrantTypes
<1>3. QED
  BY <1>1, <1>2, TermsStay DEF FullyVested, Signable

\* Nothing but a freeze keeps the beneficiary from all that is left then.
LEMMA LeftIsAccepted == IInv /\ FullyVested /\ frozen = {} => Empty \/ ClaimAccepted
<1> SUFFICES ASSUME IInv, FullyVested, frozen = {}, ~Empty PROVE ClaimAccepted
  OBVIOUS
<1> DEFINE e == Smaller(now, grant.revokedAt)
           v == Vested(grant, e)
           c == v - grant.claimed
           r == grant.total - grant.claimed - grant.returned
<1>1. /\ grant # NoGrant /\ grant \in Grants /\ Coherent(grant)
      /\ now \in Nat /\ now <= U64Max /\ now <= now
      /\ grant.revokedAt \in Nat /\ grant.claimed \in Nat /\ grant.total \in Nat
      /\ grant.total <= I128Max /\ I128Max \in Nat /\ balance[Self] \in Nat
  BY Types DEF FullyVested, Signable
<1>2. CliffAt(grant) = grant.start + grant.cliff /\ grant.start \in Nat /\ grant.cliff \in Nat
  BY <1>1, GrantTypes
<1>3. Remaining(grant).val = r /\ r \in 0..grant.total /\ r <= balance[Self]
  BY <1>1, RemainingIsLeft, LeftIsCovered DEF Ok
<1>4. e \in Nat /\ v \in 0..grant.total
  BY <1>1, ClaimableIsVested
<1>5. Claimable = Ok(c) /\ c = r
  BY <1>1, ClaimableIsLeft DEF Claimable, FullyVested
<1>6. Claimable.err = "Ok" /\ Claimable.val = c /\ c = r /\ c > 0
  BY <1>1, <1>3, <1>5 DEF Ok, Empty
<1>7. e >= CliffAt(grant)
  <2>1. SUFFICES ASSUME e < grant.start + grant.cliff PROVE FALSE
    BY <1>2, <1>4
  <2>2. v = 0
    BY <2>1 DEF Vested
  <2> HIDE DEF v
  <2>3. QED
    BY <1>1, <1>6, <2>2
<1>8. Add(grant.claimed, c).err = "Ok"
  <2> HIDE DEF v
  <2>1. grant.claimed + c \in I128
    BY <1>1, <1>4 DEF I128
  <2>2. QED
    BY <2>1 DEF Add, Checked, Ok
<1>9. TransferReply(balance, Self, grant.beneficiary, c) = "Ok"
  <2>1. c \in 0..balance[Self]
    <3> HIDE DEF c, r
    <3>1. QED
      BY <1>1, <1>3, <1>6
  <2>2. QED
    BY <2>1 DEF TransferReply
<1> HIDE DEF e, c
<1>10. QED
  BY <1>1, <1>6, <1>7, <1>8, <1>9
  DEF ClaimAccepted, FullyVested, Signable, ClaimReply, Load, Require, RequireAuth, ??, e

\* A claim takes all that is left then.
LEMMA LastClaimEmpties ==
    IInv /\ FullyVested /\ [Next]_vars /\ <<BeneficiaryClaims>>_vars => Empty'
<1> SUFFICES ASSUME IInv, FullyVested, [Next]_vars, BeneficiaryClaims PROVE Empty'
  OBVIOUS
<1> DEFINE v == Vested(grant, Smaller(now, grant.revokedAt))
<1>1. PICK s \in Signers : Claim(s)
  BY DEF BeneficiaryClaims
<1>2. /\ grant # NoGrant /\ grant \in Grants /\ now \in Nat /\ now <= U64Max
      /\ now <= now /\ grant.claimed \in Nat /\ grant.returned \in Nat
      /\ grant.total \in Nat
  BY Types DEF FullyVested, Signable
<1>3. grant' = [grant EXCEPT !.claimed = v] /\ v \in 0..grant.total
  BY <1>1, ClaimFacts, Zenon
<1>4. v - grant.claimed = grant.total - grant.claimed - grant.returned
  BY <1>2, ClaimableIsLeft DEF FullyVested
<1> HIDE DEF v
<1>5. v = grant.total - grant.returned
  BY <1>2, <1>3, <1>4
<1>6. grant'.total = grant.total /\ grant'.claimed = v /\ grant'.returned = grant.returned
  BY <1>2, <1>3 DEF Grants
<1>7. grant' # NoGrant /\ grant' \in Grants
  <2>1. grant' # NoGrant /\ IInv'
    BY <1>2, TermsStay, StepKeeps
  <2>2. QED
    BY <2>1 DEF IInv, TypeOK
<1>8. Remaining(grant') = Ok(0)
  <2>1. v + grant.returned <= grant.total /\ grant.total - v - grant.returned = 0
    BY <1>2, <1>3, <1>5
  <2>2. Remaining(grant') = Ok(grant'.total - grant'.claimed - grant'.returned)
    BY <1>6, <1>7, <2>1, RemainingIsDifference
  <2>3. QED
    BY <1>6, <2>1, <2>2
<1>9. QED
  BY <1>7, <1>8 DEF Empty, Ok

\* From the end on, or from a revocation on, a beneficiary who keeps claiming
\* gets all that is left, whatever the grantor and the issuer do.
THEOREM FullyVestedIsPaid ==
    Spec /\ Unfreezes /\ BeneficiaryPersists => (FullyVested ~> Empty)
<1>1. Spec => []IInv
  BY Invariance
<1>2. IInv /\ FullyVested /\ [Next]_vars => FullyVested'
  BY FullyVestedStays
<1>3. IInv /\ FullyVested /\ frozen = {} => Empty \/ ClaimAccepted
  BY LeftIsAccepted
<1>4. IInv /\ FullyVested /\ [Next]_vars /\ <<BeneficiaryClaims>>_vars => Empty'
  BY LastClaimEmpties
<1>5. Unfreezes => []<>(frozen = {})
  BY NobodyStaysFrozen
<1>6. QED
  BY <1>1, <1>2, <1>3, <1>4, <1>5, PTL DEF Spec, BeneficiaryPersists

\* If time goes on to the last timestamp there is, every beneficiary that can
\* sign is paid.
THEOREM BeneficiaryGetsAll ==
    Spec /\ Unfreezes /\ BeneficiaryPersists /\ <>(now = U64Max) => BeneficiaryIsPaid
<1>1. Spec => []IInv
  BY Invariance
<1>2. IInv /\ Signable /\ [Next]_vars => Signable'
  BY TermsStay DEF Signable
<1>3. IInv /\ now = U64Max /\ [Next]_vars => (now = U64Max)'
  <2> SUFFICES ASSUME IInv, now = U64Max, [Next]_vars PROVE now' = U64Max
    OBVIOUS
  <2>1. U64Max \in Nat
    BY LedgerAssumption
  <2>2. CASE Calls
    BY <2>2 DEF Calls, Creates, Create, Claim, Revoke
  <2>3. CASE LedgerNext
    BY <2>1, <2>3 DEF LedgerNext, CloseLedger, SetFrozen, Stray
  <2>4. CASE UNCHANGED vars
    BY <2>4 DEF vars, ledgerVars
  <2>5. QED
    BY <2>2, <2>3, <2>4 DEF Next
<1>4. IInv /\ Signable /\ now = U64Max => FullyVested
  <2> SUFFICES ASSUME IInv, Signable, now = U64Max PROVE FullyVested
    OBVIOUS
  <2>1. grant \in Grants /\ Coherent(grant)
    BY Types DEF Signable
  <2>2. EndAt(grant) <= U64Max
    BY <2>1, GrantTypes
  <2>3. QED
    BY <2>2 DEF FullyVested
<1>5. Spec /\ Unfreezes /\ BeneficiaryPersists => (FullyVested ~> Empty)
  BY FullyVestedIsPaid
<1>6. QED
  BY <1>1, <1>2, <1>3, <1>4, <1>5, PTL DEF Spec, BeneficiaryIsPaid, Signable, Empty

=============================================================================
