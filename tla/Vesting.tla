------------------------------ MODULE Vesting ------------------------------
(***************************************************************************)
(* contracts/vesting: a grantor funds a grant in full and in advance, and  *)
(* it vests to a beneficiary in proportion to time, with a cliff.  A       *)
(* revocable grant may be revoked once: it stops vesting, the unvested     *)
(* part goes back, and what had vested stays claimable.                    *)
(*                                                                         *)
(* As in Escrow, XxxReply is what entry point xxx returns and the action   *)
(* Xxx is the call that succeeds.                                          *)
(***************************************************************************)
EXTENDS CheckedMath, Ledger, Sequences

CONSTANTS
    NoGrant,  \* no record is stored before `create`
    Amounts   \* the totals offered to `create`

VARIABLES
    grant,    \* the stored Grant record
    flows,    \* history: what the instance pulled from and paid to its parties
    signedBy  \* history: who signed the last call

contractVars == <<grant, flows, signedBy>>
vars == <<ledgerVars, contractVars>>

-----------------------------------------------------------------------------

Grants ==
    [grantor     : Signers,
     beneficiary : Holders,
     total       : 1..I128Max,
     start       : 0..U64Max,
     cliff       : 0..U64Max,
     duration    : 1..U64Max,
     revocable   : BOOLEAN,
     claimed     : 0..I128Max,
     returned    : 0..I128Max,
     revokedAt   : 0..Never]

ASSUME VestingAssumption ==
    /\ NoGrant \notin Grants
    /\ U64Max <= I128Max
    /\ Amounts \subseteq I128

Init ==
    /\ LedgerInit
    /\ grant = NoGrant
    /\ flows = [pulled |-> 0, toBeneficiary |-> 0, toGrantor |-> 0]
    /\ signedBy = Self

-----------------------------------------------------------------------------
(* The pure functions of vesting/types.rs.                                 *)

\* saturating_add
CliffAt(g) == Smaller(g.start + g.cliff, U64Max)
EndAt(g)   == Smaller(g.start + g.duration, U64Max)

IsRevoked(g) == g.revokedAt # Never

\* Mutants: the last second is still computed, and shares are rounded up.
PlannedVestedPastEnd(g, at) ==
    IF at < CliffAt(g) THEN Ok(0)
    ELSE IF at > EndAt(g) THEN Ok(g.total)
    ELSE MulDiv(g.total, at - g.start, g.duration)
PlannedVestedRoundedUp(g, at) ==
    IF at < CliffAt(g) THEN Ok(0)
    ELSE IF at >= EndAt(g) THEN Ok(g.total)
    ELSE LET product == Mul(g.total, at - g.start)
         IN  IF product.err # "Ok" THEN product
             ELSE Div(product.val + g.duration - 1, g.duration)

PlannedVested(g, at) ==
    IF at < CliffAt(g) THEN Ok(0)
    ELSE IF at >= EndAt(g) THEN Ok(g.total)
    ELSE MulDiv(g.total, at - g.start, g.duration)

\* Mutant: a revoked grant goes on vesting.
VestedDespiteRevocation(g, at) == PlannedVested(g, at)

VestedAmount(g, at) == PlannedVested(g, Smaller(at, g.revokedAt))

ClaimableAt(g, at) ==
    LET vested == VestedAmount(g, at)
    IN  IF vested.err = "Ok" THEN Sub(vested.val, g.claimed) ELSE vested

Remaining(g) ==
    LET unclaimed == Sub(g.total, g.claimed)
    IN  IF unclaimed.err = "Ok" THEN Sub(unclaimed.val, g.returned) ELSE unclaimed

\* The corners of the schedule as created, each of them once.
Checkpoints(g) ==
    LET checkpoint(at) == [at |-> at, vested |-> PlannedVested(g, at)]
    IN  <<checkpoint(g.start)>>
            \o (IF CliffAt(g) > g.start THEN <<checkpoint(CliffAt(g))>> ELSE <<>>)
            \o (IF EndAt(g) > CliffAt(g) THEN <<checkpoint(EndAt(g))>> ELSE <<>>)

-----------------------------------------------------------------------------

\* storage::load
Load == Require(grant # NoGrant, "NotInitialized")

\* Mutant: no require_positive.
CreateReplyAnyTotal(signer, grantor, beneficiary, total, start, cliff, duration) ==
    Require(grant = NoGrant, "AlreadyInitialized")
        ?? Require(grantor # beneficiary, "IdenticalParties")
        ?? Require(duration # 0, "InvalidDuration")
        ?? Require(cliff <= duration, "VestingCliffAfterEnd")
        ?? Require(start + duration <= U64Max, "VestingScheduleOverflow")
        ?? RequireAuth(signer, grantor)
        ?? TransferReply(balance, grantor, Self, total)

CreateReply(signer, grantor, beneficiary, total, start, cliff, duration) ==
    Require(grant = NoGrant, "AlreadyInitialized")
        ?? Require(grantor # beneficiary, "IdenticalParties")
        ?? Require(total > 0, "InvalidAmount")
        ?? Require(duration # 0, "InvalidDuration")
        ?? Require(cliff <= duration, "VestingCliffAfterEnd")
        ?? Require(start + duration <= U64Max, "VestingScheduleOverflow")
        ?? RequireAuth(signer, grantor)
        ?? TransferReply(balance, grantor, Self, total)

Create(signer, grantor, beneficiary, total, start, cliff, duration, revocable) ==
    /\ CreateReply(signer, grantor, beneficiary, total, start, cliff, duration) = "Ok"
    /\ grant' = [grantor     |-> grantor,
                 beneficiary |-> beneficiary,
                 total       |-> total,
                 start       |-> start,
                 cliff       |-> cliff,
                 duration    |-> duration,
                 revocable   |-> revocable,
                 claimed     |-> 0,
                 returned    |-> 0,
                 revokedAt   |-> Never]
    /\ balance' = Transferred(balance, grantor, Self, total)
    /\ flows' = [flows EXCEPT !.pulled = @ + total]
    /\ signedBy' = signer
    /\ UNCHANGED <<now, frozen, strays>>

-----------------------------------------------------------------------------

Claimable == ClaimableAt(grant, now)

\* Mutant: at the cliff itself nothing can be claimed.
ClaimReplyAfterCliff(signer) ==
    Load
        ?? RequireAuth(signer, grant.beneficiary)
        ?? Require(Smaller(now, grant.revokedAt) > CliffAt(grant), "VestingCliffNotReached")
        ?? Claimable.err
        ?? Require(Claimable.val > 0, "VestingNothingToClaim")
        ?? Add(grant.claimed, Claimable.val).err
        ?? TransferReply(balance, Self, grant.beneficiary, Claimable.val)

ClaimReply(signer) ==
    Load
        ?? RequireAuth(signer, grant.beneficiary)
        ?? Require(Smaller(now, grant.revokedAt) >= CliffAt(grant), "VestingCliffNotReached")
        ?? Claimable.err
        ?? Require(Claimable.val > 0, "VestingNothingToClaim")
        ?? Add(grant.claimed, Claimable.val).err
        ?? TransferReply(balance, Self, grant.beneficiary, Claimable.val)

\* Mutant: the grant is saved before `claimed` is updated.
ClaimUnsaved(signer) ==
    /\ ClaimReply(signer) = "Ok"
    /\ grant' = grant
    /\ balance' = Transferred(balance, Self, grant.beneficiary, Claimable.val)
    /\ flows' = [flows EXCEPT !.toBeneficiary = @ + Claimable.val]
    /\ signedBy' = signer
    /\ UNCHANGED <<now, frozen, strays>>

Claim(signer) ==
    /\ ClaimReply(signer) = "Ok"
    /\ grant' = [grant EXCEPT !.claimed = @ + Claimable.val]
    /\ balance' = Transferred(balance, Self, grant.beneficiary, Claimable.val)
    /\ flows' = [flows EXCEPT !.toBeneficiary = @ + Claimable.val]
    /\ signedBy' = signer
    /\ UNCHANGED <<now, frozen, strays>>

-----------------------------------------------------------------------------

\* Mutant: all that is unclaimed goes back, vested or not.
UnclaimedPart == Sub(grant.total, grant.claimed)

\* What a revocation returns.
Unvested == Sub(grant.total, VestedAmount(grant, now).val)

\* Mutant: a grant can be revoked again.
RevokeReplyAgain(signer) ==
    Load
        ?? Require(grant.revocable, "VestingNotRevocable")
        ?? RequireAuth(signer, grant.grantor)
        ?? VestedAmount(grant, now).err
        ?? Unvested.err
        ?? (IF Unvested.val > 0
            THEN TransferReply(balance, Self, grant.grantor, Unvested.val) ELSE "Ok")

\* The last check is that of the event's `still_claimable`, after the payment.
RevokeReply(signer) ==
    Load
        ?? Require(~IsRevoked(grant), "VestingRevoked")
        ?? Require(grant.revocable, "VestingNotRevocable")
        ?? RequireAuth(signer, grant.grantor)
        ?? VestedAmount(grant, now).err
        ?? Unvested.err
        ?? (IF Unvested.val > 0
            THEN TransferReply(balance, Self, grant.grantor, Unvested.val) ELSE "Ok")
        ?? Sub(VestedAmount(grant, now).val, grant.claimed).err

Revoke(signer) ==
    /\ RevokeReply(signer) = "Ok"
    /\ grant' = [grant EXCEPT !.revokedAt = now, !.returned = Unvested.val]
    /\ balance' = Transferred(balance, Self, grant.grantor, Unvested.val)
    /\ flows' = [flows EXCEPT !.toGrantor = @ + Unvested.val]
    /\ signedBy' = signer
    /\ UNCHANGED <<now, frozen, strays>>

-----------------------------------------------------------------------------

\* The first conjunct only repeats the first check of CreateReply, before the
\* arguments are chosen.
Creates(signer) ==
    /\ grant = NoGrant
    /\ \E grantor \in Holders, beneficiary \in Holders, total \in Amounts,
          start \in 0..U64Max, cliff \in 0..U64Max, duration \in 0..U64Max,
          revocable \in BOOLEAN :
            Create(signer, grantor, beneficiary, total, start, cliff, duration, revocable)

Calls ==
    \E signer \in Signers : Creates(signer) \/ Claim(signer) \/ Revoke(signer)

Next == Calls \/ (LedgerNext /\ UNCHANGED contractVars)

Spec == Init /\ [][Next]_vars

\* The beneficiary keeps claiming; strong fairness, for a claim may be disabled
\* by a freeze or by an overflow that only the end of the schedule removes.
LiveSpec ==
    /\ Spec
    /\ LedgerFairness
    /\ \A s \in Signers : SF_vars(Claim(s))

-----------------------------------------------------------------------------
(* Properties.                                                             *)

\* A beneficiary that is the contract itself is paid by a transfer to itself.
Stranded == IF grant.beneficiary = Self THEN flows.toBeneficiary ELSE 0

\* Every variable holds a value of its type.
TypeOK ==
    /\ LedgerTypeOK
    /\ grant \in {NoGrant} \cup Grants
    /\ flows \in [pulled : Nat, toBeneficiary : Nat, toGrantor : Nat]
    /\ signedBy \in Signers \cup {Self}

\* The conservation invariant of vesting/types.rs, about the tokens and not
\* only about the record: what was pulled is the total, claimed and returned
\* are what was really paid, and the rest is what the contract really holds.
Conservation ==
    IF grant = NoGrant THEN balance[Self] = strays
    ELSE /\ flows = [pulled        |-> grant.total,
                     toBeneficiary |-> grant.claimed,
                     toGrantor     |-> grant.returned]
         /\ Remaining(grant).err = "Ok"
         /\ balance[Self] = Remaining(grant).val + strays + Stranded

\* From now on what is claimable never goes back and never exceeds what the
\* contract holds; it may be unknown for a while, when total * elapsed
\* overflows, but never from the end on, nor after a revocation, and then it
\* is all that is held (vesting/errors.rs: "vested never exceeds `total` and
\* claimed never exceeds vested").
ClaimableIsHeld ==
    grant # NoGrant =>
        /\ \A t \in now..U64Max :
               LET at_t == ClaimableAt(grant, t)
               IN  /\ at_t.err \in {"Ok", "Overflow"}
                   /\ at_t.val \in 0..Remaining(grant).val
                   /\ IsRevoked(grant) \/ t >= EndAt(grant)
                          => at_t = Ok(Remaining(grant).val)
        /\ \A t \in now..U64Max : \A u \in t..U64Max :
               LET sooner == ClaimableAt(grant, t)
                   later  == ClaimableAt(grant, u)
               IN  later.err = "Ok" => sooner.val <= later.val

\* Nobody is paid more than the schedule gives: up to the cliff the
\* beneficiary has nothing, from then on at most the exact proportion of the
\* time elapsed until the revocation, and a revocation returns less than one
\* unit more than the exact rest.
PaysTheProportion ==
    grant # NoGrant =>
        LET t       == Smaller(now, grant.revokedAt)
            elapsed == Smaller(t - grant.start, grant.duration)
            exact   == IF t < CliffAt(grant) THEN 0 ELSE grant.total * elapsed
        IN  /\ flows.toBeneficiary * grant.duration <= exact
            /\ IsRevoked(grant) =>
                   /\ (grant.total - flows.toGrantor) * grant.duration <= exact
                   /\ exact < (grant.total - flows.toGrantor + 1) * grant.duration

\* What has vested is the beneficiary's: only the beneficiary takes it, up to
\* what has vested and not before; the grantor gets tokens back only by a
\* revocation that the terms allow, once, and then exactly what had not
\* vested, after which what had vested neither grows nor shrinks.
Kept ==
    grant # NoGrant =>
        LET vested == VestedAmount(grant, now).val
        IN  /\ flows'.toBeneficiary # flows.toBeneficiary =>
                   /\ signedBy' = grant.beneficiary
                   /\ flows'.toBeneficiary = vested
            /\ flows'.toGrantor # flows.toGrantor \/ grant'.revokedAt # grant.revokedAt =>
                   /\ grant.revocable /\ ~IsRevoked(grant)
                   /\ signedBy' = grant.grantor
                   /\ flows'.toGrantor = grant.total - vested
            /\ \A t \in 0..U64Max :
                   VestedAmount(grant', t) =
                       IF IsRevoked(grant') /\ ~IsRevoked(grant)
                       THEN VestedAmount(grant, Smaller(t, now))
                       ELSE VestedAmount(grant, t)

VestedIsKept == [][Kept]_vars

\* No grant locks its tokens: from the end on, and after a revocation, the
\* beneficiary can claim all that is left, and a revocable grant can be
\* revoked at every moment but those at which its own product overflows.
NeverLocked ==
    grant # NoGrant /\ frozen = {} =>
        /\ (IsRevoked(grant) \/ now >= EndAt(grant)) /\ Remaining(grant).val > 0 =>
               \A s \in Signers \cap {grant.beneficiary} : ClaimReply(s) = "Ok"
        /\ grant.revocable /\ ~IsRevoked(grant) =>
               \/ RevokeReply(grant.grantor) = "Ok"
               \/ /\ RevokeReply(grant.grantor) = "Overflow"
                  /\ now \in (grant.start + grant.cliff)..(grant.start + grant.duration - 1)
                  /\ grant.total * (now - grant.start) > I128Max

\* Vesting implements Custody: open until it is revoked.  A revocation closes
\* the position; what had vested then belongs to the payee, who may collect it
\* later.
Custody == INSTANCE Custody WITH
    open    <- grant = NoGrant \/ ~IsRevoked(grant),
    pulled  <- flows.pulled,
    toPayee <- flows.toBeneficiary +
                   (IF grant # NoGrant /\ IsRevoked(grant) THEN Remaining(grant).val ELSE 0),
    toPayer <- flows.toGrantor

ImplementsCustody == Custody!Spec

\* A beneficiary that keeps claiming ends up with the whole grant, or with all
\* that had vested when it was revoked.
BeneficiaryIsPaid ==
    grant # NoGrant /\ grant.beneficiary \in Signers ~>
        grant # NoGrant /\ Remaining(grant).val = 0

=============================================================================
