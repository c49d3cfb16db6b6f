--------------------------- MODULE Ledger_proofs ---------------------------
(***************************************************************************)
(* Facts about token transfers and checked arithmetic that the proofs of   *)
(* the contracts rest on.                                                  *)
(***************************************************************************)
EXTENDS Ledger, CheckedMath, TLAPS, WellFoundedInduction

\* A nonempty set of naturals has a least element.
LEMMA LeastOfNaturals ==
    ASSUME NEW S \in SUBSET Nat, S # {}
    PROVE  \E m \in S : \A k \in S : m <= k
<1>1. PICK m \in S : \A k \in S : ~ (<<k, m>> \in OpToRel(<, Nat))
  BY NatLessThanWellFounded, WFMin
<1>2. ASSUME NEW k \in S PROVE m <= k
  <2>1. ~(k < m)
    BY <1>1 DEF OpToRel
  <2>2. QED
    BY <2>1
<1>3. QED
  BY <1>2

\* Induction, as a fact about the set of the numbers a statement holds of: what
\* holds of 0 and of each successor holds of all.
LEMMA InductionOnSet ==
    ASSUME NEW S \in SUBSET Nat, 0 \in S, \A n \in S : n + 1 \in S
    PROVE  S = Nat
<1> SUFFICES ASSUME S # Nat PROVE FALSE
  OBVIOUS
<1>1. PICK m \in Nat \ S : \A k \in Nat \ S : m <= k
  BY LeastOfNaturals
<1>2. m - 1 \in S
  BY <1>1
<1>3. QED
  BY <1>1, <1>2

\* A transfer the token accepts keeps balances natural and moves the amount
\* from one balance to the other (TokenClient::transfer).
LEMMA TransferMoves ==
    ASSUME NEW bal \in [Holders -> Nat],
           NEW from \in Holders, NEW to \in Holders, NEW amount \in 0..bal[from]
    PROVE  /\ Transferred(bal, from, to, amount) \in [Holders -> Nat]
           /\ \A h \in Holders :
                  Transferred(bal, from, to, amount)[h] =
                      bal[h] - (IF h = from THEN amount ELSE 0)
                             + (IF h = to THEN amount ELSE 0)
<1>1. bal[from] \in Nat /\ amount \in Nat /\ amount <= bal[from]
  OBVIOUS
<1>2. ASSUME NEW h \in Holders
      PROVE  bal[h] - (IF h = from THEN amount ELSE 0)
                    + (IF h = to THEN amount ELSE 0) \in Nat
  <2>1. bal[h] \in Nat
    OBVIOUS
  <2>2. QED
    BY <1>1, <2>1
<1>3. QED
  BY <1>2 DEF Transferred

\* What a transfer reply of "Ok" says.
LEMMA TransferAccepted ==
    ASSUME NEW bal, NEW from, NEW to, NEW amount,
           TransferReply(bal, from, to, amount) = "Ok"
    PROVE  amount \in 0..bal[from]
BY DEF TransferReply

\* Two payments the token accepts take both shares from the contract, and a
\* share whose payee is the contract itself stays (escrow resolve, stream
\* cancel).
LEMMA PaidBothMoves ==
    ASSUME balance \in [Holders -> Nat], Self \in Holders,
           NEW first \in Holders, NEW x \in Nat,
           NEW second \in Holders, NEW y \in Nat,
           PayBothReply(first, x, second, y) = "Ok"
    PROVE  /\ PaidBoth(first, x, second, y) \in [Holders -> Nat]
           /\ PaidBoth(first, x, second, y)[Self] =
                  balance[Self] - (IF first = Self THEN 0 ELSE x)
                                - (IF second = Self THEN 0 ELSE y)
<1> DEFINE left == Transferred(balance, Self, first, x)
<1>1. balance[Self] \in Nat
  OBVIOUS
<1>2. x \in 0..balance[Self]
  <2>1. CASE x = 0
    BY <1>1, <2>1
  <2>2. CASE x > 0
    BY <2>2, TransferAccepted DEF PayBothReply
  <2>3. QED
    BY <2>1, <2>2
<1>3. /\ left \in [Holders -> Nat]
      /\ left[Self] = balance[Self] - (IF first = Self THEN 0 ELSE x)
  BY <1>1, <1>2, TransferMoves
<1>4. y \in 0..left[Self]
  <2>1. left[Self] \in Nat
    BY <1>3
  <2>2. CASE y = 0
    BY <2>1, <2>2
  <2>3. CASE y > 0
    <3>1. TransferReply(left, Self, second, y) = "Ok"
      BY <2>3 DEF PayBothReply
    <3>2. QED
      BY <3>1, TransferAccepted
  <2>4. QED
    BY <2>2, <2>3
<1>5. PaidBoth(first, x, second, y) = Transferred(left, Self, second, y)
  BY DEF PaidBoth
<1> HIDE DEF left
<1>6. /\ Transferred(left, Self, second, y) \in [Holders -> Nat]
      /\ Transferred(left, Self, second, y)[Self] =
             left[Self] - y + (IF Self = second THEN y ELSE 0)
  BY <1>3, <1>4, TransferMoves
<1>7. QED
  BY <1>1, <1>3, <1>5, <1>6

\* A product grows with its second factor.
LEMMA ProductMonotone ==
    ASSUME NEW r \in Nat, NEW a \in Int, NEW b \in Int, a <= b
    PROVE  r * a <= r * b
<1>1. r * (b - a) = r * b - r * a
  OBVIOUS
<1>2. r * (b - a) >= 0
  BY SMT
<1>3. r * a \in Int /\ r * b \in Int
  OBVIOUS
<1>4. QED
  BY <1>1, <1>2, <1>3

\* A positive amount that is a whole number of periods' worth of the rate
\* buys at least one period, and exactly that many.
LEMMA DivisionExact ==
    ASSUME NEW r \in Nat, r > 0, NEW a \in Int, a > 0, a % r = 0
    PROVE  /\ a \div r \in Nat
           /\ a \div r > 0
           /\ a = r * (a \div r)
<1>1. PICK q \in Int : q = a \div r
  OBVIOUS
<1>2. a = r * (a \div r) + (a % r)
  OBVIOUS
<1>3. a = r * q
  BY <1>1, <1>2
<1>4. q > 0
  <2>1. q <= 0 => r * q <= r * 0
    BY ProductMonotone
  <2>2. r * 0 = 0
    OBVIOUS
  <2>3. QED
    BY <1>3, <2>1, <2>2
<1>5. QED
  BY <1>1, <1>3, <1>4

\* A share of a positive whole: the division rounds down by less than a unit
\* and gives no more than the whole (math::mul_bps).
LEMMA ShareRoundsDown ==
    ASSUME NEW a \in Nat, NEW b \in Nat, NEW d \in Nat, d > 0, b <= d
    PROVE  /\ (a * b) \div d \in 0..a
           /\ ((a * b) \div d) * d <= a * b
           /\ a * b < ((a * b) \div d) * d + d
<1>1. PICK p \in Nat : p = a * b
  OBVIOUS
<1>2. PICK q \in Int : q = p \div d
  BY <1>1
<1>3. q * d <= p /\ p < q * d + d
  BY <1>1, <1>2
<1>4. p <= a * d
  BY <1>1, ProductMonotone
<1>5. q >= 0
  <2>1. q <= -1 => d * q <= d * (-1)
    BY <1>2, ProductMonotone
  <2>2. d * (-1) = -d /\ d * q = q * d
    BY <1>2
  <2>3. q * d \in Int
    BY <1>2
  <2>4. QED
    BY <1>1, <1>2, <1>3, <2>1, <2>2, <2>3
<1>6. q <= a
  <2>1. a + 1 <= q => d * (a + 1) <= d * q
    BY <1>2, ProductMonotone
  <2>2. d * (a + 1) = a * d + d /\ d * q = q * d
    BY <1>2
  <2>3. q * d \in Int /\ a * d \in Int
    BY <1>2
  <2>4. QED
    BY <1>1, <1>2, <1>3, <1>4, <2>1, <2>2, <2>3
<1>7. QED
  BY <1>1, <1>2, <1>3, <1>5, <1>6

\* Division by a positive number keeps the order.
LEMMA DivisionMonotone ==
    ASSUME NEW a \in Nat, NEW b \in Nat, NEW d \in Nat, d > 0, a <= b
    PROVE  a \div d <= b \div d
<1>1. PICK p \in Int : p = a \div d
  OBVIOUS
<1>2. PICK q \in Int : q = b \div d
  OBVIOUS
<1>3. p * d <= a /\ b < q * d + d
  BY <1>1, <1>2
<1>4. p <= q
  <2>1. q + 1 <= p => d * (q + 1) <= d * p
    BY <1>1, <1>2, ProductMonotone
  <2>2. d * (q + 1) = q * d + d /\ d * p = p * d
    BY <1>1, <1>2
  <2>3. q * d \in Int /\ p * d \in Int
    BY <1>1, <1>2
  <2>4. QED
    BY <1>1, <1>2, <1>3, <2>1, <2>2, <2>3
<1>5. QED
  BY <1>1, <1>2, <1>4

\* split_bps, when it succeeds, splits the amount exactly, and its first share
\* is the exact share rounded down.
LEMMA SplitIsExact ==
    ASSUME NEW amount \in 0..I128Max, NEW bps \in Nat,
           SplitBps(amount, bps).err = "Ok"
    PROVE  LET split == SplitBps(amount, bps)
               exact == amount * bps
           IN  /\ bps <= BpsDenominator
               /\ split.first \in 0..amount
               /\ split.second = amount - split.first
               /\ split.first * BpsDenominator <= exact
               /\ exact < split.first * BpsDenominator + BpsDenominator
<1> DEFINE first == MulBps(amount, bps)
           share == (amount * bps) \div BpsDenominator
<1>1. /\ I128Max \in Nat /\ BpsDenominator \in Nat /\ BpsDenominator > 0
      /\ amount \in Nat /\ amount <= I128Max /\ BpsDenominator <= I128Max
  BY I128MaxAssumption, BpsAssumption
<1>2. first.err = "Ok" /\ Sub(amount, first.val).err = "Ok"
  BY DEF SplitBps, ??
<1>3. bps <= BpsDenominator /\ first = MulDiv(amount, bps, BpsDenominator)
  BY <1>1, <1>2 DEF MulBps, Err
<1>4. share \in 0..amount
  BY <1>1, <1>3, ShareRoundsDown
<1>5. first.val = share
  <2>1. PICK p \in Nat : p = amount * bps
    BY <1>1
  <2>2. Mul(amount, bps).err = "Ok"
    BY <1>2, <1>3 DEF MulDiv
  <2>3. Mul(amount, bps).val = p
    BY <2>1, <2>2 DEF Mul, Checked, Ok, Err
  <2>4. first = Checked(Truncated(p, BpsDenominator), "Overflow")
    BY <1>1, <1>3, <2>2, <2>3 DEF MulDiv, Div
  <2>5. Truncated(p, BpsDenominator) = p \div BpsDenominator
    BY <1>1, <2>1 DEF Truncated
  <2>6. QED
    BY <1>2, <2>1, <2>4, <2>5 DEF Checked, Ok, Err
<1>6. Sub(amount, first.val).val = amount - first.val
  BY <1>2 DEF Sub, Checked, Ok, Err
<1>7. /\ SplitBps(amount, bps).first = first.val
      /\ SplitBps(amount, bps).second = Sub(amount, first.val).val
  BY DEF SplitBps
<1>8. share * BpsDenominator <= amount * bps
      /\ amount * bps < share * BpsDenominator + BpsDenominator
  BY <1>1, <1>3, ShareRoundsDown
<1> HIDE DEF first, share
<1>9. QED
  BY <1>3, <1>4, <1>5, <1>6, <1>7, <1>8

-----------------------------------------------------------------------------
(* Fairness, with the conditions under which a step is possible written out *)
(* in the place of ENABLED.                                                 *)

\* WF_ledgerVars(SetFrozen /\ frozen' = {}): a freeze can be lifted whenever
\* somebody is frozen.
Unfreezes == <>[](frozen # {}) => []<><<SetFrozen /\ frozen' = {}>>_ledgerVars

\* Nobody stays frozen for ever.
LEMMA NobodyStaysFrozen == Unfreezes => []<>(frozen = {})
<1>1. <<SetFrozen /\ frozen' = {}>>_ledgerVars => (frozen = {})'
  OBVIOUS
<1>2. frozen # {} <=> ~(frozen = {})
  OBVIOUS
<1>3. QED
  BY <1>1, <1>2, PTL DEF Unfreezes

=============================================================================
