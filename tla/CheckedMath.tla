---------------------------- MODULE CheckedMath ----------------------------
(***************************************************************************)
(* The checked i128 arithmetic of contracts/common/src/math.rs.            *)
(*                                                                         *)
(* A Rust Result is a record: `err` is "Ok" or the name of the error, and  *)
(* `val` is the value (0 beside an error).  A chain of `?` is the infix    *)
(* operator ??, which keeps the first error and otherwise goes on.         *)
(***************************************************************************)
EXTENDS Integers

CONSTANTS
    I128Max,         \* i128::MAX, scaled down so that overflow is reachable
    BpsDenominator   \* 10000 in the code: basis points in a whole

ASSUME I128MaxAssumption == I128Max \in Nat \ {0}
ASSUME BpsAssumption == BpsDenominator \in 1..I128Max

I128 == (0 - I128Max - 1)..I128Max

-----------------------------------------------------------------------------

Ok(v)  == [err |-> "Ok", val |-> v]
Err(e) == [err |-> e, val |-> 0]

\* The error of a check, as `auth::require` reports it.
Require(cond, error) == IF cond THEN "Ok" ELSE error

\* r ?? s : the reply of running a fallible step after another one.
r ?? s == IF r = "Ok" THEN s ELSE r

-----------------------------------------------------------------------------

Checked(v, error) == IF v \in I128 THEN Ok(v) ELSE Err(error)

Add(a, b) == Checked(a + b, "Overflow")
Sub(a, b) == Checked(a - b, "Underflow")
Mul(a, b) == Checked(a * b, "Overflow")

\* Rust division truncates toward zero, \div rounds toward minus infinity.
Truncated(a, b) ==
    LET abs(x) == IF x < 0 THEN 0 - x ELSE x
        q      == abs(a) \div abs(b)
    IN  IF (a < 0) = (b < 0) THEN q ELSE 0 - q

Div(a, b) ==
    IF b = 0 THEN Err("DivisionByZero") ELSE Checked(Truncated(a, b), "Overflow")

MulDiv(a, b, d) ==
    LET product == Mul(a, b)
    IN  IF product.err = "Ok" THEN Div(product.val, d) ELSE product

MulBps(amount, bps) ==
    IF bps > BpsDenominator
    THEN Err("InvalidBasisPoints")
    ELSE MulDiv(amount, bps, BpsDenominator)

\* Mutant: both shares are scaled, and both are rounded down.
SplitBpsTwice(amount, bps) ==
    LET first  == MulBps(amount, bps)
        second == MulBps(amount, BpsDenominator - bps)
    IN  [err    |-> first.err ?? second.err,
         first  |-> first.val,
         second |-> second.val]

\* split_bps returns a pair: the error, the first share and the remainder.
SplitBps(amount, bps) ==
    LET first  == MulBps(amount, bps)
        second == Sub(amount, first.val)
    IN  [err    |-> first.err ?? second.err,
         first  |-> first.val,
         second |-> second.val]

\* math::min, and Rust's u64::min
Smaller(a, b) == IF a < b THEN a ELSE b

=============================================================================
