--------------------------- MODULE VestingClaims ---------------------------
(***************************************************************************)
(* Statements that the comments of contracts/vesting make and the code     *)
(* does not keep, each checked by a run of its own that ends in a          *)
(* counterexample (PROJECT.json, findings).                                *)
(***************************************************************************)
EXTENDS Vesting

\* vesting/types.rs:141: "Those corners are the only points needed: a client
\* draws a straight line between consecutive checkpoints and gets the exact
\* schedule."  So between two checkpoints the amount vested would lie on the
\* straight line, here up to two units for the rounding.
StraightLineIsExact ==
    grant # NoGrant =>
        LET points == Checkpoints(grant)
        IN  \A i \in 1..(Len(points) - 1) :
                LET p    == points[i]
                    q    == points[i + 1]
                    span == q.at - p.at
                    rise == q.vested.val - p.vested.val
                IN  \A t \in p.at..q.at :
                        LET vested == PlannedVested(grant, t)
                            above  == (vested.val - p.vested.val) * span
                                          - rise * (t - p.at)
                        IN  {p.vested.err, q.vested.err, vested.err} = {"Ok"}
                                => above \in (0 - 2 * span)..(2 * span)

\* vesting/types.rs:85: "at the midpoint of the schedule, `elapsed` is about
\* half the duration, so the maximum safe `total` is approximately
\* `i128::MAX / (duration / 2)`".  So no total up to that would ever overflow;
\* but after the midpoint `elapsed` goes on to nearly twice that.
SafeTotalNeverOverflows ==
    /\ grant # NoGrant
    /\ grant.duration % 2 = 0
    /\ grant.total <= I128Max \div (grant.duration \div 2)
    => \A t \in 0..U64Max : VestedAmount(grant, t).err = "Ok"

=============================================================================
