-------------------------------- MODULE Grader ------------------------------
(***************************************************************************)
(* crates/harness/src/lib.rs, the quantizer and the band checker: how the  *)
(* differential tests decide whether a kernel result is good enough.  A    *)
(* fixture field is the floor of a truth at QBITS fraction bits; it is     *)
(* rescaled to the floor and the ceiling <<floor, ceil>> on the grid.      *)
(***************************************************************************)
EXTENDS Fixed

CONSTANTS QBITS,         \* fraction bits of a fixture field: 128 or 116
          BUDGET_ULPS    \* 3

ASSUME GraderAssumption ==
  QBITS \in Nat /\ QBITS >= SCALE /\ BUDGET_ULPS \in Nat /\ BUDGET_ULPS < ONE

bound_ulps == 1 + BUDGET_ULPS

Ok(n) == [kind |-> "ok", ulps |-> n]
WrongSide(n) == [kind |-> "wrong_side", ulps |-> n]
TooFar(n) == [kind |-> "too_far", ulps |-> n]

\* Fault: the ceiling is always one above the floor.
q_to_scale_bounds_apart(q, qbits) ==
  <<Shr(q, qbits - SCALE), Shr(q, qbits - SCALE) + 1>>

q_to_scale_bounds(q, qbits) ==
  LET shift == qbits - SCALE
      floor == Shr(q, shift)
  IN  <<floor, IF q % 2^shift # 0 \/ shift = 0 THEN floor + 1 ELSE floor>>

\* Fault: a negative error passes.
check_directional_unsigned(t, result, direction, bound) ==
  LET err == IF direction = "down" THEN t[1] - result ELSE result - t[2]
  IN  IF err > bound THEN TooFar(err) ELSE Ok(err)

check_directional(t, result, direction, bound) ==
  LET err == IF direction = "down" THEN t[1] - result ELSE result - t[2]
  IN  IF err < 0 THEN WrongSide(-err)
      ELSE IF err > bound THEN TooFar(err) ELSE Ok(err)

check_two_sided(t, result, bound) ==
  LET err == IF result < t[1] THEN t[1] - result
             ELSE IF result > t[2] THEN result - t[2] ELSE 0
  IN  IF err > bound THEN TooFar(err) ELSE Ok(err)
-----------------------------------------------------------------------------
(***************************************************************************)
(* The amounts of a trade, in wei.  A sensitivity of the oracle's may be   *)
(* past the word; the case then has no bound.                              *)
(***************************************************************************)
None == -1

parse_u128_checked(decimal) == IF decimal \in U128 THEN decimal ELSE None

checked_add(a, b) ==
  IF a # None /\ b # None /\ a + b \in U128 THEN a + b ELSE None

saturating_add(a, b) == AtMost(a + b, WORD - 1)
=============================================================================
