------------------------------- MODULE Referee ------------------------------
(***************************************************************************)
(* crates/harness/src/lib.rs, the double-width helpers, and what           *)
(* tests/differential.rs does with them: kernel_arith_wrappers asks if     *)
(* these are the floor and the ceiling of the product, or of the quotient. *)
(* The helpers share no code with wide.rs, so they are modelled anew.      *)
(***************************************************************************)
EXTENDS Fixed

\* Fault: the carry out of the low word is lost.
referee_mul_wide_uncarried(a, b) ==
  LET ll  == (a % LIMB) * (b % LIMB)
      sum == (a % LIMB) * (b \div LIMB) + (a \div LIMB) * (b % LIMB)
      lo  == ll + Wrap(Wrap(sum) * LIMB)
  IN  <<(a \div LIMB) * (b \div LIMB) + (Wrap(sum) \div LIMB)
          + (sum \div WORD) * LIMB, Wrap(lo)>>

\* mul_wide, with overflowing_add for both carries.
referee_mul_wide(a, b) ==
  LET ll  == (a % LIMB) * (b % LIMB)
      sum == (a % LIMB) * (b \div LIMB) + (a \div LIMB) * (b % LIMB)
      lo  == ll + Wrap(Wrap(sum) * LIMB)
  IN  <<(a \div LIMB) * (b \div LIMB) + (Wrap(sum) \div LIMB)
          + (sum \div WORD) * LIMB + (lo \div WORD), Wrap(lo)>>

shl_wide(value, shift) ==
  IF shift = 0 THEN <<0, value>>
  ELSE <<Shr(value, WIDTH - shift), Wrap(value * 2^shift)>>

wide_lt(x, y) == x[1] < y[1] \/ (x[1] = y[1] /\ x[2] < y[2])
wide_le(x, y) == x[1] < y[1] \/ (x[1] = y[1] /\ x[2] <= y[2])

\* Fault: the high word is dropped.
wide_shr_low(x, times) == Shr(referee_mul_wide(x, times)[2], SCALE)

\* x * times / 2^SCALE, or the largest word.
wide_shr_or_max(x, times) ==
  LET p == referee_mul_wide(x, times)
  IN  IF Shr(p[1], SCALE) # 0 THEN WORD - 1
      ELSE p[1] * 2^(WIDTH - SCALE) + Shr(p[2], SCALE)

\* The test's two assertions on n, given the multiples of the grid around it.
IsFloor(n, here, next) == wide_le(here, n) /\ wide_lt(n, next)

IsCeiling(n, up, here, previous) ==
  IF n = <<0, 0>> THEN up = 0
  ELSE wide_le(n, here) /\ (up = 0 \/ wide_lt(previous, n))

mul_verdict(a, b, down, up) ==
  LET scaled(r) == shl_wide(r, SCALE)
      product == referee_mul_wide(a, b)
  IN  /\ IsFloor(product, scaled(down), scaled(down + 1))
      /\ IsCeiling(product, up, scaled(up), scaled(up - 1))

div_verdict(a, b, down, up) ==
  LET multiple(r) == referee_mul_wide(r, b)
      dividend == shl_wide(a, SCALE)
  IN  /\ IsFloor(dividend, multiple(down), multiple(down + 1))
      /\ IsCeiling(dividend, up, multiple(up), multiple(up - 1))

saturating_sub(a, b) == IF a >= b THEN a - b ELSE 0

complement_verdict(a, comp) == comp = saturating_sub(ONE, a)
=============================================================================
