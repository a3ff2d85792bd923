-------------------------------- MODULE Wide --------------------------------
(***************************************************************************)
(* crates/weighted-math-core/src/wide.rs: the widening multiply, built of  *)
(* four half-word products with two recorded carries, and the two shifted  *)
(* forms every widened product of the kernel goes through.                 *)
(***************************************************************************)
EXTENDS FixedWidth

LIMB == 2^(WIDTH \div 2)

\* Fault: the carry out of lh + hl is not recorded.
mul_wide_uncarried(a, b) ==
  LET ll  == (a % LIMB) * (b % LIMB)
      mid == Wrap((a % LIMB) * (b \div LIMB) + (a \div LIMB) * (b % LIMB))
      lo  == ll + (mid % LIMB) * LIMB
  IN  <<(a \div LIMB) * (b \div LIMB) + (mid \div LIMB) + (lo \div WORD), Wrap(lo)>>

\* The full product as <<hi, lo>>; every sum below is taken in one word.
mul_wide(a, b) ==
  LET ll  == (a % LIMB) * (b % LIMB)
      lh  == (a % LIMB) * (b \div LIMB)
      hl  == (a \div LIMB) * (b % LIMB)
      hh  == (a \div LIMB) * (b \div LIMB)
      mid == Wrap(lh + hl)
      shifted_mid == (mid % LIMB) * LIMB          \* mid << 64, high limb lost
      lo  == Wrap(ll + shifted_mid)
      carry_mid == IF lh + hl >= WORD THEN 1 ELSE 0
      carry_lo  == IF ll + shifted_mid >= WORD THEN 1 ELSE 0
  IN  <<hh + (mid \div LIMB) + carry_mid * LIMB + carry_lo, lo>>

\* Fault: the fit assert lets one bit too many through.
ProductFitsLate(a, b, shift) == Shr(mul_wide(a, b)[1], shift + 1) = 0

\* The assert of both shifted forms: hi >> shift == 0.
ProductFits(a, b, shift) == Shr(mul_wide(a, b)[1], shift) = 0

\* (hi << (128 - shift)) | (lo >> shift): the two parts share no bit.
Recombined(a, b, shift) ==
  LET w == mul_wide(a, b)
  IN  w[1] * 2^(WIDTH - shift) + Shr(w[2], shift)

\* Fault: no discarded bit is looked at.
DiscardsNothing(a, b, shift) == FALSE

\* Bits the shift discards.
Discards(a, b, shift) == mul_wide(a, b)[2] % 2^shift # 0

mul_shr(a, b, shift) ==
  IF ProductFits(a, b, shift) THEN Value(Recombined(a, b, shift))
  ELSE Panic("unrepresentable")

\* Fault: one is added to an exact product too.
mul_shr_up_always(a, b, shift) ==
  IF ProductFits(a, b, shift) THEN Add(Recombined(a, b, shift), 1)
  ELSE Panic("unrepresentable")

mul_shr_up(a, b, shift) ==
  IF ProductFits(a, b, shift)
  THEN Add(Recombined(a, b, shift), IF Discards(a, b, shift) THEN 1 ELSE 0)
  ELSE Panic("unrepresentable")
=============================================================================
