------------------------------ MODULE Weighted ------------------------------
(***************************************************************************)
(* crates/weighted-math-core/src/weighted.rs: pricing a swap.  Either      *)
(* function is pure: it returns an amount or panics, and the reason of a   *)
(* panic says which assert of which layer fired.                           *)
(***************************************************************************)
EXTENDS Pow

\* weighted.rs's compile-time assert: the smallest ratio is an exponent.
ASSUME RatioAssumption == ONE >= MAX_RATIO

MAX_WEIGHT == 2^(WIDTH \div 2)

check_weights(weight_in, weight_out) ==
  /\ weight_in >= 1 /\ weight_out >= 1
  /\ weight_in <= MAX_WEIGHT /\ weight_out <= MAX_WEIGHT
  /\ weight_in <= MAX_RATIO * weight_out
  /\ weight_out <= MAX_RATIO * weight_in

\* Bits a wide denominator is shifted down by, so that num << SCALE fits.
Excess(den) == AtLeast(BitLen(den) - (WIDTH - 2 - SCALE), 0)

\* Faults: the quotient of ratio_up floored; its pre-shift without the bias.
ratio_up_floored(num, den) ==
  LET e == Excess(den)
  IN  IF e > 0 THEN ((Shr(num, e) + 1) * ONE) \div Shr(den, e)
      ELSE (num * ONE) \div den

ratio_up_unbiased(num, den) ==
  LET e == Excess(den) IN CeilDiv(Shr(num, e) * ONE, Shr(den, e))

\* num / den at SCALE, rounded up, for num <= den.
ratio_up(num, den) ==
  LET e == Excess(den)
  IN  IF e > 0 THEN CeilDiv((Shr(num, e) + 1) * ONE, Shr(den, e))
      ELSE CeilDiv(num * ONE, den)

\* Fault: the quotient of ratio_down rounded up.
ratio_down_ceiled(num, den) ==
  LET e == Excess(den)
  IN  IF e > 0 THEN CeilDiv(Shr(num, e) * ONE, Shr(den, e) + 1)
      ELSE CeilDiv(num * ONE, den)

\* num / den at SCALE, rounded down, for num < den.
ratio_down(num, den) ==
  LET e == Excess(den)
  IN  IF e > 0 THEN (Shr(num, e) * ONE) \div (Shr(den, e) + 1)
      ELSE (num * ONE) \div den

\* floor(3 * balance / 10), formed without the product.
DrainCap(balance) == (balance \div 10) * 3 + ((balance % 10) * 3) \div 10
-----------------------------------------------------------------------------
(***************************************************************************)
(* Amount of token_out for a given amount_in, rounded for the pool: the    *)
(* exponent down, the base up, the complement padded down, the product     *)
(* floored.                                                                *)
(***************************************************************************)
OutEnvelope(balance_in, weight_in, balance_out, weight_out, amount_in) ==
  /\ balance_in >= 1 /\ balance_out >= 1
  /\ balance_in + amount_in \in U128
  /\ check_weights(weight_in, weight_out)

\* Fault: the weights the wrong way round.
OutExponentInverted(weight_in, weight_out) == (weight_out * ONE) \div weight_in

OutExponent(weight_in, weight_out) == (weight_in * ONE) \div weight_out

\* Fault: the complement is taken to be at the scale of Fixed.
PayoutMisscaled(balance_out, share) == mul_shr(balance_out, share, SCALE)

Payout(balance_out, share) == mul_shr(balance_out, share, LN_SCALE)

calc_out_given_in(balance_in, weight_in, balance_out, weight_out, amount_in) ==
  LET exponent == OutExponent(weight_in, weight_out)
      base == ratio_up(balance_in, balance_in + amount_in)
  IN  IF ~OutEnvelope(balance_in, weight_in, balance_out, weight_out, amount_in)
      THEN Panic("envelope")
      ELSE IF base >= ONE THEN Value(0)
      ELSE IF ~InDomain("one_minus_pow_62", base, exponent) THEN Panic("domain")
      ELSE Payout(balance_out, Returns("one_minus_pow_62", base, exponent))

(***************************************************************************)
(* Amount of token_in for a given amount_out, inverted into the same       *)
(* domain: (b/(b-a))^y - 1 = (1-p)/p.  Every rounding direction flips.     *)
(***************************************************************************)
InEnvelope(balance_in, weight_in, balance_out, weight_out, amount_out) ==
  /\ balance_in >= 1 /\ balance_out >= 1
  /\ check_weights(weight_in, weight_out)
  /\ amount_out <= DrainCap(balance_out)

InExponent(weight_in, weight_out) == CeilDiv(weight_out * ONE, weight_in)

\* Fault: 1/p instead of 1/p - 1.
PaymentRatioWhole(p62) == CeilDiv(ONE_62 * ONE_62, p62)

\* (1 - p)/p at LN_SCALE, rounded up.
PaymentRatio(p62) == CeilDiv((ONE_62 - p62) * ONE_62, p62)

calc_in_given_out(balance_in, weight_in, balance_out, weight_out, amount_out) ==
  LET exponent == InExponent(weight_in, weight_out)
      base == ratio_down(balance_out - amount_out, balance_out)
      p62 == Returns("pow_62_down", base, exponent)
  IN  IF ~InEnvelope(balance_in, weight_in, balance_out, weight_out, amount_out)
      THEN Panic("envelope")
      ELSE IF amount_out = 0 THEN Value(0)
      ELSE IF ~InDomain("pow_62_down", base, exponent) THEN Panic("domain")
      ELSE IF p62 <= 0 THEN Panic("underflow")
      ELSE mul_shr_up(balance_in, PaymentRatio(p62), LN_SCALE)
=============================================================================
