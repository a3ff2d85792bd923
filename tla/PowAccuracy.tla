---------------------------- MODULE PowAccuracy -----------------------------
(***************************************************************************)
(* How close the kernel's powers are to the real base^exponent, decided    *)
(* exactly.  For an exponent of y = j/QUARTERS-ths, a value v at 2^-bits   *)
(* is below base^(j/q) iff v^q * 2^(SCALE*j) <= base^j * 2^(bits*q), and   *)
(* both sides are natural numbers.                                         *)
(***************************************************************************)
EXTENDS PowSteps, BigNat

CONSTANT QUARTERS    \* exponents are multiples of 1/QUARTERS

\* v / 2^bits <= base^exponent, for base and exponent at SCALE.
BelowPower(v, bits, base, exponent) ==
  LET j == (exponent * QUARTERS) \div ONE
  IN  \/ v < 0
      \/ NotAbove(Times(ToThe(Big(v), QUARTERS), ToThe(Big(ONE), j)),
                  Times(ToThe(Big(base), j), ToThe(Big(2^bits), QUARTERS)))

AbovePower(v, bits, base, exponent) ==
  LET j == (exponent * QUARTERS) \div ONE
  IN  NotAbove(Times(ToThe(Big(base), j), ToThe(Big(2^bits), QUARTERS)),
               Times(ToThe(Big(v), QUARTERS), ToThe(Big(ONE), j)))

Dyadic == (call.y * QUARTERS) % ONE = 0
Answered(op) == pc = "returned" /\ call.op = op /\ Dyadic

(***************************************************************************)
(* pow_down never overstates the power and pow_up never understates it:    *)
(* the two-ulp pad covers the pipeline's error and the final rounding, at  *)
(* every base, exponent and clamp (pow.rs, docs/error-analysis.md).        *)
(***************************************************************************)
PadsCoverTheError ==
  /\ Answered("pow_down") => BelowPower(ret, SCALE, call.x, call.y)
  /\ Answered("pow_up") => AbovePower(ret, SCALE, call.x, call.y)

(***************************************************************************)
(* The swap-path forms favour the pool: pow_62_down is at most the power,  *)
(* and 1 - one_minus_pow_62 is at least the power.                         *)
(***************************************************************************)
SwapFormsFavourPool ==
  /\ Answered("pow_62_down") => BelowPower(ret, LN_SCALE, call.x, call.y)
  /\ Answered("one_minus_pow_62") =>
       AbovePower(ONE_62 - ret, LN_SCALE, call.x, call.y)

(***************************************************************************)
(* The pad is twice the pipeline's error bound: the padded values are not  *)
(* further from the power than one and a half pads, and the nearest form   *)
(* is within its two ulps.                                                 *)
(***************************************************************************)
Slack == PAD_62 + PAD_62 \div 2

NoCoarserThanPad ==
  /\ Answered("pow_62_down") =>
       AbovePower(ret + Slack, LN_SCALE, call.x, call.y)
  /\ Answered("one_minus_pow_62") =>
       BelowPower(ONE_62 - ret - Slack, LN_SCALE, call.x, call.y)
  /\ Answered("pow") => /\ BelowPower(ret - 1, SCALE, call.x, call.y)
                        /\ AbovePower(ret + 1, SCALE, call.x, call.y)
=============================================================================
