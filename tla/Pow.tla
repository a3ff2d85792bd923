-------------------------------- MODULE Pow ---------------------------------
(***************************************************************************)
(* crates/weighted-math-core/src/pow.rs as functions: what each entry      *)
(* point of the power kernel returns.  The two normalising loops appear    *)
(* here by their result, and the Horner loops as recursive functions;      *)
(* PowSteps has the loops themselves.  Fixed-point values are their i128   *)
(* representations.                                                        *)
(***************************************************************************)
EXTENDS Fixed, Sequences

CONSTANTS LN_SCALE,        \* fraction bits of the pipeline: 62
          MAX_RATIO,       \* largest exponent: 99
          LN2_62,          \* ln 2 at LN_SCALE
          ESTIMATE_BITS,   \* fraction bits of the reciprocal: 30
          INV_LN2_30,      \* 1 / ln 2 at ESTIMATE_BITS
          SQRT2_HALF_62,   \* sqrt(2)/2 at LN_SCALE
          ATANH_COEFF_62,  \* 1/(2i+1) at LN_SCALE, from i = 0
          EXP_COEFF_62,    \* (-1)^i / i! at LN_SCALE, from i = 0
          POW_PAD_ULPS,    \* 2
          PAD_62,          \* 512
          SATURATE_AT,     \* exp is 0 from this argument on: 64
          ARG_ENVELOPE     \* exp_inner's debug_assert: 2^76

ASSUME ScaleAssumption ==
  /\ SCALE \in Nat /\ LN_SCALE \in Nat /\ SCALE >= 1 /\ SCALE + 2 <= LN_SCALE
  /\ 2 * LN_SCALE + 2 <= WIDTH
  /\ MAX_RATIO \in Nat /\ MAX_RATIO > 0 /\ SATURATE_AT \in Nat
  /\ ESTIMATE_BITS \in Nat /\ ESTIMATE_BITS + LN_SCALE <= WIDTH

ASSUME PadAssumption ==
  POW_PAD_ULPS \in Nat /\ POW_PAD_ULPS > 0 /\ PAD_62 \in Nat /\ PAD_62 > 0

ONE_62 == 2^LN_SCALE
GUARD == 2^(LN_SCALE - SCALE)      \* one ulp at SCALE, at LN_SCALE
EXP_SATURATION == SATURATE_AT * ONE

\* How far the tables may be from the numbers they round, as far as sizes go.
\* 1/2 <= ln 2 <= 7/10 and 2/3 <= sqrt(2)/2 <= 3/4.
ASSUME LogarithmAssumption ==
  /\ LN2_62 \in Nat /\ 2 * LN2_62 >= ONE_62 /\ 10 * LN2_62 <= 7 * ONE_62
  /\ SQRT2_HALF_62 \in Nat
  /\ 3 * SQRT2_HALF_62 >= 2 * ONE_62 /\ 4 * SQRT2_HALF_62 <= 3 * ONE_62
  /\ ATANH_COEFF_62 \in Seq(0 .. ONE_62) /\ Len(ATANH_COEFF_62) >= 1

\* The exp series alternates and each coefficient outweighs seven tenths of
\* the next one, with a unit to spare for the floor.
ASSUME ExponentialAssumption ==
  /\ EXP_COEFF_62 \in Seq(-ONE_62 .. ONE_62) /\ Len(EXP_COEFF_62) >= 1
  /\ EXP_COEFF_62[1] = ONE_62
  /\ \A j \in 1 .. Len(EXP_COEFF_62) :
       IF j % 2 = 1 THEN EXP_COEFF_62[j] >= 0 ELSE EXP_COEFF_62[j] <= 0
  /\ \A j \in 1 .. Len(EXP_COEFF_62) - 1 :
       IF j % 2 = 1 THEN 10 * EXP_COEFF_62[j] >= 10 - 7 * EXP_COEFF_62[j + 1]
       ELSE -10 * EXP_COEFF_62[j] >= 10 + 7 * EXP_COEFF_62[j + 1]

\* exp_inner's envelope holds what its callers pass, its product fits, and
\* over all of it the reciprocal's rounding costs less than one multiple.
ASSUME EnvelopeAssumption ==
  /\ ARG_ENVELOPE \in Nat /\ INV_LN2_30 \in Nat
  /\ MAX_RATIO * SCALE * LN2_62 < ARG_ENVELOPE
  /\ SATURATE_AT * ONE_62 <= ARG_ENVELOPE
  /\ ARG_ENVELOPE * INV_LN2_30 <= WORD /\ ARG_ENVELOPE <= ONE_62 * ONE_62
  /\ LET unit == 2^(ESTIMATE_BITS + LN_SCALE)
         reach == ARG_ENVELOPE \div LN2_62 + 1
     IN  /\ (INV_LN2_30 * LN2_62 - unit) * reach <= unit
         /\ (unit - INV_LN2_30 * LN2_62) * reach <= unit
-----------------------------------------------------------------------------
(***************************************************************************)
(* The pipeline.                                                           *)
(***************************************************************************)
\* One iteration of either Horner loop.
HornerStep(c, acc, v) == c + Shr(acc * v, LN_SCALE)

Horner(table, v) ==
  LET from[i \in 1 .. Len(table)] ==
        IF i = Len(table) THEN table[i]
        ELSE HornerStep(table[i], from[i + 1], v)
  IN  from[1]

\* t = (m-1)/(m+1), the only division of a pow.
AtanhArgument(m) == TruncDiv((m - ONE_62) * ONE_62, m + ONE_62)
Square(t) == Shr(t * t, LN_SCALE)

\* Fault: the factor 2 of the atanh identity is applied twice.
LnMantissaDoubled(t, p) == Shr(t * p, LN_SCALE - 2)

\* ln m = 2 t P(t^2), from the Horner value p = P(t^2).
LnMantissa(t, p) == Shr(t * p, LN_SCALE - 1)

\* How often x must be doubled to reach [sqrt(2)/2, sqrt(2)).
Doublings(x) ==
  CHOOSE k \in 0 .. SCALE :
    /\ x * GUARD * 2^k >= SQRT2_HALF_62
    /\ k > 0 => x * GUARD * 2^(k - 1) < SQRT2_HALF_62

\* -ln(x) at LN_SCALE, for x in (0, 1] at SCALE.
ln_inner[x \in 1 .. ONE] ==
  LET k == Doublings(x)
      t == AtanhArgument(x * GUARD * 2^k)
  IN  k * LN2_62 - LnMantissa(t, Horner(ATANH_COEFF_62, Square(t)))

\* exp(-neg_arg) at LN_SCALE.
exp_inner[neg_arg \in Nat] ==
  LET k == neg_arg \div LN2_62
  IN  IF k > LN_SCALE THEN 0
      ELSE Shr(Horner(EXP_COEFF_62, neg_arg % LN2_62), k)

\* exponent * (-ln base), back at LN_SCALE.
ArgProduct(exponent, neg_ln) == mul_shr(exponent, neg_ln, SCALE)

\* base^exponent at LN_SCALE, unpadded and unrounded.
pow_inner(base, exponent) ==
  exp_inner[ArgProduct(exponent, ln_inner[base]).value]

to_scale_nearest(v62) == (v62 + GUARD \div 2) \div GUARD

\* What keeps the power monotone across the bounds of the range reductions,
\* beyond the guard bits: the exp coefficients fall off fast enough from the
\* second on, the series just below ln 2 comes within a unit of a half, and
\* the logarithms at the ends of the sqrt(2) window are less than ln 2 apart
\* by an ulp.
ASSUME SeamAssumption ==
  /\ SCALE + 6 <= LN_SCALE /\ 100 * LN2_62 >= 69 * ONE_62
  /\ ATANH_COEFF_62[1] = ONE_62
  /\ Len(EXP_COEFF_62) >= 3 /\ EXP_COEFF_62[2] = -ONE_62 /\ 2 * EXP_COEFF_62[3] <= ONE_62
  /\ \A j \in 2 .. Len(EXP_COEFF_62) - 1 :
       IF j % 2 = 1 THEN 10 * EXP_COEFF_62[j] >= 10 - 14 * EXP_COEFF_62[j + 1]
       ELSE -10 * EXP_COEFF_62[j] >= 10 + 14 * EXP_COEFF_62[j + 1]
  /\ 2 * Horner(EXP_COEFF_62, LN2_62 - 1) + 2 >= ONE_62
  /\ LET log(m) == LET t == AtanhArgument(m)
                   IN  Shr(t * Horner(ATANH_COEFF_62, Square(t)), LN_SCALE - 1)
         least == CeilDiv(SQRT2_HALF_62, GUARD) * GUARD
         largest == ((2 * SQRT2_HALF_62 - 1) \div (2 * GUARD)) * (2 * GUARD)
     IN  log(largest) + GUARD <= log(least) + LN2_62
-----------------------------------------------------------------------------
(***************************************************************************)
(* The entry points: op(x) for ln, exp and expm1, op(x, y) for the powers. *)
(***************************************************************************)
ExpOps == {"exp", "expm1"}
RawOps == {"pow", "pow_down", "pow_up"}            \* through pow_raw
Ops62 == {"one_minus_pow_62", "pow_62_down"}       \* through pow_62
PowOps == RawOps \cup Ops62
Ops == {"ln"} \cup ExpOps \cup PowOps

\* The asserts at the top of an entry point.
InDomain(op, x, y) ==
  /\ op \in ExpOps => x <= 0
  /\ op \notin ExpOps => x > 0 /\ x <= ONE
  /\ op \in Ops62 => x < ONE
  /\ op \in PowOps => y > 0 /\ y <= MAX_RATIO * ONE

Saturates(op, x) == op \in ExpOps /\ x <= -EXP_SATURATION
\* Fault: expm1 saturates where exp does.
SaturatedValueZero(op) == 0

SaturatedValue(op) == IF op = "exp" THEN 0 ELSE -ONE

\* Faults: the pads left out, not clamped, applied twice.
RoundedUnpadded(op, v) ==
  CASE op = "ln"       -> -to_scale_nearest(v)
    [] op = "expm1"    -> -to_scale_nearest(ONE_62 - v)
    [] op \in {"exp"} \cup RawOps -> to_scale_nearest(v)
    [] op = "pow_62_down"      -> v
    [] op = "one_minus_pow_62" -> ONE_62 - v

RoundedUnclamped(op, v) ==
  CASE op = "ln"       -> -to_scale_nearest(v)
    [] op = "expm1"    -> -to_scale_nearest(ONE_62 - v)
    [] op \in {"exp", "pow"} -> to_scale_nearest(v)
    [] op = "pow_down" -> to_scale_nearest(v) - POW_PAD_ULPS
    [] op = "pow_up"   -> to_scale_nearest(v) + POW_PAD_ULPS
    [] op = "pow_62_down"      -> v - PAD_62
    [] op = "one_minus_pow_62" -> ONE_62 - v - PAD_62

RoundedTwicePadded(op, v) ==
  CASE op = "ln"       -> -to_scale_nearest(v)
    [] op = "expm1"    -> -to_scale_nearest(ONE_62 - v)
    [] op \in {"exp", "pow"} -> to_scale_nearest(v)
    [] op = "pow_down" -> AtLeast(to_scale_nearest(v) - 2 * POW_PAD_ULPS, 0)
    [] op = "pow_up"   -> AtMost(to_scale_nearest(v) + 2 * POW_PAD_ULPS, ONE)
    [] op = "pow_62_down"      -> AtLeast(v - 2 * PAD_62, 0)
    [] op = "one_minus_pow_62" -> AtLeast(ONE_62 - v - 2 * PAD_62, 0)

\* The last line of an entry point, on the pipeline's value v.
Rounded(op, v) ==
  CASE op = "ln"       -> -to_scale_nearest(v)
    [] op = "expm1"    -> -to_scale_nearest(ONE_62 - v)
    [] op \in {"exp", "pow"} -> to_scale_nearest(v)
    [] op = "pow_down" -> AtLeast(to_scale_nearest(v) - POW_PAD_ULPS, 0)
    [] op = "pow_up"   -> AtMost(to_scale_nearest(v) + POW_PAD_ULPS, ONE)
    [] op = "pow_62_down"      -> AtLeast(v - PAD_62, 0)
    [] op = "one_minus_pow_62" -> AtLeast(ONE_62 - v - PAD_62, 0)

\* What an in-domain call returns.
Returns(op, x, y) ==
  CASE Saturates(op, x) -> SaturatedValue(op)
    [] op \in ExpOps /\ ~Saturates(op, x) -> Rounded(op, exp_inner[-x * GUARD])
    [] op = "ln"     -> Rounded(op, ln_inner[x])
    [] op \in PowOps -> Rounded(op, pow_inner(x, y))
=============================================================================
