----------------------------- MODULE SwapCalls ------------------------------
(***************************************************************************)
(* One swap quoted by the kernel at a time, and what its callers may rely  *)
(* on: the properties that crates/harness tests at random points, here at  *)
(* every point of a scaled-down word.  A caller hands in any quote it      *)
(* likes, or it is the fuzz target (fuzz_targets/trade_invariant.rs),      *)
(* which shapes raw bytes into the envelope first.                         *)
(***************************************************************************)
EXTENDS Weighted, BigNat

CONSTANTS Quotes,    \* the requests the callers make
          Trades     \* the raw trades of the fuzz target

ASSUME QuotesAssumption ==
  /\ Quotes \subseteq [fn : {"out_given_in", "in_given_out"},
                       balance_in : U128, weight_in : U128,
                       balance_out : U128, weight_out : U128, amount : U128]
  /\ Trades \subseteq [exact_out : BOOLEAN, balance_in : U128, balance_out : U128,
                       weight_in : 0 .. 255, weight_out : 0 .. 255, amount : U128]

VARIABLES caller,  \* "any", "fuzz", or "none" yet
          quote,   \* the request, or NoQuote
          out      \* its outcome; panic = "pending" until it is known

swap_vars == <<caller, quote, out>>

Pending == Panic("pending")
NoQuote == [fn |-> "none", balance_in |-> 1, weight_in |-> 1,
            balance_out |-> 1, weight_out |-> 1, amount |-> 0]

SwapInit == caller = "none" /\ quote = NoQuote /\ out = Pending

Request == /\ caller = "none" /\ caller' = "any"
           /\ quote' \in Quotes
           /\ UNCHANGED out
-----------------------------------------------------------------------------
(***************************************************************************)
(* The fuzz target.                                                        *)
(***************************************************************************)
Balance(raw) == AtLeast(raw, 1)
Weight(raw) == (raw % MAX_RATIO) + 1

\* Fault: the weights the wrong way round.
cap_fit_inverted(balance_out, w_in, w_out) ==
  AtMost((balance_out \div (4 * w_in)) * w_out, WORD - 1)

\* exponent * drain_fraction <= 1/4, checked_mul(..).unwrap_or(u128::MAX).
cap_fit(balance_out, w_in, w_out) ==
  AtMost((balance_out \div (4 * w_out)) * w_in, WORD - 1)

\* The largest amount a raw trade may be shaped to: max_out, max_in.
MaxAmount(t) ==
  LET bo == Balance(t.balance_out)
  IN  IF t.exact_out
      THEN AtMost(DrainCap(bo), cap_fit(bo, Weight(t.weight_in), Weight(t.weight_out)))
      ELSE WORD - 1 - Balance(t.balance_in)

Shaped(t) ==
  [fn |-> IF t.exact_out THEN "in_given_out" ELSE "out_given_in",
   balance_in |-> Balance(t.balance_in), weight_in |-> Weight(t.weight_in),
   balance_out |-> Balance(t.balance_out), weight_out |-> Weight(t.weight_out),
   amount |-> 1 + (t.amount % MaxAmount(t))]

Fuzz == /\ caller = "none" /\ caller' = "fuzz"
        /\ \E t \in Trades : MaxAmount(t) # 0 /\ quote' = Shaped(t)
        /\ UNCHANGED out
-----------------------------------------------------------------------------

OutGivenIn(q, amount) ==
  calc_out_given_in(q.balance_in, q.weight_in, q.balance_out, q.weight_out, amount)

InGivenOut(q, amount) ==
  calc_in_given_out(q.balance_in, q.weight_in, q.balance_out, q.weight_out, amount)

PriceOut == /\ quote.fn = "out_given_in" /\ out = Pending
            /\ out' = OutGivenIn(quote, quote.amount)
            /\ UNCHANGED <<caller, quote>>

PriceIn == /\ quote.fn = "in_given_out" /\ out = Pending
           /\ out' = InGivenOut(quote, quote.amount)
           /\ UNCHANGED <<caller, quote>>

SwapNext == Request \/ Fuzz \/ PriceOut \/ PriceIn

SwapSpec == SwapInit /\ [][SwapNext]_swap_vars
-----------------------------------------------------------------------------
Paid(fn) == quote.fn = fn /\ out.panic = "none"

(***************************************************************************)
(* The curve value b_in^w_in * b_out^w_out does not decrease across a      *)
(* priced trade (harness::invariant_preserved, ADR 0007): no chain of      *)
(* ratio, exponent, ln, exp, pad and product rounds in the trader's favour.*)
(* So no payout is the whole reserve, and no purchase is free.             *)
(***************************************************************************)
CurveValue(bal_in, weight_in, bal_out, weight_out) ==
  Times(ToThe(Big(bal_in), weight_in), ToThe(Big(bal_out), weight_out))

\* total_in is balance_in plus what was paid in; it may be a bit wider.
invariant_preserved(q, total_in, amount_out) ==
  /\ amount_out <= q.balance_out
  /\ NotAbove(CurveValue(q.balance_in, q.weight_in, q.balance_out, q.weight_out),
              CurveValue(total_in, q.weight_in,
                         q.balance_out - amount_out, q.weight_out))

CurveNeverFalls ==
  /\ Paid("out_given_in") =>
       invariant_preserved(quote, quote.balance_in + quote.amount, out.value)
  /\ Paid("in_given_out") =>
       invariant_preserved(quote, quote.balance_in + out.value, quote.amount)

InsideEnvelope ==
  IF quote.fn = "out_given_in"
  THEN OutEnvelope(quote.balance_in, quote.weight_in,
                   quote.balance_out, quote.weight_out, quote.amount)
  ELSE InEnvelope(quote.balance_in, quote.weight_in,
                  quote.balance_out, quote.weight_out, quote.amount)

\* The lowest base the drain cap lets through, and a bound on -ln of the
\* bases from there on: 2 t of the atanh identity above 1, 2.1 t below.
LeastBase == CeilDiv(7 * ONE, 10) - 2
GreatestLn ==
  AtLeast(LN2_62 - 2 * AtanhArgument(2 * LeastBase * GUARD),
          CeilDiv(-21 * AtanhArgument(SQRT2_HALF_62), 10))

\* The largest exponent leaves a power above the pad even there: "the true
\* power is >= 0.7^99 ~ 2^-50.9 ... four times the 512 pad".
ASSUME UnderflowAssumption ==
  /\ SCALE >= 2 /\ 2 * LeastBase >= ONE /\ ATANH_COEFF_62[1] = ONE_62
  /\ \E k \in 0 .. LN_SCALE : /\ MAX_RATIO * GreatestLn < (k + 1) * LN2_62
                              /\ 10 * (PAD_62 + 1) * 2^k <= 3 * ONE_62

(***************************************************************************)
(* Inside the asserted envelope the only panic left is a payment past the  *)
(* word: pow's domain asserts and the power underflow assert are dead      *)
(* code, and an exact-in trade never panics (docs/overflow-proof.md).      *)
(***************************************************************************)
OnlyPaymentPanics ==
  /\ out.panic = "envelope" => ~InsideEnvelope
  /\ out.panic \notin {"domain", "underflow"}
  /\ out.panic \in {"unrepresentable", "overflow"} => quote.fn = "in_given_out"

\* A bound on exponent * (-ln base) of a trade within cap_fit: a quarter, the
\* two ulps of the base the exponent may scale, and 63/50 for the logarithm.
FitArg == (63 * GUARD * (ONE + 2 + 8 * MAX_RATIO)) \div 200 + 2 * MAX_RATIO

\* There the power is at least a half and the pad, so the payment at most
\* the reserve, which makes cap_fit a "sufficient condition" for its fit.
ASSUME FitAssumption ==
  /\ SCALE >= 4 /\ 3 * LeastBase >= 2 * ONE
  /\ Len(EXP_COEFF_62) >= 4 /\ 30 * EXP_COEFF_62[3] + 21 * EXP_COEFF_62[4] >= 10 * ONE_62 + 30
  /\ FitArg < LN2_62 /\ 10 * PAD_62 <= ONE_62
  /\ 26 * FitArg + 30 * (PAD_62 + 2) <= 15 * ONE_62

(***************************************************************************)
(* No fuzz input is a false crash: the shaped trade meets every assert of  *)
(* the kernel, the payment's fit among them, and the referee's weights.    *)
(* Nor does any exact-out amount within the caps that the target and the   *)
(* proptest generator exact_out_swap draw from, at any balance_in.         *)
(***************************************************************************)
ShapedTradesPay ==
  out # Pending =>
    /\ caller = "fuzz" =>
         /\ ~Panicked(out)
         /\ quote.weight_in \in 1 .. MAX_RATIO /\ quote.weight_out \in 1 .. MAX_RATIO
    /\ quote.fn = "in_given_out" /\ InsideEnvelope
         /\ quote.amount <= cap_fit(quote.balance_out, quote.weight_in, quote.weight_out)
       => ~Panicked(out)

(***************************************************************************)
(* The pool keeps no more of a trade than rounding explains: an exact-in   *)
(* trade's two ulps of the base reach the power w_in/w_out-fold, an        *)
(* exact-out trade's w_out/w_in-fold and over the power, and one ulp is    *)
(* left for exponent and pad, all of the reserve.  A payout one unit above *)
(* the allowance, or a payment one below it, would lower the curve value.  *)
(* This is the other side of CurveNeverFalls, which a kernel that pays     *)
(* nothing satisfies; the gates of tests/differential.rs allow it too.     *)
(***************************************************************************)
Allowance(reserve, ulps) == (Shr(reserve, SCALE) + 1) * ulps + 1

QuotesTight ==
  /\ Paid("out_given_in") /\ quote.amount <= quote.balance_in =>
       LET ulps == CeilDiv(2 * quote.weight_in, quote.weight_out) + 1
       IN  ~invariant_preserved(quote, quote.balance_in + quote.amount,
                out.value + Allowance(quote.balance_out, ulps) + 1)
  /\ Paid("in_given_out")
       /\ quote.amount <= cap_fit(quote.balance_out, quote.weight_in, quote.weight_out) =>
       LET ulps == CeilDiv(3 * quote.weight_out, quote.weight_in) + 1
           less == out.value - Allowance(quote.balance_in, ulps) - 1
       IN  less >= 0 => ~invariant_preserved(quote, quote.balance_in + less, quote.amount)

(***************************************************************************)
(* Either ratio errs only to the pool's side, and by less than two ulps,   *)
(* the bits lost by the pre-shift of a wide reserve included.              *)
(***************************************************************************)
\* q / ONE <= num / den
RatioAtMost(q, num, den) ==
  q < 0 \/ NotAbove(Times(Big(q), Big(den)), Times(Big(num), Big(ONE)))
RatioAtLeast(q, num, den) ==
  NotAbove(Times(Big(num), Big(ONE)), Times(Big(q), Big(den)))

RatiosBiased ==
  /\ quote.fn = "out_given_in" /\ InsideEnvelope =>
       LET total == quote.balance_in + quote.amount
           q == ratio_up(quote.balance_in, total)
       IN  RatioAtLeast(q, quote.balance_in, total)
           /\ RatioAtMost(q - 2, quote.balance_in, total)
  /\ quote.fn = "in_given_out" /\ InsideEnvelope /\ quote.amount > 0 =>
       LET rest == quote.balance_out - quote.amount
           q == ratio_down(rest, quote.balance_out)
       IN  RatioAtMost(q, rest, quote.balance_out)
           /\ RatioAtLeast(q + 2, rest, quote.balance_out)

(***************************************************************************)
(* What ratio_up's comment says of its pre-shift, "cost < 2^-73 relative": *)
(* n / d exceeds num / den by less than 2^(SCALE - 125) of num / den.      *)
(***************************************************************************)
PreShiftCostRelative ==
  quote.fn = "out_given_in" /\ InsideEnvelope =>
    LET total == quote.balance_in + quote.amount
        e == Excess(total)
        precision == 2^(WIDTH - 3 - SCALE)
    IN  e > 0 =>
          NotAbove(Times(Times(Big(Shr(quote.balance_in, e) + 1), Big(total)),
                         Big(precision)),
                   Times(Times(Big(Shr(total, e)), Big(quote.balance_in)),
                         Big(precision + 1)))

\* The least exponent of a trade stretches an ulp of the base, as a step of
\* -ln at LN_SCALE and less its roundings, to what those of exp could undo.
ASSUME SlopeAssumption == 5 * ONE <= (ONE \div MAX_RATIO) * (GUARD - 4)

(***************************************************************************)
(* "Paying more in never yields less out", and asking for more never costs *)
(* less, although the pipeline between is not monotone step by step.       *)
(***************************************************************************)
Monotone ==
  /\ Paid("out_given_in") =>
       LET more == OutGivenIn(quote, quote.amount + 1)
       IN  Panicked(more) \/ more.value >= out.value
  /\ Paid("in_given_out") =>
       LET more == InGivenOut(quote, quote.amount + 1)
       IN  Panicked(more) \/ more.value >= out.value
=============================================================================
