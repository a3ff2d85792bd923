---------------------------- MODULE Differential ----------------------------
(***************************************************************************)
(* crates/harness/tests/differential.rs: the gates take one case after     *)
(* another, with whatever the build under test answers, and panic at the   *)
(* first they do not accept.  The band gates hold a result against a truth *)
(* the oracle knows to TRUTH_BITS; the economic gates hold a payout or a   *)
(* payment against the oracle's, in wei; the arithmetic test holds a pair  *)
(* of wrappers against the exact product or quotient, and complement       *)
(* against the saturating difference.                                      *)
(***************************************************************************)
EXTENDS Grader, Referee

CONSTANTS TRUTH_BITS,    \* fraction bits of the truths
          Truths,        \* in units of 2^-TRUTH_BITS
          Results,       \* what a kernel under test may answer
          Operands,      \* of the wrappers
          Wei,           \* amounts and reserves of a trade
          Sensitivities  \* of its amount to base, exponent and power

ASSUME TruthAssumption ==
  /\ TRUTH_BITS \in Nat /\ TRUTH_BITS >= QBITS
  /\ Truths \subseteq Nat /\ Results \subseteq I128 /\ Operands \subseteq 0 .. ReprMax
  /\ Wei \subseteq U128 /\ Sensitivities \subseteq Nat

\* The powers of two the grids are spaced by, some of them past the word.
ASSUME GridAssumption ==
  2^0 = 1 /\ \A n \in 0 .. TRUTH_BITS - 1 : 2^(n + 1) = 2 * 2^n

VARIABLES pc,      \* "case", "quantize", "grade", "assert", "trade", "arith",
                   \* "passed", "panicked"
          gate,    \* a band gate, "payout", "payment", "mul", "div" or "complement"
          case,    \* truth and actual of the fixture's case, or operands and answers
          grid,    \* the truth's <<floor, ceiling>> on the grid
          band     \* the verdict on it

vars == <<pc, gate, case, grid, band>>

NoCase == [truth |-> 0, actual |-> 0]

Init == pc = "case" /\ gate = "ln" /\ case = NoCase /\ grid = <<0, 0>> /\ band = Ok(0)
-----------------------------------------------------------------------------
(***************************************************************************)
(* The gates for pow_up, pow_down, exp, ln and (as ln) expm1.              *)
(***************************************************************************)
BandGates == {"pow_up", "pow_down", "exp", "ln"}

Take == /\ pc = "case" /\ pc' = "quantize"
        /\ gate' \in BandGates
        /\ case' \in [truth : Truths, actual : Results]
        /\ UNCHANGED <<grid, band>>

Quantize == /\ pc = "quantize" /\ pc' = "grade"
            /\ grid' = q_to_scale_bounds(Shr(case.truth, TRUTH_BITS - QBITS), QBITS)
            /\ UNCHANGED <<gate, case, band>>

Grade == /\ pc = "grade" /\ pc' = "assert"
         /\ band' = CASE gate = "pow_up" ->
                           check_directional(grid, case.actual, "up", bound_ulps)
                      [] gate = "pow_down" ->
                           check_directional(grid, case.actual, "down", bound_ulps)
                      [] gate \in {"exp", "ln"} ->
                           check_two_sided(grid, case.actual, bound_ulps)
         /\ UNCHANGED <<gate, case, grid>>

\* What a gate asserts of a result besides its band.  That pow_down is at
\* most pow_up follows from the two bands.
InGateRange == /\ gate # "exp" => case.actual >= 0
               /\ gate = "pow_up" => case.actual \in 1 .. ONE

assert_band ==
  /\ pc = "assert"
  /\ pc' = IF band.kind = "ok" /\ InGateRange THEN "passed" ELSE "panicked"
  /\ UNCHANGED <<gate, case, grid, band>>
-----------------------------------------------------------------------------
(***************************************************************************)
(* kernel_out_given_in_gate and kernel_in_given_out_gate.                  *)
(***************************************************************************)
TakeTrade ==
  /\ pc = "case" /\ pc' = "trade"
  /\ \/ /\ gate' = "payout"
        /\ case' \in [truth : Wei, actual : Wei, balance : Wei,
                     sens_base : Sensitivities, sens_exp : Sensitivities]
     \/ /\ gate' = "payment"
        /\ case' \in [truth : Wei, actual : Wei, balance : Wei,
                     sens_base : Sensitivities, sens_exp : Sensitivities,
                     sens_pow : Sensitivities]
  /\ UNCHANGED <<grid, band>>

sens == checked_add(parse_u128_checked(case.sens_base),
                    parse_u128_checked(case.sens_exp))

PowTerm == wide_shr_or_max(parse_u128_checked(case.sens_pow), bound_ulps)

\* bound_wei: the sensitivities doubled for curvature, the kernel's own error.
BoundWei ==
  LET inputs == Shr(sens, SCALE - 1)
      kernel == Shr(case.balance, SCALE) * bound_ulps
  IN  saturating_add(saturating_add(
        IF gate = "payout" THEN inputs ELSE saturating_add(inputs, PowTerm),
        kernel), 1)

DirectionOnly ==
  sens = None \/ (gate = "payment" /\ parse_u128_checked(case.sens_pow) = None)

\* The pool's loss by a wrong amount, or its gain; one of them is negative.
Loss == IF gate = "payout" THEN case.actual - case.truth ELSE case.truth - case.actual

TradeVerdict ==
  IF Loss > 0 THEN WrongSide(Loss)
  ELSE IF gate = "payout" /\ case.actual > case.balance THEN TooFar(case.actual)
  ELSE IF ~DirectionOnly /\ -Loss > BoundWei THEN TooFar(-Loss)
  ELSE Ok(-Loss)

JudgeTrade == /\ pc = "trade"
              /\ band' = TradeVerdict
              /\ pc' = IF TradeVerdict.kind = "ok" THEN "passed" ELSE "panicked"
              /\ UNCHANGED <<gate, case, grid>>
-----------------------------------------------------------------------------
(***************************************************************************)
(* kernel_arith_wrappers, with answers at or next to the right ones.  The  *)
(* three checks it makes of a case say nothing of one another.             *)
(***************************************************************************)
Near(x) == {x - 1, x, x + 1} \cap 0 .. ReprMax

Floored(f, a, b) == IF f = "mul" THEN (a * b) \div ONE ELSE (a * ONE) \div b
Ceiled(f, a, b) == IF f = "mul" THEN CeilDiv(a * b, ONE) ELSE CeilDiv(a * ONE, b)

TakeOperands ==
  /\ pc = "case" /\ pc' = "arith"
  /\ \E f \in {"mul", "div"}, a \in Operands, b \in Operands :
       /\ f = "div" => b # 0                  \* the test skips b = 0
       /\ gate' = f
       /\ \E down \in Near(Floored(f, a, b)), up \in Near(Ceiled(f, a, b)) :
            case' = [a |-> a, b |-> b, down |-> down, up |-> up]
  /\ UNCHANGED <<grid, band>>

TakeComplement ==
  /\ pc = "case" /\ pc' = "arith" /\ gate' = "complement"
  /\ \E a \in Operands : \E comp \in Near(AtLeast(ONE - a, 0)) :
       case' = [a |-> a, comp |-> comp]
  /\ UNCHANGED <<grid, band>>

verdict ==
  \/ gate = "mul" /\ mul_verdict(case.a, case.b, case.down, case.up)
  \/ gate = "div" /\ div_verdict(case.a, case.b, case.down, case.up)
  \/ gate = "complement" /\ complement_verdict(case.a, case.comp)

JudgeArith ==
  /\ pc = "arith"
  /\ pc' = IF verdict THEN "passed" ELSE "panicked"
  /\ UNCHANGED <<gate, case, grid, band>>

\* The loop goes on; nothing of the case is kept.
NextCase == /\ pc = "passed" /\ pc' = "case"
            /\ gate' = "ln" /\ case' = NoCase /\ grid' = <<0, 0>> /\ band' = Ok(0)

Next == \/ Take \/ Quantize \/ Grade \/ assert_band
        \/ TakeTrade \/ JudgeTrade
        \/ TakeOperands \/ TakeComplement \/ JudgeArith
        \/ NextCase

Spec == Init /\ [][Next]_vars
-----------------------------------------------------------------------------
Trade == gate \in {"payout", "payment"}
Accepted == pc = "passed" /\ gate \in BandGates
Alarm == pc = "panicked" /\ gate \in BandGates

\* The numbers a band is about, at TRUTH_BITS.
Ulp == 2^(TRUTH_BITS - SCALE)
FixtureUlp == 2^(TRUTH_BITS - QBITS)
Result == case.actual * Ulp
Truth == case.truth

\* ONE times what the oracle's sensitivities let a trade's amount be off by.
ExactBound ==
  2 * (case.sens_base + case.sens_exp)
    + bound_ulps * (case.balance + IF gate = "payment" THEN case.sens_pow ELSE 0)

(***************************************************************************)
(* A gate accepts nothing on the fund-leak side: pow_down at most the      *)
(* truth itself, pow_up no further below it than the fixture's own floor,  *)
(* a payout at most the true one and the reserve, a payment no less than   *)
(* the true one, also where the magnitude is not judged at all.            *)
(***************************************************************************)
DirectionNeverMissed ==
  /\ Accepted => /\ gate = "pow_down" => Result <= Truth
                 /\ gate = "pow_up" => Result > Truth - FixtureUlp
  /\ pc = "passed" /\ Trade =>
       IF gate = "payment" THEN case.actual >= case.truth
       ELSE case.actual <= case.truth /\ case.actual <= case.balance

(***************************************************************************)
(* A panic of a gate is a fault of the kernel: a result that is really on  *)
(* the wrong side, really further than the bound, or outside the range; an *)
(* amount off by more than its sensitivities, to the wei that each floored *)
(* term may take, in spite of the saturating sums and the 256-bit product. *)
(***************************************************************************)
NoFalseAlarm ==
  /\ Alarm =>
       \/ band.kind = "wrong_side" /\ IF gate = "pow_up" THEN Result < Truth
                                      ELSE Result > Truth
       \/ band.kind = "too_far" /\ \/ Result - Truth > bound_ulps * Ulp - FixtureUlp
                                   \/ Truth - Result > bound_ulps * Ulp
       \/ band.kind = "ok" /\ ~InGateRange
  /\ pc = "panicked" /\ Trade =>
       \/ Loss > 0
       \/ gate = "payout" /\ case.actual > case.balance
       \/ (bound_ulps - Loss) * ONE > ExactBound

(***************************************************************************)
(* An accepted result is less than bound_ulps() + 1 ulps from the truth:   *)
(* the ulp the grid takes comes on top of the bound.  An accepted amount   *)
(* is within its sensitivities and a wei, unless they are past the word.   *)
(***************************************************************************)
AcceptedIsClose ==
  /\ Accepted => /\ Result - Truth < (bound_ulps + 1) * Ulp
                 /\ Truth - Result < (bound_ulps + 1) * Ulp
  /\ pc = "passed" /\ Trade =>
       \/ case.sens_base + case.sens_exp >= WORD
       \/ gate = "payment" /\ case.sens_pow >= WORD
       \/ (-Loss - 1) * ONE <= ExactBound

(***************************************************************************)
(* The arithmetic test passes exactly the correctly rounded answers: no    *)
(* wrapper that is one unit off, on either side, gets past it, and no      *)
(* right one fails, whatever carries the 256-bit helpers go through.       *)
(***************************************************************************)
VerdictExact ==
  pc \in {"passed", "panicked"} =>
    /\ gate \in {"mul", "div"} =>
         ((pc = "passed") <=> /\ case.down = Floored(gate, case.a, case.b)
                              /\ case.up = Ceiled(gate, case.a, case.b))
    /\ gate = "complement" =>
         ((pc = "passed") <=> case.comp = AtLeast(ONE - case.a, 0))

(***************************************************************************)
(* docs/adr/0001: "an _up wrapper landing below the reference" fails       *)
(* regardless of magnitude.                                                *)
(***************************************************************************)
UpNeverBelowReference == Accepted /\ gate = "pow_up" => Result >= Truth
=============================================================================
