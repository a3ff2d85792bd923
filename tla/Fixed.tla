-------------------------------- MODULE Fixed -------------------------------
(***************************************************************************)
(* crates/weighted-math-core/src/fixed.rs: the scale and the directed      *)
(* wrappers of Fixed, on its i128 representation.  A wrapper answers       *)
(* Value(r) or panics; the reasons name the asserts.                       *)
(***************************************************************************)
EXTENDS Wide

CONSTANT SCALE     \* fraction bits: 52

ASSUME FractionAssumption == SCALE \in Nat /\ SCALE >= 1 /\ SCALE < WIDTH - 1

ONE == 2^SCALE
ReprMax == 2^(WIDTH - 1) - 1

\* v as Repr: the same bits, read as two's complement.
AsRepr(v) == IF v > ReprMax THEN v - WORD ELSE v

\* Fault: the value is cast unchecked.
CheckedNever(outcome) ==
  IF Panicked(outcome) THEN outcome ELSE Value(AsRepr(outcome.value))

\* Fault: the largest value is refused.
CheckedEarly(outcome) ==
  IF Panicked(outcome) THEN outcome
  ELSE IF outcome.value >= ReprMax THEN Panic("repr")
  ELSE Value(AsRepr(outcome.value))

\* A wide outcome through checked_repr: panics pass, and what fits is cast.
Checked(outcome) ==
  IF Panicked(outcome) THEN outcome
  ELSE IF outcome.value > ReprMax THEN Panic("repr")
  ELSE Value(AsRepr(outcome.value))

\* nonneg on both operands, in front of everything else.
OnNonnegative(a, b, outcome) ==
  IF a < 0 \/ b < 0 THEN Panic("negative") ELSE outcome

mul_down(a, b) == OnNonnegative(a, b, Checked(mul_shr(a, b, SCALE)))
mul_up(a, b) == OnNonnegative(a, b, Checked(mul_shr_up(a, b, SCALE)))

\* Fault: the numerator may use the sign bit and one more.
NumeratorFitsLate(a) == Shr(a, WIDTH + 1 - SCALE) = 0

\* The assert that keeps a * 2^SCALE below 2^127.
NumeratorFits(a) == Shr(a, WIDTH - 1 - SCALE) = 0

numerator(a, b) ==
  OnNonnegative(a, b,
    IF b = 0 THEN Panic("zero")
    ELSE IF ~NumeratorFits(a) THEN Panic("numerator")
    ELSE Value(Wrap(a * ONE)))

div_down(a, b) ==
  LET n == numerator(a, b)
  IN  IF Panicked(n) THEN n ELSE Checked(Value(n.value \div b))

\* Fault: the quotient is floored.
div_up_floored(a, b) == div_down(a, b)

div_up(a, b) ==
  LET n == numerator(a, b)
  IN  IF Panicked(n) THEN n ELSE Checked(Value(CeilDiv(n.value, b)))

complement(a) == IF a < 0 THEN Panic("negative") ELSE Value(AtLeast(ONE - a, 0))
=============================================================================
