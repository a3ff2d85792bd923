----------------------------- MODULE FixedCalls -----------------------------
(***************************************************************************)
(* A caller that carries an interval through a calculation with the        *)
(* directed wrappers: low is formed by the _down wrappers, high by the _up *)
(* ones, and complement swaps them.  top/bottom is the number they bound,  *)
(* a rational no step rounds.                                              *)
(***************************************************************************)
EXTENDS Fixed

CONSTANTS Starts,      \* the values a calculation starts from
          Factors,     \* the values it multiplies and divides by
          MAX_STEPS    \* bounds its length

ASSUME CallerAssumption == /\ Starts \subseteq I128 /\ Factors \subseteq I128
                           /\ MAX_STEPS \in Nat

VARIABLES low, high,       \* the interval, at SCALE
          top, bottom,     \* the number: top / bottom
          step,            \* what was done last: [op, by, low, high] before it
          steps, panicked

vars == <<low, high, top, bottom, step, steps, panicked>>

NoStep == [op |-> "start", by |-> 0, low |-> 0, high |-> 0]

Init == /\ \E x \in Starts : low = x /\ high = x /\ top = x
        /\ bottom = ONE /\ step = NoStep /\ steps = 0 /\ panicked = "none"

\* Both ends take the outcomes down and up; a panic in either ends the program.
Move(op, b, down, up) ==
  /\ panicked = "none" /\ steps < MAX_STEPS
  /\ steps' = steps + 1
  /\ step' = [op |-> op, by |-> b, low |-> low, high |-> high]
  /\ IF Panicked(down) \/ Panicked(up)
     THEN /\ panicked' = IF Panicked(down) THEN down.panic ELSE up.panic
          /\ UNCHANGED <<low, high>>
     ELSE low' = down.value /\ high' = up.value /\ UNCHANGED panicked

Multiply == \E b \in Factors :
  /\ Move("mul", b, mul_down(low, b), mul_up(high, b))
  /\ top' = top * b /\ bottom' = bottom * ONE

Divide == \E b \in Factors :
  /\ Move("div", b, div_down(low, b), div_up(high, b))
  /\ IF b > 0 THEN top' = top * ONE /\ bottom' = bottom * b
     ELSE UNCHANGED <<top, bottom>>

\* Where the wrapper saturates, so does the number.
Complement ==
  /\ Move("complement", 0, complement(high), complement(low))
  /\ top' = AtLeast(bottom - top, 0) /\ UNCHANGED bottom

Next == Multiply \/ Divide \/ Complement

Spec == Init /\ [][Next]_vars
-----------------------------------------------------------------------------
\* A wrapper's answer is one that every wrapper accepts: not negative.
TypeOK ==
  /\ low \in I128 /\ high \in I128
  /\ steps > 0 /\ panicked = "none" => low >= 0 /\ high >= 0
  /\ steps \in 0 .. MAX_STEPS
  /\ top \in Int /\ bottom \in Nat \ {0}
  /\ step.op \in {"start", "mul", "div", "complement"}
  /\ panicked \in {"none", "unrepresentable", "overflow", "repr", "negative",
                   "zero", "numerator"}

(***************************************************************************)
(* The directions compose: after any sequence of wrappers the number lies  *)
(* between the _down and the _up value.  One rounding to the wrong side    *)
(* anywhere (or a complement that does not swap them) breaks it.           *)
(***************************************************************************)
Brackets ==
  panicked = "none" => /\ low * bottom <= top * ONE
                       /\ top * ONE <= high * bottom

(***************************************************************************)
(* Each wrapper is correctly rounded, as kernel_arith_wrappers of          *)
(* tests/differential.rs checks on its fixtures: the exact floor, the      *)
(* exact ceiling, and ONE - x clamped at zero.                             *)
(***************************************************************************)
CorrectlyRounded ==
  panicked = "none" =>
    /\ step.op = "mul" => /\ low = (step.low * step.by) \div ONE
                          /\ high = CeilDiv(step.high * step.by, ONE)
    /\ step.op = "div" => /\ low = (step.low * ONE) \div step.by
                          /\ high = CeilDiv(step.high * ONE, step.by)
    /\ step.op = "complement" =>
         /\ low = IF step.high > ONE THEN 0 ELSE ONE - step.high
         /\ high = IF step.low > ONE THEN 0 ELSE ONE - step.low

(***************************************************************************)
(* A wrapper panics only where its contract says: a negative operand, a    *)
(* zero divisor, a dividend of 2^(127-SCALE) or more, or a result past     *)
(* Repr.  No other operand is lost to an assert that fires early.          *)
(***************************************************************************)
PanicsOnlyByContract ==
  panicked # "none" =>
    \/ step.low < 0 \/ step.by < 0
    \/ step.op = "mul" /\ CeilDiv(step.high * step.by, ONE) > ReprMax
    \/ step.op = "div" /\ step.by = 0
    \/ step.op = "div" /\ step.high * ONE > ReprMax
=============================================================================
