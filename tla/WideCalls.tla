------------------------------ MODULE WideCalls -----------------------------
(***************************************************************************)
(* Calls of the widening multiply: a caller passes two words and a shift   *)
(* and gets the floor or the ceiling of the scaled product, or a panic.    *)
(***************************************************************************)
EXTENDS Wide

CONSTANT Operands      \* the words the callers pass

ASSUME OperandsAssumption == Operands \subseteq U128

VARIABLES fn,          \* the function called: "none", "floor" or "ceil"
          a, b, shift, \* its arguments
          out          \* what it returned; panic = "pending" until it did

vars == <<fn, a, b, shift, out>>

Pending == Panic("pending")

Init == /\ fn = "none"
        /\ a = 0 /\ b = 0 /\ shift = 1
        /\ out = Pending

\* Fault: a shift by nothing passes the debug_assert.
CallUnshifted == /\ fn = "none"
                 /\ fn' \in {"floor", "ceil"}
                 /\ a' \in Operands /\ b' \in Operands
                 /\ shift' \in 0 .. WIDTH - 1
                 /\ UNCHANGED out

\* A caller's request.  Both forms debug_assert 0 < shift < 128.
Call == /\ fn = "none"
        /\ fn' \in {"floor", "ceil"}
        /\ a' \in Operands /\ b' \in Operands
        /\ shift' \in 1 .. WIDTH - 1
        /\ UNCHANGED out

Floor == /\ fn = "floor" /\ out = Pending
         /\ out' = mul_shr(a, b, shift)
         /\ UNCHANGED <<fn, a, b, shift>>

Ceiling == /\ fn = "ceil" /\ out = Pending
           /\ out' = mul_shr_up(a, b, shift)
           /\ UNCHANGED <<fn, a, b, shift>>

Next == Call \/ Floor \/ Ceiling

Spec == Init /\ [][Next]_vars
-----------------------------------------------------------------------------
TypeOK ==
  /\ fn \in {"none", "floor", "ceil"}
  /\ a \in U128 /\ b \in U128
  /\ shift \in 1 .. WIDTH - 1
  /\ out.panic \in {"none", "pending", "unrepresentable", "overflow"}
  /\ out.value \in U128

(***************************************************************************)
(* The two words of mul_wide are the exact double-width product: no carry  *)
(* is lost between the half-word products, and neither the discarded high  *)
(* limb of mid << 64 nor the high-word sum loses a bit.                    *)
(***************************************************************************)
ProductExact ==
  LET w == mul_wide(a, b)
  IN  w[1] \in U128 /\ w[2] \in U128 /\ w[1] * WORD + w[2] = a * b

(***************************************************************************)
(* mul_shr answers exactly floor(a*b / 2^shift), and panics exactly when   *)
(* that value is no u128: the fit assert is neither late nor early.        *)
(***************************************************************************)
FloorExact ==
  fn = "floor" /\ out # Pending =>
    LET true_floor == Shr(a * b, shift)
    IN  out = IF true_floor \in U128 THEN Value(true_floor)
              ELSE Panic("unrepresentable")

(***************************************************************************)
(* What mul_shr_up returns is never below the true product: the carry of   *)
(* the rounding step is an answer or a panic, never a wrapped word.  This  *)
(* is docs/overflow-proof.md on mul_shr_up, "the + 1 cannot wrap".         *)
(***************************************************************************)
CeilingNeverWraps ==
  fn = "ceil" /\ out.panic = "none" => out.value * 2^shift >= a * b

(***************************************************************************)
(* In a build with overflow checks, mul_shr_up answers exactly the ceiling *)
(* whenever it is a u128 and panics otherwise.                             *)
(***************************************************************************)
CeilingExact ==
  fn = "ceil" /\ out # Pending =>
    LET true_ceil == CeilDiv(a * b, 2^shift)
    IN  IF true_ceil \in U128 THEN out = Value(true_ceil) ELSE Panicked(out)
=============================================================================
