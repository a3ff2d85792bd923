----------------------------- MODULE Wide_proofs ----------------------------
(***************************************************************************)
(* What every call of WideCalls answers, from the lemmas of WideTheorems   *)
(* once the arguments are known to be words and a legal shift.             *)
(***************************************************************************)
EXTENDS WideCalls, WideTheorems

Arguments == a \in U128 /\ b \in U128 /\ shift \in 1 .. WIDTH - 1

Answered == /\ fn = "floor" /\ out # Pending => out = mul_shr(a, b, shift)
            /\ fn = "ceil" /\ out # Pending => out = mul_shr_up(a, b, shift)
            /\ fn = "none" => out = Pending

WideInv == Arguments /\ Answered

\* Arguments stay words, and an answer is the function's value.
LEMMA WideInvariant == Spec => []WideInv
<1>1. Init => WideInv
  BY LimbSquared, WidthAssumption
     DEF Init, WideInv, Arguments, Answered, U128, Pending
<1>2. WideInv /\ [Next]_vars => WideInv'
  <2> SUFFICES ASSUME WideInv, [Next]_vars PROVE WideInv'
    OBVIOUS
  <2>1. CASE Call
    BY <2>1, OperandsAssumption DEF Call, WideInv, Arguments, Answered
  <2>2. CASE Floor
    BY <2>2 DEF Floor, WideInv, Arguments, Answered
  <2>3. CASE Ceiling
    BY <2>3 DEF Ceiling, WideInv, Arguments, Answered
  <2>4. CASE UNCHANGED vars
    BY <2>4 DEF vars, WideInv, Arguments, Answered
  <2> QED BY <2>1, <2>2, <2>3, <2>4 DEF Next
<1> QED BY <1>1, <1>2, PTL DEF Spec

(***************************************************************************)
(* Whatever words are multiplied, mul_wide's two words are their exact     *)
(* product (wide.rs, docs/overflow-proof.md "The widening primitive").     *)
(***************************************************************************)
THEOREM WideProductExact == Spec => []ProductExact
<1>1. WideInv => ProductExact
  <2> SUFFICES ASSUME WideInv PROVE ProductExact
    OBVIOUS
  <2>1. a \in U128 /\ b \in U128
    BY DEF WideInv, Arguments
  <2>2. /\ mul_wide(a, b)[1] \in U128 /\ mul_wide(a, b)[2] \in U128
        /\ (mul_wide(a, b)[1] * WORD) + mul_wide(a, b)[2] = a * b
    BY <2>1, MulWideExact
  <2> QED BY <2>2 DEF ProductExact
<1> QED BY <1>1, WideInvariant, PTL

(***************************************************************************)
(* mul_shr answers the floor of the scaled product and panics exactly when *)
(* that is no word.                                                        *)
(***************************************************************************)
THEOREM WideFloorExact == Spec => []FloorExact
<1>1. WideInv => FloorExact
  <2> SUFFICES ASSUME WideInv, fn = "floor", out # Pending
               PROVE  out = IF Shr(a * b, shift) \in U128
                            THEN Value(Shr(a * b, shift))
                            ELSE Panic("unrepresentable")
    BY DEF FloorExact
  <2>1. a \in U128 /\ b \in U128 /\ shift \in 1 .. WIDTH - 1
    BY DEF WideInv, Arguments
  <2>2. out = mul_shr(a, b, shift)
    BY DEF WideInv, Answered
  <2> QED BY <2>1, <2>2, MulShrFloor
<1> QED BY <1>1, WideInvariant, PTL

(***************************************************************************)
(* Built with overflow checks, mul_shr_up answers the ceiling of the       *)
(* scaled product or panics.                                               *)
(***************************************************************************)
THEOREM WideCeilingExact ==
  ASSUME OVERFLOW_CHECKS
  PROVE  Spec => []CeilingExact
<1>1. WideInv => CeilingExact
  <2> SUFFICES ASSUME WideInv, fn = "ceil", out # Pending
               PROVE  IF CeilDiv(a * b, 2^shift) \in U128
                      THEN out = Value(CeilDiv(a * b, 2^shift))
                      ELSE Panicked(out)
    BY DEF CeilingExact
  <2>1. a \in U128 /\ b \in U128 /\ shift \in 1 .. WIDTH - 1
    BY DEF WideInv, Arguments
  <2>2. out = mul_shr_up(a, b, shift)
    BY DEF WideInv, Answered
  <2> QED BY <2>1, <2>2, MulShrUpCeiling
<1> QED BY <1>1, WideInvariant, PTL

\* An answer of either form is a word, or no word and one of two reasons.
IsAnswer(o) == /\ o.panic \in {"none", "unrepresentable", "overflow"}
               /\ o.value \in U128

LEMMA AnswersAreWords ==
  ASSUME NEW x \in U128, NEW y \in U128, NEW s \in 1 .. WIDTH - 1
  PROVE  IsAnswer(mul_shr(x, y, s)) /\ IsAnswer(mul_shr_up(x, y, s))
<1> DEFINE f == Recombined(x, y, s)
           up == IF Discards(x, y, s) THEN 1 ELSE 0
<1>1. WORD \in Nat /\ WORD > 0
  BY LimbSquared
<1>2. IsAnswer(Panic("unrepresentable")) /\ IsAnswer(Panic("overflow"))
  BY <1>1 DEF IsAnswer, Panic, U128
<1>3. \A v \in U128 : IsAnswer(Value(v))
  BY DEF IsAnswer, Value
<1>4. ProductFits(x, y, s) => f \in U128
  BY RecombinedExact
<1>5. up \in {0, 1}
  OBVIOUS
<1>6. mul_shr(x, y, s) = IF ProductFits(x, y, s) THEN Value(f)
                         ELSE Panic("unrepresentable")
  BY DEF mul_shr
<1>7. mul_shr_up(x, y, s) = IF ProductFits(x, y, s) THEN Add(f, up)
                            ELSE Panic("unrepresentable")
  BY DEF mul_shr_up
<1> HIDE DEF f, up
<1>8. ASSUME f \in U128 PROVE IsAnswer(Add(f, up))
  <2>1. f + up \in Nat
    BY <1>5, <1>8, <1>1 DEF U128
  <2>2. Wrap(f + up) \in U128
    BY <2>1, <1>1 DEF Wrap, U128
  <2> QED BY <2>2, <1>2, <1>3 DEF Add
<1> QED BY <1>2, <1>3, <1>4, <1>6, <1>7, <1>8

(***************************************************************************)
(* Whichever way the build treats overflow, both forms answer a word or    *)
(* one of their two panics.                                                *)
(***************************************************************************)
THEOREM WideTypes == Spec => []TypeOK
<1> DEFINE Inv == WideInv /\ fn \in {"none", "floor", "ceil"} /\ TypeOK
<1>1. Init => Inv
  BY LimbSquared, WidthAssumption
     DEF Init, WideInv, Arguments, Answered, TypeOK, U128, Pending, Panic
<1>2. Inv /\ [Next]_vars => Inv'
  <2> SUFFICES ASSUME Inv, [Next]_vars PROVE Inv'
    OBVIOUS
  <2>1. CASE Call
    BY <2>1, OperandsAssumption DEF Call, WideInv, Arguments, Answered, TypeOK
  <2>2. CASE Floor
    <3>1. IsAnswer(out')
      BY <2>2, AnswersAreWords DEF Floor, WideInv, Arguments
    <3> QED BY <2>2, <3>1 DEF Floor, WideInv, Arguments, Answered, TypeOK, IsAnswer
  <2>3. CASE Ceiling
    <3>1. IsAnswer(out')
      BY <2>3, AnswersAreWords DEF Ceiling, WideInv, Arguments
    <3> QED BY <2>3, <3>1 DEF Ceiling, WideInv, Arguments, Answered, TypeOK, IsAnswer
  <2>4. CASE UNCHANGED vars
    BY <2>4 DEF vars, WideInv, Arguments, Answered, TypeOK
  <2> QED BY <2>1, <2>2, <2>3, <2>4 DEF Next
<1>3. Inv => TypeOK
  OBVIOUS
<1> QED BY <1>1, <1>2, <1>3, PTL DEF Spec
=============================================================================
