------------------------------ MODULE PowSteps ------------------------------
(***************************************************************************)
(* crates/weighted-math-core/src/pow.rs step by step: one action per loop  *)
(* iteration, early return and rounding of a call.  The module states what *)
(* the code relies on without checking it in a release build: every        *)
(* intermediate fits its type, every debug_assert holds, the loops stop.   *)
(***************************************************************************)
EXTENDS Pow

CONSTANT Calls     \* the calls the callers make

ASSUME CallsAssumption == Calls \subseteq [op : Ops, x : I128, y : I128]

VARIABLES pc,      \* the step about to run
          call,    \* the call being answered: op(x, y)
          m, k,    \* ln: normalised mantissa; both loops: the count k
          t, u,    \* ln: atanh argument and its square
          acc, i,  \* Horner value, and how many coefficients are left
          neg,     \* -ln(base), then the argument of exp_inner
          s,       \* exp: the reduced argument
          ret      \* what the call returned

vars == <<pc, call, m, k, t, u, acc, i, neg, s, ret>>
locals == <<m, k, t, u, acc, i, neg, s>>

NoCall == [op |-> "ln", x |-> ONE, y |-> ONE]

Init == /\ pc = "idle" /\ call = NoCall /\ ret = 0
        /\ m = 0 /\ k = 0 /\ t = 0 /\ u = 0 /\ acc = 0 /\ i = 0
        /\ neg = 0 /\ s = 0

Ask == /\ pc = "idle" /\ pc' = "entry"
       /\ call' \in Calls
       /\ UNCHANGED <<locals, ret>>
-----------------------------------------------------------------------------
(***************************************************************************)
(* The entry points: domain asserts, saturation, and the first stage.      *)
(***************************************************************************)
\* Fault: a base of one is refused by every power.
RefuseOne == /\ pc = "entry" /\ pc' = "panicked"
             /\ ~InDomain(call.op, call.x, call.y) \/ call.x = ONE
             /\ UNCHANGED <<call, locals, ret>>

Refuse == /\ pc = "entry" /\ pc' = "panicked"
          /\ ~InDomain(call.op, call.x, call.y)
          /\ UNCHANGED <<call, locals, ret>>

Saturate == /\ pc = "entry" /\ pc' = "returned"
            /\ InDomain(call.op, call.x, call.y)
            /\ Saturates(call.op, call.x)
            /\ ret' = SaturatedValue(call.op)
            /\ UNCHANGED <<call, locals>>

EnterExp == /\ pc = "entry" /\ pc' = "estimate"
            /\ InDomain(call.op, call.x, call.y)
            /\ call.op \in ExpOps /\ ~Saturates(call.op, call.x)
            /\ neg' = -call.x * GUARD
            /\ UNCHANGED <<call, m, k, t, u, acc, i, s, ret>>

EnterLn == /\ pc = "entry" /\ pc' = "normalise"
           /\ InDomain(call.op, call.x, call.y)
           /\ call.op \notin ExpOps
           /\ m' = call.x * GUARD /\ k' = 0
           /\ UNCHANGED <<call, t, u, acc, i, neg, s, ret>>
-----------------------------------------------------------------------------
(***************************************************************************)
(* ln_inner.                                                               *)
(***************************************************************************)
\* Fault: the mantissa is brought into [1, 2).
DoubleToOne == /\ pc = "normalise" /\ m < ONE_62
               /\ m' = 2 * m /\ k' = k + 1
               /\ UNCHANGED <<pc, call, t, u, acc, i, neg, s, ret>>

Double == /\ pc = "normalise" /\ m < SQRT2_HALF_62
          /\ m' = 2 * m /\ k' = k + 1
          /\ UNCHANGED <<pc, call, t, u, acc, i, neg, s, ret>>

Divide == /\ pc = "normalise" /\ pc' = "ln_series"
          /\ m >= SQRT2_HALF_62
          /\ t' = AtanhArgument(m)
          /\ u' = Square(AtanhArgument(m))
          /\ acc' = ATANH_COEFF_62[Len(ATANH_COEFF_62)]
          /\ i' = Len(ATANH_COEFF_62) - 1
          /\ UNCHANGED <<call, m, k, neg, s, ret>>

LnHorner == /\ pc = "ln_series" /\ i > 0
            /\ acc' = HornerStep(ATANH_COEFF_62[i], acc, u)
            /\ i' = i - 1
            /\ UNCHANGED <<pc, call, m, k, t, u, neg, s, ret>>

\* Fault: the mantissa's logarithm is added.
LnDoneAdded == /\ pc = "ln_series" /\ i = 0
               /\ pc' = IF call.op = "ln" THEN "round" ELSE "product"
               /\ neg' = k * LN2_62 + LnMantissa(t, acc)
               /\ UNCHANGED <<call, m, k, t, u, acc, i, s, ret>>

LnDone == /\ pc = "ln_series" /\ i = 0
          /\ pc' = IF call.op = "ln" THEN "round" ELSE "product"
          /\ neg' = k * LN2_62 - LnMantissa(t, acc)
          /\ UNCHANGED <<call, m, k, t, u, acc, i, s, ret>>

\* exponent * (-ln base): the widened multiply and its fit assert.
Product == /\ pc = "product"
           /\ LET arg == ArgProduct(call.y, neg)
              IN  /\ pc' = IF Panicked(arg) THEN "panicked" ELSE "estimate"
                  /\ neg' = IF Panicked(arg) THEN neg ELSE arg.value
           /\ UNCHANGED <<call, m, k, t, u, acc, i, s, ret>>
-----------------------------------------------------------------------------
(***************************************************************************)
(* exp_inner.                                                              *)
(***************************************************************************)
\* Fault: the estimate is shifted one bit too far.
EstimateHalved == /\ pc = "estimate" /\ pc' = "reduce_down"
                  /\ k' = Shr(neg * INV_LN2_30, ESTIMATE_BITS + LN_SCALE + 1)
                  /\ s' = neg - k' * LN2_62
                  /\ UNCHANGED <<call, m, t, u, acc, i, neg, ret>>

Estimate == /\ pc = "estimate" /\ pc' = "reduce_down"
            /\ k' = Shr(neg * INV_LN2_30, ESTIMATE_BITS + LN_SCALE)
            /\ s' = neg - k' * LN2_62
            /\ UNCHANGED <<call, m, t, u, acc, i, neg, ret>>

\* The two correction loops run one after the other; the first is left for
\* good when its test fails.
ReduceDown == /\ pc = "reduce_down" /\ s < 0
              /\ k' = k - 1 /\ s' = s + LN2_62
              /\ UNCHANGED <<pc, call, m, t, u, acc, i, neg, ret>>

DownDone == /\ pc = "reduce_down" /\ pc' = "reduce_up"
            /\ s >= 0
            /\ UNCHANGED <<call, locals, ret>>

\* Fault: s is taken again from a k that was not raised, so the loop's test
\* never changes.
ReduceUpSameCount == /\ pc = "reduce_up" /\ s >= LN2_62
                     /\ s' = neg - k * LN2_62
                     /\ UNCHANGED <<pc, call, m, k, t, u, acc, i, neg, ret>>

ReduceUp == /\ pc = "reduce_up" /\ s >= LN2_62
            /\ k' = k + 1 /\ s' = s - LN2_62
            /\ UNCHANGED <<pc, call, m, t, u, acc, i, neg, ret>>

Reduced == pc = "reduce_up" /\ s < LN2_62

Underflow == /\ Reduced /\ k > LN_SCALE
             /\ pc' = "round" /\ acc' = 0
             /\ UNCHANGED <<call, m, k, t, u, i, neg, s, ret>>

\* Fault: the underflow return is missing.
BeginSeriesAlways == /\ Reduced
                     /\ pc' = "exp_series"
                     /\ acc' = EXP_COEFF_62[Len(EXP_COEFF_62)]
                     /\ i' = Len(EXP_COEFF_62) - 1
                     /\ UNCHANGED <<call, m, k, t, u, neg, s, ret>>

BeginSeries == /\ Reduced /\ k <= LN_SCALE
               /\ pc' = "exp_series"
               /\ acc' = EXP_COEFF_62[Len(EXP_COEFF_62)]
               /\ i' = Len(EXP_COEFF_62) - 1
               /\ UNCHANGED <<call, m, k, t, u, neg, s, ret>>

\* Fault: the coefficient index is off by one.
ExpHornerOffByOne == /\ pc = "exp_series" /\ i > 0
                     /\ acc' = HornerStep(EXP_COEFF_62[i + 1], acc, s)
                     /\ i' = i - 1
                     /\ UNCHANGED <<pc, call, m, k, t, u, neg, s, ret>>

ExpHorner == /\ pc = "exp_series" /\ i > 0
             /\ acc' = HornerStep(EXP_COEFF_62[i], acc, s)
             /\ i' = i - 1
             /\ UNCHANGED <<pc, call, m, k, t, u, neg, s, ret>>

ExpDone == /\ pc = "exp_series" /\ i = 0 /\ pc' = "round"
           /\ acc' = Shr(acc, k)
           /\ UNCHANGED <<call, m, k, t, u, i, neg, s, ret>>
-----------------------------------------------------------------------------
Return == /\ pc = "round" /\ pc' = "returned"
          /\ ret' = Rounded(call.op, IF call.op = "ln" THEN neg ELSE acc)
          /\ UNCHANGED <<call, locals>>

\* The caller takes the value; the call's locals are gone.
Resume == /\ pc = "returned" /\ pc' = "idle"
          /\ call' = NoCall /\ ret' = 0
          /\ m' = 0 /\ k' = 0 /\ t' = 0 /\ u' = 0 /\ acc' = 0 /\ i' = 0
          /\ neg' = 0 /\ s' = 0

LnStep == Double \/ Divide \/ LnHorner \/ LnDone
ExpStep == \/ Estimate \/ ReduceDown \/ DownDone \/ ReduceUp
           \/ Underflow \/ BeginSeries \/ ExpHorner \/ ExpDone
Step == Refuse \/ Saturate \/ EnterExp \/ EnterLn \/ LnStep \/ Product
        \/ ExpStep \/ Return

Next == Ask \/ Step \/ Resume

\* A call runs to its end: the kernel is sequential and never waits.
Spec == Init /\ [][Next]_vars /\ WF_vars(Step)
-----------------------------------------------------------------------------
TypeOK ==
  /\ pc \in {"idle", "entry", "normalise", "ln_series", "product", "estimate",
             "reduce_down", "reduce_up", "exp_series", "round", "returned",
             "panicked"}
  /\ call \in [op : Ops, x : I128, y : I128]
  /\ m \in U128 /\ k \in I128 /\ t \in I128 /\ u \in U128 /\ acc \in I128
  /\ i \in 0 .. Len(ATANH_COEFF_62) + Len(EXP_COEFF_62)
  /\ neg \in U128 /\ s \in I128 /\ ret \in I128

(***************************************************************************)
(* The debug_asserts of ln_inner and exp_inner, which compile away in a    *)
(* release build: the mantissa lands in the sqrt(2) window after at most   *)
(* SCALE doublings, and no caller leaves exp_inner's argument envelope.    *)
(***************************************************************************)
DebugAssertsHold ==
  /\ pc = "ln_series" => /\ k <= SCALE
                         /\ m >= SQRT2_HALF_62 /\ m < 2 * SQRT2_HALF_62
  /\ pc = "estimate" => neg >= 0 /\ neg < ARG_ENVELOPE

(***************************************************************************)
(* docs/overflow-proof.md's ledger of the pow pipeline: every product and  *)
(* sum the next step forms fits the type it is formed in, and every shift  *)
(* amount is legal, so that no step can wrap whatever the build profile.   *)
(***************************************************************************)
LnFits ==
  /\ pc = "normalise" => 2 * m \in I128
  /\ pc = "normalise" /\ m >= SQRT2_HALF_62 =>
       (m - ONE_62) * ONE_62 \in I128 /\ AtanhArgument(m) * AtanhArgument(m) \in I128
  /\ pc = "ln_series" /\ i > 0 => acc * u \in I128
  /\ pc = "ln_series" /\ i = 0 => t * acc \in I128 /\ k * LN2_62 \in I128
  /\ pc = "product" => neg >= 0

ExpFits ==
  /\ pc = "estimate" => neg * INV_LN2_30 \in U128
  /\ pc = "reduce_down" => k * LN2_62 \in I128
  /\ pc = "exp_series" /\ i > 0 => acc * s \in I128
  /\ pc = "exp_series" => k >= 0 /\ k < WIDTH

NothingOverflows == LnFits /\ ExpFits

(***************************************************************************)
(* An in-domain call never panics: in particular the fit assert of the     *)
(* widened argument product cannot fire (docs/overflow-proof.md, "can      *)
(* never panic in-domain").                                                *)
(***************************************************************************)
OnlyDomainPanics ==
  pc = "panicked" => ~InDomain(call.op, call.x, call.y)

(***************************************************************************)
(* The reciprocal estimate of k is off by at most one: one iteration of    *)
(* one of the two loops always lands in [0, ln 2), so no loop runs twice   *)
(* and never both run ("correction loops: at most one step each").         *)
(***************************************************************************)
CorrectsOnce ==
  [][pc' = pc /\ pc \in {"reduce_down", "reduce_up"} => 0 <= s' /\ s' < LN2_62]_vars

(***************************************************************************)
(* Results stay in the documented ranges although each is padded or        *)
(* rounded past the pipeline's value: powers in [0, 1] with pow_up never   *)
(* zero, ln and expm1 not positive, the 62-bit forms in [0, 2^62].         *)
(***************************************************************************)
ResultsInRange ==
  pc = "returned" =>
    /\ call.op \in {"exp", "pow", "pow_down"} => ret >= 0 /\ ret <= ONE
    /\ call.op = "pow_up" => ret >= 1 /\ ret <= ONE
    /\ call.op = "ln" => ret <= 0
    /\ call.op = "expm1" => ret >= -ONE /\ ret <= 0
    /\ call.op \in Ops62 => ret >= 0 /\ ret < ONE_62

(***************************************************************************)
(* exp and expm1 agree to one ulp at every argument, across the saturation *)
(* bound and the rounding of either (tests/overflow_envelope.rs).          *)
(***************************************************************************)
ExpFormsAgree ==
  pc = "returned" /\ call.op = "exp" =>
    (ret - ONE) - Returns("expm1", call.x, call.y) \in -1 .. 1

(***************************************************************************)
(* A larger exponent or a smaller base never raises pow_down by more than  *)
(* one ulp (tests/proptest_invariants.rs, pow_monotonicity): no bound of   *)
(* either range reduction makes the power jump back.                       *)
(***************************************************************************)
PowNearlyMonotone ==
  pc = "returned" /\ call.op = "pow_down" =>
    /\ call.y < MAX_RATIO * ONE =>
         Returns("pow_down", call.x, call.y + 1) <= ret + 1
    /\ call.x + 1 < ONE =>
         Returns("pow_down", call.x + 1, call.y) + 1 >= ret

(***************************************************************************)
(* The three while loops stop and every call returns or panics.            *)
(***************************************************************************)
CallsEnd == (pc = "entry") ~> (pc \in {"returned", "panicked"})

(***************************************************************************)
(* The loops compute the functions of Pow: every step is a step of         *)
(* PowCalls or changes nothing its callers see.                            *)
(***************************************************************************)
Phase == IF pc \in {"idle", "returned", "panicked"} THEN pc ELSE "busy"

Abstract == INSTANCE PowCalls WITH phase <- Phase

RefinesPowCalls == Abstract!Spec
=============================================================================
