-------------------------- MODULE PowSteps_proofs ---------------------------
(***************************************************************************)
(* The power kernel for every scale, every coefficient table and every     *)
(* call that meets the assumptions of Pow: no intermediate overflows, no   *)
(* debug_assert fires, no in-domain call panics, results stay in range,    *)
(* are those of the functions of Pow and vary with their arguments to      *)
(* within an ulp.  None of these is inductive; IInv and Computes say,      *)
(* stage by stage, what ln_inner and exp_inner know of their locals.       *)
(***************************************************************************)
EXTENDS PowSteps, PowTheorems

LnStages == {"normalise", "ln_series"}
ExpStages == {"estimate", "reduce_down", "reduce_up", "exp_series"}
Running == LnStages \cup ExpStages \cup {"product", "round"}

\* The call under way is in its domain and in a stage its entry point has.
Staged ==
  /\ pc \in {"idle", "entry", "returned", "panicked"} \cup Running
  /\ call \in [op : Ops, x : I128, y : I128]
  /\ pc \in Running => InDomain(call.op, call.x, call.y)
  /\ pc = "panicked" => ~InDomain(call.op, call.x, call.y)
  /\ pc \in LnStages => call.op \notin ExpOps
  /\ pc = "product" => call.op \in PowOps
  /\ pc \in ExpStages => call.op # "ln"

\* The locals' ranges at all times, live or stale.
LnRanges ==
  /\ m \in Nat /\ m < 2 * SQRT2_HALF_62
  /\ t \in Int /\ 5 * t <= ONE_62 /\ -ONE_62 <= 5 * t
  /\ u \in Nat /\ 25 * u <= ONE_62

ExpRanges ==
  /\ k \in -2 .. ARG_ENVELOPE + 2
  /\ neg \in Envelope
  /\ s \in -LN2_62 .. 2 * LN2_62 - 1

SumRanges ==
  /\ acc \in -(2 * ONE_62) .. 2 * ONE_62
  /\ i \in 0 .. Len(ATANH_COEFF_62) + Len(EXP_COEFF_62)

\* The mantissa is x * GUARD shifted left k times.
Normalising ==
  pc = "normalise" =>
    /\ k \in 0 .. SCALE
    /\ m >= GUARD * 2^k
    /\ k = 0 => m <= ONE_62

\* The mantissa is in its window, and t has the sign that keeps -ln x >= 0.
LnSumming ==
  /\ pc = "ln_series" => /\ k \in 0 .. SCALE /\ InWindow(m)
                         /\ k = 0 => t <= 0
                         /\ k = SCALE => t >= 0
                         /\ AtanhSum(acc)
                         /\ i \in 0 .. Len(ATANH_COEFF_62) - 1
  /\ pc = "product" => neg \in LnRange

\* Both loops keep k * ln2 + s; the first leaves s >= 0.
Reducing ==
  /\ pc \in {"reduce_down", "reduce_up"} => neg = (k * LN2_62) + s
  /\ pc = "reduce_up" => s >= 0

\* Every partial sum of the exp series is on the side of its coefficient.
ExpSumming ==
  /\ pc = "exp_series" => /\ k \in 0 .. LN_SCALE
                          /\ s \in 0 .. LN2_62 - 1
                          /\ i \in 0 .. Len(EXP_COEFF_62) - 1
                          /\ ExpSum(i + 1, acc)
  /\ pc = "round" /\ call.op # "ln" => acc \in 0 .. ONE_62

Returned ==
  /\ pc # "returned" => ret = 0
  /\ ret \in -ARG_ENVELOPE .. ONE_62
  /\ ResultsInRange

IInv == /\ Staged /\ LnRanges /\ ExpRanges /\ SumRanges
        /\ Normalising /\ LnSumming /\ Reducing /\ ExpSumming /\ Returned
-----------------------------------------------------------------------------
\* The constants the steps below refer to.
LEMMA Units ==
  /\ ONE \in Nat /\ ONE >= 2 /\ ONE_62 \in Nat /\ ONE_62 >= 8
  /\ GUARD \in Nat /\ GUARD >= 4 /\ ONE * GUARD = ONE_62
  /\ SQRT2_HALF_62 \in Nat /\ 3 * SQRT2_HALF_62 >= 2 * ONE_62
  /\ 4 * SQRT2_HALF_62 <= 3 * ONE_62
  /\ LN2_62 \in Nat /\ 2 * LN2_62 >= ONE_62 /\ 10 * LN2_62 <= 7 * ONE_62
  /\ SCALE \in Nat /\ SCALE >= 1 /\ LN_SCALE \in Nat /\ LN_SCALE < WIDTH /\ WIDTH \in Nat
  /\ SCALE * LN2_62 \in Nat /\ SCALE * LN2_62 < ARG_ENVELOPE /\ SCALE < ARG_ENVELOPE
  /\ ARG_ENVELOPE \in Nat /\ ARG_ENVELOPE <= ONE_62 * ONE_62
<1>1. /\ ONE \in Nat /\ ONE >= 2 /\ ONE_62 \in Nat /\ ONE_62 >= 8
      /\ GUARD \in Nat /\ GUARD >= 4 /\ ONE * GUARD = ONE_62
  BY ScaleFacts
<1>2. /\ SQRT2_HALF_62 \in Nat /\ 3 * SQRT2_HALF_62 >= 2 * ONE_62
      /\ 4 * SQRT2_HALF_62 <= 3 * ONE_62
      /\ LN2_62 \in Nat /\ 2 * LN2_62 >= ONE_62 /\ 10 * LN2_62 <= 7 * ONE_62
  BY LogarithmAssumption
<1>3. /\ SCALE \in Nat /\ SCALE >= 1 /\ LN_SCALE \in Nat /\ LN_SCALE < WIDTH
      /\ WIDTH \in Nat /\ MAX_RATIO \in Nat /\ MAX_RATIO >= 1
  BY ScaleAssumption, WidthAssumption
<1>4. /\ ARG_ENVELOPE \in Nat /\ ARG_ENVELOPE <= ONE_62 * ONE_62
      /\ (MAX_RATIO * SCALE) * LN2_62 < ARG_ENVELOPE
  BY EnvelopeAssumption
<1>5. SCALE * LN2_62 \in Nat /\ SCALE * LN2_62 < ARG_ENVELOPE
  <2>1. SCALE * LN2_62 \in Nat /\ 1 * (SCALE * LN2_62) <= MAX_RATIO * (SCALE * LN2_62)
    BY <1>2, <1>3, ProductBound
  <2>2. MAX_RATIO * (SCALE * LN2_62) = (MAX_RATIO * SCALE) * LN2_62
    BY <1>2, <1>3
  <2> QED BY <2>1, <2>2, <1>3, <1>4
<1>6. SCALE < ARG_ENVELOPE
  <2>1. SCALE * 1 <= SCALE * LN2_62
    BY <1>1, <1>2, <1>3, ProductBound
  <2> QED BY <2>1, <1>3, <1>4, <1>5
<1> QED BY <1>1, <1>2, <1>3, <1>4, <1>5, <1>6

\* What each entry point's asserts leave of its arguments.
LEMMA DomainFacts ==
  ASSUME NEW op \in Ops, NEW x \in Int, NEW y \in Int, InDomain(op, x, y)
  PROVE  /\ op \in ExpOps => x <= 0
         /\ op \notin ExpOps => x \in 1 .. ONE
         /\ op \in PowOps => y \in 1 .. MAX_RATIO * ONE
<1>1. ONE \in Nat /\ MAX_RATIO * ONE \in Nat
  BY Units, ScaleAssumption
<1> QED BY <1>1 DEF InDomain, Ops, ExpOps, PowOps, RawOps, Ops62

\* n = q * d + r bounds q by n when r is within two multiples of d.
LEMMA CountBound ==
  ASSUME NEW d \in Nat, d > 0, NEW n \in Envelope, NEW q \in Int, NEW r \in Int,
         n = (q * d) + r, -d <= r, r < 2 * d
  PROVE  /\ q \in -1 .. ARG_ENVELOPE + 1
         /\ r < d => q \in 0 .. ARG_ENVELOPE + 1
<1>1. n \in Nat /\ n < ARG_ENVELOPE /\ ARG_ENVELOPE \in Nat
  BY Units DEF Envelope
<1>2. d * q = n - r
  OBVIOUS
<1>3. d * ARG_ENVELOPE >= ARG_ENVELOPE
  <2>1. 1 * ARG_ENVELOPE <= d * ARG_ENVELOPE
    BY <1>1, ProductBound
  <2> QED BY <2>1, <1>1
<1>4. d * q < d * ((ARG_ENVELOPE + 1) + 1)
  <2>1. d * ((ARG_ENVELOPE + 1) + 1) = (d * ARG_ENVELOPE) + (2 * d)
    BY <1>1
  <2> QED BY <2>1, <1>1, <1>2, <1>3
<1>5. q <= ARG_ENVELOPE + 1
  BY <1>1, <1>4, Cancel
<1>6. -1 <= q
  <2>1. d * (-2) < d * q
    BY <1>1, <1>2
  <2>2. d * (-1) < d * (q + 1)
    BY <2>1
  <2> QED BY <2>2, Cancel
<1>7. r < d => 0 <= q
  <2>1. r < d => d * 0 < d * (q + 1)
    BY <1>1, <1>2
  <2> QED BY <2>1, Cancel
<1> QED BY <1>1, <1>5, <1>6, <1>7

LEMMA RoundedCases ==
  ASSUME NEW v
  PROVE  /\ Rounded("ln", v) = -to_scale_nearest(v)
         /\ Rounded("expm1", v) = -to_scale_nearest(ONE_62 - v)
         /\ Rounded("exp", v) = to_scale_nearest(v)
         /\ Rounded("pow", v) = to_scale_nearest(v)
         /\ Rounded("pow_down", v) = AtLeast(to_scale_nearest(v) - POW_PAD_ULPS, 0)
         /\ Rounded("pow_up", v) = AtMost(to_scale_nearest(v) + POW_PAD_ULPS, ONE)
         /\ Rounded("pow_62_down", v) = AtLeast(v - PAD_62, 0)
         /\ Rounded("one_minus_pow_62", v) = AtLeast(ONE_62 - v - PAD_62, 0)
BY Zenon DEF Rounded

\* The range an entry point's result is in, as ResultsInRange has it.
InRange(op, r) ==
  /\ op \in {"exp", "pow", "pow_down"} => r >= 0 /\ r <= ONE
  /\ op = "pow_up" => r >= 1 /\ r <= ONE
  /\ op = "ln" => r <= 0
  /\ op = "expm1" => r >= -ONE /\ r <= 0
  /\ op \in Ops62 => r >= 0 /\ r < ONE_62

LEMMA RoundedInRange ==
  ASSUME NEW op \in Ops, NEW v,
         op = "ln" => v \in Envelope, op # "ln" => v \in 0 .. ONE_62
  PROVE  Rounded(op, v) \in -ARG_ENVELOPE .. ONE_62 /\ InRange(op, Rounded(op, v))
<1>1. /\ ONE \in Nat /\ ONE >= 2 /\ ONE_62 \in Nat /\ ARG_ENVELOPE \in Nat
      /\ ONE <= ONE_62 /\ ONE <= ARG_ENVELOPE
      /\ POW_PAD_ULPS \in Nat /\ POW_PAD_ULPS > 0 /\ PAD_62 \in Nat /\ PAD_62 > 0
  <2>1. /\ ONE \in Nat /\ ONE >= 2 /\ ONE_62 \in Nat /\ ARG_ENVELOPE \in Nat
        /\ GUARD \in Nat /\ GUARD >= 4 /\ ONE * GUARD = ONE_62 /\ LN2_62 \in Nat
        /\ 2 * LN2_62 >= ONE_62 /\ SCALE \in Nat /\ SCALE >= 1
        /\ SCALE * LN2_62 < ARG_ENVELOPE /\ SCALE * LN2_62 \in Nat
    BY Units
  <2>2. ONE * 4 <= ONE * GUARD
    BY <2>1, ProductBound
  <2>3. 1 * LN2_62 <= SCALE * LN2_62
    BY <2>1, ProductBound
  <2> QED BY <2>1, <2>2, <2>3, PadAssumption
<1>2. CASE op = "ln"
  <2>1. v \in Nat /\ v < ARG_ENVELOPE
    BY <1>1, <1>2 DEF Envelope
  <2>2. to_scale_nearest(v) \in Nat /\ to_scale_nearest(v) <= v
    BY <2>1, RoundStays
  <2>3. Rounded(op, v) = -to_scale_nearest(v)
    BY <1>2, RoundedCases
  <2> QED BY <1>1, <1>2, <2>1, <2>2, <2>3 DEF InRange, Ops62
<1>3. CASE op # "ln"
  <2>1. v \in Nat /\ v <= ONE_62 /\ ONE_62 - v \in Nat /\ ONE_62 - v <= ONE_62
    BY <1>1, <1>3
  <2>2. to_scale_nearest(v) \in Nat /\ to_scale_nearest(v) <= ONE
    BY <2>1, RoundStays
  <2>3. to_scale_nearest(ONE_62 - v) \in Nat /\ to_scale_nearest(ONE_62 - v) <= ONE
    BY <2>1, RoundStays
  <2>4. CASE op \in {"exp", "pow"}
    BY <1>1, <2>2, <2>4, RoundedCases DEF InRange, Ops62
  <2>5. CASE op = "expm1"
    BY <1>1, <2>3, <2>5, RoundedCases DEF InRange, Ops62
  <2>6. CASE op = "pow_down"
    BY <1>1, <2>2, <2>6, RoundedCases DEF InRange, Ops62, AtLeast
  <2>7. CASE op = "pow_up"
    BY <1>1, <2>2, <2>7, RoundedCases DEF InRange, Ops62, AtMost
  <2>8. CASE op = "pow_62_down"
    BY <1>1, <2>1, <2>8, RoundedCases DEF InRange, Ops62, AtLeast
  <2>9. CASE op = "one_minus_pow_62"
    BY <1>1, <2>1, <2>9, RoundedCases DEF InRange, Ops62, AtLeast
  <2> QED BY <1>3, <2>4, <2>5, <2>6, <2>7, <2>8, <2>9
          DEF Ops, ExpOps, PowOps, RawOps, Ops62
<1> QED BY <1>2, <1>3
-----------------------------------------------------------------------------
(***************************************************************************)
(* IInv is inductive: first the entry and the exit of a call.              *)
(***************************************************************************)
LEMMA InitInv == Init => IInv
<1> SUFFICES ASSUME Init PROVE IInv
  OBVIOUS
<1>1. call \in [op : Ops, x : I128, y : I128]
  <2>1. ONE \in I128
    <3>1. ONE \in Nat /\ GUARD \in Nat /\ GUARD >= 4 /\ ONE * GUARD = ONE_62
          /\ ONE_62 \in Nat /\ ONE_62 >= 8 /\ 2^(WIDTH - 1) \in Nat
          /\ 2 * (ONE_62 * ONE_62) <= 2^(WIDTH - 1)
      BY ScaleFacts
    <3>2. ONE * 1 <= ONE * GUARD /\ ONE_62 * 1 <= ONE_62 * ONE_62
      BY <3>1, ProductBound
    <3> QED BY <3>1, <3>2 DEF I128
  <2> QED BY <2>1 DEF Init, NoCall, Ops
<1>2. Staged
  BY <1>1 DEF Init, Staged, Running, LnStages, ExpStages
<1>3. LnRanges /\ ExpRanges /\ SumRanges
  BY Units, Tables DEF Init, LnRanges, ExpRanges, SumRanges, Envelope
<1>4. Normalising /\ LnSumming /\ Reducing /\ ExpSumming
  BY DEF Init, Normalising, LnSumming, Reducing, ExpSumming
<1>5. Returned
  BY Units DEF Init, Returned, ResultsInRange
<1> QED BY <1>2, <1>3, <1>4, <1>5 DEF IInv

\* Nothing of a step that leaves the call and its locals alone.
LEMMA StutterInv ==
  ASSUME IInv, UNCHANGED vars
  PROVE  IInv'
BY DEF IInv, vars, Staged, LnRanges, ExpRanges, SumRanges, Normalising,
       LnSumming, Reducing, ExpSumming, Returned, ResultsInRange, locals

LEMMA CallInv ==
  ASSUME IInv, Ask \/ Refuse \/ Saturate \/ Return \/ Resume
  PROVE  IInv'
<1> USE DEF locals
<1>1. CASE Ask
  <2>1. Staged'
    BY <1>1, CallsAssumption DEF Ask, IInv, Staged, Running, LnStages, ExpStages
  <2>2. LnRanges' /\ ExpRanges' /\ SumRanges'
    BY <1>1 DEF Ask, IInv, LnRanges, ExpRanges, SumRanges
  <2>3. Normalising' /\ LnSumming' /\ Reducing' /\ ExpSumming'
    BY <1>1 DEF Ask, Normalising, LnSumming, Reducing, ExpSumming
  <2>4. Returned'
    BY <1>1 DEF Ask, IInv, Returned, ResultsInRange
  <2> QED BY <2>1, <2>2, <2>3, <2>4 DEF IInv
<1>2. CASE Refuse
  <2>1. Staged'
    BY <1>2 DEF Refuse, IInv, Staged, Running, LnStages, ExpStages
  <2>2. LnRanges' /\ ExpRanges' /\ SumRanges'
    BY <1>2 DEF Refuse, IInv, LnRanges, ExpRanges, SumRanges
  <2>3. Normalising' /\ LnSumming' /\ Reducing' /\ ExpSumming'
    BY <1>2 DEF Refuse, Normalising, LnSumming, Reducing, ExpSumming
  <2>4. Returned'
    BY <1>2 DEF Refuse, IInv, Returned, ResultsInRange
  <2> QED BY <2>1, <2>2, <2>3, <2>4 DEF IInv
<1>3. CASE Saturate
  <2>1. Staged'
    BY <1>3 DEF Saturate, IInv, Staged, Running, LnStages, ExpStages
  <2>2. LnRanges' /\ ExpRanges' /\ SumRanges'
    BY <1>3 DEF Saturate, IInv, LnRanges, ExpRanges, SumRanges
  <2>3. Normalising' /\ LnSumming' /\ Reducing' /\ ExpSumming'
    BY <1>3 DEF Saturate, Normalising, LnSumming, Reducing, ExpSumming
  <2>4. Returned'
    <3>1. ONE \in Nat /\ ONE_62 \in Nat /\ 4 * ONE <= ONE_62 /\ ARG_ENVELOPE \in Nat
          /\ 8 * ONE <= 4 * ARG_ENVELOPE
      <4>1. ONE * 4 <= ONE * GUARD /\ 1 * LN2_62 <= SCALE * LN2_62
        BY Units, ProductBound
      <4> QED BY <4>1, Units
    <3>2. call.op \in ExpOps /\ ret' = SaturatedValue(call.op) /\ call' = call
          /\ pc' = "returned"
      BY <1>3 DEF Saturate, Saturates
    <3>3. ret' = IF call.op = "exp" THEN 0 ELSE -ONE
      BY <3>2 DEF SaturatedValue
    <3> QED BY <3>1, <3>2, <3>3 DEF Returned, ResultsInRange, ExpOps, Ops62
  <2> QED BY <2>1, <2>2, <2>3, <2>4 DEF IInv
<1>4. CASE Return
  <2>1. Staged'
    BY <1>4 DEF Return, IInv, Staged, Running, LnStages, ExpStages
  <2>2. LnRanges' /\ ExpRanges' /\ SumRanges'
    BY <1>4 DEF Return, IInv, LnRanges, ExpRanges, SumRanges
  <2>3. Normalising' /\ LnSumming' /\ Reducing' /\ ExpSumming'
    BY <1>4 DEF Return, Normalising, LnSumming, Reducing, ExpSumming
  <2>4. Returned'
    <3> DEFINE v == IF call.op = "ln" THEN neg ELSE acc
    <3>1. call.op \in Ops
      BY DEF IInv, Staged
    <3>2. (call.op = "ln" => v \in Envelope) /\ (call.op # "ln" => v \in 0 .. ONE_62)
      BY <1>4 DEF Return, IInv, ExpRanges, ExpSumming
    <3>3. pc' = "returned" /\ call' = call /\ ret' = Rounded(call.op, v)
      BY <1>4 DEF Return
    <3> HIDE DEF v
    <3>4. ret' \in -ARG_ENVELOPE .. ONE_62 /\ InRange(call.op, ret')
      BY <3>1, <3>2, <3>3, RoundedInRange
    <3> QED BY <3>3, <3>4 DEF Returned, ResultsInRange, InRange
  <2> QED BY <2>1, <2>2, <2>3, <2>4 DEF IInv
<1>5. CASE Resume
  <2>1. Init'
    BY <1>5 DEF Resume, Init
  <2>2. Init' => IInv'
    BY InitInv, PTL
  <2> QED BY <2>1, <2>2
<1> QED BY <1>1, <1>2, <1>3, <1>4, <1>5
-----------------------------------------------------------------------------
\* A step from one stage of a call to another has nothing returned.
LEMMA ReturnedStays ==
  ASSUME Returned, pc # "returned", pc' # "returned", ret' = ret
  PROVE  Returned'
BY DEF Returned, ResultsInRange

LEMMA EntryInv ==
  ASSUME IInv, EnterExp \/ EnterLn
  PROVE  IInv'
<1>1. call.op \in Ops /\ call.x \in Int /\ call.y \in Int
  <2>1. call \in [op : Ops, x : I128, y : I128] /\ 2^(WIDTH - 1) \in Nat
    BY ScaleFacts DEF IInv, Staged
  <2>2. \A n \in I128 : n \in Int
    BY <2>1 DEF I128
  <2> QED BY <2>1, <2>2
<1>2. CASE EnterExp
  <2>1. pc = "entry" /\ pc' = "estimate" /\ neg' = -call.x * GUARD
        /\ InDomain(call.op, call.x, call.y) /\ call.op \in ExpOps
        /\ ~Saturates(call.op, call.x)
        /\ UNCHANGED <<call, m, k, t, u, acc, i, s, ret>>
    BY <1>2 DEF EnterExp
  <2>2. neg' \in Envelope
    <3> DEFINE z == -call.x
    <3>1. /\ ONE \in Nat /\ GUARD \in Nat /\ GUARD > 0 /\ ONE * GUARD = ONE_62
          /\ ONE_62 \in Nat /\ ARG_ENVELOPE \in Nat /\ SATURATE_AT \in Nat
          /\ SATURATE_AT * ONE_62 <= ARG_ENVELOPE
      BY Units, EnvelopeAssumption, ScaleAssumption
    <3>2. z \in Nat /\ z < SATURATE_AT * ONE /\ SATURATE_AT * ONE \in Nat
      <4>1. call.x <= 0
        BY <1>1, <2>1, DomainFacts
      <4>2. SATURATE_AT * ONE \in Nat
        BY <3>1
      <4> QED BY <1>1, <2>1, <4>1, <4>2 DEF Saturates, EXP_SATURATION
    <3> HIDE DEF z
    <3>3. (z + 1) * GUARD <= (SATURATE_AT * ONE) * GUARD /\ z * GUARD \in Nat
      BY <3>1, <3>2, ProductBound
    <3>4. (SATURATE_AT * ONE) * GUARD = SATURATE_AT * (ONE * GUARD)
      BY <3>1
    <3>5. (z + 1) * GUARD = (z * GUARD) + GUARD
      BY <3>1, <3>2
    <3>6. neg' = z * GUARD
      BY <1>1, <2>1, <3>1 DEF z
    <3> QED BY <3>1, <3>3, <3>4, <3>5, <3>6 DEF Envelope
  <2>3. Staged'
    BY <2>1 DEF IInv, Staged, Running, LnStages, ExpStages, ExpOps
  <2>4. LnRanges' /\ ExpRanges' /\ SumRanges'
    BY <2>1, <2>2 DEF IInv, LnRanges, ExpRanges, SumRanges
  <2>5. Normalising' /\ LnSumming' /\ Reducing' /\ ExpSumming'
    BY <2>1 DEF Normalising, LnSumming, Reducing, ExpSumming
  <2>6. Returned'
    BY <2>1, ReturnedStays DEF IInv
  <2> QED BY <2>3, <2>4, <2>5, <2>6 DEF IInv
<1>3. CASE EnterLn
  <2>1. pc = "entry" /\ pc' = "normalise" /\ m' = call.x * GUARD /\ k' = 0
        /\ InDomain(call.op, call.x, call.y) /\ call.op \notin ExpOps
        /\ UNCHANGED <<call, t, u, acc, i, neg, s, ret>>
    BY <1>3 DEF EnterLn
  <2>2. m' \in Nat /\ m' >= GUARD * 2^0 /\ m' <= ONE_62
    <3> DEFINE x == call.x
    <3>1. x \in 1 .. ONE
      BY <1>1, <2>1, DomainFacts
    <3>2. ONE \in Nat /\ GUARD \in Nat /\ ONE * GUARD = ONE_62 /\ 2^0 = 1
      BY Units, PowerAssumption
    <3> HIDE DEF x
    <3>3. 1 * GUARD <= x * GUARD /\ x * GUARD <= ONE * GUARD /\ x * GUARD \in Nat
      BY <3>1, <3>2, ProductBound
    <3>4. m' = x * GUARD
      BY <2>1 DEF x
    <3> QED BY <3>2, <3>3, <3>4
  <2>3. Staged'
    BY <2>1 DEF IInv, Staged, Running, LnStages, ExpStages
  <2>4. LnRanges' /\ ExpRanges' /\ SumRanges'
    <3>1. m' < 2 * SQRT2_HALF_62
      BY <2>2, Units
    <3>2. 0 \in -2 .. ARG_ENVELOPE + 2
      BY Units
    <3> QED BY <2>1, <2>2, <3>1, <3>2 DEF IInv, LnRanges, ExpRanges, SumRanges
  <2>5. Normalising' /\ LnSumming' /\ Reducing' /\ ExpSumming'
    <3>1. 0 \in 0 .. SCALE
      BY Units
    <3> QED BY <2>1, <2>2, <3>1 DEF Normalising, LnSumming, Reducing, ExpSumming
  <2>6. Returned'
    BY <2>1, ReturnedStays DEF IInv
  <2> QED BY <2>3, <2>4, <2>5, <2>6 DEF IInv
<1> QED BY <1>2, <1>3

\* One more doubling is legal: the mantissa shows that x is still below one.
LEMMA LnInv ==
  ASSUME IInv, LnStep
  PROVE  IInv'
<1>1. CASE Double
  <2>1. pc = "normalise" /\ pc' = pc /\ m < SQRT2_HALF_62 /\ m' = 2 * m /\ k' = k + 1
        /\ UNCHANGED <<call, t, u, acc, i, neg, s, ret>>
    BY <1>1 DEF Double
  <2>2. m \in Nat /\ k \in 0 .. SCALE /\ m >= GUARD * 2^k /\ SCALE \in Nat
        /\ SCALE < WIDTH /\ WIDTH \in Nat
    BY <2>1, Units, ScaleAssumption DEF IInv, LnRanges, Normalising
  <2>3. k < SCALE
    <3>1. GUARD * 2^SCALE = ONE_62 /\ SQRT2_HALF_62 < ONE_62
      <4>1. ONE \in Nat /\ GUARD \in Nat /\ ONE * GUARD = ONE_62
            /\ SQRT2_HALF_62 \in Nat /\ ONE_62 \in Nat /\ ONE_62 >= 8
            /\ 4 * SQRT2_HALF_62 <= 3 * ONE_62
        BY Units
      <4>2. GUARD * ONE = ONE_62
        BY <4>1
      <4> QED BY <4>1, <4>2 DEF ONE
    <3>2. k # SCALE
      BY <2>1, <2>2, <3>1, Units
    <3> QED BY <2>2, <3>2
  <2>4. m' >= GUARD * 2^(k + 1)
    <3> DEFINE p == 2^k
    <3>1. 2^(k + 1) = 2 * p
      BY <2>2, <2>3, PowerAssumption
    <3>2. p \in Nat
      BY <2>2, PowerPositive
    <3>3. m' >= GUARD * (2 * p)
      <4> HIDE DEF p
      <4>1. m >= GUARD * p /\ GUARD \in Nat
        BY <2>2, Units DEF p
      <4> QED BY <2>1, <2>2, <3>2, <4>1
    <3> QED BY <3>1, <3>3
  <2>5. Staged'
    BY <2>1 DEF IInv, Staged, Running, LnStages, ExpStages
  <2>6. LnRanges' /\ ExpRanges' /\ SumRanges'
    <3>1. m' \in Nat /\ m' < 2 * SQRT2_HALF_62
      BY <2>1, <2>2, Units
    <3>2. k + 1 \in -2 .. ARG_ENVELOPE + 2
      BY <2>2, <2>3, Units
    <3> QED BY <2>1, <3>1, <3>2 DEF IInv, LnRanges, ExpRanges, SumRanges
  <2>7. Normalising' /\ LnSumming' /\ Reducing' /\ ExpSumming'
    BY <2>1, <2>2, <2>3, <2>4 DEF Normalising, LnSumming, Reducing, ExpSumming
  <2>8. Returned'
    BY <2>1, ReturnedStays DEF IInv
  <2> QED BY <2>5, <2>6, <2>7, <2>8 DEF IInv
<1>2. CASE Divide
  <2> DEFINE n == Len(ATANH_COEFF_62)
             a == AtanhArgument(m)
  <2>1. pc = "normalise" /\ pc' = "ln_series" /\ m >= SQRT2_HALF_62
        /\ t' = a /\ u' = Square(a) /\ acc' = ATANH_COEFF_62[n] /\ i' = n - 1
        /\ UNCHANGED <<call, m, k, neg, s, ret>>
    BY <1>2 DEF Divide
  <2>2. /\ m \in Nat /\ m < 2 * SQRT2_HALF_62 /\ k \in 0 .. SCALE
        /\ m >= GUARD * 2^k /\ (k = 0 => m <= ONE_62)
    BY <2>1 DEF IInv, LnRanges, Normalising
  <2>3. InWindow(m)
    BY <2>1, <2>2 DEF InWindow
  <2>4. a \in Int /\ 5 * a <= ONE_62 /\ -ONE_62 <= 5 * a
        /\ (m >= ONE_62 => a >= 0) /\ (m <= ONE_62 => a <= 0)
    BY <2>3, AtanhBound
  <2>5. k = SCALE => m >= ONE_62
    <3>1. GUARD * 2^SCALE = ONE_62
      <4>1. ONE \in Nat /\ GUARD \in Nat /\ ONE * GUARD = ONE_62
        BY Units
      <4>2. GUARD * ONE = ONE_62
        BY <4>1
      <4> QED BY <4>2 DEF ONE
    <3> QED BY <2>2, <3>1
  <2>6. n \in Nat /\ n >= 1 /\ ATANH_COEFF_62[n] \in 0 .. ONE_62
        /\ Len(EXP_COEFF_62) \in Nat
    <3>1. n \in Nat /\ n >= 1 /\ Len(EXP_COEFF_62) \in Nat
          /\ \A j \in 1 .. n : ATANH_COEFF_62[j] \in 0 .. ONE_62
      BY Tables
    <3> HIDE DEF n
    <3> QED BY <3>1
  <2> HIDE DEF n, a
  <2>7. Square(a) \in Nat /\ 25 * Square(a) <= ONE_62
    BY <2>4, SquareBound
  <2>8. Staged'
    BY <2>1 DEF IInv, Staged, Running, LnStages, ExpStages
  <2>9. LnRanges' /\ ExpRanges' /\ SumRanges'
    <3>1. ATANH_COEFF_62[n] \in -(2 * ONE_62) .. 2 * ONE_62
      BY <2>6, Units
    <3>2. n - 1 \in 0 .. n + Len(EXP_COEFF_62)
      BY <2>6
    <3> QED BY <2>1, <2>2, <2>4, <2>7, <3>1, <3>2 DEF IInv, LnRanges, ExpRanges, SumRanges, n
  <2>10. Normalising' /\ Reducing' /\ ExpSumming'
    BY <2>1 DEF Normalising, Reducing, ExpSumming
  <2>11. LnSumming'
    <3>1. AtanhSum(ATANH_COEFF_62[n])
      BY <2>6, Units DEF AtanhSum
    <3>2. n - 1 \in 0 .. n - 1
      BY <2>6
    <3>3. (k = 0 => a <= 0) /\ (k = SCALE => a >= 0)
      BY <2>2, <2>4, <2>5
    <3> QED BY <2>1, <2>2, <2>3, <3>1, <3>2, <3>3 DEF LnSumming, n, InWindow
  <2>12. Returned'
    BY <2>1, ReturnedStays DEF IInv
  <2> QED BY <2>8, <2>9, <2>10, <2>11, <2>12 DEF IInv
<1>3. CASE LnHorner
  <2> DEFINE c == ATANH_COEFF_62[i]
             p == HornerStep(c, acc, u)
  <2>1. pc = "ln_series" /\ pc' = pc /\ i > 0 /\ acc' = p /\ i' = i - 1
        /\ UNCHANGED <<call, m, k, t, u, neg, s, ret>>
    BY <1>3 DEF LnHorner
  <2>2. /\ u \in Nat /\ 25 * u <= ONE_62 /\ AtanhSum(acc)
        /\ i \in 0 .. Len(ATANH_COEFF_62) - 1
    BY <2>1 DEF IInv, LnRanges, LnSumming
  <2>3. c \in 0 .. ONE_62 /\ Len(ATANH_COEFF_62) \in Nat /\ Len(EXP_COEFF_62) \in Nat
    BY <2>1, <2>2, Tables
  <2> HIDE DEF c
  <2>4. AtanhSum(p)
    BY <2>2, <2>3, AtanhHorner
  <2> HIDE DEF p
  <2>5. Staged'
    BY <2>1 DEF IInv, Staged, Running, LnStages, ExpStages
  <2>6. LnRanges' /\ ExpRanges' /\ SumRanges'
    <3>1. p \in -(2 * ONE_62) .. 2 * ONE_62
      BY <2>4, Units DEF AtanhSum
    <3>2. i - 1 \in 0 .. Len(ATANH_COEFF_62) + Len(EXP_COEFF_62)
      BY <2>1, <2>2, <2>3
    <3> QED BY <2>1, <3>1, <3>2 DEF IInv, LnRanges, ExpRanges, SumRanges
  <2>7. Normalising' /\ Reducing' /\ ExpSumming'
    BY <2>1 DEF Normalising, Reducing, ExpSumming
  <2>8. LnSumming'
    <3>1. i - 1 \in 0 .. Len(ATANH_COEFF_62) - 1
      BY <2>1, <2>2, <2>3
    <3> QED BY <2>1, <2>4, <3>1 DEF IInv, LnSumming, InWindow
  <2>9. Returned'
    BY <2>1, ReturnedStays DEF IInv
  <2> QED BY <2>5, <2>6, <2>7, <2>8, <2>9 DEF IInv
<1>4. CASE LnDone
  <2> DEFINE l == LnMantissa(t, acc)
  <2>1. pc = "ln_series" /\ pc' = (IF call.op = "ln" THEN "round" ELSE "product")
        /\ neg' = (k * LN2_62) - l
        /\ UNCHANGED <<call, m, k, t, u, acc, i, s, ret>>
    BY <1>4 DEF LnDone
  <2>2. /\ t \in Int /\ 5 * t <= ONE_62 /\ -ONE_62 <= 5 * t /\ AtanhSum(acc)
        /\ k \in 0 .. SCALE /\ (k = 0 => t <= 0) /\ (k = SCALE => t >= 0)
    BY <2>1 DEF IInv, LnRanges, LnSumming
  <2>3. l \in Int /\ 2 * l <= ONE_62 /\ -ONE_62 <= 2 * l
        /\ (t >= 0 => l >= 0) /\ (t <= 0 => l <= 0)
    BY <2>2, LnMantissaBound
  <2> HIDE DEF l
  <2>4. (k = 0 => l <= 0) /\ (k = SCALE => l >= 0)
    BY <2>2, <2>3
  <2>5. (k * LN2_62) - l \in LnRange
    BY <2>2, <2>3, <2>4, NegLnRange
  <2>6. Staged'
    BY <2>1 DEF IInv, Staged, Running, LnStages, ExpStages, Ops
  <2>7. LnRanges' /\ ExpRanges' /\ SumRanges'
    <3>1. neg' \in Envelope
      BY <2>1, <2>5, Units DEF LnRange, Envelope
    <3> QED BY <2>1, <3>1 DEF IInv, LnRanges, ExpRanges, SumRanges
  <2>8. Normalising' /\ LnSumming' /\ Reducing' /\ ExpSumming'
    BY <2>1, <2>5 DEF Normalising, LnSumming, Reducing, ExpSumming
  <2>9. Returned'
    BY <2>1, ReturnedStays DEF IInv
  <2> QED BY <2>6, <2>7, <2>8, <2>9 DEF IInv
<1> QED BY <1>1, <1>2, <1>3, <1>4 DEF LnStep

LEMMA ProductInv ==
  ASSUME IInv, Product
  PROVE  IInv'
<1> DEFINE arg == ArgProduct(call.y, neg)
<1>1. pc = "product" /\ neg \in LnRange /\ call.op \in PowOps
      /\ InDomain(call.op, call.x, call.y) /\ call.op \in Ops
      /\ call.x \in I128 /\ call.y \in I128
  BY DEF Product, IInv, Staged, LnSumming, Running
<1>2. call.x \in Int /\ call.y \in Int
  BY <1>1, ScaleFacts DEF I128
<1>3. call.y \in 1 .. MAX_RATIO * ONE
  BY <1>1, <1>2, DomainFacts
<1>4. ~Panicked(arg) /\ arg.value \in Envelope
  BY <1>1, <1>3, ArgProductFits
<1>5. pc' = "estimate" /\ neg' = arg.value
      /\ UNCHANGED <<call, m, k, t, u, acc, i, s, ret>>
  BY <1>4 DEF Product
<1> HIDE DEF arg
<1>6. Staged'
  BY <1>1, <1>5 DEF IInv, Staged, Running, LnStages, ExpStages, PowOps, RawOps, Ops62
<1>7. LnRanges' /\ ExpRanges' /\ SumRanges'
  BY <1>4, <1>5 DEF IInv, LnRanges, ExpRanges, SumRanges
<1>8. Normalising' /\ LnSumming' /\ Reducing' /\ ExpSumming'
  BY <1>5 DEF Normalising, LnSumming, Reducing, ExpSumming
<1>9. Returned'
  BY <1>1, <1>5, ReturnedStays DEF IInv
<1> QED BY <1>6, <1>7, <1>8, <1>9 DEF IInv

LEMMA ReductionInv ==
  ASSUME IInv, Estimate \/ ReduceDown \/ DownDone \/ ReduceUp
  PROVE  IInv'
<1>1. CASE Estimate
  <2> DEFINE q == Shr(neg * INV_LN2_30, ESTIMATE_BITS + LN_SCALE)
             r == neg - q * LN2_62
  <2>1. pc = "estimate" /\ pc' = "reduce_down" /\ k' = q /\ s' = neg - k' * LN2_62
        /\ UNCHANGED <<call, m, t, u, acc, i, neg, ret>>
    BY <1>1 DEF Estimate
  <2>2. neg \in Envelope
    BY DEF IInv, ExpRanges
  <2>3. q \in Nat /\ q * LN2_62 \in Nat /\ r \in Int /\ -LN2_62 <= r /\ r < 2 * LN2_62
    BY <2>2, EstimateLands
  <2>4. s' = r
    BY <2>1
  <2>5. neg = (q * LN2_62) + r
    BY <2>2, <2>3, Units DEF Envelope
  <2> HIDE DEF q, r
  <2>6. q \in -1 .. ARG_ENVELOPE + 1
    <3>1. LN2_62 \in Nat /\ LN2_62 > 0 /\ q \in Int
      BY <2>3, Units
    <3> QED BY <2>2, <2>3, <2>5, <3>1, CountBound, Zenon
  <2>7. Staged'
    BY <2>1 DEF IInv, Staged, Running, LnStages, ExpStages
  <2>8. LnRanges' /\ ExpRanges' /\ SumRanges'
    <3>1. q \in -2 .. ARG_ENVELOPE + 2 /\ r \in -LN2_62 .. 2 * LN2_62 - 1
      BY <2>3, <2>6, Units
    <3> QED BY <2>1, <2>4, <3>1 DEF IInv, LnRanges, ExpRanges, SumRanges
  <2>9. Normalising' /\ LnSumming' /\ Reducing' /\ ExpSumming'
    <3>1. pc' = "reduce_down"
      BY <2>1
    <3>2. neg' = (k' * LN2_62) + s'
      BY <2>1, <2>4, <2>5
    <3>3. Reducing'
      BY <3>1, <3>2 DEF Reducing
    <3> QED BY <3>1, <3>3 DEF Normalising, LnSumming, ExpSumming
  <2>10. Returned'
    BY <2>1, ReturnedStays DEF IInv
  <2> QED BY <2>7, <2>8, <2>9, <2>10 DEF IInv
<1>2. CASE ReduceDown \/ ReduceUp
  <2>1. /\ pc \in {"reduce_down", "reduce_up"} /\ pc' = pc
        /\ UNCHANGED <<call, m, t, u, acc, i, neg, ret>>
    BY <1>2 DEF ReduceDown, ReduceUp
  <2>2. /\ neg \in Envelope /\ k \in Int /\ s \in Int /\ neg = (k * LN2_62) + s
        /\ -LN2_62 <= s /\ s < 2 * LN2_62 /\ LN2_62 \in Nat /\ LN2_62 > 0
    BY <2>1, Units DEF IInv, ExpRanges, Reducing
  <2>3. k' \in Int /\ s' \in 0 .. LN2_62 - 1 /\ neg = (k' * LN2_62) + s'
    <3>1. \/ s < 0 /\ k' = k - 1 /\ s' = s + LN2_62
          \/ s >= LN2_62 /\ k' = k + 1 /\ s' = s - LN2_62
      BY <1>2 DEF ReduceDown, ReduceUp
    <3>2. (k - 1) * LN2_62 = (k * LN2_62) - LN2_62 /\ k * LN2_62 \in Int
          /\ (k + 1) * LN2_62 = (k * LN2_62) + LN2_62
      BY <2>2
    <3>3. k' \in Int /\ s' \in 0 .. LN2_62 - 1
      BY <2>2, <3>1
    <3>4. neg = (k' * LN2_62) + s'
      BY <2>2, <3>1, <3>2
    <3> QED BY <3>3, <3>4
  <2>4. k' \in 0 .. ARG_ENVELOPE + 1
    <3> DEFINE kk == k'
               ss == s'
    <3>1. kk \in Int /\ ss \in 0 .. LN2_62 - 1 /\ neg = (kk * LN2_62) + ss
      BY <2>3
    <3> HIDE DEF kk, ss
    <3>2. ss \in Int /\ -LN2_62 <= ss /\ ss < LN2_62 /\ ss < 2 * LN2_62
      BY <2>2, <3>1
    <3>3. kk \in 0 .. ARG_ENVELOPE + 1
      BY <2>2, <3>1, <3>2, CountBound, Zenon
    <3> QED BY <3>3 DEF kk
  <2>5. Staged'
    BY <2>1 DEF IInv, Staged, Running, LnStages, ExpStages
  <2>6. LnRanges' /\ ExpRanges' /\ SumRanges'
    <3>1. k' \in -2 .. ARG_ENVELOPE + 2 /\ s' \in -LN2_62 .. 2 * LN2_62 - 1
      BY <2>3, <2>4, <2>2, Units
    <3> QED BY <2>1, <3>1 DEF IInv, LnRanges, ExpRanges, SumRanges
  <2>7. Normalising' /\ LnSumming' /\ Reducing' /\ ExpSumming'
    <3>1. neg' = neg /\ s' >= 0
      BY <2>1, <2>2, <2>3
    <3>2. Reducing'
      BY <2>3, <3>1 DEF Reducing
    <3> QED BY <2>1, <3>2 DEF Normalising, LnSumming, ExpSumming
  <2>8. Returned'
    BY <2>1, ReturnedStays DEF IInv
  <2> QED BY <2>5, <2>6, <2>7, <2>8 DEF IInv
<1>3. CASE DownDone
  <2>1. /\ pc = "reduce_down" /\ pc' = "reduce_up" /\ s >= 0
        /\ UNCHANGED <<call, m, k, t, u, acc, i, neg, s, ret>>
    BY <1>3 DEF DownDone, locals
  <2>2. Staged'
    BY <2>1 DEF IInv, Staged, Running, LnStages, ExpStages
  <2>3. LnRanges' /\ ExpRanges' /\ SumRanges'
    BY <2>1 DEF IInv, LnRanges, ExpRanges, SumRanges
  <2>4. Normalising' /\ LnSumming' /\ Reducing' /\ ExpSumming'
    <3>1. neg = (k * LN2_62) + s
      BY <2>1 DEF IInv, Reducing
    <3>2. Reducing'
      BY <2>1, <3>1 DEF Reducing
    <3> QED BY <2>1, <3>2 DEF Normalising, LnSumming, ExpSumming
  <2>5. Returned'
    BY <2>1, ReturnedStays DEF IInv
  <2> QED BY <2>2, <2>3, <2>4, <2>5 DEF IInv
<1> QED BY <1>1, <1>2, <1>3

LEMMA SeriesInv ==
  ASSUME IInv, Underflow \/ BeginSeries \/ ExpHorner \/ ExpDone
  PROVE  IInv'
<1> DEFINE n == Len(EXP_COEFF_62)
<1>1. /\ n \in Nat /\ n >= 1 /\ Len(ATANH_COEFF_62) \in Nat
      /\ EXP_COEFF_62[1] = ONE_62
  BY Tables, ExponentialAssumption
<1>2. CASE Underflow
  <2>1. pc = "reduce_up" /\ pc' = "round" /\ acc' = 0
        /\ UNCHANGED <<call, m, k, t, u, i, neg, s, ret>>
    BY <1>2 DEF Underflow, Reduced
  <2>2. Staged'
    BY <2>1 DEF IInv, Staged, Running, LnStages, ExpStages
  <2>3. LnRanges' /\ ExpRanges' /\ SumRanges'
    BY <2>1, Units DEF IInv, LnRanges, ExpRanges, SumRanges
  <2>4. Normalising' /\ LnSumming' /\ Reducing' /\ ExpSumming'
    BY <2>1, Units DEF Normalising, LnSumming, Reducing, ExpSumming
  <2>5. Returned'
    BY <2>1, ReturnedStays DEF IInv
  <2> QED BY <2>2, <2>3, <2>4, <2>5 DEF IInv
<1>3. CASE BeginSeries
  <2>1. pc = "reduce_up" /\ pc' = "exp_series" /\ 0 <= s /\ s < LN2_62 /\ k <= LN_SCALE
        /\ acc' = EXP_COEFF_62[n] /\ i' = n - 1
        /\ UNCHANGED <<call, m, k, t, u, neg, s, ret>>
    BY <1>3 DEF BeginSeries, Reduced, IInv, Reducing
  <2>2. /\ neg \in Envelope /\ k \in Int /\ s \in Int /\ neg = (k * LN2_62) + s
        /\ -LN2_62 <= s /\ s < 2 * LN2_62 /\ LN2_62 \in Nat /\ LN2_62 > 0
    BY <2>1, Units DEF IInv, ExpRanges, Reducing
  <2>3. k \in 0 .. LN_SCALE /\ s \in 0 .. LN2_62 - 1
    <3>1. k \in 0 .. ARG_ENVELOPE + 1
      BY <2>1, <2>2, CountBound
    <3> QED BY <2>1, <2>2, <3>1, Units
  <2>4. ExpSum(n, EXP_COEFF_62[n])
    BY ExpSumStarts
  <2> HIDE DEF n
  <2>5. n \in 1 .. Len(EXP_COEFF_62)
    BY <1>1 DEF n
  <2>6. EXP_COEFF_62[n] \in Int /\ EXP_COEFF_62[n] <= ONE_62 /\ -ONE_62 <= EXP_COEFF_62[n]
    BY <2>4, <2>5, ExpSumBounded
  <2>7. Staged'
    BY <2>1 DEF IInv, Staged, Running, LnStages, ExpStages
  <2>8. LnRanges' /\ ExpRanges' /\ SumRanges'
    <3>1. EXP_COEFF_62[n] \in -(2 * ONE_62) .. 2 * ONE_62
      BY <2>6, Units
    <3>2. n - 1 \in 0 .. Len(ATANH_COEFF_62) + n
      BY <1>1
    <3> QED BY <2>1, <3>1, <3>2 DEF IInv, LnRanges, ExpRanges, SumRanges, n
  <2>9. ExpSumming'
    <3>1. n - 1 \in 0 .. n - 1 /\ (n - 1) + 1 = n
      BY <1>1
    <3> QED BY <2>1, <2>3, <2>4, <3>1 DEF ExpSumming, n
  <2>10. Normalising' /\ LnSumming' /\ Reducing'
    BY <2>1 DEF Normalising, LnSumming, Reducing
  <2>11. Returned'
    BY <2>1, ReturnedStays DEF IInv
  <2> QED BY <2>7, <2>8, <2>9, <2>10, <2>11 DEF IInv
<1>4. CASE ExpHorner
  <2> DEFINE p == HornerStep(EXP_COEFF_62[i], acc, s)
  <2>1. pc = "exp_series" /\ pc' = pc /\ i > 0 /\ acc' = p /\ i' = i - 1
        /\ UNCHANGED <<call, m, k, t, u, neg, s, ret>>
    BY <1>4 DEF ExpHorner
  <2>2. /\ k \in 0 .. LN_SCALE /\ s \in 0 .. LN2_62 - 1 /\ i \in 0 .. n - 1
        /\ ExpSum(i + 1, acc)
    BY <2>1 DEF IInv, ExpSumming
  <2> HIDE DEF n
  <2>3. i \in 1 .. n - 1 /\ i \in 1 .. n
    BY <1>1, <2>1, <2>2
  <2>4. ExpSum(i, p)
    BY <2>2, <2>3, ExpHornerAlternates DEF n
  <2> HIDE DEF p
  <2>5. p \in Int /\ p <= ONE_62 /\ -ONE_62 <= p
    BY <2>3, <2>4, ExpSumBounded DEF n
  <2>6. Staged'
    BY <2>1 DEF IInv, Staged, Running, LnStages, ExpStages
  <2>7. LnRanges' /\ ExpRanges' /\ SumRanges'
    <3>1. p \in -(2 * ONE_62) .. 2 * ONE_62
      BY <2>5, Units
    <3>2. i - 1 \in 0 .. Len(ATANH_COEFF_62) + n
      BY <1>1, <2>3
    <3> QED BY <2>1, <3>1, <3>2 DEF IInv, LnRanges, ExpRanges, SumRanges, n
  <2>8. ExpSumming'
    <3>1. i - 1 \in 0 .. n - 1 /\ (i - 1) + 1 = i
      BY <1>1, <2>3
    <3> QED BY <2>1, <2>2, <2>4, <3>1 DEF ExpSumming, n
  <2>9. Normalising' /\ LnSumming' /\ Reducing'
    BY <2>1 DEF Normalising, LnSumming, Reducing
  <2>10. Returned'
    BY <2>1, ReturnedStays DEF IInv
  <2> QED BY <2>6, <2>7, <2>8, <2>9, <2>10 DEF IInv
<1>5. CASE ExpDone
  <2>1. pc = "exp_series" /\ pc' = "round" /\ i = 0 /\ acc' = Shr(acc, k)
        /\ UNCHANGED <<call, m, k, t, u, i, neg, s, ret>>
    BY <1>5 DEF ExpDone
  <2>2. k \in 0 .. LN_SCALE /\ ExpSum(1, acc)
    BY <2>1 DEF IInv, ExpSumming
  <2>3. acc \in 0 .. ONE_62 /\ k \in 0 .. WIDTH
    <3>1. acc \in Int /\ acc >= 0 /\ acc <= ONE_62
      BY <1>1, <2>2 DEF ExpSum
    <3> QED BY <2>2, <3>1, Units
  <2>4. acc' \in 0 .. ONE_62
    BY <2>1, <2>3, ShrStays
  <2>5. Staged'
    BY <2>1 DEF IInv, Staged, Running, LnStages, ExpStages
  <2>6. LnRanges' /\ ExpRanges' /\ SumRanges'
    <3>1. acc' \in -(2 * ONE_62) .. 2 * ONE_62
      BY <2>4, Units
    <3> QED BY <2>1, <3>1 DEF IInv, LnRanges, ExpRanges, SumRanges
  <2>7. Normalising' /\ LnSumming' /\ Reducing' /\ ExpSumming'
    BY <2>1, <2>4 DEF Normalising, LnSumming, Reducing, ExpSumming
  <2>8. Returned'
    BY <2>1, ReturnedStays DEF IInv
  <2> QED BY <2>5, <2>6, <2>7, <2>8 DEF IInv
<1> QED BY <1>2, <1>3, <1>4, <1>5

LEMMA NextInv ==
  ASSUME IInv, [Next]_vars
  PROVE  IInv'
<1>1. CASE UNCHANGED vars
  BY <1>1, StutterInv
<1>2. CASE Ask \/ Refuse \/ Saturate \/ Return \/ Resume
  BY <1>2, CallInv
<1>3. CASE EnterExp \/ EnterLn
  BY <1>3, EntryInv
<1>4. CASE LnStep
  BY <1>4, LnInv
<1>5. CASE Product
  BY <1>5, ProductInv
<1>6. CASE ExpStep
  BY <1>6, ReductionInv, SeriesInv DEF ExpStep
<1> QED BY <1>1, <1>2, <1>3, <1>4, <1>5, <1>6 DEF Next, Step

\* IInv holds in every reachable state.
LEMMA Invariant == Spec => []IInv
<1>1. Init => IInv
  BY InitInv
<1>2. IInv /\ [Next]_vars => IInv'
  BY NextInv
<1> QED BY <1>1, <1>2, PTL DEF Spec
-----------------------------------------------------------------------------
(***************************************************************************)
(* What the invariant gives in each state.                                 *)
(***************************************************************************)
\* Everything a product of two factors below one can be fits both types.
LEMMA Room ==
  /\ \A z \in Int : -(2 * (ONE_62 * ONE_62)) < z /\ z < 2 * (ONE_62 * ONE_62) => z \in I128
  /\ \A z \in Nat : z < 2 * (ONE_62 * ONE_62) => z \in U128
  /\ ONE_62 * ONE_62 \in Nat /\ 8 * ONE_62 <= ONE_62 * ONE_62
  /\ ARG_ENVELOPE \in Nat /\ ARG_ENVELOPE <= ONE_62 * ONE_62
<1>1. /\ ONE_62 \in Nat /\ ONE_62 >= 8 /\ WORD \in Nat /\ 2^(WIDTH - 1) \in Nat
      /\ 2 * 2^(WIDTH - 1) = WORD /\ 2 * (ONE_62 * ONE_62) <= 2^(WIDTH - 1)
  BY ScaleFacts
<1>2. ARG_ENVELOPE \in Nat /\ ARG_ENVELOPE <= ONE_62 * ONE_62
  BY Units
<1>3. ONE_62 * ONE_62 \in Nat /\ 8 * ONE_62 <= ONE_62 * ONE_62
  BY <1>1, ProductBound
<1> QED BY <1>1, <1>2, <1>3 DEF I128, U128

LEMMA Types == IInv => TypeOK
<1> SUFFICES ASSUME IInv PROVE TypeOK
  OBVIOUS
<1> DEFINE W2 == ONE_62 * ONE_62
<1>1. /\ W2 \in Nat /\ 8 * ONE_62 <= W2 /\ ONE_62 \in Nat /\ ONE_62 >= 8
      /\ ARG_ENVELOPE \in Nat /\ ARG_ENVELOPE <= W2
      /\ LN2_62 \in Nat /\ 10 * LN2_62 <= 7 * ONE_62
      /\ SQRT2_HALF_62 \in Nat /\ 4 * SQRT2_HALF_62 <= 3 * ONE_62
  BY Room, Units
<1>2. /\ \A z \in Int : -(2 * W2) < z /\ z < 2 * W2 => z \in I128
      /\ \A z \in Nat : z < 2 * W2 => z \in U128
  BY Room
<1> HIDE DEF W2
<1>3. m \in U128 /\ t \in I128 /\ u \in U128
  <2>1. /\ m \in Nat /\ m < 2 * W2 /\ u \in Nat /\ u < 2 * W2
        /\ t \in Int /\ -(2 * W2) < t /\ t < 2 * W2
    BY <1>1 DEF IInv, LnRanges
  <2> QED BY <1>2, <2>1
<1>4. k \in I128 /\ neg \in U128 /\ s \in I128
  <2>1. /\ k \in Int /\ -(2 * W2) < k /\ k < 2 * W2
        /\ neg \in Nat /\ neg < 2 * W2
        /\ s \in Int /\ -(2 * W2) < s /\ s < 2 * W2
    BY <1>1 DEF IInv, ExpRanges, Envelope
  <2> QED BY <1>2, <2>1
<1>5. acc \in I128 /\ i \in 0 .. Len(ATANH_COEFF_62) + Len(EXP_COEFF_62)
  <2>1. /\ acc \in Int /\ -(2 * W2) < acc /\ acc < 2 * W2
    BY <1>1 DEF IInv, SumRanges
  <2> QED BY <1>2, <2>1 DEF IInv, SumRanges
<1>6. ret \in I128
  <2>1. ret \in Int /\ -(2 * W2) < ret /\ ret < 2 * W2
    BY <1>1 DEF IInv, Returned
  <2> QED BY <1>2, <2>1
<1>7. /\ pc \in {"idle", "entry", "normalise", "ln_series", "product", "estimate",
                 "reduce_down", "reduce_up", "exp_series", "round", "returned",
                 "panicked"}
      /\ call \in [op : Ops, x : I128, y : I128]
  BY DEF IInv, Staged, Running, LnStages, ExpStages
<1> QED BY <1>3, <1>4, <1>5, <1>6, <1>7 DEF TypeOK

LEMMA LnRoom == IInv => LnFits
<1> SUFFICES ASSUME IInv PROVE LnFits
  OBVIOUS
<1> DEFINE W2 == ONE_62 * ONE_62
<1>1. /\ W2 \in Nat /\ 8 * ONE_62 <= W2 /\ ONE_62 \in Nat /\ ONE_62 >= 8
      /\ SQRT2_HALF_62 \in Nat /\ 4 * SQRT2_HALF_62 <= 3 * ONE_62
  BY Room, Units
<1>2. \A z \in Int : -(2 * W2) < z /\ z < 2 * W2 => z \in I128
  BY Room
<1>3. pc = "normalise" => 2 * m \in I128
  <2>1. 2 * m \in Int /\ -(2 * W2) < 2 * m /\ 2 * m < 2 * W2
    <3>1. m \in Nat /\ m < 2 * SQRT2_HALF_62
      BY DEF IInv, LnRanges
    <3> HIDE DEF W2
    <3> QED BY <1>1, <3>1
  <2> HIDE DEF W2
  <2> QED BY <1>2, <2>1
<1>4. ASSUME pc = "normalise", m >= SQRT2_HALF_62
      PROVE  /\ (m - ONE_62) * ONE_62 \in I128
             /\ AtanhArgument(m) * AtanhArgument(m) \in I128
  <2> DEFINE a == AtanhArgument(m)
             n == (m - ONE_62) * ONE_62
             aa == a * a
  <2>1. InWindow(m)
    BY <1>4 DEF IInv, LnRanges, InWindow
  <2>2. a \in Int /\ 5 * a <= ONE_62 /\ -ONE_62 <= 5 * a
        /\ n \in Int /\ n <= W2 /\ -W2 <= n
    BY <2>1, AtanhBound
  <2>3. aa \in Nat /\ aa <= W2
    <3> HIDE DEF a
    <3> QED BY <2>2, SquareBound
  <2> HIDE DEF W2, n, aa
  <2>4. n \in I128 /\ aa \in I128
    BY <1>1, <1>2, <2>2, <2>3
  <2> QED BY <2>4 DEF n, aa, a
<1>5. pc = "ln_series" /\ i > 0 => acc * u \in I128
  <2> SUFFICES ASSUME pc = "ln_series" PROVE acc * u \in I128
    OBVIOUS
  <2> DEFINE n == acc * u
  <2>1. AtanhSum(acc) /\ u \in Nat /\ 25 * u <= ONE_62 /\ 0 \in 0 .. ONE_62
    BY <1>1 DEF IInv, LnRanges, LnSumming
  <2>2. n \in Nat /\ n <= W2
    BY <2>1, AtanhHorner
  <2> HIDE DEF W2, n
  <2>3. n \in I128
    BY <1>1, <1>2, <2>2
  <2> QED BY <2>3 DEF n
<1>6. pc = "ln_series" /\ i = 0 => t * acc \in I128 /\ k * LN2_62 \in I128
  <2> SUFFICES ASSUME pc = "ln_series" PROVE t * acc \in I128 /\ k * LN2_62 \in I128
    OBVIOUS
  <2> DEFINE n == t * acc
             l == k * LN2_62
  <2>1. /\ t \in Int /\ 5 * t <= ONE_62 /\ -ONE_62 <= 5 * t /\ AtanhSum(acc)
        /\ k \in 0 .. SCALE
    BY DEF IInv, LnRanges, LnSumming
  <2>2. n \in Int /\ n <= W2 /\ -W2 <= n
    BY <2>1, LnMantissaBound
  <2>3. l \in Nat /\ l <= SCALE * LN2_62
    BY <2>1, Units, ProductBound
  <2>4. SCALE * LN2_62 \in Nat /\ SCALE * LN2_62 <= W2
    BY Units
  <2> HIDE DEF W2, n, l
  <2>5. n \in I128 /\ l \in I128
    BY <1>1, <1>2, <2>2, <2>3, <2>4
  <2> QED BY <2>5 DEF n, l
<1>7. pc = "product" => neg >= 0
  BY Units DEF IInv, ExpRanges, Envelope
<1> QED BY <1>3, <1>4, <1>5, <1>6, <1>7 DEF LnFits

LEMMA ExpRoom == IInv => ExpFits
<1> SUFFICES ASSUME IInv PROVE ExpFits
  OBVIOUS
<1> DEFINE W2 == ONE_62 * ONE_62
<1>1. /\ W2 \in Nat /\ 8 * ONE_62 <= W2 /\ ONE_62 \in Nat /\ ONE_62 >= 8
      /\ ARG_ENVELOPE \in Nat /\ ARG_ENVELOPE <= W2
      /\ LN2_62 \in Nat /\ 10 * LN2_62 <= 7 * ONE_62
  BY Room, Units
<1>2. \A z \in Int : -(2 * W2) < z /\ z < 2 * W2 => z \in I128
  BY Room
<1>3. pc = "estimate" => neg * INV_LN2_30 \in U128
  <2>1. neg \in Envelope
    BY DEF IInv, ExpRanges
  <2> QED BY <2>1, EstimateLands
<1>4. pc = "reduce_down" => k * LN2_62 \in I128
  <2> SUFFICES ASSUME pc = "reduce_down" PROVE k * LN2_62 \in I128
    OBVIOUS
  <2> DEFINE l == k * LN2_62
  <2>1. /\ neg \in Envelope /\ k \in Int /\ s \in -LN2_62 .. 2 * LN2_62 - 1
        /\ neg = l + s
    BY DEF IInv, ExpRanges, Reducing
  <2>2. l \in Int
    BY <1>1, <2>1
  <2> HIDE DEF W2, l
  <2>3. -(2 * W2) < l /\ l < 2 * W2
    BY <1>1, <2>1, <2>2 DEF Envelope
  <2>4. l \in I128
    BY <1>2, <2>2, <2>3
  <2> QED BY <2>4 DEF l
<1>5. pc = "exp_series" /\ i > 0 => acc * s \in I128
  <2> SUFFICES ASSUME pc = "exp_series" PROVE acc * s \in I128
    OBVIOUS
  <2> DEFINE n == acc * s
  <2>1. s \in 0 .. LN2_62 - 1 /\ i \in 0 .. Len(EXP_COEFF_62) - 1 /\ ExpSum(i + 1, acc)
    BY DEF IInv, ExpSumming
  <2>2. i + 1 \in 1 .. Len(EXP_COEFF_62)
    BY <2>1, Tables
  <2>3. acc \in Int /\ acc <= ONE_62 /\ -ONE_62 <= acc
    BY <2>1, <2>2, ExpSumBounded
  <2>4. s \in Nat /\ s <= ONE_62
    BY <1>1, <2>1
  <2>5. n \in Int /\ n <= W2 /\ -W2 <= n
    BY <2>3, <2>4, UnitProduct
  <2> HIDE DEF W2, n
  <2>6. n \in I128
    BY <1>1, <1>2, <2>5
  <2> QED BY <2>6 DEF n
<1>6. pc = "exp_series" => k >= 0 /\ k < WIDTH
  BY Units DEF IInv, ExpSumming
<1> QED BY <1>3, <1>4, <1>5, <1>6 DEF ExpFits
-----------------------------------------------------------------------------
\* Every value of a call stays in its type, at every step of every call.
THEOREM TypesHold == Spec => []TypeOK
BY Invariant, Types, PTL

\* ln_inner and exp_inner's debug_asserts hold, so compiling them away in a
\* release build changes nothing.
THEOREM DebugAssertsNeverFire == Spec => []DebugAssertsHold
<1>1. IInv => DebugAssertsHold
  BY Units DEF IInv, LnSumming, InWindow, ExpRanges, Envelope, DebugAssertsHold
<1> QED BY <1>1, Invariant, PTL

\* No product, sum or shift of the pow pipeline leaves its type: the ledger of
\* docs/overflow-proof.md.
THEOREM PipelineNeverOverflows == Spec => []NothingOverflows
<1>1. IInv => NothingOverflows
  BY LnRoom, ExpRoom DEF NothingOverflows
<1> QED BY <1>1, Invariant, PTL

\* A call inside its domain never panics: the fit assert of the argument
\* product cannot fire.
THEOREM InDomainNeverPanics == Spec => []OnlyDomainPanics
<1>1. IInv => OnlyDomainPanics
  BY DEF IInv, Staged, OnlyDomainPanics
<1> QED BY <1>1, Invariant, PTL

\* What an entry point returns is in its documented range, pads included.
THEOREM ReturnsInRange == Spec => []ResultsInRange
<1>1. IInv => ResultsInRange
  BY DEF IInv, Returned
<1> QED BY <1>1, Invariant, PTL

\* One iteration of one of the two loops always lands in [0, ln 2).
THEOREM OneCorrection == Spec => CorrectsOnce
<1>1. IInv /\ [Next]_vars =>
        [pc' = pc /\ pc \in {"reduce_down", "reduce_up"} => 0 <= s' /\ s' < LN2_62]_vars
  <2> SUFFICES ASSUME IInv, Next, pc' = pc, pc \in {"reduce_down", "reduce_up"}
               PROVE  0 <= s' /\ s' < LN2_62
    BY DEF vars
  <2>1. ReduceDown \/ ReduceUp
    BY DEF Next, Step, Ask, Resume, Refuse, Saturate, EnterExp, EnterLn, LnStep,
           Double, Divide, LnHorner, LnDone, Product, ExpStep, Estimate, DownDone,
           Underflow, Reduced, BeginSeries, ExpHorner, ExpDone, Return
  <2>2. \/ s < 0 /\ s' = s + LN2_62
        \/ s >= LN2_62 /\ s' = s - LN2_62
    BY <2>1 DEF ReduceDown, ReduceUp
  <2>3. s \in -LN2_62 .. 2 * LN2_62 - 1 /\ LN2_62 \in Nat
    BY Units DEF IInv, ExpRanges
  <2> QED BY <2>2, <2>3
<1> QED BY <1>1, Invariant, PTL DEF Spec, CorrectsOnce
-----------------------------------------------------------------------------
(***************************************************************************)
(* The loops compute the functions of Pow.                                 *)
(***************************************************************************)
-----------------------------------------------------------------------------
(***************************************************************************)
(* What the locals have to do with the functions of Pow, stage by stage.   *)
(***************************************************************************)
\* p is the partial sum of Horner's rule from the j-th coefficient on.
PartialSum(table, v, j, p) ==
  \E f : Horner(table, v) = f[1] /\ PartialSums(table, v, f) /\ p = f[j]

\* The argument of exp_inner.
Argument == IF call.op \in ExpOps THEN -call.x * GUARD
            ELSE ArgProduct(call.y, ln_inner[call.x]).value

Doubled == /\ m = call.x * GUARD * 2^k
           /\ k > 0 => call.x * GUARD * 2^(k - 1) < SQRT2_HALF_62

LnSeries == /\ k = Doublings(call.x)
            /\ t = AtanhArgument(call.x * GUARD * 2^k)
            /\ u = Square(t)
            /\ PartialSum(ATANH_COEFF_62, u, i + 1, acc)

ExpSeries == /\ Argument \in Nat
             /\ k = Argument \div LN2_62 /\ s = Argument % LN2_62
             /\ PartialSum(EXP_COEFF_62, s, i + 1, acc)

Computes ==
  /\ pc \in Running => ~Saturates(call.op, call.x)
  /\ pc = "normalise" => Doubled
  /\ pc = "ln_series" => LnSeries
  /\ pc = "product" \/ (pc = "round" /\ call.op = "ln") => neg = ln_inner[call.x]
  /\ pc \in {"estimate", "reduce_down", "reduce_up"} => neg = Argument
  /\ pc = "exp_series" => ExpSeries
  /\ pc = "round" /\ call.op # "ln" => acc = exp_inner[Argument]
  /\ pc = "returned" => /\ InDomain(call.op, call.x, call.y)
                        /\ ret = Returns(call.op, call.x, call.y)

LEMMA SumStarts ==
  ASSUME NEW table, Len(table) \in Nat, Len(table) >= 1, NEW v
  PROVE  PartialSum(table, v, Len(table), table[Len(table)])
<1>1. PICK f : Horner(table, v) = f[1] /\ PartialSums(table, v, f)
  BY HornerUnfolds
<1> QED BY <1>1 DEF PartialSum, PartialSums

LEMMA SumGoesOn ==
  ASSUME NEW table, NEW v, NEW j \in 1 .. Len(table) - 1, NEW p,
         PartialSum(table, v, j + 1, p)
  PROVE  PartialSum(table, v, j, HornerStep(table[j], p, v))
<1>1. PICK f : Horner(table, v) = f[1] /\ PartialSums(table, v, f) /\ p = f[j + 1]
  BY DEF PartialSum
<1>2. HornerStep(table[j], p, v) = f[j]
  BY <1>1 DEF PartialSums
<1> QED BY <1>1, <1>2 DEF PartialSum

LEMMA SumEnds ==
  ASSUME NEW table, NEW v, NEW p, PartialSum(table, v, 1, p)
  PROVE  p = Horner(table, v)
BY DEF PartialSum

\* A base of the domain, as every stage of ln_inner has it.
LEMMA BaseFacts ==
  ASSUME IInv, pc \in LnStages \cup {"product"}
  PROVE  /\ call.x \in 1 .. ONE /\ call.op \in Ops /\ call.op \notin ExpOps
         /\ call.y \in I128
         /\ call.op \in PowOps => call.y \in 1 .. MAX_RATIO * ONE
<1>1. call \in [op : Ops, x : I128, y : I128] /\ InDomain(call.op, call.x, call.y)
      /\ call.op \notin ExpOps
  BY DEF IInv, Staged, Running, LnStages, PowOps, RawOps, Ops62, ExpOps
<1>2. call.x \in Int /\ call.y \in Int
  BY <1>1, ScaleFacts DEF I128
<1> QED BY <1>1, <1>2, DomainFacts

LEMMA ComputesEntry ==
  ASSUME IInv, Computes, EnterExp \/ EnterLn
  PROVE  Computes'
<1>1. CASE EnterExp
  <2>1. /\ pc' = "estimate" /\ neg' = -call.x * GUARD /\ call' = call
        /\ call.op \in ExpOps /\ ~Saturates(call.op, call.x)
    BY <1>1 DEF EnterExp
  <2>2. Argument' = -call.x * GUARD
    BY <2>1 DEF Argument
  <2> QED BY <2>1, <2>2 DEF Computes
<1>2. CASE EnterLn
  <2>1. /\ pc' = "normalise" /\ m' = call.x * GUARD /\ k' = 0 /\ call' = call
        /\ call.op \notin ExpOps /\ InDomain(call.op, call.x, call.y)
    BY <1>2 DEF EnterLn
  <2>2. call.x * GUARD \in Int
    <3>1. call \in [op : Ops, x : I128, y : I128]
      BY DEF IInv, Staged
    <3>2. call.x \in Int
      BY <3>1, ScaleFacts DEF I128
    <3> QED BY <3>2, Units
  <2>3. Doubled'
    BY <2>1, <2>2, PowerAssumption DEF Doubled
  <2>4. ~Saturates(call.op, call.x)
    BY <2>1 DEF Saturates
  <2> QED BY <2>1, <2>3, <2>4 DEF Computes
<1> QED BY <1>1, <1>2

LEMMA ComputesLn ==
  ASSUME IInv, Computes, LnStep
  PROVE  Computes'
<1>1. pc \in LnStages /\ ~Saturates(call.op, call.x) /\ call' = call
  BY DEF LnStep, Double, Divide, LnHorner, LnDone, LnStages, Computes, Running
<1>2. call.x \in 1 .. ONE /\ call.op \in Ops /\ call.op \notin ExpOps
  <2>1. pc \in LnStages \cup {"product"}
    BY <1>1
  <2> QED BY <2>1, BaseFacts
<1> DEFINE g == call.x * GUARD
           n == Len(ATANH_COEFF_62)
<1>3. g \in Nat /\ n \in Nat /\ n >= 1
  BY <1>2, Units, Tables
<1>4. CASE Double
  <2>1. /\ pc = "normalise" /\ pc' = pc /\ m < SQRT2_HALF_62 /\ m' = 2 * m /\ k' = k + 1
    BY <1>4 DEF Double
  <2>2. k \in 0 .. SCALE /\ SCALE \in Nat /\ SCALE < WIDTH /\ WIDTH \in Nat /\ m = g * 2^k
    BY <2>1, Units, ScaleAssumption DEF IInv, Normalising, Computes, Doubled
  <2>3. k \in 0 .. WIDTH - 1 /\ k \in Nat
    BY <2>2
  <2>4. 2^(k + 1) = 2 * 2^k /\ 2^k \in Nat
    BY <2>3, <2>2, PowerAssumption, PowerPositive
  <2> HIDE DEF g
  <2>5. 2 * m = g * 2^(k + 1) /\ (k + 1) - 1 = k
    BY <1>3, <2>2, <2>3, <2>4
  <2>6. Doubled'
    BY <1>1, <2>1, <2>2, <2>5 DEF Doubled, g
  <2> QED BY <1>1, <2>1, <2>6 DEF Computes
<1>5. CASE Divide
  <2>1. /\ pc = "normalise" /\ pc' = "ln_series" /\ m >= SQRT2_HALF_62
        /\ t' = AtanhArgument(m) /\ u' = Square(AtanhArgument(m))
        /\ acc' = ATANH_COEFF_62[n] /\ i' = n - 1 /\ k' = k
    BY <1>5 DEF Divide
  <2>2. k \in 0 .. SCALE /\ Doubled
    BY <2>1 DEF IInv, Normalising, Computes
  <2>3. Doublings(call.x) = k
    BY <1>2, <2>1, <2>2, FirstReached DEF Doubled
  <2>4. PartialSum(ATANH_COEFF_62, u', n, ATANH_COEFF_62[n])
    BY <1>3, SumStarts
  <2>5. (n - 1) + 1 = n
    BY <1>3
  <2>6. LnSeries'
    BY <1>1, <2>1, <2>2, <2>3, <2>4, <2>5 DEF LnSeries, Doubled
  <2> QED BY <1>1, <2>1, <2>6 DEF Computes
<1>6. CASE LnHorner
  <2>1. /\ pc = "ln_series" /\ pc' = pc /\ i > 0 /\ i' = i - 1
        /\ acc' = HornerStep(ATANH_COEFF_62[i], acc, u)
        /\ UNCHANGED <<k, t, u>>
    BY <1>6 DEF LnHorner
  <2>2. LnSeries /\ i \in 0 .. n - 1
    BY <2>1 DEF IInv, LnSumming, Computes
  <2>3. i \in 1 .. n - 1 /\ (i - 1) + 1 = i
    BY <1>3, <2>1, <2>2
  <2>4. PartialSum(ATANH_COEFF_62, u, i, acc')
    BY <2>1, <2>2, <2>3, SumGoesOn DEF LnSeries
  <2>5. LnSeries'
    BY <1>1, <2>1, <2>2, <2>3, <2>4 DEF LnSeries
  <2> QED BY <1>1, <2>1, <2>5 DEF Computes
<1>7. CASE LnDone
  <2>1. /\ pc = "ln_series" /\ i = 0 /\ neg' = k * LN2_62 - LnMantissa(t, acc)
        /\ pc' = IF call.op = "ln" THEN "round" ELSE "product"
    BY <1>7 DEF LnDone
  <2>2. LnSeries
    BY <2>1 DEF Computes
  <2>3. acc = Horner(ATANH_COEFF_62, u)
    BY <2>1, <2>2, SumEnds DEF LnSeries
  <2>4. neg' = ln_inner[call.x]
    BY <1>2, <2>1, <2>2, <2>3 DEF ln_inner, LnSeries
  <2> QED BY <1>1, <2>1, <2>4 DEF Computes
<1> QED BY <1>4, <1>5, <1>6, <1>7 DEF LnStep

LEMMA ComputesProduct ==
  ASSUME IInv, Computes, Product
  PROVE  Computes'
<1> DEFINE arg == ArgProduct(call.y, neg)
<1>1. pc = "product" /\ call' = call /\ call.op \in PowOps /\ neg \in LnRange
      /\ neg = ln_inner[call.x] /\ ~Saturates(call.op, call.x)
  BY DEF Product, Computes, IInv, Staged, LnSumming, Running
<1>2. call.y \in 1 .. MAX_RATIO * ONE /\ call.y \in I128 /\ call.op \notin ExpOps
  <2>1. pc \in LnStages \cup {"product"}
    BY <1>1
  <2> QED BY <1>1, <2>1, BaseFacts
<1>3. ~Panicked(arg)
  BY <1>1, <1>2, ArgProductFits
<1>4. pc' = "estimate" /\ neg' = arg.value
  BY <1>3 DEF Product
<1>5. Argument' = arg.value
  BY <1>1, <1>2 DEF Argument
<1> QED BY <1>1, <1>4, <1>5 DEF Computes

LEMMA ComputesExp ==
  ASSUME IInv, Computes, ExpStep
  PROVE  Computes'
<1> DEFINE n == Len(EXP_COEFF_62)
           A == Argument
<1>1. pc \in ExpStages /\ ~Saturates(call.op, call.x) /\ call' = call /\ call.op # "ln"
  BY DEF ExpStep, Estimate, ReduceDown, DownDone, ReduceUp, Underflow, BeginSeries, ExpHorner,
         ExpDone, Reduced, ExpStages, Computes, Running, IInv, Staged
<1>2. Argument' = A
  BY <1>1 DEF Argument
<1>3. n \in Nat /\ n >= 1 /\ LN2_62 \in Nat /\ LN2_62 > 0
  BY Units, Tables
<1>4. CASE Estimate \/ ReduceDown \/ DownDone \/ ReduceUp
  <2>1. /\ pc \in {"estimate", "reduce_down", "reduce_up"}
        /\ pc' \in {"reduce_down", "reduce_up"} /\ neg' = neg
    BY <1>4 DEF Estimate, ReduceDown, DownDone, ReduceUp, locals
  <2> QED BY <1>1, <1>2, <2>1 DEF Computes
<1>5. ASSUME Reduced
      PROVE  /\ A \in Nat /\ k = A \div LN2_62 /\ s = A % LN2_62
  <2>1. /\ neg \in Envelope /\ k \in Int /\ s \in Int /\ neg = (k * LN2_62) + s
        /\ neg = A /\ 0 <= s /\ s < LN2_62
    BY <1>5, Units DEF IInv, ExpRanges, Reducing, Reduced, Computes
  <2>2. neg \in Nat /\ neg = (LN2_62 * k) + s
    BY <2>1, <1>3, Units DEF Envelope
  <2> QED BY <2>1, <2>2, <1>3, DivisionUnique
<1>6. CASE Underflow
  <2>1. Reduced /\ k > LN_SCALE /\ pc' = "round" /\ acc' = 0
    BY <1>6 DEF Underflow
  <2>2. A \in Nat /\ k = A \div LN2_62
    BY <1>5, <2>1
  <2> HIDE DEF A
  <2>3. exp_inner[A] = 0
    BY <2>1, <2>2 DEF exp_inner
  <2> QED BY <1>1, <1>2, <2>1, <2>3 DEF Computes
<1>7. CASE BeginSeries
  <2>1. /\ Reduced /\ pc' = "exp_series" /\ acc' = EXP_COEFF_62[n] /\ i' = n - 1
        /\ UNCHANGED <<k, s>>
    BY <1>7 DEF BeginSeries
  <2>2. A \in Nat /\ k = A \div LN2_62 /\ s = A % LN2_62
    BY <1>5, <2>1
  <2>3. PartialSum(EXP_COEFF_62, s, n, EXP_COEFF_62[n])
    BY <1>3, SumStarts
  <2>4. (n - 1) + 1 = n
    BY <1>3
  <2> HIDE DEF A
  <2>5. ExpSeries'
    BY <1>2, <2>1, <2>2, <2>3, <2>4 DEF ExpSeries
  <2> QED BY <1>1, <2>1, <2>5 DEF Computes
<1>8. CASE ExpHorner
  <2>1. /\ pc = "exp_series" /\ pc' = pc /\ i > 0 /\ i' = i - 1
        /\ acc' = HornerStep(EXP_COEFF_62[i], acc, s)
        /\ UNCHANGED <<k, s>>
    BY <1>8 DEF ExpHorner
  <2>2. ExpSeries /\ i \in 0 .. n - 1
    BY <2>1 DEF IInv, ExpSumming, Computes
  <2>3. i \in 1 .. n - 1 /\ (i - 1) + 1 = i
    BY <1>3, <2>1, <2>2
  <2>4. PartialSum(EXP_COEFF_62, s, i, acc')
    BY <2>1, <2>2, <2>3, SumGoesOn DEF ExpSeries
  <2>5. ExpSeries'
    BY <1>2, <2>1, <2>2, <2>3, <2>4 DEF ExpSeries
  <2> QED BY <1>1, <2>1, <2>5 DEF Computes
<1>9. CASE ExpDone
  <2>1. pc = "exp_series" /\ i = 0 /\ pc' = "round" /\ acc' = Shr(acc, k)
    BY <1>9 DEF ExpDone
  <2>2. ExpSeries /\ k \in 0 .. LN_SCALE
    BY <2>1 DEF IInv, ExpSumming, Computes
  <2>3. acc = Horner(EXP_COEFF_62, s)
    BY <2>1, <2>2, SumEnds DEF ExpSeries
  <2>4. A \in Nat
    BY <2>2 DEF ExpSeries
  <2> HIDE DEF A
  <2>5. exp_inner[A] = Shr(acc, k)
    BY <2>2, <2>3, <2>4, Units DEF exp_inner, ExpSeries, A
  <2> QED BY <1>1, <1>2, <2>1, <2>5 DEF Computes, A
<1> QED BY <1>4, <1>6, <1>7, <1>8, <1>9 DEF ExpStep
LEMMA ReturnsCases ==
  ASSUME NEW op \in Ops, NEW x, NEW y
  PROVE  /\ Saturates(op, x) => Returns(op, x, y) = SaturatedValue(op)
         /\ op \in ExpOps /\ ~Saturates(op, x) =>
              Returns(op, x, y) = Rounded(op, exp_inner[-x * GUARD])
         /\ op = "ln" => Returns(op, x, y) = Rounded(op, ln_inner[x])
         /\ op \in PowOps => Returns(op, x, y) = Rounded(op, pow_inner(x, y))
<1>1. CASE Saturates(op, x)
  <2>1. op \in ExpOps /\ op # "ln" /\ op \notin PowOps
    BY <1>1 DEF Saturates, ExpOps, PowOps, RawOps, Ops62
  <2> QED BY <1>1, <2>1, Zenon DEF Returns
<1>2. CASE ~Saturates(op, x) /\ op \in ExpOps
  <2>1. op # "ln" /\ op \notin PowOps
    BY <1>2 DEF ExpOps, PowOps, RawOps, Ops62
  <2> QED BY <1>2, <2>1, Zenon DEF Returns
<1>3. CASE ~Saturates(op, x) /\ op \notin ExpOps
  <2>1. ~(op = "ln" /\ op \in PowOps)
    BY DEF PowOps, RawOps, Ops62
  <2> QED BY <1>3, <2>1, Zenon DEF Returns
<1> QED BY <1>1, <1>2, <1>3

\* The last line of an entry point answers the call.
LEMMA ReturnAnswers ==
  ASSUME IInv, Computes, Return
  PROVE  InDomain(call.op, call.x, call.y) /\ ret' = Returns(call.op, call.x, call.y)
<1>1. /\ pc = "round" /\ InDomain(call.op, call.x, call.y) /\ call.op \in Ops
      /\ ~Saturates(call.op, call.x)
      /\ ret' = Rounded(call.op, IF call.op = "ln" THEN neg ELSE acc)
  BY DEF Return, IInv, Staged, Computes, Running
<1>2. CASE call.op = "ln"
  BY <1>1, <1>2, ReturnsCases DEF Computes
<1>3. CASE call.op \in ExpOps
  <2>1. call.op # "ln" /\ Argument = -call.x * GUARD
    BY <1>3 DEF ExpOps, Argument
  <2>2. ret' = Rounded(call.op, exp_inner[-call.x * GUARD])
    BY <1>1, <2>1 DEF Computes
  <2> QED BY <1>1, <1>3, <2>2, ReturnsCases
<1>4. CASE call.op \in PowOps
  <2>1. call.op # "ln" /\ call.op \notin ExpOps
    BY <1>4 DEF PowOps, RawOps, Ops62, ExpOps
  <2>2. ret' = Rounded(call.op, pow_inner(call.x, call.y))
    BY <1>1, <2>1 DEF Computes, Argument, pow_inner
  <2> QED BY <1>1, <1>4, <2>2, ReturnsCases
<1> QED BY <1>1, <1>2, <1>3, <1>4 DEF Ops

\* A saturated argument has no other answer.
LEMMA SaturationAnswers ==
  ASSUME IInv, Saturate
  PROVE  InDomain(call.op, call.x, call.y) /\ ret' = Returns(call.op, call.x, call.y)
<1>1. /\ InDomain(call.op, call.x, call.y) /\ call.op \in Ops
      /\ Saturates(call.op, call.x) /\ ret' = SaturatedValue(call.op)
  BY DEF Saturate, IInv, Staged
<1> QED BY <1>1, ReturnsCases

LEMMA ComputesInvariant == Spec => [](IInv /\ Computes)
<1>1. Init => Computes
  BY DEF Init, Computes, Running, LnStages, ExpStages
<1>2. Init => IInv
  BY InitInv
<1>3. IInv /\ [Next]_vars => IInv'
  BY NextInv
<1>4. IInv /\ Computes /\ [Next]_vars => Computes'
  <2> SUFFICES ASSUME IInv, Computes, [Next]_vars PROVE Computes'
    OBVIOUS
  <2>1. CASE Ask \/ Refuse \/ Resume
    <3>1. pc' \in {"idle", "entry", "panicked"}
      BY <2>1 DEF Ask, Refuse, Resume
    <3> QED BY <3>1 DEF Computes, Running, LnStages, ExpStages
  <2>7. CASE Saturate \/ Return
    <3>1. pc' = "returned" /\ call' = call
      BY <2>7 DEF Saturate, Return
    <3>2. InDomain(call.op, call.x, call.y) /\ ret' = Returns(call.op, call.x, call.y)
      BY <2>7, SaturationAnswers, ReturnAnswers
    <3> QED BY <3>1, <3>2 DEF Computes, Running, LnStages, ExpStages
  <2>2. CASE EnterExp \/ EnterLn
    BY <2>2, ComputesEntry
  <2>3. CASE LnStep
    BY <2>3, ComputesLn
  <2>4. CASE Product
    BY <2>4, ComputesProduct
  <2>5. CASE ExpStep
    BY <2>5, ComputesExp
  <2>6. CASE UNCHANGED vars
    BY <2>6 DEF vars, locals, Computes, Doubled, LnSeries, ExpSeries, Argument
  <2> QED BY <2>1, <2>2, <2>3, <2>4, <2>5, <2>6, <2>7 DEF Next, Step
<1> QED BY <1>1, <1>2, <1>3, <1>4, PTL DEF Spec
-----------------------------------------------------------------------------
(***************************************************************************)
(* Abstract has the definitions of Pow by its own names.                   *)
(***************************************************************************)
LEMMA SameConstants ==
  /\ Abstract!ONE = ONE /\ Abstract!ONE_62 = ONE_62 /\ Abstract!GUARD = GUARD
  /\ Abstract!ExpOps = ExpOps /\ Abstract!Ops62 = Ops62 /\ Abstract!RawOps = RawOps
  /\ Abstract!PowOps = PowOps
BY DEF Abstract!ONE, ONE, Abstract!ONE_62, ONE_62, Abstract!GUARD, GUARD, Abstract!ExpOps,
       ExpOps, Abstract!Ops62, Ops62, Abstract!PowOps, PowOps, Abstract!RawOps, RawOps

LEMMA SameDomain ==
  ASSUME NEW op, NEW x, NEW y
  PROVE  Abstract!InDomain(op, x, y) <=> InDomain(op, x, y)
BY SameConstants DEF Abstract!InDomain, InDomain

LEMMA SameHorner ==
  ASSUME NEW table, NEW v
  PROVE  Abstract!Horner(table, v) = Horner(table, v)
BY DEF Abstract!Horner, Horner, Abstract!HornerStep, HornerStep, Abstract!Shr, Shr

LEMMA SameExp == Abstract!exp_inner = exp_inner
BY SameHorner DEF Abstract!exp_inner, exp_inner, Abstract!Shr, Shr

LEMMA SameLn == Abstract!ln_inner = ln_inner
BY SameConstants, SameHorner
   DEF Abstract!ln_inner, ln_inner, Abstract!Doublings, Doublings, Abstract!Square, Square,
       Abstract!AtanhArgument, AtanhArgument, Abstract!TruncDiv, TruncDiv,
       Abstract!LnMantissa, LnMantissa, Abstract!Shr, Shr

LEMMA SamePow ==
  ASSUME NEW x, NEW y
  PROVE  Abstract!pow_inner(x, y) = pow_inner(x, y)
<1>1. ASSUME NEW a, NEW b, NEW n
      PROVE  Abstract!mul_shr(a, b, n) = mul_shr(a, b, n)
  BY DEF Abstract!mul_shr, mul_shr, Abstract!ProductFits, ProductFits, Abstract!Recombined,
         Recombined, Abstract!mul_wide, mul_wide, Abstract!Shr, Shr, Abstract!Wrap, Wrap,
         Abstract!WORD, WORD, Abstract!LIMB, LIMB, Abstract!Value, Value,
         Abstract!Panic, Panic
<1> QED BY <1>1, SameExp, SameLn DEF Abstract!pow_inner, pow_inner, Abstract!ArgProduct,
                                     ArgProduct

LEMMA SameRounded ==
  ASSUME NEW op, NEW v
  PROVE  Abstract!Rounded(op, v) = Rounded(op, v)
<1>1. ASSUME NEW w PROVE Abstract!to_scale_nearest(w) = to_scale_nearest(w)
  BY SameConstants DEF Abstract!to_scale_nearest, to_scale_nearest
<1>2. ASSUME NEW a, NEW b
      PROVE  Abstract!AtLeast(a, b) = AtLeast(a, b) /\ Abstract!AtMost(a, b) = AtMost(a, b)
  BY DEF Abstract!AtLeast, AtLeast, Abstract!AtMost, AtMost
<1> QED BY <1>1, <1>2, SameConstants DEF Abstract!Rounded, Rounded
-----------------------------------------------------------------------------
LEMMA SameReturns ==
  ASSUME NEW op \in Ops, NEW x, NEW y
  PROVE  Abstract!Returns(op, x, y) = Returns(op, x, y)
<1>1. Abstract!Saturates(op, x) <=> Saturates(op, x)
  BY SameConstants DEF Abstract!Saturates, Saturates, Abstract!EXP_SATURATION, EXP_SATURATION
<1>2. Abstract!SaturatedValue(op) = SaturatedValue(op)
  BY SameConstants DEF Abstract!SaturatedValue, SaturatedValue
<1>3. /\ Abstract!Rounded(op, Abstract!exp_inner[-x * Abstract!GUARD])
           = Rounded(op, exp_inner[-x * GUARD])
      /\ Abstract!Rounded(op, Abstract!ln_inner[x]) = Rounded(op, ln_inner[x])
      /\ Abstract!Rounded(op, Abstract!pow_inner(x, y)) = Rounded(op, pow_inner(x, y))
  BY SameConstants, SameExp, SameLn, SamePow, SameRounded
<1>4. (op \in Abstract!ExpOps <=> op \in ExpOps) /\ (op \in Abstract!PowOps <=> op \in PowOps)
  BY SameConstants
<1>5. CASE Saturates(op, x)
  <2>1. op \in ExpOps /\ op # "ln" /\ op \notin PowOps
    BY <1>5 DEF Saturates, ExpOps, PowOps, RawOps, Ops62
  <2>2. Abstract!Returns(op, x, y) = Abstract!SaturatedValue(op)
    BY <1>1, <1>4, <1>5, <2>1, Zenon DEF Abstract!Returns
  <2> QED BY <1>2, <1>5, <2>2, ReturnsCases
<1>6. CASE ~Saturates(op, x) /\ op \in ExpOps
  <2>1. op # "ln" /\ op \notin PowOps
    BY <1>6 DEF ExpOps, PowOps, RawOps, Ops62
  <2>2. Abstract!Returns(op, x, y) = Abstract!Rounded(op, Abstract!exp_inner[-x * Abstract!GUARD])
    BY <1>1, <1>4, <1>6, <2>1, Zenon DEF Abstract!Returns
  <2> QED BY <1>3, <1>6, <2>2, ReturnsCases
<1>7. CASE op = "ln"
  <2>1. ~Saturates(op, x) /\ op \notin ExpOps /\ op \notin PowOps
    BY <1>7 DEF Saturates, ExpOps, PowOps, RawOps, Ops62
  <2>2. Abstract!Returns(op, x, y) = Abstract!Rounded(op, Abstract!ln_inner[x])
    BY <1>1, <1>4, <1>7, <2>1, Zenon DEF Abstract!Returns
  <2> QED BY <1>3, <1>7, <2>2, ReturnsCases
<1>8. CASE op \in PowOps
  <2>1. ~Saturates(op, x) /\ op \notin ExpOps /\ op # "ln"
    BY <1>8 DEF Saturates, ExpOps, PowOps, RawOps, Ops62
  <2>2. Abstract!Returns(op, x, y) = Abstract!Rounded(op, Abstract!pow_inner(x, y))
    BY <1>1, <1>4, <1>8, <2>1, Zenon DEF Abstract!Returns
  <2> QED BY <1>3, <1>8, <2>2, ReturnsCases
<1> QED BY <1>5, <1>6, <1>7, <1>8 DEF Ops

(***************************************************************************)
(* The step part of RefinesPowCalls: whatever the constants, the loops,    *)
(* early returns and roundings of pow.rs answer a call with the value the  *)
(* functions of Pow give it, or refuse it, and nothing in between is seen. *)
(***************************************************************************)
THEOREM StepsAnswerCalls == Spec => Abstract!Init /\ [][Abstract!Next]_(Abstract!vars)
<1>1. Init => Abstract!Init
  BY SameConstants DEF Init, Abstract!Init, Phase, Abstract!NoCall, NoCall
<1>2. IInv /\ Computes /\ [Next]_vars => [Abstract!Next]_(Abstract!vars)
  <2> SUFFICES ASSUME IInv, Computes, [Next]_vars PROVE [Abstract!Next]_(Abstract!vars)
    OBVIOUS
  <2>1. CASE Ask
    <3>1. Abstract!Ask
      BY <2>1 DEF Ask, Abstract!Ask, Phase
    <3> QED BY <3>1 DEF Abstract!Next
  <2>2. CASE Refuse
    <3>1. Abstract!Refuse
      BY <2>2, SameDomain DEF Refuse, Abstract!Refuse, Phase
    <3> QED BY <3>1 DEF Abstract!Next
  <2>3. CASE Saturate \/ Return
    <3>1. InDomain(call.op, call.x, call.y) /\ ret' = Returns(call.op, call.x, call.y)
      BY <2>3, SaturationAnswers, ReturnAnswers
    <3>2. pc \in {"entry", "round"} /\ pc' = "returned" /\ call' = call
      BY <2>3 DEF Saturate, Return
    <3>3. Abstract!Answer
      <4>1. call.op \in Ops
        BY DEF IInv, Staged
      <4> QED BY <3>1, <3>2, <4>1, SameDomain, SameReturns DEF Abstract!Answer, Phase
    <3> QED BY <3>3 DEF Abstract!Next
  <2>4. CASE Resume
    <3>1. Abstract!Resume
      BY <2>4, SameConstants DEF Resume, Abstract!Resume, Phase, Abstract!NoCall, NoCall
    <3> QED BY <3>1 DEF Abstract!Next
  <2>5. CASE EnterExp \/ EnterLn \/ LnStep \/ Product \/ ExpStep
    <3>1. /\ UNCHANGED <<call, ret>>
          /\ pc \in {"entry", "product"} \cup LnStages \cup ExpStages
      BY <2>5 DEF EnterExp, EnterLn, LnStep, Double, Divide, LnHorner, LnDone, Product,
                  ExpStep, Estimate, ReduceDown, DownDone, ReduceUp, Underflow, BeginSeries,
                  ExpHorner, ExpDone, Reduced, LnStages, ExpStages
    <3>2. pc' \in Running
      <4>1. pc' \in Running \cup {"panicked"}
        BY <2>5 DEF EnterExp, EnterLn, LnStep, Double, Divide, LnHorner, LnDone, Product,
                    ExpStep, Estimate, ReduceDown, DownDone, ReduceUp, Underflow, BeginSeries,
                    ExpHorner, ExpDone, Reduced, LnStages, ExpStages, Running
      <4>2. IInv'
        BY NextInv
      <4>3. pc' # "panicked"
        <5>1. pc \in {"entry"} \cup Running
          BY <3>1 DEF Running
        <5>2. InDomain(call.op, call.x, call.y)
          BY <2>5, <5>1 DEF EnterExp, EnterLn, IInv, Staged, LnStep, Double, Divide,
               LnHorner, LnDone, Product, ExpStep, Estimate, ReduceDown, DownDone, ReduceUp,
               Underflow, BeginSeries, ExpHorner, ExpDone, Reduced, Running,
               LnStages, ExpStages
        <5> QED BY <3>1, <4>2, <5>2 DEF IInv, Staged
      <4> QED BY <4>1, <4>3
    <3>3. Phase = "busy" /\ Phase' = "busy"
      BY <3>1, <3>2 DEF Phase, Running, LnStages, ExpStages
    <3> QED BY <3>1, <3>3 DEF Abstract!vars
  <2>6. CASE UNCHANGED vars
    BY <2>6 DEF vars, Abstract!vars, Phase
  <2> QED BY <2>1, <2>2, <2>3, <2>4, <2>5, <2>6 DEF Next, Step
<1> QED BY <1>1, <1>2, ComputesInvariant, PTL DEF Spec
-----------------------------------------------------------------------------
\* Two values that add up to one round to results that do, up to a unit.
LEMMA ComplementsRound ==
  ASSUME NEW v \in 0 .. ONE_62
  PROVE  to_scale_nearest(v) + to_scale_nearest(ONE_62 - v) - ONE \in -1 .. 1
<1> DEFINE h == GUARD \div 2
           w == ONE_62 - v
           p == (v + h) \div GUARD
           q == (w + h) \div GUARD
<1>1. /\ ONE_62 \in Nat /\ ONE \in Nat /\ GUARD \in Nat /\ GUARD > 0
      /\ ONE * GUARD = ONE_62
  BY Units
<1>2. h \in Nat /\ 2 * h <= GUARD
  BY <1>1, DivisionBounds, DivisionNat
<1>3. v \in Nat /\ w \in Nat /\ v + w = GUARD * ONE
  BY <1>1
<1>4. to_scale_nearest(v) = p /\ to_scale_nearest(w) = q
  BY DEF to_scale_nearest
<1> HIDE DEF h, w
<1>5. /\ p \in Int /\ GUARD * p <= v + h /\ v + h < (GUARD * p) + GUARD
      /\ q \in Int /\ GUARD * q <= w + h /\ w + h < (GUARD * q) + GUARD
  BY <1>1, <1>2, <1>3, DivisionBounds
<1> HIDE DEF p, q
<1> DEFINE n == p + q - ONE
<1>6. n \in Int /\ GUARD * n = (GUARD * p) + (GUARD * q) - (GUARD * ONE)
  BY <1>1, <1>5
<1>7. GUARD * n < GUARD * 2 /\ GUARD * (-2) < GUARD * n
  BY <1>1, <1>2, <1>3, <1>5, <1>6
<1> HIDE DEF n
<1>8. n < 2 /\ -2 < n
  BY <1>1, <1>6, <1>7, Cancel
<1>9. n \in -1 .. 1
  BY <1>6, <1>8
<1> QED BY <1>4, <1>9 DEF n, w

(***************************************************************************)
(* exp and expm1 agree to one ulp at every argument, the saturated ones    *)
(* among them.                                                             *)
(***************************************************************************)
THEOREM ExpFormsClose == Spec => []ExpFormsAgree
<1>1. IInv /\ Computes => ExpFormsAgree
  <2> SUFFICES ASSUME IInv, Computes, pc = "returned", call.op = "exp"
               PROVE  (ret - ONE) - Returns("expm1", call.x, call.y) \in -1 .. 1
    BY DEF ExpFormsAgree
  <2> DEFINE v == exp_inner[-call.x * GUARD]
  <2>1. InDomain("exp", call.x, call.y) /\ ret = Returns("exp", call.x, call.y)
    BY DEF Computes
  <2>2. "exp" \in Ops /\ "expm1" \in Ops /\ "exp" \in ExpOps /\ "expm1" \in ExpOps
        /\ (Saturates("exp", call.x) <=> Saturates("expm1", call.x)) /\ ONE \in Nat
    BY Units DEF Ops, ExpOps, Saturates
  <2>3. CASE Saturates("exp", call.x)
    <3>1. ret = 0 /\ Returns("expm1", call.x, call.y) = -ONE
      BY <2>1, <2>2, <2>3, ReturnsCases DEF SaturatedValue
    <3> QED BY <2>2, <3>1
  <2>4. CASE ~Saturates("exp", call.x)
    <3>1. call.x \in Int /\ call.x <= 0
      <4>1. call \in [op : Ops, x : I128, y : I128]
        BY DEF IInv, Staged
      <4>2. call.x \in Int
        BY <4>1, ScaleFacts DEF I128
      <4> QED BY <2>1, <2>2, <4>2 DEF InDomain
    <3>2. v \in 0 .. ONE_62
      <4>1. -call.x * GUARD \in Nat
        <5> DEFINE z == -call.x
        <5>1. z \in Nat /\ GUARD \in Nat
          BY <3>1, Units
        <5> HIDE DEF z
        <5>2. z * GUARD \in Nat
          BY <5>1
        <5> QED BY <3>1, <5>2, Units DEF z
      <4> QED BY <4>1, ExpInnerInRange
    <3>3. /\ ret = to_scale_nearest(v)
          /\ Returns("expm1", call.x, call.y) = -to_scale_nearest(ONE_62 - v)
      BY <2>1, <2>2, <2>4, ReturnsCases, RoundedCases
    <3> HIDE DEF v
    <3>4. to_scale_nearest(v) + to_scale_nearest(ONE_62 - v) - ONE \in -1 .. 1
      BY <3>2, ComplementsRound
    <3>5. to_scale_nearest(v) \in Int /\ to_scale_nearest(ONE_62 - v) \in Int
      BY <3>2, Units, RoundStays
    <3> QED BY <2>2, <3>3, <3>4, <3>5
  <2> QED BY <2>3, <2>4
<1> QED BY <1>1, ComputesInvariant, PTL

\* A pad below the rounded value leaves neighbours neighbours.
LEMMA PaddedFollows ==
  ASSUME NEW v \in 0 .. ONE_62, NEW w \in 0 .. ONE_62, v <= w + 5
  PROVE  Rounded("pow_down", v) <= Rounded("pow_down", w) + 1
<1> DEFINE a == to_scale_nearest(v)
           b == to_scale_nearest(w)
           p == POW_PAD_ULPS
<1>1. v \in Nat /\ w \in Nat /\ v <= w + GUARD /\ p \in Nat
  BY GuardFacts, PadAssumption
<1>2. a \in Nat /\ b \in Nat /\ a <= b + 1
  BY <1>1, RoundFollows
<1>3. Rounded("pow_down", v) = AtLeast(a - p, 0) /\ Rounded("pow_down", w) = AtLeast(b - p, 0)
  BY RoundedCases
<1> HIDE DEF a, b, p
<1>4. AtLeast(a - p, 0) <= AtLeast(b - p, 0) + 1
  BY <1>1, <1>2 DEF AtLeast
<1> QED BY <1>3, <1>4

(***************************************************************************)
(* pow_down of a smaller base under a larger exponent is at most an ulp    *)
(* above pow_down of the larger base under the smaller exponent, however   *)
(* far apart the two calls are: the proptest pow_monotonicity of           *)
(* tests/proptest_invariants.rs for every bump of either argument.         *)
(***************************************************************************)
THEOREM PowDownOrdered ==
  ASSUME NEW x \in 1 .. ONE, NEW z \in 1 .. ONE, x <= z,
         NEW y \in 1 .. MAX_RATIO * ONE, NEW w \in 1 .. MAX_RATIO * ONE, w <= y
  PROVE  Returns("pow_down", x, y) <= Returns("pow_down", z, w) + 1
<1>1. /\ Returns("pow_down", x, y) = Rounded("pow_down", pow_inner(x, y))
      /\ Returns("pow_down", z, w) = Rounded("pow_down", pow_inner(z, w))
  <2>1. "pow_down" \in Ops /\ "pow_down" \in PowOps /\ "pow_down" \notin ExpOps
    BY DEF Ops, PowOps, RawOps, ExpOps
  <2> QED BY <2>1, ReturnsCases
<1>2. /\ pow_inner(x, y) \in 0 .. ONE_62 /\ pow_inner(z, w) \in 0 .. ONE_62
      /\ pow_inner(x, y) <= pow_inner(z, w) + 5
  BY PowNearlyOrdered
<1> QED BY <1>1, <1>2, PaddedFollows

\* What pow_down returns is a number.
LEMMA PowDownInt ==
  ASSUME NEW x \in 1 .. ONE, NEW y \in 1 .. MAX_RATIO * ONE
  PROVE  Returns("pow_down", x, y) \in Int
<1> DEFINE v == pow_inner(x, y)
           b == to_scale_nearest(v)
<1>1. "pow_down" \in Ops /\ "pow_down" \in PowOps /\ "pow_down" \notin ExpOps
  BY DEF Ops, PowOps, RawOps, ExpOps
<1>2. Returns("pow_down", x, y) = Rounded("pow_down", v)
  BY <1>1, ReturnsCases
<1>3. v \in 0 .. ONE_62
  <2>1. x <= x /\ y <= y
    BY Units
  <2> QED BY <2>1, PowNearlyOrdered
<1>4. b \in Nat /\ POW_PAD_ULPS \in Nat
  <2> HIDE DEF v
  <2> QED BY <1>3, RoundStays, PadAssumption, GuardFacts
<1>5. Rounded("pow_down", v) = AtLeast(b - POW_PAD_ULPS, 0)
  BY RoundedCases
<1> HIDE DEF b, v
<1> QED BY <1>2, <1>4, <1>5 DEF AtLeast

(***************************************************************************)
(* A larger exponent or a smaller base never raises pow_down by more than  *)
(* one ulp: not where the multiple of ln 2 changes that exp_inner takes    *)
(* off, nor where the mantissa of ln_inner is doubled once more.           *)
(***************************************************************************)
THEOREM PowersNearlyMonotone == Spec => []PowNearlyMonotone
<1>1. IInv /\ Computes => PowNearlyMonotone
  <2> SUFFICES ASSUME IInv, Computes, pc = "returned", call.op = "pow_down"
               PROVE  /\ call.y < MAX_RATIO * ONE =>
                           Returns("pow_down", call.x, call.y + 1) <= ret + 1
                      /\ call.x + 1 < ONE =>
                           Returns("pow_down", call.x + 1, call.y) + 1 >= ret
    BY DEF PowNearlyMonotone
  <2> DEFINE x == call.x
             y == call.y
  <2>1. InDomain("pow_down", x, y) /\ ret = Returns("pow_down", x, y)
    BY DEF Computes
  <2>2. "pow_down" \in Ops /\ "pow_down" \in PowOps /\ "pow_down" \notin ExpOps
    BY DEF Ops, PowOps, RawOps, ExpOps
  <2>3. x \in Int /\ y \in Int
    <3>1. call \in [op : Ops, x : I128, y : I128]
      BY DEF IInv, Staged
    <3>2. I128 \subseteq Int
      BY ScaleFacts DEF I128
    <3> QED BY <3>1, <3>2
  <2>4. x \in 1 .. ONE /\ y \in 1 .. MAX_RATIO * ONE /\ x <= x /\ y <= y
    <3>1. x \in 1 .. ONE /\ y \in 1 .. MAX_RATIO * ONE
      BY <2>1, <2>2, <2>3, DomainFacts
    <3> HIDE DEF x, y
    <3>2. x <= x /\ y <= y
      BY <2>3
    <3> QED BY <3>1, <3>2
  <2>5. ASSUME y < MAX_RATIO * ONE
        PROVE  Returns("pow_down", x, y + 1) <= Returns("pow_down", x, y) + 1
    <3>1. y + 1 \in 1 .. MAX_RATIO * ONE /\ y <= y + 1
      <4>1. MAX_RATIO * ONE \in Nat
        BY ScaleAssumption, Units
      <4> QED BY <2>3, <2>4, <2>5, <4>1
    <3> QED BY <2>4, <3>1, PowDownOrdered
  <2>6. ASSUME x + 1 < ONE
        PROVE  Returns("pow_down", x + 1, y) + 1 >= Returns("pow_down", x, y)
    <3>1. x + 1 \in 1 .. ONE /\ x <= x + 1
      BY <2>3, <2>4, <2>6, Units
    <3> DEFINE a == Returns("pow_down", x, y)
               b == Returns("pow_down", x + 1, y)
    <3>2. a <= b + 1 /\ a \in Int /\ b \in Int
      BY <2>4, <3>1, PowDownOrdered, PowDownInt
    <3> HIDE DEF a, b
    <3>3. b + 1 >= a
      BY <3>2
    <3> QED BY <3>3 DEF a, b
  <2> QED BY <2>1, <2>5, <2>6
<1> QED BY <1>1, ComputesInvariant, PTL
=============================================================================
