-------------------------- MODULE FixedCalls_proofs -------------------------
(***************************************************************************)
(* What every chain of the directed wrappers keeps, in a build with        *)
(* overflow checks: first what one wrapper answers, then that the ends of  *)
(* the interval stay on their sides.                                       *)
(***************************************************************************)
EXTENDS FixedCalls, WideTheorems

LEMMA ReprFacts ==
  /\ ONE \in Nat /\ ONE >= 1 /\ SCALE \in 1 .. WIDTH - 1
  /\ ReprMax \in Nat /\ WORD \in Nat /\ 2 * (ReprMax + 1) = WORD
  /\ ONE <= ReprMax
  /\ I128 = -(ReprMax + 1) .. ReprMax
  /\ 2^(WIDTH - 1 - SCALE) \in Nat /\ 2^(WIDTH - 1 - SCALE) > 0
  /\ 2^(WIDTH - 1 - SCALE) * ONE = ReprMax + 1
<1> DEFINE h == WIDTH - 1
           g == h - SCALE
<1>1. h \in Nat /\ g \in Nat /\ g >= 1 /\ g + SCALE = h /\ h + 1 = WIDTH
      /\ h \in 0 .. WIDTH /\ h \in 0 .. WIDTH - 1 /\ g \in 0 .. WIDTH
      /\ SCALE \in 0 .. WIDTH /\ SCALE \in Nat /\ SCALE >= 1 /\ WIDTH \in Nat
      /\ WIDTH \in 0 .. WIDTH /\ h <= WIDTH
  BY WidthAssumption, FractionAssumption
<1> HIDE DEF g, h
<1>2. 2^h \in Nat /\ 2^g \in Nat /\ 2^g > 0 /\ 2^SCALE \in Nat /\ 2^SCALE > 0 /\ 2^h > 0
      /\ 2^WIDTH \in Nat
  BY <1>1, PowerPositive
<1>3. 2^(h + 1) = 2 * 2^h
  BY <1>1, PowerAssumption
<1>4. 2^(g + SCALE) = 2^g * 2^SCALE
  BY <1>1, PowerAdds
<1>5. 2^0 = 1 /\ 0 \in 0 .. WIDTH - 1 /\ 2^(0 + 1) = 2 * 2^0
  BY <1>1, WidthAssumption, PowerAssumption
<1>6. 2^(0 + 1) <= 2^g
  <2>1. 0 + 1 \in Nat /\ 0 + 1 <= g /\ g <= WIDTH /\ g \in Nat
    BY <1>1
  <2> QED BY <2>1, PowerMonotone
<1>7. 2^g >= 2
  BY <1>2, <1>5, <1>6
<1> DEFINE G == 2^g
           H == 2^h
           S == 2^SCALE
<1>8. G \in Nat /\ G >= 2 /\ H \in Nat /\ S \in Nat /\ S > 0 /\ H = G * S
      /\ WORD \in Nat /\ WORD = 2 * H
  BY <1>1, <1>2, <1>3, <1>4, <1>7 DEF WORD
<1> HIDE DEF G, H, S
<1>9. G * S >= 2 * S
  BY <1>8
<1>10. S <= H - 1
  BY <1>8, <1>9
<1> USE DEF G, H, S
<1>11. ONE = S /\ ReprMax = H - 1 /\ I128 = -H .. H - 1 /\ 2^(WIDTH - 1 - SCALE) = G
  BY DEF ONE, ReprMax, I128, g, h
<1> HIDE DEF G, H, S
<1>12. SCALE \in 1 .. WIDTH - 1
  BY FractionAssumption, WidthAssumption
<1> QED BY <1>8, <1>10, <1>11, <1>12
-----------------------------------------------------------------------------
(***************************************************************************)
(* One wrapper.                                                            *)
(***************************************************************************)
Reasons == {"none", "unrepresentable", "overflow", "repr", "negative", "zero",
            "numerator"}

LEMMA MulDownFloors ==
  ASSUME NEW a \in I128, NEW b \in I128
  PROVE  LET r == mul_down(a, b)
             q == (a * b) \div ONE
         IN  /\ r.panic \in Reasons
             /\ ~Panicked(r) => a >= 0 /\ b >= 0 /\ r.value = q /\ q \in 0 .. ReprMax
             /\ Panicked(r) => a < 0 \/ b < 0 \/ q > ReprMax
<1> DEFINE q == (a * b) \div ONE
           r == mul_down(a, b)
<1>1. CASE a < 0 \/ b < 0
  <2>1. r = Panic("negative")
    BY <1>1 DEF mul_down, OnNonnegative
  <2> QED BY <2>1, <1>1 DEF Panic, Panicked, Reasons
<1>2. CASE a >= 0 /\ b >= 0
  <2>1. a \in U128 /\ b \in U128 /\ a \in Nat /\ b \in Nat
    BY <1>2, ReprFacts DEF U128
  <2>2. a * b \in Nat
    BY <2>1
  <2>3. q \in Nat
    BY <2>2, ReprFacts, DivisionNat
  <2>4. Shr(a * b, SCALE) = q
    BY DEF Shr, ONE
  <2>5. r = Checked(mul_shr(a, b, SCALE))
    BY <1>2 DEF mul_down, OnNonnegative, I128
  <2> HIDE DEF q, r
  <2>6. mul_shr(a, b, SCALE) = IF q \in U128 THEN Value(q) ELSE Panic("unrepresentable")
    BY <2>1, <2>4, ReprFacts, MulShrFloor
  <2>7. CASE q <= ReprMax
    <3>1. r = Value(q)
      BY <2>3, <2>5, <2>6, <2>7, ReprFacts DEF Checked, AsRepr, Value, Panicked, U128
    <3> QED BY <3>1, <2>3, <2>7, <1>2, ReprFacts DEF Value, Panicked, Reasons, q, r
  <2>8. CASE q > ReprMax
    <3>1. r = Panic("repr") \/ r = Panic("unrepresentable")
      BY <2>3, <2>5, <2>6, <2>8, ReprFacts DEF Checked, AsRepr, Value, Panicked, Panic
    <3> QED BY <3>1, <2>8 DEF Panic, Panicked, Reasons, q, r
  <2> QED BY <2>7, <2>8, <2>3, ReprFacts
<1> QED BY <1>1, <1>2, ReprFacts

LEMMA MulUpCeils ==
  ASSUME OVERFLOW_CHECKS, NEW a \in I128, NEW b \in I128
  PROVE  LET r == mul_up(a, b)
             c == CeilDiv(a * b, ONE)
         IN  /\ r.panic \in Reasons
             /\ ~Panicked(r) => a >= 0 /\ b >= 0 /\ r.value = c /\ c \in 0 .. ReprMax
             /\ Panicked(r) => a < 0 \/ b < 0 \/ c > ReprMax
<1> DEFINE c == CeilDiv(a * b, ONE)
           r == mul_up(a, b)
<1>1. CASE a < 0 \/ b < 0
  <2>1. r = Panic("negative")
    BY <1>1 DEF mul_up, OnNonnegative
  <2> QED BY <2>1, <1>1 DEF Panic, Panicked, Reasons
<1>2. CASE a >= 0 /\ b >= 0
  <2>1. a \in U128 /\ b \in U128 /\ a \in Nat /\ b \in Nat
    BY <1>2, ReprFacts DEF U128
  <2>2. a * b \in Nat
    BY <2>1
  <2>3. c \in Nat
    <3>1. ONE \in Nat /\ ONE > 0
      BY ReprFacts
    <3> HIDE DEF c
    <3>2. CeilDiv(a * b, ONE) \in Nat
      BY <2>2, <3>1, CeilDivBounds
    <3> QED BY <3>2 DEF c
  <2>4. CeilDiv(a * b, 2^SCALE) = c
    BY DEF ONE
  <2>5. r = Checked(mul_shr_up(a, b, SCALE))
    BY <1>2 DEF mul_up, OnNonnegative, I128
  <2>6. mul_shr_up(a, b, SCALE).panic \in Reasons
    BY DEF mul_shr_up, Add, Value, Panic, Reasons
  <2> DEFINE m == mul_shr_up(a, b, SCALE)
  <2> HIDE DEF c, r
  <2>7. IF c \in U128 THEN m = Value(c) ELSE Panicked(m)
    BY <2>1, <2>4, ReprFacts, MulShrUpCeiling
  <2> HIDE DEF m
  <2>8. CASE c <= ReprMax
    <3>1. r = Value(c)
      BY <2>3, <2>5, <2>7, <2>8, ReprFacts DEF Checked, AsRepr, Value, Panicked, U128, m
    <3> QED BY <3>1, <2>3, <2>8, <1>2, ReprFacts DEF Value, Panicked, Reasons, c, r
  <2>9. CASE c > ReprMax
    <3>1. Panicked(r) /\ r.panic \in Reasons
      <4>1. CASE Panicked(m)
        <5>1. r = m
          BY <4>1, <2>5 DEF Checked, m
        <5> QED BY <5>1, <4>1, <2>6 DEF m
      <4>2. CASE ~Panicked(m)
        <5>1. m = Value(c)
          BY <4>2, <2>7
        <5>2. r = Panic("repr")
          BY <5>1, <2>5, <2>9 DEF Checked, AsRepr, Value, Panicked, m
        <5> QED BY <5>2 DEF Panic, Panicked, Reasons
      <4> QED BY <4>1, <4>2
    <3> QED BY <3>1, <2>9 DEF c, r
  <2> QED BY <2>8, <2>9, <2>3, ReprFacts
<1> QED BY <1>1, <1>2, ReprFacts

\* The dividend of either division, or why there is none.
LEMMA NumeratorExact ==
  ASSUME NEW a \in I128, NEW b \in I128
  PROVE  LET n == numerator(a, b)
         IN  /\ n.panic \in Reasons
             /\ ~Panicked(n) => /\ a >= 0 /\ b > 0
                                /\ n.value = a * ONE /\ a * ONE \in 0 .. ReprMax
             /\ Panicked(n) => a < 0 \/ b < 0 \/ b = 0 \/ a * ONE > ReprMax
<1> DEFINE n == numerator(a, b)
           G == 2^(WIDTH - 1 - SCALE)
           x == a * ONE
<1>1. G \in Nat /\ G > 0 /\ ONE \in Nat /\ ONE >= 1 /\ ReprMax \in Nat
      /\ G * ONE = ReprMax + 1 /\ WORD \in Nat /\ 2 * (ReprMax + 1) = WORD
      /\ a \in -(ReprMax + 1) .. ReprMax /\ b \in -(ReprMax + 1) .. ReprMax
  BY ReprFacts
<1>2. NumeratorFits(a) <=> a \div G = 0
  BY DEF NumeratorFits, Shr
<1>3. a < 0 \/ b < 0 => n = Panic("negative")
  BY DEF numerator, OnNonnegative
<1>4. a >= 0 /\ b >= 0 => n = IF b = 0 THEN Panic("zero")
                              ELSE IF ~NumeratorFits(a) THEN Panic("numerator")
                              ELSE Value(Wrap(x))
  BY <1>1 DEF numerator, OnNonnegative
<1> HIDE DEF n, G
<1>5. ASSUME a >= 0 PROVE (a \div G = 0 <=> a < G)
  BY <1>1, <1>5
<1>6. ASSUME a >= 0, a < G PROVE x \in 0 .. ReprMax /\ Wrap(x) = x
  <2>1. x <= (G - 1) * ONE /\ x >= 0 /\ x \in Int
    BY <1>1, <1>6
  <2>2. (G - 1) * ONE = (G * ONE) - ONE
    BY <1>1
  <2> HIDE DEF x
  <2>3. x \in 0 .. ReprMax
    BY <2>1, <2>2, <1>1
  <2>4. x = (WORD * 0) + x /\ x \in 0 .. WORD - 1 /\ WORD > 0 /\ x \in Int
    BY <2>3, <1>1
  <2>5. x % WORD = x
    BY <2>4, <1>1, DivisionUnique
  <2> QED BY <2>3, <2>5 DEF Wrap
<1>7. ASSUME a >= G PROVE x > ReprMax
  <2>1. x >= G * ONE
    BY <1>1, <1>7
  <2> QED BY <2>1, <1>1
<1> HIDE DEF x
<1>8. CASE a < 0 \/ b < 0
  BY <1>8, <1>3 DEF Panic, Panicked, Reasons, n
<1>9. CASE a >= 0 /\ b = 0
  <2>1. n = Panic("zero")
    BY <1>9, <1>4
  <2> QED BY <2>1, <1>9 DEF Panic, Panicked, Reasons, n
<1>10. CASE a >= G /\ b > 0
  <2>1. n = Panic("numerator") /\ x > ReprMax
    BY <1>10, <1>1, <1>2, <1>4, <1>5, <1>7
  <2> QED BY <2>1 DEF Panic, Panicked, Reasons, n, x
<1>11. CASE a >= 0 /\ a < G /\ b > 0
  <2>1. n = Value(x) /\ x \in 0 .. ReprMax
    BY <1>11, <1>1, <1>2, <1>4, <1>5, <1>6
  <2> QED BY <2>1, <1>11 DEF Value, Panicked, Reasons, n, x
<1> QED BY <1>1, <1>8, <1>9, <1>10, <1>11

LEMMA DivDownFloors ==
  ASSUME NEW a \in I128, NEW b \in I128
  PROVE  LET r == div_down(a, b)
             q == (a * ONE) \div b
         IN  /\ r.panic \in Reasons
             /\ ~Panicked(r) => a >= 0 /\ b > 0 /\ r.value = q /\ q \in 0 .. ReprMax
             /\ Panicked(r) => a < 0 \/ b < 0 \/ b = 0 \/ a * ONE > ReprMax
<1> DEFINE n == numerator(a, b)
           r == div_down(a, b)
           x == a * ONE
           q == x \div b
<1>1. /\ n.panic \in Reasons
      /\ ~Panicked(n) => a >= 0 /\ b > 0 /\ n.value = x /\ x \in 0 .. ReprMax
      /\ Panicked(n) => a < 0 \/ b < 0 \/ b = 0 \/ x > ReprMax
  BY NumeratorExact
<1>2. r = IF Panicked(n) THEN n ELSE Checked(Value(n.value \div b))
  BY DEF div_down
<1>3. ReprMax \in Nat /\ a \in Int /\ b \in Int
  BY ReprFacts
<1> HIDE DEF n, r, x
<1>4. CASE Panicked(n)
  BY <1>1, <1>2, <1>4 DEF r, x
<1>5. CASE ~Panicked(n)
  <2>1. b \in Nat /\ b > 0 /\ x \in Nat /\ x <= ReprMax /\ a >= 0 /\ n.value = x
    BY <1>1, <1>3, <1>5
  <2>2. q \in Nat /\ q <= x
    BY <2>1, DivisionNat
  <2>3. r = Checked(Value(q))
    BY <1>2, <1>5, <2>1
  <2> HIDE DEF q
  <2>4. r = Value(q)
    BY <2>1, <2>2, <2>3, <1>3 DEF Checked, AsRepr, Value, Panicked
  <2>5. q \in 0 .. ReprMax
    BY <2>1, <2>2, <1>3
  <2> QED BY <2>1, <2>4, <2>5 DEF Value, Panicked, Reasons, r, x, q
<1> QED BY <1>4, <1>5

LEMMA DivUpCeils ==
  ASSUME NEW a \in I128, NEW b \in I128
  PROVE  LET r == div_up(a, b)
             c == CeilDiv(a * ONE, b)
         IN  /\ r.panic \in Reasons
             /\ ~Panicked(r) => a >= 0 /\ b > 0 /\ r.value = c /\ c \in 0 .. ReprMax
             /\ Panicked(r) => a < 0 \/ b < 0 \/ b = 0 \/ a * ONE > ReprMax
<1> DEFINE n == numerator(a, b)
           r == div_up(a, b)
           x == a * ONE
           c == CeilDiv(x, b)
<1>1. /\ n.panic \in Reasons
      /\ ~Panicked(n) => a >= 0 /\ b > 0 /\ n.value = x /\ x \in 0 .. ReprMax
      /\ Panicked(n) => a < 0 \/ b < 0 \/ b = 0 \/ x > ReprMax
  BY NumeratorExact
<1>2. r = IF Panicked(n) THEN n ELSE Checked(Value(CeilDiv(n.value, b)))
  BY DEF div_up
<1>3. ReprMax \in Nat /\ a \in Int /\ b \in Int
  BY ReprFacts
<1> HIDE DEF n, r, x
<1>4. CASE Panicked(n)
  BY <1>1, <1>2, <1>4 DEF r, x
<1>5. CASE ~Panicked(n)
  <2>1. b \in Nat /\ b > 0 /\ x \in Nat /\ x <= ReprMax /\ a >= 0 /\ n.value = x
    BY <1>1, <1>3, <1>5
  <2>2. c \in Nat /\ c <= x
    BY <2>1, CeilDivBounds
  <2>3. r = Checked(Value(c))
    BY <1>2, <1>5, <2>1
  <2> HIDE DEF c
  <2>4. r = Value(c)
    BY <2>1, <2>2, <2>3, <1>3 DEF Checked, AsRepr, Value, Panicked
  <2>5. c \in 0 .. ReprMax
    BY <2>1, <2>2, <1>3
  <2> QED BY <2>1, <2>4, <2>5 DEF Value, Panicked, Reasons, r, x, c
<1> QED BY <1>4, <1>5
-----------------------------------------------------------------------------
(***************************************************************************)
(* Products of an inequality, for the provers.                             *)
(***************************************************************************)
LEMMA Scaled ==
  ASSUME NEW x \in Int, NEW y \in Int, x <= y, NEW k \in Nat
  PROVE  x * k <= y * k /\ x * k \in Int /\ y * k \in Int
OBVIOUS

LEMMA Unscaled ==
  ASSUME NEW x \in Int, NEW y \in Int, NEW k \in Nat, k > 0, x * k <= y * k
  PROVE  x <= y
<1> SUFFICES ASSUME x >= y + 1 PROVE FALSE
  OBVIOUS
<1>1. (y + 1) * k <= x * k
  BY Scaled
<1>2. (y + 1) * k = (y * k) + k /\ y * k \in Int /\ x * k \in Int
  OBVIOUS
<1> QED BY <1>1, <1>2

LEMMA Reorder ==
  ASSUME NEW x \in Int, NEW y \in Int, NEW z \in Int
  PROVE  (x * y) * z = (x * z) * y /\ x * (y * z) = (x * z) * y /\ x * (y * z) = (x * y) * z
         /\ x * y = y * x
OBVIOUS

\* Multiplying by a factor of f/s, rounded to its side, keeps a bound.
LEMMA BoundScaled ==
  ASSUME NEW e \in Int, NEW bot \in Nat, NEW num \in Int, NEW new \in Int,
         NEW f \in Nat, NEW s \in Nat
  PROVE  /\ e * bot <= num /\ new * s <= e * f => new * (bot * s) <= num * f
         /\ num <= e * bot /\ e * f <= new * s => num * f <= new * (bot * s)
<1>1. new * (bot * s) = (new * s) * bot /\ (e * f) * bot = (e * bot) * f
  BY Reorder
<1> DEFINE ns == new * s
           ef == e * f
           eb == e * bot
<1>2. ns \in Int /\ ef \in Int /\ eb \in Int
  OBVIOUS
<1> HIDE DEF ns, ef, eb
<1>3. new * (bot * s) = ns * bot /\ ef * bot = eb * f
  BY <1>1 DEF ns, ef, eb
<1>4. ASSUME eb <= num, ns <= ef PROVE ns * bot <= num * f
  <2>1. ns * bot <= ef * bot /\ eb * f <= num * f
    BY <1>2, <1>4, Scaled
  <2>2. ns * bot \in Int /\ ef * bot \in Int /\ num * f \in Int
    BY <1>2
  <2> QED BY <2>1, <2>2, <1>3
<1>5. ASSUME num <= eb, ef <= ns PROVE num * f <= ns * bot
  <2>1. ef * bot <= ns * bot /\ num * f <= eb * f
    BY <1>2, <1>5, Scaled
  <2>2. ns * bot \in Int /\ ef * bot \in Int /\ num * f \in Int
    BY <1>2
  <2> QED BY <2>1, <2>2, <1>3
<1> QED BY <1>3, <1>4, <1>5 DEF ns, ef, eb

\* The two roundings of an exact quotient, against the quotient.
LEMMA RoundedQuotient ==
  ASSUME NEW x \in Nat, NEW d \in Nat, d > 0
  PROVE  (x \div d) * d <= x /\ x <= CeilDiv(x, d) * d
<1>1. x \div d \in Nat
  BY DivisionNat
<1>2. d * (x \div d) <= x
  BY DivisionBounds
<1>3. CeilDiv(x, d) \in Nat /\ x <= d * CeilDiv(x, d)
  BY CeilDivBounds
<1>4. \A q \in Nat : d * q = q * d
  OBVIOUS
<1> QED BY <1>1, <1>2, <1>3, <1>4

LEMMA FloorBelowCeil ==
  ASSUME NEW x \in Nat, NEW y \in Nat, x <= y, NEW d \in Nat, d > 0
  PROVE  x \div d <= CeilDiv(y, d)
<1>1. x \div d \in Int /\ CeilDiv(y, d) \in Int
  BY DivisionNat, CeilDivBounds
<1>2. (x \div d) * d <= x /\ y <= CeilDiv(y, d) * d
  BY RoundedQuotient
<1> DEFINE p == x \div d
           q == CeilDiv(y, d)
<1> HIDE DEF p, q
<1>3. p * d <= q * d
  <2>1. p * d \in Int /\ q * d \in Int
    BY <1>1 DEF p, q
  <2> QED BY <2>1, <1>2 DEF p, q
<1> QED BY <1>1, <1>3, Unscaled DEF p, q
-----------------------------------------------------------------------------
(***************************************************************************)
(* A chain of wrappers.  Its properties are inductive together: that a     *)
(* panic is one the contract names needs low <= high, which the brackets   *)
(* give.                                                                   *)
(***************************************************************************)
IInv == TypeOK /\ Brackets /\ CorrectlyRounded /\ PanicsOnlyByContract

LEMMA TypesOfInv ==
  ASSUME IInv
  PROVE  /\ low \in Int /\ high \in Int /\ top \in Int /\ bottom \in Nat /\ bottom > 0
         /\ low \in I128 /\ high \in I128 /\ steps \in 0 .. MAX_STEPS
BY ReprFacts DEF IInv, TypeOK

LEMMA Ordered ==
  ASSUME IInv, panicked = "none"
  PROVE  low <= high
<1>1. low * bottom <= top * ONE /\ top * ONE <= high * bottom
  BY DEF IInv, Brackets
<1>2. low \in Int /\ high \in Int /\ top \in Int /\ bottom \in Nat /\ bottom > 0 /\ ONE \in Nat
  BY TypesOfInv, ReprFacts
<1>3. low * bottom \in Int /\ high * bottom \in Int /\ top * ONE \in Int
  BY <1>2
<1>4. low * bottom <= high * bottom
  BY <1>1, <1>3
<1> QED BY <1>2, <1>4, Unscaled

LEMMA InitInv == Init => IInv
<1> SUFFICES ASSUME Init PROVE IInv
  OBVIOUS
<1>1. PICK x \in Starts : low = x /\ high = x /\ top = x
  BY DEF Init
<1>2. x \in I128 /\ x \in Int /\ ONE \in Nat /\ ONE >= 1
  BY CallerAssumption, ReprFacts
<1>3. bottom = ONE /\ step = NoStep /\ steps = 0 /\ panicked = "none"
  BY DEF Init
<1>4. TypeOK
  BY <1>1, <1>2, <1>3, CallerAssumption DEF TypeOK, NoStep
<1>5. x * ONE \in Int
  BY <1>2
<1>6. Brackets
  BY <1>1, <1>3, <1>5 DEF Brackets
<1>7. CorrectlyRounded /\ PanicsOnlyByContract
  BY <1>3 DEF CorrectlyRounded, PanicsOnlyByContract, NoStep
<1> QED BY <1>4, <1>6, <1>7 DEF IInv

\* What a move does to everything but the number.
LEMMA Moves ==
  ASSUME IInv, NEW op \in {"mul", "div", "complement"}, NEW b, NEW down, NEW up,
         down.panic \in Reasons, up.panic \in Reasons, Move(op, b, down, up)
  PROVE  /\ panicked = "none" /\ steps' \in 0 .. MAX_STEPS
         /\ step' = [op |-> op, by |-> b, low |-> low, high |-> high]
         /\ step'.op = op /\ step'.by = b /\ step'.low = low /\ step'.high = high
         /\ step'.op \in {"start", "mul", "div", "complement"}
         /\ IF Panicked(down) \/ Panicked(up)
            THEN panicked' # "none" /\ low' = low /\ high' = high
            ELSE panicked' = "none" /\ low' = down.value /\ high' = up.value
         /\ panicked' \in Reasons
<1>1. step' = [op |-> op, by |-> b, low |-> low, high |-> high] /\ panicked = "none"
  BY DEF Move
<1>2. step'.op = op /\ step'.by = b /\ step'.low = low /\ step'.high = high
  BY <1>1
<1>3. steps' \in 0 .. MAX_STEPS
  BY TypesOfInv, CallerAssumption DEF Move
<1>4. CASE Panicked(down) \/ Panicked(up)
  BY <1>1, <1>2, <1>3, <1>4 DEF Move, Panicked, Reasons
<1>5. CASE ~(Panicked(down) \/ Panicked(up))
  BY <1>1, <1>2, <1>3, <1>5 DEF Move, Panicked, Reasons
<1> QED BY <1>4, <1>5

LEMMA MultiplyKeeps ==
  ASSUME OVERFLOW_CHECKS, IInv, Multiply
  PROVE  IInv'
<1> PICK b \in Factors :
      /\ Move("mul", b, mul_down(low, b), mul_up(high, b))
      /\ top' = top * b /\ bottom' = bottom * ONE
  BY DEF Multiply
<1> DEFINE down == mul_down(low, b)
           up == mul_up(high, b)
           fl == (low * b) \div ONE
           ce == CeilDiv(high * b, ONE)
<1>1. /\ b \in I128 /\ b \in Int /\ ONE \in Nat /\ ONE > 0 /\ ReprMax \in Nat
      /\ 0 .. ReprMax \subseteq I128
  BY CallerAssumption, ReprFacts
<1>2. /\ low \in Int /\ high \in Int /\ top \in Int /\ bottom \in Nat /\ bottom > 0
      /\ low \in I128 /\ high \in I128
  BY TypesOfInv
<1>3. /\ down.panic \in Reasons
      /\ ~Panicked(down) => low >= 0 /\ b >= 0 /\ down.value = fl /\ fl \in 0 .. ReprMax
      /\ Panicked(down) => low < 0 \/ b < 0 \/ fl > ReprMax
  BY <1>1, <1>2, MulDownFloors
<1>4. /\ up.panic \in Reasons
      /\ ~Panicked(up) => high >= 0 /\ b >= 0 /\ up.value = ce /\ ce \in 0 .. ReprMax
      /\ Panicked(up) => high < 0 \/ b < 0 \/ ce > ReprMax
  BY <1>1, <1>2, MulUpCeils
<1> HIDE DEF down, up
<1>5. /\ panicked = "none" /\ steps' \in 0 .. MAX_STEPS
      /\ step'.op = "mul" /\ step'.by = b /\ step'.low = low /\ step'.high = high
      /\ step'.op \in {"start", "mul", "div", "complement"}
      /\ IF Panicked(down) \/ Panicked(up)
         THEN panicked' # "none" /\ low' = low /\ high' = high
         ELSE panicked' = "none" /\ low' = down.value /\ high' = up.value
      /\ panicked' \in Reasons
  <2>1. Move("mul", b, down, up)
    BY DEF down, up
  <2> QED BY <1>3, <1>4, <2>1, Moves
<1>6. low <= high
  BY <1>5, Ordered
<1>7. top' \in Int /\ bottom' \in Nat \ {0}
  BY <1>1, <1>2
<1>8. CASE Panicked(down) \/ Panicked(up)
  <2>1. panicked' # "none" /\ low' = low /\ high' = high
    BY <1>5, <1>8
  <2>2. low < 0 \/ b < 0 \/ ce > ReprMax
    <3>1. ASSUME low >= 0, b >= 0, fl > ReprMax PROVE ce > ReprMax
      <4>1. low * b <= high * b /\ low * b \in Nat /\ high * b \in Nat
        BY <1>1, <1>2, <1>6, <3>1, Scaled
      <4>2. fl <= ce
        BY <4>1, <1>1, FloorBelowCeil
      <4>3. fl \in Int /\ ce \in Int
        BY <4>1, <1>1, DivisionNat, CeilDivBounds
      <4> HIDE DEF fl, ce
      <4> QED BY <4>2, <4>3, <3>1, <1>1
    <3> HIDE DEF fl, ce
    <3> QED BY <1>1, <1>2, <1>3, <1>4, <1>6, <1>8, <3>1
  <2>3. TypeOK'
    BY <1>2, <1>5, <1>7, <2>1 DEF TypeOK, Reasons
  <2>4. PanicsOnlyByContract'
    BY <1>5, <2>2 DEF PanicsOnlyByContract
  <2> QED BY <2>1, <2>3, <2>4 DEF IInv, Brackets, CorrectlyRounded
<1>9. CASE ~Panicked(down) /\ ~Panicked(up)
  <2>1. panicked' = "none" /\ low' = fl /\ high' = ce /\ low >= 0 /\ high >= 0 /\ b >= 0
        /\ fl \in 0 .. ReprMax /\ ce \in 0 .. ReprMax
    BY <1>3, <1>4, <1>5, <1>9
  <2>2. TypeOK'
    BY <1>1, <1>5, <1>7, <2>1 DEF TypeOK, Reasons
  <2>3. CorrectlyRounded'
    BY <1>5, <2>1 DEF CorrectlyRounded
  <2>4. low * b \in Nat /\ high * b \in Nat /\ b \in Nat /\ fl \in Int /\ ce \in Int
    BY <1>1, <1>2, <2>1
  <2>5. fl * ONE <= low * b /\ high * b <= ce * ONE
    BY <1>1, <2>4, RoundedQuotient
  <2>6. low * bottom <= top * ONE /\ top * ONE <= high * bottom /\ top * ONE \in Int
    BY <1>1, <1>2, <1>5 DEF IInv, Brackets
  <2> HIDE DEF fl, ce
  <2>7. fl * (bottom * ONE) <= (top * ONE) * b /\ (top * ONE) * b <= ce * (bottom * ONE)
    BY <1>1, <1>2, <2>4, <2>5, <2>6, BoundScaled
  <2>8. (top * ONE) * b = (top * b) * ONE
    BY <1>1, <1>2, Reorder
  <2>9. Brackets'
    BY <2>1, <2>7, <2>8 DEF Brackets
  <2>10. PanicsOnlyByContract'
    BY <2>1 DEF PanicsOnlyByContract
  <2> QED BY <2>2, <2>3, <2>9, <2>10 DEF IInv
<1> QED BY <1>8, <1>9

LEMMA DivideKeeps ==
  ASSUME IInv, Divide
  PROVE  IInv'
<1> PICK b \in Factors :
      /\ Move("div", b, div_down(low, b), div_up(high, b))
      /\ IF b > 0 THEN top' = top * ONE /\ bottom' = bottom * b
         ELSE UNCHANGED <<top, bottom>>
  BY DEF Divide
<1> DEFINE down == div_down(low, b)
           up == div_up(high, b)
           fl == (low * ONE) \div b
           ce == CeilDiv(high * ONE, b)
<1>1. /\ b \in I128 /\ b \in Int /\ ONE \in Nat /\ ONE > 0 /\ ReprMax \in Nat
      /\ 0 .. ReprMax \subseteq I128
  BY CallerAssumption, ReprFacts
<1>2. /\ low \in Int /\ high \in Int /\ top \in Int /\ bottom \in Nat /\ bottom > 0
      /\ low \in I128 /\ high \in I128
  BY TypesOfInv
<1>3. /\ down.panic \in Reasons
      /\ ~Panicked(down) => low >= 0 /\ b > 0 /\ down.value = fl /\ fl \in 0 .. ReprMax
      /\ Panicked(down) => low < 0 \/ b < 0 \/ b = 0 \/ low * ONE > ReprMax
  BY <1>1, <1>2, DivDownFloors
<1>4. /\ up.panic \in Reasons
      /\ ~Panicked(up) => high >= 0 /\ b > 0 /\ up.value = ce /\ ce \in 0 .. ReprMax
      /\ Panicked(up) => high < 0 \/ b < 0 \/ b = 0 \/ high * ONE > ReprMax
  BY <1>1, <1>2, DivUpCeils
<1> HIDE DEF down, up
<1>5. /\ panicked = "none" /\ steps' \in 0 .. MAX_STEPS
      /\ step'.op = "div" /\ step'.by = b /\ step'.low = low /\ step'.high = high
      /\ step'.op \in {"start", "mul", "div", "complement"}
      /\ IF Panicked(down) \/ Panicked(up)
         THEN panicked' # "none" /\ low' = low /\ high' = high
         ELSE panicked' = "none" /\ low' = down.value /\ high' = up.value
      /\ panicked' \in Reasons
  <2>1. Move("div", b, down, up)
    BY DEF down, up
  <2> QED BY <1>3, <1>4, <2>1, Moves
<1>6. low <= high
  BY <1>5, Ordered
<1>7. top' \in Int /\ bottom' \in Nat \ {0}
  <2>1. CASE b > 0
    BY <1>1, <1>2, <2>1
  <2>2. CASE ~(b > 0)
    BY <1>2, <2>2
  <2> QED BY <2>1, <2>2
<1>8. CASE Panicked(down) \/ Panicked(up)
  <2>1. panicked' # "none" /\ low' = low /\ high' = high
    BY <1>5, <1>8
  <2>2. low < 0 \/ b < 0 \/ b = 0 \/ high * ONE > ReprMax
    <3>1. low * ONE <= high * ONE /\ low * ONE \in Int /\ high * ONE \in Int
      BY <1>1, <1>2, <1>6, Scaled
    <3> QED BY <1>1, <1>2, <1>3, <1>4, <1>6, <1>8, <3>1
  <2>3. TypeOK'
    BY <1>2, <1>5, <1>7, <2>1 DEF TypeOK, Reasons
  <2>4. PanicsOnlyByContract'
    BY <1>5, <2>2 DEF PanicsOnlyByContract
  <2> QED BY <2>1, <2>3, <2>4 DEF IInv, Brackets, CorrectlyRounded
<1>9. CASE ~Panicked(down) /\ ~Panicked(up)
  <2>1. panicked' = "none" /\ low' = fl /\ high' = ce /\ low >= 0 /\ high >= 0 /\ b > 0
        /\ fl \in 0 .. ReprMax /\ ce \in 0 .. ReprMax
    BY <1>3, <1>4, <1>5, <1>9
  <2>2. TypeOK'
    BY <1>1, <1>5, <1>7, <2>1 DEF TypeOK, Reasons
  <2>3. CorrectlyRounded'
    BY <1>5, <2>1 DEF CorrectlyRounded
  <2>4. low * ONE \in Nat /\ high * ONE \in Nat /\ b \in Nat /\ fl \in Int /\ ce \in Int
        /\ top' = top * ONE /\ bottom' = bottom * b
    BY <1>1, <1>2, <2>1
  <2>5. fl * b <= low * ONE /\ high * ONE <= ce * b
    BY <2>1, <2>4, RoundedQuotient
  <2>6. low * bottom <= top * ONE /\ top * ONE <= high * bottom /\ top * ONE \in Int
    BY <1>1, <1>2, <1>5 DEF IInv, Brackets
  <2> HIDE DEF fl, ce
  <2>7. fl * (bottom * b) <= (top * ONE) * ONE /\ (top * ONE) * ONE <= ce * (bottom * b)
    BY <1>1, <1>2, <2>4, <2>5, <2>6, BoundScaled
  <2>8. Brackets'
    BY <2>1, <2>4, <2>7 DEF Brackets
  <2>9. PanicsOnlyByContract'
    BY <2>1 DEF PanicsOnlyByContract
  <2> QED BY <2>2, <2>3, <2>8, <2>9 DEF IInv
<1> QED BY <1>8, <1>9

\* complement saturates on the side the number does.
LEMMA ComplementBounds ==
  ASSUME NEW e \in Int, NEW bot \in Nat, NEW t \in Int, NEW s \in Nat
  PROVE  /\ t * s <= e * bot => AtLeast(s - e, 0) * bot <= AtLeast(bot - t, 0) * s
         /\ e * bot <= t * s => AtLeast(bot - t, 0) * s <= AtLeast(s - e, 0) * bot
<1> DEFINE x == AtLeast(s - e, 0)
           y == AtLeast(bot - t, 0)
<1>1. x \in Nat /\ y \in Nat /\ x >= s - e /\ y >= bot - t
      /\ (x = 0 \/ x = s - e) /\ (y = 0 \/ y = bot - t)
  BY DEF AtLeast
<1> HIDE DEF x, y
<1>2. (s - e) * bot = (s * bot) - (e * bot) /\ (bot - t) * s = (bot * s) - (t * s)
      /\ s * bot = bot * s
  OBVIOUS
<1>3. /\ s * bot \in Int /\ e * bot \in Int /\ t * s \in Int
      /\ (s - e) \in Int /\ (bot - t) \in Int
      /\ x * bot \in Nat /\ y * s \in Nat
  BY <1>1
<1>4. (s - e) * bot <= x * bot /\ (bot - t) * s <= y * s
  BY <1>1, <1>3, Scaled
<1>5. x * bot = 0 \/ x * bot = (s - e) * bot
  BY <1>1
<1>6. y * s = 0 \/ y * s = (bot - t) * s
  BY <1>1
<1>7. /\ t * s <= e * bot => x * bot <= y * s
      /\ e * bot <= t * s => y * s <= x * bot
  BY <1>2, <1>3, <1>4, <1>5, <1>6
<1> QED BY <1>7 DEF x, y

LEMMA ComplementKeeps ==
  ASSUME IInv, Complement
  PROVE  IInv'
<1> DEFINE down == complement(high)
           up == complement(low)
           lo == AtLeast(ONE - high, 0)
           hi == AtLeast(ONE - low, 0)
<1>1. ONE \in Nat /\ ONE > 0 /\ ReprMax \in Nat /\ ONE <= ReprMax /\ 0 .. ReprMax \subseteq I128
  BY ReprFacts
<1>2. /\ low \in Int /\ high \in Int /\ top \in Int /\ bottom \in Nat /\ bottom > 0
      /\ low \in I128 /\ high \in I128
  BY TypesOfInv
<1>3. /\ down = IF high < 0 THEN Panic("negative") ELSE Value(lo)
      /\ up = IF low < 0 THEN Panic("negative") ELSE Value(hi)
  BY DEF complement
<1>4. /\ down.panic \in Reasons /\ up.panic \in Reasons
      /\ Panicked(down) <=> high < 0
      /\ Panicked(up) <=> low < 0
      /\ high >= 0 => down.value = lo
      /\ low >= 0 => up.value = hi
  BY <1>2, <1>3 DEF Panic, Value, Panicked, Reasons
<1> HIDE DEF down, up
<1>5. /\ panicked = "none" /\ steps' \in 0 .. MAX_STEPS
      /\ step'.op = "complement" /\ step'.low = low /\ step'.high = high
      /\ step'.op \in {"start", "mul", "div", "complement"}
      /\ IF Panicked(down) \/ Panicked(up)
         THEN panicked' # "none" /\ low' = low /\ high' = high
         ELSE panicked' = "none" /\ low' = down.value /\ high' = up.value
      /\ panicked' \in Reasons
  <2>1. Move("complement", 0, down, up)
    BY DEF Complement, down, up
  <2> QED BY <1>4, <2>1, Moves
<1>6. low <= high
  BY <1>5, Ordered
<1>7. top' = AtLeast(bottom - top, 0) /\ bottom' = bottom /\ top' \in Int
  BY <1>2 DEF Complement, AtLeast
<1>8. CASE low < 0 \/ high < 0
  <2>1. panicked' # "none" /\ low' = low /\ high' = high /\ low < 0
    BY <1>2, <1>4, <1>5, <1>6, <1>8
  <2>2. TypeOK'
    BY <1>2, <1>5, <1>7, <2>1 DEF TypeOK, Reasons
  <2>3. PanicsOnlyByContract'
    BY <1>5, <2>1 DEF PanicsOnlyByContract
  <2> QED BY <2>1, <2>2, <2>3 DEF IInv, Brackets, CorrectlyRounded
<1>9. CASE low >= 0 /\ high >= 0
  <2>1. panicked' = "none" /\ low' = lo /\ high' = hi
    BY <1>2, <1>4, <1>5, <1>9
  <2>2. lo \in 0 .. ReprMax /\ hi \in 0 .. ReprMax
    BY <1>1, <1>2, <1>9 DEF AtLeast
  <2>3. TypeOK'
    BY <1>1, <1>2, <1>5, <1>7, <2>1, <2>2 DEF TypeOK, Reasons
  <2>4. CorrectlyRounded'
    <3>1. /\ lo = IF high > ONE THEN 0 ELSE ONE - high
          /\ hi = IF low > ONE THEN 0 ELSE ONE - low
      BY <1>1, <1>2 DEF AtLeast
    <3> HIDE DEF lo, hi
    <3> QED BY <1>5, <2>1, <3>1 DEF CorrectlyRounded
  <2>5. low * bottom <= top * ONE /\ top * ONE <= high * bottom
    BY <1>5 DEF IInv, Brackets
  <2>6. /\ AtLeast(ONE - high, 0) * bottom <= AtLeast(bottom - top, 0) * ONE
        /\ AtLeast(bottom - top, 0) * ONE <= AtLeast(ONE - low, 0) * bottom
    BY <1>1, <1>2, <2>5, ComplementBounds
  <2>7. Brackets'
    BY <1>7, <2>1, <2>6 DEF Brackets
  <2>8. PanicsOnlyByContract'
    BY <2>1 DEF PanicsOnlyByContract
  <2> QED BY <2>3, <2>4, <2>7, <2>8 DEF IInv
<1> QED BY <1>2, <1>8, <1>9

LEMMA StutterKeeps ==
  ASSUME IInv, UNCHANGED vars
  PROVE  IInv'
BY DEF vars, IInv, TypeOK, Brackets, CorrectlyRounded, PanicsOnlyByContract

LEMMA ChainInvariant ==
  ASSUME OVERFLOW_CHECKS
  PROVE  Spec => []IInv
<1>1. IInv /\ [Next]_vars => IInv'
  <2> SUFFICES ASSUME IInv, [Next]_vars PROVE IInv'
    OBVIOUS
  <2> QED BY MultiplyKeeps, DivideKeeps, ComplementKeeps, StutterKeeps DEF Next
<1> QED BY <1>1, InitInv, PTL DEF Spec

(***************************************************************************)
(* Both ends of the interval stay in their representation, and every panic *)
(* is one of the wrappers' asserts.                                        *)
(***************************************************************************)
THEOREM ChainTypes == ASSUME OVERFLOW_CHECKS PROVE Spec => []TypeOK
<1>1. IInv => TypeOK
  BY DEF IInv
<1> QED BY <1>1, ChainInvariant, PTL

(***************************************************************************)
(* After a chain of any length, from any start, the exact number lies      *)
(* between the _down and the _up value.                                    *)
(***************************************************************************)
THEOREM ChainBrackets == ASSUME OVERFLOW_CHECKS PROVE Spec => []Brackets
<1>1. IInv => Brackets
  BY DEF IInv
<1> QED BY <1>1, ChainInvariant, PTL

(***************************************************************************)
(* Each wrapper answers the exact floor, ceiling or saturated complement.  *)
(***************************************************************************)
THEOREM ChainRounded == ASSUME OVERFLOW_CHECKS PROVE Spec => []CorrectlyRounded
<1>1. IInv => CorrectlyRounded
  BY DEF IInv
<1> QED BY <1>1, ChainInvariant, PTL

(***************************************************************************)
(* Only the operands and results the contracts of fixed.rs name are lost   *)
(* to a panic.                                                             *)
(***************************************************************************)
THEOREM ChainPanics == ASSUME OVERFLOW_CHECKS PROVE Spec => []PanicsOnlyByContract
<1>1. IInv => PanicsOnlyByContract
  BY DEF IInv
<1> QED BY <1>1, ChainInvariant, PTL
=============================================================================
