---------------------------- MODULE PowTheorems -----------------------------
(***************************************************************************)
(* Arithmetic of one pass through the power pipeline, for every scale and  *)
(* every table that meets the assumptions of Pow: the bounds of each       *)
(* stage, and how its result varies with its argument.                     *)
(***************************************************************************)
EXTENDS Pow, WideTheorems

\* The units of the two scales and how they sit in a word.
LEMMA ScaleFacts ==
  /\ ONE \in Nat /\ ONE >= 2 /\ ONE_62 \in Nat /\ ONE_62 >= 8
  /\ GUARD \in Nat /\ GUARD >= 4 /\ ONE * GUARD = ONE_62
  /\ GUARD \div 2 \in Nat /\ 2 * (GUARD \div 2) = GUARD
  /\ 2^(LN_SCALE - 1) \in Nat /\ 2 * 2^(LN_SCALE - 1) = ONE_62
  /\ WORD \in Nat /\ 2^(WIDTH - 1) \in Nat /\ 2 * 2^(WIDTH - 1) = WORD
  /\ 2 * (ONE_62 * ONE_62) <= 2^(WIDTH - 1)
<1> DEFINE g == LN_SCALE - SCALE
<1>1. /\ SCALE \in Nat /\ SCALE >= 1 /\ g \in Nat /\ g >= 2 /\ SCALE + g = LN_SCALE
      /\ LN_SCALE \in Nat /\ LN_SCALE >= 3 /\ LN_SCALE <= WIDTH /\ WIDTH \in Nat
      /\ 2 * LN_SCALE + 2 <= WIDTH
  BY ScaleAssumption, WidthAssumption
<1> HIDE DEF g
<1>2. \A n \in 0 .. WIDTH - 1 : 2^(n + 1) = 2 * 2^n
  BY PowerAssumption
<1>3. \A n \in 0 .. WIDTH : 2^n \in Nat /\ 2^n > 0
  BY PowerPositive
<1>4. 2^1 = 2 /\ 2^2 = 4 /\ 2^3 = 8
  <2>1. 2^(0 + 1) = 2 * 2^0 /\ 2^(1 + 1) = 2 * 2^1 /\ 2^(2 + 1) = 2 * 2^2
    BY <1>2, WidthAssumption
  <2>2. 0 + 1 = 1 /\ 1 + 1 = 2 /\ 2 + 1 = 3
    OBVIOUS
  <2> QED BY <2>1, <2>2, PowerAssumption
<1>5. ONE \in Nat /\ ONE >= 2
  <2>1. 2^1 <= 2^SCALE
    <3>1. 1 \in Nat /\ SCALE \in Nat /\ 1 <= SCALE /\ SCALE <= WIDTH
      BY <1>1
    <3> QED BY <3>1, PowerMonotone, Zenon
  <2> QED BY <1>1, <1>3, <1>4, <2>1 DEF ONE
<1>6. ONE_62 \in Nat /\ ONE_62 >= 8
  <2>1. 2^3 <= 2^LN_SCALE
    BY <1>1, PowerMonotone
  <2> QED BY <1>1, <1>3, <1>4, <2>1 DEF ONE_62
<1>7. GUARD \in Nat /\ GUARD >= 4 /\ ONE * GUARD = ONE_62
  <2>1. 2^2 <= 2^g /\ 2^g \in Nat
    <3>1. 2 \in Nat /\ g \in Nat /\ 2 <= g /\ g <= WIDTH /\ g \in 0 .. WIDTH
      BY <1>1
    <3> QED BY <3>1, <1>3, PowerMonotone, Zenon
  <2>2. 2^(SCALE + g) = 2^SCALE * 2^g
    BY <1>1, PowerAdds
  <2> QED BY <1>1, <1>4, <2>1, <2>2 DEF GUARD, ONE, ONE_62, g
<1>8. ASSUME NEW n \in Nat, n >= 1, n <= WIDTH
      PROVE  2^(n - 1) \in Nat /\ 2 * 2^(n - 1) = 2^n
  <2>1. n - 1 \in 0 .. WIDTH - 1 /\ (n - 1) + 1 = n
    BY <1>1, <1>8
  <2>2. 2^((n - 1) + 1) = 2 * 2^(n - 1) /\ 2^(n - 1) \in Nat
    BY <2>1, <1>1, <1>2, <1>3
  <2> QED BY <2>1, <2>2
<1>9. GUARD \div 2 \in Nat /\ 2 * (GUARD \div 2) = GUARD
  <2>1. 2^(g - 1) \in Nat /\ 2 * 2^(g - 1) = 2^g
    BY <1>1, <1>8
  <2> DEFINE h == 2^(g - 1)
  <2>2. GUARD = 2 * h /\ h \in Nat
    BY <2>1 DEF GUARD, g
  <2> HIDE DEF h
  <2> QED BY <2>2
<1>10. 2^(LN_SCALE - 1) \in Nat /\ 2 * 2^(LN_SCALE - 1) = ONE_62
  BY <1>1, <1>8 DEF ONE_62
<1>11. WORD \in Nat /\ 2^(WIDTH - 1) \in Nat /\ 2 * 2^(WIDTH - 1) = WORD
  BY <1>1, <1>3, <1>8 DEF WORD
<1>12. 2 * (ONE_62 * ONE_62) <= 2^(WIDTH - 1)
  <2>1. 2^(LN_SCALE + LN_SCALE) = ONE_62 * ONE_62
    BY <1>1, PowerAdds DEF ONE_62
  <2>2. 2^((LN_SCALE + LN_SCALE) + 1) = 2 * 2^(LN_SCALE + LN_SCALE)
    BY <1>1, <1>2
  <2>3. 2^((LN_SCALE + LN_SCALE) + 1) <= 2^(WIDTH - 1)
    BY <1>1, PowerMonotone
  <2> QED BY <2>1, <2>2, <2>3
<1> QED BY <1>5, <1>6, <1>7, <1>9, <1>10, <1>11, <1>12

\* A product of two bounded magnitudes.
LEMMA ProductBound ==
  ASSUME NEW a \in Nat, NEW b \in Nat, NEW c \in Nat, NEW d \in Nat,
         a <= c, b <= d
  PROVE  a * b \in Nat /\ a * b <= c * d
OBVIOUS
-----------------------------------------------------------------------------
(***************************************************************************)
(* ln_inner.                                                               *)
(***************************************************************************)
InWindow(m) == m \in Nat /\ m >= SQRT2_HALF_62 /\ m < 2 * SQRT2_HALF_62

\* |t| <= 1/5 over the whole sqrt(2) window, and t has the sign of m - 1.
LEMMA AtanhBound ==
  ASSUME NEW m, InWindow(m)
  PROVE  /\ AtanhArgument(m) \in Int
         /\ 5 * AtanhArgument(m) <= ONE_62 /\ -ONE_62 <= 5 * AtanhArgument(m)
         /\ m >= ONE_62 => AtanhArgument(m) >= 0
         /\ m <= ONE_62 => AtanhArgument(m) <= 0
         /\ (m - ONE_62) * ONE_62 \in Int
         /\ (m - ONE_62) * ONE_62 <= ONE_62 * ONE_62
         /\ -(ONE_62 * ONE_62) <= (m - ONE_62) * ONE_62
<1> DEFINE W == ONE_62
           n == m - W
           d == m + W
<1>1. W \in Nat /\ W >= 8 /\ m \in Nat /\ SQRT2_HALF_62 \in Nat
      /\ 3 * SQRT2_HALF_62 >= 2 * W /\ 4 * SQRT2_HALF_62 <= 3 * W
      /\ m >= SQRT2_HALF_62 /\ m < 2 * SQRT2_HALF_62
  BY ScaleFacts, LogarithmAssumption DEF InWindow
<1> HIDE DEF W
<1>2. /\ n \in Int /\ d \in Nat /\ d > 0
      /\ 5 * n <= d /\ -d <= 5 * n /\ n <= W /\ -W <= n
  BY <1>1
<1>3. AtanhArgument(m) = TruncDiv(n * W, d)
  BY DEF AtanhArgument, W
<1>4. n * W \in Int /\ n * W <= W * W /\ -(W * W) <= n * W
  <2>1. CASE n >= 0
    BY <2>1, <1>1, <1>2, ProductBound
  <2>2. CASE n < 0
    <3>1. -n \in Nat /\ (-n) * W <= W * W /\ (-n) * W >= 0
      BY <2>2, <1>1, <1>2, ProductBound
    <3>2. n * W = -((-n) * W)
      BY <1>1, <1>2
    <3> QED BY <3>1, <3>2, <1>1, <1>2
  <2> QED BY <2>1, <2>2, <1>2
<1> HIDE DEF n, d
<1>5. ASSUME NEW z \in Nat, 5 * z <= d
      PROVE  (z * W) \div d \in Nat /\ 5 * ((z * W) \div d) <= W
  <2> DEFINE q == (z * W) \div d
  <2>1. z * W \in Nat
    BY <1>1
  <2>2. q \in Nat /\ d * q <= z * W
    BY <1>2, <2>1, DivisionBounds, DivisionNat
  <2> HIDE DEF q
  <2>3. 5 * (z * W) <= d * W
    BY <1>1, <1>2, <1>5
  <2>4. d * (5 * q) <= d * W
    BY <1>1, <1>2, <2>1, <2>2, <2>3
  <2>5. 5 * q <= W
    <3> SUFFICES ASSUME 5 * q >= W + 1 PROVE FALSE
      BY <1>1, <2>2
    <3>1. d * (5 * q) >= d * (W + 1)
      BY <1>1, <1>2, <2>2
    <3>2. d * (W + 1) = (d * W) + d
      BY <1>1, <1>2
    <3> QED BY <3>1, <3>2, <2>4, <1>1, <1>2, <2>2
  <2> QED BY <2>2, <2>5 DEF q
<1>6. CASE n >= 0
  <2>1. n \in Nat /\ n * W >= 0
    BY <1>1, <1>2, <1>6
  <2>2. TruncDiv(n * W, d) = (n * W) \div d
    BY <2>1 DEF TruncDiv
  <2>3. (n * W) \div d \in Nat /\ 5 * ((n * W) \div d) <= W
    BY <1>2, <1>5, <2>1
  <2>4. m <= ONE_62 => (n * W) \div d <= 0
    <3> SUFFICES ASSUME m <= ONE_62 PROVE (n * W) \div d <= 0
      OBVIOUS
    <3>1. n = 0
      BY <1>1, <1>6 DEF n, W
    <3>2. n * W = 0
      BY <3>1, <1>1
    <3> QED BY <3>2, <1>2, DivisionUnique
  <2> QED BY <1>1, <1>3, <1>4, <2>2, <2>3, <2>4 DEF W, n
<1>7. CASE n < 0
  <2>1. -n \in Nat /\ 5 * (-n) <= d /\ (-n) * W = -(n * W)
    BY <1>1, <1>2, <1>7
  <2>2. n * W < 0
    BY <1>1, <1>2, <1>7
  <2>3. TruncDiv(n * W, d) = -(((-n) * W) \div d)
    <3> DEFINE a == n * W
    <3>1. a \in Int /\ ~(a >= 0) /\ -a = (-n) * W
      BY <1>4, <2>1, <2>2
    <3>2. TruncDiv(a, d) = -((-a) \div d)
      BY <3>1 DEF TruncDiv
    <3> QED BY <3>1, <3>2
  <2>4. ((-n) * W) \div d \in Nat /\ 5 * (((-n) * W) \div d) <= W
    BY <1>5, <2>1
  <2>5. m < ONE_62
    BY <1>1, <1>7 DEF n, W
  <2> QED BY <1>1, <1>3, <1>4, <2>3, <2>4, <2>5 DEF W, n
<1> QED BY <1>2, <1>6, <1>7

\* u = t^2 <= 1/25.
LEMMA SquareBound ==
  ASSUME NEW t \in Int, 5 * t <= ONE_62, -ONE_62 <= 5 * t
  PROVE  /\ Square(t) \in Nat /\ 25 * Square(t) <= ONE_62
         /\ t * t \in Nat /\ t * t <= ONE_62 * ONE_62
<1> DEFINE W == ONE_62
           z == IF t >= 0 THEN t ELSE -t
           q == (z * z) \div W
<1>1. W \in Nat /\ W >= 8 /\ z \in Nat /\ 5 * z <= W /\ t * t = z * z
  BY ScaleFacts
<1>2. Square(t) = q
  BY <1>1 DEF Square, Shr, ONE_62
<1> HIDE DEF W, z
<1>3. (5 * z) * (5 * z) <= W * W /\ (5 * z) * (5 * z) = 25 * (z * z)
  BY <1>1, ProductBound
<1>4. q \in Nat /\ W * q <= z * z
  BY <1>1, DivisionBounds, DivisionNat
<1>5. z * z \in Nat /\ z * z <= W * W
  BY <1>1, <1>3
<1> HIDE DEF q
<1>6. W * (25 * q) <= W * W
  BY <1>1, <1>3, <1>4, <1>5
<1>7. 25 * q <= W
  <2> SUFFICES ASSUME 25 * q >= W + 1 PROVE FALSE
    BY <1>1, <1>4
  <2>1. W * (25 * q) >= W * (W + 1) /\ W * (W + 1) = (W * W) + W
    BY <1>1, <1>4
  <2> QED BY <2>1, <1>1, <1>4, <1>6
<1> QED BY <1>1, <1>2, <1>4, <1>5, <1>7 DEF W

\* A partial sum of the atanh series stays within 5/4.
AtanhSum(p) == p \in Nat /\ 4 * p <= 5 * ONE_62

LEMMA AtanhHorner ==
  ASSUME NEW c \in 0 .. ONE_62, NEW p, AtanhSum(p),
         NEW u \in Nat, 25 * u <= ONE_62
  PROVE  /\ AtanhSum(HornerStep(c, p, u))
         /\ p * u \in Nat /\ p * u <= ONE_62 * ONE_62
<1> DEFINE W == ONE_62
           q == (p * u) \div W
<1>1. W \in Nat /\ W >= 8 /\ p \in Nat /\ 4 * p <= 5 * W /\ c \in 0 .. W
      /\ 25 * u <= W
  BY ScaleFacts DEF AtanhSum
<1>2. HornerStep(c, p, u) = c + q
  BY DEF HornerStep, Shr, ONE_62
<1> HIDE DEF W
<1>3. (4 * p) * (25 * u) <= (5 * W) * W /\ (4 * p) * (25 * u) = 100 * (p * u)
      /\ (5 * W) * W = 5 * (W * W)
  BY <1>1, ProductBound
<1>4. q \in Nat /\ W * q <= p * u /\ p * u \in Nat
  BY <1>1, DivisionBounds, DivisionNat
<1> HIDE DEF q
<1>5. W * (20 * q) <= W * W
  BY <1>1, <1>3, <1>4
<1>6. 20 * q <= W
  <2> SUFFICES ASSUME 20 * q >= W + 1 PROVE FALSE
    BY <1>1, <1>4
  <2>1. W * (20 * q) >= W * (W + 1) /\ W * (W + 1) = (W * W) + W
    BY <1>1, <1>4
  <2> QED BY <2>1, <1>1, <1>4, <1>5
<1>7. c + q \in Nat /\ 4 * (c + q) <= 5 * W
  BY <1>1, <1>4, <1>6
<1>8. p * u <= W * W
  BY <1>1, <1>3, <1>4
<1> QED BY <1>2, <1>4, <1>7, <1>8 DEF AtanhSum, W

\* Cancelling a positive factor.
LEMMA Cancel ==
  ASSUME NEW w \in Nat, w > 0, NEW a \in Int, NEW b \in Int, w * a < w * (b + 1)
  PROVE  a <= b
<1> SUFFICES ASSUME a >= b + 1 PROVE FALSE
  OBVIOUS
<1>1. w * a >= w * (b + 1)
  BY SMT
<1> QED BY <1>1

\* The floor of a scaled product is bracketed by the scaled bounds.
LEMMA FloorScaled ==
  ASSUME NEW w \in Nat, w > 0, NEW a \in Int, NEW v \in Nat, 10 * v <= 7 * w
  PROVE  LET q == (a * v) \div w
         IN  /\ q \in Int /\ a * v \in Int
             /\ a >= 0 => q >= 0 /\ 10 * q <= 7 * a
             /\ a <= 0 => q <= 0 /\ 10 * q + 10 >= 7 * a
<1> DEFINE n == a * v
           q == n \div w
<1>1. n \in Int
  OBVIOUS
<1>2. a >= 0 => n >= 0 /\ 10 * n <= 7 * (a * w)
  <2> SUFFICES ASSUME a >= 0 PROVE n >= 0 /\ 10 * n <= 7 * (a * w)
    OBVIOUS
  <2>1. a * (10 * v) <= a * (7 * w) /\ a * v >= 0
    BY SMT
  <2> QED BY <2>1
<1>3. a <= 0 => n <= 0 /\ 10 * n >= 7 * (a * w)
  <2> SUFFICES ASSUME a <= 0 PROVE n <= 0 /\ 10 * n >= 7 * (a * w)
    OBVIOUS
  <2>1. a * (10 * v) >= a * (7 * w) /\ a * v <= 0
    BY SMT
  <2> QED BY <2>1
<1> HIDE DEF n
<1>4. q \in Int /\ w * q <= n /\ n < (w * q) + w
  BY <1>1, DivisionBounds
<1> HIDE DEF q
<1>5. ASSUME a >= 0 PROVE q >= 0 /\ 10 * q <= 7 * a
  <2>1. w * (10 * q) <= w * (7 * a)
    BY <1>1, <1>2, <1>4, <1>5
  <2>2. w * (10 * q) < w * ((7 * a) + 1)
    BY <1>4, <2>1
  <2>3. 10 * q <= 7 * a
    BY <1>4, <2>2, Cancel
  <2>4. q >= 0
    BY <1>1, <1>2, <1>4, <1>5
  <2> QED BY <2>3, <2>4
<1>6. ASSUME a <= 0 PROVE q <= 0 /\ 10 * q + 10 >= 7 * a
  <2>1. w * (7 * a) < w * ((10 * q + 10) + 1)
    BY <1>1, <1>3, <1>4, <1>6
  <2>2. 7 * a <= 10 * q + 10
    BY <1>4, <2>1, Cancel
  <2>3. w * q < w * (0 + 1)
    BY <1>1, <1>3, <1>4, <1>6
  <2>4. q <= 0
    BY <1>4, <2>3, Cancel
  <2> QED BY <2>2, <2>4
<1> QED BY <1>1, <1>4, <1>5, <1>6 DEF n, q

\* |2 ln m| <= 1, and ln m has the sign of t.
LEMMA LnMantissaBound ==
  ASSUME NEW t \in Int, 5 * t <= ONE_62, -ONE_62 <= 5 * t, NEW p, AtanhSum(p)
  PROVE  /\ LnMantissa(t, p) \in Int /\ t * p \in Int
         /\ 2 * LnMantissa(t, p) <= ONE_62 /\ -ONE_62 <= 2 * LnMantissa(t, p)
         /\ t >= 0 => LnMantissa(t, p) >= 0
         /\ t <= 0 => LnMantissa(t, p) <= 0
         /\ t * p <= ONE_62 * ONE_62 /\ -(ONE_62 * ONE_62) <= t * p
<1> DEFINE h == 2^(LN_SCALE - 1)
           n == t * p
           q == n \div h
<1>1. /\ h \in Nat /\ h > 0 /\ ONE_62 = 2 * h /\ p \in Nat /\ 4 * p <= 10 * h
      /\ 5 * t <= 2 * h /\ -(2 * h) <= 5 * t
  BY ScaleFacts DEF AtanhSum
<1>2. LnMantissa(t, p) = q
  BY DEF LnMantissa, Shr
<1> HIDE DEF h
<1>3. ASSUME NEW z \in Nat, 5 * z <= 2 * h
      PROVE  z * p \in Nat /\ z * p <= h * h
  <2>1. (5 * z) * (4 * p) <= (2 * h) * (10 * h)
    BY <1>1, <1>3, ProductBound
  <2>2. (5 * z) * (4 * p) = 20 * (z * p) /\ (2 * h) * (10 * h) = 20 * (h * h)
    BY <1>1
  <2> QED BY <2>1, <2>2, <1>1
<1>4. n \in Int /\ n <= h * h /\ -(h * h) <= n
      /\ (t >= 0 => n >= 0) /\ (t <= 0 => n <= 0)
  <2>1. CASE t >= 0
    <3>1. t \in Nat /\ n >= 0 /\ n <= h * h
      BY <1>1, <1>3, <2>1
    <3>2. t <= 0 => n = 0
      BY <1>1, <2>1
    <3> QED BY <3>1, <3>2, <1>1
  <2>2. CASE t < 0
    <3>1. -t \in Nat /\ (-t) * p \in Nat /\ (-t) * p <= h * h
      BY <1>1, <1>3, <2>2
    <3>2. n = -((-t) * p)
      BY <1>1
    <3> QED BY <3>1, <3>2, <2>2, <1>1
  <2> QED BY <2>1, <2>2
<1> HIDE DEF n
<1>5. q \in Int /\ h * q <= n /\ n < (h * q) + h
  BY <1>1, <1>4, DivisionBounds
<1> HIDE DEF q
<1>6. q <= h /\ -h <= q
  <2>1. h * q < h * (h + 1) /\ h * (-h) < h * (q + 1)
    BY <1>1, <1>4, <1>5
  <2> QED BY <2>1, <1>1, <1>5, Cancel
<1>7. (t >= 0 => q >= 0) /\ (t <= 0 => q <= 0)
  <2>1. t >= 0 => h * 0 < h * (q + 1)
    BY <1>4, <1>5, <1>1
  <2>2. t <= 0 => h * q < h * (0 + 1)
    BY <1>4, <1>5, <1>1
  <2> QED BY <2>1, <2>2, <1>1, <1>5, Cancel
<1>8. h * h <= ONE_62 * ONE_62
  BY <1>1, ProductBound
<1> QED BY <1>1, <1>2, <1>4, <1>5, <1>6, <1>7, <1>8 DEF n

\* -ln(x) = k ln 2 - ln m, for the k and m that ln_inner normalises to.
LnRange == 0 .. SCALE * LN2_62

LEMMA NegLnRange ==
  ASSUME NEW k \in 0 .. SCALE, NEW l \in Int,
         2 * l <= ONE_62, -ONE_62 <= 2 * l,
         k = 0 => l <= 0, k = SCALE => l >= 0
  PROVE  (k * LN2_62) - l \in LnRange /\ k * LN2_62 \in LnRange
<1>1. LN2_62 \in Nat /\ 2 * LN2_62 >= ONE_62 /\ SCALE \in Nat /\ ONE_62 \in Nat
  BY LogarithmAssumption, ScaleAssumption, ScaleFacts
<1>2. l <= LN2_62 /\ -LN2_62 <= l
  BY <1>1
<1>3. k * LN2_62 \in Nat /\ k * LN2_62 <= SCALE * LN2_62 /\ SCALE * LN2_62 \in Nat
  BY <1>1, ProductBound
<1>4. CASE k = 0
  <2>1. k * LN2_62 = 0 /\ LN2_62 <= SCALE * LN2_62
    <3>1. 1 * LN2_62 <= SCALE * LN2_62
      BY <1>1, ScaleAssumption, ProductBound
    <3> QED BY <3>1, <1>1, <1>4
  <2> QED BY <2>1, <1>1, <1>2, <1>3, <1>4 DEF LnRange
<1>5. CASE k = SCALE
  <2>1. 1 * LN2_62 <= k * LN2_62
    BY <1>1, <1>5, ScaleAssumption, ProductBound
  <2> QED BY <2>1, <1>1, <1>2, <1>3, <1>5 DEF LnRange
<1>6. CASE k \in 1 .. SCALE - 1
  <2>1. 1 * LN2_62 <= k * LN2_62 /\ (k + 1) * LN2_62 <= SCALE * LN2_62
    BY <1>1, <1>6, ProductBound
  <2>2. (k + 1) * LN2_62 = (k * LN2_62) + LN2_62
    BY <1>1
  <2> QED BY <2>1, <2>2, <1>1, <1>2, <1>3 DEF LnRange
<1> QED BY <1>1, <1>4, <1>5, <1>6

\* Lengths and elements of the coefficient tables.
LEMMA Tables ==
  /\ Len(ATANH_COEFF_62) \in Nat /\ Len(ATANH_COEFF_62) >= 1
  /\ \A j \in 1 .. Len(ATANH_COEFF_62) : ATANH_COEFF_62[j] \in 0 .. ONE_62
  /\ Len(EXP_COEFF_62) \in Nat /\ Len(EXP_COEFF_62) >= 1
  /\ \A j \in 1 .. Len(EXP_COEFF_62) : EXP_COEFF_62[j] \in -ONE_62 .. ONE_62
<1>1. ASSUME NEW S, NEW table \in Seq(S)
      PROVE  Len(table) \in Nat /\ \A j \in 1 .. Len(table) : table[j] \in S
  OBVIOUS
<1>2. /\ ATANH_COEFF_62 \in Seq(0 .. ONE_62) /\ Len(ATANH_COEFF_62) >= 1
      /\ EXP_COEFF_62 \in Seq(-ONE_62 .. ONE_62) /\ Len(EXP_COEFF_62) >= 1
  BY LogarithmAssumption, ExponentialAssumption
<1> QED BY <1>1, <1>2, Zenon
-----------------------------------------------------------------------------
(***************************************************************************)
(* The argument of exp_inner.                                              *)
(***************************************************************************)
Envelope == 0 .. ARG_ENVELOPE - 1

\* exponent * (-ln base) neither trips the fit assert nor leaves the envelope.
LEMMA ArgProductFits ==
  ASSUME NEW y \in 1 .. MAX_RATIO * ONE, y \in I128, NEW n \in LnRange
  PROVE  /\ ~Panicked(ArgProduct(y, n))
         /\ ArgProduct(y, n).value \in Envelope
         /\ ONE * ArgProduct(y, n).value <= y * n
         /\ n \in U128
<1> DEFINE R == MAX_RATIO * (SCALE * LN2_62)
           q == (y * n) \div ONE
<1>1. /\ ONE \in Nat /\ ONE > 0 /\ MAX_RATIO \in Nat /\ SCALE \in Nat /\ LN2_62 \in Nat
      /\ MAX_RATIO >= 1
  BY ScaleFacts, ScaleAssumption, LogarithmAssumption
<1>2. /\ WORD \in Nat /\ 2^(WIDTH - 1) \in Nat /\ 2 * 2^(WIDTH - 1) = WORD
      /\ ARG_ENVELOPE \in Nat /\ ARG_ENVELOPE < WORD
  BY ScaleFacts, EnvelopeAssumption
<1>3. /\ SCALE * LN2_62 \in Nat /\ R \in Nat /\ R < ARG_ENVELOPE
      /\ SCALE * LN2_62 <= R
  <2>1. SCALE * LN2_62 \in Nat
    BY <1>1
  <2>2. (MAX_RATIO * SCALE) * LN2_62 = R
    BY <1>1
  <2>3. 1 * (SCALE * LN2_62) <= R
    BY <1>1, <2>1, ProductBound
  <2> QED BY <1>1, <2>1, <2>2, <2>3, EnvelopeAssumption
<1>4. n \in Nat /\ n <= SCALE * LN2_62 /\ y \in Nat /\ y <= MAX_RATIO * ONE
  BY <1>1, <1>3 DEF LnRange
<1>5. y \in U128 /\ n \in U128 /\ SCALE \in 1 .. WIDTH - 1
  <2>1. SCALE \in 1 .. WIDTH - 1
    BY ScaleAssumption, WidthAssumption
  <2>2. y < WORD
    BY <1>2, <1>4 DEF I128
  <2> QED BY <1>2, <1>3, <1>4, <2>1, <2>2 DEF U128
<1>6. y * n \in Nat /\ y * n <= ONE * R
  <2>1. y * n \in Nat /\ y * n <= (MAX_RATIO * ONE) * (SCALE * LN2_62)
    BY <1>1, <1>3, <1>4, ProductBound
  <2>2. (MAX_RATIO * ONE) * (SCALE * LN2_62) = ONE * R
    BY <1>1, <1>3
  <2> QED BY <2>1, <2>2
<1> HIDE DEF R
<1>7. q \in Nat /\ q <= R /\ ONE * q <= y * n
  <2>1. q \in Nat /\ ONE * q <= y * n
    BY <1>1, <1>6, DivisionBounds, DivisionNat
  <2> HIDE DEF q
  <2>2. ONE * q < ONE * (R + 1)
    BY <2>1, <1>1, <1>3, <1>6
  <2> QED BY <2>1, <2>2, <1>1, <1>3, Cancel
<1>8. Shr(y * n, SCALE) = q
  BY DEF Shr, ONE
<1> HIDE DEF q
<1>9. ArgProduct(y, n) = Value(q)
  <2>1. q \in U128
    BY <1>2, <1>3, <1>7 DEF U128
  <2> QED BY <2>1, <1>5, <1>8, MulShrFloor DEF ArgProduct
<1>10. ~Panicked(ArgProduct(y, n)) /\ ArgProduct(y, n).value = q
  BY <1>9 DEF Panicked, Value
<1> QED BY <1>2, <1>3, <1>5, <1>7, <1>10 DEF Envelope

\* The reciprocal estimate leaves a remainder within one multiple of ln 2 of
\* the window [0, ln 2), on either side.
LEMMA EstimateLands ==
  ASSUME NEW n \in Envelope
  PROVE  LET k == Shr(n * INV_LN2_30, ESTIMATE_BITS + LN_SCALE)
             s == n - k * LN2_62
         IN  /\ k \in Nat /\ k * LN2_62 \in Nat /\ s \in Int
             /\ -LN2_62 <= s /\ s < 2 * LN2_62
             /\ n * INV_LN2_30 \in U128
<1> DEFINE U == 2^(ESTIMATE_BITS + LN_SCALE)
           v == INV_LN2_30
           d == LN2_62
           R == (ARG_ENVELOPE \div d) + 1
           k == (n * v) \div U
           e == (v * d) - U
           kd == k * d
           s == n - kd
<1>1. /\ U \in Nat /\ U > 0
      /\ v \in Nat /\ d \in Nat /\ d > 0 /\ n \in Nat /\ n < ARG_ENVELOPE
      /\ ARG_ENVELOPE \in Nat /\ ARG_ENVELOPE * v <= WORD /\ WORD \in Nat /\ WORD > 0
  <2>1. ESTIMATE_BITS + LN_SCALE \in 0 .. WIDTH
    BY ScaleAssumption, WidthAssumption
  <2>2. U \in Nat /\ U > 0
    BY <2>1, PowerPositive, Zenon
  <2>3. d \in Nat /\ d > 0
    BY LogarithmAssumption, ScaleFacts
  <2>4. v \in Nat /\ ARG_ENVELOPE \in Nat /\ ARG_ENVELOPE * v <= WORD
    BY EnvelopeAssumption
  <2>5. n \in Nat /\ n < ARG_ENVELOPE
    BY <2>4 DEF Envelope
  <2> QED BY <2>2, <2>3, <2>4, <2>5, LimbSquared
<1>2. R \in Nat /\ (v * d - U) * R <= U /\ (U - v * d) * R <= U
  <2>1. (v * d - U) * R <= U /\ (U - v * d) * R <= U
    BY EnvelopeAssumption
  <2>2. ARG_ENVELOPE \div d \in Nat
    BY <1>1, DivisionNat
  <2> QED BY <2>1, <2>2
<1>3. n < d * R
  <2>1. ARG_ENVELOPE < (d * (ARG_ENVELOPE \div d)) + d /\ ARG_ENVELOPE \div d \in Nat
    BY <1>1, DivisionBounds, DivisionNat
  <2>2. d * R = (d * (ARG_ENVELOPE \div d)) + d
    BY <1>1, <2>1
  <2> QED BY <2>1, <2>2, <1>1
<1> HIDE DEF U, v, d, R
<1>4. e \in Int /\ e * R <= U /\ -(e * R) <= U /\ v * d = U + e
  <2>1. (U - v * d) * R = -(e * R)
    BY <1>1, <1>2
  <2> QED BY <1>1, <1>2, <2>1
<1> HIDE DEF e
<1>5. n * v \in Nat /\ n * v < WORD
  <2>1. CASE v = 0
    BY <2>1, <1>1
  <2>2. CASE v > 0
    <3>1. (n + 1) * v <= ARG_ENVELOPE * v
      BY <1>1, ProductBound
    <3>2. (n + 1) * v = (n * v) + v /\ n * v \in Nat
      BY <1>1
    <3> QED BY <3>1, <3>2, <2>2, <1>1
  <2> QED BY <2>1, <2>2, <1>1
<1>6. k \in Nat /\ U * k <= n * v /\ n * v < (U * k) + U
  BY <1>1, <1>5, DivisionBounds, DivisionNat
<1> HIDE DEF k
<1>7. kd \in Nat /\ U * kd <= (U * n) + (n * e) /\ (U * n) + (n * e) < (U * kd) + (U * d)
  <2>1. (n * v) * d = (U * n) + (n * e)
    <3>1. (n * v) * d = n * (v * d)
      BY <1>1
    <3>2. n * (U + e) = (U * n) + (n * e)
      BY <1>1, <1>4
    <3> QED BY <3>1, <3>2, <1>4
  <2>2. (U * k) * d <= (n * v) * d
    BY <1>1, <1>5, <1>6
  <2>3. (n * v) * d < ((U * k) + U) * d
    BY <1>1, <1>5, <1>6
  <2>4. (U * k) * d = U * kd /\ ((U * k) + U) * d = (U * kd) + (U * d)
    BY <1>1, <1>6
  <2> QED BY <2>1, <2>2, <2>3, <2>4, <1>1, <1>6
\* The reciprocal's error over the whole envelope is below one multiple.
<1>8. n * e \in Int /\ n * e <= U * d /\ -(n * e) <= U * d
  <2>1. ASSUME NEW z \in Nat, z * R <= U PROVE n * z \in Nat /\ n * z <= U * d
    <3>1. n * z \in Nat /\ n * z <= (d * R) * z
      BY <1>1, <1>2, <1>3, ProductBound
    <3>2. (d * R) * z = d * (z * R) /\ z * R \in Nat /\ d * (z * R) \in Nat
      BY <1>1, <1>2
    <3>3. d * (z * R) <= d * U
      BY <1>1, <2>1, <3>2, ProductBound
    <3>4. d * U = U * d
      BY <1>1
    <3>5. U * d \in Nat
      BY <1>1
    <3> HIDE DEF kd, s
    <3> QED BY <3>1, <3>2, <3>3, <3>4, <3>5
  <2>2. CASE e >= 0
    <3>1. n * e \in Nat /\ n * e <= U * d
      BY <1>4, <2>1, <2>2
    <3> QED BY <3>1, <1>1
  <2>3. CASE e < 0
    <3>1. -e \in Nat /\ (-e) * R <= U
      BY <1>2, <1>4, <2>3
    <3>2. n * (-e) \in Nat /\ n * (-e) <= U * d
      BY <2>1, <3>1
    <3>3. n * (-e) = -(n * e) /\ n * e \in Int /\ U * d \in Nat
      BY <1>1, <1>4
    <3> HIDE DEF kd, s
    <3> QED BY <3>2, <3>3
  <2> QED BY <2>2, <2>3, <1>4
<1>9. -d <= s /\ s < 2 * d
  <2>1. s \in Int /\ U * (-s) = (U * kd) - (U * n) /\ U * s = (U * n) - (U * kd)
    BY <1>1, <1>7
  <2> HIDE DEF s, kd
  <2>2. U * (-s) <= U * d /\ U * s < (U * d) + (U * d) /\ U * d \in Nat
    BY <1>1, <1>7, <1>8, <2>1
  <2>3. U * (-s) < U * (d + 1) /\ U * s < U * ((2 * d - 1) + 1)
    BY <1>1, <2>1, <2>2
  <2>4. -s <= d /\ s <= 2 * d - 1
    BY <1>1, <2>1, <2>3, Cancel
  <2> QED BY <1>1, <2>1, <2>4
<1> QED
  BY <1>1, <1>5, <1>6, <1>7, <1>9 DEF k, kd, s, U, v, d, Shr, U128
-----------------------------------------------------------------------------
(***************************************************************************)
(* exp_inner's series and the rounding back to SCALE.                      *)
(***************************************************************************)
\* The partial sums from coefficient j on: they alternate with it and are
\* never larger.
ExpSum(j, p) ==
  /\ p \in Int
  /\ IF j % 2 = 1 THEN p >= 0 /\ p <= EXP_COEFF_62[j]
     ELSE p <= 0 /\ p >= EXP_COEFF_62[j]

LEMMA ExpSumBounded ==
  ASSUME NEW j \in 1 .. Len(EXP_COEFF_62), NEW p, ExpSum(j, p)
  PROVE  p \in Int /\ p <= ONE_62 /\ -ONE_62 <= p
<1>1. EXP_COEFF_62[j] \in -ONE_62 .. ONE_62 /\ ONE_62 \in Nat
  BY Tables, ScaleFacts
<1> QED BY <1>1 DEF ExpSum

LEMMA ExpSumStarts ==
  ExpSum(Len(EXP_COEFF_62), EXP_COEFF_62[Len(EXP_COEFF_62)])
<1> DEFINE n == Len(EXP_COEFF_62)
<1>1. n \in 1 .. Len(EXP_COEFF_62) /\ EXP_COEFF_62[n] \in -ONE_62 .. ONE_62
      /\ ONE_62 \in Nat
  BY Tables, ScaleFacts
<1>2. IF n % 2 = 1 THEN EXP_COEFF_62[n] >= 0 ELSE EXP_COEFF_62[n] <= 0
  BY <1>1, ExponentialAssumption
<1> HIDE DEF n
<1>3. ExpSum(n, EXP_COEFF_62[n])
  BY <1>1, <1>2 DEF ExpSum
<1> QED BY <1>3 DEF n

LEMMA ExpHornerAlternates ==
  ASSUME NEW j \in 1 .. Len(EXP_COEFF_62) - 1, NEW p, ExpSum(j + 1, p),
         NEW s \in 0 .. LN2_62 - 1
  PROVE  ExpSum(j, HornerStep(EXP_COEFF_62[j], p, s))
<1> DEFINE c == EXP_COEFF_62[j]
           cc == EXP_COEFF_62[j + 1]
           q == (p * s) \div ONE_62
<1>1. /\ j \in 1 .. Len(EXP_COEFF_62) /\ j + 1 \in 1 .. Len(EXP_COEFF_62)
      /\ j \in Nat /\ c \in Int /\ cc \in Int
      /\ ONE_62 \in Nat /\ ONE_62 > 0 /\ LN2_62 \in Nat
      /\ s \in Nat /\ 10 * s <= 7 * ONE_62
  <2>1. j \in 1 .. Len(EXP_COEFF_62) /\ j + 1 \in 1 .. Len(EXP_COEFF_62) /\ j \in Nat
    BY Tables
  <2>2. ONE_62 \in Nat /\ ONE_62 > 0 /\ LN2_62 \in Nat /\ 10 * LN2_62 <= 7 * ONE_62
    BY ScaleFacts, LogarithmAssumption
  <2>3. c \in -ONE_62 .. ONE_62 /\ cc \in -ONE_62 .. ONE_62
    BY <2>1, Tables
  <2> QED BY <2>1, <2>2, <2>3
<1>2. /\ IF j % 2 = 1 THEN 10 * c >= 10 - 7 * cc ELSE -10 * c >= 10 + 7 * cc
      /\ IF j % 2 = 1 THEN c >= 0 ELSE c <= 0
  BY <1>1, ExponentialAssumption
<1>3. p \in Int /\ IF (j + 1) % 2 = 1 THEN p >= 0 /\ p <= cc ELSE p <= 0 /\ p >= cc
  BY DEF ExpSum
<1>4. /\ q \in Int
      /\ p >= 0 => q >= 0 /\ 10 * q <= 7 * p
      /\ p <= 0 => q <= 0 /\ 10 * q + 10 >= 7 * p
  BY <1>1, <1>3, FloorScaled
<1>5. HornerStep(c, p, s) = c + q
  BY DEF HornerStep, Shr, ONE_62
<1>6. (j + 1) % 2 = 1 <=> ~(j % 2 = 1)
  BY <1>1
<1> HIDE DEF c, cc, q
<1>7. CASE j % 2 = 1
  <2>1. p <= 0 /\ p >= cc
    BY <1>3, <1>6, <1>7
  <2>2. 10 * c >= 10 - 7 * cc
    BY <1>2, <1>7
  <2>3. c + q \in Int /\ c + q >= 0 /\ c + q <= c
    BY <1>1, <1>3, <1>4, <2>1, <2>2
  <2> QED BY <2>3, <1>5, <1>7 DEF ExpSum, c
<1>8. CASE ~(j % 2 = 1)
  <2>1. p >= 0 /\ p <= cc
    BY <1>3, <1>6, <1>8
  <2>2. -10 * c >= 10 + 7 * cc
    BY <1>2, <1>8
  <2>3. c + q \in Int /\ c + q <= 0 /\ c + q >= c
    BY <1>1, <1>3, <1>4, <2>1, <2>2
  <2> QED BY <2>3, <1>5, <1>8 DEF ExpSum, c
<1> QED BY <1>7, <1>8

\* Products of two values within one stay within a word.
LEMMA UnitProduct ==
  ASSUME NEW a \in Int, a <= ONE_62, -ONE_62 <= a, NEW b \in Nat, b <= ONE_62
  PROVE  a * b \in Int /\ a * b <= ONE_62 * ONE_62 /\ -(ONE_62 * ONE_62) <= a * b
<1>1. ONE_62 \in Nat
  BY ScaleFacts
<1>2. CASE a >= 0
  <2>1. a * b \in Nat /\ a * b <= ONE_62 * ONE_62
    BY <1>1, <1>2, ProductBound
  <2> QED BY <2>1, <1>1
<1>3. CASE a < 0
  <2>1. -a \in Nat /\ (-a) * b \in Nat /\ (-a) * b <= ONE_62 * ONE_62
    BY <1>1, <1>3, ProductBound
  <2>2. a * b = -((-a) * b)
    OBVIOUS
  <2> QED BY <2>1, <2>2, <1>1
<1> QED BY <1>2, <1>3

\* A shift right keeps a value in [0, 1] there.
LEMMA ShrStays ==
  ASSUME NEW v \in 0 .. ONE_62, NEW k \in 0 .. WIDTH
  PROVE  Shr(v, k) \in 0 .. ONE_62
<1>1. 2^k \in Nat /\ 2^k > 0 /\ ONE_62 \in Nat
  BY PowerPositive, ScaleFacts
<1> DEFINE d == 2^k
<1> HIDE DEF d
<1>2. v \div d \in Nat /\ v \div d <= v
  BY <1>1, DivisionNat DEF d
<1> QED BY <1>1, <1>2 DEF Shr, d

\* A value in [0, 1] rounds to one, and any value rounds to no more than it.
LEMMA RoundStays ==
  ASSUME NEW v \in Nat
  PROVE  /\ to_scale_nearest(v) \in Nat /\ to_scale_nearest(v) <= v
         /\ v <= ONE_62 => to_scale_nearest(v) <= ONE
<1> DEFINE h == GUARD \div 2
           q == (v + h) \div GUARD
<1>1. /\ GUARD \in Nat /\ GUARD >= 4 /\ h \in Nat /\ 2 * h = GUARD
      /\ ONE \in Nat /\ ONE * GUARD = ONE_62 /\ ONE_62 \in Nat
  BY ScaleFacts
<1>2. to_scale_nearest(v) = q
  BY DEF to_scale_nearest
<1> HIDE DEF h
<1>3. q \in Nat /\ GUARD * q <= v + h
  BY <1>1, DivisionNat, DivisionBounds
<1> HIDE DEF q
<1>4. q <= v
  <2>1. CASE q = 0
    BY <2>1
  <2>2. CASE q >= 1
    <3>1. GUARD * q >= GUARD /\ 4 * q <= GUARD * q
      BY <1>1, <1>3, <2>2, ProductBound
    <3>2. 2 * (GUARD * q) <= 2 * v + GUARD * q
      BY <1>1, <1>3, <3>1
    <3> QED BY <3>1, <3>2, <1>1, <1>3
  <2> QED BY <2>1, <2>2, <1>3
<1>5. v <= ONE_62 => q <= ONE
  <2> SUFFICES ASSUME v <= ONE_62 PROVE q <= ONE
    OBVIOUS
  <2>1. GUARD * (ONE + 1) = ONE_62 + GUARD
    BY <1>1
  <2>2. GUARD * q < GUARD * (ONE + 1)
    BY <2>1, <1>1, <1>3
  <2> QED BY <2>2, <1>1, <1>3, Cancel
<1> QED BY <1>2, <1>3, <1>4, <1>5
-----------------------------------------------------------------------------
(***************************************************************************)
(* The functions of Pow, from the lemmas about their steps.                *)
(***************************************************************************)
\* The partial sums from i = m on, as the LET of Horner has them.
SumsFrom(table, v, m, n, f) ==
  f = [i \in m .. n |-> IF i = n THEN table[i] ELSE HornerStep(table[i], f[i + 1], v)]

\* The recursive function behind Horner exists: a tail of it is extended by
\* one element at a time.
LEMMA HornerTail ==
  ASSUME NEW table, NEW n \in Nat, n >= 1, NEW v
  PROVE  \E f : SumsFrom(table, v, 1, n, f)
<1> DEFINE Rest(f, m) == SumsFrom(table, v, m, n, f)
           T == {d \in 0 .. n - 1 : ~ \E f : Rest(f, n - d)}
<1>1. T = {}
  <2> SUFFICES ASSUME T # {} PROVE FALSE
    OBVIOUS
  <2>1. T \subseteq Nat
    OBVIOUS
  <2>2. PICK d \in T : \A y \in T : d <= y
    <3> HIDE DEF T
    <3> QED BY <2>1, LeastElement
  <2>3. d \in 0 .. n - 1 /\ ~ \E f : Rest(f, n - d)
    BY <2>2
  <2>4. d # 0
    <3> DEFINE f == [i \in n .. n |-> table[i]]
    <3>1. Rest(f, n)
      BY DEF SumsFrom
    <3> HIDE DEF f, Rest
    <3> SUFFICES ASSUME d = 0 PROVE FALSE
      OBVIOUS
    <3>2. n - d = n
      OBVIOUS
    <3> QED BY <3>1, <3>2, <2>3
  <2>5. d - 1 \in 0 .. n - 1 /\ d - 1 \notin T
    <3>1. d \in Nat /\ d - 1 \in 0 .. n - 1
      BY <2>2, <2>3, <2>4
    <3> HIDE DEF T
    <3>2. ~(d <= d - 1)
      BY <3>1
    <3> QED BY <2>2, <3>1, <3>2
  <2>6. PICK g : Rest(g, n - (d - 1))
    BY <2>5
  <2> DEFINE m == n - d
             f == [i \in m .. n |-> IF i = m THEN HornerStep(table[i], g[i + 1], v)
                                    ELSE g[i]]
  <2>7. m \in Nat /\ m >= 1 /\ m < n /\ n - (d - 1) = m + 1
    BY <2>3, <2>4
  <2> HIDE DEF m
  <2>8. \A i \in m + 1 .. n :
          g[i] = IF i = n THEN table[i] ELSE HornerStep(table[i], g[i + 1], v)
    BY <2>6, <2>7 DEF SumsFrom
  <2>9. \A i \in m .. n : i # n => i + 1 \in m .. n /\ i + 1 # m /\ f[i + 1] = g[i + 1]
    BY <2>7
  <2>10. \A i \in m .. n :
           f[i] = IF i = n THEN table[i] ELSE HornerStep(table[i], f[i + 1], v)
    <3> TAKE i \in m .. n
    <3>1. CASE i = m
      <4>1. i # n /\ f[i + 1] = g[i + 1] /\ f[i] = HornerStep(table[i], g[i + 1], v)
        BY <2>7, <2>9, <3>1
      <4> QED BY <4>1
    <3>2. CASE i # m
      <4>1. i \in m + 1 .. n /\ f[i] = g[i]
        BY <2>7, <3>2
      <4>2. i # n => f[i + 1] = g[i + 1]
        BY <2>9
      <4> HIDE DEF f
      <4> QED BY <4>1, <4>2, <2>8
    <3> QED BY <3>1, <3>2
  <2>11. Rest(f, m)
    BY <2>10 DEF SumsFrom
  <2> HIDE DEF Rest, f
  <2> QED BY <2>11, <2>3 DEF m
<1>2. n - 1 \in 0 .. n - 1 /\ n - (n - 1) = 1
  OBVIOUS
<1>3. \E f : Rest(f, 1)
  <2>1. n - 1 \notin T
    BY <1>1
  <2>2. \E f : Rest(f, n - (n - 1))
    <3> HIDE DEF Rest
    <3> QED BY <2>1, <1>2
  <2> HIDE DEF Rest
  <2> QED BY <2>2, <1>2
<1> QED BY <1>3

PartialSums(table, v, f) ==
  /\ f[Len(table)] = table[Len(table)]
  /\ \A i \in 1 .. Len(table) - 1 : f[i] = HornerStep(table[i], f[i + 1], v)

\* Horner's value is the first of a sequence of partial sums.
LEMMA HornerUnfolds ==
  ASSUME NEW table, Len(table) \in Nat, Len(table) >= 1, NEW v
  PROVE  \E f : Horner(table, v) = f[1] /\ PartialSums(table, v, f)
<1> DEFINE n == Len(table)
           Rec(f) == SumsFrom(table, v, 1, n, f)
           h == CHOOSE f : Rec(f)
<1>1. \E f : Rec(f)
  <2> HIDE DEF n
  <2>1. n \in Nat /\ n >= 1
    BY DEF n
  <2> QED BY <2>1, HornerTail
<1>2. Rec(h)
  <2> HIDE DEF Rec
  <2> QED BY <1>1
<1>3. Horner(table, v) = h[1]
  BY DEF Horner, SumsFrom
<1> HIDE DEF h
<1>4. h[n] = table[n] /\ \A i \in 1 .. n - 1 : h[i] = HornerStep(table[i], h[i + 1], v)
  <2> HIDE DEF n
  <2>1. n \in Nat /\ n >= 1
    BY DEF n
  <2> QED BY <1>2, <2>1 DEF SumsFrom
<1> QED BY <1>3, <1>4 DEF PartialSums

\* Every partial sum of ln_inner's series keeps the bound.
LEMMA AtanhSums ==
  ASSUME NEW u \in Nat, 25 * u <= ONE_62
  PROVE  \E f : /\ Horner(ATANH_COEFF_62, u) = f[1]
                /\ PartialSums(ATANH_COEFF_62, u, f)
                /\ \A i \in 1 .. Len(ATANH_COEFF_62) : AtanhSum(f[i])
<1> DEFINE table == ATANH_COEFF_62
           n == Len(table)
<1>1. /\ n \in Nat /\ n >= 1
      /\ \A j \in 1 .. n : table[j] \in 0 .. ONE_62
  BY Tables
<1>2. PICK f : /\ Horner(table, u) = f[1] /\ f[n] = table[n]
               /\ \A i \in 1 .. n - 1 : f[i] = HornerStep(table[i], f[i + 1], u)
  <2>1. PICK f : Horner(table, u) = f[1] /\ PartialSums(table, u, f)
    BY <1>1, HornerUnfolds
  <2> QED BY <2>1 DEF PartialSums
<1> DEFINE T == {d \in 0 .. n - 1 : ~AtanhSum(f[n - d])}
<1> HIDE DEF table, n
<1>3. T = {}
  <2> SUFFICES ASSUME T # {} PROVE FALSE
    OBVIOUS
  <2>1. T \subseteq Nat
    OBVIOUS
  <2>2. PICK d \in T : \A y \in T : d <= y
    <3> HIDE DEF T
    <3> QED BY <2>1, LeastElement
  <2>3. d \in 0 .. n - 1 /\ ~AtanhSum(f[n - d])
    BY <2>2
  <2>4. AtanhSum(f[n])
    BY <1>1, <1>2, ScaleFacts DEF AtanhSum
  <2>5. d # 0
    <3> SUFFICES ASSUME d = 0 PROVE FALSE
      OBVIOUS
    <3>1. n - d = n
      BY <1>1
    <3> QED BY <3>1, <2>3, <2>4
  <2>6. d - 1 \in 0 .. n - 1 /\ d - 1 \notin T
    <3>1. d \in Nat /\ d - 1 \in 0 .. n - 1
      BY <2>2, <2>3, <2>5, <1>1
    <3> HIDE DEF T
    <3>2. ~(d <= d - 1)
      BY <3>1
    <3> QED BY <2>2, <3>1, <3>2
  <2>7. AtanhSum(f[n - (d - 1)])
    BY <2>6
  <2> DEFINE i == n - d
  <2>8. i \in 1 .. n - 1 /\ n - (d - 1) = i + 1 /\ i \in 1 .. n
    BY <1>1, <2>3, <2>5
  <2> HIDE DEF i, T
  <2>9. f[i] = HornerStep(table[i], f[i + 1], u) /\ table[i] \in 0 .. ONE_62
    BY <1>1, <1>2, <2>8
  <2>10. AtanhSum(f[i + 1])
    BY <2>7, <2>8
  <2>11. AtanhSum(HornerStep(table[i], f[i + 1], u))
    BY <2>9, <2>10, AtanhHorner
  <2> QED BY <2>3, <2>9, <2>11 DEF i
<1>4. ASSUME NEW i \in 1 .. n PROVE AtanhSum(f[i])
  <2>1. n - i \in 0 .. n - 1 /\ n - (n - i) = i
    BY <1>1
  <2>2. AtanhSum(f[n - (n - i)])
    BY <1>3, <2>1
  <2> QED BY <2>1, <2>2
<1>5. PartialSums(table, u, f)
  BY <1>2 DEF PartialSums, n
<1>6. \A i \in 1 .. n : AtanhSum(f[i])
  BY <1>4
<1> QED BY <1>2, <1>5, <1>6 DEF table, n

LEMMA AtanhHornerSum ==
  ASSUME NEW u \in Nat, 25 * u <= ONE_62
  PROVE  AtanhSum(Horner(ATANH_COEFF_62, u))
<1>1. 1 \in 1 .. Len(ATANH_COEFF_62)
  BY Tables
<1> QED BY <1>1, AtanhSums

\* 1 + u/3 + u^2/5 + ... is at least its first term, and within 21/20.
LEMMA AtanhHornerTop ==
  ASSUME NEW u \in Nat, 25 * u <= ONE_62, ATANH_COEFF_62[1] = ONE_62
  PROVE  LET p == Horner(ATANH_COEFF_62, u)
         IN  p \in Nat /\ p >= ONE_62 /\ 20 * p <= 21 * ONE_62
<1> DEFINE W == ONE_62
           n == Len(ATANH_COEFF_62)
           p == Horner(ATANH_COEFF_62, u)
<1>1. W \in Nat /\ W >= 8 /\ n \in Nat /\ n >= 1
  BY ScaleFacts, Tables
<1>2. PICK f : /\ p = f[1] /\ PartialSums(ATANH_COEFF_62, u, f)
               /\ \A i \in 1 .. n : AtanhSum(f[i])
  BY AtanhSums
<1> HIDE DEF p
<1>3. CASE n = 1
  <2>1. p = W
    BY <1>2, <1>3 DEF PartialSums
  <2> QED BY <1>1, <2>1 DEF p
<1>4. CASE n # 1
  <2>1. 1 \in 1 .. n - 1 /\ 2 \in 1 .. n
    BY <1>1, <1>4
  <2>2. p = HornerStep(W, f[2], u) /\ AtanhSum(f[2])
    BY <1>2, <2>1 DEF PartialSums
  <2> DEFINE g == f[2]
             q == (g * u) \div W
  <2>3. p = W + q
    BY <2>2 DEF HornerStep, Shr, ONE_62
  <2>4. g \in Nat /\ 4 * g <= 5 * W /\ 25 * u <= W
    BY <2>2 DEF AtanhSum
  <2> HIDE DEF g
  <2>5. (4 * g) * (25 * u) <= (5 * W) * W /\ (4 * g) * (25 * u) = 100 * (g * u)
        /\ (5 * W) * W = 5 * (W * W) /\ g * u \in Nat
    <3> HIDE DEF W
    <3> QED BY <1>1, <2>4, ProductBound
  <2>6. q \in Nat /\ W * q <= g * u
    <3> DEFINE x == g * u
    <3>1. x \in Nat /\ W \in Nat /\ W > 0 /\ q = x \div W
      BY <1>1, <2>5
    <3> HIDE DEF x, W, q
    <3>2. W * q <= x
      BY <3>1, DivisionBounds
    <3> QED BY <3>1, <3>2, DivisionNat DEF x
  <2> HIDE DEF q, W
  <2>7. W * (20 * q) <= W * W /\ W * W < W * (W + 1)
    BY <1>1, <2>5, <2>6
  <2>8. 20 * q <= W
    BY <1>1, <2>6, <2>7, Cancel
  <2>9. p \in Nat /\ p >= W /\ 20 * p <= 21 * W
    BY <1>1, <2>3, <2>6, <2>8
  <2> QED BY <2>9 DEF p, W
<1> QED BY <1>3, <1>4

\* Every partial sum of exp_inner's series alternates.
LEMMA ExpSums ==
  ASSUME NEW s \in 0 .. LN2_62 - 1
  PROVE  \E f : /\ Horner(EXP_COEFF_62, s) = f[1]
                /\ PartialSums(EXP_COEFF_62, s, f)
                /\ \A i \in 1 .. Len(EXP_COEFF_62) : ExpSum(i, f[i])
<1> DEFINE table == EXP_COEFF_62
           n == Len(table)
<1>1. n \in Nat /\ n >= 1
  BY Tables
<1>2. PICK f : /\ Horner(table, s) = f[1] /\ f[n] = table[n]
               /\ \A i \in 1 .. n - 1 : f[i] = HornerStep(table[i], f[i + 1], s)
  <2>1. PICK f : Horner(table, s) = f[1] /\ PartialSums(table, s, f)
    BY <1>1, HornerUnfolds
  <2> QED BY <2>1 DEF PartialSums
<1>3. ExpSum(n, f[n])
  BY <1>2, ExpSumStarts
<1>4. \A i \in 1 .. n - 1 : \A p : ExpSum(i + 1, p) => ExpSum(i, HornerStep(table[i], p, s))
  BY ExpHornerAlternates
<1> DEFINE T == {d \in 0 .. n - 1 : ~ExpSum(n - d, f[n - d])}
<1> HIDE DEF table, n
<1>5. T = {}
  <2> SUFFICES ASSUME T # {} PROVE FALSE
    OBVIOUS
  <2>1. T \subseteq Nat
    OBVIOUS
  <2>2. PICK d \in T : \A y \in T : d <= y
    <3> HIDE DEF T
    <3> QED BY <2>1, LeastElement
  <2>3. d \in 0 .. n - 1 /\ ~ExpSum(n - d, f[n - d])
    BY <2>2
  <2>4. d # 0
    <3> SUFFICES ASSUME d = 0 PROVE FALSE
      OBVIOUS
    <3>1. n - d = n
      BY <1>1
    <3> QED BY <3>1, <2>3, <1>3
  <2>5. d - 1 \in 0 .. n - 1 /\ d - 1 \notin T
    <3>1. d \in Nat /\ d - 1 \in 0 .. n - 1
      BY <2>2, <2>3, <2>4, <1>1
    <3> HIDE DEF T
    <3>2. ~(d <= d - 1)
      BY <3>1
    <3> QED BY <2>2, <3>1, <3>2
  <2>6. ExpSum(n - (d - 1), f[n - (d - 1)])
    BY <2>5
  <2> DEFINE i == n - d
  <2>7. i \in 1 .. n - 1 /\ n - (d - 1) = i + 1
    BY <1>1, <2>3, <2>4
  <2> HIDE DEF i, T
  <2>8. ExpSum(i + 1, f[i + 1])
    BY <2>6, <2>7 DEF SumsFrom
  <2>9. ExpSum(i, f[i])
    BY <1>2, <1>4, <2>7, <2>8
  <2> QED BY <2>3, <2>9 DEF i
<1>6. ASSUME NEW i \in 1 .. n PROVE ExpSum(i, f[i])
  <2>1. n - i \in 0 .. n - 1 /\ n - (n - i) = i
    BY <1>1
  <2>2. ExpSum(n - (n - i), f[n - (n - i)])
    BY <1>5, <2>1
  <2> QED BY <2>1, <2>2
<1>7. PartialSums(table, s, f)
  BY <1>2 DEF PartialSums, n
<1>8. \A i \in 1 .. n : ExpSum(i, f[i])
  BY <1>6
<1> QED BY <1>2, <1>7, <1>8 DEF table, n

LEMMA ExpHornerSum ==
  ASSUME NEW s \in 0 .. LN2_62 - 1
  PROVE  Horner(EXP_COEFF_62, s) \in 0 .. ONE_62
<1>1. PICK f : /\ Horner(EXP_COEFF_62, s) = f[1]
               /\ \A i \in 1 .. Len(EXP_COEFF_62) : ExpSum(i, f[i])
  BY ExpSums
<1>2. 1 \in 1 .. Len(EXP_COEFF_62) /\ EXP_COEFF_62[1] = ONE_62
  BY Tables, ExponentialAssumption
<1>3. ExpSum(1, f[1])
  BY <1>1, <1>2
<1>4. f[1] \in Int /\ f[1] >= 0 /\ f[1] <= ONE_62
  BY <1>2, <1>3 DEF ExpSum
<1> QED BY <1>1, <1>4, ScaleFacts

\* exp(-s) is at least 1 - s.
LEMMA ExpHornerBelow ==
  ASSUME NEW s \in 0 .. LN2_62 - 1
  PROVE  Horner(EXP_COEFF_62, s) >= ONE_62 - s
<1> DEFINE W == ONE_62
           n == Len(EXP_COEFF_62)
           h == Horner(EXP_COEFF_62, s)
<1>1. W \in Nat /\ W >= 8 /\ n \in Nat /\ n >= 1 /\ s \in Nat /\ EXP_COEFF_62[1] = W
  BY ScaleFacts, Tables, LogarithmAssumption, ExponentialAssumption
<1>2. PICK f : /\ h = f[1] /\ PartialSums(EXP_COEFF_62, s, f)
               /\ \A i \in 1 .. n : ExpSum(i, f[i])
  BY ExpSums
<1> HIDE DEF h
<1>3. CASE n = 1
  <2>1. h = W
    BY <1>1, <1>2, <1>3 DEF PartialSums
  <2> QED BY <1>1, <2>1 DEF h
<1>4. CASE n # 1
  <2>1. 1 \in 1 .. n - 1 /\ 2 \in 1 .. n
    <3> HIDE DEF n
    <3> QED BY <1>1, <1>4
  <2>2. h = HornerStep(W, f[2], s) /\ ExpSum(2, f[2])
    BY <1>1, <1>2, <2>1 DEF PartialSums
  <2> DEFINE g == f[2]
             q == (g * s) \div W
  <2>3. h = W + q
    BY <2>2 DEF HornerStep, Shr, ONE_62
  <2>4. g \in Int /\ g >= -W
    BY <2>1, <2>2, ExpSumBounded
  <2> HIDE DEF W, g
  <2>5. g * s \in Int /\ g * s >= (-W) * s
    BY <1>1, <2>4
  <2>6. q \in Int /\ g * s < W * q + W
    BY <1>1, <2>5, DivisionBounds
  <2> HIDE DEF q
  <2>7. W * (-s) < W * (q + 1)
    <3>1. W * (-s) = (-W) * s /\ W * (q + 1) = W * q + W
      BY <1>1, <2>6
    <3> QED BY <1>1, <2>5, <2>6, <3>1
  <2>8. -s <= q
    BY <1>1, <2>6, <2>7, Cancel
  <2>9. h >= W - s
    BY <1>1, <2>3, <2>6, <2>8
  <2> QED BY <2>9 DEF h, W
<1> QED BY <1>3, <1>4

\* The normalising loop ends in the window, and only the ends of the domain
\* take no doubling or all of them.
LEMMA DoublingsLand ==
  ASSUME NEW x \in 1 .. ONE
  PROVE  LET k == Doublings(x)
             m == x * GUARD * 2^k
         IN  /\ k \in 0 .. SCALE /\ InWindow(m)
             /\ k = 0 => m <= ONE_62
             /\ k = SCALE => m >= ONE_62
<1> DEFINE g == x * GUARD
           Up(k) == g * 2^k
           Reached(k) == Up(k) >= SQRT2_HALF_62
           T == {k \in 0 .. SCALE : Reached(k)}
           W == ONE_62
<1>1. /\ W \in Nat /\ W >= 8 /\ g \in Nat /\ g >= 1 /\ g <= W
      /\ SCALE \in Nat /\ SCALE >= 1 /\ SCALE <= WIDTH - 1 /\ WIDTH \in Nat
      /\ SQRT2_HALF_62 \in Nat /\ 3 * SQRT2_HALF_62 >= 2 * W /\ 4 * SQRT2_HALF_62 <= 3 * W
  <2>1. x * GUARD <= ONE * GUARD /\ x * GUARD >= 1
    BY ScaleFacts
  <2> QED BY <2>1, ScaleFacts, ScaleAssumption, LogarithmAssumption, WidthAssumption
<1>2. Up(SCALE) >= W
  <2>1. Up(SCALE) = x * (ONE * GUARD)
    BY ScaleFacts DEF ONE
  <2> QED BY <2>1, ScaleFacts
<1>3. \A k \in 0 .. SCALE : 2^k \in Nat /\ 2^k > 0
  BY <1>1, PowerPositive
<1>4. \A k \in 1 .. SCALE : 2^k = 2 * 2^(k - 1)
  <2> TAKE k \in 1 .. SCALE
  <2>1. k - 1 \in 0 .. WIDTH - 1 /\ (k - 1) + 1 = k
    BY <1>1
  <2>2. 2^((k - 1) + 1) = 2 * 2^(k - 1)
    BY <2>1, PowerAssumption
  <2> QED BY <2>1, <2>2
<1> HIDE DEF g, W
<1>5. \A k \in 0 .. SCALE : Up(k) \in Nat
  BY <1>1, <1>3
<1>6. \A k \in 1 .. SCALE : Up(k) = 2 * Up(k - 1)
  <2> TAKE k \in 1 .. SCALE
  <2>1. 2^k = 2 * 2^(k - 1) /\ 2^(k - 1) \in Nat
    BY <1>3, <1>4
  <2> QED BY <2>1, <1>1
<1>7. Up(0) = g
  BY <1>1, PowerAssumption
<1> HIDE DEF Up
<1>8. \E k \in 0 .. SCALE : Reached(k) /\ (k > 0 => ~Reached(k - 1))
  <2>1. SCALE \in T
    BY <1>1, <1>2, <1>5
  <2>2. T \subseteq Nat /\ T # {}
    BY <1>1, <2>1
  <2>3. PICK k \in T : \A y \in T : k <= y
    <3> HIDE DEF T
    <3> QED BY <2>2, LeastElement
  <2>4. k \in 0 .. SCALE /\ Reached(k) /\ k \in Nat
    BY <2>3, <1>1
  <2>5. k > 0 => k - 1 \notin T
    <3> HIDE DEF T
    <3> QED BY <2>3, <2>4
  <2>6. k > 0 => ~Reached(k - 1)
    BY <2>4, <2>5, <1>1
  <2> QED BY <2>4, <2>6
<1> DEFINE d == Doublings(x)
<1>9. d \in 0 .. SCALE /\ Reached(d) /\ (d > 0 => ~Reached(d - 1))
  <2>1. \A k \in 0 .. SCALE : Reached(k) <=> x * GUARD * 2^k >= SQRT2_HALF_62
    BY DEF Up, g
  <2>2. \A k \in 1 .. SCALE : ~Reached(k - 1) <=> x * GUARD * 2^(k - 1) < SQRT2_HALF_62
    <3> TAKE k \in 1 .. SCALE
    <3>1. Up(k - 1) \in Nat
      BY <1>1, <1>5
    <3> QED BY <1>1, <3>1 DEF Up, g
  <2>3. d = CHOOSE k \in 0 .. SCALE :
              /\ x * GUARD * 2^k >= SQRT2_HALF_62
              /\ k > 0 => x * GUARD * 2^(k - 1) < SQRT2_HALF_62
    BY DEF Doublings
  <2>4. \E k \in 0 .. SCALE :
              /\ x * GUARD * 2^k >= SQRT2_HALF_62
              /\ k > 0 => x * GUARD * 2^(k - 1) < SQRT2_HALF_62
    BY <1>8, <2>1, <2>2
  <2>5. /\ d \in 0 .. SCALE
        /\ x * GUARD * 2^d >= SQRT2_HALF_62
        /\ d > 0 => x * GUARD * 2^(d - 1) < SQRT2_HALF_62
    <3> HIDE DEF d
    <3> QED BY <2>3, <2>4
  <2> HIDE DEF d
  <2> QED BY <2>1, <2>2, <2>5
<1> HIDE DEF d
<1>10. /\ InWindow(Up(d))
       /\ d = 0 => Up(d) <= W
       /\ d = SCALE => Up(d) >= W
  <2>1. Up(d) \in Nat /\ Up(d) >= SQRT2_HALF_62
    BY <1>5, <1>9
  <2>2. CASE d = 0
    BY <2>1, <2>2, <1>1, <1>7 DEF InWindow
  <2>3. CASE d > 0
    <3>1. Up(d) = 2 * Up(d - 1) /\ Up(d - 1) \in Nat /\ Up(d - 1) < SQRT2_HALF_62
      BY <1>1, <1>5, <1>6, <1>9, <2>3
    <3> QED BY <2>1, <2>3, <3>1, <1>1, <1>2 DEF InWindow
  <2> QED BY <2>2, <2>3, <1>9
<1> QED BY <1>9, <1>10 DEF d, Up, g, W

\* What ln_inner returns is a logarithm of the domain.
LEMMA LnInnerInRange ==
  ASSUME NEW x \in 1 .. ONE
  PROVE  ln_inner[x] \in LnRange
<1> DEFINE k == Doublings(x)
           m == x * GUARD * 2^k
           t == AtanhArgument(m)
           u == Square(t)
           p == Horner(ATANH_COEFF_62, u)
           l == LnMantissa(t, p)
<1>1. ln_inner[x] = k * LN2_62 - l
  BY DEF ln_inner
<1>2. k \in 0 .. SCALE /\ InWindow(m) /\ (k = 0 => m <= ONE_62) /\ (k = SCALE => m >= ONE_62)
  BY DoublingsLand
<1> HIDE DEF k, m
<1>3. /\ t \in Int /\ 5 * t <= ONE_62 /\ -ONE_62 <= 5 * t
      /\ m >= ONE_62 => t >= 0
      /\ m <= ONE_62 => t <= 0
  BY <1>2, AtanhBound
<1> HIDE DEF t
<1>4. u \in Nat /\ 25 * u <= ONE_62
  BY <1>3, SquareBound
<1> HIDE DEF u
<1>5. AtanhSum(p)
  BY <1>4, AtanhHornerSum
<1> HIDE DEF p
<1>6. /\ l \in Int /\ 2 * l <= ONE_62 /\ -ONE_62 <= 2 * l
      /\ t >= 0 => l >= 0
      /\ t <= 0 => l <= 0
  BY <1>3, <1>5, LnMantissaBound
<1> HIDE DEF l
<1>7. (k = 0 => l <= 0) /\ (k = SCALE => l >= 0)
  BY <1>2, <1>3, <1>6
<1>8. (k * LN2_62) - l \in LnRange
  BY <1>2, <1>6, <1>7, NegLnRange
<1> QED BY <1>1, <1>8

\* exp_inner never leaves [0, 1].
LEMMA ExpInnerInRange ==
  ASSUME NEW n \in Nat
  PROVE  exp_inner[n] \in 0 .. ONE_62
<1> DEFINE k == n \div LN2_62
           s == n % LN2_62
           h == Horner(EXP_COEFF_62, s)
<1>1. exp_inner[n] = IF k > LN_SCALE THEN 0 ELSE Shr(h, k)
  BY DEF exp_inner
<1>2. LN2_62 \in Nat /\ LN2_62 > 0 /\ ONE_62 \in Nat /\ LN_SCALE \in Nat /\ LN_SCALE <= WIDTH
      /\ WIDTH \in Nat
  BY LogarithmAssumption, ScaleFacts, ScaleAssumption, WidthAssumption
<1>3. k \in Nat
  BY <1>2, DivisionNat
<1>4. s \in 0 .. LN2_62 - 1
  BY <1>2, DivisionBounds
<1> HIDE DEF k, s
<1>5. h \in 0 .. ONE_62
  BY <1>4, ExpHornerSum
<1> HIDE DEF h
<1>6. CASE k > LN_SCALE
  BY <1>1, <1>2, <1>6
<1>7. CASE ~(k > LN_SCALE)
  <2>1. k \in 0 .. WIDTH
    BY <1>2, <1>3, <1>7
  <2> QED BY <1>1, <1>5, <1>7, <2>1, ShrStays
<1> QED BY <1>6, <1>7

\* A power of the domain is in [0, 1]; its padded forms are below 1.
LEMMA PowersInRange ==
  ASSUME NEW x \in 1 .. ONE - 1, NEW y \in 1 .. MAX_RATIO * ONE, y \in I128
  PROVE  /\ pow_inner(x, y) \in 0 .. ONE_62
         /\ Returns("one_minus_pow_62", x, y) \in 0 .. ONE_62 - 1
         /\ Returns("pow_62_down", x, y) \in 0 .. ONE_62 - 1
<1> DEFINE v == pow_inner(x, y)
           z == ArgProduct(y, ln_inner[x]).value
<1>1. ONE_62 \in Nat /\ ONE_62 >= 8 /\ PAD_62 \in Nat /\ PAD_62 > 0
      /\ ARG_ENVELOPE \in Nat /\ ONE \in Nat
  BY ScaleFacts, PadAssumption, EnvelopeAssumption
<1>2. ln_inner[x] \in LnRange
  BY <1>1, LnInnerInRange
<1>3. z \in Envelope
  BY <1>2, ArgProductFits
<1>4. z \in Nat
  BY <1>1, <1>3 DEF Envelope
<1>5. v = exp_inner[z]
  BY DEF pow_inner
<1> HIDE DEF v, z
<1>6. v \in 0 .. ONE_62
  BY <1>4, <1>5, ExpInnerInRange
<1>7. /\ Returns("one_minus_pow_62", x, y) = AtLeast(ONE_62 - v - PAD_62, 0)
      /\ Returns("pow_62_down", x, y) = AtLeast(v - PAD_62, 0)
  <2>1. ASSUME NEW op \in Ops62
        PROVE  Returns(op, x, y) = Rounded(op, v)
    <3>1. op \notin ExpOps /\ op # "ln" /\ op \in PowOps
      BY DEF Ops62, ExpOps, PowOps
    <3>2. ~Saturates(op, x)
      BY <3>1 DEF Saturates
    <3> QED BY <3>1, <3>2, Zenon DEF Returns, v
  <2>2. /\ Rounded("one_minus_pow_62", v) = AtLeast(ONE_62 - v - PAD_62, 0)
        /\ Rounded("pow_62_down", v) = AtLeast(v - PAD_62, 0)
    BY Zenon DEF Rounded, RawOps
  <2> QED BY <2>1, <2>2 DEF Ops62
<1>8. /\ AtLeast(ONE_62 - v - PAD_62, 0) \in 0 .. ONE_62 - 1
      /\ AtLeast(v - PAD_62, 0) \in 0 .. ONE_62 - 1
  BY <1>1, <1>6 DEF AtLeast
<1> QED BY <1>6, <1>7, <1>8 DEF v
-----------------------------------------------------------------------------
(***************************************************************************)
(* How the exp series varies with its argument.                            *)
(***************************************************************************)
\* The size of a term or a partial sum at index j of the alternating series.
Size(j, p) == IF j % 2 = 1 THEN p ELSE -p
Coeff(j) == IF j \in 1 .. Len(EXP_COEFF_62) THEN Size(j, EXP_COEFF_62[j]) ELSE 0

LEMMA CoeffFacts ==
  ASSUME NEW j \in 1 .. Len(EXP_COEFF_62)
  PROVE  /\ Coeff(j) = Size(j, EXP_COEFF_62[j]) /\ Coeff(j) \in 0 .. ONE_62
         /\ Coeff(j + 1) \in 0 .. ONE_62
         /\ j >= 2 => 10 * ONE_62 * Coeff(j) >= 14 * ONE_62 * Coeff(j + 1) + 10 * ONE_62
                      \/ j = Len(EXP_COEFF_62)
<1> DEFINE n == Len(EXP_COEFF_62)
           c(i) == EXP_COEFF_62[i]
<1>1. /\ n \in Nat /\ ONE_62 \in Nat /\ j \in Nat
      /\ \A i \in 1 .. n : c(i) \in -ONE_62 .. ONE_62
  BY Tables, ScaleFacts
<1>2. \A i \in 1 .. n : IF i % 2 = 1 THEN c(i) >= 0 ELSE c(i) <= 0
  BY ExponentialAssumption
<1>3. \A i \in 2 .. n - 1 :
        IF i % 2 = 1 THEN 10 * c(i) >= 10 - 14 * c(i + 1) ELSE -10 * c(i) >= 10 + 14 * c(i + 1)
  BY SeamAssumption
<1> HIDE DEF n, c
<1>4. \A i \in 1 .. n : Size(i, c(i)) \in 0 .. ONE_62
  BY <1>1, <1>2 DEF Size
<1>5. Coeff(j) = Size(j, c(j)) /\ Coeff(j + 1) = IF j + 1 \in 1 .. n THEN Size(j + 1, c(j + 1)) ELSE 0
  BY <1>1 DEF Coeff, n, c
<1>6. Coeff(j) \in 0 .. ONE_62 /\ Coeff(j + 1) \in 0 .. ONE_62
  BY <1>1, <1>4, <1>5 DEF n
<1>7. ASSUME j >= 2, j # n PROVE 10 * Coeff(j) >= 14 * Coeff(j + 1) + 10
  <2>1. j \in 2 .. n - 1 /\ j + 1 \in 1 .. n /\ ((j + 1) % 2 = 1 <=> ~(j % 2 = 1))
    BY <1>1, <1>7 DEF n
  <2>2. c(j) \in Int /\ c(j + 1) \in Int
    BY <1>1, <2>1
  <2> QED BY <1>3, <1>5, <2>1, <2>2 DEF Size
<1>8. ASSUME j >= 2, j # n
      PROVE  10 * ONE_62 * Coeff(j) >= 14 * ONE_62 * Coeff(j + 1) + 10 * ONE_62
  <2> DEFINE a == Coeff(j)
             b == Coeff(j + 1)
             W == ONE_62
  <2>1. a \in Nat /\ b \in Nat /\ W \in Nat /\ 10 * a >= 14 * b + 10
    BY <1>1, <1>6, <1>7, <1>8
  <2> HIDE DEF a, b, W
  <2>2. W * (10 * a) >= W * (14 * b + 10)
    BY <2>1
  <2>3. 10 * W * a >= 14 * W * b + 10 * W
    BY <2>1, <2>2
  <2> QED BY <2>3 DEF a, b, W
<1> QED BY <1>5, <1>6, <1>8 DEF n, c

\* The size of a partial sum is that of its first term at most.
LEMMA SumSize ==
  ASSUME NEW j \in 1 .. Len(EXP_COEFF_62), NEW p, ExpSum(j, p)
  PROVE  Size(j, p) \in 0 .. Coeff(j) /\ p \in Int
<1>1. EXP_COEFF_62[j] \in -ONE_62 .. ONE_62 /\ ONE_62 \in Nat
  BY Tables, ScaleFacts
<1> QED BY <1>1, CoeffFacts DEF ExpSum, Size

\* One iteration at two arguments: the rounding costs less than a unit.
LEMMA RoundingGap ==
  ASSUME NEW j \in 1 .. Len(EXP_COEFF_62) - 1,
         NEW p, ExpSum(j + 1, p), NEW r, ExpSum(j + 1, r), NEW v \in Nat, NEW z \in Nat
  PROVE  LET b == Size(j + 1, p)
             d == Size(j + 1, r)
             B == Size(j, HornerStep(EXP_COEFF_62[j], p, v))
             D == Size(j, HornerStep(EXP_COEFF_62[j], r, z))
         IN  /\ B \in Int /\ D \in Int /\ b \in Nat /\ d \in Nat
             /\ ONE_62 * (B - D) < d * z - b * v + ONE_62
             /\ ONE_62 * Coeff(j) < ONE_62 * B + b * v + ONE_62
<1> DEFINE W == ONE_62
           c == EXP_COEFF_62[j]
           P == p * v
           R == r * z
           x == P \div W
           y == R \div W
<1>1. W \in Nat /\ W > 0 /\ j \in Nat /\ j \in 1 .. Len(EXP_COEFF_62) /\ j + 1 \in 1 .. Len(EXP_COEFF_62)
  BY Tables, ScaleFacts
<1>2. c \in Int /\ Coeff(j) = Size(j, c)
  BY <1>1, Tables, CoeffFacts
<1>3. p \in Int /\ r \in Int /\ Size(j + 1, p) \in Nat /\ Size(j + 1, r) \in Nat
  <2>1. Coeff(j + 1) \in Nat
    BY <1>1, CoeffFacts
  <2> QED BY <1>1, <2>1, SumSize
<1>4. HornerStep(c, p, v) = c + x /\ HornerStep(c, r, z) = c + y
  BY DEF HornerStep, Shr, ONE_62
<1>5. P \in Int /\ R \in Int
  BY <1>3
<1>6. x \in Int /\ W * x <= P /\ P < W * x + W /\ y \in Int /\ W * y <= R /\ R < W * y + W
  <2> HIDE DEF P, R, W
  <2> QED BY <1>1, <1>5, DivisionBounds
<1>7. (j + 1) % 2 = 1 <=> ~(j % 2 = 1)
  BY <1>1
<1> DEFINE b == Size(j + 1, p)
           d == Size(j + 1, r)
           B == Size(j, HornerStep(c, p, v))
           D == Size(j, HornerStep(c, r, z))
<1> HIDE DEF x, y, c, W
<1> DEFINE Gap == /\ B \in Int /\ D \in Int /\ W * (B - D) < d * z - b * v + W
                 /\ W * Coeff(j) < W * B + b * v + W
<1>8. ASSUME j % 2 = 1 PROVE Gap
  <2>1. /\ Size(j, c + x) = c + x /\ Size(j, c + y) = c + y /\ Coeff(j) = c
        /\ Size(j + 1, p) = -p /\ Size(j + 1, r) = -r
    BY <1>2, <1>7, <1>8 DEF Size
  <2>2. (-p) * v = -P /\ (-r) * z = -R
    BY <1>3
  <2> HIDE DEF P, R
  <2>3. W * ((c + x) - (c + y)) = W * x - W * y /\ W * (c + x) = W * c + W * x
        /\ W * c \in Int /\ W * x \in Int /\ W * y \in Int
    BY <1>1, <1>2, <1>6
  <2>4. W * ((c + x) - (c + y)) < (-r) * z - (-p) * v + W
    BY <1>1, <1>5, <1>6, <2>2, <2>3
  <2>5. W * c < W * (c + x) + (-p) * v + W
    BY <1>1, <1>5, <1>6, <2>2, <2>3
  <2>6. B \in Int /\ D \in Int /\ W * (B - D) < d * z - b * v + W
        /\ W * Coeff(j) < W * B + b * v + W
    BY <1>2, <1>4, <1>6, <2>1, <2>4, <2>5
  <2> QED BY <2>6
<1>9. ASSUME ~(j % 2 = 1) PROVE Gap
  <2>1. /\ Size(j, c + x) = -(c + x) /\ Size(j, c + y) = -(c + y) /\ Coeff(j) = -c
        /\ Size(j + 1, p) = p /\ Size(j + 1, r) = r
    BY <1>2, <1>7, <1>9 DEF Size
  <2>2. p * v = P /\ r * z = R
    OBVIOUS
  <2> HIDE DEF P, R
  <2>3. W * ((-(c + x)) - (-(c + y))) = W * y - W * x /\ W * (-(c + x)) = -(W * c) - W * x
        /\ W * (-c) = -(W * c) /\ W * c \in Int /\ W * x \in Int /\ W * y \in Int
    BY <1>1, <1>2, <1>6
  <2>4. W * ((-(c + x)) - (-(c + y))) < r * z - p * v + W
    BY <1>1, <1>5, <1>6, <2>2, <2>3
  <2>5. W * (-c) < W * (-(c + x)) + p * v + W
    BY <1>1, <1>5, <1>6, <2>2, <2>3
  <2>6. B \in Int /\ D \in Int /\ W * (B - D) < d * z - b * v + W
        /\ W * Coeff(j) < W * B + b * v + W
    BY <1>2, <1>4, <1>6, <2>1, <2>4, <2>5
  <2> QED BY <2>6
<1>10. Gap
  <2> HIDE DEF Gap
  <2> QED BY <1>8, <1>9
<1> QED BY <1>3, <1>10 DEF W, c

\* What the partial sums p and r of index j at v and z, v <= z, have to do
\* with each other: the later is not much larger, nor much smaller.
Follows(j, p, r, v, z) ==
  LET b == Size(j, p)
      d == Size(j, r)
  IN  /\ ExpSum(j, p) /\ ExpSum(j, r)
      /\ d <= b + 4
      /\ ONE_62 * (b - d) <= Coeff(j + 1) * (z - v) + 4 * ONE_62
      /\ ONE_62 * Coeff(j) <= ONE_62 * d + Coeff(j + 1) * z + ONE_62

\* The next term's product grows nearly with its argument.
LEMMA ProductsNear ==
  ASSUME NEW W \in Nat, NEW b \in Nat, NEW d \in Nat, NEW e \in Nat,
         NEW v \in Nat, NEW g \in Nat,
         W * d >= e * v, W * (b - d) <= e * g + 4 * W
  PROVE  W * (b * v - d * (v + g)) <= W * (4 * v) - (W * d - e * v) * g
<1>1. (W * (b - d)) * v <= (e * g + 4 * W) * v
  BY SMT
<1>2. W * (b * v - d * (v + g)) = (W * (b - d)) * v - (W * d) * g
  BY SMT
<1>3. (e * g + 4 * W) * v - (W * d) * g = W * (4 * v) - (W * d - e * v) * g
  BY SMT
<1> DEFINE A == (W * (b - d)) * v
           B == (e * g + 4 * W) * v
           C == (W * d) * g
<1>4. A \in Int /\ B \in Int /\ C \in Int /\ A <= B
  BY <1>1
<1>5. A - C <= B - C
  <2> HIDE DEF A, B, C
  <2> QED BY <1>4
<1> QED BY <1>2, <1>3, <1>5

\* A partial sum from the second index on outweighs the product of the next
\* term, whatever the argument.
LEMMA SumOutweighs ==
  ASSUME NEW j \in 2 .. Len(EXP_COEFF_62), NEW p, NEW r, NEW v \in 0 .. LN2_62 - 1,
         NEW z \in 0 .. LN2_62 - 1, Follows(j, p, r, v, z)
  PROVE  ONE_62 * Size(j, r) >= Coeff(j + 1) * v
<1> DEFINE W == ONE_62
           C == Coeff(j)
           E == Coeff(j + 1)
           d == Size(j, r)
<1>1. W \in Nat /\ W > 0 /\ j \in Nat /\ Len(EXP_COEFF_62) \in Nat /\ j \in 1 .. Len(EXP_COEFF_62) /\ j >= 2
  BY ScaleFacts, Tables
<1>2. v \in Nat /\ z \in Nat /\ 10 * v <= 7 * W /\ 10 * z <= 7 * W
  BY <1>1, LogarithmAssumption
<1>3. C \in Nat /\ E \in Nat /\ d \in Nat
  <2>1. d \in 0 .. C
    BY <1>1, SumSize DEF Follows
  <2> QED BY <1>1, <2>1, CoeffFacts
<1>4. W * C <= W * d + E * z + W
  BY DEF Follows
<1>5. CASE j = Len(EXP_COEFF_62)
  <2>1. E = 0
    BY <1>1, <1>5 DEF Coeff
  <2> HIDE DEF E, W, d
  <2> QED BY <1>1, <1>2, <1>3, <2>1 DEF E, W, d
<1>6. CASE j # Len(EXP_COEFF_62)
  <2>1. 10 * W * C >= 14 * W * E + 10 * W
    BY <1>1, <1>6, CoeffFacts
  <2> HIDE DEF E, W, d, C
  <2>2. E * (10 * v) <= E * (7 * W) /\ E * (10 * z) <= E * (7 * W)
    BY <1>1, <1>2, <1>3
  <2> DEFINE wc == W * C
             wd == W * d
             we == W * E
             ev == E * v
             ez == E * z
  <2>3. /\ wc \in Int /\ wd \in Int /\ we \in Int /\ ev \in Int /\ ez \in Int
        /\ 10 * wc >= 14 * we + 10 * W /\ wc <= wd + ez + W
        /\ 10 * ev <= 7 * we /\ 10 * ez <= 7 * we
    BY <1>1, <1>2, <1>3, <1>4, <2>1, <2>2
  <2> HIDE DEF wc, wd, we, ev, ez
  <2>4. wd >= ev
    BY <1>1, <2>3
  <2> QED BY <2>4 DEF wd, ev, W, d, E
<1> QED BY <1>5, <1>6

LEMMA FollowsStarts ==
  ASSUME NEW v \in 0 .. LN2_62 - 1, NEW z \in 0 .. LN2_62 - 1, v <= z
  PROVE  LET n == Len(EXP_COEFF_62)
         IN  Follows(n, EXP_COEFF_62[n], EXP_COEFF_62[n], v, z)
<1> DEFINE n == Len(EXP_COEFF_62)
           C == Coeff(n)
           E == Coeff(n + 1)
           W == ONE_62
<1>1. W \in Nat /\ n \in Nat /\ n \in 1 .. Len(EXP_COEFF_62)
  BY ScaleFacts, Tables
<1>2. C = Size(n, EXP_COEFF_62[n]) /\ C \in Nat
  BY <1>1, CoeffFacts
<1>3. E = 0
  BY <1>1 DEF Coeff
<1>4. v \in Nat /\ z \in Nat
  BY LogarithmAssumption
<1>5. ExpSum(n, EXP_COEFF_62[n])
  BY ExpSumStarts
<1> DEFINE c == EXP_COEFF_62[n]
<1> HIDE DEF n, C, E, W, c
<1>6. Size(n, c) = C
  BY <1>2 DEF c
<1>7. /\ C <= C + 4 /\ W * (C - C) <= E * (z - v) + 4 * W
      /\ W * C <= W * C + E * z + W
  BY <1>1, <1>2, <1>3, <1>4
<1>8. Follows(n, c, c, v, z)
  BY <1>5, <1>6, <1>7 DEF Follows, C, E, W, c
<1> QED BY <1>8 DEF n, c

LEMMA FollowsStep ==
  ASSUME NEW j \in 1 .. Len(EXP_COEFF_62) - 1, NEW p, NEW r,
         NEW v \in 0 .. LN2_62 - 1, NEW z \in 0 .. LN2_62 - 1, v <= z,
         Follows(j + 1, p, r, v, z)
  PROVE  Follows(j, HornerStep(EXP_COEFF_62[j], p, v), HornerStep(EXP_COEFF_62[j], r, z), v, z)
<1> DEFINE W == ONE_62
           C == Coeff(j + 1)
           e == Coeff(j + 2)
           b == Size(j + 1, p)
           d == Size(j + 1, r)
           P == HornerStep(EXP_COEFF_62[j], p, v)
           R == HornerStep(EXP_COEFF_62[j], r, z)
           B == Size(j, P)
           D == Size(j, R)
           g == z - v
<1>1. /\ W \in Nat /\ W > 0 /\ j \in Nat /\ (j + 1) + 1 = j + 2
      /\ j + 1 \in 2 .. Len(EXP_COEFF_62) /\ j + 1 \in 1 .. Len(EXP_COEFF_62)
  BY ScaleFacts, Tables
<1>2. v \in Nat /\ z \in Nat /\ g \in Nat /\ z = v + g /\ 10 * v <= 7 * W /\ 10 * z <= 7 * W
  BY <1>1, LogarithmAssumption
<1>3. ExpSum(j + 1, p) /\ ExpSum(j + 1, r)
  BY DEF Follows
<1>4. ExpSum(j, P) /\ ExpSum(j, R)
  BY <1>3, ExpHornerAlternates
<1>5. b \in 0 .. C /\ d \in 0 .. C /\ C \in Nat /\ e \in Nat
  BY <1>1, <1>3, SumSize, CoeffFacts
<1>6. W * d >= e * v /\ W * (b - d) <= e * g + 4 * W /\ d <= b + 4
  <2>1. W * d >= e * v
    BY <1>1, SumOutweighs
  <2> QED BY <1>1, <2>1 DEF Follows
<1>7. /\ B \in Int /\ D \in Int
      /\ W * (B - D) < d * z - b * v + W
      /\ W * (D - B) < b * v - d * z + W
      /\ W * Coeff(j) < W * D + d * z + W
  BY <1>2, <1>3, RoundingGap
<1> HIDE DEF W, C, e, b, d, P, R, B, D, g
<1>8. W * (b * v - d * (v + g)) <= W * (4 * v) - (W * d - e * v) * g
  BY <1>1, <1>2, <1>5, <1>6, ProductsNear
<1>9. b * v - d * z <= 4 * v
  <2>1. (W * d - e * v) * g >= 0
    <3>1. W * d - e * v \in Nat
      BY <1>1, <1>2, <1>5, <1>6
    <3> QED BY <1>2, <3>1
  <2> DEFINE q == b * v - d * z
             s == (W * d - e * v) * g
             m == W * (4 * v)
  <2>2. q \in Int /\ s \in Int /\ m \in Int /\ W * q <= m - s /\ m < W * (4 * v + 1)
    <3>1. W * (4 * v + 1) = W * (4 * v) + W
      BY <1>1, <1>2
    <3> QED BY <1>1, <1>2, <1>5, <1>8, <3>1
  <2>3. W * q < W * (4 * v + 1)
    <3>1. W * q \in Int /\ W * (4 * v + 1) \in Int
      BY <1>1, <1>2, <2>2
    <3> HIDE DEF q, s, m
    <3> QED BY <2>1, <2>2, <3>1 DEF s
  <2>4. q <= 4 * v
    <3> HIDE DEF q
    <3> QED BY <1>1, <1>2, <2>2, <2>3, Cancel
  <2> QED BY <2>4
<1>10. D <= B + 4
  <2> DEFINE q == b * v - d * z
  <2>1. q \in Int /\ q <= 4 * v /\ W * (D - B) < q + W
    BY <1>2, <1>5, <1>7, <1>9
  <2> HIDE DEF q
  <2>2. 10 * (W * (D - B)) < 10 * (W * 4)
    <3>1. W * (D - B) \in Int
      BY <1>1, <1>7
    <3> QED BY <1>1, <1>2, <2>1, <3>1
  <2>3. W * (D - B) < W * (3 + 1)
    <3>1. W * (D - B) \in Int
      BY <1>1, <1>7
    <3> QED BY <1>1, <2>2, <3>1
  <2>4. D - B <= 3
    <3>1. D - B \in Int
      BY <1>7
    <3> QED BY <1>1, <2>3, <3>1, Cancel
  <2> QED BY <1>7, <2>4
<1>11. W * (B - D) <= C * g + 4 * W
  <2>1. d * z <= (b + 4) * z /\ b * g <= C * g
    BY <1>2, <1>5, <1>6
  <2>2. (b + 4) * z - b * v = b * g + 4 * z
    BY <1>2, <1>5
  <2> DEFINE dz == d * z
             bv == b * v
             bz == (b + 4) * z
             bg == b * g
             cg == C * g
             wb == W * (B - D)
  <2>3. /\ dz \in Int /\ bv \in Int /\ bz \in Int /\ bg \in Int /\ cg \in Int /\ wb \in Int
        /\ dz <= bz /\ bg <= cg /\ bz - bv = bg + 4 * z /\ wb < dz - bv + W
    BY <1>1, <1>2, <1>5, <1>7, <2>1, <2>2
  <2> HIDE DEF dz, bv, bz, bg, cg, wb
  <2>4. wb <= cg + 4 * W
    BY <1>1, <1>2, <2>3
  <2> QED BY <2>4 DEF wb, cg
<1>12. W * Coeff(j) <= W * D + C * z + W
  <2>1. d * z <= C * z
    BY <1>2, <1>5
  <2>2. Coeff(j) \in Int
    BY <1>1, CoeffFacts
  <2>3. W * Coeff(j) \in Int /\ W * D \in Int /\ d * z \in Int /\ C * z \in Int
    BY <1>1, <1>2, <1>5, <1>7, <2>2
  <2> QED BY <1>1, <1>7, <2>1, <2>3
<1>13. Follows(j, P, R, v, z)
  BY <1>4, <1>10, <1>11, <1>12 DEF Follows, B, D, W, C, g
<1> QED BY <1>13 DEF P, R

\* The guard bits in units.
LEMMA GuardFacts == GUARD >= 64 /\ ONE_62 >= 128 /\ GUARD \in Nat /\ ONE_62 \in Nat
<1>1. /\ SCALE \in Nat /\ LN_SCALE \in Nat /\ LN_SCALE - SCALE \in Nat /\ 6 <= LN_SCALE - SCALE
      /\ LN_SCALE - SCALE <= WIDTH /\ 6 \in Nat /\ WIDTH \in Nat
  BY ScaleAssumption, SeamAssumption, WidthAssumption
<1>2. 2^6 <= 2^(LN_SCALE - SCALE)
  BY <1>1, PowerMonotone
<1>3. 2^6 = 64
  <2>1. \A n \in 0 .. 5 : 2^(n + 1) = 2 * 2^n
    BY <1>1, PowerAssumption
  <2>2. /\ 2^(0 + 1) = 2 * 2^0 /\ 2^(1 + 1) = 2 * 2^1 /\ 2^(2 + 1) = 2 * 2^2
        /\ 2^(3 + 1) = 2 * 2^3 /\ 2^(4 + 1) = 2 * 2^4 /\ 2^(5 + 1) = 2 * 2^5
    BY <2>1
  <2>3. 0 + 1 = 1 /\ 1 + 1 = 2 /\ 2 + 1 = 3 /\ 3 + 1 = 4 /\ 4 + 1 = 5 /\ 5 + 1 = 6
    OBVIOUS
  <2> QED BY <2>2, <2>3, PowerAssumption
<1>4. GUARD >= 64
  BY <1>2, <1>3 DEF GUARD
<1> QED BY <1>4, ScaleFacts

\* The partial sums of index 2 of exp_inner's series at two arguments, and
\* what the last iteration makes of them.
LEMMA ExpFollows ==
  ASSUME NEW v \in 0 .. LN2_62 - 1, NEW z \in 0 .. LN2_62 - 1, v <= z
  PROVE  LET F(x) == Horner(EXP_COEFF_62, x)
         IN  \E p, r : /\ Follows(2, p, r, v, z) /\ Follows(1, F(v), F(z), v, z)
                       /\ F(v) = HornerStep(ONE_62, p, v)
                       /\ F(z) = HornerStep(ONE_62, r, z)
<1> DEFINE table == EXP_COEFF_62
           n == Len(table)
<1>1. n \in Nat /\ n >= 3 /\ table[1] = ONE_62
  BY Tables, SeamAssumption, ExponentialAssumption
<1>2. PICK f : Horner(table, v) = f[1] /\ PartialSums(table, v, f)
  BY <1>1, HornerUnfolds
<1>3. PICK h : Horner(table, z) = h[1] /\ PartialSums(table, z, h)
  BY <1>1, HornerUnfolds
<1>4. /\ f[n] = table[n] /\ h[n] = table[n]
      /\ \A i \in 1 .. n - 1 : /\ f[i] = HornerStep(table[i], f[i + 1], v)
                               /\ h[i] = HornerStep(table[i], h[i + 1], z)
  BY <1>2, <1>3 DEF PartialSums
<1> DEFINE Good(i) == Follows(i, f[i], h[i], v, z)
<1>5. Good(n)
  BY <1>4, FollowsStarts
<1>6. \A i \in 1 .. n - 1 : Good(i + 1) => Good(i)
  BY <1>4, FollowsStep
<1> HIDE DEF table, n, Good
<1> DEFINE T == {d \in 0 .. n - 1 : ~Good(n - d)}
<1>7. T = {}
  <2> SUFFICES ASSUME T # {} PROVE FALSE
    OBVIOUS
  <2>1. T \subseteq Nat
    OBVIOUS
  <2>2. PICK d \in T : \A y \in T : d <= y
    <3> HIDE DEF T
    <3> QED BY <2>1, LeastElement
  <2>3. d \in 0 .. n - 1 /\ ~Good(n - d) /\ d # 0
    <3>1. d \in 0 .. n - 1 /\ ~Good(n - d)
      BY <2>2
    <3>2. n - 0 = n
      BY <1>1
    <3> QED BY <3>1, <3>2, <1>5
  <2>4. d - 1 \in 0 .. n - 1 /\ d - 1 \notin T
    <3>1. d \in Nat /\ d - 1 \in 0 .. n - 1
      BY <2>3, <1>1
    <3> HIDE DEF T
    <3>2. ~(d <= d - 1)
      BY <3>1
    <3> QED BY <2>2, <3>1, <3>2
  <2>5. Good(n - (d - 1))
    BY <2>4
  <2>6. n - d \in 1 .. n - 1 /\ n - (d - 1) = (n - d) + 1
    BY <1>1, <2>3
  <2> QED BY <1>6, <2>3, <2>5, <2>6
<1>8. ASSUME NEW i \in 1 .. n PROVE Good(i)
  <2>1. n - i \in 0 .. n - 1 /\ n - (n - i) = i
    BY <1>1
  <2>2. Good(n - (n - i))
    BY <1>7, <2>1
  <2> QED BY <2>1, <2>2
<1>9. Good(1) /\ Good(2) /\ 1 \in 1 .. n - 1 /\ 1 + 1 = 2
  BY <1>1, <1>8
<1>10. f[1] = HornerStep(ONE_62, f[2], v) /\ h[1] = HornerStep(ONE_62, h[2], z)
  BY <1>1, <1>4, <1>9
<1>11. Follows(2, f[2], h[2], v, z) /\ Follows(1, f[1], h[1], v, z)
  BY <1>9 DEF Good
<1> QED BY <1>2, <1>3, <1>10, <1>11 DEF table

\* How the sizes b and d of those partial sums compare, with 1 - v/2 as the
\* least slope.
LEMMA SlopeBound ==
  ASSUME NEW W \in Nat, NEW b \in Nat, NEW d \in Nat, NEW e \in Nat,
         NEW v \in Nat, NEW g \in Nat, W > 0, 2 * e <= W,
         W * d >= e * v, W * (b - d) <= e * g + 4 * W,
         W * W <= W * d + e * (v + g) + W
  PROVE  2 * (b * v - d * (v + g)) <= 8 * v - (2 * (W - 1) - (2 * v + g)) * g
<1> DEFINE q == b * v - d * (v + g)
           s == W * d - e * v
           k == 2 * (W - 1) - (2 * v + g)
<1>1. W * q <= W * (4 * v) - s * g
  BY ProductsNear
<1>2. q \in Int /\ s \in Int /\ k \in Int
  BY SMT
<1>3. 2 * s >= W * k
  <2>1. (2 * e) * (2 * v + g) <= W * (2 * v + g)
    BY SMT
  <2>2. (2 * e) * (2 * v + g) = 2 * (e * (v + g)) + 2 * (e * v)
    BY SMT
  <2>3. W * k = 2 * (W * W) - 2 * W - W * (2 * v + g)
    BY SMT
  <2> DEFINE ww == W * W
             wd == W * d
             ez == e * (v + g)
             ev == e * v
             wz == W * (2 * v + g)
  <2>4. /\ ww \in Int /\ wd \in Int /\ ez \in Int /\ ev \in Int /\ wz \in Int
        /\ ww <= wd + ez + W /\ 2 * ez + 2 * ev <= wz
    BY <2>1, <2>2
  <2>5. W * k = 2 * ww - 2 * W - wz /\ s = wd - ev
    BY <2>3
  <2> HIDE DEF ww, wd, ez, ev, wz, s, k
  <2> QED BY <2>4, <2>5
<1> HIDE DEF q, s, k
<1>4. (2 * s) * g >= (W * k) * g
  BY <1>2, <1>3
<1>5. W * (2 * q) <= W * (8 * v - k * g)
  <2>1. W * (2 * q) = 2 * (W * q) /\ (2 * s) * g = 2 * (s * g)
        /\ W * (8 * v - k * g) = 2 * (W * (4 * v)) - (W * k) * g
    BY <1>2
  <2>2. W * q \in Int /\ s * g \in Int /\ (W * k) * g \in Int /\ W * (4 * v) \in Int
    BY <1>2
  <2> QED BY <1>1, <1>4, <2>1, <2>2
<1>6. W * (2 * q) < W * ((8 * v - k * g) + 1)
  <2>1. W * ((8 * v - k * g) + 1) = W * (8 * v - k * g) + W /\ W * (8 * v - k * g) \in Int
        /\ W * (2 * q) \in Int
    BY <1>2
  <2> QED BY <1>5, <2>1
<1>7. 2 * q <= 8 * v - k * g
  <2>1. 8 * v - k * g \in Int /\ 2 * q \in Int
    BY <1>2
  <2> QED BY <1>6, <2>1, Cancel
<1> QED BY <1>7 DEF q, k

\* exp_inner's series before the final shift.
Series(v) == Horner(EXP_COEFF_62, v)

\* The series falls with its argument: within four units always, not at all
\* against a step that outweighs them, and along a chord of slope 0.29 below.
LEMMA ExpSlope ==
  ASSUME NEW v \in 0 .. LN2_62 - 1, NEW z \in 0 .. LN2_62 - 1, v <= z
  PROVE  /\ Series(v) \in 0 .. ONE_62 /\ Series(z) \in 0 .. ONE_62
         /\ Series(z) <= Series(v) + 4
         /\ 8 * v <= (2 * (ONE_62 - 1) - (v + z)) * (z - v) => Series(z) <= Series(v)
         /\ 100 * (Series(z) - Series(v)) < 380 - 29 * (z - v)
         /\ 100 * Series(z) <= 100 * ONE_62 - 64 * z
<1> DEFINE W == ONE_62
           e == Coeff(3)
           g == z - v
           x == Series(v)
           y == Series(z)
<1>1. W \in Nat /\ W >= 128 /\ 2 \in 1 .. Len(EXP_COEFF_62) /\ 3 \in 1 .. Len(EXP_COEFF_62)
      /\ 1 \in 1 .. Len(EXP_COEFF_62) /\ 2 \in 2 .. Len(EXP_COEFF_62)
  BY GuardFacts, Tables, SeamAssumption
<1>2. v \in Nat /\ z \in Nat /\ g \in Nat /\ z = v + g /\ 10 * v <= 7 * W /\ 10 * z <= 7 * W
  BY <1>1, LogarithmAssumption
<1>3. e \in Nat /\ 2 * e <= W /\ Coeff(2) = W
  <2>1. Coeff(3) = Size(3, EXP_COEFF_62[3]) /\ Coeff(3) \in Nat /\ Coeff(2) = Size(2, EXP_COEFF_62[2])
    BY <1>1, CoeffFacts
  <2>2. 3 % 2 = 1 /\ 2 % 2 = 0
    OBVIOUS
  <2> QED BY <1>1, <2>1, <2>2, SeamAssumption DEF Size
<1>4. x \in 0 .. W /\ y \in 0 .. W
  BY ExpHornerSum DEF Series
<1>5. PICK p, r : /\ Follows(2, p, r, v, z) /\ Follows(1, x, y, v, z)
                  /\ x = HornerStep(W, p, v) /\ y = HornerStep(W, r, z)
  BY ExpFollows DEF Series
<1> DEFINE b == -p
           d == -r
<1>6. /\ Size(2, p) = b /\ Size(2, r) = d /\ p = -b /\ r = -d /\ b \in Nat /\ d \in Nat
  <2>1. Size(2, p) \in 0 .. Coeff(2) /\ p \in Int /\ Size(2, r) \in 0 .. Coeff(2) /\ r \in Int
    BY <1>1, <1>5, SumSize DEF Follows
  <2>2. 2 % 2 = 0
    OBVIOUS
  <2> QED BY <1>1, <1>3, <2>1, <2>2 DEF Size
<1>7. W * d >= e * v /\ W * (b - d) <= e * g + 4 * W /\ W * W <= W * d + e * z + W
  <2>1. ONE_62 * Size(2, r) >= Coeff(2 + 1) * v
    BY <1>1, <1>5, SumOutweighs
  <2>2. 2 + 1 = 3
    OBVIOUS
  <2> QED BY <1>3, <1>5, <1>6, <2>1, <2>2 DEF Follows
<1>8. y <= x + 4
  <2>1. Size(1, x) = x /\ Size(1, y) = y
    BY DEF Size
  <2> QED BY <1>5, <2>1 DEF Follows
<1>9. x = W + ((-b) * v) \div W /\ y = W + ((-d) * z) \div W
  BY <1>5, <1>6 DEF HornerStep, Shr, ONE_62
<1> DEFINE bv == b * v
           dz == d * z
           K == (2 * (W - 1) - (2 * v + g)) * g
<1>10. (-b) * v = -bv /\ (-d) * z = -dz /\ bv \in Nat /\ dz \in Nat /\ K \in Int
  BY <1>1, <1>2, <1>6
<1>11. 2 * (bv - dz) <= 8 * v - K
  <2>1. /\ W * d >= e * v /\ W * (b - d) <= e * g + 4 * W /\ 2 * e <= W
        /\ W * W <= W * d + e * (v + g) + W /\ W > 0
    BY <1>1, <1>2, <1>3, <1>7
  <2>2. W \in Nat /\ b \in Nat /\ d \in Nat /\ e \in Nat /\ v \in Nat /\ g \in Nat
    BY <1>1, <1>2, <1>3, <1>6
  <2> HIDE DEF W, b, d, e, g
  <2>3. 2 * (b * v - d * (v + g)) <= 8 * v - (2 * (W - 1) - (2 * v + g)) * g
    BY <2>1, <2>2, SlopeBound
  <2>4. d * z = d * (v + g)
    BY <1>2
  <2> QED BY <2>3, <2>4
<1>12. 64 * z * W <= 100 * dz
  <2>1. 64 * W <= 100 * d
    <3>1. (2 * e) * (10 * z) <= W * (7 * W)
      BY <1>1, <1>2, <1>3, ProductBound
    <3> DEFINE ez == e * z
               ww == W * W
               wd == W * d
    <3>2. ez \in Nat /\ ww \in Nat /\ wd \in Nat /\ 20 * ez <= 7 * ww /\ ww <= wd + ez + W
      <4>1. W \in Nat /\ e \in Nat /\ z \in Nat /\ d \in Nat
        BY <1>1, <1>2, <1>3, <1>6
      <4> HIDE DEF W, e, d
      <4>2. ez \in Nat /\ ww \in Nat /\ wd \in Nat
        BY <4>1
      <4>3. (2 * e) * (10 * z) = 20 * ez /\ W * (7 * W) = 7 * ww
        BY <4>1
      <4>4. ww <= wd + ez + W
        BY <1>7
      <4> QED BY <3>1, <4>2, <4>3, <4>4
    <3>3. ww >= 128 * W
      BY <1>1
    <3>4. 100 * wd >= 64 * ww
      <4> HIDE DEF ez, ww, wd
      <4> QED BY <1>1, <3>2, <3>3
    <3>5. W * (64 * W) < W * (100 * d + 1)
      <4>1. W * (64 * W) = 64 * ww /\ W * (100 * d + 1) = 100 * wd + W
        BY <1>1, <1>6
      <4> QED BY <1>1, <3>2, <3>4, <4>1
    <3>6. 64 * W \in Int /\ 100 * d \in Int
      BY <1>1, <1>6
    <3> QED BY <1>1, <3>5, <3>6, Cancel
  <2>2. (64 * W) * z <= (100 * d) * z
    BY <1>1, <1>2, <1>6, <2>1
  <2> QED BY <1>1, <1>2, <1>6, <2>2
<1> HIDE DEF bv, dz, b, d, x, y, e
<1> DEFINE X == (-bv) \div W
           Y == (-dz) \div W
<1>13. /\ X \in Int /\ Y \in Int /\ x = W + X /\ y = W + Y
       /\ W * X <= -bv /\ -bv < W * X + W /\ W * Y <= -dz /\ -dz < W * Y + W
  <2>1. -bv \in Int /\ -dz \in Int /\ W > 0
    BY <1>1, <1>10
  <2> HIDE DEF W
  <2>2. X \in Int /\ Y \in Int
       /\ W * X <= -bv /\ -bv < W * X + W /\ W * Y <= -dz /\ -dz < W * Y + W
    BY <1>1, <2>1, DivisionBounds
  <2> QED BY <1>9, <1>10, <2>2
<1> HIDE DEF X, Y, W, g, K
<1>14. W * X \in Int /\ W * Y \in Int
  BY <1>1, <1>13
<1>15. ASSUME 8 * v <= K PROVE y <= x
  <2>1. dz >= bv
    BY <1>2, <1>10, <1>11, <1>15
  <2>2. W * Y < W * (X + 1)
    <3>1. W * (X + 1) = W * X + W
      BY <1>1, <1>13
    <3> QED BY <1>1, <1>10, <1>13, <1>14, <2>1, <3>1
  <2>3. Y <= X
    BY <1>1, <1>13, <2>2, Cancel
  <2> QED BY <1>1, <1>13, <2>3
<1>16. 100 * (y - x) < 380 - 29 * g
  <2>1. 100 * K >= W * (58 * g)
    <3> DEFINE k == 2 * (W - 1) - (2 * v + g)
    <3>1. k \in Int /\ 100 * k >= 58 * W
      BY <1>1, <1>2
    <3> HIDE DEF k
    <3>2. (100 * k) * g >= (58 * W) * g
      BY <1>1, <1>2, <3>1
    <3>3. (100 * k) * g = 100 * (k * g) /\ (58 * W) * g = W * (58 * g)
      BY <1>1, <1>2, <3>1
    <3> QED BY <3>2, <3>3 DEF K, k, W
  <2>2. W * (200 * (Y - X)) = 200 * (W * Y - W * X) /\ W * ((759 - 58 * g) + 1) = 760 * W - W * (58 * g)
        /\ W * (58 * g) \in Int
    BY <1>1, <1>2, <1>13
  <2>3. W * (200 * (Y - X)) < W * ((759 - 58 * g) + 1)
    <3>1. W * Y - W * X < bv - dz + W
      BY <1>1, <1>10, <1>13, <1>14
    <3>2. 200 * (bv - dz) <= 800 * v - 100 * K
      BY <1>2, <1>10, <1>11
    <3> DEFINE wy == W * Y
               wx == W * X
               wg == W * (58 * g)
    <3>3. 200 * (wy - wx) < 760 * W - wg
      <4>1. wy \in Int /\ wx \in Int /\ wg \in Int /\ wy - wx < bv - dz + W /\ 100 * K >= wg
        BY <1>14, <2>1, <2>2, <3>1
      <4> HIDE DEF wy, wx, wg
      <4> QED BY <1>1, <1>2, <1>10, <3>2, <4>1
    <3> QED BY <2>2, <3>3
  <2>4. 200 * (Y - X) <= 759 - 58 * g
    <3>1. 200 * (Y - X) \in Int /\ 759 - 58 * g \in Int
      BY <1>2, <1>13
    <3> QED BY <1>1, <2>3, <3>1, Cancel
  <2> QED BY <1>1, <1>2, <1>13, <2>4
<1>17. 100 * y <= 100 * W - 64 * z
  <2>1. W * (100 * Y) = 100 * (W * Y) /\ W * ((-(64 * z)) + 1) = W - 64 * z * W
    BY <1>1, <1>2, <1>13
  <2>2. W * (100 * Y) < W * ((-(64 * z)) + 1)
    <3> DEFINE wy == W * Y
               wz == 64 * z * W
    <3>1. wy \in Int /\ wz \in Int /\ wz <= 100 * dz /\ wy <= -dz
      BY <1>1, <1>2, <1>12, <1>13, <1>14 DEF W
    <3>2. 100 * wy < W - wz
      <4> HIDE DEF wy, wz
      <4> QED BY <1>1, <1>10, <3>1
    <3> QED BY <2>1, <3>2
  <2>3. 100 * Y <= -(64 * z)
    <3>1. 100 * Y \in Int /\ -(64 * z) \in Int
      BY <1>2, <1>13
    <3> QED BY <1>1, <2>2, <3>1, Cancel
  <2> QED BY <1>1, <1>2, <1>13, <2>3
<1>18. (2 * (ONE_62 - 1) - (v + z)) * (z - v) = K
  <2>1. v + z = 2 * v + g
    BY <1>2
  <2> QED BY <2>1 DEF K, W, g
<1> QED BY <1>4, <1>8, <1>15, <1>16, <1>17, <1>18 DEF x, y, W, g
-----------------------------------------------------------------------------
(***************************************************************************)
(* How exp_inner varies with its argument.                                 *)
(***************************************************************************)
\* What fits w times below x is no more than the quotient.
LEMMA QuotientAbove ==
  ASSUME NEW w \in Nat, w > 0, NEW q \in Int, NEW x \in Int, w * q <= x
  PROVE  q <= x \div w /\ x \div w \in Int
<1> DEFINE X == x \div w
<1>1. X \in Int /\ w * X <= x /\ x < w * X + w
  BY DivisionBounds
<1> HIDE DEF X
<1>2. w * q < w * (X + 1)
  <2>1. w * (X + 1) = w * X + w /\ w * q \in Int /\ w * X \in Int
    BY <1>1
  <2> QED BY <1>1, <2>1
<1>3. q <= X
  BY <1>1, <1>2, Cancel
<1> QED BY <1>1, <1>3 DEF X

\* A floor follows its numerator up by no more than that grows.
LEMMA QuotientFollows ==
  ASSUME NEW w \in Nat, w > 0, NEW y \in Int, NEW x \in Int, NEW c \in Nat, y <= x + c
  PROVE  y \div w <= x \div w + c /\ y \div w \in Int /\ x \div w \in Int
<1> DEFINE Y == y \div w
           X == x \div w
<1>1. Y \in Int /\ w * Y <= y /\ X \in Int
  BY DivisionBounds
<1> HIDE DEF X, Y
<1>2. w * (Y - c) <= x
  <2>1. w * (Y - c) = w * Y - w * c /\ w * Y \in Int /\ w * c \in Int
    BY <1>1
  <2>2. w * c >= c
    BY SMT
  <2> QED BY <1>1, <2>1, <2>2
<1>3. Y - c <= X
  BY <1>1, <1>2, QuotientAbove DEF X
<1> QED BY <1>1, <1>3 DEF X, Y

\* exp_inner's range reduction and the final shift.
LEMMA ExpParts ==
  ASSUME NEW n \in Nat
  PROVE  LET k == n \div LN2_62
             s == n % LN2_62
         IN  /\ k \in Nat /\ s \in 0 .. LN2_62 - 1 /\ n = k * LN2_62 + s
             /\ k <= LN_SCALE => exp_inner[n] = Series(s) \div 2^k
             /\ k > LN_SCALE => exp_inner[n] = 0
<1>1. LN2_62 \in Nat /\ LN2_62 > 0
  BY GuardFacts, LogarithmAssumption
<1> DEFINE k == n \div LN2_62
           s == n % LN2_62
<1>2. k \in Nat /\ s \in 0 .. LN2_62 - 1 /\ n = k * LN2_62 + s
  <2>1. k \in Int /\ LN2_62 * k <= n /\ n < LN2_62 * k + LN2_62 /\ n = LN2_62 * k + s /\ s \in 0 .. LN2_62 - 1
    BY <1>1
  <2>2. k >= 0
    BY <1>1
  <2> QED BY <1>1, <2>1, <2>2
<1>3. exp_inner[n] = IF k > LN_SCALE THEN 0 ELSE Shr(Horner(EXP_COEFF_62, s), k)
  BY DEF exp_inner
<1> HIDE DEF k, s
<1>4. k <= LN_SCALE => exp_inner[n] = Series(s) \div 2^k
  BY <1>2, <1>3, ScaleAssumption DEF Shr, Series
<1>5. k > LN_SCALE => exp_inner[n] = 0
  BY <1>3
<1> QED BY <1>2, <1>4, <1>5 DEF k, s

\* A larger shift than k is at least twice it, or four times.
LEMMA ShiftGrows ==
  ASSUME NEW k \in Nat, NEW j \in Nat, k < j, j <= LN_SCALE
  PROVE  /\ 2^k \in Nat /\ 2^k > 0 /\ 2^j \in Nat /\ 2^j > 0
         /\ 2^(k + 1) = 2 * 2^k /\ 2 * 2^k <= 2^j
         /\ j >= k + 2 => 4 * 2^k <= 2^j
<1>1. WIDTH \in Nat /\ LN_SCALE \in Nat /\ LN_SCALE < WIDTH
  BY WidthAssumption, ScaleAssumption
<1>2. k \in 0 .. WIDTH - 1 /\ k + 1 \in 0 .. WIDTH - 1 /\ j \in 0 .. WIDTH /\ k \in 0 .. WIDTH
  BY <1>1
<1>3. 2^k \in Nat /\ 2^k > 0 /\ 2^j \in Nat /\ 2^j > 0 /\ 2^(k + 1) = 2 * 2^k
  BY <1>2, PowerAssumption, PowerPositive
<1>4. 2^(k + 1) <= 2^j
  BY <1>1, <1>2, PowerMonotone
<1>5. ASSUME j >= k + 2 PROVE 4 * 2^k <= 2^j
  <2>1. (k + 1) + 1 = k + 2 /\ k + 2 \in 0 .. WIDTH
    BY <1>1, <1>5
  <2>2. 2^((k + 1) + 1) = 2 * 2^(k + 1)
    BY <1>2, PowerAssumption, PowerPositive
  <2>3. 2^(k + 2) <= 2^j
    BY <1>1, <1>5, <2>1, PowerMonotone
  <2> QED BY <1>3, <2>1, <2>2, <2>3
<1> QED BY <1>3, <1>4, <1>5

\* Below a half, up to a few units: the series just before a shift.
LEMMA SeriesSeam ==
  ASSUME NEW v \in 0 .. LN2_62 - 1
  PROVE  /\ Series(v) \in 0 .. ONE_62 /\ 2 * Series(v) + 10 >= ONE_62
         /\ 200 * Series(v) + 960 > 100 * ONE_62 + 58 * (LN2_62 - 1 - v)
<1> DEFINE l == LN2_62 - 1
           A == Series(l)
           W == ONE_62
           x == Series(v)
<1>1. l \in 0 .. LN2_62 - 1 /\ v <= l /\ v \in Nat /\ l \in Nat /\ W \in Nat
  BY GuardFacts, LogarithmAssumption
<1>2. 2 * A + 2 >= W
  BY SeamAssumption DEF Series
<1>3. x \in 0 .. W /\ A \in 0 .. W /\ A <= x + 4 /\ 100 * (A - x) < 380 - 29 * (l - v)
  BY <1>1, ExpSlope
<1> HIDE DEF A, W, x, l
<1>4. x \in 0 .. W /\ 2 * x + 10 >= W /\ 200 * x + 960 > 100 * W + 58 * (l - v)
  BY <1>1, <1>2, <1>3
<1> QED BY <1>4 DEF x, W, l

\* exp(-n) nearly falls with n: what the roundings can add is far below an ulp.
LEMMA ExpNearlyFalls ==
  ASSUME NEW n \in Nat, NEW z \in Nat, n <= z
  PROVE  exp_inner[z] <= exp_inner[n] + 5 /\ exp_inner[z] \in Nat /\ exp_inner[n] \in Nat
<1> DEFINE k == n \div LN2_62
           s == n % LN2_62
           j == z \div LN2_62
           r == z % LN2_62
           W == ONE_62
           x == Series(s)
           y == Series(r)
<1>1. LN2_62 \in Nat /\ LN2_62 > 0 /\ W \in Nat /\ W >= 128 /\ LN_SCALE \in Nat
  BY GuardFacts, LogarithmAssumption, ScaleAssumption
<1>2. /\ k \in Nat /\ s \in 0 .. LN2_62 - 1 /\ n = k * LN2_62 + s
      /\ k <= LN_SCALE => exp_inner[n] = x \div 2^k
      /\ j \in Nat /\ r \in 0 .. LN2_62 - 1 /\ z = j * LN2_62 + r
      /\ j <= LN_SCALE => exp_inner[z] = y \div 2^j
      /\ j > LN_SCALE => exp_inner[z] = 0
  BY ExpParts
<1>3. exp_inner[n] \in Nat /\ exp_inner[z] \in Nat
  <2>1. exp_inner[n] \in 0 .. ONE_62 /\ exp_inner[z] \in 0 .. ONE_62
    BY ExpInnerInRange
  <2> QED BY <1>1, <2>1
<1> HIDE DEF k, s, j, r
<1>4. k <= j /\ (k = j => s <= r)
  <2>1. LN2_62 * k < LN2_62 * (j + 1)
    <3>1. LN2_62 * k = k * LN2_62 /\ LN2_62 * (j + 1) = j * LN2_62 + LN2_62
          /\ k * LN2_62 \in Nat /\ j * LN2_62 \in Nat
      BY <1>1, <1>2
    <3> QED BY <1>1, <1>2, <3>1
  <2>2. k <= j
    BY <1>1, <1>2, <2>1, Cancel
  <2> QED BY <1>1, <1>2, <2>2
<1>5. x \in 0 .. W /\ y \in 0 .. W /\ 2 * x + 10 >= W
  BY <1>2, SeriesSeam
<1>6. CASE j > LN_SCALE
  BY <1>2, <1>3, <1>6
<1>7. CASE j <= LN_SCALE /\ k = j
  <2>1. y <= x + 4
    BY <1>2, <1>4, <1>7, ExpSlope
  <2>2. 2^k \in Nat /\ 2^k > 0
    BY <1>1, <1>2, <1>7, WidthAssumption, ScaleAssumption, PowerPositive
  <2> HIDE DEF x, y, W
  <2>3. y \div 2^k <= x \div 2^k + 5
    <3>1. y \in Int /\ x \in Int /\ 5 \in Nat /\ y <= x + 5
      BY <1>1, <1>5, <2>1
    <3> QED BY <2>2, <3>1, QuotientFollows
  <2> QED BY <1>2, <1>3, <1>7, <2>3
<1>8. CASE j <= LN_SCALE /\ k < j
  <2> DEFINE w == 2^k
             w2 == 2^j
             q == y \div w2
  <2>1. w \in Nat /\ w > 0 /\ w2 \in Nat /\ w2 > 0 /\ 2 * w <= w2
    BY <1>2, <1>8, ShiftGrows
  <2> HIDE DEF x, y, W, w, w2
  <2>2. q \in Nat /\ w2 * q <= y
    BY <1>1, <1>5, <2>1
  <2> HIDE DEF q
  <2>3. w * q <= x + 5
    <3>1. (2 * w) * q <= w2 * q
      BY <2>1, <2>2
    <3>2. (2 * w) * q = 2 * (w * q) /\ w * q \in Int /\ w2 * q \in Int
      BY <2>1, <2>2
    <3> QED BY <1>1, <1>5, <2>2, <3>1, <3>2
  <2>4. q <= (x + 5) \div w
    <3>1. x + 5 \in Int /\ q \in Int
      BY <1>1, <1>5, <2>2
    <3> QED BY <2>1, <2>3, <3>1, QuotientAbove
  <2>5. (x + 5) \div w <= x \div w + 5 /\ (x + 5) \div w \in Int /\ x \div w \in Int
    <3>1. x \in Int /\ x + 5 \in Int /\ 5 \in Nat /\ x + 5 <= x + 5
      BY <1>1, <1>5
    <3> QED BY <2>1, <3>1, QuotientFollows
  <2>6. exp_inner[z] = q /\ exp_inner[n] = x \div w
    BY <1>1, <1>2, <1>8 DEF q, w, w2
  <2> QED BY <1>3, <2>2, <2>4, <2>5, <2>6
<1> QED BY <1>1, <1>2, <1>3, <1>4, <1>6, <1>7, <1>8

\* exp(-n) falls against a step of five units, if the step is a thirtieth of
\* ONE_62's part of n.
LEMMA ExpFalls ==
  ASSUME NEW n \in Nat, NEW z \in Nat, n + 5 <= z, 30 * n <= ONE_62 * (z - n + 1)
  PROVE  exp_inner[z] <= exp_inner[n]
<1> DEFINE k == n \div LN2_62
           s == n % LN2_62
           j == z \div LN2_62
           r == z % LN2_62
           W == ONE_62
           x == Series(s)
           y == Series(r)
           g == z - n
<1>1. /\ LN2_62 \in Nat /\ LN2_62 > 0 /\ W \in Nat /\ W >= 128 /\ LN_SCALE \in Nat
      /\ 10 * LN2_62 <= 7 * W /\ 100 * LN2_62 >= 69 * W
  BY GuardFacts, LogarithmAssumption, ScaleAssumption, SeamAssumption
<1>2. /\ k \in Nat /\ s \in 0 .. LN2_62 - 1 /\ n = k * LN2_62 + s
      /\ k <= LN_SCALE => exp_inner[n] = x \div 2^k
      /\ j \in Nat /\ r \in 0 .. LN2_62 - 1 /\ z = j * LN2_62 + r
      /\ j <= LN_SCALE => exp_inner[z] = y \div 2^j
      /\ j > LN_SCALE => exp_inner[z] = 0
  BY ExpParts
<1>3. exp_inner[n] \in Nat /\ exp_inner[z] \in Nat
  BY ExpNearlyFalls
<1>a. 30 * n <= W * (g + 1) /\ g \in Nat /\ g >= 5
  BY <1>1
<1> HIDE DEF k, s, j, r
<1>4. k <= j
  <2>1. LN2_62 * k < LN2_62 * (j + 1)
    <3>1. LN2_62 * k = k * LN2_62 /\ LN2_62 * (j + 1) = j * LN2_62 + LN2_62
          /\ k * LN2_62 \in Nat /\ j * LN2_62 \in Nat
      BY <1>1, <1>2
    <3> QED BY <1>1, <1>2, <3>1
  <2> QED BY <1>1, <1>2, <2>1, Cancel
<1>5. x \in 0 .. W /\ y \in 0 .. W /\ 2 * x + 10 >= W
      /\ 200 * x + 960 > 100 * W + 58 * (LN2_62 - 1 - s)
  BY <1>2, SeriesSeam
<1>6. CASE j > LN_SCALE
  BY <1>2, <1>3, <1>6
<1>7. CASE j <= LN_SCALE /\ k = j
  <2>1. r - s = g /\ s <= r /\ r = s + g /\ s \in Nat /\ r \in Nat /\ 10 * r <= 7 * W /\ s <= n
    <3>1. k * LN2_62 \in Nat
      BY <1>1, <1>2
    <3> QED BY <1>1, <1>2, <1>7, <1>a, <3>1
  <2> DEFINE f == 2 * (W - 1) - (s + r)
  <2> HIDE DEF W, x, y, g
  <2>2. 8 * s <= f * g
    <3>1. CASE g >= 10
      <4>1. f \in Nat /\ 10 * f >= 8 * s
        BY <1>1, <1>a, <2>1
      <4> HIDE DEF f
      <4>2. f * g >= f * 10
        BY <1>a, <3>1, <4>1
      <4> QED BY <1>a, <2>1, <4>1, <4>2
    <3>2. CASE g < 10
      <4>1. W * (g + 1) <= W * 10
        BY <1>1, <1>a, <3>2
      <4>2. 3 * s <= W
        <5>1. W * (g + 1) \in Nat
          BY <1>1, <1>a
        <5> QED BY <1>1, <1>a, <2>1, <4>1, <5>1
      <4>3. f \in Nat /\ 5 * f >= 8 * s
        BY <1>1, <1>a, <2>1, <3>2, <4>2
      <4> HIDE DEF f
      <4>4. f * g >= f * 5
        BY <1>a, <4>3
      <4> QED BY <1>a, <2>1, <4>3, <4>4
    <3> QED BY <1>a, <3>1, <3>2
  <2>3. y <= x
    <3>1. 8 * s <= (2 * (ONE_62 - 1) - (s + r)) * (r - s)
      BY <2>1, <2>2 DEF W
    <3> QED BY <1>2, <2>1, <3>1, ExpSlope DEF x, y
  <2>4. 2^k \in Nat /\ 2^k > 0
    BY <1>1, <1>2, <1>7, WidthAssumption, ScaleAssumption, PowerPositive
  <2>5. y \div 2^k <= x \div 2^k + 0 /\ x \div 2^k \in Int
    <3>1. y \in Int /\ x \in Int /\ 0 \in Nat /\ y <= x + 0
      BY <1>1, <1>5, <2>3
    <3> QED BY <2>4, <3>1, QuotientFollows
  <2> QED BY <1>2, <1>7, <2>5
<1>8. CASE j <= LN_SCALE /\ k < j
  <2> DEFINE w == 2^k
             w2 == 2^j
             q == y \div w2
  <2>1. w \in Nat /\ w > 0 /\ w2 \in Nat /\ w2 > 0 /\ 2 * w <= w2 /\ 2^(k + 1) = 2 * w
        /\ (j >= k + 2 => 4 * w <= w2)
    BY <1>2, <1>8, ShiftGrows
  <2>2. CASE j = k + 1
    <3>1. 100 * y <= 100 * W - 64 * r
      BY <1>2, ExpSlope, GuardFacts
    <3>2. r + LN2_62 = s + g
      <4>1. j * LN2_62 = k * LN2_62 + LN2_62 /\ k * LN2_62 \in Nat
        BY <1>1, <1>2, <2>2
      <4> QED BY <1>1, <1>2, <4>1
    <3> HIDE DEF x, y, W, w, w2, g
    <3>3. g >= 15
      <4>1. n + g >= LN2_62
        <5>1. j * LN2_62 >= LN2_62
          <6>1. j >= 1
            BY <1>2, <2>2
          <6> QED BY <1>1, <1>2, <6>1
        <5>2. j * LN2_62 \in Nat
          BY <1>1, <1>2
        <5> QED BY <1>1, <1>2, <5>1, <5>2 DEF g
      <4>2. ASSUME g <= 14 PROVE FALSE
        <5>1. W * (g + 1) <= W * 15
          BY <1>1, <1>a, <4>2
        <5>2. W * (g + 1) \in Nat
          BY <1>1, <1>a
        <5> QED BY <1>1, <1>a, <4>1, <4>2, <5>1, <5>2
      <4> QED BY <1>a, <4>2
    <3>4. y <= 2 * x + 1
      BY <1>1, <1>2, <1>5, <1>a, <3>1, <3>2, <3>3
    <3>5. q \in Nat /\ w2 * q <= y
      BY <1>1, <1>5, <2>1
    <3> HIDE DEF q
    <3>6. w * q <= x
      <4>1. w2 = 2 * w
        BY <2>1, <2>2 DEF w2, w
      <4>2. w2 * q = 2 * (w * q) /\ w * q \in Int
        BY <2>1, <3>5, <4>1
      <4> QED BY <1>1, <1>5, <3>4, <3>5, <4>2
    <3>7. q <= x \div w
      <4>1. x \in Int /\ q \in Int
        BY <1>1, <1>5, <3>5
      <4> QED BY <2>1, <3>6, <4>1, QuotientAbove
    <3> QED BY <1>1, <1>2, <1>8, <3>7 DEF q, w, w2
  <2>3. CASE j >= k + 2
    <3> HIDE DEF x, y, W, w, w2, g
    <3>5. q \in Nat /\ w2 * q <= y
      BY <1>1, <1>5, <2>1
    <3> HIDE DEF q
    <3>6. w * q <= x
      <4>1. (4 * w) * q <= w2 * q
        BY <2>1, <2>3, <3>5
      <4>2. (4 * w) * q = 4 * (w * q) /\ w * q \in Int /\ w2 * q \in Int
        BY <2>1, <3>5
      <4> QED BY <1>1, <1>5, <3>5, <4>1, <4>2
    <3>7. q <= x \div w
      <4>1. x \in Int /\ q \in Int
        BY <1>1, <1>5, <3>5
      <4> QED BY <2>1, <3>6, <4>1, QuotientAbove
    <3> QED BY <1>1, <1>2, <1>8, <3>7 DEF q, w, w2
  <2> QED BY <1>2, <1>8, <2>2, <2>3
<1> QED BY <1>1, <1>2, <1>4, <1>6, <1>7, <1>8
-----------------------------------------------------------------------------
(***************************************************************************)
(* How ln_inner varies with its argument.                                  *)
(***************************************************************************)
\* A larger fraction has the larger floor.
LEMMA FractionMonotone ==
  ASSUME NEW x \in Nat, NEW d \in Nat, d > 0, NEW y \in Nat, NEW e \in Nat, e > 0,
         x * e <= y * d
  PROVE  x \div d <= y \div e
<1> DEFINE q == x \div d
           r == y \div e
<1>1. q \in Nat /\ d * q <= x /\ r \in Nat /\ y < (e * r) + e
  BY DivisionBounds, DivisionNat
<1> HIDE DEF q, r
<1>2. (d * q) * e <= x * e
  BY <1>1
<1>3. d * (e * q) <= d * y
  <2>1. (d * q) * e = d * (e * q) /\ y * d = d * y
    BY <1>1
  <2> QED BY <1>1, <1>2, <2>1
<1>4. d * (e * q) < d * (y + 1)
  BY <1>1, <1>3
<1>5. e * q <= y
  BY <1>1, <1>4, Cancel
<1>6. e * q < e * (r + 1)
  BY <1>1, <1>5
<1>7. q <= r
  BY <1>1, <1>6, Cancel
<1> QED BY <1>7 DEF q, r

\* The atanh argument grows with the mantissa, on either side of 1.
LEMMA AtanhGrows ==
  ASSUME NEW m \in Nat, NEW z \in Nat, m <= z, m >= ONE_62 \/ z <= ONE_62
  PROVE  /\ AtanhArgument(m) \in Int /\ AtanhArgument(z) \in Int
         /\ AtanhArgument(m) <= AtanhArgument(z)
         /\ m >= ONE_62 => AtanhArgument(m) >= 0
         /\ z <= ONE_62 => AtanhArgument(z) <= 0
<1> DEFINE W == ONE_62
           Up(x) == ((x - W) * W) \div (x + W)
           Down(x) == ((W - x) * W) \div (x + W)
<1>1. W \in Nat /\ W >= 8
  BY ScaleFacts
<1>2. ASSUME NEW x \in Nat, x >= W
      PROVE  AtanhArgument(x) = Up(x) /\ Up(x) \in Nat
  <2>1. (x - W) * W \in Nat /\ x + W \in Nat /\ x + W > 0
    <3> HIDE DEF W
    <3>1. x - W \in Nat
      BY <1>1, <1>2
    <3> QED BY <1>1, <3>1
  <2>2. AtanhArgument(x) = Up(x)
    BY <2>1 DEF AtanhArgument, TruncDiv
  <2>3. Up(x) \in Nat
    <3> DEFINE a == (x - W) * W
               b == x + W
    <3>1. a \in Nat /\ b \in Nat /\ b > 0
      BY <2>1
    <3> HIDE DEF a, b
    <3>2. a \div b \in Nat
      BY <3>1, DivisionNat
    <3> QED BY <3>2 DEF a, b
  <2> QED BY <2>2, <2>3
<1>3. ASSUME NEW x \in Nat, x <= W
      PROVE  AtanhArgument(x) = -Down(x) /\ Down(x) \in Nat
  <2>1. (W - x) * W \in Nat /\ x + W \in Nat /\ x + W > 0
        /\ (x - W) * W = -((W - x) * W)
    <3> HIDE DEF W
    <3>1. W - x \in Nat
      BY <1>1, <1>3
    <3> QED BY <1>1, <3>1
  <2> DEFINE a == (W - x) * W
             b == x + W
  <2>2. TruncDiv(-a, b) = -(a \div b)
    <3>1. a \in Nat /\ b \in Nat /\ b > 0
      BY <2>1
    <3> HIDE DEF a, b
    <3>2. CASE a = 0
      <4>1. a \div b = 0
        BY <3>1, <3>2, DivisionUnique
      <4> QED BY <3>2, <4>1 DEF TruncDiv
    <3>3. CASE a > 0
      BY <3>1, <3>3 DEF TruncDiv
    <3> QED BY <3>1, <3>2, <3>3
  <2>3. a \div b \in Nat
    <3>1. a \in Nat /\ b \in Nat /\ b > 0
      BY <2>1
    <3> HIDE DEF a, b
    <3> QED BY <3>1, DivisionNat
  <2> QED BY <2>1, <2>2, <2>3 DEF AtanhArgument
<1> HIDE DEF W
<1>4. CASE m >= W
  <2>1. m - W \in Nat /\ z - W \in Nat /\ m + W \in Nat /\ z + W \in Nat
        /\ m + W > 0 /\ z + W > 0 /\ z >= W
    BY <1>1, <1>4
  <2>2. (m - W) * W \in Nat /\ (z - W) * W \in Nat
    BY <1>1, <2>1
  <2>3. ((m - W) * W) * (z + W) <= ((z - W) * W) * (m + W)
    <3> DEFINE a == m - W
               b == z - m
    <3>1. a \in Nat /\ b \in Nat /\ m - W = a /\ z - W = a + b /\ m + W = a + 2 * W
          /\ z + W = (a + b) + 2 * W
      BY <1>1, <2>1
    <3> HIDE DEF a, b
    <3>2. (a * W) * ((a + b) + 2 * W) <= ((a + b) * W) * (a + 2 * W)
      <4>1. ((a + b) * W) * (a + 2 * W) = (a * W) * ((a + b) + 2 * W) + 2 * (b * (W * W))
        BY <1>1, <3>1
      <4>2. 2 * (b * (W * W)) \in Nat /\ (a * W) * ((a + b) + 2 * W) \in Nat
        BY <1>1, <3>1
      <4> QED BY <4>1, <4>2
    <3> QED BY <3>1, <3>2
  <2> DEFINE A == (m - W) * W
             B == (z - W) * W
  <2>4. A \in Nat /\ B \in Nat /\ A * (z + W) <= B * (m + W)
    BY <2>2, <2>3
  <2>5. A \div (m + W) <= B \div (z + W)
    <3> HIDE DEF A, B
    <3> QED BY <2>1, <2>4, FractionMonotone
  <2> QED BY <1>1, <1>2, <1>4, <2>1, <2>5 DEF W
<1>5. CASE z <= W
  <2>1. W - m \in Nat /\ W - z \in Nat /\ m + W \in Nat /\ z + W \in Nat
        /\ m + W > 0 /\ z + W > 0 /\ m <= W
    BY <1>1, <1>5
  <2>2. (W - m) * W \in Nat /\ (W - z) * W \in Nat
    BY <1>1, <2>1
  <2>3. ((W - z) * W) * (m + W) <= ((W - m) * W) * (z + W)
    <3> DEFINE b == z - m
               a == W - z
    <3>1. a \in Nat /\ b \in Nat /\ W - z = a /\ W - m = a + b /\ z + W = (m + b) + W
      BY <1>1, <2>1
    <3> HIDE DEF a, b
    <3>2. (a * W) * (m + W) <= ((a + b) * W) * ((m + b) + W)
      BY <1>1, <3>1, ProductBound
    <3> QED BY <3>1, <3>2
  <2> DEFINE A == (W - z) * W
             B == (W - m) * W
  <2>4. A \in Nat /\ B \in Nat /\ A * (m + W) <= B * (z + W)
    BY <2>2, <2>3
  <2>5. A \div (z + W) <= B \div (m + W)
    <3> HIDE DEF A, B
    <3> QED BY <2>1, <2>4, FractionMonotone
  <2> QED BY <1>1, <1>3, <1>5, <2>1, <2>5 DEF W
<1> QED BY <1>4, <1>5 DEF W

\* Two numbers of doublings cannot both be the first that reaches the window.
LEMMA FirstReached ==
  ASSUME NEW x \in 1 .. ONE, NEW j \in 0 .. SCALE,
         x * GUARD * 2^j >= SQRT2_HALF_62,
         j > 0 => x * GUARD * 2^(j - 1) < SQRT2_HALF_62
  PROVE  Doublings(x) = j
<1> DEFINE g == x * GUARD
           First(n) == /\ x * GUARD * 2^n >= SQRT2_HALF_62
                       /\ n > 0 => x * GUARD * 2^(n - 1) < SQRT2_HALF_62
           d == Doublings(x)
<1>1. g \in Nat /\ SCALE \in Nat /\ SCALE <= WIDTH /\ WIDTH \in Nat /\ SQRT2_HALF_62 \in Nat
  <2>1. GUARD \in Nat /\ x \in Nat
    BY ScaleFacts
  <2>2. g \in Nat
    BY <2>1
  <2> HIDE DEF g
  <2> QED BY <2>2, ScaleAssumption, WidthAssumption, LogarithmAssumption
<1>2. d \in 0 .. SCALE /\ First(d)
  <2>1. d = CHOOSE n \in 0 .. SCALE : First(n)
    BY DEF Doublings
  <2>2. First(j)
    OBVIOUS
  <2> HIDE DEF d, First
  <2> QED BY <2>1, <2>2
<1>3. ASSUME NEW a \in 0 .. SCALE, NEW b \in 0 .. SCALE, First(a), First(b), a < b
      PROVE  FALSE
  <2>1. a \in Nat /\ b - 1 \in Nat /\ a <= b - 1 /\ b - 1 <= WIDTH /\ b > 0
    BY <1>1, <1>3
  <2>2. 2^a \in Nat /\ 2^(b - 1) \in Nat /\ 2^a <= 2^(b - 1)
    BY <2>1, <1>1, PowerMonotone, PowerPositive
  <2>3. g * 2^a >= SQRT2_HALF_62 /\ g * 2^(b - 1) < SQRT2_HALF_62
    BY <1>3, <2>1
  <2> HIDE DEF g
  <2>4. g * 2^a <= g * 2^(b - 1) /\ g * 2^a \in Nat /\ g * 2^(b - 1) \in Nat
    BY <1>1, <2>2, ProductBound
  <2> QED BY <1>1, <2>3, <2>4
<1>4. First(j)
  OBVIOUS
<1> HIDE DEF d, First, g
<1>5. ~(d < j) /\ ~(j < d)
  BY <1>2, <1>3, <1>4
<1>6. d = j
  BY <1>1, <1>2, <1>5
<1> QED BY <1>6 DEF d

\* The atanh series grows with its argument.
LEMMA AtanhHornerGrows ==
  ASSUME NEW u \in Nat, NEW w \in Nat, u <= w, 25 * w <= ONE_62
  PROVE  Horner(ATANH_COEFF_62, u) <= Horner(ATANH_COEFF_62, w)
<1> DEFINE table == ATANH_COEFF_62
           n == Len(table)
<1>1. /\ n \in Nat /\ n >= 1 /\ ONE_62 \in Nat /\ ONE_62 > 0
      /\ \A j \in 1 .. n : table[j] \in 0 .. ONE_62
  BY Tables, ScaleFacts
<1>2. PICK f : /\ Horner(table, u) = f[1] /\ PartialSums(table, u, f)
               /\ \A i \in 1 .. n : AtanhSum(f[i])
  <2>1. 25 * u <= ONE_62
    BY <1>1
  <2> QED BY <2>1, AtanhSums
<1>3. PICK h : /\ Horner(table, w) = h[1] /\ PartialSums(table, w, h)
               /\ \A i \in 1 .. n : AtanhSum(h[i])
  BY AtanhSums
<1> DEFINE Good(i) == f[i] <= h[i]
<1>4. /\ f[n] = table[n] /\ h[n] = table[n]
      /\ \A i \in 1 .. n - 1 : /\ f[i] = HornerStep(table[i], f[i + 1], u)
                               /\ h[i] = HornerStep(table[i], h[i + 1], w)
  BY <1>2, <1>3 DEF PartialSums
<1> HIDE DEF table, n
<1>5. Good(n)
  <2>1. table[n] \in Int
    BY <1>1
  <2> QED BY <1>4, <2>1
<1>6. ASSUME NEW i \in 1 .. n - 1, Good(i + 1) PROVE Good(i)
  <2>1. i + 1 \in 1 .. n /\ i \in 1 .. n
    BY <1>1
  <2> DEFINE a == f[i + 1]
             b == h[i + 1]
             c == table[i]
  <2>2. a \in Nat /\ b \in Nat /\ a <= b /\ c \in Nat
    BY <1>1, <1>2, <1>3, <1>6, <2>1 DEF AtanhSum
  <2> HIDE DEF a, b, c
  <2>3. a * u <= b * w /\ a * u \in Nat /\ b * w \in Nat
    BY <2>2, ProductBound
  <2> DEFINE x == a * u
             y == b * w
  <2> HIDE DEF x, y
  <2>4. x \div ONE_62 <= y \div ONE_62 + 0 /\ x \div ONE_62 \in Int /\ y \div ONE_62 \in Int
    <3>1. x \in Int /\ y \in Int /\ 0 \in Nat /\ x <= y + 0
      BY <2>3 DEF x, y
    <3> QED BY <1>1, <3>1, QuotientFollows
  <2>5. f[i] = c + x \div ONE_62 /\ h[i] = c + y \div ONE_62
    BY <1>4 DEF HornerStep, Shr, ONE_62, x, y, a, b, c
  <2> QED BY <2>2, <2>4, <2>5
<1> HIDE DEF Good
<1> DEFINE T == {d \in 0 .. n - 1 : ~Good(n - d)}
<1>7. T = {}
  <2> SUFFICES ASSUME T # {} PROVE FALSE
    OBVIOUS
  <2>1. T \subseteq Nat
    OBVIOUS
  <2>2. PICK d \in T : \A y \in T : d <= y
    <3> HIDE DEF T
    <3> QED BY <2>1, LeastElement
  <2>3. d \in 0 .. n - 1 /\ ~Good(n - d) /\ d # 0
    <3>1. d \in 0 .. n - 1 /\ ~Good(n - d)
      BY <2>2
    <3>2. n - 0 = n
      BY <1>1
    <3> QED BY <3>1, <3>2, <1>5
  <2>4. d - 1 \in 0 .. n - 1 /\ d - 1 \notin T
    <3>1. d \in Nat /\ d - 1 \in 0 .. n - 1
      BY <2>3, <1>1
    <3> HIDE DEF T
    <3>2. ~(d <= d - 1)
      BY <3>1
    <3> QED BY <2>2, <3>1, <3>2
  <2>5. Good(n - (d - 1))
    BY <2>4
  <2>6. n - d \in 1 .. n - 1 /\ n - (d - 1) = (n - d) + 1
    BY <1>1, <2>3
  <2> QED BY <1>6, <2>3, <2>5, <2>6
<1>8. Good(1)
  <2>1. n - 1 \in 0 .. n - 1 /\ n - (n - 1) = 1
    BY <1>1
  <2>2. Good(n - (n - 1))
    BY <1>7, <2>1
  <2> QED BY <2>1, <2>2
<1> QED BY <1>2, <1>3, <1>8 DEF Good, table

\* t = (m-1)/(m+1) between two mantissas: 2 (m' - m) / ((m+1) (m'+1)), less
\* than two units off.
LEMMA AtanhSteep ==
  ASSUME NEW m \in Nat, NEW z \in Nat, m <= z
  PROVE  LET q == AtanhArgument(z) - AtanhArgument(m) + 2
             d == (m + ONE_62) * (z + ONE_62)
         IN  /\ AtanhArgument(m) \in Int /\ AtanhArgument(z) \in Int
             /\ (ONE_62 * ONE_62) * (2 * (z - m)) <= q * d
<1> DEFINE W == ONE_62
           T(x) == AtanhArgument(x)
<1>1. W \in Nat /\ W > 0
  BY ScaleFacts
<1>2. ASSUME NEW x \in Nat
      PROVE  /\ T(x) \in Int /\ (x + W) * T(x) < (x - W) * W + (x + W)
             /\ (x - W) * W < (x + W) * T(x) + (x + W)
  <2> DEFINE a == (x - W) * W
             b == x + W
  <2>1. a \in Int /\ b \in Nat /\ b > 0
    BY <1>1
  <2>2. T(x) = IF a >= 0 THEN a \div b ELSE -((-a) \div b)
    BY DEF AtanhArgument, TruncDiv
  <2> HIDE DEF a, b, T
  <2>3. a \div b \in Int /\ b * (a \div b) <= a /\ a < b * (a \div b) + b
    BY <2>1, DivisionBounds
  <2>4. LET q == (-a) \div b IN q \in Int /\ b * q <= -a /\ -a < b * q + b
    <3>1. -a \in Int
      BY <2>1
    <3> QED BY <2>1, <3>1, DivisionBounds
  <2>5. T(x) \in Int /\ b * T(x) < a + b /\ a < b * T(x) + b
    <3>1. CASE a >= 0
      <4> DEFINE q == a \div b
      <4>1. T(x) = q /\ q \in Int /\ b * q <= a /\ a < b * q + b
        BY <2>2, <2>3, <3>1
      <4> HIDE DEF q
      <4>2. b * q \in Int
        BY <2>1, <4>1
      <4> QED BY <2>1, <4>1, <4>2
    <3>2. CASE ~(a >= 0)
      <4> DEFINE q == (-a) \div b
      <4>1. T(x) = -q /\ q \in Int /\ b * q <= -a /\ -a < b * q + b
        BY <2>2, <2>4, <3>2
      <4> HIDE DEF q
      <4>2. b * q \in Int /\ b * (-q) = -(b * q)
        BY <2>1, <4>1
      <4> QED BY <2>1, <4>1, <4>2
    <3> QED BY <3>1, <3>2
  <2> QED BY <2>5 DEF a, b, T
<1> DEFINE D == m + W
           E == z + W
           a == (m - W) * W
           b == (z - W) * W
           s == T(m)
           t == T(z)
<1>3. /\ s \in Int /\ t \in Int /\ D \in Nat /\ D > 0 /\ E \in Nat /\ E > 0 /\ a \in Int /\ b \in Int
      /\ D * s < a + D /\ b < E * t + E
  <2>1. s \in Int /\ D * s < a + D
    BY <1>2
  <2>2. t \in Int /\ b < E * t + E
    BY <1>2
  <2> HIDE DEF T
  <2> QED BY <1>1, <2>1, <2>2
<1>4. D * b - E * a = (W * W) * (2 * (z - m))
  <2> HIDE DEF W
  <2> QED BY <1>1
<1> HIDE DEF D, E, a, b, s, t, W
<1>5. E * (D * s) <= E * (a + D) /\ D * b <= D * (E * t + E)
  <2>1. D * s \in Int /\ a + D \in Int /\ E * t + E \in Int
    BY <1>3
  <2> QED BY <1>3, <2>1
<1>6. D * b - E * a <= (t - s + 2) * (D * E)
  <2>1. D * (E * t + E) - E * (D * s) + E * (a + D) = (t - s + 2) * (D * E) + E * a
    BY <1>3
  <2>2. /\ E * (D * s) \in Int /\ E * (a + D) \in Int /\ D * b \in Int /\ E * a \in Int
        /\ D * (E * t + E) \in Int /\ (t - s + 2) * (D * E) \in Int
    BY <1>3
  <2> QED BY <1>5, <2>1, <2>2
<1>7. (W * W) * (2 * (z - m)) <= (t - s + 2) * (D * E)
  BY <1>4, <1>6
<1> QED BY <1>3, <1>7 DEF W, s, t, D, E

\* With the denominators bounded by c quarters of a square of ONE_62.
LEMMA AtanhSteepWithin ==
  ASSUME NEW m \in Nat, NEW z \in Nat, m <= z, NEW c \in Nat,
         4 * ((m + ONE_62) * (z + ONE_62)) <= c * (ONE_62 * ONE_62)
  PROVE  8 * (z - m) <= c * (AtanhArgument(z) - AtanhArgument(m) + 2)
<1> DEFINE V == ONE_62 * ONE_62
           q == AtanhArgument(z) - AtanhArgument(m) + 2
           d == (m + ONE_62) * (z + ONE_62)
           g == z - m
<1>1. ONE_62 \in Nat /\ ONE_62 > 0
  BY ScaleFacts
<1>2. V \in Nat /\ V > 0 /\ d \in Nat /\ d > 0
  <2>1. m + ONE_62 \in Nat /\ m + ONE_62 > 0 /\ z + ONE_62 \in Nat /\ z + ONE_62 > 0
    BY <1>1
  <2> DEFINE a == m + ONE_62
             b == z + ONE_62
  <2> HIDE DEF a, b
  <2>2. a * b \in Nat /\ a * b > 0
    BY <2>1 DEF a, b
  <2> QED BY <1>1, <2>2 DEF a, b
<1>3. q \in Int /\ g \in Nat /\ V * (2 * g) <= q * d /\ 4 * d <= c * V
  <2>1. /\ AtanhArgument(m) \in Int /\ AtanhArgument(z) \in Int
        /\ V * (2 * g) <= q * d
    BY AtanhSteep
  <2> QED BY <2>1
<1> HIDE DEF V, q, d, g
<1>4. q >= 0
  <2> SUFFICES ASSUME q < 0 PROVE FALSE
    BY <1>3
  <2>1. q * d < 0
    BY <1>2, <1>3
  <2>2. V * (2 * g) >= 0
    BY <1>2, <1>3
  <2>3. q * d \in Int /\ V * (2 * g) \in Int
    BY <1>2, <1>3
  <2> QED BY <1>3, <2>1, <2>2, <2>3
<1>5. V * (8 * g) <= V * (c * q)
  <2>1. q * (4 * d) <= q * (c * V)
    BY <1>2, <1>3, <1>4
  <2>2. q * (4 * d) = 4 * (q * d) /\ q * (c * V) = V * (c * q) /\ V * (8 * g) = 4 * (V * (2 * g))
    BY <1>2, <1>3
  <2>3. q * d \in Int /\ V * (c * q) \in Int /\ V * (2 * g) \in Int
    BY <1>2, <1>3
  <2> QED BY <1>3, <2>1, <2>2, <2>3
<1>6. V * (8 * g) < V * (c * q + 1)
  <2>1. V * (c * q + 1) = V * (c * q) + V /\ V * (8 * g) \in Int /\ V * (c * q) \in Int
    BY <1>2, <1>3
  <2> QED BY <1>2, <1>5, <2>1
<1>7. 8 * g <= c * q
  <2>1. 8 * g \in Int /\ c * q \in Int
    BY <1>3
  <2> QED BY <1>2, <1>6, <2>1, Cancel
<1> QED BY <1>7 DEF g, q

\* ln m of a mantissa.
MantissaLn(m) ==
  LnMantissa(AtanhArgument(m), Horner(ATANH_COEFF_62, Square(AtanhArgument(m))))

\* t P(t^2) grows at least as t does.
LEMMA SeriesTimesArgument ==
  ASSUME NEW W \in Nat, NEW t \in Int, NEW s \in Int, t <= s,
         NEW p \in Nat, NEW q \in Nat, p >= W, q >= W,
         t >= 0 => p <= q, s <= 0 => q <= p
  PROVE  (s - t) * W <= s * q - t * p
<1>1. CASE t >= 0
  <2>1. s * q >= s * p
    BY <1>1
  <2>2. (s - t) * p >= (s - t) * W
    BY <1>1
  <2>3. (s - t) * p = s * p - t * p
    BY <1>1
  <2> DEFINE a == s * q
             b == s * p
             c == t * p
             e == (s - t) * W
  <2>4. a \in Int /\ b \in Int /\ c \in Int /\ e \in Int /\ a >= b /\ b - c >= e
    BY <2>1, <2>2, <2>3
  <2>5. e <= a - c
    <3> HIDE DEF a, b, c, e
    <3> QED BY <2>4
  <2> QED BY <2>5
<1>2. CASE s <= 0
  <2>1. (-t) * p >= (-t) * q
    BY <1>2
  <2>2. (s - t) * q >= (s - t) * W
    BY <1>2
  <2>3. (s - t) * q = s * q - t * q /\ (-t) * p = -(t * p) /\ (-t) * q = -(t * q)
    BY <1>2
  <2> DEFINE a == s * q
             b == t * q
             c == t * p
             e == (s - t) * W
  <2>4. a \in Int /\ b \in Int /\ c \in Int /\ e \in Int /\ -c >= -b /\ a - b >= e
    BY <2>1, <2>2, <2>3
  <2>5. e <= a - c
    <3> HIDE DEF a, b, c, e
    <3> QED BY <2>4
  <2> QED BY <2>5
<1>3. CASE t < 0 /\ s > 0
  <2>1. s * q >= s * W /\ (-t) * p >= (-t) * W
    BY <1>3
  <2>2. (s - t) * W = s * W + (-t) * W /\ (-t) * p = -(t * p)
    BY <1>3
  <2> DEFINE a == s * q
             b == s * W
             c == t * p
             e == (-t) * W
  <2>3. a \in Int /\ b \in Int /\ c \in Int /\ e \in Int /\ a >= b /\ -c >= e
    BY <2>1, <2>2
  <2>4. b + e <= a - c
    <3> HIDE DEF a, b, c, e
    <3> QED BY <2>3
  <2> QED BY <2>2, <2>4
<1> QED BY <1>1, <1>2, <1>3

\* Squares grow away from zero.
LEMMA SquareGrows ==
  ASSUME NEW t \in Int, NEW s \in Int, t * t <= s * s
  PROVE  Square(t) <= Square(s)
<1>1. ONE_62 \in Nat /\ ONE_62 > 0 /\ t * t \in Int /\ s * s \in Int
  BY ScaleFacts
<1> DEFINE a == t * t
           b == s * s
<1> HIDE DEF a, b
<1>2. a \div ONE_62 <= b \div ONE_62 + 0 /\ b \div ONE_62 \in Int
  <2>1. a \in Int /\ b \in Int /\ 0 \in Nat /\ a <= b + 0
    BY <1>1 DEF a, b
  <2> QED BY <1>1, <2>1, QuotientFollows
<1>3. a \div ONE_62 <= b \div ONE_62
  <2>1. b \div ONE_62 + 0 = b \div ONE_62
    BY <1>2
  <2> QED BY <1>2, <2>1
<1> QED BY <1>3 DEF Square, Shr, ONE_62, a, b

\* ln m grows with the mantissa, at least twice as fast as the argument of
\* its series.
LEMMA MantissaLnGrows ==
  ASSUME NEW m, InWindow(m), NEW z, InWindow(z), m <= z
  PROVE  LET t == AtanhArgument(m)
             s == AtanhArgument(z)
         IN  /\ t \in Int /\ s \in Int /\ t <= s
             /\ MantissaLn(m) \in Int /\ MantissaLn(z) \in Int
             /\ -ONE_62 <= 2 * MantissaLn(m) /\ 2 * MantissaLn(z) <= ONE_62
             /\ MantissaLn(m) + 2 * (s - t) <= MantissaLn(z)
<1> DEFINE t == AtanhArgument(m)
           s == AtanhArgument(z)
           p == Horner(ATANH_COEFF_62, Square(t))
           q == Horner(ATANH_COEFF_62, Square(s))
           W == ONE_62
           H == 2^(LN_SCALE - 1)
<1>1. W \in Nat /\ W > 0 /\ H \in Nat /\ 2 * H = W /\ H > 0
  BY ScaleFacts
<1>2. /\ t \in Int /\ 5 * t <= W /\ -W <= 5 * t /\ s \in Int /\ 5 * s <= W /\ -W <= 5 * s
      /\ m \in Nat /\ z \in Nat
      /\ (m >= W => t >= 0) /\ (m <= W => t <= 0) /\ (z >= W => s >= 0) /\ (z <= W => s <= 0)
  BY AtanhBound DEF InWindow
<1>3. t <= s
  <2>1. CASE m >= W \/ z <= W
    BY <1>2, <2>1, AtanhGrows
  <2>2. CASE m < W /\ z > W
    BY <1>1, <1>2, <2>2
  <2> QED BY <1>1, <1>2, <2>1, <2>2
<1>4. /\ Square(t) \in Nat /\ 25 * Square(t) <= W /\ Square(s) \in Nat /\ 25 * Square(s) <= W
  BY <1>2, SquareBound
<1>5. /\ p \in Nat /\ p >= W /\ q \in Nat /\ q >= W /\ AtanhSum(p) /\ AtanhSum(q)
  <2>1. ATANH_COEFF_62[1] = ONE_62
    BY SeamAssumption
  <2> QED BY <1>4, <2>1, AtanhHornerTop, AtanhHornerSum
<1>6. t >= 0 => p <= q
  <2> SUFFICES ASSUME t >= 0 PROVE p <= q
    OBVIOUS
  <2>1. t * t <= s * s
    <3>1. t \in Nat /\ s \in Nat
      BY <1>2, <1>3
    <3> QED BY <1>3, <3>1, ProductBound
  <2>2. Square(t) <= Square(s)
    BY <1>2, <2>1, SquareGrows
  <2> QED BY <1>4, <2>2, AtanhHornerGrows
<1>7. s <= 0 => q <= p
  <2> SUFFICES ASSUME s <= 0 PROVE q <= p
    OBVIOUS
  <2>1. s * s <= t * t
    <3> HIDE DEF s, t
    <3>1. -s \in Nat /\ -t \in Nat /\ -s <= -t
      BY <1>2, <1>3
    <3>2. (-s) * (-s) <= (-t) * (-t)
      BY <3>1, ProductBound
    <3>3. (-s) * (-s) = s * s /\ (-t) * (-t) = t * t
      BY <1>2
    <3> QED BY <3>2, <3>3
  <2>2. Square(s) <= Square(t)
    BY <1>2, <2>1, SquareGrows
  <2> QED BY <1>4, <2>2, AtanhHornerGrows
<1>8. /\ MantissaLn(m) \in Int /\ -W <= 2 * MantissaLn(m)
      /\ MantissaLn(z) \in Int /\ 2 * MantissaLn(z) <= W
  BY <1>2, <1>5, LnMantissaBound DEF MantissaLn
<1>9. MantissaLn(m) = (t * p) \div H /\ MantissaLn(z) = (s * q) \div H
  BY DEF MantissaLn, LnMantissa, Shr
<1> HIDE DEF t, s, p, q, W, H
<1>10. (s - t) * W <= s * q - t * p
  BY <1>1, <1>2, <1>3, <1>5, <1>6, <1>7, SeriesTimesArgument
<1> DEFINE a == t * p
           b == s * q
           A == a \div H
           c == 2 * (s - t)
<1>11. a \in Int /\ b \in Int /\ (s - t) * W = H * c /\ c \in Int
  BY <1>1, <1>2, <1>5
<1>12. H * c <= b - a
  BY <1>10, <1>11
<1> HIDE DEF a, b, c
<1>13. A \in Int /\ H * A <= a
  BY <1>1, <1>11, DivisionBounds
<1> HIDE DEF A
<1>14. H * (A + c) <= b
  <2>1. H * (A + c) = H * A + H * c /\ H * A \in Int /\ H * c \in Int
    BY <1>1, <1>11, <1>13
  <2> QED BY <1>11, <1>12, <1>13, <2>1
<1>15. A + c <= b \div H
  <2>1. A + c \in Int
    BY <1>11, <1>13
  <2> QED BY <1>1, <1>11, <1>14, <2>1, QuotientAbove
<1> QED BY <1>2, <1>3, <1>8, <1>9, <1>15 DEF W, t, s, A, a, b, c

\* Within the window ln m grows by 16/25 of the mantissa at least, below one
\* by all of it.
LEMMA MantissaLnSteep ==
  ASSUME NEW m, InWindow(m), NEW z, InWindow(z), m <= z
  PROVE  /\ MantissaLn(m) \in Int /\ MantissaLn(z) \in Int /\ MantissaLn(m) <= MantissaLn(z)
         /\ 16 * (z - m) <= 25 * (MantissaLn(z) - MantissaLn(m) + 4)
         /\ z <= ONE_62 => z - m <= MantissaLn(z) - MantissaLn(m) + 4
<1> DEFINE t == AtanhArgument(m)
           s == AtanhArgument(z)
           W == ONE_62
           M == MantissaLn(m)
           Z == MantissaLn(z)
           D == m + W
           E == z + W
<1>1. /\ t \in Int /\ s \in Int /\ t <= s /\ M \in Int /\ Z \in Int /\ M + 2 * (s - t) <= Z
  BY MantissaLnGrows
<1>2. W \in Nat /\ m \in Nat /\ z \in Nat /\ 2 * m <= 3 * W /\ 2 * z <= 3 * W /\ 4 \in Nat /\ 16 \in Nat /\ 25 \in Nat
  BY ScaleFacts, LogarithmAssumption DEF InWindow
<1> HIDE DEF W
<1>3. 8 * (z - m) <= 25 * (s - t + 2)
  <2>1. (2 * D) * (2 * E) <= (5 * W) * (5 * W)
    <3>1. 2 * D \in Nat /\ 2 * E \in Nat /\ 5 * W \in Nat /\ 2 * D <= 5 * W /\ 2 * E <= 5 * W
      BY <1>2
    <3> HIDE DEF D, E
    <3> QED BY <3>1, ProductBound
  <2>2. (2 * D) * (2 * E) = 4 * (D * E) /\ (5 * W) * (5 * W) = 25 * (W * W)
    BY <1>2
  <2>3. 4 * (D * E) <= 25 * (W * W)
    BY <2>1, <2>2
  <2> QED BY <1>2, <2>3, AtanhSteepWithin DEF W
<1>4. ASSUME z <= W PROVE 8 * (z - m) <= 16 * (s - t + 2)
  <2>1. D * E <= (2 * W) * (2 * W)
    <3>1. D \in Nat /\ E \in Nat /\ 2 * W \in Nat /\ D <= 2 * W /\ E <= 2 * W
      BY <1>2, <1>4
    <3> HIDE DEF D, E
    <3> QED BY <3>1, ProductBound
  <2>2. (2 * W) * (2 * W) = 4 * (W * W) /\ D * E \in Int /\ W * W \in Int
    BY <1>2
  <2>3. 4 * (D * E) <= 16 * (W * W)
    BY <2>1, <2>2
  <2> QED BY <1>2, <2>3, AtanhSteepWithin DEF W
<1> HIDE DEF t, s, M, Z
<1>5. M <= Z /\ 16 * (z - m) <= 25 * (Z - M + 4) /\ (z <= W => z - m <= Z - M + 4)
  BY <1>1, <1>2, <1>3, <1>4
<1> QED BY <1>1, <1>5 DEF M, Z, W

\* The next base needs as many doublings, or one less.
LEMMA DoublingsNext ==
  ASSUME NEW x \in 1 .. ONE - 1
  PROVE  LET k == Doublings(x)
             j == Doublings(x + 1)
         IN  /\ x \in 1 .. ONE /\ x + 1 \in 1 .. ONE /\ k \in 0 .. SCALE /\ j \in 0 .. SCALE
             /\ j = k \/ (k > 0 /\ j = k - 1)
<1> DEFINE k == Doublings(x)
           Up(y, n) == y * GUARD * 2^n
           S == SQRT2_HALF_62
<1>1. /\ ONE \in Nat /\ GUARD \in Nat /\ SCALE \in Nat /\ S \in Nat
      /\ SCALE <= WIDTH - 1 /\ WIDTH \in Nat
  BY ScaleFacts, ScaleAssumption, WidthAssumption, LogarithmAssumption
<1>2. x \in 1 .. ONE /\ x + 1 \in 1 .. ONE /\ x \in Nat
  BY <1>1
<1>3. k \in 0 .. SCALE /\ Up(x, k) >= S
  BY <1>2, DoublingsLand DEF InWindow
<1>4. k > 0 => Up(x, k - 1) < S
  <2> SUFFICES ASSUME k > 0 PROVE Up(x, k - 1) < S
    OBVIOUS
  <2>1. k - 1 \in 0 .. WIDTH - 1 /\ (k - 1) + 1 = k
    BY <1>1, <1>3
  <2>2. 2^((k - 1) + 1) = 2 * 2^(k - 1) /\ 2^(k - 1) \in Nat
    BY <1>1, <2>1, PowerAssumption, PowerPositive
  <2>3. Up(x, k) < 2 * S
    BY <1>2, DoublingsLand DEF InWindow
  <2>4. Up(x, k) = 2 * Up(x, k - 1)
    <3> HIDE DEF k
    <3> QED BY <1>1, <1>2, <2>1, <2>2
  <2>5. Up(x, k - 1) \in Int
    <3> HIDE DEF k
    <3> QED BY <1>1, <1>2, <2>2
  <2> HIDE DEF Up, k
  <2> QED BY <1>1, <2>3, <2>4, <2>5
<1>5. \A n \in 0 .. SCALE : /\ 2^n \in Nat /\ 2^n > 0 /\ Up(x, n) \in Nat /\ Up(x + 1, n) \in Nat
                            /\ Up(x, n) <= Up(x + 1, n)
  <2> TAKE n \in 0 .. SCALE
  <2>1. 2^n \in Nat /\ 2^n > 0
    BY <1>1, PowerPositive
  <2> DEFINE c == GUARD * 2^n
  <2>2. c \in Nat
    BY <1>1, <2>1
  <2>3. Up(x, n) = x * c /\ Up(x + 1, n) = x * c + c
    BY <1>1, <1>2, <2>1
  <2>4. x * c \in Nat
    BY <1>2, <2>2
  <2> HIDE DEF c
  <2> QED BY <2>1, <2>2, <2>3, <2>4
<1>6. \A n \in 1 .. SCALE : Up(x + 1, n) = 2 * Up(x + 1, n - 1) /\ n - 1 \in 0 .. SCALE
  <2> TAKE n \in 1 .. SCALE
  <2>1. n - 1 \in 0 .. WIDTH - 1 /\ (n - 1) + 1 = n /\ n - 1 \in 0 .. SCALE
    BY <1>1
  <2>2. 2^((n - 1) + 1) = 2 * 2^(n - 1) /\ 2^(n - 1) \in Nat
    BY <1>5, <2>1, PowerAssumption
  <2>3. 2^n = 2 * 2^(n - 1)
    BY <2>1, <2>2
  <2> QED BY <1>1, <1>2, <2>1, <2>2, <2>3
<1>7. \A n \in 0 .. SCALE : Up(x + 1, n) <= 2 * Up(x, n)
  <2> TAKE n \in 0 .. SCALE
  <2> DEFINE c == GUARD * 2^n
  <2>1. c \in Nat
    BY <1>1, <1>5
  <2>2. Up(x, n) = x * c /\ Up(x + 1, n) = (x + 1) * c
    BY <1>1, <1>2, <1>5
  <2> HIDE DEF c
  <2>3. (x + 1) * c <= (2 * x) * c /\ (2 * x) * c = 2 * (x * c)
    BY <1>2, <2>1
  <2> QED BY <2>2, <2>3
<1> HIDE DEF k
<1>8. \A n \in 0 .. SCALE : Up(x + 1, n) >= S /\ (n > 0 => Up(x + 1, n - 1) < S) => Doublings(x + 1) = n
  BY <1>2, FirstReached
<1> HIDE DEF Up, S
<1>9. Up(x + 1, k) >= S
  <2>1. Up(x, k) <= Up(x + 1, k) /\ Up(x, k) \in Nat /\ Up(x + 1, k) \in Nat
    BY <1>3, <1>5
  <2> QED BY <1>1, <1>3, <2>1
<1>10. CASE k = 0
  <2>1. Doublings(x + 1) = k
    BY <1>3, <1>8, <1>9, <1>10
  <2> QED BY <1>2, <1>3, <2>1 DEF k
<1>11. CASE k > 0 /\ Up(x + 1, k - 1) < S
  <2>1. Doublings(x + 1) = k
    BY <1>3, <1>8, <1>9, <1>11
  <2> QED BY <1>2, <1>3, <2>1 DEF k
<1>12. CASE k > 0 /\ ~(Up(x + 1, k - 1) < S)
  <2>1. k - 1 \in 0 .. SCALE /\ Up(x + 1, k - 1) \in Nat
    BY <1>1, <1>3, <1>5, <1>12
  <2>2. Up(x + 1, k - 1) >= S
    BY <1>1, <1>12, <2>1
  <2>3. k - 1 > 0 => Up(x + 1, (k - 1) - 1) < S
    <3> SUFFICES ASSUME k - 1 > 0 PROVE Up(x + 1, (k - 1) - 1) < S
      OBVIOUS
    <3>1. k - 1 \in 1 .. SCALE
      BY <1>1, <2>1
    <3>2. Up(x + 1, k - 1) = 2 * Up(x + 1, (k - 1) - 1) /\ (k - 1) - 1 \in 0 .. SCALE
      BY <1>6, <3>1
    <3>3. Up(x + 1, k - 1) <= 2 * Up(x, k - 1)
      BY <1>7, <2>1
    <3>4. Up(x, k - 1) < S /\ Up(x, k - 1) \in Nat /\ Up(x + 1, (k - 1) - 1) \in Nat
      BY <1>4, <1>5, <1>12, <2>1, <3>2
    <3> QED BY <1>1, <3>2, <3>3, <3>4
  <2>4. Doublings(x + 1) = k - 1
    BY <1>8, <2>1, <2>2, <2>3
  <2> QED BY <1>2, <1>3, <1>12, <2>1, <2>4 DEF k
<1> QED BY <1>1, <1>3, <1>10, <1>11, <1>12

\* A power of two exceeds its exponent.
LEMMA PowerExceeds ==
  ASSUME NEW k \in 0 .. WIDTH
  PROVE  2^k \in Nat /\ 2^k >= k + 1
<1>1. WIDTH \in Nat
  BY WidthAssumption
<1>2. \A n \in 0 .. WIDTH : 2^n \in Nat
  BY PowerPositive
<1> DEFINE T == {n \in 0 .. WIDTH : ~(2^n >= n + 1)}
<1>3. T = {}
  <2> SUFFICES ASSUME T # {} PROVE FALSE
    OBVIOUS
  <2>1. T \subseteq Nat
    BY <1>1
  <2>2. PICK n \in T : \A y \in T : n <= y
    <3> HIDE DEF T
    <3> QED BY <2>1, LeastElement
  <2>3. n \in 0 .. WIDTH /\ ~(2^n >= n + 1)
    BY <2>2
  <2>4. n # 0
    <3>1. 2^0 >= 0 + 1
      BY PowerAssumption
    <3> HIDE DEF T
    <3> QED BY <2>3, <3>1
  <2>5. n - 1 \in 0 .. WIDTH /\ n - 1 \in 0 .. WIDTH - 1 /\ (n - 1) + 1 = n /\ ~(n <= n - 1)
    BY <1>1, <2>3, <2>4
  <2>6. n - 1 \notin T
    <3> HIDE DEF T
    <3> QED BY <2>2, <2>5
  <2>7. 2^(n - 1) >= (n - 1) + 1
    BY <2>5, <2>6
  <2>8. 2^((n - 1) + 1) = 2 * 2^(n - 1)
    BY <2>5, PowerAssumption
  <2>9. 2^n = 2 * 2^(n - 1) /\ 2^(n - 1) >= n /\ 2^(n - 1) \in Nat
    BY <1>2, <2>5, <2>7, <2>8
  <2> QED BY <2>3, <2>4, <2>9
<1> QED BY <1>2, <1>3

\* ln_inner as its last line forms it.
LEMMA LnParts ==
  ASSUME NEW x \in 1 .. ONE
  PROVE  LET k == Doublings(x)
             m == x * GUARD * 2^k
         IN  /\ ln_inner[x] = k * LN2_62 - MantissaLn(m)
             /\ k \in 0 .. SCALE /\ InWindow(m) /\ (k = 0 => m <= ONE_62)
             /\ MantissaLn(m) \in Int /\ -ONE_62 <= 2 * MantissaLn(m)
<1> DEFINE k == Doublings(x)
           m == x * GUARD * 2^k
<1>1. k \in 0 .. SCALE /\ InWindow(m) /\ (k = 0 => m <= ONE_62)
  BY DoublingsLand
<1>2. MantissaLn(m) \in Int /\ -ONE_62 <= 2 * MantissaLn(m)
  <2>1. m <= m
    BY <1>1 DEF InWindow
  <2> HIDE DEF m
  <2> QED BY <1>1, <2>1, MantissaLnGrows
<1>3. ln_inner[x] = k * LN2_62 - MantissaLn(m)
  BY DEF ln_inner, MantissaLn
<1> QED BY <1>1, <1>2, <1>3

\* The ends of the sqrt(2) window, at the granularity a base can have there.
LeastMantissa == CeilDiv(SQRT2_HALF_62, GUARD) * GUARD
LargestMantissa == ((2 * SQRT2_HALF_62 - 1) \div (2 * GUARD)) * (2 * GUARD)

LEMMA MantissaEnds ==
  ASSUME NEW p \in Nat, NEW q \in Nat,
         InWindow(2 * GUARD * p), InWindow(GUARD * q)
  PROVE  /\ InWindow(LeastMantissa) /\ InWindow(LargestMantissa)
         /\ LeastMantissa <= GUARD * q /\ 2 * GUARD * p <= LargestMantissa
         /\ LeastMantissa < SQRT2_HALF_62 + GUARD
         /\ LargestMantissa + 2 * GUARD >= 2 * SQRT2_HALF_62
<1> DEFINE S == SQRT2_HALF_62
           G == GUARD
           c == CeilDiv(S, G)
           y == (2 * S - 1) \div (2 * G)
<1>1. S \in Nat /\ G \in Nat /\ G > 0 /\ S > 0
  BY GuardFacts, LogarithmAssumption
<1>2. c \in Nat /\ S <= G * c /\ G * c < S + G
  BY <1>1, CeilDivBounds
<1>3. y \in Int /\ (2 * G) * y <= 2 * S - 1 /\ 2 * S - 1 < (2 * G) * y + 2 * G
  <2>1. 2 * S - 1 \in Int /\ 2 * G \in Nat /\ 2 * G > 0
    BY <1>1
  <2> QED BY <2>1, DivisionBounds
<1>4. S <= G * q /\ G * q < 2 * S /\ S <= 2 * G * p /\ 2 * G * p < 2 * S
  BY DEF InWindow
<1>5. LeastMantissa = G * c /\ LargestMantissa = (2 * G) * y
  BY <1>1, <1>2, <1>3 DEF LeastMantissa, LargestMantissa
<1> HIDE DEF S, G, c, y
<1>6. G * c <= G * q
  <2>1. G * c < G * (q + 1)
    <3>1. G * (q + 1) = G * q + G /\ G * c \in Int /\ G * q \in Int
      BY <1>1, <1>2
    <3> QED BY <1>1, <1>2, <1>4, <3>1
  <2>2. c <= q
    BY <1>1, <1>2, <2>1, Cancel
  <2> QED BY <1>1, <1>2, <2>2, ProductBound
<1>7. (2 * G) * p <= (2 * G) * y /\ y \in Nat
  <2>1. (2 * G) * p < (2 * G) * (y + 1)
    <3>1. (2 * G) * (y + 1) = (2 * G) * y + 2 * G /\ (2 * G) * y \in Int /\ (2 * G) * p \in Int
          /\ (2 * G) * p = 2 * G * p
      BY <1>1, <1>3
    <3> QED BY <1>1, <1>3, <1>4, <3>1
  <2>2. p <= y
    <3>1. 2 * G \in Nat /\ 2 * G > 0
      BY <1>1
    <3> QED BY <1>3, <2>1, <3>1, Cancel
  <2>3. 2 * G \in Nat /\ 2 * G <= 2 * G /\ y \in Nat
    BY <1>1, <1>3, <2>2
  <2> QED BY <2>2, <2>3, ProductBound
<1>8. G * c \in Nat /\ (2 * G) * y \in Nat /\ G * q \in Nat /\ (2 * G) * p \in Nat
      /\ (2 * G) * p = 2 * G * p
  BY <1>1, <1>2, <1>7
<1>9. InWindow(G * c) /\ InWindow((2 * G) * y)
  BY <1>1, <1>2, <1>3, <1>4, <1>6, <1>7, <1>8 DEF InWindow, S
<1>10. (2 * G) * y + 2 * G >= 2 * S
  BY <1>1, <1>3, <1>8
<1> QED BY <1>2, <1>5, <1>6, <1>7, <1>8, <1>9, <1>10 DEF S, G

LEMMA SeamGap ==
  MantissaLn(LargestMantissa) + GUARD <= MantissaLn(LeastMantissa) + LN2_62
BY SeamAssumption DEF MantissaLn, LnMantissa, LargestMantissa, LeastMantissa

\* The next base's logarithm is almost an ulp closer to zero at least, and the
\* step is a thirtieth of ONE_62's part of the logarithm.
LEMMA LnFalls ==
  ASSUME NEW x \in 1 .. ONE - 1
  PROVE  LET n == ln_inner[x]
             z == ln_inner[x + 1]
         IN  /\ n \in LnRange /\ z \in LnRange /\ n \in Nat /\ z \in Nat
             /\ n >= z + GUARD - 4 /\ 30 * n <= (n - z) * ONE_62
<1> DEFINE k == Doublings(x)
           j == Doublings(x + 1)
           m == x * GUARD * 2^k
           z == (x + 1) * GUARD * 2^j
           W == ONE_62
           G == GUARD
           L == LN2_62
           M == MantissaLn(m)
           Z == MantissaLn(z)
           h == G * 2^j
           d == (k * L - M) - (j * L - Z)
           Good == d \in Int /\ d >= G - 4 /\ d >= 21 * k + 15
<1>1. /\ x \in 1 .. ONE /\ x + 1 \in 1 .. ONE /\ k \in 0 .. SCALE /\ j \in 0 .. SCALE
      /\ j = k \/ (k > 0 /\ j = k - 1)
  BY DoublingsNext
<1>2. /\ ln_inner[x] = k * L - M /\ InWindow(m) /\ M \in Int /\ -W <= 2 * M
      /\ ln_inner[x + 1] = j * L - Z /\ InWindow(z) /\ (j = 0 => z <= W) /\ Z \in Int
  BY <1>1, LnParts
<1>3. /\ W \in Nat /\ W >= 128 /\ G \in Nat /\ G >= 64 /\ L \in Nat /\ 10 * L <= 7 * W
      /\ SCALE \in Nat /\ SCALE <= WIDTH /\ WIDTH \in Nat /\ x \in Nat /\ j \in Nat /\ k \in Nat
      /\ SQRT2_HALF_62 \in Nat
  BY <1>1, GuardFacts, LogarithmAssumption, ScaleAssumption, WidthAssumption, ScaleFacts
<1>4. 2^j \in Nat /\ 2^j >= j + 1 /\ 2^k \in Nat
  <2>1. j \in 0 .. WIDTH /\ k \in 0 .. WIDTH
    BY <1>1, <1>3
  <2> QED BY <2>1, PowerExceeds
<1>5. h \in Nat /\ h >= 64 * (j + 1) /\ h >= G * (j + 1)
  <2> DEFINE e == 2^j
  <2>1. e \in Nat /\ e >= j + 1
    BY <1>4
  <2> HIDE DEF e, j, G
  <2>2. G * e \in Nat /\ G * e >= G * (j + 1) /\ G * (j + 1) >= 64 * (j + 1)
    BY <1>3, <2>1
  <2>3. h = G * e
    BY DEF e
  <2> HIDE DEF h
  <2> QED BY <1>3, <2>2, <2>3
<1>6. z = x * h + h /\ x * h \in Nat
  <2> HIDE DEF j, G
  <2> QED BY <1>3, <1>4 DEF G
<1>7. ln_inner[x] \in LnRange /\ ln_inner[x + 1] \in LnRange
  BY <1>1, LnInnerInRange
<1>8. LnRange \subseteq Nat
  BY <1>3 DEF LnRange
<1> HIDE DEF k, j, m, z, M, Z, W, G, L
<1>9. ASSUME j = k PROVE Good
  <2>1. m = x * h
    BY <1>3, <1>4, <1>9 DEF m, G
  <2>2. z - m = h /\ m <= z /\ d = Z - M
    BY <1>2, <1>3, <1>5, <1>6, <1>9, <2>1
  <2>3. 16 * h <= 25 * (Z - M + 4) /\ (z <= W => h <= Z - M + 4)
    BY <1>2, <2>2, MantissaLnSteep DEF M, Z, W
  <2>4. ASSUME j = 0 PROVE Good
    <3>1. h = G
      BY <1>3, <2>4, PowerAssumption DEF h
    <3>2. d \in Int /\ d >= G - 4 /\ d >= 21 * k + 15
      BY <1>2, <1>3, <1>9, <2>2, <2>3, <2>4, <3>1
    <3> QED BY <3>2
  <2>5. ASSUME j > 0 PROVE Good
    <3>1. h >= 2 * G
      <4>1. G * (j + 1) >= G * 2
        BY <1>3, <2>5
      <4>2. G * (j + 1) \in Nat
        BY <1>3
      <4> HIDE DEF h
      <4> QED BY <1>3, <1>5, <4>1, <4>2
    <3>2. d \in Int /\ d >= G - 4 /\ d >= 21 * k + 15
      <4> HIDE DEF h
      <4> QED BY <1>2, <1>3, <1>5, <1>9, <2>2, <2>3, <2>5, <3>1
    <3> QED BY <3>2
  <2> QED
    <3> HIDE DEF Good
    <3> QED BY <1>3, <2>4, <2>5
<1>10. ASSUME k > 0, j = k - 1 PROVE Good
  <2> DEFINE p == x * 2^j
             q == (x + 1) * 2^j
             least == LeastMantissa
             largest == LargestMantissa
             S == SQRT2_HALF_62
  <2>1. 2^k = 2 * 2^j
    <3>1. j \in 0 .. WIDTH - 1 /\ j + 1 = k
      BY <1>1, <1>3, <1>10, ScaleAssumption
    <3>2. 2^(j + 1) = 2 * 2^j
      BY <3>1, PowerAssumption
    <3> QED BY <3>1, <3>2
  <2>2. p \in Nat /\ q \in Nat /\ m = 2 * G * p /\ z = G * q /\ m = 2 * (x * h)
    <3>1. m = x * G * (2 * 2^j)
      BY <2>1 DEF m, G
    <3>2. z = (x + 1) * G * 2^j
      BY DEF z, G
    <3> QED BY <1>3, <1>4, <3>1, <3>2
  <2>3. InWindow(2 * GUARD * p) /\ InWindow(GUARD * q)
    BY <1>2, <2>2 DEF G
  <2> HIDE DEF p, q
  <2>4. /\ InWindow(least) /\ InWindow(largest) /\ least <= z /\ m <= largest
        /\ least < S + G /\ largest + 2 * G >= 2 * S
    BY <2>2, <2>3, MantissaEnds DEF G
  <2>5. MantissaLn(largest) + G <= MantissaLn(least) + L
    BY SeamGap DEF G, L
  <2>6. /\ MantissaLn(largest) \in Int /\ M <= MantissaLn(largest)
        /\ 16 * (largest - m) <= 25 * (MantissaLn(largest) - M + 4)
    BY <1>2, <2>4, MantissaLnSteep DEF M
  <2>7. /\ MantissaLn(least) \in Int /\ MantissaLn(least) <= Z
        /\ 16 * (z - least) <= 25 * (Z - MantissaLn(least) + 4)
    BY <1>2, <2>4, MantissaLnSteep DEF Z
  <2>8. least \in Nat /\ largest \in Nat /\ m \in Nat /\ z \in Nat
    BY <1>2, <2>4 DEF InWindow
  <2>9. d = L + Z - M
    <3>1. k * L = j * L + L /\ j * L \in Int
      BY <1>3, <1>10
    <3> QED BY <1>2, <1>3, <3>1
  <2> HIDE DEF h, least, largest
  <2> HIDE DEF d
  <2> DEFINE a == MantissaLn(least)
             b == MantissaLn(largest)
  <2> HIDE DEF a, b
  <2>10. d \in Int /\ d >= G /\ d >= G + (Z - a) + (b - M)
    BY <1>2, <1>3, <2>5, <2>6, <2>7, <2>9 DEF a, b
  <2>11. 25 * d >= 25 * G + 16 * (z - least) + 16 * (largest - m) - 200
    BY <1>2, <1>3, <2>6, <2>7, <2>8, <2>10 DEF a, b
  <2>12. 2 * z - m = 2 * h
    BY <1>3, <1>5, <1>6, <2>2
  <2>13. 25 * d >= 16 * h - 7 * G - 184
    BY <1>3, <1>5, <2>4, <2>8, <2>10, <2>11, <2>12
  <2>14. d >= 21 * k + 15
    <3>1. CASE j <= 1
      BY <1>3, <1>10, <2>10, <3>1
    <3>2. CASE j > 1
      <4>1. 16 * h - 7 * G >= 1024 * j + 576
        <5>1. 16 * (G * (j + 1)) - 7 * G = G * (16 * j + 9) /\ G * (j + 1) \in Int
          BY <1>3
        <5>2. G * (16 * j + 9) >= 64 * (16 * j + 9)
          BY <1>3
        <5> QED BY <1>3, <1>5, <5>1, <5>2
      <4> QED BY <1>3, <1>5, <1>10, <2>10, <2>13, <3>2, <4>1
    <3> QED BY <1>3, <3>1, <3>2
  <2>15. d \in Int /\ d >= G - 4
    BY <1>3, <2>10
  <2> QED BY <2>14, <2>15 DEF d
<1>11. d \in Int /\ d >= G - 4 /\ d >= 21 * k + 15
  <2>1. Good
    <3> HIDE DEF Good
    <3> QED BY <1>1, <1>9, <1>10
  <2> QED BY <2>1
<1> HIDE DEF d, h
<1>12. d = ln_inner[x] - ln_inner[x + 1]
  BY <1>2 DEF d
<1>13. 30 * ln_inner[x] <= d * W
  <2>1. 10 * ln_inner[x] <= (7 * k + 5) * W
    <3>1. k * (10 * L) <= k * (7 * W)
      BY <1>3
    <3>2. k * (10 * L) = 10 * (k * L) /\ k * (7 * W) = 7 * (k * W) /\ (7 * k + 5) * W = 7 * (k * W) + 5 * W
          /\ k * L \in Int /\ k * W \in Int
      BY <1>3
    <3> QED BY <1>2, <1>3, <3>1, <3>2
  <2>2. (21 * k + 15) * W <= d * W
    BY <1>3, <1>11
  <2>3. (21 * k + 15) * W = 3 * ((7 * k + 5) * W) /\ (7 * k + 5) * W \in Int /\ d * W \in Int
    BY <1>3, <1>11
  <2>4. ln_inner[x] \in Int
    <3> HIDE DEF d
    <3>1. ln_inner[x] \in Nat
      BY <1>7, <1>8
    <3> DEFINE X == ln_inner[x]
    <3> HIDE DEF X
    <3>2. X \in Int
      BY <3>1 DEF X
    <3> QED BY <3>2 DEF X
  <2> QED BY <2>1, <2>2, <2>3, <2>4
<1> DEFINE X == ln_inner[x]
           Y == ln_inner[x + 1]
<1>14. X \in Nat /\ Y \in Nat
  BY <1>7, <1>8
<1> HIDE DEF X, Y
<1>15. X >= Y + G - 4 /\ 30 * X <= (X - Y) * W
  BY <1>3, <1>11, <1>12, <1>13, <1>14 DEF X, Y
<1> QED BY <1>7, <1>14, <1>15 DEF X, Y, G, W
-----------------------------------------------------------------------------
(***************************************************************************)
(* How a power varies with its base and its exponent.                      *)
(***************************************************************************)
\* An exponent of the domain is an i128 and a u128.
LEMMA ExponentFits ==
  ASSUME NEW y \in 1 .. MAX_RATIO * ONE
  PROVE  y \in Nat /\ y \in I128 /\ y \in U128
<1> DEFINE W == ONE_62
           a == MAX_RATIO * SCALE
           s == a * LN2_62
<1>1. /\ MAX_RATIO \in Nat /\ SCALE \in Nat /\ SCALE >= 1 /\ LN2_62 \in Nat /\ 2 * LN2_62 >= W
      /\ W \in Nat /\ W > 0 /\ ONE \in Nat /\ ONE <= W /\ s < W * W
  <2>1. ONE * 1 <= ONE * GUARD
    BY GuardFacts, ScaleFacts
  <2>2. ONE <= W /\ ONE \in Nat /\ W \in Nat /\ W > 0
    BY <2>1, ScaleFacts
  <2>3. s < W * W
    <3>1. s < ARG_ENVELOPE /\ ARG_ENVELOPE \in Nat /\ ARG_ENVELOPE <= W * W
      BY EnvelopeAssumption
    <3>2. s \in Int /\ W * W \in Int
      BY <2>2, ScaleAssumption, LogarithmAssumption
    <3> HIDE DEF s, W
    <3> QED BY <3>1, <3>2
  <2> HIDE DEF s
  <2> QED BY <2>2, <2>3, ScaleAssumption, LogarithmAssumption
<1> HIDE DEF W
<1>2. a \in Nat /\ a >= MAX_RATIO
  BY <1>1
<1> HIDE DEF a
<1>3. MAX_RATIO * W < W * (2 * W)
  <2>1. MAX_RATIO * W <= a * W /\ a * W <= a * (2 * LN2_62) /\ a * (2 * LN2_62) = 2 * s
        /\ W * (2 * W) = 2 * (W * W)
    BY <1>1, <1>2
  <2>2. s \in Int /\ W * W \in Int /\ MAX_RATIO * W \in Int /\ a * W \in Int
    BY <1>1, <1>2
  <2> HIDE DEF s
  <2> QED BY <1>1, <2>1, <2>2
<1>4. y \in Nat /\ y < 2 * (W * W)
  <2>1. MAX_RATIO * ONE <= MAX_RATIO * W /\ W * (2 * W) = 2 * (W * W)
        /\ MAX_RATIO * ONE \in Int /\ MAX_RATIO * W \in Int /\ W * W \in Int
    BY <1>1
  <2>2. y \in Nat /\ y <= MAX_RATIO * ONE
    BY <2>1
  <2> QED BY <1>3, <2>1, <2>2
<1>5. /\ 2^(WIDTH - 1) \in Nat /\ 2 * 2^(WIDTH - 1) = WORD /\ WORD \in Nat
      /\ 2 * (W * W) <= 2^(WIDTH - 1) /\ W * W \in Nat
  BY <1>1, ScaleFacts DEF W
<1> QED BY <1>4, <1>5 DEF I128, U128

\* The argument product is its exact floor.
LEMMA ArgValue ==
  ASSUME NEW y \in 1 .. MAX_RATIO * ONE, NEW n \in LnRange
  PROVE  /\ ArgProduct(y, n).value = (y * n) \div ONE
         /\ (y * n) \div ONE \in Nat
<1>1. ~Panicked(ArgProduct(y, n)) /\ y \in U128 /\ n \in U128 /\ y \in Nat
  BY ExponentFits, ArgProductFits
<1>2. SCALE \in 1 .. WIDTH - 1
  BY ScaleAssumption, WidthAssumption
<1>3. Panicked(Panic("unrepresentable"))
  BY DEF Panicked, Panic
<1>4. ArgProduct(y, n) = Value(Shr(y * n, SCALE))
  BY <1>1, <1>2, <1>3, MulShrFloor DEF ArgProduct
<1>5. ArgProduct(y, n).value = (y * n) \div ONE
  BY <1>4 DEF Value, Shr, ONE
<1>6. (y * n) \div ONE \in Nat
  <2>1. y * n \in Nat /\ ONE \in Nat /\ ONE > 0
    <3>1. n \in Nat
      BY <1>1, ScaleFacts DEF U128
    <3> QED BY <1>1, <3>1, ScaleFacts
  <2> QED BY <2>1, DivisionNat
<1> QED BY <1>5, <1>6

\* The negated logarithm falls with its argument, over any distance.
LEMMA LnInnerFalls ==
  ASSUME NEW x \in 1 .. ONE, NEW z \in 1 .. ONE, x <= z
  PROVE  ln_inner[z] <= ln_inner[x]
<1> DEFINE p(n) == ln_inner[n]
           T == {n \in x .. ONE : ~(p(n) <= p(x))}
<1>1. x \in Nat /\ z \in Nat /\ ONE \in Nat /\ z \in x .. ONE
  BY ScaleFacts
<1>2. \A n \in 1 .. ONE : p(n) \in Int
  <2>1. SCALE * LN2_62 \in Nat
    BY ScaleAssumption, LogarithmAssumption
  <2> QED BY <2>1, LnInnerInRange DEF LnRange
<1>3. \A n \in 1 .. ONE - 1 : p(n + 1) <= p(n)
  <2> TAKE n \in 1 .. ONE - 1
  <2>1. p(n) \in Nat /\ p(n + 1) \in Nat /\ p(n) >= p(n + 1) + GUARD - 4
    BY LnFalls
  <2> HIDE DEF p
  <2> QED BY <2>1, GuardFacts
<1> HIDE DEF p
<1>4. T = {}
  <2> SUFFICES ASSUME T # {} PROVE FALSE
    OBVIOUS
  <2>1. T \subseteq Nat
    BY <1>1
  <2>2. PICK n \in T : \A k \in T : n <= k
    <3> HIDE DEF T
    <3> QED BY <2>1, LeastElement
  <2>3. n \in x .. ONE /\ ~(p(n) <= p(x)) /\ p(x) \in Int
    BY <1>2, <2>2
  <2>4. n # x
    <3>1. p(x) <= p(x)
      BY <2>3
    <3> HIDE DEF T
    <3> QED BY <2>3, <3>1
  <2>5. n - 1 \in x .. ONE /\ n - 1 \in 1 .. ONE - 1 /\ (n - 1) + 1 = n /\ ~(n <= n - 1)
    BY <1>1, <2>3, <2>4
  <2>6. n - 1 \notin T
    <3> HIDE DEF T
    <3> QED BY <2>2, <2>5
  <2>7. p(n - 1) <= p(x)
    BY <2>5, <2>6
  <2>8. p(n) <= p(n - 1)
    <3>1. p((n - 1) + 1) <= p(n - 1)
      BY <1>3, <2>5
    <3> QED BY <2>5, <3>1
  <2>9. p(n - 1) \in Int /\ p(n) \in Int
    <3>1. n \in 1 .. ONE /\ n - 1 \in 1 .. ONE
      BY <1>1, <2>3, <2>5
    <3> QED BY <1>2, <3>1
  <2> QED BY <2>3, <2>7, <2>8, <2>9
<1>5. p(z) <= p(x)
  BY <1>1, <1>4
<1> QED BY <1>5 DEF p

\* A smaller base under a larger exponent nearly gives a smaller power.
LEMMA PowNearlyOrdered ==
  ASSUME NEW x \in 1 .. ONE, NEW z \in 1 .. ONE, x <= z,
         NEW y \in 1 .. MAX_RATIO * ONE, NEW w \in 1 .. MAX_RATIO * ONE, w <= y
  PROVE  /\ pow_inner(x, y) <= pow_inner(z, w) + 5
         /\ pow_inner(x, y) \in 0 .. ONE_62 /\ pow_inner(z, w) \in 0 .. ONE_62
<1> DEFINE n == ln_inner[x]
           m == ln_inner[z]
           a == (y * n) \div ONE
           b == (w * m) \div ONE
<1>1. /\ n \in LnRange /\ m \in LnRange /\ n \in Nat /\ m \in Nat /\ y \in Nat /\ w \in Nat
      /\ ONE \in Nat /\ ONE > 0 /\ m <= n
  <2>1. n \in LnRange /\ m \in LnRange /\ m <= n
    BY LnInnerInRange, LnInnerFalls
  <2>2. n \in Nat /\ m \in Nat
    <3>1. SCALE * LN2_62 \in Nat
      BY ScaleAssumption, LogarithmAssumption
    <3> QED BY <2>1, <3>1 DEF LnRange
  <2> QED BY <2>1, <2>2, ExponentFits, ScaleFacts
<1>2. pow_inner(x, y) = exp_inner[a] /\ pow_inner(z, w) = exp_inner[b] /\ a \in Nat /\ b \in Nat
  BY <1>1, ArgValue DEF pow_inner
<1>3. b <= a
  <2> HIDE DEF n, m
  <2>1. y * n \in Nat /\ w * m \in Nat /\ w * m <= y * n
    <3>1. w * m <= w * n /\ w * n <= y * n
      BY <1>1, ProductBound
    <3>2. y * n \in Nat /\ w * m \in Nat /\ w * n \in Nat
      BY <1>1
    <3> QED BY <3>1, <3>2
  <2> DEFINE p == y * n
             q == w * m
  <2> HIDE DEF p, q
  <2>2. q * ONE <= p * ONE /\ p \in Nat /\ q \in Nat
    BY <1>1, <2>1 DEF p, q
  <2> QED BY <1>1, <2>2, FractionMonotone DEF p, q
<1> HIDE DEF a, b
<1> QED BY <1>2, <1>3, ExpNearlyFalls, ExpInnerInRange

\* An exponent that stretches the least step of a logarithm to five units
\* makes the power grow with its base, with nothing to allow for.
LEMMA PowRisesOnce ==
  ASSUME NEW x \in 1 .. ONE - 1, NEW y \in 1 .. MAX_RATIO * ONE,
         5 * ONE <= y * (GUARD - 4)
  PROVE  pow_inner(x, y) <= pow_inner(x + 1, y)
<1> DEFINE n == ln_inner[x]
           m == ln_inner[x + 1]
           a == (y * n) \div ONE
           b == (y * m) \div ONE
           d == n - m
           O == ONE
           W == ONE_62
           G == GUARD
<1>1. /\ n \in LnRange /\ m \in LnRange /\ n \in Nat /\ m \in Nat
      /\ n >= m + GUARD - 4 /\ 30 * n <= (n - m) * ONE_62
  BY LnFalls
<1>2. y \in Nat /\ O \in Nat /\ O > 0 /\ W \in Nat /\ G \in Nat /\ G >= 64
  BY ExponentFits, ScaleFacts, GuardFacts
<1>3. pow_inner(x, y) = exp_inner[a] /\ pow_inner(x + 1, y) = exp_inner[b] /\ a \in Nat /\ b \in Nat
  BY <1>1, ArgValue DEF pow_inner
<1>4. d \in Nat /\ n = m + d /\ d >= G - 4 /\ 30 * n <= d * W /\ 5 * O <= y * (G - 4)
  <2> HIDE DEF n, m
  <2> QED BY <1>1, <1>2
<1> HIDE DEF n, m, d, O, W, G
<1>5. y * n \in Nat /\ y * m \in Nat /\ y * d \in Nat /\ y * n = y * m + y * d /\ y * d >= 5 * O
  <2>1. y * d >= y * (G - 4)
    BY <1>2, <1>4
  <2>2. y * (G - 4) \in Int /\ y * d \in Nat
    BY <1>2, <1>4
  <2> QED BY <1>1, <1>2, <1>4, <2>1, <2>2 DEF n, m
<1> DEFINE p == y * n
           q == y * m
           e == y * d
<1>6. p \in Nat /\ q \in Nat /\ e \in Nat /\ p = q + e /\ e >= 5 * O
  BY <1>5
<1>7. a = p \div O /\ b = q \div O
  BY DEF O
<1>8. 30 * p <= W * e
  <2>1. y * (30 * n) <= y * (d * W)
    BY <1>1, <1>2, <1>4 DEF n
  <2>2. y * (30 * n) = 30 * (y * n) /\ y * (d * W) = W * (y * d)
    BY <1>1, <1>2, <1>4 DEF n
  <2> QED BY <2>1, <2>2
<1> HIDE DEF p, q, e, a, b
<1>9. O * a <= p /\ p < O * a + O /\ O * b <= q /\ q < O * b + O
      /\ O * a \in Int /\ O * b \in Int
  <2>1. O * (p \div O) <= p /\ p < O * (p \div O) + O /\ O * (q \div O) <= q /\ q < O * (q \div O) + O
    BY <1>2, <1>6, DivisionBounds
  <2> QED BY <1>2, <1>3, <1>7, <2>1
<1>10. b + 5 <= a
  <2>1. O * (b + 5) < O * (a + 1)
    <3>1. O * (b + 5) = O * b + 5 * O /\ O * (a + 1) = O * a + O
      BY <1>2, <1>3
    <3> QED BY <1>2, <1>6, <1>9, <3>1
  <2> QED BY <1>2, <1>3, <2>1, Cancel
<1>11. 30 * b <= W * (a - b + 1)
  <2> DEFINE g == a - b + 1
  <2>1. g \in Nat /\ e <= O * g
    <3>1. O * g = O * a - O * b + O
      BY <1>2, <1>3
    <3> QED BY <1>2, <1>3, <1>6, <1>9, <1>10, <3>1
  <2> HIDE DEF g
  <2>2. W * e <= W * (O * g)
    BY <1>2, <1>6, <2>1
  <2>3. O * (30 * b) <= O * (W * g)
    <3>1. W * (O * g) = O * (W * g) /\ O * (30 * b) = 30 * (O * b) /\ W * e \in Int /\ O * (W * g) \in Int
      BY <1>2, <1>3, <1>6, <2>1
    <3> QED BY <1>6, <1>8, <1>9, <2>2, <3>1
  <2>4. O * (30 * b) < O * (W * g + 1)
    <3>1. O * (W * g + 1) = O * (W * g) + O /\ O * (W * g) \in Int /\ O * (30 * b) \in Int
      BY <1>2, <1>3, <2>1
    <3> QED BY <1>2, <2>3, <3>1
  <2>5. 30 * b <= W * g
    <3>1. 30 * b \in Int /\ W * g \in Int
      BY <1>2, <1>3, <2>1
    <3> QED BY <1>2, <2>4, <3>1, Cancel
  <2> QED BY <2>5 DEF g
<1>12. exp_inner[a] <= exp_inner[b]
  BY <1>3, <1>10, <1>11, ExpFalls DEF W
<1> QED BY <1>3, <1>12

\* The same over any distance.
LEMMA PowRises ==
  ASSUME NEW y \in 1 .. MAX_RATIO * ONE, 5 * ONE <= y * (GUARD - 4),
         NEW x \in 1 .. ONE, NEW z \in 1 .. ONE, x <= z
  PROVE  pow_inner(x, y) <= pow_inner(z, y)
<1> DEFINE p(n) == pow_inner(n, y)
           T == {n \in x .. ONE : ~(p(x) <= p(n))}
<1>1. x \in Nat /\ z \in Nat /\ ONE \in Nat /\ z \in x .. ONE
  BY ScaleFacts
<1>2. \A n \in 1 .. ONE : p(n) \in 0 .. ONE_62
  <2> TAKE n \in 1 .. ONE
  <2>1. y <= y /\ n <= n
    BY ExponentFits
  <2> QED BY <2>1, PowNearlyOrdered
<1>3. \A n \in 1 .. ONE - 1 : p(n) <= p(n + 1)
  BY PowRisesOnce
<1> HIDE DEF p
<1>4. T = {}
  <2> SUFFICES ASSUME T # {} PROVE FALSE
    OBVIOUS
  <2>1. T \subseteq Nat
    BY <1>1
  <2>2. PICK n \in T : \A k \in T : n <= k
    <3> HIDE DEF T
    <3> QED BY <2>1, LeastElement
  <2>3. n \in x .. ONE /\ ~(p(x) <= p(n))
    BY <2>2
  <2>4. p(x) \in Int /\ p(n) \in Int /\ n # x /\ ONE_62 \in Nat
    <3>1. n \in 1 .. ONE
      BY <1>1, <2>3
    <3>2. p(x) \in Int /\ p(n) \in Int
      BY <1>2, <3>1, GuardFacts
    <3>3. p(x) <= p(x)
      BY <3>2
    <3> HIDE DEF T
    <3>4. n # x
      BY <2>3, <3>3
    <3> QED BY <3>2, <3>4, GuardFacts
  <2>5. n - 1 \in x .. ONE /\ n - 1 \in 1 .. ONE - 1 /\ (n - 1) + 1 = n /\ ~(n <= n - 1) /\ n - 1 \in 1 .. ONE
    BY <1>1, <2>3, <2>4
  <2>6. n - 1 \notin T
    <3> HIDE DEF T
    <3> QED BY <2>2, <2>5
  <2>7. p(x) <= p(n - 1)
    BY <2>5, <2>6
  <2>8. p(n - 1) <= p(n)
    <3>1. p(n - 1) <= p((n - 1) + 1)
      BY <1>3, <2>5
    <3> QED BY <2>5, <3>1
  <2>9. p(n - 1) \in Int
    BY <1>2, <2>4, <2>5
  <2> QED BY <2>3, <2>4, <2>7, <2>8, <2>9
<1>5. p(x) <= p(z)
  BY <1>1, <1>4
<1> QED BY <1>5 DEF p

\* Values less than an ulp apart round to neighbours.
LEMMA RoundFollows ==
  ASSUME NEW v \in Nat, NEW w \in Nat, v <= w + GUARD
  PROVE  /\ to_scale_nearest(v) \in Nat /\ to_scale_nearest(w) \in Nat
         /\ to_scale_nearest(v) <= to_scale_nearest(w) + 1
<1> DEFINE h == GUARD \div 2
           q == to_scale_nearest(v)
<1>1. GUARD \in Nat /\ GUARD > 0 /\ h \in Nat /\ q \in Nat /\ to_scale_nearest(w) \in Nat
  BY ScaleFacts, RoundStays
<1>2. q = (v + h) \div GUARD /\ to_scale_nearest(w) = (w + h) \div GUARD
  BY DEF to_scale_nearest
<1> HIDE DEF q, h
<1>3. GUARD * q <= v + h
  <2>1. v + h \in Int
    BY <1>1
  <2> QED BY <1>1, <1>2, <2>1, DivisionBounds
<1>4. GUARD * (q - 1) <= w + h
  <2>1. GUARD * (q - 1) = GUARD * q - GUARD /\ GUARD * q \in Int
    BY <1>1
  <2> QED BY <1>1, <1>3, <2>1
<1>5. q - 1 <= (w + h) \div GUARD
  <2>1. q - 1 \in Int /\ w + h \in Int
    BY <1>1
  <2> QED BY <1>1, <1>4, <2>1, QuotientAbove
<1> QED BY <1>1, <1>2, <1>5 DEF q
=============================================================================
