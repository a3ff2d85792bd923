------------------------- MODULE Differential_proofs ------------------------
(***************************************************************************)
(* What the differential gates let through and what they stop, for every   *)
(* scale, fixture, truth and answer.  The grid brackets the truth, the     *)
(* 256-bit helpers are exact, and the bound in wei saturates only where no *)
(* difference of two amounts reaches it.                                   *)
(***************************************************************************)
EXTENDS Differential, WideTheorems

\* How many steps of the fixture's grid make one of the kernel's.
Steps == 2^(QBITS - SCALE)

LEMMA GridFacts ==
  /\ FixtureUlp \in Nat /\ FixtureUlp > 0 /\ Steps \in Nat /\ Steps > 0
  /\ Ulp = FixtureUlp * Steps
  /\ bound_ulps \in Nat /\ bound_ulps >= 1 /\ bound_ulps <= ONE
<1> DEFINE f == TRUTH_BITS - QBITS
           m == QBITS - SCALE
<1>1. /\ f \in 0 .. TRUTH_BITS /\ m \in 0 .. TRUTH_BITS /\ f + m = TRUTH_BITS - SCALE
      /\ f + m <= TRUTH_BITS /\ TRUTH_BITS \in Nat
  BY TruthAssumption, GraderAssumption, FractionAssumption
<1>2. Doubles(TRUTH_BITS)
  BY GridAssumption DEF Doubles
<1> HIDE DEF f, m
<1>3. 2^(f + m) = 2^f * 2^m
  BY <1>1, <1>2, DoublesAdds
<1>4. 2^f \in Nat /\ 2^f > 0 /\ 2^m \in Nat /\ 2^m > 0
  BY <1>1, <1>2, DoublesPositive
<1>5. ONE \in Nat /\ ONE >= 1
  BY PowerPositive, FractionAssumption, WidthAssumption DEF ONE
<1>6. bound_ulps \in Nat /\ bound_ulps >= 1 /\ bound_ulps <= ONE
  BY <1>5, GraderAssumption DEF bound_ulps
<1> QED BY <1>1, <1>3, <1>4, <1>6 DEF f, m, Ulp, FixtureUlp, Steps

\* The floor and the ceiling of a truth on the grid, in units of the truth.
\* Only where the fixture is as coarse as the kernel may the ceiling be a
\* whole step above a truth on the grid.
LEMMA GridBrackets ==
  ASSUME NEW truth \in Nat
  PROVE  LET g == q_to_scale_bounds(Shr(truth, TRUTH_BITS - QBITS), QBITS)
         IN  /\ g[1] \in Int /\ g[2] \in Int /\ g[1] <= g[2]
             /\ g[1] * Ulp <= truth /\ truth < (g[1] + 1) * Ulp
             /\ truth - FixtureUlp < g[2] * Ulp
             /\ QBITS > SCALE => (g[2] - 1) * Ulp < truth
<1> DEFINE F == FixtureUlp
           M == Steps
           q == truth \div F
           fl == q \div M
           r == q % M
           up == r # 0 \/ QBITS - SCALE = 0
           g == <<fl, IF up THEN fl + 1 ELSE fl>>
<1>1. F \in Nat /\ F > 0 /\ M \in Nat /\ M > 0 /\ Ulp = F * M
  BY GridFacts
<1>2. q_to_scale_bounds(Shr(truth, TRUTH_BITS - QBITS), QBITS) = g
  BY DEF q_to_scale_bounds, Shr, FixtureUlp, Steps
<1>3. QBITS > SCALE => ~(QBITS - SCALE = 0)
  BY GraderAssumption, FractionAssumption
<1> HIDE DEF F, M
<1>4. q \in Nat /\ F * q <= truth /\ truth < (F * q) + F
  BY <1>1, DivisionBounds, DivisionNat
<1> HIDE DEF q
<1>5. fl \in Nat /\ r \in 0 .. M - 1 /\ q = (M * fl) + r
  BY <1>1, <1>4, DivisionBounds, DivisionNat
<1> HIDE DEF fl, r
<1> DEFINE b == M * fl
           U == F * M
<1>6. b \in Nat /\ U \in Nat /\ F * b = fl * U
  BY <1>1, <1>5
<1>7. F * q = (F * b) + (F * r) /\ F * r \in Nat /\ F * b \in Nat /\ F * q \in Nat
  <2> HIDE DEF b
  <2> QED BY <1>1, <1>5, <1>6 DEF b
<1>8. (fl + 1) * U = (fl * U) + U /\ (fl - 1) * U = (fl * U) - U /\ fl * U \in Nat
  <2> HIDE DEF U
  <2> QED BY <1>5, <1>6
<1>9. F * r <= U - F /\ (r = 0 => F * r = 0) /\ (r # 0 => F * r >= F) /\ U >= F
  <2>1. \A x \in Nat, y \in Nat : x <= y => F * x <= F * y
    BY <1>1
  <2>2. r \in Nat /\ M - 1 \in Nat /\ r <= M - 1 /\ F * (M - 1) = U - F
    BY <1>1, <1>5
  <2>3. F * r <= U - F
    BY <2>1, <2>2
  <2>4. r # 0 => F * 1 <= F * r
    BY <2>1, <2>2
  <2>5. F * 0 = 0 /\ F * 1 = F
    BY <1>1
  <2> HIDE DEF U
  <2> QED BY <2>2, <2>3, <2>4, <2>5, <1>1, <1>6, <1>7
<1> DEFINE a == fl * U
           z == F * r
<1>10. /\ a <= truth /\ truth < a + U
       /\ up => truth - F < a + U
       /\ ~up => truth - F < a /\ a - U < truth
       /\ up /\ QBITS > SCALE => a < truth
  <2>1. a \in Nat /\ z \in Nat /\ U \in Nat /\ a + z <= truth /\ truth < (a + z) + F
        /\ z <= U - F /\ (r = 0 => z = 0) /\ (r # 0 => z >= F) /\ U >= F
    <3> HIDE DEF U, b
    <3> QED BY <1>4, <1>6, <1>7, <1>8, <1>9
  <2>2. up /\ QBITS > SCALE => r # 0
    BY <1>3
  <2>3. ~up => r = 0
    OBVIOUS
  <2> HIDE DEF a, z, U, up
  <2> QED BY <2>1, <2>2, <2>3, <1>1
<1>11. g[1] = fl /\ g[2] = IF up THEN fl + 1 ELSE fl
  OBVIOUS
<1> HIDE DEF g, up
<1>12. /\ g[1] * U = a /\ (g[1] + 1) * U = a + U
       /\ g[2] * U = IF up THEN a + U ELSE a
       /\ (g[2] - 1) * U = IF up THEN a ELSE a - U
       /\ g[1] \in Int /\ g[2] \in Int /\ g[1] <= g[2]
  <2>1. fl + 1 - 1 = fl
    BY <1>5
  <2> HIDE DEF U
  <2> QED BY <2>1, <1>5, <1>8, <1>11
<1> QED BY <1>1, <1>2, <1>10, <1>12 DEF F
-----------------------------------------------------------------------------
(***************************************************************************)
(* The double-width helpers.                                               *)
(***************************************************************************)
\* A carry counted by division is one recorded by comparison.
LEMMA CarryCounted ==
  ASSUME NEW W \in Nat, W > 0, NEW x \in 0 .. W - 1, NEW y \in 0 .. W - 1
  PROVE  (x + y) \div W = IF x + y >= W THEN 1 ELSE 0
<1>1. CASE x + y < W
  <2>1. x + y = (W * 0) + (x + y) /\ x + y \in Int /\ 0 <= x + y
    OBVIOUS
  <2>2. (x + y) \div W = 0
    BY <1>1, <2>1, DivisionUnique
  <2> QED BY <1>1, <2>2
<1>2. CASE x + y >= W
  <2>1. /\ x + y = (W * 1) + (x + y - W) /\ x + y - W \in Int /\ 0 <= x + y - W
        /\ x + y - W < W /\ x + y \in Int
    BY <1>2
  <2>2. (x + y) \div W = 1
    BY <2>1, DivisionUnique
  <2> QED BY <1>2, <2>2
<1> QED BY <1>1, <1>2

\* The test's product is the kernel's, written another way.
LEMMA RefereeProduct ==
  ASSUME NEW x \in U128, NEW y \in U128
  PROVE  referee_mul_wide(x, y) = mul_wide(x, y)
<1> DEFINE H == LIMB
           W == WORD
           ll == (x % H) * (y % H)
           lh == (x % H) * (y \div H)
           hl == (x \div H) * (y % H)
           mid == Wrap(lh + hl)
           low == mid % H
           shifted == low * H
<1>1. H \in Nat /\ H > 0 /\ W \in Nat /\ W > 0 /\ W = H * H
  BY LimbSquared
<1>2. x \in Nat /\ y \in Nat /\ x < H * H /\ y < H * H
  BY <1>1 DEF U128
<1> HIDE DEF H, W
<1>3. ASSUME NEW v \in Nat, v < H * H
      PROVE  v % H \in 0 .. H - 1 /\ v \div H \in 0 .. H - 1
  <2> DEFINE q == v \div H
  <2>1. v % H \in 0 .. H - 1 /\ q \in Nat /\ H * q <= v
    BY <1>1, DivisionBounds, DivisionNat
  <2> HIDE DEF q
  <2>2. ~(q >= H)
    <3> SUFFICES ASSUME q >= H PROVE FALSE
      OBVIOUS
    <3>1. H * q >= H * H
      BY <1>1, <2>1
    <3> QED BY <3>1, <2>1, <1>1, <1>3
  <2> QED BY <2>1, <2>2, <1>1 DEF q
<1>4. ASSUME NEW v \in 0 .. H - 1, NEW w \in 0 .. H - 1
      PROVE  v * w \in 0 .. W - 1
  <2>1. v * w \in Nat /\ v * w <= v * H /\ v * H \in Nat
    BY <1>1
  <2>2. v * H <= (H - 1) * H
    <3>1. H - 1 \in Nat /\ v <= H - 1 /\ v \in Nat
      BY <1>1
    <3> QED BY <3>1, <1>1
  <2>3. (H - 1) * H = (H * H) - H
    BY <1>1
  <2> QED BY <2>1, <2>2, <2>3, <1>1
<1>5. ll \in 0 .. W - 1 /\ lh \in 0 .. W - 1 /\ hl \in 0 .. W - 1
  BY <1>2, <1>3, <1>4
<1> HIDE DEF ll, lh, hl
<1>6. (lh + hl) \div W = IF lh + hl >= W THEN 1 ELSE 0
  BY <1>1, <1>5, CarryCounted
<1>7. mid \in 0 .. W - 1
  <2>1. lh + hl \in Int
    BY <1>5
  <2>2. (lh + hl) % W \in 0 .. W - 1
    BY <2>1, <1>1, DivisionBounds
  <2> QED BY <2>2 DEF Wrap, W
<1> HIDE DEF mid
<1>8. low \in 0 .. H - 1 /\ mid \div H \in Nat /\ mid = (H * (mid \div H)) + low
  BY <1>1, <1>7, DivisionBounds, DivisionNat
<1> DEFINE m == mid \div H
<1> HIDE DEF low, m
<1>9. shifted \in 0 .. W - 1 /\ shifted + H <= W
  <2>1. low <= H - 1 /\ H - 1 \in Nat /\ low \in Nat
    BY <1>1, <1>8
  <2>2. low * H <= (H - 1) * H /\ low * H \in Nat
    BY <2>1, <1>1
  <2>3. (H - 1) * H = (H * H) - H
    BY <1>1
  <2> QED BY <2>2, <2>3, <1>1
<1>10. Wrap(mid * H) = shifted
  <2>1. mid * H = (W * m) + shifted
    <3>1. m \in Nat /\ low \in Nat /\ mid = (H * m) + low
      BY <1>8 DEF m
    <3>2. ((H * m) + low) * H = ((H * H) * m) + (low * H)
      BY <3>1, <1>1
    <3> QED BY <3>1, <3>2, <1>1
  <2>2. mid * H \in Int /\ m \in Int
    BY <1>1, <1>7, <1>8 DEF m
  <2> HIDE DEF shifted
  <2>3. (mid * H) % W = shifted
    <3>1. shifted \in Int /\ 0 <= shifted /\ shifted < W
      BY <1>1, <1>9
    <3> DEFINE z == mid * H
    <3> HIDE DEF z
    <3> QED BY <3>1, <2>1, <2>2, <1>1, DivisionUnique DEF z
  <2> QED BY <2>3 DEF Wrap, W
<1>11. (ll + shifted) \div W = IF ll + shifted >= W THEN 1 ELSE 0
  <2> HIDE DEF shifted
  <2> QED BY <1>1, <1>5, <1>9, CarryCounted
<1> DEFINE hh == (x \div H) * (y \div H)
           c == (lh + hl) \div W
           d == (ll + shifted) \div W
<1>12. /\ referee_mul_wide(x, y) = <<hh + m + c * H + d, Wrap(ll + shifted)>>
       /\ mul_wide(x, y) = <<hh + m + c * H + d, Wrap(ll + shifted)>>
  <2>1. referee_mul_wide(x, y)
          = <<hh + m + c * H + ((ll + Wrap(mid * H)) \div W), Wrap(ll + Wrap(mid * H))>>
    BY DEF referee_mul_wide, ll, lh, hl, mid, m, H, W
  <2>2. mul_wide(x, y)
          = <<hh + m + (IF lh + hl >= W THEN 1 ELSE 0) * H
                + (IF ll + shifted >= W THEN 1 ELSE 0), Wrap(ll + shifted)>>
    BY DEF mul_wide, ll, lh, hl, mid, low, m, H, W
  <2> HIDE DEF shifted, hh
  <2> QED BY <2>1, <2>2, <1>6, <1>10, <1>11
<1> QED BY <1>12

\* A pair of words as the number it stands for.
Pair(p, v) == /\ p = <<p[1], p[2]>> /\ p[1] \in Nat /\ p[2] \in U128 /\ v \in Nat
              /\ (p[1] * WORD) + p[2] = v

LEMMA PairsOrdered ==
  ASSUME NEW p, NEW q, NEW v, NEW w, Pair(p, v), Pair(q, w)
  PROVE  /\ wide_lt(p, q) <=> v < w
         /\ wide_le(p, q) <=> v <= w
         /\ p = <<0, 0>> <=> v = 0
<1> DEFINE W == WORD
           a == p[1]
           b == p[2]
           c == q[1]
           d == q[2]
<1>1. W \in Nat /\ W > 0
  BY LimbSquared
<1>2. /\ a \in Nat /\ b \in 0 .. W - 1 /\ v \in Nat /\ (a * W) + b = v
      /\ c \in Nat /\ d \in 0 .. W - 1 /\ w \in Nat /\ (c * W) + d = w
  BY DEF Pair, U128
<1>3. p = <<a, b>>
  BY DEF Pair
<1>4. /\ wide_lt(p, q) <=> a < c \/ (a = c /\ b < d)
      /\ wide_le(p, q) <=> a < c \/ (a = c /\ b <= d)
  BY DEF wide_lt, wide_le
<1> HIDE DEF W, a, b, c, d
<1>5. ASSUME NEW i \in Nat, NEW j \in Nat, i < j
      PROVE  i * W \in Nat /\ j * W \in Nat /\ (i * W) + W <= j * W
  <2>1. (i + 1) * W <= j * W /\ (i + 1) * W = (i * W) + W
    BY <1>1, <1>5
  <2> QED BY <2>1, <1>1
<1>6. CASE a < c
  BY <1>1, <1>2, <1>4, <1>5, <1>6, <1>3
<1>7. CASE c < a
  <2>1. (c * W) + W <= a * W /\ c * W \in Nat /\ a * W \in Nat
    BY <1>2, <1>5, <1>7
  <2>2. w < v /\ ~(a < c) /\ a # c /\ v # 0 /\ a # 0
    BY <2>1, <1>1, <1>2, <1>7
  <2> QED BY <2>2, <1>2, <1>3, <1>4
<1>8. CASE a = c
  <2>1. a * W = c * W /\ a * W \in Nat /\ (a = 0 => a * W = 0) /\ (a * W = 0 => a = 0)
    BY <1>1, <1>2, <1>8
  <2> QED BY <2>1, <1>2, <1>3, <1>4, <1>8
<1> QED BY <1>2, <1>6, <1>7, <1>8

LEMMA ProductPair ==
  ASSUME NEW x \in U128, NEW y \in U128
  PROVE  Pair(referee_mul_wide(x, y), x * y)
<1> DEFINE p == mul_wide(x, y)
<1>1. /\ p[1] \in U128 /\ p[2] \in U128 /\ (p[1] * WORD) + p[2] = x * y
  BY MulWideExact
<1>2. p = <<p[1], p[2]>>
  BY DEF mul_wide
<1>3. referee_mul_wide(x, y) = p
  BY RefereeProduct
<1>4. x * y \in Nat
  BY DEF U128
<1>5. p[1] \in Nat
  BY <1>1 DEF U128
<1> HIDE DEF p
<1> QED BY <1>1, <1>2, <1>3, <1>4, <1>5 DEF Pair

LEMMA ShiftPair ==
  ASSUME NEW x \in U128
  PROVE  Pair(shl_wide(x, SCALE), x * ONE)
<1> DEFINE P == 2^(WIDTH - SCALE)
           W == WORD
           O == ONE
           y == x * O
           h == x \div P
<1>1. /\ P \in Nat /\ P > 0 /\ O \in Nat /\ O > 0 /\ W \in Nat /\ W > 0 /\ W = P * O
      /\ x \in Nat
  <2>1. WIDTH - SCALE \in Nat /\ SCALE \in Nat /\ (WIDTH - SCALE) + SCALE = WIDTH
        /\ WIDTH - SCALE \in 0 .. WIDTH /\ SCALE \in 0 .. WIDTH /\ WIDTH \in 0 .. WIDTH
        /\ WIDTH <= WIDTH
    BY WidthAssumption, FractionAssumption
  <2>2. 2^((WIDTH - SCALE) + SCALE) = 2^(WIDTH - SCALE) * 2^SCALE
    BY <2>1, PowerAdds
  <2>3. P \in Nat /\ P > 0 /\ O \in Nat /\ O > 0
    BY <2>1, PowerPositive DEF ONE
  <2>4. W \in Nat /\ W > 0
    BY LimbSquared
  <2> QED BY <2>1, <2>2, <2>3, <2>4 DEF ONE, WORD, U128
<1>2. shl_wide(x, SCALE) = <<h, y % W>>
  <2>1. SCALE # 0
    BY FractionAssumption
  <2> QED BY <2>1 DEF shl_wide, Shr, Wrap, ONE
<1> HIDE DEF P, W, O
<1>3. h \in Nat /\ P * h <= x /\ x < (P * h) + P
  BY <1>1, DivisionBounds, DivisionNat
<1> HIDE DEF h
<1> DEFINE r == x - (P * h)
           s == r * O
<1>4. r \in Nat /\ r <= P - 1 /\ P * h \in Nat
  BY <1>1, <1>3
<1>5. s \in Nat /\ s < W /\ y = (W * h) + s
  <2>1. y = ((P * h) + r) * O
    BY <1>1, <1>4
  <2> HIDE DEF r
  <2>2. s \in Nat /\ s <= (P - 1) * O /\ (P - 1) * O = W - O
    <3>1. P - 1 \in Nat
      BY <1>1
    <3> QED BY <3>1, <1>1, <1>4
  <2>3. ((P * h) + r) * O = ((P * O) * h) + s
    BY <1>1, <1>3, <1>4
  <2> QED BY <2>1, <2>2, <2>3, <1>1
<1> HIDE DEF s
<1>6. y \in Nat
  BY <1>1
<1> HIDE DEF y
<1>7. y % W = s
  BY <1>1, <1>3, <1>5, <1>6, DivisionUnique
<1>8. (h * W) + s = y
  BY <1>1, <1>3, <1>5
<1>9. s \in U128
  BY <1>1, <1>5 DEF U128, W
<1> QED BY <1>2, <1>3, <1>6, <1>7, <1>8, <1>9 DEF Pair, y, W, O

\* The power term of a payment's bound.
LEMMA ShiftOrMax ==
  ASSUME NEW x \in U128, NEW times \in U128
  PROVE  LET f == Shr(x * times, SCALE)
         IN  wide_shr_or_max(x, times) = IF f \in U128 THEN f ELSE WORD - 1
<1> DEFINE f == Shr(x * times, SCALE)
<1>1. SCALE \in 1 .. WIDTH - 1
  BY FractionAssumption, WidthAssumption
<1>2. /\ Recombined(x, times, SCALE) = f
      /\ ProductFits(x, times, SCALE) <=> f \in U128
  BY <1>1, RecombinedExact
<1>3. referee_mul_wide(x, times) = mul_wide(x, times)
  BY RefereeProduct
<1> HIDE DEF f
<1>4. wide_shr_or_max(x, times)
        = IF ProductFits(x, times, SCALE) THEN Recombined(x, times, SCALE) ELSE WORD - 1
  BY <1>3 DEF wide_shr_or_max, ProductFits, Recombined
<1> QED BY <1>2, <1>4 DEF f

\* Lying between neighbouring multiples is being the floor, or the ceiling.
LEMMA RoundingTests ==
  ASSUME NEW n \in Nat, NEW d \in Nat, d > 0, NEW down \in Nat, NEW up \in Nat
  PROVE  /\ down * d <= n /\ n < (down + 1) * d <=> down = n \div d
         /\ (IF n = 0 THEN up = 0
             ELSE n <= up * d /\ (up = 0 \/ (up - 1) * d < n)) <=> up = CeilDiv(n, d)
<1> DEFINE q == n \div d
           c == CeilDiv(n, d)
           x == down * d
           y == up * d
<1>1. q \in Nat /\ d * q <= n /\ n < (d * q) + d
  BY DivisionBounds, DivisionNat
<1>2. c \in Nat /\ n <= d * c /\ d * c < n + d /\ c <= n
  BY CeilDivBounds
<1>3. /\ x \in Nat /\ y \in Nat /\ (down + 1) * d = x + d /\ (up - 1) * d = y - d
      /\ x = d * down /\ y = d * up
  OBVIOUS
<1>4. x <= n /\ n < x + d => down = q
  <2> SUFFICES ASSUME x <= n, n < x + d PROVE down = q
    OBVIOUS
  <2> DEFINE r == n - x
  <2>1. n = (d * down) + r /\ r \in Int /\ 0 <= r /\ r < d /\ n \in Int /\ down \in Int
    BY <1>3
  <2> HIDE DEF r, x
  <2> QED BY <2>1, DivisionUnique
<1> HIDE DEF q, c, x, y
<1>5. down = q => x <= n /\ n < x + d
  BY <1>1, <1>3
<1>6. ASSUME NEW i \in Nat, NEW j \in Nat, i < j
      PROVE  (d * i) + d <= d * j /\ d * i \in Nat /\ d * j \in Nat
  <2>1. d * (i + 1) <= d * j /\ d * (i + 1) = (d * i) + d
    BY <1>6
  <2> QED BY <2>1
<1>7. CASE n = 0
  <2>1. c = 0
    BY <1>2, <1>7
  <2> QED BY <2>1, <1>3, <1>4, <1>5, <1>7 DEF q, c
<1>8. CASE n # 0
  <2>1. n <= y /\ (up = 0 \/ y - d < n) => up = c
    <3> SUFFICES ASSUME n <= y, up = 0 \/ y - d < n, up # c PROVE FALSE
      OBVIOUS
    <3>1. up # 0
      <4> SUFFICES ASSUME up = 0 PROVE FALSE
        OBVIOUS
      <4>1. d * up = 0
        OBVIOUS
      <4> QED BY <4>1, <1>3, <1>8
    <3>2. CASE up < c
      <4>1. y + d <= d * c /\ d * c \in Nat
        BY <3>2, <1>2, <1>3, <1>6
      <4> QED BY <4>1, <1>2, <1>3
    <3>3. CASE c < up
      <4>1. (d * c) + d <= y /\ d * c \in Nat
        BY <3>3, <1>2, <1>3, <1>6
      <4> QED BY <4>1, <3>1, <1>2, <1>3
    <3> QED BY <3>2, <3>3, <1>2
  <2>2. up = c => n <= y /\ y - d < n
    BY <1>2, <1>3
  <2> QED BY <2>1, <2>2, <1>3, <1>4, <1>5, <1>8 DEF q, c
<1> QED BY <1>7, <1>8

\* What fits a Fixed, and one more, fits a word.
LEMMA WordFacts ==
  /\ ReprMax \in Nat /\ \A i \in 0 .. ReprMax + 1 : i \in U128
  /\ ONE \in Nat /\ ONE > 0 /\ ONE \in U128 /\ WORD \in Nat
<1> DEFINE h == 2^(WIDTH - 1)
<1>1. h \in Nat /\ h > 0 /\ WORD = 2 * h
  <2>1. WIDTH - 1 \in 0 .. WIDTH - 1 /\ WIDTH - 1 \in 0 .. WIDTH /\ (WIDTH - 1) + 1 = WIDTH
    BY WidthAssumption
  <2>2. 2^((WIDTH - 1) + 1) = 2 * 2^(WIDTH - 1)
    BY <2>1, PowerAssumption
  <2> QED BY <2>1, <2>2, PowerPositive DEF WORD
<1>2. ONE \in Nat /\ ONE > 0 /\ ONE <= h
  <2>1. SCALE \in Nat /\ SCALE \in 0 .. WIDTH /\ WIDTH - 1 \in Nat /\ SCALE <= WIDTH - 1
        /\ WIDTH - 1 <= WIDTH
    BY WidthAssumption, FractionAssumption
  <2>2. 2^SCALE <= 2^(WIDTH - 1)
    BY <2>1, PowerMonotone
  <2> QED BY <2>1, <2>2, PowerPositive DEF ONE
<1>3. ReprMax = h - 1
  BY DEF ReprMax
<1> HIDE DEF h
<1> QED BY <1>1, <1>2, <1>3 DEF U128

LEMMA MulVerdictExact ==
  ASSUME NEW a \in 0 .. ReprMax, NEW b \in 0 .. ReprMax,
         NEW down \in 0 .. ReprMax, NEW up \in 0 .. ReprMax
  PROVE  mul_verdict(a, b, down, up)
           <=> down = (a * b) \div ONE /\ up = CeilDiv(a * b, ONE)
<1> DEFINE scaled(r) == shl_wide(r, SCALE)
           product == referee_mul_wide(a, b)
           n == a * b
<1>1. /\ \A i \in 0 .. ReprMax + 1 : i \in U128
      /\ ONE \in Nat /\ ONE > 0 /\ ReprMax \in Nat
  BY WordFacts
<1>2. a \in Nat /\ b \in Nat /\ n \in Nat /\ down \in Nat /\ up \in Nat
  BY <1>1
<1>3. Pair(product, n)
  BY <1>1, ProductPair
<1>4. ASSUME NEW r \in 0 .. ReprMax + 1
      PROVE  Pair(scaled(r), r * ONE)
  BY <1>1, ShiftPair
<1>5. Pair(scaled(down), down * ONE) /\ Pair(scaled(up), up * ONE)
      /\ Pair(scaled(down + 1), (down + 1) * ONE)
  BY <1>1, <1>4
<1>6. up # 0 => Pair(scaled(up - 1), (up - 1) * ONE)
  BY <1>1, <1>4
<1>7. mul_verdict(a, b, down, up)
        <=> /\ IsFloor(product, scaled(down), scaled(down + 1))
            /\ IsCeiling(product, up, scaled(up), scaled(up - 1))
  BY DEF mul_verdict
<1> HIDE DEF scaled, product, n
<1>8. IsFloor(product, scaled(down), scaled(down + 1))
        <=> down * ONE <= n /\ n < (down + 1) * ONE
  BY <1>3, <1>5, PairsOrdered DEF IsFloor
<1>9. IsCeiling(product, up, scaled(up), scaled(up - 1))
        <=> IF n = 0 THEN up = 0
            ELSE n <= up * ONE /\ (up = 0 \/ (up - 1) * ONE < n)
  <2>1. product = <<0, 0>> <=> n = 0
    BY <1>3, PairsOrdered
  <2>2. wide_le(product, scaled(up)) <=> n <= up * ONE
    BY <1>3, <1>5, PairsOrdered
  <2>3. up # 0 => (wide_lt(scaled(up - 1), product) <=> (up - 1) * ONE < n)
    BY <1>3, <1>6, PairsOrdered
  <2> QED BY <2>1, <2>2, <2>3, Zenon DEF IsCeiling
<1>10. /\ down * ONE <= n /\ n < (down + 1) * ONE <=> down = n \div ONE
       /\ (IF n = 0 THEN up = 0
           ELSE n <= up * ONE /\ (up = 0 \/ (up - 1) * ONE < n)) <=> up = CeilDiv(n, ONE)
  BY <1>1, <1>2, RoundingTests
<1> QED BY <1>7, <1>8, <1>9, <1>10, Zenon DEF n

LEMMA DivVerdictExact ==
  ASSUME NEW a \in 0 .. ReprMax, NEW b \in 0 .. ReprMax, b # 0,
         NEW down \in 0 .. ReprMax, NEW up \in 0 .. ReprMax
  PROVE  div_verdict(a, b, down, up)
           <=> down = (a * ONE) \div b /\ up = CeilDiv(a * ONE, b)
<1> DEFINE multiple(r) == referee_mul_wide(r, b)
           dividend == shl_wide(a, SCALE)
           n == a * ONE
<1>1. /\ \A i \in 0 .. ReprMax + 1 : i \in U128
      /\ ONE \in Nat /\ ONE > 0 /\ ReprMax \in Nat
  BY WordFacts
<1>2. a \in Nat /\ b \in Nat /\ b > 0 /\ n \in Nat /\ down \in Nat /\ up \in Nat
  BY <1>1
<1>3. Pair(dividend, n)
  BY <1>1, ShiftPair
<1>4. ASSUME NEW r \in 0 .. ReprMax + 1
      PROVE  Pair(multiple(r), r * b)
  BY <1>1, ProductPair
<1>5. Pair(multiple(down), down * b) /\ Pair(multiple(up), up * b)
      /\ Pair(multiple(down + 1), (down + 1) * b)
  BY <1>1, <1>4
<1>6. up # 0 => Pair(multiple(up - 1), (up - 1) * b)
  BY <1>1, <1>4
<1>7. div_verdict(a, b, down, up)
        <=> /\ IsFloor(dividend, multiple(down), multiple(down + 1))
            /\ IsCeiling(dividend, up, multiple(up), multiple(up - 1))
  BY DEF div_verdict
<1> HIDE DEF multiple, dividend, n
<1>8. IsFloor(dividend, multiple(down), multiple(down + 1))
        <=> down * b <= n /\ n < (down + 1) * b
  BY <1>3, <1>5, PairsOrdered DEF IsFloor
<1>9. IsCeiling(dividend, up, multiple(up), multiple(up - 1))
        <=> IF n = 0 THEN up = 0
            ELSE n <= up * b /\ (up = 0 \/ (up - 1) * b < n)
  <2>1. dividend = <<0, 0>> <=> n = 0
    BY <1>3, PairsOrdered
  <2>2. wide_le(dividend, multiple(up)) <=> n <= up * b
    BY <1>3, <1>5, PairsOrdered
  <2>3. up # 0 => (wide_lt(multiple(up - 1), dividend) <=> (up - 1) * b < n)
    BY <1>3, <1>6, PairsOrdered
  <2> QED BY <2>1, <2>2, <2>3, Zenon DEF IsCeiling
<1>10. /\ down * b <= n /\ n < (down + 1) * b <=> down = n \div b
       /\ (IF n = 0 THEN up = 0
           ELSE n <= up * b /\ (up = 0 \/ (up - 1) * b < n)) <=> up = CeilDiv(n, b)
  BY <1>2, RoundingTests
<1> QED BY <1>7, <1>8, <1>9, <1>10, Zenon DEF n
-----------------------------------------------------------------------------
(***************************************************************************)
(* The stages of a case, and what a gate concludes at its last one.        *)
(***************************************************************************)
Graded ==
  band = IF gate = "pow_up" THEN check_directional(grid, case.actual, "up", bound_ulps)
         ELSE IF gate = "pow_down"
              THEN check_directional(grid, case.actual, "down", bound_ulps)
              ELSE check_two_sided(grid, case.actual, bound_ulps)

ArithGates == {"mul", "div", "complement"}

Stages ==
  /\ pc \in {"quantize", "grade", "assert"} =>
       gate \in BandGates /\ case.truth \in Nat /\ case.actual \in Int
  /\ pc \in {"grade", "assert"} =>
       grid = q_to_scale_bounds(Shr(case.truth, TRUTH_BITS - QBITS), QBITS)
  /\ pc = "assert" => Graded
  /\ pc = "trade" => /\ gate \in {"payout", "payment"}
                     /\ case.truth \in U128 /\ case.actual \in U128
                     /\ case.balance \in U128
                     /\ case.sens_base \in Nat /\ case.sens_exp \in Nat
                     /\ gate = "payment" => case.sens_pow \in Nat
  /\ pc = "arith" => gate \in ArithGates /\ case.a \in 0 .. ReprMax
  /\ pc = "arith" /\ gate # "complement" =>
       /\ gate = "div" => case.b # 0
       /\ case.b \in 0 .. ReprMax
       /\ case.down \in 0 .. ReprMax /\ case.up \in 0 .. ReprMax

\* Where the error of a graded result lies.
LEMMA GradedMeans ==
  ASSUME gate \in BandGates, case.actual \in Int, Graded,
         grid[1] \in Int, grid[2] \in Int, grid[1] <= grid[2]
  PROVE  /\ band.kind \in {"ok", "wrong_side", "too_far"}
         /\ gate = "pow_up" =>
              /\ band.kind = "ok" => /\ grid[2] <= case.actual
                                     /\ case.actual <= grid[2] + bound_ulps
              /\ band.kind = "wrong_side" => case.actual <= grid[2] - 1
              /\ band.kind = "too_far" => case.actual >= grid[2] + bound_ulps + 1
         /\ gate = "pow_down" =>
              /\ band.kind = "ok" => /\ case.actual <= grid[1]
                                     /\ grid[1] - bound_ulps <= case.actual
              /\ band.kind = "wrong_side" => case.actual >= grid[1] + 1
              /\ band.kind = "too_far" => case.actual <= grid[1] - bound_ulps - 1
         /\ gate \in {"exp", "ln"} =>
              /\ band.kind # "wrong_side"
              /\ band.kind = "ok" => /\ grid[1] - bound_ulps <= case.actual
                                     /\ case.actual <= grid[2] + bound_ulps
              /\ band.kind = "too_far" => \/ case.actual <= grid[1] - bound_ulps - 1
                                          \/ case.actual >= grid[2] + bound_ulps + 1
<1> DEFINE r == case.actual
           f == grid[1]
           c == grid[2]
           n == bound_ulps
<1>1. n \in Nat
  BY GridFacts
<1>2. r \in Int /\ f \in Int /\ c \in Int /\ f <= c
  OBVIOUS
<1>3. CASE gate = "pow_up"
  <2>1. band = IF r - c < 0 THEN WrongSide(-(r - c))
               ELSE IF r - c > n THEN TooFar(r - c) ELSE Ok(r - c)
    BY <1>3 DEF Graded, check_directional
  <2> HIDE DEF r, f, c, n
  <2>2. /\ r - c < 0 => band.kind = "wrong_side"
        /\ ~(r - c < 0) /\ r - c > n => band.kind = "too_far"
        /\ ~(r - c < 0) /\ ~(r - c > n) => band.kind = "ok"
    BY <2>1 DEF WrongSide, TooFar, Ok
  <2>3. /\ band.kind \in {"ok", "wrong_side", "too_far"}
        /\ band.kind = "ok" => c <= r /\ r <= c + n
        /\ band.kind = "wrong_side" => r <= c - 1
        /\ band.kind = "too_far" => r >= c + n + 1
    BY <2>2, <1>1, <1>2
  <2> QED BY <2>3, <1>3 DEF r, f, c, n
<1>4. CASE gate = "pow_down"
  <2>1. band = IF f - r < 0 THEN WrongSide(-(f - r))
               ELSE IF f - r > n THEN TooFar(f - r) ELSE Ok(f - r)
    BY <1>4 DEF Graded, check_directional
  <2> HIDE DEF r, f, c, n
  <2>2. /\ f - r < 0 => band.kind = "wrong_side"
        /\ ~(f - r < 0) /\ f - r > n => band.kind = "too_far"
        /\ ~(f - r < 0) /\ ~(f - r > n) => band.kind = "ok"
    BY <2>1 DEF WrongSide, TooFar, Ok
  <2>3. /\ band.kind \in {"ok", "wrong_side", "too_far"}
        /\ band.kind = "ok" => r <= f /\ f - n <= r
        /\ band.kind = "wrong_side" => r >= f + 1
        /\ band.kind = "too_far" => r <= f - n - 1
    BY <2>2, <1>1, <1>2
  <2> QED BY <2>3, <1>4 DEF r, f, c, n
<1>5. CASE gate \in {"exp", "ln"}
  <2> DEFINE e == IF r < f THEN f - r ELSE IF r > c THEN r - c ELSE 0
  <2>1. band = IF e > n THEN TooFar(e) ELSE Ok(e)
    BY <1>5 DEF Graded, check_two_sided
  <2> HIDE DEF r, f, c, n, e
  <2>2. /\ e > n => band.kind = "too_far"
        /\ ~(e > n) => band.kind = "ok"
    BY <2>1 DEF TooFar, Ok
  <2>3. /\ e > n => r <= f - n - 1 \/ r >= c + n + 1
        /\ ~(e > n) => f - n <= r /\ r <= c + n
    BY <1>1, <1>2 DEF e
  <2>4. /\ band.kind \in {"ok", "too_far"}
        /\ band.kind = "ok" => f - n <= r /\ r <= c + n
        /\ band.kind = "too_far" => r <= f - n - 1 \/ r >= c + n + 1
    BY <2>2, <2>3
  <2> QED BY <2>4, <1>5 DEF r, f, c, n
<1> QED BY <1>3, <1>4, <1>5 DEF BandGates

LEMMA UlpOrder ==
  ASSUME NEW i \in Int, NEW j \in Int, i <= j
  PROVE  i * Ulp \in Int /\ j * Ulp \in Int /\ i * Ulp <= j * Ulp
<1>1. Ulp \in Nat
  BY GridFacts
<1> DEFINE U == Ulp
           d == j - i
<1> HIDE DEF U
<1>2. d \in Nat /\ d * U \in Nat /\ (i + d) * U = (i * U) + (d * U) /\ i + d = j
  <2>1. d \in Nat /\ i + d = j /\ U \in Nat
    BY <1>1 DEF U
  <2> HIDE DEF d
  <2> QED BY <2>1
<1>3. i * U \in Int /\ j * U \in Int
  BY <1>1 DEF U
<1> QED BY <1>2, <1>3 DEF U

BandDirected == /\ gate = "pow_down" => Result <= Truth
                /\ gate = "pow_up" => Result > Truth - FixtureUlp

BandFaulty ==
  \/ band.kind = "wrong_side" /\ IF gate = "pow_up" THEN Result < Truth
                                 ELSE Result > Truth
  \/ band.kind = "too_far" /\ \/ Result - Truth > bound_ulps * Ulp - FixtureUlp
                              \/ Truth - Result > bound_ulps * Ulp
  \/ band.kind = "ok" /\ ~InGateRange

BandClose == /\ Result - Truth < (bound_ulps + 1) * Ulp
             /\ Truth - Result < (bound_ulps + 1) * Ulp

LEMMA BandConclusions ==
  ASSUME Stages, pc = "assert"
  PROVE  /\ band.kind = "ok" => BandDirected
         /\ QBITS > SCALE /\ (band.kind # "ok" \/ ~InGateRange) => BandFaulty
         /\ QBITS > SCALE /\ band.kind = "ok" => BandClose
<1> DEFINE r == case.actual
           t == case.truth
           f == grid[1]
           c == grid[2]
           n == bound_ulps
           U == Ulp
           F == FixtureUlp
           R == r * U
           A == f * U
           C == c * U
           N == n * U
<1>1. /\ gate \in BandGates /\ t \in Nat /\ r \in Int /\ Graded
      /\ grid = q_to_scale_bounds(Shr(t, TRUTH_BITS - QBITS), QBITS)
  BY DEF Stages
<1>2. /\ f \in Int /\ c \in Int /\ f <= c /\ A <= t /\ t < (f + 1) * U
      /\ t - F < C /\ (QBITS > SCALE => (c - 1) * U < t)
  BY <1>1, GridBrackets
<1>3. F \in Nat /\ F > 0 /\ Steps \in Nat /\ Steps > 0 /\ U = F * Steps
      /\ n \in Nat /\ n >= 1
  BY GridFacts
<1>4. U \in Nat /\ F <= U
  <2>1. F * 1 <= F * Steps /\ F * Steps \in Nat
    <3> HIDE DEF F
    <3> QED BY <1>3
  <2> QED BY <2>1, <1>3
<1> HIDE DEF r, t, f, c, n, U, F
<1>5. /\ R \in Int /\ A \in Int /\ C \in Int /\ N \in Nat /\ N >= U
      /\ (f + 1) * U = A + U /\ (c - 1) * U = C - U /\ (n + 1) * U = N + U
      /\ (f - n) * U = A - N /\ (f - n - 1) * U = A - N - U
      /\ (c + n) * U = C + N /\ (c + n + 1) * U = C + N + U
  <2>1. N >= 1 * U
    BY <1>3, <1>4
  <2> QED BY <2>1, <1>1, <1>2, <1>3, <1>4
<1>6. ASSUME NEW i \in Int, NEW j \in Int, i <= j
      PROVE  i * U <= j * U
  BY <1>6, UlpOrder DEF U
<1>7. /\ r <= f => R <= A
      /\ c <= r => C <= R
      /\ r <= c + n => R <= C + N
      /\ f - n <= r => A - N <= R
      /\ r <= c - 1 => R <= C - U
      /\ r >= f + 1 => R >= A + U
      /\ r >= c + n + 1 => R >= C + N + U
      /\ r <= f - n - 1 => R <= A - N - U
  <2>1. r \in Int /\ f \in Int /\ c \in Int /\ c + n \in Int /\ f - n \in Int /\ c - 1 \in Int
        /\ f + 1 \in Int /\ c + n + 1 \in Int /\ f - n - 1 \in Int
    BY <1>1, <1>2, <1>3
  <2>2. r <= f => R <= A
    BY <2>1, <1>6
  <2>3. c <= r => C <= R
    BY <2>1, <1>6
  <2>4. r <= c + n => R <= C + N
    BY <2>1, <1>5, <1>6
  <2>5. f - n <= r => A - N <= R
    BY <2>1, <1>5, <1>6
  <2>6. r <= c - 1 => R <= C - U
    BY <2>1, <1>5, <1>6
  <2>7. r >= f + 1 => R >= A + U
    <3>1. f + 1 <= r => (f + 1) * U <= r * U
      BY <2>1, <1>6
    <3> QED BY <3>1, <2>1, <1>5
  <2>8. r >= c + n + 1 => R >= C + N + U
    <3>1. c + n + 1 <= r => (c + n + 1) * U <= r * U
      BY <2>1, <1>6
    <3> QED BY <3>1, <2>1, <1>5
  <2>9. r <= f - n - 1 => R <= A - N - U
    BY <2>1, <1>5, <1>6
  <2> QED BY <2>2, <2>3, <2>4, <2>5, <2>6, <2>7, <2>8, <2>9
<1>8. Result = R /\ Truth = t /\ FixtureUlp = F /\ Ulp = U /\ bound_ulps = n
  BY DEF Result, Truth, r, U, t, F, n
<1> DEFINE k == band.kind
<1>9. /\ k \in {"ok", "wrong_side", "too_far"}
      /\ gate = "pow_up" => /\ k = "ok" => c <= r /\ r <= c + n
                            /\ k = "wrong_side" => r <= c - 1
                            /\ k = "too_far" => r >= c + n + 1
      /\ gate = "pow_down" => /\ k = "ok" => r <= f /\ f - n <= r
                              /\ k = "wrong_side" => r >= f + 1
                              /\ k = "too_far" => r <= f - n - 1
      /\ gate \in {"exp", "ln"} =>
           /\ k # "wrong_side"
           /\ k = "ok" => f - n <= r /\ r <= c + n
           /\ k = "too_far" => r <= f - n - 1 \/ r >= c + n + 1
  BY <1>1, <1>2, GradedMeans DEF r, f, c, n
<1> HIDE DEF k
<1>10. gate \in {"pow_up", "pow_down", "exp", "ln"}
  BY <1>1 DEF BandGates
<1> DEFINE fine == QBITS > SCALE
<1>11. /\ A <= t /\ t < A + U /\ t - F < C /\ (fine => C - U < t)
  BY <1>2, <1>5
<1> HIDE DEF R, A, C, N, fine
<1>12. k = "ok" => /\ gate = "pow_down" => R <= t
                   /\ gate = "pow_up" => R > t - F
  BY <1>1, <1>3, <1>4, <1>5, <1>7, <1>9, <1>11
<1>13. fine /\ k = "ok" => R - t < N + U /\ t - R < N + U
  BY <1>1, <1>3, <1>4, <1>5, <1>7, <1>9, <1>10, <1>11
<1>14. fine /\ k = "wrong_side" => IF gate = "pow_up" THEN R < t ELSE R > t
  BY <1>1, <1>3, <1>4, <1>5, <1>7, <1>9, <1>10, <1>11
<1>15. k = "too_far" => R - t > N - F \/ t - R > N
  BY <1>1, <1>3, <1>4, <1>5, <1>7, <1>9, <1>10, <1>11
<1>16. k = "ok" => BandDirected
  BY <1>8, <1>12 DEF BandDirected
<1>17. fine /\ k = "ok" => BandClose
  BY <1>5, <1>8, <1>13 DEF BandClose
<1>18. fine /\ (k # "ok" \/ ~InGateRange) => BandFaulty
  BY <1>8, <1>9, <1>14, <1>15 DEF BandFaulty, k, N
<1> QED BY <1>16, <1>17, <1>18 DEF k, fine
-----------------------------------------------------------------------------
(***************************************************************************)
(* The bound of a trade, in wei.                                           *)
(***************************************************************************)
Inputs == Shr(case.sens_base + case.sens_exp, SCALE - 1)
Kernel == Shr(case.balance, SCALE) * bound_ulps
Power == IF gate = "payout" THEN 0 ELSE Shr(case.sens_pow * bound_ulps, SCALE)

\* The floored terms as numbers, each less than a wei below the exact one,
\* the kernel's by less than a wei an ulp.
LEMMA FlooredTerms ==
  ASSUME Stages, pc = "trade"
  PROVE  /\ Inputs \in Nat /\ Kernel \in Nat /\ Power \in Nat
         /\ (Inputs + Power + Kernel) * ONE <= ExactBound
         /\ ExactBound < (Inputs + Power + Kernel + 2 + bound_ulps) * ONE
         /\ ExactBound \in Nat
<1> DEFINE s == case.sens_base + case.sens_exp
           bal == case.balance
           n == bound_ulps
           O == ONE
           H == 2^(SCALE - 1)
           i == s \div H
           kb == bal \div O
           K == kb * n
           v == IF gate = "payout" THEN 0 ELSE case.sens_pow
           z == v * n
           p == z \div O
           B == bal * n
<1>1. /\ case.sens_base \in Nat /\ case.sens_exp \in Nat
      /\ s \in Nat /\ bal \in Nat /\ v \in Nat /\ gate \in {"payout", "payment"}
  BY DEF Stages, U128
<1>2. O \in Nat /\ O > 0 /\ n \in Nat /\ n >= 1
  BY WordFacts, GridFacts
<1>3. H \in Nat /\ H > 0 /\ O = 2 * H
  <2>1. SCALE - 1 \in 0 .. WIDTH - 1 /\ SCALE - 1 \in 0 .. WIDTH /\ (SCALE - 1) + 1 = SCALE
    BY FractionAssumption, WidthAssumption
  <2>2. 2^((SCALE - 1) + 1) = 2 * 2^(SCALE - 1)
    BY <2>1, PowerAssumption
  <2> QED BY <2>1, <2>2, PowerPositive DEF ONE
<1>4. /\ Inputs = i /\ Kernel = K
      /\ ExactBound = 2 * s + n * (bal + v)
  BY <1>1 DEF Inputs, Kernel, ExactBound, Shr, ONE
<1>5. Power = p
  <2>1. CASE gate = "payout"
    <3>1. z = 0
      BY <2>1, <1>2
    <3>2. z \div O = 0
      <4> HIDE DEF z, O
      <4>1. z = (O * 0) + 0 /\ 0 \in Int /\ z \in Int
        BY <1>2, <3>1
      <4> QED BY <4>1, <1>2, DivisionUnique
    <3> QED BY <3>2, <2>1 DEF Power
  <2>2. CASE gate # "payout"
    BY <2>2 DEF Power, Shr, ONE
  <2> QED BY <2>1, <2>2
<1> HIDE DEF s, bal, n, O, H, v
<1>6. i \in Nat /\ H * i <= s /\ s < (H * i) + H
  BY <1>1, <1>3, DivisionBounds, DivisionNat
<1>7. kb \in Nat /\ O * kb <= bal /\ bal < (O * kb) + O
  BY <1>1, <1>2, DivisionBounds, DivisionNat
<1>8. z \in Nat /\ B \in Nat
  BY <1>1, <1>2
<1>9. p \in Nat /\ O * p <= z /\ z < (O * p) + O
  <2> HIDE DEF z
  <2> QED BY <1>2, <1>8, DivisionBounds, DivisionNat
<1> HIDE DEF i, kb, p
<1>10. i * O <= 2 * s /\ 2 * s < (i * O) + O /\ i * O \in Nat
  <2>1. i * O = 2 * (H * i) /\ H * i \in Nat
    BY <1>3, <1>6
  <2> QED BY <2>1, <1>1, <1>3, <1>6
<1>11. K * O <= B /\ B <= (K * O) + (n * O) /\ K \in Nat /\ K * O \in Nat /\ n * O \in Nat
  <2> DEFINE y == O * kb
  <2>1. y \in Nat /\ y <= bal /\ bal <= y + O
    BY <1>1, <1>2, <1>7
  <2>2. K * O = y * n /\ K \in Nat
    BY <1>2, <1>7
  <2> HIDE DEF y, K
  <2>3. y * n <= bal * n /\ bal * n <= (y + O) * n /\ (y + O) * n = (y * n) + (n * O)
        /\ y * n \in Nat /\ n * O \in Nat
    <3>1. \A a \in Nat, b \in Nat : a <= b => a * n <= b * n
      BY <1>2
    <3>2. y * n <= bal * n /\ bal * n <= (y + O) * n
      BY <3>1, <2>1, <1>1, <1>2
    <3> QED BY <3>2, <2>1, <1>2
  <2> QED BY <2>2, <2>3, <1>2
<1>12. n * (bal + v) = B + z
  BY <1>1, <1>2
<1> HIDE DEF z, B, K
<1>13. /\ (i + p + K) * O = (i * O) + (O * p) + (K * O)
       /\ (i + p + K + 2 + n) * O = (i * O) + (O * p) + (K * O) + (2 * O) + (n * O)
       /\ O * p \in Nat
  BY <1>2, <1>6, <1>9, <1>11
<1>14. /\ (i + p + K) * O <= 2 * s + (B + z)
       /\ 2 * s + (B + z) < (i + p + K + 2 + n) * O
       /\ 2 * s + (B + z) \in Nat
  <2> DEFINE X == i * O
             Y == O * p
             Z == K * O
             N == n * O
  <2>1. /\ X \in Nat /\ Y \in Nat /\ Z \in Nat /\ N \in Nat /\ O \in Nat /\ s \in Nat
        /\ z \in Nat /\ B \in Nat
        /\ X <= 2 * s /\ 2 * s < X + O /\ Y <= z /\ z < Y + O /\ Z <= B /\ B <= Z + N
        /\ (i + p + K) * O = X + Y + Z
        /\ (i + p + K + 2 + n) * O = X + Y + Z + (2 * O) + N
    BY <1>1, <1>2, <1>8, <1>9, <1>10, <1>11, <1>13
  <2> HIDE DEF X, Y, Z, N
  <2> QED BY <2>1
<1> QED BY <1>4, <1>5, <1>6, <1>9, <1>11, <1>12, <1>14 DEF n, O

\* The sums saturate at the largest word only.
LEMMA BoundSaturates ==
  ASSUME Stages, pc = "trade", ~DirectionOnly
  PROVE  LET exact == Inputs + Power + Kernel + 1
         IN  BoundWei = IF exact \in U128 THEN exact ELSE WORD - 1
<1> DEFINE m == WORD - 1
           n == bound_ulps
           inputs == Inputs
           power == Power
           kernel == Kernel
<1>1. /\ case.sens_base \in Nat /\ case.sens_exp \in Nat /\ gate \in {"payout", "payment"}
      /\ gate = "payment" => case.sens_pow \in Nat
  BY DEF Stages
<1>2. inputs \in Nat /\ power \in Nat /\ kernel \in Nat
  BY FlooredTerms
<1>3. m \in Nat /\ WORD \in Nat /\ WORD > 0
  BY LimbSquared
<1>4. sens = case.sens_base + case.sens_exp
  BY <1>1 DEF DirectionOnly, sens, checked_add, parse_u128_checked, None, U128
<1>5. gate = "payment" => PowTerm = IF power \in U128 THEN power ELSE m
  <2> SUFFICES ASSUME gate = "payment" PROVE PowTerm = IF power \in U128 THEN power ELSE m
    OBVIOUS
  <2>1. case.sens_pow \in U128 /\ parse_u128_checked(case.sens_pow) = case.sens_pow
    BY DEF DirectionOnly, parse_u128_checked
  <2>2. n \in U128
    <3>1. n \in Nat /\ n <= ONE /\ ONE \in U128 /\ ONE \in Nat
      BY GridFacts, WordFacts
    <3> HIDE DEF n
    <3> QED BY <3>1, <1>3 DEF U128
  <2>3. LET f == Shr(case.sens_pow * n, SCALE)
        IN  wide_shr_or_max(case.sens_pow, n) = IF f \in U128 THEN f ELSE WORD - 1
    BY <2>1, <2>2, ShiftOrMax
  <2>4. power = Shr(case.sens_pow * n, SCALE)
    BY DEF Power
  <2> QED BY <2>1, <2>3, <2>4 DEF PowTerm
<1>6. BoundWei = AtMost(AtMost((IF gate = "payout" THEN inputs
                                ELSE AtMost(inputs + PowTerm, m)) + kernel, m) + 1, m)
  BY <1>4 DEF BoundWei, saturating_add, Inputs, Kernel
<1>7. gate = "payout" => power = 0
  BY DEF Power
<1> HIDE DEF m, inputs, power, kernel
<1>8. U128 = 0 .. m
  BY DEF U128, m
<1>9. CASE gate = "payout"
  <2>1. BoundWei = AtMost(AtMost(inputs + kernel, m) + 1, m)
    BY <1>6, <1>9
  <2> QED BY <2>1, <1>2, <1>3, <1>7, <1>8, <1>9 DEF AtMost, m, inputs, power, kernel
<1>10. CASE gate = "payment"
  <2> DEFINE q == PowTerm
  <2>1. q = IF power \in U128 THEN power ELSE m
    BY <1>5, <1>10
  <2>2. BoundWei = AtMost(AtMost(AtMost(inputs + q, m) + kernel, m) + 1, m)
    BY <1>6, <1>10
  <2> HIDE DEF q
  <2> DEFINE e == inputs + power + kernel + 1
  <2>3. BoundWei = IF e \in U128 THEN e ELSE m
    BY <2>1, <2>2, <1>2, <1>3, <1>8 DEF AtMost
  <2> QED BY <2>3 DEF m, inputs, power, kernel
<1> QED BY <1>1, <1>9, <1>10

TradeDirected == IF gate = "payment" THEN case.actual >= case.truth
                 ELSE case.actual <= case.truth /\ case.actual <= case.balance

TradeFaulty == \/ Loss > 0
               \/ gate = "payout" /\ case.actual > case.balance
               \/ (bound_ulps - Loss) * ONE > ExactBound

TradeClose == \/ case.sens_base + case.sens_exp >= WORD
              \/ gate = "payment" /\ case.sens_pow >= WORD
              \/ (-Loss - 1) * ONE <= ExactBound

LEMMA TradeConclusions ==
  ASSUME Stages, pc = "trade"
  PROVE  /\ TradeVerdict.kind = "ok" => TradeDirected /\ TradeClose
         /\ TradeVerdict.kind # "ok" => TradeFaulty
<1> DEFINE l == Loss
           W == WORD
           O == ONE
           n == bound_ulps
           b == BoundWei
           t == Inputs + Power + Kernel
           X == ExactBound
<1>1. /\ gate \in {"payout", "payment"} /\ W \in Nat /\ W > 0 /\ O \in Nat /\ O > 0
      /\ case.truth \in 0 .. W - 1 /\ case.actual \in 0 .. W - 1
      /\ case.balance \in 0 .. W - 1 /\ n \in Nat
      /\ case.sens_base \in Nat /\ case.sens_exp \in Nat
      /\ gate = "payment" => case.sens_pow \in Nat
  <2>1. W \in Nat /\ W > 0 /\ O \in Nat /\ O > 0 /\ n \in Nat
    BY LimbSquared, WordFacts, GridFacts
  <2> QED BY <2>1 DEF Stages, U128
<1>2. l \in Int /\ -l <= W - 1
  BY <1>1 DEF Loss
<1>3. t \in Nat /\ t * O <= X /\ X < (t + 2 + n) * O /\ X \in Nat
  <2>1. Inputs \in Nat /\ Power \in Nat /\ Kernel \in Nat
    BY FlooredTerms
  <2>2. t * O <= X /\ X < (t + 2 + n) * O /\ X \in Nat
    BY FlooredTerms
  <2> QED BY <2>1, <2>2
<1> HIDE DEF W, O, n, t, X
<1>4. ASSUME ~DirectionOnly
      PROVE  b = IF t + 1 \in U128 THEN t + 1 ELSE W - 1
  BY <1>4, BoundSaturates DEF t, W
<1>5. U128 = 0 .. W - 1
  BY DEF U128, W
<1> HIDE DEF b, l
<1>6. \A i \in Nat, j \in Nat : i <= j => i * O <= j * O
  BY <1>1
<1>7. ASSUME ~DirectionOnly, -l > b
      PROVE  (n - l) * O > X
  <2>1. t + 1 <= W - 1 /\ -l >= t + 2
    BY <1>1, <1>2, <1>3, <1>4, <1>5, <1>7
  <2>2. n - l \in Nat /\ t + 2 + n \in Nat /\ t + 2 + n <= n - l
    BY <2>1, <1>1, <1>2, <1>3
  <2>3. (t + 2 + n) * O <= (n - l) * O
    BY <2>2, <1>6
  <2>4. (t + 2 + n) * O \in Nat /\ (n - l) * O \in Nat
    BY <2>2, <1>1
  <2> QED BY <2>3, <2>4, <1>3
<1>8. ASSUME ~DirectionOnly, ~(-l > b), ~(l > 0)
      PROVE  (-l - 1) * O <= X
  <2>1. -l - 1 <= t
    BY <1>1, <1>2, <1>3, <1>4, <1>5, <1>8
  <2>2. CASE l = 0
    <3>1. (-l - 1) * O = -O
      BY <2>2, <1>1
    <3> QED BY <3>1, <1>1, <1>3
  <2>3. CASE l # 0
    <3>1. -l - 1 \in Nat
      BY <2>3, <1>2, <1>8
    <3>2. (-l - 1) * O <= t * O
      BY <3>1, <2>1, <1>3, <1>6
    <3>3. (-l - 1) * O \in Nat /\ t * O \in Nat
      BY <3>1, <1>1, <1>3
    <3> QED BY <3>2, <3>3, <1>3
  <2> QED BY <2>2, <2>3
<1> DEFINE out == gate = "payout" /\ case.actual > case.balance
           v == TradeVerdict
<1>9. v = IF l > 0 THEN WrongSide(l)
          ELSE IF out THEN TooFar(case.actual)
          ELSE IF ~DirectionOnly /\ -l > b THEN TooFar(-l) ELSE Ok(-l)
  BY DEF TradeVerdict, l, b
<1> HIDE DEF v, out
<1>10. v.kind = "ok" <=> ~(l > 0) /\ ~out /\ ~(~DirectionOnly /\ -l > b)
  BY <1>9 DEF WrongSide, TooFar, Ok
<1>11. v.kind = "ok" => TradeDirected
  BY <1>10, <1>1 DEF TradeDirected, l, Loss, out
<1>12. DirectionOnly => \/ case.sens_base + case.sens_exp >= W
                        \/ gate = "payment" /\ case.sens_pow >= W
  BY <1>1, <1>5 DEF DirectionOnly, sens, checked_add, parse_u128_checked, None
<1>13. v.kind = "ok" => TradeClose
  BY <1>8, <1>10, <1>12 DEF TradeClose, l, O, X, W
<1>14. v.kind # "ok" => TradeFaulty
  BY <1>7, <1>10 DEF TradeFaulty, l, O, X, n, out
<1> QED BY <1>11, <1>13, <1>14 DEF v
-----------------------------------------------------------------------------
(***************************************************************************)
(* The steps.                                                              *)
(***************************************************************************)
LEMMA InitStages ==
  ASSUME Init
  PROVE  Stages
BY DEF Init, Stages

LEMMA StagesKept ==
  ASSUME Stages, [Next]_vars
  PROVE  Stages'
<1>1. CASE Take
  <2>1. /\ pc' = "quantize" /\ gate' \in BandGates
        /\ case' \in [truth : Truths, actual : Results]
    BY <1>1 DEF Take
  <2>2. case'.truth \in Truths /\ case'.actual \in Results
    BY <2>1
  <2>3. I128 \subseteq Int
    <3>1. 2^(WIDTH - 1) \in Nat
      BY PowerPositive, WidthAssumption
    <3> DEFINE h == 2^(WIDTH - 1)
    <3> HIDE DEF h
    <3> QED BY <3>1 DEF I128, h
  <2>4. case'.truth \in Nat /\ case'.actual \in Int
    BY <2>2, <2>3, TruthAssumption
  <2> QED BY <2>1, <2>4 DEF Stages
<1>2. CASE Quantize
  BY <1>2 DEF Quantize, Stages
<1>3. CASE Grade
  <2>1. /\ pc = "grade" /\ pc' = "assert" /\ gate' = gate /\ case' = case /\ grid' = grid
        /\ gate \in BandGates
    BY <1>3 DEF Grade, Stages
  <2>2. gate \in {"pow_up", "pow_down", "exp", "ln"}
    BY <2>1 DEF BandGates
  <2>3. band' = CASE gate = "pow_up" ->
                       check_directional(grid, case.actual, "up", bound_ulps)
                  [] gate = "pow_down" ->
                       check_directional(grid, case.actual, "down", bound_ulps)
                  [] gate \in {"exp", "ln"} ->
                       check_two_sided(grid, case.actual, bound_ulps)
    BY <1>3 DEF Grade
  <2>4. band' = IF gate = "pow_up"
                THEN check_directional(grid, case.actual, "up", bound_ulps)
                ELSE IF gate = "pow_down"
                     THEN check_directional(grid, case.actual, "down", bound_ulps)
                     ELSE check_two_sided(grid, case.actual, bound_ulps)
    BY <2>2, <2>3, Zenon
  <2>5. Graded'
    BY <2>1, <2>4 DEF Graded
  <2> QED BY <2>1, <2>5 DEF Stages
<1>4. CASE assert_band
  BY <1>4 DEF assert_band, Stages
<1>5. CASE TakeTrade
  <2>1. pc' = "trade"
    BY <1>5 DEF TakeTrade
  <2>2. CASE gate' = "payout" /\ case' \in [truth : Wei, actual : Wei, balance : Wei,
                                  sens_base : Sensitivities, sens_exp : Sensitivities]
    BY <2>1, <2>2, TruthAssumption DEF Stages
  <2>3. CASE gate' = "payment" /\ case' \in [truth : Wei, actual : Wei, balance : Wei,
                                   sens_base : Sensitivities, sens_exp : Sensitivities,
                                   sens_pow : Sensitivities]
    BY <2>1, <2>3, TruthAssumption DEF Stages
  <2> QED BY <2>2, <2>3, <1>5 DEF TakeTrade
<1>6. CASE JudgeTrade
  BY <1>6 DEF JudgeTrade, Stages
<1>7. CASE TakeOperands
  <2>1. PICK f \in {"mul", "div"}, a \in Operands, b \in Operands :
          /\ f = "div" => b # 0
          /\ gate' = f
          /\ \E down \in Near(Floored(f, a, b)), up \in Near(Ceiled(f, a, b)) :
               case' = [a |-> a, b |-> b, down |-> down, up |-> up]
    BY <1>7 DEF TakeOperands
  <2>2. PICK down \in Near(Floored(f, a, b)), up \in Near(Ceiled(f, a, b)) :
          case' = [a |-> a, b |-> b, down |-> down, up |-> up]
    BY <2>1
  <2>3. down \in 0 .. ReprMax /\ up \in 0 .. ReprMax
    BY DEF Near
  <2>4. /\ case'.a = a /\ case'.b = b /\ case'.down = down /\ case'.up = up
        /\ a \in 0 .. ReprMax /\ b \in 0 .. ReprMax
    BY <2>2, TruthAssumption
  <2>5. pc' = "arith"
    BY <1>7 DEF TakeOperands
  <2> QED BY <2>1, <2>3, <2>4, <2>5 DEF Stages, ArithGates
<1>8. CASE TakeComplement
  <2>1. PICK a \in Operands : \E comp \in Near(AtLeast(ONE - a, 0)) :
          case' = [a |-> a, comp |-> comp]
    BY <1>8 DEF TakeComplement
  <2>2. case'.a = a /\ a \in 0 .. ReprMax
    BY <2>1, TruthAssumption
  <2>3. pc' = "arith" /\ gate' = "complement"
    BY <1>8 DEF TakeComplement
  <2> QED BY <2>2, <2>3 DEF Stages, ArithGates
<1>9. CASE JudgeArith
  BY <1>9 DEF JudgeArith, Stages, ArithGates
<1>10. CASE NextCase
  BY <1>10 DEF NextCase, Stages
<1>11. CASE UNCHANGED vars
  BY <1>11 DEF vars, Stages, Graded
<1> QED BY <1>1, <1>2, <1>3, <1>4, <1>5, <1>6, <1>7, <1>8, <1>9, <1>10, <1>11 DEF Next

\* A case ends in one of three ways.
LEMMA CaseEnds ==
  ASSUME Stages, Next
  PROVE  \/ pc' \notin {"passed", "panicked"}
         \/ assert_band /\ gate \in BandGates
         \/ JudgeTrade /\ gate \in {"payout", "payment"}
         \/ JudgeArith /\ gate \in ArithGates
<1>1. CASE \/ Take \/ Quantize \/ Grade \/ TakeTrade \/ TakeOperands
           \/ TakeComplement \/ NextCase
  BY <1>1 DEF Take, Quantize, Grade, TakeTrade, TakeOperands, TakeComplement, NextCase
<1>2. CASE assert_band \/ JudgeTrade \/ JudgeArith
  BY <1>2 DEF assert_band, JudgeTrade, JudgeArith, Stages
<1> QED BY <1>1, <1>2 DEF Next

(***************************************************************************)
(* Each property holds where its case ends and of no other stage.          *)
(***************************************************************************)
LEMMA BandStep ==
  ASSUME Stages, assert_band, gate \in BandGates
  PROVE  /\ DirectionNeverMissed'
         /\ QBITS > SCALE => NoFalseAlarm' /\ AcceptedIsClose'
<1>1. /\ pc = "assert" /\ gate' = gate /\ case' = case /\ band' = band
      /\ pc' = IF band.kind = "ok" /\ InGateRange THEN "passed" ELSE "panicked"
  BY DEF assert_band
<1>2. /\ band.kind = "ok" => BandDirected
      /\ QBITS > SCALE /\ (band.kind # "ok" \/ ~InGateRange) => BandFaulty
      /\ QBITS > SCALE /\ band.kind = "ok" => BandClose
  BY <1>1, BandConclusions
<1>3. /\ BandDirected' <=> BandDirected
      /\ BandFaulty' <=> BandFaulty
      /\ BandClose' <=> BandClose
  BY <1>1 DEF BandDirected, BandFaulty, BandClose, InGateRange, Result, Truth
<1>4. ~Trade'
  BY <1>1 DEF Trade, BandGates
<1>5. DirectionNeverMissed'
  BY <1>1, <1>2, <1>3, <1>4 DEF DirectionNeverMissed, Accepted, BandDirected
<1>6. QBITS > SCALE => NoFalseAlarm'
  BY <1>1, <1>2, <1>3, <1>4 DEF NoFalseAlarm, Alarm, BandFaulty
<1>7. QBITS > SCALE => AcceptedIsClose'
  BY <1>1, <1>2, <1>3, <1>4 DEF AcceptedIsClose, Accepted, BandClose
<1> QED BY <1>5, <1>6, <1>7

LEMMA TradeStep ==
  ASSUME Stages, JudgeTrade, gate \in {"payout", "payment"}
  PROVE  DirectionNeverMissed' /\ NoFalseAlarm' /\ AcceptedIsClose'
<1>1. /\ pc = "trade" /\ gate' = gate /\ case' = case
      /\ pc' = IF TradeVerdict.kind = "ok" THEN "passed" ELSE "panicked"
  BY DEF JudgeTrade
<1>2. /\ TradeVerdict.kind = "ok" => TradeDirected /\ TradeClose
      /\ TradeVerdict.kind # "ok" => TradeFaulty
  BY <1>1, TradeConclusions
<1>3. /\ TradeDirected' <=> TradeDirected
      /\ TradeFaulty' <=> TradeFaulty
      /\ TradeClose' <=> TradeClose
  BY <1>1 DEF TradeDirected, TradeFaulty, TradeClose, Loss, ExactBound
<1>4. ~Accepted' /\ ~Alarm'
  BY <1>1 DEF Accepted, Alarm, BandGates
<1>5. DirectionNeverMissed'
  BY <1>1, <1>2, <1>3, <1>4 DEF DirectionNeverMissed, TradeDirected
<1>6. NoFalseAlarm'
  BY <1>1, <1>2, <1>3, <1>4 DEF NoFalseAlarm, TradeFaulty
<1>7. AcceptedIsClose'
  BY <1>1, <1>2, <1>3, <1>4 DEF AcceptedIsClose, TradeClose
<1> QED BY <1>5, <1>6, <1>7

LEMMA OtherStep ==
  ASSUME pc' \notin {"passed", "panicked"} \/ gate' \in ArithGates
  PROVE  DirectionNeverMissed' /\ NoFalseAlarm' /\ AcceptedIsClose'
<1>1. ~Accepted' /\ ~Alarm' /\ ~(pc' = "passed" /\ Trade') /\ ~(pc' = "panicked" /\ Trade')
  BY DEF Accepted, Alarm, Trade, BandGates, ArithGates
<1> QED BY <1>1, Zenon DEF DirectionNeverMissed, NoFalseAlarm, AcceptedIsClose

LEMMA StutterStep ==
  ASSUME UNCHANGED vars
  PROVE  /\ DirectionNeverMissed => DirectionNeverMissed'
         /\ NoFalseAlarm => NoFalseAlarm'
         /\ AcceptedIsClose => AcceptedIsClose'
         /\ VerdictExact => VerdictExact'
BY DEF vars, DirectionNeverMissed, NoFalseAlarm, AcceptedIsClose, VerdictExact,
       Accepted, Alarm, Trade, InGateRange, Result, Truth, Loss, ExactBound

LEMMA ArithStep ==
  ASSUME Stages, JudgeArith
  PROVE  VerdictExact'
<1>1. /\ pc = "arith" /\ gate' = gate /\ case' = case
      /\ pc' = IF verdict THEN "passed" ELSE "panicked"
  BY DEF JudgeArith
<1>2. /\ gate \in ArithGates /\ case.a \in 0 .. ReprMax
      /\ gate # "complement" => /\ gate = "div" => case.b # 0
                                /\ case.b \in 0 .. ReprMax
                                /\ case.down \in 0 .. ReprMax /\ case.up \in 0 .. ReprMax
  BY <1>1 DEF Stages
<1>3. ASSUME gate \in {"mul", "div"}
      PROVE  verdict <=> /\ case.down = Floored(gate, case.a, case.b)
                         /\ case.up = Ceiled(gate, case.a, case.b)
  <2>1. CASE gate = "mul"
    <3>1. mul_verdict(case.a, case.b, case.down, case.up)
            <=> /\ case.down = (case.a * case.b) \div ONE
                /\ case.up = CeilDiv(case.a * case.b, ONE)
      BY <1>2, <2>1, MulVerdictExact
    <3> QED BY <3>1, <2>1, Zenon DEF verdict, Floored, Ceiled
  <2>2. CASE gate = "div"
    <3>1. div_verdict(case.a, case.b, case.down, case.up)
            <=> /\ case.down = (case.a * ONE) \div case.b
                /\ case.up = CeilDiv(case.a * ONE, case.b)
      BY <1>2, <2>2, DivVerdictExact
    <3> QED BY <3>1, <2>2, Zenon DEF verdict, Floored, Ceiled
  <2> QED BY <1>3, <2>1, <2>2
<1>4. ASSUME gate = "complement"
      PROVE  verdict <=> case.comp = AtLeast(ONE - case.a, 0)
  <2>1. saturating_sub(ONE, case.a) = AtLeast(ONE - case.a, 0)
    <3>1. ONE \in Int /\ case.a \in Int
      BY <1>2, PowerPositive, FractionAssumption, WidthAssumption DEF ONE
    <3> QED BY <3>1 DEF saturating_sub, AtLeast
  <2> QED BY <1>4, <2>1 DEF verdict, complement_verdict
<1>5. gate \in {"mul", "div"} \/ gate = "complement"
  BY <1>2 DEF ArithGates
<1> QED BY <1>1, <1>3, <1>4, <1>5 DEF VerdictExact

IInv == /\ Stages /\ DirectionNeverMissed /\ VerdictExact
        /\ QBITS > SCALE => NoFalseAlarm /\ AcceptedIsClose

LEMMA StepKeeps ==
  ASSUME IInv, [Next]_vars
  PROVE  IInv'
<1>1. Stages /\ Stages'
  BY StagesKept DEF IInv
<1>2. CASE UNCHANGED vars
  BY <1>1, <1>2, StutterStep DEF IInv
<1>3. CASE Next
  <2>1. CASE pc' \notin {"passed", "panicked"}
    <3>1. VerdictExact'
      BY <2>1, Zenon DEF VerdictExact
    <3> QED BY <3>1, <2>1, <1>1, OtherStep DEF IInv
  <2>2. CASE assert_band /\ gate \in BandGates
    <3>1. VerdictExact'
      BY <2>2 DEF assert_band, BandGates, VerdictExact
    <3> QED BY <3>1, <2>2, <1>1, BandStep DEF IInv
  <2>3. CASE JudgeTrade /\ gate \in {"payout", "payment"}
    <3>1. VerdictExact'
      BY <2>3 DEF JudgeTrade, VerdictExact
    <3> QED BY <3>1, <2>3, <1>1, TradeStep DEF IInv
  <2>4. CASE JudgeArith /\ gate \in ArithGates
    <3>1. gate' \in ArithGates
      BY <2>4 DEF JudgeArith
    <3>2. VerdictExact'
      BY <2>4, <1>1, ArithStep
    <3> QED BY <3>1, <3>2, <1>1, OtherStep DEF IInv
  <2> QED BY <2>1, <2>2, <2>3, <2>4, <1>1, <1>3, CaseEnds
<1> QED BY <1>2, <1>3

LEMMA InitInv ==
  ASSUME Init
  PROVE  IInv
<1>1. pc = "case" /\ Stages
  BY InitStages DEF Init
<1> QED BY <1>1 DEF IInv, DirectionNeverMissed, NoFalseAlarm, AcceptedIsClose,
                    VerdictExact, Accepted, Alarm

LEMMA GatesInvariant == Spec => []IInv
<1> QED BY InitInv, StepKeeps, PTL DEF Spec

(***************************************************************************)
(* No gate lets a result on the fund-leak side through, for every truth    *)
(* and every answer.                                                       *)
(***************************************************************************)
THEOREM GatesKeepDirection == Spec => []DirectionNeverMissed
<1>1. IInv => DirectionNeverMissed
  BY DEF IInv
<1> QED BY <1>1, GatesInvariant, PTL

(***************************************************************************)
(* The arithmetic test passes the correctly rounded answers and no other,  *)
(* for every pair of operands and every width.                             *)
(***************************************************************************)
THEOREM ArithmeticTestExact == Spec => []VerdictExact
<1>1. IInv => VerdictExact
  BY DEF IInv
<1> QED BY <1>1, GatesInvariant, PTL

(***************************************************************************)
(* Where the fixture is finer than the kernel's grid, a gate panics on     *)
(* nothing but a fault.  Were it as coarse, a truth on the grid would have *)
(* a ceiling a whole step above it and an exact pow_up would be refused.   *)
(***************************************************************************)
THEOREM AlarmsAreFaults == ASSUME QBITS > SCALE PROVE Spec => []NoFalseAlarm
<1>1. IInv => NoFalseAlarm
  BY DEF IInv
<1> QED BY <1>1, GatesInvariant, PTL

(***************************************************************************)
(* On the same condition, what passes is as close as the bounds say, in    *)
(* ulps and in wei.                                                        *)
(***************************************************************************)
THEOREM AcceptedResultsClose == ASSUME QBITS > SCALE PROVE Spec => []AcceptedIsClose
<1>1. IInv => AcceptedIsClose
  BY DEF IInv
<1> QED BY <1>1, GatesInvariant, PTL
=============================================================================
