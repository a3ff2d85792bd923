---------------------------- MODULE WideTheorems ----------------------------
(***************************************************************************)
(* What the proofs about the kernel need of powers of two, of the rounding *)
(* divisions and of the widening multiply.  The laws of 2^n are derived    *)
(* from its recurrence, each by taking a least counterexample; mul_wide is *)
(* shown to be the schoolbook product, then each shifted form to be the    *)
(* exact floor or ceiling.                                                 *)
(***************************************************************************)
EXTENDS Wide, WellFoundedInduction, TLAPS

\* A nonempty set of naturals has a least element.
LEMMA LeastElement ==
  ASSUME NEW T, T \subseteq Nat, T # {}
  PROVE  \E x \in T : \A y \in T : x <= y
<1> DEFINE R == {ss \in Nat \X Nat : ss[1] < ss[2]}
<1>1. IsWellFoundedOn(R, Nat)
  BY NatLessThanWellFounded DEF OpToRel
<1>2. PICK x \in T : \A y \in T : ~(<<y, x>> \in R)
  <2> HIDE DEF R
  <2> QED BY <1>1, WFMin
<1>3. ASSUME NEW y \in T PROVE x <= y
  <2>1. x \in Nat /\ y \in Nat
    OBVIOUS
  <2>2. ~(y < x)
    BY <2>1, <1>2
  <2> QED BY <2>1, <2>2
<1> QED BY <1>3

\* The recurrence of the powers of two up to the N-th.
Doubles(N) == 2^0 = 1 /\ \A n \in 0 .. N - 1 : 2^(n + 1) = 2 * 2^n

LEMMA DoublesPositive ==
  ASSUME NEW N \in Nat, Doubles(N)
  PROVE  \A n \in 0 .. N : 2^n \in Nat /\ 2^n > 0
<1> DEFINE T == {n \in 0 .. N : ~(2^n \in Nat /\ 2^n > 0)}
<1> SUFFICES ASSUME T # {} PROVE FALSE
  OBVIOUS
<1>1. T \subseteq Nat
  OBVIOUS
<1>2. PICK x \in T : \A y \in T : x <= y
  <2> HIDE DEF T
  <2> QED BY <1>1, LeastElement
<1>3. x # 0
  <2> SUFFICES ASSUME x = 0 PROVE FALSE
    OBVIOUS
  <2>1. 2^x = 1
    BY DEF Doubles
  <2> QED BY <2>1
<1>4. x - 1 \in 0 .. N - 1 /\ x - 1 \notin T
  BY <1>2, <1>3
<1>5. 2^(x - 1) \in Nat /\ 2^(x - 1) > 0
  BY <1>4
<1>6. 2^((x - 1) + 1) = 2 * 2^(x - 1)
  BY <1>4 DEF Doubles
<1>7. 2^x = 2 * 2^(x - 1)
  BY <1>6, <1>4
<1> QED BY <1>5, <1>7

LEMMA DoublesAdds ==
  ASSUME NEW N \in Nat, Doubles(N), NEW m \in Nat, NEW n \in Nat, m + n <= N
  PROVE  2^(m + n) = 2^m * 2^n
<1> DEFINE T == {i \in 0 .. N - m : 2^(m + i) # 2^m * 2^i}
<1>0. n \in 0 .. N - m
  OBVIOUS
<1> SUFFICES ASSUME T # {} PROVE FALSE
  BY <1>0, Zenon
<1>1. T \subseteq Nat
  OBVIOUS
<1>2. PICK x \in T : \A y \in T : x <= y
  <2> HIDE DEF T
  <2> QED BY <1>1, LeastElement
<1>3. x # 0
  <2> SUFFICES ASSUME x = 0 PROVE FALSE
    OBVIOUS
  <2>1. 2^x = 1 /\ 2^(m + x) = 2^m
    BY DEF Doubles
  <2>2. 2^m \in Nat
    BY DoublesPositive
  <2> QED BY <2>1, <2>2
<1>4. x - 1 \in 0 .. N - m /\ x - 1 \notin T
  BY <1>2, <1>3
<1> DEFINE y == x - 1
<1>5. y \in 0 .. N - 1 /\ m + y \in 0 .. N - 1 /\ x = y + 1
  BY <1>4, <1>3
<1>6. 2^(m + y) = 2^m * 2^y
  BY <1>4
<1>7. 2^(y + 1) = 2 * 2^y /\ 2^((m + y) + 1) = 2 * 2^(m + y)
  BY <1>5 DEF Doubles
<1>8. 2^m \in Nat /\ 2^y \in Nat
  BY <1>5, DoublesPositive
<1>9. (m + y) + 1 = m + x
  BY <1>5
<1> HIDE DEF y
<1>10. 2^(m + x) = 2 * (2^m * 2^y) /\ 2^x = 2 * 2^y
  BY <1>5, <1>6, <1>7, <1>9
<1>11. 2^(m + x) = 2^m * 2^x
  BY <1>8, <1>10
<1> QED BY <1>11

\* Every power of two of the word is a positive number (shifts by it are
\* divisions).
LEMMA PowerPositive ==
  \A n \in 0 .. WIDTH : 2^n \in Nat /\ 2^n > 0
<1>1. WIDTH \in Nat /\ Doubles(WIDTH)
  BY WidthAssumption, PowerAssumption DEF Doubles
<1> QED BY <1>1, DoublesPositive

\* Exponents add: how a shift by s splits a word in two parts.
LEMMA PowerAdds ==
  ASSUME NEW m \in Nat, NEW n \in Nat, m + n <= WIDTH
  PROVE  2^(m + n) = 2^m * 2^n
<1>1. WIDTH \in Nat /\ Doubles(WIDTH)
  BY WidthAssumption, PowerAssumption DEF Doubles
<1> QED BY <1>1, DoublesAdds

\* A larger exponent gives a larger power.
LEMMA PowerMonotone ==
  ASSUME NEW m \in Nat, NEW n \in Nat, m <= n, n <= WIDTH
  PROVE  2^m <= 2^n
<1> DEFINE d == n - m
<1>1. d \in Nat /\ m + d = n /\ d <= WIDTH /\ m <= WIDTH
  BY WidthAssumption
<1> HIDE DEF d
<1>2. 2^n = 2^m * 2^d
  BY <1>1, PowerAdds, WidthAssumption
<1>3. 2^m \in Nat /\ 2^d \in Nat /\ 2^d >= 1
  BY <1>1, PowerPositive, WidthAssumption
<1> QED BY <1>2, <1>3

\* The quotient and remainder that name each other.
LEMMA DivisionUnique ==
  ASSUME NEW x \in Int, NEW d \in Nat, d > 0, NEW q \in Int, NEW r \in Int,
         x = (d * q) + r, 0 <= r, r < d
  PROVE  x \div d = q /\ x % d = r
<1>1. x \div d = q
  BY SMT
<1>2. x = (d * (x \div d)) + (x % d)
  BY SMT
<1> QED BY <1>1, <1>2

\* What a floor division leaves.
LEMMA DivisionBounds ==
  ASSUME NEW x \in Int, NEW d \in Nat, d > 0
  PROVE  /\ x \div d \in Int
         /\ x % d \in 0 .. d - 1
         /\ x = (d * (x \div d)) + (x % d)
         /\ d * (x \div d) <= x
         /\ x < (d * (x \div d)) + d
BY SMT

\* A natural divided by a natural is a natural not above it.
LEMMA DivisionNat ==
  ASSUME NEW x \in Nat, NEW d \in Nat, d > 0
  PROVE  x \div d \in Nat /\ x \div d <= x
BY SMT

\* div_ceil rounds up by less than one divisor, and never past the dividend.
LEMMA CeilDivBounds ==
  ASSUME NEW x \in Nat, NEW d \in Nat, d > 0
  PROVE  /\ CeilDiv(x, d) \in Nat
         /\ x <= d * CeilDiv(x, d)
         /\ d * CeilDiv(x, d) < x + d
         /\ CeilDiv(x, d) <= x
<1> DEFINE q == x \div d
           r == x % d
<1>1. /\ q \in Nat /\ r \in 0 .. d - 1
      /\ x = (d * q) + r /\ d * q <= x
  BY DivisionBounds, DivisionNat
<1>2. CeilDiv(x, d) = IF r = 0 THEN q ELSE q + 1
  BY DEF CeilDiv
<1> HIDE DEF q, r
<1>3. d * (q + 1) = (d * q) + d
  BY <1>1
<1>4. q <= d * q
  BY <1>1
<1> QED BY <1>1, <1>2, <1>3, <1>4
-----------------------------------------------------------------------------
(***************************************************************************)
(* The widening multiply.                                                  *)
(***************************************************************************)
\* Two limbs make a word.
LEMMA LimbSquared ==
  LIMB \in Nat /\ LIMB > 0 /\ WORD \in Nat /\ WORD > 0 /\ WORD = LIMB * LIMB
<1> DEFINE h == WIDTH \div 2
<1>1. h \in Nat /\ h + h = WIDTH
  BY WidthAssumption
<1> HIDE DEF h
<1>2. 2^(h + h) = 2^h * 2^h /\ 2^h \in Nat /\ 2^h > 0
  BY <1>1, PowerAdds, PowerPositive, WidthAssumption
<1>3. 2^WIDTH \in Nat /\ 2^WIDTH > 0
  BY PowerPositive, WidthAssumption
<1> QED BY <1>1, <1>2, <1>3 DEF LIMB, WORD, h

\* Schoolbook multiplication in two limbs, over plain integers.
LEMMA Schoolbook ==
  ASSUME NEW H \in Nat,
         NEW ah \in Nat, NEW al \in Nat, NEW bh \in Nat, NEW bl \in Nat
  PROVE  ((H * ah) + al) * ((H * bh) + bl)
           = ((H * H) * (ah * bh)) + (H * ((al * bh) + (ah * bl))) + (al * bl)
<1> DEFINE x == H * ah
           y == H * bh
<1>1. x \in Nat /\ y \in Nat
  OBVIOUS
<1> HIDE DEF x, y
<1>2. (x + al) * (y + bl) = (x * y) + (al * y) + (x * bl) + (al * bl)
  BY <1>1
<1> USE DEF x, y
<1>3. x * y = (H * H) * (ah * bh)
  OBVIOUS
<1>4. al * y = H * (al * bh) /\ x * bl = H * (ah * bl)
  OBVIOUS
<1>5. H * ((al * bh) + (ah * bl)) = (H * (al * bh)) + (H * (ah * bl))
  OBVIOUS
<1> QED BY <1>2, <1>3, <1>4, <1>5

\* A sum of two words keeps its value in a word and a carry.
LEMMA Carry ==
  ASSUME NEW W \in Nat, NEW x \in 0 .. W - 1, NEW y \in 0 .. W - 1
  PROVE  LET c == IF x + y >= W THEN 1 ELSE 0
         IN  (x + y) % W \in 0 .. W - 1 /\ x + y = ((x + y) % W) + (c * W)
<1>1. CASE x + y < W
  <2>1. (x + y) % W = x + y
    BY <1>1, DivisionUnique
  <2> QED BY <1>1, <2>1
<1>2. CASE x + y >= W
  <2>1. x + y = (W * 1) + (x + y - W) /\ x + y - W \in 0 .. W - 1
    BY <1>2
  <2>2. (x + y) % W = x + y - W
    BY <2>1, DivisionUnique
  <2> QED BY <1>2, <2>1, <2>2
<1> QED BY <1>1, <1>2

\* The two words mul_wide returns are the exact product.
LEMMA MulWideExact ==
  ASSUME NEW x \in U128, NEW y \in U128
  PROVE  /\ mul_wide(x, y)[1] \in U128
         /\ mul_wide(x, y)[2] \in U128
         /\ (mul_wide(x, y)[1] * WORD) + mul_wide(x, y)[2] = x * y
<1> DEFINE H == LIMB
           W == WORD
           xl == x % H
           xh == x \div H
           yl == y % H
           yh == y \div H
           ll == xl * yl
           lh == xl * yh
           hl == xh * yl
           hh == xh * yh
           mid == (lh + hl) % W
           cm == IF lh + hl >= W THEN 1 ELSE 0
           mh == mid \div H
           ml == mid % H
           sm == ml * H
           lo == (ll + sm) % W
           cl == IF ll + sm >= W THEN 1 ELSE 0
           hi == hh + mh + (cm * H) + cl
<1>1. mul_wide(x, y)[1] = hi /\ mul_wide(x, y)[2] = lo
  BY DEF mul_wide, Wrap
<1>2. H \in Nat /\ H > 0 /\ W \in Nat /\ W > 0 /\ W = H * H
  BY LimbSquared
<1>3. x \in 0 .. W - 1 /\ y \in 0 .. W - 1
  BY DEF U128
<1> HIDE DEF H, W
<1>4. /\ xl \in 0 .. H - 1 /\ xh \in Nat /\ x = (H * xh) + xl
      /\ yl \in 0 .. H - 1 /\ yh \in Nat /\ y = (H * yh) + yl
  BY <1>2, <1>3, DivisionBounds, DivisionNat
<1>5. xh < H /\ yh < H
  <2>1. ASSUME NEW q \in Nat, NEW z \in 0 .. W - 1, H * q <= z
        PROVE  q < H
    <3> SUFFICES ASSUME q >= H PROVE FALSE
      BY <1>2, <2>1
    <3>1. H * q >= H * H
      BY <1>2
    <3> QED BY <3>1, <2>1, <1>2
  <2> HIDE DEF xh, yh, xl, yl
  <2>2. H * xh <= x /\ H * yh <= y
    BY <1>2, <1>3, <1>4
  <2> QED BY <2>1, <2>2, <1>3, <1>4
<1> HIDE DEF xh, yh, xl, yl
<1>6. ASSUME NEW p \in 0 .. H - 1, NEW q \in 0 .. H - 1
      PROVE  p * q \in 0 .. W - 1
  <2>1. p * q <= (H - 1) * (H - 1) /\ p * q >= 0
    BY <1>2
  <2>2. (H - 1) * (H - 1) = (H * H) - (2 * H) + 1
    BY <1>2
  <2> QED BY <1>2, <2>1, <2>2
<1>7. ll \in 0 .. W - 1 /\ lh \in 0 .. W - 1 /\ hl \in 0 .. W - 1 /\ hh \in Nat
  BY <1>4, <1>5, <1>6, <1>2
<1>8. x * y = (W * hh) + (H * (lh + hl)) + ll
  BY <1>2, <1>4, Schoolbook
<1> HIDE DEF ll, lh, hl, hh
<1>9. mid \in 0 .. W - 1 /\ lh + hl = mid + (cm * W) /\ cm \in {0, 1}
  BY <1>2, <1>7, Carry
<1> HIDE DEF mid, cm
<1>10. mh \in Nat /\ ml \in 0 .. H - 1 /\ mid = (H * mh) + ml
  BY <1>2, <1>9, DivisionBounds, DivisionNat
<1> HIDE DEF mh, ml
<1>11. sm \in 0 .. W - 1
  <2>1. ml * H <= (H - 1) * H /\ ml * H >= 0
    BY <1>2, <1>10
  <2> QED BY <2>1, <1>2, <1>10
<1>12. sm = H * ml
  BY <1>2, <1>10
<1> HIDE DEF sm
<1>13. lo \in 0 .. W - 1 /\ ll + sm = lo + (cl * W) /\ cl \in {0, 1}
  BY <1>2, <1>7, <1>11, Carry
<1> HIDE DEF lo, cl
<1>14. H * (lh + hl) = (W * mh) + sm + ((cm * H) * W)
  <2>1. H * (lh + hl) = (H * mid) + (H * (cm * W))
    BY <1>2, <1>7, <1>9
  <2>2. H * mid = ((H * H) * mh) + (H * ml)
    BY <1>2, <1>10
  <2>3. H * (cm * W) = (cm * H) * W
    BY <1>2, <1>9
  <2> QED BY <2>1, <2>2, <2>3, <1>2, <1>12
<1>15. hi \in Nat
  BY <1>2, <1>7, <1>9, <1>10, <1>13
<1>16. hi * W = (W * hh) + (W * mh) + ((cm * H) * W) + (cl * W)
  <2> DEFINE cmH == cm * H
  <2>1. cmH \in Nat
    BY <1>2, <1>9
  <2> HIDE DEF cmH
  <2>2. (hh + mh + cmH + cl) * W = (W * hh) + (W * mh) + (cmH * W) + (cl * W)
    BY <2>1, <1>2, <1>7, <1>10, <1>13
  <2> QED BY <2>2 DEF cmH
<1>17. (hi * W) + lo = x * y
  <2> DEFINE c2 == (cm * H) * W
             g == W * hh
             e == W * mh
             f == cl * W
             r == hi * W
  <2>1. c2 \in Int /\ g \in Int /\ e \in Int /\ f \in Int /\ r \in Int
    BY <1>2, <1>7, <1>9, <1>10, <1>13, <1>15
  <2>2. x * y = g + (e + sm + c2) + ll /\ r = g + e + c2 + f /\ ll + sm = lo + f
    BY <1>8, <1>14, <1>16, <1>13
  <2> HIDE DEF c2, g, e, f, r, hi
  <2>3. r + lo = x * y
    BY <2>1, <2>2, <1>7, <1>11, <1>13
  <2> QED BY <2>3 DEF r
<1> HIDE DEF hi
<1>18. hi < W
  <2> SUFFICES ASSUME hi >= W PROVE FALSE
    BY <1>2, <1>15
  <2>1. hi * W >= W * W
    BY <1>2, <1>15
  <2>2. x * y <= (W - 1) * (W - 1)
    BY <1>2, <1>3
  <2>3. (W - 1) * (W - 1) = (W * W) - (2 * W) + 1
    BY <1>2
  <2> QED BY <2>1, <2>2, <2>3, <1>17, <1>13, <1>15, <1>2
<1>19. hi \in U128 /\ lo \in U128 /\ (hi * WORD) + lo = x * y
  BY <1>13, <1>15, <1>17, <1>18, <1>2 DEF U128, W
<1> QED BY <1>1, <1>19

\* The recombined words are the shifted product, and the fit assert decides
\* exactly whether it is a word.
LEMMA RecombinedExact ==
  ASSUME NEW x \in U128, NEW y \in U128, NEW s \in 1 .. WIDTH - 1
  PROVE  /\ 2^s \in Nat /\ 2^s > 0 /\ x * y \in Nat
         /\ Recombined(x, y, s) = Shr(x * y, s)
         /\ Discards(x, y, s) <=> (x * y) % 2^s # 0
         /\ ProductFits(x, y, s) <=> Shr(x * y, s) \in U128
<1> DEFINE hi == mul_wide(x, y)[1]
           lo == mul_wide(x, y)[2]
           D == 2^s
           P == 2^(WIDTH - s)
           lq == lo \div D
           lr == lo % D
           Q == (hi * P) + lq
<1>1. hi \in U128 /\ lo \in U128 /\ (hi * WORD) + lo = x * y
  BY MulWideExact
<1>2. /\ D \in Nat /\ D > 0 /\ P \in Nat /\ P > 0
      /\ WORD \in Nat /\ WORD = P * D
  <2>1. WIDTH - s \in Nat /\ s \in Nat /\ (WIDTH - s) + s = WIDTH
    BY WidthAssumption
  <2>2. 2^((WIDTH - s) + s) = 2^(WIDTH - s) * 2^s
    BY <2>1, PowerAdds, WidthAssumption
  <2>3. D \in Nat /\ D > 0 /\ P \in Nat /\ P > 0
    BY <2>1, PowerPositive, WidthAssumption
  <2> QED BY <2>1, <2>2, <2>3 DEF WORD
<1>3. x \in Nat /\ y \in Nat /\ x * y \in Nat
  BY <1>2 DEF U128
<1>4. Recombined(x, y, s) = Q /\ (Discards(x, y, s) <=> lr # 0)
      /\ (ProductFits(x, y, s) <=> hi \div D = 0)
  BY DEF Recombined, Discards, ProductFits, Shr
<1>5. hi \in 0 .. WORD - 1 /\ lo \in 0 .. WORD - 1
  BY <1>1 DEF U128
<1> HIDE DEF hi, lo, D, P
<1>6. lq \in Nat /\ lr \in 0 .. D - 1 /\ lo = (D * lq) + lr
  BY <1>2, <1>5, DivisionBounds, DivisionNat
<1> HIDE DEF lq, lr
<1>7. x * y = (D * Q) + lr
  <2>1. hi * WORD = D * (hi * P)
    BY <1>2, <1>5
  <2>2. D * Q = (D * (hi * P)) + (D * lq)
    BY <1>2, <1>5, <1>6
  <2>3. hi * WORD \in Int /\ D * lq \in Int
    BY <1>2, <1>5, <1>6
  <2> QED BY <2>1, <2>2, <2>3, <1>1, <1>5, <1>6
<1>8. Q \in Nat
  BY <1>2, <1>5, <1>6
<1>9. (x * y) \div D = Q /\ (x * y) % D = lr
  <2> HIDE DEF Q
  <2> QED BY <1>2, <1>3, <1>6, <1>7, <1>8, DivisionUnique
<1>10. hi \div D = 0 <=> hi < D
  BY <1>2, <1>5
<1>11. lq < P
  <2> SUFFICES ASSUME lq >= P PROVE FALSE
    BY <1>2, <1>6
  <2>1. D * lq >= D * P
    BY <1>2, <1>6
  <2>2. D * P = P * D
    BY <1>2
  <2> QED BY <2>1, <2>2, <1>2, <1>5, <1>6
<1>12. hi < D => Q < WORD
  <2> SUFFICES ASSUME hi < D PROVE Q < WORD
    OBVIOUS
  <2>1. hi * P <= (D - 1) * P
    BY <1>2, <1>5
  <2>2. (D - 1) * P = (P * D) - P
    BY <1>2
  <2>3. hi * P \in Int
    BY <1>2, <1>5
  <2> QED BY <2>1, <2>2, <2>3, <1>2, <1>6, <1>11
<1>13. ~(hi < D) => Q >= WORD
  <2> SUFFICES ASSUME hi >= D PROVE Q >= WORD
    BY <1>2, <1>5
  <2>1. hi * P >= D * P
    BY <1>2, <1>5
  <2>2. D * P = P * D /\ hi * P \in Int
    BY <1>2, <1>5
  <2> QED BY <2>1, <2>2, <1>2, <1>6
<1>14. Q \in U128 <=> hi < D
  <2> HIDE DEF Q
  <2> QED BY <1>8, <1>12, <1>13, <1>2 DEF U128
<1> HIDE DEF Q
<1>15. Recombined(x, y, s) = (x * y) \div D
  BY <1>4, <1>9
<1>16. Discards(x, y, s) <=> (x * y) % D # 0
  BY <1>4, <1>9
<1>17. ProductFits(x, y, s) <=> (x * y) \div D \in U128
  BY <1>4, <1>9, <1>10, <1>14
<1> QED BY <1>2, <1>3, <1>15, <1>16, <1>17 DEF Shr, D

\* mul_shr is the floor of the scaled product, or the fit panic.
LEMMA MulShrFloor ==
  ASSUME NEW x \in U128, NEW y \in U128, NEW s \in 1 .. WIDTH - 1
  PROVE  mul_shr(x, y, s) = IF Shr(x * y, s) \in U128
                            THEN Value(Shr(x * y, s))
                            ELSE Panic("unrepresentable")
<1>1. /\ Recombined(x, y, s) = Shr(x * y, s)
      /\ ProductFits(x, y, s) <=> Shr(x * y, s) \in U128
  BY RecombinedExact
<1> QED BY <1>1 DEF mul_shr

\* mul_shr_up is the ceiling of the scaled product; in a build with overflow
\* checks a ceiling that is no word is a panic.
LEMMA MulShrUpCeiling ==
  ASSUME NEW x \in U128, NEW y \in U128, NEW s \in 1 .. WIDTH - 1
  PROVE  IF CeilDiv(x * y, 2^s) \in U128
         THEN mul_shr_up(x, y, s) = Value(CeilDiv(x * y, 2^s))
         ELSE OVERFLOW_CHECKS => Panicked(mul_shr_up(x, y, s))
<1> DEFINE f == Shr(x * y, s)
           c == CeilDiv(x * y, 2^s)
           up == IF Discards(x, y, s) THEN 1 ELSE 0
<1>1. /\ Recombined(x, y, s) = f
      /\ Discards(x, y, s) <=> (x * y) % 2^s # 0
      /\ ProductFits(x, y, s) <=> f \in U128
      /\ f \in Nat
  BY RecombinedExact, DivisionNat DEF Shr
<1>2. c = f + up /\ up \in {0, 1}
  BY <1>1 DEF CeilDiv, Shr
<1>3. mul_shr_up(x, y, s) = IF f \in U128 THEN Add(f, up)
                            ELSE Panic("unrepresentable")
  BY <1>1 DEF mul_shr_up
<1>4. WORD \in Nat
  BY LimbSquared
<1> HIDE DEF f, c, up
<1>5. CASE c \in U128
  <2>1. f \in U128
    BY <1>1, <1>2, <1>4, <1>5 DEF U128
  <2>2. Add(f, up) = Value(c)
    BY <1>2, <1>5 DEF Add
  <2> QED BY <2>1, <2>2, <1>3, <1>5 DEF c
<1>6. CASE c \notin U128
  <2>1. OVERFLOW_CHECKS => Add(f, up) = Panic("overflow")
    BY <1>2, <1>6 DEF Add
  <2>2. OVERFLOW_CHECKS => Panicked(mul_shr_up(x, y, s))
    BY <2>1, <1>3 DEF Panicked, Panic
  <2> QED BY <2>2, <1>6 DEF c
<1> QED BY <1>5, <1>6
=============================================================================
