--------------------------- MODULE KernelConstants --------------------------
(***************************************************************************)
(* The numbers of pow.rs, digit for digit.  Everywhere else they are       *)
(* parameters that meet the assumptions of Pow; here the model checker     *)
(* evaluates, in numbers of any size, that those of the source do, and     *)
(* that they are the nearest integers their comments say they are.         *)
(***************************************************************************)
LOCAL INSTANCE Integers
LOCAL INSTANCE Sequences
LOCAL INSTANCE BigNat

\* A numeral by its groups of three digits, the sign left out.
Numeral(groups) ==
  LET value[n \in 0 .. Len(groups)] ==
        IF n = 0 THEN <<0>> ELSE Plus(Times(value[n - 1], Big(1000)), Big(groups[n]))
  IN  value[Len(groups)]

TwoTo(n) == [i \in 1 .. n \div 12 + 1 |-> IF i > n \div 12 THEN 2^(n % 12) ELSE 0]

Deployed ==
  [WIDTH |-> 128, SCALE |-> 52, LN_SCALE |-> 62, MAX_RATIO |-> 99,
   PAD_62 |-> 512, SATURATE_AT |-> 64, ESTIMATE_BITS |-> 30, ENVELOPE_BITS |-> 76,
   LN2_62 |-> Numeral(<<3, 196, 577, 161, 300, 663, 915>>),
   INV_LN2_30 |-> Numeral(<<1, 549, 82, 5>>),
   SQRT2_HALF_62 |-> Numeral(<<3, 260, 954, 456, 333, 195, 553>>)]

ATANH_TABLE == <<
  <<4, 611, 686, 18, 427, 387, 904>>, <<1, 537, 228, 672, 809, 129, 301>>,
  <<922, 337, 203, 685, 477, 581>>, <<658, 812, 288, 346, 769, 701>>,
  <<512, 409, 557, 603, 43, 100>>, <<419, 244, 183, 493, 398, 900>>,
  <<354, 745, 78, 340, 568, 300>>, <<307, 445, 734, 561, 825, 860>>,
  <<271, 275, 648, 142, 787, 524>>, <<242, 720, 316, 759, 336, 205>>,
  <<219, 604, 96, 115, 589, 900>>, <<200, 508, 87, 757, 712, 518>>,
  <<184, 467, 440, 737, 95, 516>> >>

\* The signs alternate, from +.
EXP_TABLE == <<
  <<4, 611, 686, 18, 427, 387, 904>>, <<4, 611, 686, 18, 427, 387, 904>>,
  <<2, 305, 843, 9, 213, 693, 952>>, <<768, 614, 336, 404, 564, 651>>,
  <<192, 153, 584, 101, 141, 163>>, <<38, 430, 716, 820, 228, 233>>,
  <<6, 405, 119, 470, 38, 39>>, <<915, 17, 67, 148, 291>>,
  <<114, 377, 133, 393, 536>>, <<12, 708, 570, 377, 60>>,
  <<1, 270, 857, 37, 706>>, <<115, 532, 457, 973>>, <<9, 627, 704, 831>>,
  <<740, 592, 679>>, <<52, 899, 477>>, <<3, 526, 632>>, <<220, 414>>,
  <<12, 966>>, <<720>>, <<38>> >>

Unit == TwoTo(Deployed.LN_SCALE)
Atanh(i) == Numeral(ATANH_TABLE[i])
Exp(i) == Numeral(EXP_TABLE[i])
-----------------------------------------------------------------------------
\* c is the integer nearest to unit / n.
IsNearest(c, n) ==
  LET twice == Times(Times(c, n), <<2>>)
  IN  /\ NotAbove(twice, Plus(Times(Unit, <<2>>), n))
      /\ NotAbove(Times(Unit, <<2>>), Plus(twice, n))

Factorial(n) ==
  LET f[i \in 0 .. n] == IF i = 0 THEN <<1>> ELSE Times(f[i - 1], <<i>>)
  IN  f[n]

\* A sequence with its elements evaluated, for a function of one width.
Evaluated(f, width) == SubSeq(f, 1, width)

\* floor(x / d), for a d of one digit.
Quotient(x, d) ==
  LET n == Len(x)
      rest[i \in 0 .. n] ==
        IF i = 0 THEN 0 ELSE (rest[i - 1] * BASE + x[n + 1 - i]) % d
  IN  Evaluated([i \in 1 .. n |-> (rest[n - i] * BASE + x[i]) \div d], n)

\* ln 2 = 2 (1/3 + 1/(3 3^3) + 1/(5 3^5) + ...): less than SLACK below it, at 96 bits.
SLACK == 2^18

Ln2At96 ==
  LET third[k \in 0 .. 22] ==
        IF k = 0 THEN Quotient(TwoTo(97), 3) ELSE Quotient(third[k - 1], 9)
      sum[k \in 0 .. 22] ==
        IF k = 0 THEN third[0] ELSE Plus(sum[k - 1], Quotient(third[k], 2 * k + 1))
  IN  sum[22]

\* c is the integer nearest to unit * ln 2.
IsNearestToLn2(c) ==
  LET at96 == Times(c, TwoTo(96 - Deployed.LN_SCALE))
      half == TwoTo(95 - Deployed.LN_SCALE)
  IN  /\ NotAbove(at96, Plus(Ln2At96, half))
      /\ NotAbove(Plus(Ln2At96, Big(SLACK)), Plus(at96, half))

\* "round(2^62 / (2i+1))", "(-1)^i round(2^62 / i!)", "round(ln(2) 2^62)",
\* "round(2^62 / sqrt(2))" and, with ln 2 as LN2_62, "round(2^30 / ln(2))".
ASSUME TablesAreRounded ==
  /\ \A i \in DOMAIN ATANH_TABLE : IsNearest(Atanh(i), <<2 * i - 1>>)
  /\ \A i \in DOMAIN EXP_TABLE : IsNearest(Exp(i), Factorial(i - 1))
  /\ IsNearestToLn2(Deployed.LN2_62)
  /\ LET twice == Times(Deployed.SQRT2_HALF_62, <<2>>)
         square == TwoTo(2 * Deployed.LN_SCALE + 1)
     IN  /\ NotAbove(square, ToThe(Plus(twice, <<1>>), 2))
         /\ NotAbove(ToThe(Plus(twice, <<1>>), 2), Plus(square, Times(twice, <<4>>)))
  /\ LET product == Times(Times(Deployed.INV_LN2_30, Deployed.LN2_62), <<2>>)
         unit == TwoTo(Deployed.ESTIMATE_BITS + Deployed.LN_SCALE + 1)
         half == Plus(Deployed.LN2_62, Deployed.INV_LN2_30)
     IN  NotAbove(product, Plus(unit, half)) /\ NotAbove(unit, Plus(product, half))

\* ScaleAssumption, LogarithmAssumption, ExponentialAssumption and
\* EnvelopeAssumption of Pow, RatioAssumption of Weighted.
ASSUME SourceMeetsAssumptions ==
  LET D == Deployed
      arg == TwoTo(D.ENVELOPE_BITS)
      unit == TwoTo(D.ESTIMATE_BITS + D.LN_SCALE)
      estimate == Times(D.INV_LN2_30, D.LN2_62)
      times(n, x) == Times(Big(n), x)
  IN  /\ D.SCALE + 2 <= D.LN_SCALE /\ 2 * D.LN_SCALE + 2 <= D.WIDTH
      /\ D.ESTIMATE_BITS + D.LN_SCALE <= D.WIDTH /\ 2^7 >= D.MAX_RATIO /\ D.SCALE >= 7
      /\ NotAbove(Unit, times(2, D.LN2_62)) /\ NotAbove(times(10, D.LN2_62), times(7, Unit))
      /\ NotAbove(times(2, Unit), times(3, D.SQRT2_HALF_62))
      /\ NotAbove(times(4, D.SQRT2_HALF_62), times(3, Unit))
      /\ \A i \in DOMAIN ATANH_TABLE : NotAbove(Atanh(i), Unit)
      /\ NotAbove(Unit, Exp(1)) /\ NotAbove(Exp(1), Unit)
      /\ \A i \in 1 .. Len(EXP_TABLE) - 1 :
           NotAbove(Plus(times(7, Exp(i + 1)), Big(10)), times(10, Exp(i)))
      /\ ~NotAbove(arg, times(D.MAX_RATIO * D.SCALE, D.LN2_62))
      /\ NotAbove(times(D.SATURATE_AT, Unit), arg) /\ NotAbove(arg, Times(Unit, Unit))
      /\ NotAbove(Times(arg, D.INV_LN2_30), TwoTo(D.WIDTH))
      \* reach, the multiples of ln 2 in the envelope, is at most 2^15
      /\ NotAbove(arg, times(2^15 - 1, D.LN2_62))
      /\ NotAbove(times(2^15, estimate), times(2^15 + 1, unit))
      /\ NotAbove(times(2^15 - 1, unit), times(2^15, estimate))

\* UnderflowAssumption of SwapCalls with k = 51, and FitAssumption.  The atanh
\* argument of twice the least base is at least 165/1000 of the unit, the one
\* of sqrt(2)/2 at least -172/1000; LeastBase is within two of 7/10 of ONE.
ASSUME SourceMeetsSwapAssumptions ==
  LET D == Deployed
      guard == TwoTo(D.LN_SCALE - D.SCALE)
      times(n, x) == Times(Big(n), x)
      \* 200 * FitArg
      fit == Plus(times(63, Plus(Unit, times(2 + 8 * D.MAX_RATIO, guard))),
                  Big(400 * D.MAX_RATIO))
  IN  /\ D.SCALE >= 6
      /\ NotAbove(Atanh(1), Unit) /\ NotAbove(Unit, Atanh(1))
      /\ NotAbove(times(40 * 835, guard), times(40, Unit))
      /\ NotAbove(times(828, Unit), times(1172, D.SQRT2_HALF_62))
      \* MAX_RATIO * GreatestLn < 52 ln 2, in thousandths and in ten-thousandths
      /\ ~NotAbove(times(330 * D.MAX_RATIO, Unit),
                   Plus(times(1000 * (D.MAX_RATIO - 52), D.LN2_62), Big(2000 * D.MAX_RATIO)))
      /\ ~NotAbove(times(10000 * 52, D.LN2_62),
                   Plus(times(21 * 172 * D.MAX_RATIO, Unit), Big(10000 * D.MAX_RATIO)))
      /\ NotAbove(times(10 * (D.PAD_62 + 1), TwoTo(51)), times(3, Unit))
      /\ NotAbove(Plus(Plus(times(21, Exp(4)), times(10, Unit)), Big(30)), times(30, Exp(3)))
      /\ ~NotAbove(times(200, D.LN2_62), fit)
      /\ NotAbove(Big(10 * D.PAD_62), Unit)
      /\ NotAbove(Plus(times(26, fit), Big(6000 * (D.PAD_62 + 2))), times(3000, Unit))

\* x - y, for y <= x.
Minus(x, y) == Normalised([n \in 1 .. Len(x) |-> Digit(x, n) - Digit(y, n)], Len(x))

\* x / 2^bits, rounded down or up.
Over(x, bits) == Quotient(SubSeq(x, bits \div 12 + 1, Len(x)), 2^(bits % 12))
OverUp(x, bits) == Over(Plus(x, Minus(TwoTo(bits), <<1>>)), bits)

\* Horner(EXP_COEFF_62, s): the partial sums by their sizes, as their signs
\* alternate with the table's.  (Asking for a term's length first has the
\* model checker evaluate it before the sum it is a part of.)
ExpSeries(s) ==
  LET from[i \in 1 .. Len(EXP_TABLE)] ==
        IF i = Len(EXP_TABLE) THEN Exp(i)
        ELSE LET term == Times(from[i + 1], s)
             IN  IF Len(term) = 0 THEN Exp(i)
                 ELSE Minus(Exp(i), IF i % 2 = 1 THEN OverUp(term, Deployed.LN_SCALE)
                                    ELSE Over(term, Deployed.LN_SCALE))
  IN  from[1]

\* Horner(ATANH_COEFF_62, u).
AtanhSeries(u) ==
  LET from[i \in 1 .. Len(ATANH_TABLE)] ==
        IF i = Len(ATANH_TABLE) THEN Atanh(i)
        ELSE LET term == Times(from[i + 1], u)
             IN  IF Len(term) = 0 THEN Atanh(i)
                 ELSE Plus(Atanh(i), Over(term, Deployed.LN_SCALE))
  IN  from[1]

\* t is the size of the atanh argument of m.
IsAtanhArgument(t, m) ==
  LET size == IF NotAbove(m, Unit) THEN Minus(Unit, m) ELSE Minus(m, Unit)
      sum == Plus(m, Unit)
  IN  /\ NotAbove(Times(t, sum), Times(size, Unit))
      /\ ~NotAbove(Times(Plus(t, <<1>>), sum), Times(size, Unit))

\* SeamAssumption of Pow, with the atanh arguments of the two mantissas at
\* the ends of the window given, and SlopeAssumption of SwapCalls.
ASSUME SourceMeetsSeamAssumptions ==
  LET D == Deployed
      G == D.LN_SCALE - D.SCALE
      times(n, x) == Times(Big(n), x)
      least == Times(OverUp(D.SQRT2_HALF_62, G), TwoTo(G))
      largest == Times(Over(Minus(times(2, D.SQRT2_HALF_62), <<1>>), G + 1), TwoTo(G + 1))
      t == Numeral(<<791, 240, 229, 949, 380, 995>>)    \* below 1, so negative
      z == Numeral(<<791, 240, 229, 949, 381, 301>>)
      log(x) == Times(x, AtanhSeries(Over(Times(x, x), D.LN_SCALE)))
  IN  /\ D.SCALE + 6 <= D.LN_SCALE /\ NotAbove(times(69, Unit), times(100, D.LN2_62))
      /\ NotAbove(Unit, Exp(2)) /\ NotAbove(Exp(2), Unit) /\ NotAbove(times(2, Exp(3)), Unit)
      /\ \A i \in 2 .. Len(EXP_TABLE) - 1 :
           NotAbove(Plus(times(14, Exp(i + 1)), Big(10)), times(10, Exp(i)))
      /\ NotAbove(Unit, Plus(times(2, ExpSeries(Minus(D.LN2_62, <<1>>))), <<2>>))
      /\ NotAbove(least, Unit) /\ IsAtanhArgument(t, least)
      /\ NotAbove(Unit, largest) /\ IsAtanhArgument(z, largest)
      /\ NotAbove(Plus(Plus(Over(log(z), D.LN_SCALE - 1), TwoTo(G)),
                       OverUp(log(t), D.LN_SCALE - 1)),
                  D.LN2_62)
      /\ NotAbove(Plus(times(5 * D.MAX_RATIO, TwoTo(D.SCALE)), times(1020, Big(D.MAX_RATIO))),
                  times(1020, TwoTo(D.SCALE)))
      /\ 2^G - 4 = 1020
=============================================================================
