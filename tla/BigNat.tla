------------------------------- MODULE BigNat -------------------------------
(***************************************************************************)
(* Naturals of any size, for the exact comparisons the model checker's     *)
(* integers cannot hold: what the referee of crates/harness does with      *)
(* num_bigint::BigUint.  A number is its digits, least significant first;  *)
(* leading zeros are allowed.                                              *)
(***************************************************************************)
EXTENDS Integers, Sequences

BASE == 4096

Digit(x, i) == IF i <= Len(x) THEN x[i] ELSE 0

\* BigUint::from
Big(n) ==
  LET digits[m \in 0 .. n] ==
        IF m = 0 THEN <<>> ELSE <<m % BASE>> \o digits[m \div BASE]
  IN  digits[n]

\* Carries columns of sums into digits.
Normalised(col, width) ==
  LET upto[i \in 0 .. width] ==
        IF i = 0 THEN [digits |-> <<>>, carry |-> 0]
        ELSE LET before == upto[i - 1]
                 sum == before.carry + col[i]
             IN  [digits |-> Append(before.digits, sum % BASE), carry |-> sum \div BASE]
      all == upto[width]
  IN  IF all.carry = 0 THEN all.digits ELSE Append(all.digits, all.carry)

\* x + y
Plus(x, y) ==
  LET width == IF Len(x) > Len(y) THEN Len(x) ELSE Len(y)
  IN  Normalised([n \in 1 .. width |-> Digit(x, n) + Digit(y, n)], width)

\* digit * y + BASE * sum
Row(digit, y, sum) ==
  LET width == IF Len(y) > Len(sum) THEN Len(y) ELSE Len(sum) + 1
  IN  Normalised([n \in 1 .. width |->
                    digit * Digit(y, n) + (IF n = 1 THEN 0 ELSE Digit(sum, n - 1))],
                 width)

\* x * y, from the highest digit of x on.
Times(x, y) ==
  LET rows[i \in 0 .. Len(x)] ==
        IF i = 0 THEN <<>> ELSE Row(x[Len(x) + 1 - i], y, rows[i - 1])
  IN  IF y = <<>> THEN <<>> ELSE rows[Len(x)]

\* x.pow(n)
ToThe(x, n) ==
  LET power[i \in 0 .. n] == IF i = 0 THEN <<1>> ELSE Times(x, power[i - 1])
  IN  power[n]

\* x <= y: every digit where x exceeds y is outweighed by a higher one.
NotAbove(x, y) ==
  LET places == 1 .. (IF Len(x) > Len(y) THEN Len(x) ELSE Len(y))
  IN  \A i \in places : Digit(x, i) > Digit(y, i) =>
        \E j \in places : j > i /\ Digit(x, j) < Digit(y, j)
=============================================================================
