------------------------- MODULE Weighted_proofs ----------------------------
(***************************************************************************)
(* weighted.rs and its users for every word, scale, reserve, weight and    *)
(* table that meets the assumptions of Pow: what a quote returns and which *)
(* of its asserts never fire (Weighted, SwapCalls), and what follows for a *)
(* pool that trades by the quotes (Pool).                                  *)
(***************************************************************************)
EXTENDS SwapCalls, Pool, PowTheorems
-----------------------------------------------------------------------------
(***************************************************************************)
(* Numbers of any size: what the operators of BigNat compute.              *)
(***************************************************************************)
\* Induction up to N.
LEMMA Ascent ==
  ASSUME NEW N \in Nat, NEW S, 0 \in S, \A i \in 1 .. N : i - 1 \in S => i \in S
  PROVE  \A i \in 0 .. N : i \in S
<1> DEFINE T == {i \in 0 .. N : i \notin S}
<1> SUFFICES ASSUME T # {} PROVE FALSE
  OBVIOUS
<1>1. PICK x \in T : \A y \in T : x <= y
  <2>1. T \subseteq Nat
    OBVIOUS
  <2> HIDE DEF T
  <2> QED BY <2>1, LeastElement
<1>2. x \in 1 .. N /\ x - 1 \in 0 .. N
  <2>1. x \in 0 .. N /\ x \notin S
    OBVIOUS
  <2>2. x # 0
    BY <2>1
  <2> QED BY <2>1, <2>2
<1>3. x - 1 \notin T
  <2>1. ~(x <= x - 1)
    BY <1>2
  <2> QED BY <1>1, <2>1
<1> QED BY <1>2, <1>3

\* f starts from a and goes on by g, up to N.
IsStep(g, N, S) == g \in [(1 .. N) \X S -> S]
Recurs(f, a, g, N, S) ==
  f \in [0 .. N -> S] /\ f[0] = a /\ \A i \in 1 .. N : f[i] = g[<<i, f[i - 1]>>]

LEMMA RecursionExists ==
  ASSUME NEW N \in Nat, NEW S, NEW a \in S, NEW g, IsStep(g, N, S)
  PROVE  \E f : Recurs(f, a, g, N, S)
<1> DEFINE Upto(f, k) == /\ f \in [0 .. k -> S] /\ f[0] = a
                         /\ \A i \in 1 .. k : f[i] = g[<<i, f[i - 1]>>]
           K == {k \in 0 .. N : \E f : Upto(f, k)}
<1>1. 0 \in K
  <2> DEFINE f == [i \in 0 .. 0 |-> a]
  <2>1. f \in [0 .. 0 -> S] /\ f[0] = a /\ \A i \in 1 .. 0 : f[i] = g[<<i, f[i - 1]>>]
    OBVIOUS
  <2>2. Upto(f, 0)
    BY <2>1
  <2>3. 0 \in 0 .. N
    OBVIOUS
  <2> HIDE DEF f, Upto
  <2> QED BY <2>2, <2>3
<1>2. ASSUME NEW k \in 1 .. N, k - 1 \in K PROVE k \in K
  <2>1. PICK f : Upto(f, k - 1)
    BY <1>2
  <2> DEFINE h == [i \in 0 .. k |-> IF i = k THEN g[<<k, f[k - 1]>>] ELSE f[i]]
  <2>2. f \in [0 .. k - 1 -> S] /\ f[0] = a /\ \A i \in 1 .. k - 1 : f[i] = g[<<i, f[i - 1]>>]
    BY <2>1
  <2>3. k \in Nat /\ k >= 1 /\ k - 1 \in 0 .. k - 1 /\ k <= N
    OBVIOUS
  <2>4. g[<<k, f[k - 1]>>] \in S
    BY <2>2, <2>3 DEF IsStep
  <2>5. h[k] = g[<<k, f[k - 1]>>] /\ \A i \in 0 .. k - 1 : h[i] = f[i]
    BY <2>3
  <2>6. h \in [0 .. k -> S]
    BY <2>2, <2>3, <2>4
  <2> HIDE DEF h
  <2>7. h[0] = a
    BY <2>2, <2>3, <2>5
  <2>8. ASSUME NEW i \in 1 .. k PROVE h[i] = g[<<i, h[i - 1]>>]
    <3>1. CASE i = k
      <4>1. h[k - 1] = f[k - 1]
        BY <2>3, <2>5
      <4> QED BY <3>1, <2>5, <4>1
    <3>2. CASE i # k
      <4>1. i \in 1 .. k - 1 /\ i \in 0 .. k - 1 /\ i - 1 \in 0 .. k - 1
        BY <2>3, <3>2
      <4> QED BY <2>2, <2>5, <4>1
    <3> QED BY <3>1, <3>2
  <2>9. Upto(h, k)
    BY <2>6, <2>7, <2>8
  <2> QED BY <2>3, <2>9
<1>3. \A i \in 0 .. N : i \in K
  <2> HIDE DEF K
  <2> QED BY <1>1, <1>2, Ascent
<1>4. PICK f : Upto(f, N)
  <2>1. N \in K
    BY <1>3
  <2> QED BY <2>1
<1> QED BY <1>4 DEF Recurs

IsDigits(x) == x \in Seq(0 .. BASE - 1)

\* r[i] is what the digits above the i-th stand for.
TailsOf(x, n, width, r) ==
  /\ r \in [0 .. width -> Nat] /\ r[0] = n /\ r[width] = 0
  /\ \A i \in 1 .. width : r[i - 1] = Digit(x, i) + BASE * r[i]

\* x stands for n.
Denotes(x, n) == IsDigits(x) /\ \E r : TailsOf(x, n, Len(x), r)

LEMMA DigitType ==
  ASSUME NEW x, IsDigits(x), NEW i \in Nat, i >= 1
  PROVE  Digit(x, i) \in 0 .. BASE - 1
<1> DEFINE S == 0 .. BASE - 1
<1>1. Len(x) \in Nat /\ \A j \in 1 .. Len(x) : x[j] \in S
  <2>1. x \in Seq(S)
    BY DEF IsDigits
  <2> HIDE DEF S
  <2> QED BY <2>1
<1> QED BY <1>1 DEF Digit, BASE

\* Zeros above the digits change nothing.
LEMMA Padded ==
  ASSUME NEW x, NEW n, Denotes(x, n), NEW width \in Nat, width >= Len(x)
  PROVE  \E r : TailsOf(x, n, width, r)
<1> DEFINE m == Len(x)
<1>1. PICK s : TailsOf(x, n, m, s)
  BY DEF Denotes
<1>2. m \in Nat /\ m <= width
  BY DEF Denotes, IsDigits
<1>3. /\ s \in [0 .. m -> Nat] /\ s[0] = n /\ s[m] = 0
      /\ \A i \in 1 .. m : s[i - 1] = Digit(x, i) + BASE * s[i]
  BY <1>1 DEF TailsOf
<1> DEFINE r == [i \in 0 .. width |-> IF i <= m THEN s[i] ELSE 0]
<1>4. \A i \in 1 .. width : i > m => Digit(x, i) = 0
  BY <1>2 DEF Digit
<1> HIDE DEF m
<1>5. r \in [0 .. width -> Nat] /\ r[0] = n
  BY <1>2, <1>3
<1>6. r[width] = 0
  BY <1>2, <1>3
<1>7. ASSUME NEW i \in 1 .. width PROVE r[i - 1] = Digit(x, i) + BASE * r[i]
  <2>1. CASE i <= m
    <3>1. i \in 1 .. m /\ r[i - 1] = s[i - 1] /\ r[i] = s[i]
      BY <1>2, <2>1
    <3> QED BY <1>3, <3>1
  <2>2. CASE i > m
    <3>1. r[i] = 0
      BY <1>2, <2>2
    <3>2. r[i - 1] = 0
      <4>1. CASE i - 1 = m
        BY <1>2, <1>3, <4>1
      <4>2. CASE i - 1 # m
        BY <1>2, <2>2, <4>2
      <4> QED BY <4>1, <4>2
    <3>3. Digit(x, i) = 0
      BY <1>4, <2>2
    <3> HIDE DEF r
    <3> QED BY <3>1, <3>2, <3>3 DEF BASE
  <2> QED BY <1>2, <2>1, <2>2
<1> HIDE DEF r
<1>8. TailsOf(x, n, width, r)
  BY <1>5, <1>6, <1>7 DEF TailsOf
<1> QED BY <1>8

\* The empty sequence stands for zero, and a digit below x adds it to BASE * x.
LEMMA EmptyDenotes == Denotes(<<>>, 0)
<1> DEFINE r == [i \in 0 .. 0 |-> 0]
<1>1. TailsOf(<<>>, 0, 0, r)
  BY DEF TailsOf
<1>2. Len(<<>>) = 0 /\ <<>> \in Seq(0 .. BASE - 1)
  OBVIOUS
<1> QED BY <1>1, <1>2 DEF Denotes, IsDigits

LEMMA DenotesNat ==
  ASSUME NEW x, NEW n, Denotes(x, n)
  PROVE  n \in Nat /\ IsDigits(x) /\ Len(x) \in Nat
BY DEF Denotes, TailsOf, IsDigits

LEMMA BaseFacts == BASE \in Nat /\ BASE >= 2
BY DEF BASE

Columns(width) == [1 .. width -> 0 .. BASE * (BASE - 1)]
Carried == [digits : Seq(0 .. BASE - 1), carry : 0 .. BASE - 1]

\* One column more.
LEMMA CarryStep ==
  ASSUME NEW before \in Carried, NEW c \in 0 .. BASE * (BASE - 1)
  PROVE  /\ [digits |-> Append(before.digits, (before.carry + c) % BASE),
             carry |-> (before.carry + c) \div BASE] \in Carried
         /\ Len(Append(before.digits, (before.carry + c) % BASE)) = Len(before.digits) + 1
         /\ ((before.carry + c) % BASE) + BASE * ((before.carry + c) \div BASE) = before.carry + c
<1> DEFINE s == before.carry + c
           S == 0 .. BASE - 1
           D == Seq(0 .. BASE - 1)
<1>0. before.carry \in S /\ before.digits \in D
  <2>1. before \in [digits : D, carry : S]
    BY DEF Carried
  <2> HIDE DEF S, D
  <2> QED BY <2>1
<1>1. s \in Nat /\ s < BASE * BASE /\ BASE \in Nat /\ BASE > 0
  <2> DEFINE B == BASE
  <2>1. B \in Nat /\ B > 0
    BY BaseFacts
  <2> HIDE DEF B
  <2>2. before.carry \in 0 .. B - 1 /\ c \in 0 .. B * (B - 1)
    BY <1>0 DEF B
  <2>3. B * (B - 1) = B * B - B /\ B * B \in Nat /\ B * (B - 1) \in Nat
    BY <2>1
  <2>4. before.carry + c \in Nat /\ before.carry + c < B * B
    BY <2>1, <2>2, <2>3
  <2> QED BY <2>1, <2>4 DEF B
<1> HIDE DEF s
<1>2. s % BASE \in S /\ s \div BASE \in S /\ (s % BASE) + BASE * (s \div BASE) = s
  <2> DEFINE B == BASE
             q == s \div B
             r == s % B
  <2>1. s \in Nat /\ B \in Nat /\ B > 0 /\ s < B * B
    BY <1>1
  <2> HIDE DEF B
  <2>2. q \in Nat /\ r \in 0 .. B - 1 /\ s = B * q + r
    BY <2>1, DivisionBounds
  <2> HIDE DEF q, r
  <2>3. q < B
    <3>1. B * q < B * ((B - 1) + 1) /\ B - 1 \in Int
      <4>1. B * q \in Nat /\ B * B \in Nat /\ (B - 1) + 1 = B
        BY <2>1, <2>2
      <4> QED BY <2>1, <2>2, <4>1
    <3>2. q <= B - 1
      BY <2>1, <2>2, <3>1, Cancel
    <3> QED BY <2>1, <2>2, <3>2
  <2>4. q \in 0 .. B - 1 /\ r + B * q = s
    <3>1. B * q \in Nat
      BY <2>1, <2>2
    <3> QED BY <2>1, <2>2, <2>3, <3>1
  <2> QED BY <2>2, <2>4 DEF q, r, B, S
<1>3. before.digits \in Seq(S)
  BY <1>0
<1> HIDE DEF S
<1>4. Append(before.digits, s % BASE) \in Seq(S) /\ Len(Append(before.digits, s % BASE)) = Len(before.digits) + 1
  BY <1>2, <1>3
<1>5. [digits |-> Append(before.digits, s % BASE), carry |-> s \div BASE] \in Carried
  BY <1>2, <1>4 DEF Carried, S
<1> QED BY <1>2, <1>4, <1>5 DEF s

\* The recursion of Normalised.
LEMMA NormalisedUnfolds ==
  ASSUME NEW width \in Nat, NEW col \in Columns(width)
  PROVE  \E h : /\ h \in [0 .. width -> Carried]
                /\ h[0] = [digits |-> <<>>, carry |-> 0]
                /\ \A i \in 1 .. width :
                     h[i] = [digits |-> Append(h[i - 1].digits, (h[i - 1].carry + col[i]) % BASE),
                             carry |-> (h[i - 1].carry + col[i]) \div BASE]
                /\ Normalised(col, width)
                     = IF h[width].carry = 0 THEN h[width].digits
                       ELSE Append(h[width].digits, h[width].carry)
<1> DEFINE Next1(before, c) == [digits |-> Append(before.digits, (before.carry + c) % BASE),
                                carry |-> (before.carry + c) \div BASE]
           start1 == [digits |-> <<>>, carry |-> 0]
           Rec(f) == f = [i \in 0 .. width |->
                            IF i = 0 THEN [digits |-> <<>>, carry |-> 0]
                            ELSE LET before == f[i - 1]
                                     sum == before.carry + col[i]
                                 IN  [digits |-> Append(before.digits, sum % BASE),
                                      carry |-> sum \div BASE]]
           h == CHOOSE f : Rec(f)
           all == h[width]
<1>1. start1 \in Carried
  <2>1. 0 \in 0 .. BASE - 1
    BY DEF BASE
  <2> QED BY <2>1 DEF Carried
<1>2. \A i \in 1 .. width : col[i] \in 0 .. BASE * (BASE - 1)
  BY DEF Columns
<1>3. \E f : Rec(f)
  <2> DEFINE g == [p \in (1 .. width) \X Carried |-> Next1(p[2], col[p[1]])]
  <2>1. ASSUME NEW p \in (1 .. width) \X Carried PROVE Next1(p[2], col[p[1]]) \in Carried
    <3>1. p[1] \in 1 .. width /\ p[2] \in Carried
      OBVIOUS
    <3> HIDE DEF Carried
    <3> QED BY <1>2, <3>1, CarryStep
  <2> HIDE DEF Next1, start1
  <2>2. IsStep(g, width, Carried)
    BY <2>1 DEF IsStep
  <2>3. PICK f : Recurs(f, start1, g, width, Carried)
    <3> HIDE DEF g
    <3> QED BY <1>1, <2>2, RecursionExists
  <2>4. ASSUME NEW i \in 1 .. width PROVE f[i] = Next1(f[i - 1], col[i])
    <3>1. i - 1 \in 0 .. width
      OBVIOUS
    <3>2. <<i, f[i - 1]>> \in (1 .. width) \X Carried
      BY <2>3, <3>1 DEF Recurs
    <3> QED BY <2>3, <3>2 DEF Recurs
  <2>5. f = [i \in 0 .. width |-> IF i = 0 THEN start1 ELSE Next1(f[i - 1], col[i])]
    <3>1. \A i \in 0 .. width : f[i] = IF i = 0 THEN start1 ELSE Next1(f[i - 1], col[i])
      <4> SUFFICES ASSUME NEW i \in 0 .. width
                   PROVE  f[i] = IF i = 0 THEN start1 ELSE Next1(f[i - 1], col[i])
        OBVIOUS
      <4>1. CASE i = 0
        BY <2>3, <4>1 DEF Recurs
      <4>2. CASE i # 0
        <5>1. i \in 1 .. width
          BY <4>2
        <5> QED BY <2>4, <4>2, <5>1
      <4> QED BY <4>1, <4>2
    <3> QED BY <2>3, <3>1 DEF Recurs
  <2>6. Rec(f)
    BY <2>5 DEF Next1, start1
  <2> QED BY <2>6
<1>4. Rec(h)
  <2> HIDE DEF Rec
  <2> QED BY <1>3
<1>5. h = [i \in 0 .. width |-> IF i = 0 THEN start1 ELSE Next1(h[i - 1], col[i])]
  BY <1>4
<1>6. Normalised(col, width) = IF all.carry = 0 THEN all.digits ELSE Append(all.digits, all.carry)
  BY DEF Normalised
<1> HIDE DEF h, Rec, start1, Next1
<1>7. h[0] = start1 /\ \A i \in 1 .. width : h[i] = Next1(h[i - 1], col[i])
  <2>1. 0 \in 0 .. width
    OBVIOUS
  <2>2. h[0] = start1
    BY <1>5, <2>1
  <2>3. ASSUME NEW i \in 1 .. width PROVE h[i] = Next1(h[i - 1], col[i])
    <3>1. i \in 0 .. width /\ i # 0
      OBVIOUS
    <3> QED BY <1>5, <3>1
  <2> QED BY <2>2, <2>3
<1>8. h \in [0 .. width -> Carried]
  <2> DEFINE K == {i \in 0 .. width : h[i] \in Carried}
  <2>1. 0 \in K
    BY <1>1, <1>7
  <2>2. ASSUME NEW i \in 1 .. width, i - 1 \in K PROVE i \in K
    <3>1. h[i - 1] \in Carried
      BY <2>2
    <3>2. Next1(h[i - 1], col[i]) \in Carried
      BY <1>2, <3>1, CarryStep DEF Next1
    <3> QED BY <1>7, <3>2
  <2>3. \A i \in 0 .. width : i \in K
    <3> HIDE DEF K
    <3> QED BY <2>1, <2>2, Ascent
  <2>4. h = [i \in 0 .. width |-> h[i]]
    BY <1>5
  <2> QED BY <2>3, <2>4
<1> QED BY <1>6, <1>7, <1>8 DEF start1, Next1

LEMMA CarryRegroups ==
  ASSUME NEW b \in Nat, NEW t \in Nat, NEW c \in Nat, NEW d \in Int,
         NEW t1 \in Nat, NEW c1 \in Nat, NEW k \in Nat,
         t1 = k + b * t, d + b * c = c1 + k
  PROVE  t1 + c1 = d + b * (t + c)
<1> DEFINE x == b * t
           y == b * c
<1>1. b * (t + c) = x + y /\ x \in Nat /\ y \in Nat
  OBVIOUS
<1>2. t1 = k + x /\ d + y = c1 + k
  OBVIOUS
<1> HIDE DEF x, y
<1> QED BY <1>1, <1>2

\* Columns that stand for n give its digits.
LEMMA NormalisedDenotes ==
  ASSUME NEW n \in Nat, NEW width \in Nat, NEW col \in Columns(width), NEW t,
         t \in [0 .. width -> Nat], t[0] = n, t[width] = 0,
         \A i \in 1 .. width : t[i - 1] = col[i] + BASE * t[i]
  PROVE  Denotes(Normalised(col, width), n)
<1> DEFINE x == Normalised(col, width)
<1>1. PICK h : /\ h \in [0 .. width -> Carried]
               /\ h[0] = [digits |-> <<>>, carry |-> 0]
               /\ \A i \in 1 .. width :
                    h[i] = [digits |-> Append(h[i - 1].digits, (h[i - 1].carry + col[i]) % BASE),
                            carry |-> (h[i - 1].carry + col[i]) \div BASE]
               /\ x = IF h[width].carry = 0 THEN h[width].digits
                      ELSE Append(h[width].digits, h[width].carry)
  BY NormalisedUnfolds
<1> DEFINE D(i) == h[i].digits
           c(i) == h[i].carry
           B == BASE
           S == 0 .. B - 1
<1> HIDE DEF x
<1>2. B \in Nat /\ B >= 2
  BY BaseFacts
<1>3. \A i \in 0 .. width : D(i) \in Seq(S) /\ c(i) \in S
  <2> SUFFICES ASSUME NEW i \in 0 .. width PROVE D(i) \in Seq(S) /\ c(i) \in S
    OBVIOUS
  <2>1. h[i] \in [digits : Seq(0 .. BASE - 1), carry : 0 .. BASE - 1]
    BY <1>1 DEF Carried
  <2> DEFINE Q == Seq(S)
  <2>2. h[i] \in [digits : Q, carry : S]
    BY <2>1
  <2> HIDE DEF Q, S, B
  <2> QED BY <2>2 DEF Q
<1>4. c(0) = 0 /\ D(0) = <<>>
  <2>1. h[0] = [digits |-> <<>>, carry |-> 0]
    BY <1>1
  <2>2. h[0].carry = 0 /\ h[0].digits = <<>>
    BY <2>1
  <2> QED BY <2>2
<1>5. \A i \in 1 .. width : col[i] \in Nat
  <2> SUFFICES ASSUME NEW i \in 1 .. width PROVE col[i] \in Nat
    OBVIOUS
  <2>1. col[i] \in 0 .. BASE * (BASE - 1)
    BY DEF Columns
  <2> QED BY <2>1
<1>6. ASSUME NEW i \in 1 .. width
      PROVE  /\ D(i) = Append(D(i - 1), (c(i - 1) + col[i]) % B)
             /\ ((c(i - 1) + col[i]) % B) + B * c(i) = c(i - 1) + col[i]
             /\ (c(i - 1) + col[i]) % B \in S
  <2>1. i - 1 \in 0 .. width
    OBVIOUS
  <2>2. h[i - 1] \in Carried /\ col[i] \in 0 .. BASE * (BASE - 1)
    BY <1>1, <2>1 DEF Columns
  <2>3. h[i] = [digits |-> Append(h[i - 1].digits, (h[i - 1].carry + col[i]) % BASE),
                carry |-> (h[i - 1].carry + col[i]) \div BASE]
    BY <1>1
  <2>4. ((h[i - 1].carry + col[i]) % BASE) + BASE * ((h[i - 1].carry + col[i]) \div BASE)
          = h[i - 1].carry + col[i]
    BY <2>2, CarryStep
  <2>5. c(i - 1) + col[i] \in Int
    <3>1. c(i - 1) \in S
      BY <1>3, <2>1
    <3>2. S \subseteq Int
      BY <1>2
    <3>3. col[i] \in Int
      BY <1>5
    <3>4. c(i - 1) \in Int
      BY <3>1, <3>2, Zenon
    <3> DEFINE u == c(i - 1)
               v == col[i]
    <3>5. u \in Int /\ v \in Int
      BY <3>3, <3>4
    <3> HIDE DEF u, v
    <3>6. u + v \in Int
      BY <3>5
    <3> QED BY <3>6 DEF u, v
  <2>6. (c(i - 1) + col[i]) % B \in S
    <3> HIDE DEF B, c
    <3> QED BY <1>2, <2>5, DivisionBounds
  <2>7. /\ D(i) = Append(D(i - 1), (c(i - 1) + col[i]) % B)
        /\ ((c(i - 1) + col[i]) % B) + B * c(i) = c(i - 1) + col[i]
    BY <2>3, <2>4
  <2> QED BY <2>6, <2>7
<1> HIDE DEF B, S, D, c
<1> DEFINE d(j) == (c(j - 1) + col[j]) % B
           K == {i \in 0 .. width : Len(D(i)) = i /\ \A j \in 1 .. i : D(i)[j] = d(j)}
<1>7. \A i \in 0 .. width : i \in K
  <2>1. 0 \in K
    BY <1>4
  <2>2. ASSUME NEW i \in 1 .. width, i - 1 \in K PROVE i \in K
    <3>1. Len(D(i - 1)) = i - 1 /\ \A j \in 1 .. i - 1 : D(i - 1)[j] = d(j)
      BY <2>2
    <3>2. D(i) = Append(D(i - 1), d(i)) /\ i - 1 \in 0 .. width
      BY <1>6
    <3>3. d(i) \in S
      BY <1>6
    <3>4. D(i - 1) \in Seq(S)
      BY <1>3, <3>2
    <3> HIDE DEF d
    <3>5. Len(D(i)) = i /\ \A j \in 1 .. i : D(i)[j] = d(j)
      BY <3>1, <3>2, <3>3, <3>4
    <3> QED BY <3>5
  <2> HIDE DEF K
  <2> QED BY <2>1, <2>2, Ascent
<1>8. Len(D(width)) = width /\ \A j \in 1 .. width : D(width)[j] = d(j)
  BY <1>7
<1>9. \A i \in 1 .. width : d(i) + B * c(i) = c(i - 1) + col[i] /\ d(i) \in S
  BY <1>6
<1> HIDE DEF d, K
<1>10. width \in 0 .. width
  OBVIOUS
<1>11. \A i \in 0 .. width : t[i] \in Nat /\ c(i) \in Nat /\ t[i] + c(i) \in Nat
  BY <1>2, <1>3 DEF S
<1>12. \A i \in 1 .. width : t[i - 1] + c(i - 1) = d(i) + B * (t[i] + c(i))
  <2> SUFFICES ASSUME NEW i \in 1 .. width
               PROVE  t[i - 1] + c(i - 1) = d(i) + B * (t[i] + c(i))
    OBVIOUS
  <2>1. t[i - 1] = col[i] + B * t[i] /\ d(i) + B * c(i) = c(i - 1) + col[i]
    BY <1>9 DEF B
  <2>2. t[i] \in Nat /\ c(i) \in Nat /\ c(i - 1) \in Nat /\ col[i] \in Nat /\ d(i) \in Int
    <3>1. i \in 0 .. width /\ i - 1 \in 0 .. width
      OBVIOUS
    <3>2. d(i) \in Int
      BY <1>2, <1>9 DEF S
    <3> QED BY <1>5, <1>11, <3>1, <3>2
  <2> DEFINE u == t[i]
             v == c(i)
             e == d(i)
             u1 == t[i - 1]
             v1 == c(i - 1)
             k == col[i]
  <2>3. /\ u \in Nat /\ v \in Nat /\ e \in Int /\ u1 \in Nat /\ v1 \in Nat /\ k \in Nat
        /\ u1 = k + B * u /\ e + B * v = v1 + k
    <3>1. i - 1 \in 0 .. width
      OBVIOUS
    <3> QED BY <1>11, <2>1, <2>2, <3>1
  <2> HIDE DEF u, v, e, u1, v1, k
  <2>6. u1 + v1 = e + B * (u + v)
    <3>1. B \in Nat
      BY <1>2
    <3> QED BY <2>3, <3>1, CarryRegroups
  <2> QED BY <2>6 DEF u, v, e, u1, v1
<1>13. t[0] + c(0) = n /\ t[width] + c(width) = c(width)
  BY <1>4, <1>11, <1>10
<1>14. CASE c(width) = 0
  <2> DEFINE r == [i \in 0 .. width |-> t[i] + c(i)]
  <2>1. x = D(width)
    BY <1>1, <1>14 DEF c, D
  <2>2. Len(x) = width /\ x \in Seq(S) /\ \A i \in 1 .. width : Digit(x, i) = d(i)
    BY <1>3, <1>8, <1>10, <2>1 DEF Digit
  <2>3. r \in [0 .. width -> Nat] /\ r[0] = n /\ r[width] = 0
    <3>1. r \in [0 .. width -> Nat]
      BY <1>11
    <3>2. r[0] = t[0] + c(0) /\ r[width] = t[width] + c(width)
      BY <1>10
    <3> HIDE DEF r
    <3> QED BY <1>13, <1>14, <3>1, <3>2
  <2>4. \A i \in 1 .. width : r[i - 1] = Digit(x, i) + BASE * r[i]
    <3> SUFFICES ASSUME NEW i \in 1 .. width PROVE r[i - 1] = Digit(x, i) + BASE * r[i]
      OBVIOUS
    <3>1. r[i - 1] = t[i - 1] + c(i - 1) /\ r[i] = t[i] + c(i)
      OBVIOUS
    <3> HIDE DEF r
    <3> QED BY <1>12, <2>2, <3>1 DEF B
  <2> HIDE DEF r
  <2>5. TailsOf(x, n, Len(x), r)
    BY <2>2, <2>3, <2>4 DEF TailsOf
  <2> QED BY <2>2, <2>5 DEF Denotes, IsDigits, S, B, x
<1>15. CASE c(width) # 0
  <2> DEFINE r == [i \in 0 .. width + 1 |-> IF i = width + 1 THEN 0 ELSE t[i] + c(i)]
  <2>1. x = Append(D(width), c(width)) /\ c(width) \in S /\ D(width) \in Seq(S)
    BY <1>1, <1>3, <1>10, <1>15 DEF c, D
  <2>2. /\ Len(x) = width + 1 /\ x \in Seq(S)
        /\ \A i \in 1 .. width : Digit(x, i) = d(i)
        /\ Digit(x, width + 1) = c(width)
    BY <1>8, <2>1 DEF Digit
  <2>3. \A i \in 0 .. width : r[i] = t[i] + c(i)
    OBVIOUS
  <2>4. r \in [0 .. width + 1 -> Nat] /\ r[0] = n /\ r[width + 1] = 0
    BY <1>11, <1>13, <2>3
  <2> HIDE DEF r
  <2>5. \A i \in 1 .. width + 1 : r[i - 1] = Digit(x, i) + BASE * r[i]
    <3> SUFFICES ASSUME NEW i \in 1 .. width + 1 PROVE r[i - 1] = Digit(x, i) + BASE * r[i]
      OBVIOUS
    <3>1. CASE i = width + 1
      <4>1. r[i - 1] = c(width)
        BY <1>10, <1>13, <2>3, <3>1
      <4>2. Digit(x, i) = c(width) /\ r[i] = 0 /\ c(width) \in Nat
        BY <1>10, <1>11, <2>2, <2>4, <3>1
      <4>3. BASE * 0 = 0
        BY BaseFacts
      <4> QED BY <4>1, <4>2, <4>3
    <3>2. CASE i # width + 1
      <4>1. i \in 1 .. width /\ i \in 0 .. width /\ i - 1 \in 0 .. width
        BY <3>2
      <4>2. r[i - 1] = t[i - 1] + c(i - 1) /\ r[i] = t[i] + c(i)
        BY <2>3, <4>1
      <4> QED BY <1>12, <2>2, <4>1, <4>2 DEF B
    <3> QED BY <3>1, <3>2
  <2>6. TailsOf(x, n, Len(x), r)
    BY <2>2, <2>4, <2>5 DEF TailsOf
  <2> QED BY <2>2, <2>6 DEF Denotes, IsDigits, S, B, x
<1> QED BY <1>14, <1>15

LEMMA RowRegroups ==
  ASSUME NEW b \in Nat, NEW d \in Nat, NEW y \in Nat, NEW r \in Nat, NEW s \in Nat, NEW q \in Nat
  PROVE  d * (y + b * r) + (s + b * q) = (d * y + s) + b * (d * r + q)
<1> DEFINE u == b * r
           v == d * r
           w == d * u
<1>1. u \in Nat /\ v \in Nat /\ w \in Nat /\ w = b * v
  OBVIOUS
<1>2. d * (y + u) = d * y + w
  <2> HIDE DEF u
  <2> QED BY <1>1 DEF w
<1>3. b * (v + q) = b * v + b * q
  <2> HIDE DEF v
  <2> QED BY <1>1
<1>4. d * y \in Nat /\ b * q \in Nat /\ b * v \in Nat
  BY <1>1
<1> HIDE DEF u, v, w
<1>5. d * (y + u) + (s + b * q) = (d * y + s) + b * (v + q)
  BY <1>1, <1>2, <1>3, <1>4
<1> QED BY <1>5 DEF u, v

LEMMA ColumnBound ==
  ASSUME NEW b \in Nat, b >= 2, NEW d \in 0 .. b - 1, NEW y \in 0 .. b - 1, NEW s \in 0 .. b - 1
  PROVE  d * y + s \in 0 .. b * (b - 1)
<1>1. d * y <= (b - 1) * (b - 1) /\ d * y \in Nat /\ b - 1 \in Nat
  OBVIOUS
<1>2. (b - 1) * (b - 1) + (b - 1) = b * (b - 1)
  OBVIOUS
<1> DEFINE p == (b - 1) * (b - 1)
           q == d * y
           z == b * (b - 1)
<1>3. p \in Nat /\ z \in Nat
  BY <1>1
<1> HIDE DEF p, q, z
<1>4. q + s \in Nat /\ q + s <= z
  BY <1>1, <1>2, <1>3 DEF p, q, z
<1> QED BY <1>3, <1>4 DEF q, z

\* A row of the schoolbook product.
LEMMA RowDenotes ==
  ASSUME NEW d \in 0 .. BASE - 1, NEW y, NEW b, Denotes(y, b), NEW sum, NEW v, Denotes(sum, v)
  PROVE  Denotes(Row(d, y, sum), d * b + BASE * v)
<1> DEFINE B == BASE
           width == IF Len(y) > Len(sum) THEN Len(y) ELSE Len(sum) + 1
           under(i) == IF i = 1 THEN 0 ELSE Digit(sum, i - 1)
           col == [i \in 1 .. width |-> d * Digit(y, i) + under(i)]
<1>1. B \in Nat /\ B >= 2 /\ d \in Nat /\ d \in 0 .. B - 1
  BY BaseFacts
<1>2. /\ b \in Nat /\ v \in Nat /\ IsDigits(y) /\ IsDigits(sum)
      /\ Len(y) \in Nat /\ Len(sum) \in Nat
  BY DenotesNat
<1>3. /\ width \in Nat /\ width >= 1 /\ width >= Len(y) /\ width - 1 \in Nat
      /\ width - 1 >= Len(sum)
  BY <1>2
<1>4. Row(d, y, sum) = Normalised(col, width)
  BY DEF Row
<1> HIDE DEF width
<1>5. PICK r : TailsOf(y, b, width, r)
  BY <1>3, Padded
<1>6. PICK q : TailsOf(sum, v, width - 1, q)
  BY <1>3, Padded
<1>7. ASSUME NEW i \in 1 .. width
      PROVE  Digit(y, i) \in 0 .. B - 1 /\ under(i) \in 0 .. B - 1
  <2>1. i \in Nat /\ i >= 1 /\ 0 \in 0 .. B - 1
    BY <1>1
  <2>2. Digit(y, i) \in 0 .. B - 1
    BY <1>2, <2>1, DigitType
  <2>3. i # 1 => Digit(sum, i - 1) \in 0 .. B - 1
    <3>1. i # 1 => i - 1 \in Nat /\ i - 1 >= 1
      BY <2>1
    <3> QED BY <1>2, <3>1, DigitType
  <2> QED BY <2>1, <2>2, <2>3
<1>8. col \in Columns(width)
  <2>1. ASSUME NEW i \in 1 .. width
        PROVE  d * Digit(y, i) + under(i) \in 0 .. BASE * (BASE - 1)
    <3> DEFINE e == Digit(y, i)
               u == under(i)
    <3>1. e \in 0 .. B - 1 /\ u \in 0 .. B - 1
      BY <1>7
    <3> HIDE DEF e, u, B
    <3>2. d * e + u \in 0 .. B * (B - 1)
      BY <1>1, <3>1, ColumnBound
    <3> QED BY <3>2 DEF e, u, B
  <2> QED BY <2>1 DEF Columns
<1> DEFINE t == [i \in 0 .. width |-> d * r[i] + (IF i = 0 THEN B * v ELSE q[i - 1])]
<1>9. /\ r \in [0 .. width -> Nat] /\ r[0] = b /\ r[width] = 0
      /\ \A i \in 1 .. width : r[i - 1] = Digit(y, i) + B * r[i]
  BY <1>5 DEF TailsOf
<1>10. /\ q \in [0 .. width - 1 -> Nat] /\ q[0] = v /\ q[width - 1] = 0
       /\ \A i \in 1 .. width - 1 : q[i - 1] = Digit(sum, i) + B * q[i]
  BY <1>6 DEF TailsOf
<1> HIDE DEF B
<1>11. t \in [0 .. width -> Nat]
  <2>1. ASSUME NEW i \in 0 .. width
        PROVE  d * r[i] + (IF i = 0 THEN B * v ELSE q[i - 1]) \in Nat
    <3>1. r[i] \in Nat
      BY <1>9
    <3>2. d * r[i] \in Nat
      BY <1>1, <3>1
    <3>3. B * v \in Nat
      BY <1>1, <1>2
    <3>4. i # 0 => q[i - 1] \in Nat
      <4>1. i # 0 => i - 1 \in 0 .. width - 1
        BY <1>3
      <4> QED BY <1>10, <4>1
    <3> QED BY <3>2, <3>3, <3>4
  <2> QED BY <2>1
<1>12. t[0] = d * b + B * v /\ t[width] = 0
  <2>1. 0 \in 0 .. width /\ width \in 0 .. width /\ width # 0
    BY <1>3
  <2>2. t[0] = d * r[0] + B * v /\ t[width] = d * r[width] + q[width - 1]
    BY <2>1
  <2>3. d * 0 + 0 = 0
    BY <1>1
  <2> QED BY <1>9, <1>10, <2>2, <2>3
<1>13. ASSUME NEW i \in 1 .. width PROVE t[i - 1] = col[i] + B * t[i]
  <2> DEFINE yi == Digit(y, i)
             ri == r[i]
             qi == q[i - 1]
             si == under(i)
  <2>1. i \in 0 .. width /\ i - 1 \in 0 .. width /\ i - 1 \in 0 .. width - 1 /\ i # 0
    BY <1>3
  <2>2. ri \in Nat /\ qi \in Nat
    BY <1>9, <1>10, <2>1
  <2>3. yi \in Nat /\ si \in Nat
    BY <1>1, <1>7
  <2>4. t[i] = d * ri + qi /\ col[i] = d * yi + si
    BY <2>1
  <2>5. r[i - 1] = yi + B * ri
    BY <1>9
  <2>6. (IF i - 1 = 0 THEN B * v ELSE q[(i - 1) - 1]) = si + B * qi
    <3>1. CASE i = 1
      <4>1. si = 0 /\ qi = v
        BY <1>10, <3>1
      <4>2. B * v \in Nat
        BY <1>1, <1>2
      <4> QED BY <3>1, <4>1, <4>2
    <3>2. CASE i # 1
      <4>1. i - 1 \in 1 .. width - 1 /\ i - 1 # 0
        BY <1>3, <3>2
      <4>2. q[(i - 1) - 1] = Digit(sum, i - 1) + B * q[i - 1]
        BY <1>10, <4>1
      <4> QED BY <3>2, <4>1, <4>2
    <3> QED BY <3>1, <3>2
  <2>7. t[i - 1] = d * r[i - 1] + (IF i - 1 = 0 THEN B * v ELSE q[(i - 1) - 1])
    BY <2>1
  <2>8. t[i - 1] = d * (yi + B * ri) + (si + B * qi)
    BY <2>5, <2>6, <2>7
  <2> HIDE DEF yi, ri, qi, si, t, col
  <2>9. d * (yi + B * ri) + (si + B * qi) = (d * yi + si) + B * (d * ri + qi)
    BY <1>1, <2>2, <2>3, RowRegroups
  <2> QED BY <2>4, <2>8, <2>9
<1> DEFINE n == d * b + B * v
<1>14. n \in Nat
  <2>1. d * b \in Nat /\ B * v \in Nat
    BY <1>1, <1>2
  <2> QED BY <2>1
<1> HIDE DEF col, t, n
<1>15. Denotes(Normalised(col, width), n)
  <2>1. t[0] = n /\ \A i \in 1 .. width : t[i - 1] = col[i] + BASE * t[i]
    BY <1>12, <1>13 DEF n, B
  <2> QED BY <1>3, <1>8, <1>11, <1>12, <1>14, <2>1, NormalisedDenotes
<1> QED BY <1>4, <1>15 DEF n, B

\* The digit sequences, each of some number.
Numerals == {x \in Seq(0 .. BASE - 1) : \E n : Denotes(x, n)}

LEMMA NumeralsDenote ==
  /\ \A x, n : Denotes(x, n) => x \in Numerals
  /\ \A x \in Numerals : \E n : Denotes(x, n)
BY DEF Numerals, Denotes, IsDigits

\* The rows of Times.
LEMMA TimesUnfolds ==
  ASSUME NEW x, NEW m, Denotes(x, m), NEW y, NEW n, Denotes(y, n), y # <<>>
  PROVE  \E h : /\ h[0] = <<>>
                /\ \A i \in 1 .. Len(x) : h[i] = Row(x[Len(x) + 1 - i], y, h[i - 1])
                /\ Times(x, y) = h[Len(x)]
<1> DEFINE N == Len(x)
           Rec(f) == f = [i \in 0 .. Len(x) |->
                            IF i = 0 THEN <<>> ELSE Row(x[Len(x) + 1 - i], y, f[i - 1])]
           h == CHOOSE f : Rec(f)
<1>1. Times(x, y) = h[N]
  BY DEF Times
<1>2. N \in Nat /\ \A i \in 1 .. N : x[i] \in 0 .. BASE - 1
  <2> DEFINE S == 0 .. BASE - 1
  <2>1. x \in Seq(S)
    BY DEF Denotes, IsDigits
  <2> HIDE DEF S
  <2>2. Len(x) \in Nat /\ \A i \in 1 .. Len(x) : x[i] \in S
    BY <2>1
  <2> QED BY <2>2 DEF S
<1> HIDE DEF N
<1>3. ASSUME NEW p \in (1 .. N) \X Numerals PROVE Row(x[N + 1 - p[1]], y, p[2]) \in Numerals
  <2>1. N + 1 - p[1] \in 1 .. N
    BY <1>2
  <2>2. x[N + 1 - p[1]] \in 0 .. BASE - 1
    BY <1>2, <2>1
  <2>3. PICK v : Denotes(p[2], v)
    BY NumeralsDenote
  <2>4. Denotes(Row(x[N + 1 - p[1]], y, p[2]), x[N + 1 - p[1]] * n + BASE * v)
    BY <2>2, <2>3, RowDenotes
  <2> QED BY <2>4, NumeralsDenote
<1> DEFINE g == [p \in (1 .. N) \X Numerals |-> Row(x[N + 1 - p[1]], y, p[2])]
<1>4. IsStep(g, N, Numerals)
  BY <1>3 DEF IsStep
<1>5. <<>> \in Numerals
  BY EmptyDenotes, NumeralsDenote
<1>6. PICK f : Recurs(f, <<>>, g, N, Numerals)
  <2> HIDE DEF g
  <2> QED BY <1>2, <1>4, <1>5, RecursionExists
<1>7. /\ f \in [0 .. N -> Numerals] /\ f[0] = <<>>
      /\ \A i \in 1 .. N : f[i] = Row(x[N + 1 - i], y, f[i - 1])
  <2>1. f \in [0 .. N -> Numerals] /\ f[0] = <<>> /\ \A i \in 1 .. N : f[i] = g[<<i, f[i - 1]>>]
    <3> HIDE DEF g
    <3> QED BY <1>6 DEF Recurs
  <2>2. ASSUME NEW i \in 1 .. N PROVE f[i] = Row(x[N + 1 - i], y, f[i - 1])
    <3>1. i - 1 \in 0 .. N
      BY <1>2
    <3>2. <<i, f[i - 1]>> \in (1 .. N) \X Numerals
      BY <2>1, <3>1
    <3>3. g[<<i, f[i - 1]>>] = Row(x[N + 1 - i], y, f[i - 1])
      BY <3>2
    <3> QED BY <2>1, <3>3
  <2> QED BY <2>1, <2>2
<1>8. Rec(f)
  <2>1. ASSUME NEW i \in 0 .. N
        PROVE  f[i] = IF i = 0 THEN <<>> ELSE Row(x[N + 1 - i], y, f[i - 1])
    <3>1. i # 0 => i \in 1 .. N
      OBVIOUS
    <3> QED BY <1>7, <3>1
  <2>2. f = [i \in 0 .. N |-> IF i = 0 THEN <<>> ELSE Row(x[N + 1 - i], y, f[i - 1])]
    BY <1>7, <2>1
  <2> QED BY <2>2 DEF N
<1>9. Rec(h)
  <2> HIDE DEF Rec
  <2> QED BY <1>8
<1>10. h = [i \in 0 .. N |-> IF i = 0 THEN <<>> ELSE Row(x[N + 1 - i], y, h[i - 1])]
  BY <1>9 DEF N
<1> HIDE DEF h, Rec
<1>11. h[0] = <<>> /\ \A i \in 1 .. N : h[i] = Row(x[N + 1 - i], y, h[i - 1])
  <2>1. 0 \in 0 .. N
    BY <1>2
  <2>2. h[0] = <<>>
    BY <1>10, <2>1
  <2>3. ASSUME NEW i \in 1 .. N PROVE h[i] = Row(x[N + 1 - i], y, h[i - 1])
    <3>1. i \in 0 .. N /\ i # 0
      OBVIOUS
    <3> QED BY <1>10, <3>1
  <2> QED BY <2>2, <2>3
<1> QED BY <1>1, <1>11 DEF N

LEMMA TimesRegroups ==
  ASSUME NEW b \in Nat, NEW d \in Nat, NEW r \in Nat, NEW n \in Nat
  PROVE  d * n + b * (r * n) = (d + b * r) * n
<1>1. (b * r) * n = b * (r * n)
  OBVIOUS
<1> QED BY <1>1

\* Times multiplies.
LEMMA TimesDenotes ==
  ASSUME NEW x, NEW m, Denotes(x, m), NEW y, NEW n, Denotes(y, n)
  PROVE  Denotes(Times(x, y), m * n)
<1>1. m \in Nat /\ n \in Nat /\ IsDigits(x) /\ Len(x) \in Nat
  BY DenotesNat
<1>2. CASE y = <<>>
  <2>1. PICK r : TailsOf(y, n, Len(y), r)
    BY DEF Denotes
  <2>2. n = 0
    BY <1>2, <2>1 DEF TailsOf
  <2>3. Times(x, y) = <<>> /\ m * n = 0
    BY <1>1, <1>2, <2>2 DEF Times
  <2> QED BY <2>3, EmptyDenotes
<1>3. CASE y # <<>>
  <2> DEFINE N == Len(x)
  <2>1. PICK h : /\ h[0] = <<>>
                 /\ \A i \in 1 .. N : h[i] = Row(x[N + 1 - i], y, h[i - 1])
                 /\ Times(x, y) = h[N]
    BY <1>3, TimesUnfolds
  <2>2. PICK r : TailsOf(x, m, N, r)
    BY DEF Denotes
  <2>3. /\ r \in [0 .. N -> Nat] /\ r[0] = m /\ r[N] = 0
        /\ \A i \in 1 .. N : r[i - 1] = Digit(x, i) + BASE * r[i]
    BY <2>2 DEF TailsOf
  <2>4. \A i \in 1 .. N : Digit(x, i) = x[i]
    BY <1>1 DEF Digit
  <2>5. N \in Nat
    BY <1>1
  <2> HIDE DEF N
  <2> DEFINE K == {i \in 0 .. N : Denotes(h[i], r[N - i] * n)}
  <2>6. 0 \in K
    <3>1. N - 0 = N /\ 0 * n = 0
      BY <1>1, <2>5
    <3>2. r[N - 0] * n = 0
      BY <2>3, <3>1
    <3>3. Denotes(h[0], r[N - 0] * n)
      BY <2>1, <3>2, EmptyDenotes
    <3> QED BY <2>5, <3>3
  <2>7. ASSUME NEW i \in 1 .. N, i - 1 \in K PROVE i \in K
    <3> DEFINE k == N + 1 - i
               d == x[k]
    <3>1. k \in 1 .. N /\ k - 1 = N - i /\ N - (i - 1) = k /\ i \in 0 .. N /\ k \in 0 .. N
          /\ k - 1 \in 0 .. N /\ k >= 1
      BY <2>5
    <3>2. Denotes(h[i - 1], r[k] * n)
      BY <2>7, <3>1
    <3>3. h[i] = Row(d, y, h[i - 1])
      BY <2>1
    <3> HIDE DEF k
    <3>4. d = Digit(x, k) /\ d \in 0 .. BASE - 1
      BY <1>1, <2>4, <3>1, DigitType
    <3> HIDE DEF d
    <3>5. Denotes(Row(d, y, h[i - 1]), d * n + BASE * (r[k] * n))
      BY <3>2, <3>4, RowDenotes
    <3>6. d * n + BASE * (r[k] * n) = r[k - 1] * n
      <4>1. r[k] \in Nat /\ r[k - 1] = d + BASE * r[k]
        BY <2>3, <3>1, <3>4
      <4>2. d \in Nat /\ BASE \in Nat
        BY <3>4, BaseFacts
      <4> DEFINE rk == r[k]
                 b == BASE
      <4>3. rk \in Nat /\ b \in Nat /\ r[k - 1] = d + b * rk
        BY <4>1, <4>2
      <4> HIDE DEF rk, b
      <4>4. d * n + b * (rk * n) = (d + b * rk) * n
        BY <1>1, <4>2, <4>3, TimesRegroups
      <4>5. d * n + b * (rk * n) = r[k - 1] * n
        BY <4>3, <4>4
      <4> QED BY <4>5 DEF rk, b
    <3>7. Denotes(h[i], r[N - i] * n)
      BY <3>1, <3>3, <3>5, <3>6
    <3> QED BY <3>1, <3>7
  <2>8. \A i \in 0 .. N : i \in K
    <3> HIDE DEF K
    <3> QED BY <2>5, <2>6, <2>7, Ascent
  <2>9. Denotes(h[N], r[N - N] * n)
    BY <2>5, <2>8
  <2>10. r[N - N] = m
    BY <2>3, <2>5
  <2> QED BY <2>1, <2>9, <2>10
<1> QED BY <1>2, <1>3

\* A digit put below the others.
LEMMA ConsDenotes ==
  ASSUME NEW d \in 0 .. BASE - 1, NEW x, NEW n, Denotes(x, n)
  PROVE  Denotes(<<d>> \o x, d + BASE * n)
<1> DEFINE N == Len(x)
           S == 0 .. BASE - 1
           y == <<d>> \o x
<1>1. PICK r : TailsOf(x, n, N, r)
  BY DEF Denotes
<1>2. n \in Nat /\ x \in Seq(S) /\ N \in Nat
  BY DenotesNat DEF IsDigits
<1>3. /\ r \in [0 .. N -> Nat] /\ r[0] = n /\ r[N] = 0
      /\ \A i \in 1 .. N : r[i - 1] = Digit(x, i) + BASE * r[i]
  BY <1>1 DEF TailsOf
<1>4. y \in Seq(S) /\ Len(y) = N + 1 /\ Digit(y, 1) = d
      /\ \A i \in 1 .. N : Digit(y, i + 1) = Digit(x, i)
  <2>1. d \in S
    OBVIOUS
  <2> HIDE DEF S
  <2>2. y \in Seq(S) /\ Len(y) = N + 1 /\ y[1] = d /\ \A i \in 1 .. N : y[i + 1] = x[i]
    BY <1>2, <2>1
  <2> HIDE DEF y
  <2> QED BY <1>2, <2>2 DEF Digit
<1> HIDE DEF y, N
<1> DEFINE t == [i \in 0 .. N + 1 |-> IF i = 0 THEN d + BASE * n ELSE r[i - 1]]
<1>5. d + BASE * n \in Nat
  <2> DEFINE b == BASE
  <2>1. b \in Nat
    BY BaseFacts
  <2> HIDE DEF b
  <2>2. d \in Nat /\ b * n \in Nat
    BY <1>2, <2>1 DEF b
  <2> QED BY <2>2 DEF b
<1>6. /\ t \in [0 .. N + 1 -> Nat] /\ t[0] = d + BASE * n
      /\ \A i \in 0 .. N : t[i + 1] = r[i]
  <2>1. ASSUME NEW i \in 0 .. N PROVE i + 1 \in 0 .. N + 1 /\ i + 1 # 0 /\ (i + 1) - 1 = i
    BY <1>2
  <2>2. \A i \in 0 .. N : t[i + 1] = r[i]
    BY <2>1
  <2>3. 0 \in 0 .. N + 1
    BY <1>2
  <2>4. t[0] = d + BASE * n
    BY <2>3
  <2>5. ASSUME NEW i \in 0 .. N + 1 PROVE t[i] \in Nat
    <3>1. i = 0 \/ i - 1 \in 0 .. N
      BY <1>2
    <3> QED BY <1>3, <1>5, <3>1
  <2> QED BY <2>2, <2>4, <2>5
<1> HIDE DEF t
<1>7. t[N + 1] = 0
  BY <1>2, <1>3, <1>6
<1>8. ASSUME NEW i \in 1 .. N + 1 PROVE t[i - 1] = Digit(y, i) + BASE * t[i]
  <2>1. CASE i = 1
    <3>1. t[1] = n
      <4>1. t[0 + 1] = r[0]
        BY <1>2, <1>6
      <4> QED BY <1>3, <4>1
    <3> QED BY <1>4, <1>6, <2>1, <3>1
  <2>2. CASE i # 1
    <3> DEFINE j == i - 1
    <3>1. j \in 1 .. N /\ j - 1 \in 0 .. N /\ j \in 0 .. N /\ i = j + 1 /\ i - 1 = (j - 1) + 1
      BY <1>2, <2>2
    <3> HIDE DEF j
    <3>2. Digit(y, i) = Digit(x, j) /\ t[i] = r[j] /\ t[i - 1] = r[j - 1]
      BY <1>4, <1>6, <3>1
    <3> QED BY <1>3, <3>1, <3>2
  <2> QED BY <2>1, <2>2
<1>9. TailsOf(y, d + BASE * n, Len(y), t)
  BY <1>4, <1>6, <1>7, <1>8 DEF TailsOf
<1> QED BY <1>4, <1>9 DEF Denotes, IsDigits, y

LEMMA OneDenotes == Denotes(<<1>>, 1)
<1>1. 1 \in 0 .. BASE - 1
  BY DEF BASE
<1>2. Denotes(<<1>> \o <<>>, 1 + BASE * 0)
  BY <1>1, EmptyDenotes, ConsDenotes
<1>3. <<1>> \o <<>> = <<1>> /\ 1 + BASE * 0 = 1
  BY BaseFacts
<1> QED BY <1>2, <1>3

\* m to the n-th.
Raised(m, n) == LET power[i \in 0 .. n] == IF i = 0 THEN 1 ELSE m * power[i - 1] IN power[n]

LEMMA RaisedUnfolds ==
  ASSUME NEW m \in Nat, NEW n \in Nat
  PROVE  \E h : /\ h \in [0 .. n -> Nat] /\ h[0] = 1
                /\ \A i \in 1 .. n : h[i] = m * h[i - 1]
                /\ Raised(m, n) = h[n]
<1> DEFINE Rec(f) == f = [i \in 0 .. n |-> IF i = 0 THEN 1 ELSE m * f[i - 1]]
           h == CHOOSE f : Rec(f)
<1>1. Raised(m, n) = h[n]
  BY DEF Raised
<1> DEFINE g == [p \in (1 .. n) \X Nat |-> m * p[2]]
<1>2. IsStep(g, n, Nat)
  BY DEF IsStep
<1>3. PICK f : Recurs(f, 1, g, n, Nat)
  <2> HIDE DEF g
  <2> QED BY <1>2, RecursionExists
<1>4. f \in [0 .. n -> Nat] /\ f[0] = 1 /\ \A i \in 1 .. n : f[i] = m * f[i - 1]
  <2>1. f \in [0 .. n -> Nat] /\ f[0] = 1 /\ \A i \in 1 .. n : f[i] = g[<<i, f[i - 1]>>]
    <3> HIDE DEF g
    <3> QED BY <1>3 DEF Recurs
  <2>2. ASSUME NEW i \in 1 .. n PROVE f[i] = m * f[i - 1]
    <3>1. i - 1 \in 0 .. n
      OBVIOUS
    <3>2. <<i, f[i - 1]>> \in (1 .. n) \X Nat
      BY <2>1, <3>1
    <3>3. g[<<i, f[i - 1]>>] = m * f[i - 1]
      BY <3>2
    <3> QED BY <2>1, <3>3
  <2> QED BY <2>1, <2>2
<1>5. Rec(f)
  <2>1. ASSUME NEW i \in 0 .. n PROVE f[i] = IF i = 0 THEN 1 ELSE m * f[i - 1]
    <3>1. i # 0 => i \in 1 .. n
      OBVIOUS
    <3> QED BY <1>4, <3>1
  <2> QED BY <1>4, <2>1
<1>6. Rec(h)
  <2> HIDE DEF Rec
  <2> QED BY <1>5
<1>7. h = [i \in 0 .. n |-> IF i = 0 THEN 1 ELSE m * h[i - 1]]
  BY <1>6
<1> HIDE DEF h, Rec
<1>8. h[0] = 1 /\ \A i \in 1 .. n : h[i] = m * h[i - 1]
  <2>1. 0 \in 0 .. n
    OBVIOUS
  <2>2. h[0] = 1
    BY <1>7, <2>1
  <2>3. ASSUME NEW i \in 1 .. n PROVE h[i] = m * h[i - 1]
    <3>1. i \in 0 .. n /\ i # 0
      OBVIOUS
    <3> QED BY <1>7, <3>1
  <2> QED BY <2>2, <2>3
<1>9. \A i \in 0 .. n : h[i] \in Nat
  <2> DEFINE K == {i \in 0 .. n : h[i] \in Nat}
  <2>1. 0 \in K
    BY <1>8
  <2>2. ASSUME NEW i \in 1 .. n, i - 1 \in K PROVE i \in K
    <3>1. i \in 0 .. n /\ h[i - 1] \in Nat /\ h[i] = m * h[i - 1]
      BY <1>8, <2>2
    <3> DEFINE v == h[i - 1]
    <3> HIDE DEF v
    <3>2. v \in Nat /\ h[i] = m * v
      BY <3>1 DEF v
    <3>3. h[i] \in Nat
      BY <3>2
    <3> QED BY <3>1, <3>3
  <2>3. \A i \in 0 .. n : i \in K
    <3> HIDE DEF K
    <3> QED BY <2>1, <2>2, Ascent
  <2> QED BY <2>3
<1>10. h \in [0 .. n -> Nat]
  <2>1. h = [i \in 0 .. n |-> h[i]]
    BY <1>7
  <2> QED BY <1>9, <2>1
<1> QED BY <1>1, <1>8, <1>10

\* The powers of ToThe.
LEMMA ToTheUnfolds ==
  ASSUME NEW x \in Numerals, NEW n \in Nat
  PROVE  \E h : /\ h[0] = <<1>>
                /\ \A i \in 1 .. n : h[i] = Times(x, h[i - 1])
                /\ ToThe(x, n) = h[n]
<1> DEFINE Rec(f) == f = [i \in 0 .. n |-> IF i = 0 THEN <<1>> ELSE Times(x, f[i - 1])]
           h == CHOOSE f : Rec(f)
<1>1. ToThe(x, n) = h[n]
  BY DEF ToThe
<1>2. ASSUME NEW p \in (1 .. n) \X Numerals PROVE Times(x, p[2]) \in Numerals
  <2>1. PICK u, v : Denotes(x, u) /\ Denotes(p[2], v)
    BY NumeralsDenote
  <2>2. Denotes(Times(x, p[2]), u * v)
    BY <2>1, TimesDenotes
  <2> QED BY <2>2, NumeralsDenote
<1> DEFINE g == [p \in (1 .. n) \X Numerals |-> Times(x, p[2])]
<1>3. IsStep(g, n, Numerals)
  BY <1>2 DEF IsStep
<1>4. <<1>> \in Numerals
  BY OneDenotes, NumeralsDenote
<1>5. PICK f : Recurs(f, <<1>>, g, n, Numerals)
  <2> HIDE DEF g
  <2> QED BY <1>3, <1>4, RecursionExists
<1>6. f \in [0 .. n -> Numerals] /\ f[0] = <<1>> /\ \A i \in 1 .. n : f[i] = Times(x, f[i - 1])
  <2>1. f \in [0 .. n -> Numerals] /\ f[0] = <<1>> /\ \A i \in 1 .. n : f[i] = g[<<i, f[i - 1]>>]
    <3> HIDE DEF g
    <3> QED BY <1>5 DEF Recurs
  <2>2. ASSUME NEW i \in 1 .. n PROVE f[i] = Times(x, f[i - 1])
    <3>1. i - 1 \in 0 .. n
      OBVIOUS
    <3>2. <<i, f[i - 1]>> \in (1 .. n) \X Numerals
      BY <2>1, <3>1
    <3>3. g[<<i, f[i - 1]>>] = Times(x, f[i - 1])
      BY <3>2
    <3> QED BY <2>1, <3>3
  <2> QED BY <2>1, <2>2
<1>7. Rec(f)
  <2>1. ASSUME NEW i \in 0 .. n PROVE f[i] = IF i = 0 THEN <<1>> ELSE Times(x, f[i - 1])
    <3>1. i # 0 => i \in 1 .. n
      OBVIOUS
    <3> QED BY <1>6, <3>1
  <2> QED BY <1>6, <2>1
<1>8. Rec(h)
  <2> HIDE DEF Rec
  <2> QED BY <1>7
<1>9. h = [i \in 0 .. n |-> IF i = 0 THEN <<1>> ELSE Times(x, h[i - 1])]
  BY <1>8
<1> HIDE DEF h, Rec
<1>10. h[0] = <<1>> /\ \A i \in 1 .. n : h[i] = Times(x, h[i - 1])
  <2>1. 0 \in 0 .. n
    OBVIOUS
  <2>2. h[0] = <<1>>
    BY <1>9, <2>1
  <2>3. ASSUME NEW i \in 1 .. n PROVE h[i] = Times(x, h[i - 1])
    <3>1. i \in 0 .. n /\ i # 0
      OBVIOUS
    <3> QED BY <1>9, <3>1
  <2> QED BY <2>2, <2>3
<1> QED BY <1>1, <1>10

\* ToThe raises.
LEMMA ToTheDenotes ==
  ASSUME NEW x, NEW m, Denotes(x, m), NEW n \in Nat
  PROVE  Denotes(ToThe(x, n), Raised(m, n))
<1>1. m \in Nat /\ x \in Numerals
  BY DenotesNat, NumeralsDenote
<1>2. PICK h : /\ h[0] = <<1>>
               /\ \A i \in 1 .. n : h[i] = Times(x, h[i - 1])
               /\ ToThe(x, n) = h[n]
  BY <1>1, ToTheUnfolds
<1>3. PICK p : /\ p[0] = 1 /\ \A i \in 1 .. n : p[i] = m * p[i - 1]
               /\ Raised(m, n) = p[n]
  BY <1>1, RaisedUnfolds
<1> DEFINE K == {i \in 0 .. n : Denotes(h[i], p[i])}
<1>4. 0 \in K
  BY <1>2, <1>3, OneDenotes
<1>5. ASSUME NEW i \in 1 .. n, i - 1 \in K PROVE i \in K
  <2>1. Denotes(h[i - 1], p[i - 1]) /\ i \in 0 .. n
    BY <1>5
  <2>2. Denotes(Times(x, h[i - 1]), m * p[i - 1])
    BY <2>1, TimesDenotes
  <2> QED BY <1>2, <1>3, <2>1, <2>2
<1>6. \A i \in 0 .. n : i \in K
  <2> HIDE DEF K
  <2> QED BY <1>4, <1>5, Ascent
<1> QED BY <1>2, <1>3, <1>6

\* Each digit leaves a smaller number.
LEMMA Shrinks ==
  ASSUME NEW i \in Nat, i >= 1
  PROVE  /\ i \div BASE \in 0 .. i - 1 /\ i % BASE \in 0 .. BASE - 1
         /\ (i % BASE) + BASE * (i \div BASE) = i
<1> DEFINE b == BASE
           q == i \div b
           r == i % b
<1>1. b \in Nat /\ b >= 2
  BY BaseFacts
<1> HIDE DEF b
<1>2. q \in Nat /\ r \in 0 .. b - 1 /\ i = b * q + r
  BY <1>1, DivisionBounds
<1> HIDE DEF q, r
<1>3. b * q >= 2 * q
  <2>1. b * q = (b - 2) * q + 2 * q /\ (b - 2) * q \in Nat
    <3>1. b - 2 \in Nat
      BY <1>1
    <3> QED BY <1>1, <1>2, <3>1
  <2> QED BY <1>1, <1>2, <2>1
<1>4. q \in 0 .. i - 1
  <2>1. b * q \in Nat
    BY <1>1, <1>2
  <2> QED BY <1>2, <1>3, <2>1
<1>5. r + b * q = i
  <2>1. b * q \in Nat
    BY <1>1, <1>2
  <2> QED BY <1>2, <2>1
<1> QED BY <1>2, <1>4, <1>5 DEF b, q, r

LEMMA BigUnfolds ==
  ASSUME NEW n \in Nat
  PROVE  \E h : /\ h[0] = <<>>
                /\ \A i \in 1 .. n : h[i] = <<i % BASE>> \o h[i \div BASE]
                /\ Big(n) = h[n]
<1> DEFINE Rec(f) == f = [i \in 0 .. n |-> IF i = 0 THEN <<>> ELSE <<i % BASE>> \o f[i \div BASE]]
           h == CHOOSE f : Rec(f)
           Upto(f, k) == /\ DOMAIN f = 0 .. k /\ f = [i \in 0 .. k |-> f[i]] /\ f[0] = <<>>
                         /\ \A i \in 1 .. k : f[i] = <<i % BASE>> \o f[i \div BASE]
           K == {k \in 0 .. n : \E f : Upto(f, k)}
<1>1. Big(n) = h[n]
  BY DEF Big
<1>2. ASSUME NEW i \in Nat, i >= 1 PROVE i \div BASE \in 0 .. i - 1
  BY <1>2, Shrinks
<1>3. 0 \in K
  <2> DEFINE f == [i \in 0 .. 0 |-> <<>>]
  <2>1. Upto(f, 0)
    OBVIOUS
  <2>2. 0 \in 0 .. n
    OBVIOUS
  <2> HIDE DEF f, Upto
  <2> QED BY <2>1, <2>2
<1>4. ASSUME NEW k \in 1 .. n, k - 1 \in K PROVE k \in K
  <2>1. PICK f : Upto(f, k - 1)
    BY <1>4
  <2> DEFINE v == <<k % BASE>> \o f[k \div BASE]
             e == [i \in 0 .. k |-> IF i = k THEN v ELSE f[i]]
  <2>2. f[0] = <<>> /\ \A i \in 1 .. k - 1 : f[i] = <<i % BASE>> \o f[i \div BASE]
    BY <2>1
  <2>3. /\ e[k] = <<k % BASE>> \o f[k \div BASE] /\ \A i \in 0 .. k - 1 : e[i] = f[i]
        /\ DOMAIN e = 0 .. k /\ e = [i \in 0 .. k |-> e[i]]
    <3> HIDE DEF v
    <3>1. e[k] = v /\ DOMAIN e = 0 .. k /\ e = [i \in 0 .. k |-> e[i]]
      OBVIOUS
    <3>2. \A i \in 0 .. k - 1 : e[i] = f[i]
      OBVIOUS
    <3> HIDE DEF e
    <3> QED BY <3>1, <3>2 DEF v
  <2> HIDE DEF e
  <2>4. e[0] = <<>>
    <3>1. 0 \in 0 .. k - 1
      OBVIOUS
    <3> QED BY <2>2, <2>3, <3>1
  <2>5. ASSUME NEW i \in 1 .. k PROVE e[i] = <<i % BASE>> \o e[i \div BASE]
    <3>1. i \div BASE \in 0 .. k - 1
      <4>1. i \div BASE \in 0 .. i - 1
        BY <1>2
      <4> DEFINE q == i \div BASE
      <4> HIDE DEF q
      <4>2. q \in 0 .. i - 1
        BY <4>1 DEF q
      <4>3. q \in 0 .. k - 1
        BY <4>2
      <4> QED BY <4>3 DEF q
    <3>2. e[i \div BASE] = f[i \div BASE]
      BY <2>3, <3>1
    <3>3. CASE i = k
      BY <2>3, <3>2, <3>3
    <3>4. CASE i # k
      <4>1. i \in 1 .. k - 1 /\ i \in 0 .. k - 1
        BY <3>4
      <4> QED BY <2>2, <2>3, <3>2, <4>1
    <3> QED BY <3>3, <3>4
  <2>6. Upto(e, k)
    BY <2>3, <2>4, <2>5
  <2>7. k \in 0 .. n
    OBVIOUS
  <2> HIDE DEF Upto
  <2> QED BY <2>6, <2>7
<1>5. \A i \in 0 .. n : i \in K
  <2> HIDE DEF K
  <2> QED BY <1>3, <1>4, Ascent
<1>6. PICK f : Upto(f, n)
  <2>1. n \in 0 .. n
    OBVIOUS
  <2>2. n \in K
    BY <1>5, <2>1
  <2> HIDE DEF Upto
  <2> QED BY <2>2
<1>7. Rec(f)
  <2>1. ASSUME NEW i \in 0 .. n
        PROVE  f[i] = IF i = 0 THEN <<>> ELSE <<i % BASE>> \o f[i \div BASE]
    <3>1. i # 0 => i \in 1 .. n
      OBVIOUS
    <3> QED BY <1>6, <3>1
  <2>2. f = [i \in 0 .. n |-> f[i]]
    BY <1>6
  <2> QED BY <2>1, <2>2
<1>8. Rec(h)
  <2> HIDE DEF Rec
  <2> QED BY <1>7
<1>9. h = [i \in 0 .. n |-> IF i = 0 THEN <<>> ELSE <<i % BASE>> \o h[i \div BASE]]
  BY <1>8
<1> HIDE DEF h, Rec
<1>10. h[0] = <<>> /\ \A i \in 1 .. n : h[i] = <<i % BASE>> \o h[i \div BASE]
  <2>1. 0 \in 0 .. n
    OBVIOUS
  <2>2. h[0] = <<>>
    BY <1>9, <2>1
  <2>3. ASSUME NEW i \in 1 .. n PROVE h[i] = <<i % BASE>> \o h[i \div BASE]
    <3>1. i \in 0 .. n /\ i # 0
      OBVIOUS
    <3> QED BY <1>9, <3>1
  <2> QED BY <2>2, <2>3
<1> QED BY <1>1, <1>10

\* Big converts.
LEMMA BigDenotes ==
  ASSUME NEW n \in Nat
  PROVE  Denotes(Big(n), n)
<1>1. PICK h : /\ h[0] = <<>>
               /\ \A i \in 1 .. n : h[i] = <<i % BASE>> \o h[i \div BASE]
               /\ Big(n) = h[n]
  BY BigUnfolds
<1> DEFINE K == {i \in 0 .. n : \A j \in 0 .. i : Denotes(h[j], j)}
<1>2. 0 \in K
  <2>1. 0 \in 0 .. n
    OBVIOUS
  <2>2. Denotes(h[0], 0)
    BY <1>1, EmptyDenotes
  <2>3. \A j \in 0 .. 0 : Denotes(h[j], j)
    <3>1. \A j \in 0 .. 0 : j = 0
      OBVIOUS
    <3> QED BY <2>2, <3>1
  <2> QED BY <2>1, <2>3
<1>3. ASSUME NEW i \in 1 .. n, i - 1 \in K PROVE i \in K
  <2> DEFINE q == i \div BASE
             d == i % BASE
  <2>1. q \in 0 .. i - 1 /\ d \in 0 .. BASE - 1 /\ d + BASE * q = i
    BY Shrinks
  <2>2. h[i] = <<d>> \o h[q]
    BY <1>1
  <2> HIDE DEF q, d
  <2>3. Denotes(h[q], q)
    BY <1>3, <2>1
  <2>4. Denotes(<<d>> \o h[q], d + BASE * q)
    BY <2>1, <2>3, ConsDenotes
  <2>5. Denotes(h[i], i)
    BY <2>1, <2>2, <2>4
  <2>6. ASSUME NEW j \in 0 .. i PROVE Denotes(h[j], j)
    <3>1. CASE j = i
      BY <2>5, <3>1
    <3>2. CASE j # i
      <4>1. j \in 0 .. i - 1
        BY <3>2
      <4> QED BY <1>3, <4>1
    <3> QED BY <3>1, <3>2
  <2>7. i \in 0 .. n
    OBVIOUS
  <2> QED BY <2>6, <2>7
<1>4. \A i \in 0 .. n : i \in K
  <2> HIDE DEF K
  <2> QED BY <1>2, <1>3, Ascent
<1>5. n \in K /\ n \in 0 .. n
  BY <1>4
<1> QED BY <1>1, <1>5

\* Higher digits decide, then the digits at hand.
LEMMA DigitsDecide ==
  ASSUME NEW b \in Nat, NEW d \in 0 .. b - 1, NEW e \in 0 .. b - 1, NEW r \in Nat, NEW s \in Nat
  PROVE  /\ r < s => d + b * r < e + b * s
         /\ r = s => (d + b * r <= e + b * s <=> d <= e)
         /\ d + b * r \in Int /\ e + b * s \in Int
<1>1. b * r \in Int /\ b * s \in Int
  OBVIOUS
<1>2. ASSUME r < s PROVE d + b * r < e + b * s
  <2>1. b * s = b * r + b + b * (s - r - 1)
    <3> DEFINE t == s - r - 1
    <3>1. t \in Nat /\ s = r + 1 + t
      BY <1>2
    <3> HIDE DEF t
    <3>2. b * (r + 1 + t) = b * r + b + b * t
      BY <3>1
    <3> QED BY <3>1, <3>2 DEF t
  <2>2. b * (s - r - 1) \in Nat
    <3>1. s - r - 1 \in Nat
      BY <1>2
    <3> QED BY <3>1
  <2> QED BY <1>1, <2>1, <2>2
<1> QED BY <1>1, <1>2

\* The digits from k + 1 on compare as their tails do.
Settled(x, y, r, s, width, k) ==
  /\ r[k] < s[k] => \E j \in k + 1 .. width : Digit(x, j) < Digit(y, j)
  /\ r[k] = s[k] => \A j \in k + 1 .. width : Digit(x, j) = Digit(y, j)
  /\ (\A i \in k + 1 .. width : Digit(x, i) > Digit(y, i) =>
        \E j \in k + 1 .. width : j > i /\ Digit(x, j) < Digit(y, j)) <=> r[k] <= s[k]

LEMMA SettledStep ==
  ASSUME NEW x, NEW y, NEW r, NEW s, NEW width \in Nat, NEW m, NEW n, IsDigits(x), IsDigits(y),
         TailsOf(x, m, width, r), TailsOf(y, n, width, s), NEW k \in 1 .. width,
         Settled(x, y, r, s, width, k)
  PROVE  Settled(x, y, r, s, width, k - 1)
<1> DEFINE X(j) == Digit(x, j)
           Y(j) == Digit(y, j)
           above == k + 1 .. width
           rk == r[k]
           sk == s[k]
           rn == r[k - 1]
           sn == s[k - 1]
<1>1. /\ rk \in Nat /\ sk \in Nat /\ rn = X(k) + BASE * rk /\ sn = Y(k) + BASE * sk
  BY DEF TailsOf
<1>2. \A j \in Nat : j >= 1 => X(j) \in 0 .. BASE - 1 /\ Y(j) \in 0 .. BASE - 1
  BY DigitType
<1>3. X(k) \in 0 .. BASE - 1 /\ Y(k) \in 0 .. BASE - 1
  BY <1>2
<1>4. /\ rk < sk => \E j \in above : X(j) < Y(j)
      /\ rk = sk => \A j \in above : X(j) = Y(j)
      /\ (\A i \in above : X(i) > Y(i) => \E j \in above : j > i /\ X(j) < Y(j)) <=> rk <= sk
  BY DEF Settled
<1>5. \A j : j \in k - 1 + 1 .. width <=> j = k \/ j \in above
  OBVIOUS
<1>6. \A j \in above : j > k /\ ~(k > j) /\ j \in Nat /\ j >= 1
  OBVIOUS
<1>7. \A j \in above : X(j) \in Int /\ Y(j) \in Int
  <2>1. \A d : d \in 0 .. BASE - 1 => d \in Int
    OBVIOUS
  <2> HIDE DEF X, Y, above
  <2> QED BY <1>2, <1>6, <2>1
<1>8. /\ rk < sk => rn < sn
      /\ sk < rk => sn < rn
      /\ rk = sk => (rn <= sn <=> X(k) <= Y(k)) /\ (sn <= rn <=> Y(k) <= X(k))
      /\ rn \in Int /\ sn \in Int /\ X(k) \in Int /\ Y(k) \in Int
  <2> HIDE DEF X, Y, rk, sk, rn, sn
  <2> DEFINE b == BASE
             d == X(k)
             e == Y(k)
  <2>1. b \in Nat /\ d \in 0 .. b - 1 /\ e \in 0 .. b - 1 /\ rn = d + b * rk /\ sn = e + b * sk
    BY <1>1, <1>3, BaseFacts
  <2> HIDE DEF b, d, e
  <2>2. /\ rk < sk => d + b * rk < e + b * sk
        /\ rk = sk => (d + b * rk <= e + b * sk <=> d <= e)
        /\ d + b * rk \in Int /\ e + b * sk \in Int
    BY <1>1, <2>1, DigitsDecide
  <2>3. /\ sk < rk => e + b * sk < d + b * rk
        /\ sk = rk => (e + b * sk <= d + b * rk <=> e <= d)
    BY <1>1, <2>1, DigitsDecide
  <2>4. d \in Int /\ e \in Int
    BY <2>1
  <2> QED BY <2>1, <2>2, <2>3, <2>4 DEF d, e
<1> HIDE DEF X, Y, above, rk, sk, rn, sn
<1>9. rn < sn => \E j \in k - 1 + 1 .. width : X(j) < Y(j)
  <2> SUFFICES ASSUME rn < sn PROVE \E j : (j = k \/ j \in above) /\ X(j) < Y(j)
    BY <1>5
  <2>1. rk <= sk
    BY <1>1, <1>8
  <2>2. CASE rk < sk
    BY <1>4, <2>2
  <2>3. CASE rk = sk
    <3>1. X(k) < Y(k)
      BY <1>8, <2>3
    <3> QED BY <3>1
  <2> QED BY <1>1, <2>1, <2>2, <2>3
<1>10. rn = sn => \A j \in k - 1 + 1 .. width : X(j) = Y(j)
  <2> SUFFICES ASSUME rn = sn PROVE \A j : j = k \/ j \in above => X(j) = Y(j)
    BY <1>5
  <2>1. rk = sk /\ X(k) = Y(k)
    BY <1>1, <1>8
  <2> QED BY <1>4, <2>1
<1> DEFINE Cond == \A i : i = k \/ i \in above => (X(i) > Y(i) =>
                     \E j : (j = k \/ j \in above) /\ j > i /\ X(j) < Y(j))
<1>11. Cond => rn <= sn
  <2> SUFFICES ASSUME Cond PROVE rn <= sn
    OBVIOUS
  <2>1. \A i \in above : X(i) > Y(i) => \E j \in above : j > i /\ X(j) < Y(j)
    BY <1>6
  <2>2. rk <= sk
    BY <1>4, <2>1
  <2>3. CASE rk < sk
    BY <1>8, <2>3
  <2>4. CASE rk = sk
    <3>1. \A j \in above : ~(X(j) < Y(j))
      BY <1>4, <1>7, <2>4
    <3>2. ~(k > k)
      OBVIOUS
    <3>3. ~(X(k) > Y(k))
      BY <3>1, <3>2
    <3> QED BY <1>8, <2>4, <3>3
  <2> QED BY <1>1, <2>2, <2>3, <2>4
<1>12. rn <= sn => Cond
  <2> SUFFICES ASSUME rn <= sn, NEW i, i = k \/ i \in above, X(i) > Y(i)
               PROVE  \E j : (j = k \/ j \in above) /\ j > i /\ X(j) < Y(j)
    OBVIOUS
  <2>1. rk <= sk
    BY <1>1, <1>8
  <2>2. CASE i \in above
    BY <1>4, <2>1, <2>2
  <2>3. CASE i = k
    <3>1. rk # sk
      BY <1>8, <2>3
    <3>2. PICK j \in above : X(j) < Y(j)
      BY <1>1, <1>4, <2>1, <3>1
    <3> QED BY <1>6, <2>3, <3>2
  <2> QED BY <2>2, <2>3
<1>13. (\A i \in k - 1 + 1 .. width : X(i) > Y(i) =>
          \E j \in k - 1 + 1 .. width : j > i /\ X(j) < Y(j)) <=> rn <= sn
  <2>1. (\A i \in k - 1 + 1 .. width : X(i) > Y(i) =>
          \E j \in k - 1 + 1 .. width : j > i /\ X(j) < Y(j)) <=> Cond
    <3> DEFINE P == k - 1 + 1 .. width
    <3>1. \A j : j \in P <=> j = k \/ j \in above
      BY <1>5
    <3> HIDE DEF P
    <3>2. (\A i \in P : X(i) > Y(i) => \E j \in P : j > i /\ X(j) < Y(j)) <=> Cond
      BY <3>1, Zenon
    <3> QED BY <3>2 DEF P
  <2> QED BY <1>11, <1>12, <2>1
<1> QED BY <1>9, <1>10, <1>13 DEF Settled, X, Y, rn, sn

\* NotAbove compares.
LEMMA NotAboveDenotes ==
  ASSUME NEW x, NEW m, Denotes(x, m), NEW y, NEW n, Denotes(y, n)
  PROVE  NotAbove(x, y) <=> m <= n
<1> DEFINE W == IF Len(x) > Len(y) THEN Len(x) ELSE Len(y)
<1>1. W \in Nat /\ W >= Len(x) /\ W >= Len(y) /\ IsDigits(x) /\ IsDigits(y)
  BY DenotesNat
<1>2. NotAbove(x, y) <=> \A i \in 1 .. W : Digit(x, i) > Digit(y, i) =>
                           \E j \in 1 .. W : j > i /\ Digit(x, j) < Digit(y, j)
  BY DEF NotAbove
<1> HIDE DEF W
<1>3. PICK r : TailsOf(x, m, W, r)
  BY <1>1, Padded
<1>4. PICK s : TailsOf(y, n, W, s)
  BY <1>1, Padded
<1> DEFINE K == {i \in 0 .. W : Settled(x, y, r, s, W, W - i)}
<1>5. 0 \in K
  <2>1. r[W] = 0 /\ s[W] = 0
    BY <1>3, <1>4 DEF TailsOf
  <2>2. W + 1 .. W = {}
    BY <1>1
  <2>3. Settled(x, y, r, s, W, W)
    BY <2>1, <2>2 DEF Settled
  <2>4. W - 0 = W /\ 0 \in 0 .. W
    BY <1>1
  <2> QED BY <2>3, <2>4
<1>6. ASSUME NEW i \in 1 .. W, i - 1 \in K PROVE i \in K
  <2> DEFINE k == W - (i - 1)
  <2>1. k \in 1 .. W /\ k - 1 = W - i /\ i \in 0 .. W
    BY <1>1
  <2>2. Settled(x, y, r, s, W, k)
    BY <1>6
  <2> HIDE DEF k
  <2>3. Settled(x, y, r, s, W, k - 1)
    BY <1>1, <1>3, <1>4, <2>1, <2>2, SettledStep
  <2> QED BY <2>1, <2>3
<1>7. \A i \in 0 .. W : i \in K
  <2> HIDE DEF K
  <2> QED BY <1>1, <1>5, <1>6, Ascent
<1>8. Settled(x, y, r, s, W, 0)
  <2>1. W \in 0 .. W /\ W - W = 0
    BY <1>1
  <2>2. W \in K
    BY <1>7, <2>1
  <2> QED BY <2>1, <2>2
<1>9. r[0] = m /\ s[0] = n /\ 0 + 1 = 1
  BY <1>3, <1>4 DEF TailsOf
<1> QED BY <1>2, <1>8, <1>9 DEF Settled

\* Two powers of m to the exponents below one another.
LEMMA RaisedAgree ==
  ASSUME NEW m \in Nat, NEW n \in Nat, NEW h, NEW e, h[0] = e[0],
         \A i \in 1 .. n : h[i] = m * h[i - 1], \A i \in 1 .. n : e[i] = m * e[i - 1]
  PROVE  h[n] = e[n]
<1> DEFINE K == {i \in 0 .. n : h[i] = e[i]}
<1>1. 0 \in K
  OBVIOUS
<1>2. ASSUME NEW i \in 1 .. n, i - 1 \in K PROVE i \in K
  <2>1. h[i - 1] = e[i - 1] /\ i \in 0 .. n
    BY <1>2
  <2>2. h[i] = m * h[i - 1] /\ e[i] = m * e[i - 1]
    OBVIOUS
  <2> QED BY <2>1, <2>2
<1>3. \A i \in 0 .. n : i \in K
  <2> HIDE DEF K
  <2> QED BY <1>1, <1>2, Ascent
<1> QED BY <1>3

LEMMA RaisedBy ==
  ASSUME NEW m \in Nat
  PROVE  /\ Raised(m, 0) = 1
         /\ \A n \in Nat : Raised(m, n) \in Nat
         /\ \A n \in Nat : Raised(m, n + 1) = m * Raised(m, n)
<1>1. Raised(m, 0) = 1
  BY RaisedUnfolds
<1>2. ASSUME NEW n \in Nat PROVE Raised(m, n) \in Nat
  <2>1. PICK h : h \in [0 .. n -> Nat] /\ Raised(m, n) = h[n]
    BY RaisedUnfolds
  <2>2. n \in 0 .. n
    OBVIOUS
  <2> QED BY <2>1, <2>2
<1>3. ASSUME NEW n \in Nat PROVE Raised(m, n + 1) = m * Raised(m, n)
  <2>1. PICK h : /\ h[0] = 1 /\ \A i \in 1 .. n : h[i] = m * h[i - 1]
                 /\ Raised(m, n) = h[n]
    BY RaisedUnfolds
  <2>2. PICK e : /\ e[0] = 1 /\ \A i \in 1 .. n + 1 : e[i] = m * e[i - 1]
                 /\ Raised(m, n + 1) = e[n + 1]
    <3> DEFINE N == n + 1
    <3>1. N \in Nat
      OBVIOUS
    <3> HIDE DEF N
    <3>2. \E e : /\ e \in [0 .. N -> Nat] /\ e[0] = 1
                 /\ \A i \in 1 .. N : e[i] = m * e[i - 1]
                 /\ Raised(m, N) = e[N]
      BY <3>1, RaisedUnfolds, Zenon
    <3> QED BY <3>2 DEF N
  <2>3. \A i \in 1 .. n : e[i] = m * e[i - 1]
    BY <2>2
  <2>4. h[n] = e[n]
    BY <2>1, <2>2, <2>3, RaisedAgree
  <2>5. n + 1 \in 1 .. n + 1 /\ (n + 1) - 1 = n
    OBVIOUS
  <2>6. e[n + 1] = m * e[n]
    BY <2>2, <2>5
  <2> QED BY <2>1, <2>2, <2>4, <2>6
<1> QED BY <1>1, <1>2, <1>3

\* Induction on the exponent.
LEMMA RaisedStep ==
  ASSUME NEW m \in Nat, NEW N \in Nat, NEW i \in 1 .. N
  PROVE  /\ i - 1 \in Nat /\ i \in 0 .. N /\ i \in Nat
         /\ Raised(m, i - 1) \in Nat /\ Raised(m, i) \in Nat
         /\ Raised(m, i) = m * Raised(m, i - 1)
<1>1. i - 1 \in Nat /\ i \in 0 .. N /\ i \in Nat /\ (i - 1) + 1 = i
  OBVIOUS
<1>2. Raised(m, (i - 1) + 1) = m * Raised(m, i - 1)
  BY <1>1, RaisedBy
<1>3. Raised(m, i - 1) \in Nat /\ Raised(m, i) \in Nat
  BY <1>1, RaisedBy
<1> QED BY <1>1, <1>2, <1>3

LEMMA Interleave ==
  ASSUME NEW a \in Nat, NEW b \in Nat, NEW c \in Nat, NEW d \in Nat
  PROVE  (a * b) * (c * d) = (a * c) * (b * d)
<1>1. (a * b) * (c * d) = a * (b * (c * d)) /\ (a * c) * (b * d) = a * (c * (b * d))
  OBVIOUS
<1>2. b * (c * d) = c * (b * d)
  OBVIOUS
<1> QED BY <1>1, <1>2

LEMMA RaisedProduct ==
  ASSUME NEW a \in Nat, NEW b \in Nat, NEW n \in Nat
  PROVE  a * b \in Nat /\ Raised(a * b, n) = Raised(a, n) * Raised(b, n)
<1> DEFINE c == a * b
           K == {i \in 0 .. n : Raised(c, i) = Raised(a, i) * Raised(b, i)}
<1>1. c \in Nat
  OBVIOUS
<1> HIDE DEF c
<1>2. 0 \in K
  <2>1. Raised(c, 0) = 1 /\ Raised(a, 0) = 1 /\ Raised(b, 0) = 1
    BY <1>1, RaisedBy
  <2> QED BY <2>1
<1>3. ASSUME NEW i \in 1 .. n, i - 1 \in K PROVE i \in K
  <2> DEFINE u == Raised(a, i - 1)
             v == Raised(b, i - 1)
             w == Raised(c, i - 1)
  <2>1. u \in Nat /\ Raised(a, i) = a * u /\ i \in 0 .. n
    BY RaisedStep
  <2>2. v \in Nat /\ Raised(b, i) = b * v
    BY RaisedStep
  <2>3. w \in Nat /\ Raised(c, i) = c * w
    BY <1>1, RaisedStep
  <2>4. w = u * v
    BY <1>3
  <2> HIDE DEF u, v, w
  <2>5. c * w = (a * u) * (b * v)
    BY <2>1, <2>2, <2>4, Interleave DEF c
  <2> QED BY <2>1, <2>2, <2>3, <2>5
<1>4. \A i \in 0 .. n : i \in K
  <2> HIDE DEF K
  <2> QED BY <1>2, <1>3, Ascent
<1> QED BY <1>1, <1>4 DEF c

LEMMA RaisedSum ==
  ASSUME NEW m \in Nat, NEW a \in Nat, NEW b \in Nat
  PROVE  Raised(m, a + b) = Raised(m, a) * Raised(m, b)
<1> DEFINE u == Raised(m, a)
           K == {i \in 0 .. b : Raised(m, a + i) = u * Raised(m, i)}
<1>1. u \in Nat
  BY RaisedBy
<1>2. 0 \in K
  <2>1. Raised(m, 0) = 1 /\ a + 0 = a
    BY RaisedBy
  <2> HIDE DEF u
  <2>2. u * 1 = u
    BY <1>1
  <2> QED BY <2>1, <2>2 DEF u
<1>3. ASSUME NEW i \in 1 .. b, i - 1 \in K PROVE i \in K
  <2> DEFINE v == Raised(m, i - 1)
  <2>1. v \in Nat /\ Raised(m, i) = m * v /\ i \in 0 .. b
    BY RaisedStep
  <2>2. a + i \in Nat /\ a + i \in 1 .. a + i /\ (a + i) - 1 = a + (i - 1)
    OBVIOUS
  <2>3. Raised(m, a + i) = m * Raised(m, (a + i) - 1)
    BY <2>2, RaisedStep
  <2>4. Raised(m, a + (i - 1)) = u * v
    BY <1>3
  <2> HIDE DEF u, v
  <2>5. m * (u * v) = u * (m * v)
    BY <1>1, <2>1
  <2>6. Raised(m, a + i) = u * Raised(m, i)
    BY <2>1, <2>2, <2>3, <2>4, <2>5
  <2> QED BY <2>1, <2>6
<1>4. \A i \in 0 .. b : i \in K
  <2> HIDE DEF K
  <2> QED BY <1>2, <1>3, Ascent
<1> QED BY <1>4

LEMMA RaisedTwice ==
  ASSUME NEW m \in Nat, NEW a \in Nat, NEW b \in Nat
  PROVE  a * b \in Nat /\ Raised(Raised(m, a), b) = Raised(m, a * b)
<1> DEFINE u == Raised(m, a)
           K == {i \in 0 .. b : Raised(u, i) = Raised(m, a * i)}
<1>1. u \in Nat /\ a * b \in Nat
  BY RaisedBy
<1>2. 0 \in K
  <2>1. Raised(m, 0) = 1 /\ a * 0 = 0
    BY RaisedBy
  <2> HIDE DEF u
  <2>2. Raised(u, 0) = 1
    BY <1>1, RaisedBy
  <2> QED BY <2>1, <2>2
<1>3. ASSUME NEW i \in 1 .. b, i - 1 \in K PROVE i \in K
  <2> DEFINE k == a * (i - 1)
  <2>1. k \in Nat /\ a * i = k + a /\ i \in 0 .. b
    OBVIOUS
  <2>2. Raised(u, i - 1) = Raised(m, k)
    BY <1>3
  <2> HIDE DEF u, k
  <2>3. Raised(u, i) = u * Raised(u, i - 1)
    BY <1>1, RaisedStep
  <2>4. Raised(m, k + a) = Raised(m, k) * u
    BY <2>1, RaisedSum DEF u
  <2>5. Raised(m, k) \in Nat
    BY <2>1, RaisedBy
  <2> DEFINE v == Raised(m, k)
  <2> HIDE DEF v
  <2>6. v \in Nat /\ u * v = v * u
    BY <1>1, <2>5 DEF v
  <2>7. Raised(u, i) = Raised(m, a * i)
    BY <2>1, <2>2, <2>3, <2>4, <2>6 DEF v
  <2> QED BY <2>1, <2>7
<1>4. \A i \in 0 .. b : i \in K
  <2> HIDE DEF K
  <2> QED BY <1>2, <1>3, Ascent
<1> QED BY <1>1, <1>4

LEMMA RaisedPositive ==
  ASSUME NEW m \in Nat, m >= 1, NEW n \in Nat
  PROVE  Raised(m, n) \in Nat /\ Raised(m, n) >= 1
<1> DEFINE K == {i \in 0 .. n : Raised(m, i) >= 1}
<1>1. 0 \in K
  BY RaisedBy
<1>2. ASSUME NEW i \in 1 .. n, i - 1 \in K PROVE i \in K
  <2> DEFINE v == Raised(m, i - 1)
  <2>1. v \in Nat /\ Raised(m, i) = m * v /\ i \in 0 .. n /\ v >= 1
    BY <1>2, RaisedStep
  <2> HIDE DEF v
  <2>2. 1 * 1 <= m * v
    BY <2>1, ProductBound
  <2> QED BY <2>1, <2>2
<1>3. \A i \in 0 .. n : i \in K
  <2> HIDE DEF K
  <2> QED BY <1>1, <1>2, Ascent
<1> QED BY <1>3, RaisedBy

LEMMA RaisedMonotone ==
  ASSUME NEW a \in Nat, NEW b \in Nat, a <= b, NEW n \in Nat
  PROVE  Raised(a, n) \in Nat /\ Raised(b, n) \in Nat /\ Raised(a, n) <= Raised(b, n)
<1> DEFINE K == {i \in 0 .. n : Raised(a, i) <= Raised(b, i)}
<1>1. 0 \in K
  <2>1. Raised(a, 0) = 1 /\ Raised(b, 0) = 1
    BY RaisedBy
  <2> QED BY <2>1
<1>2. ASSUME NEW i \in 1 .. n, i - 1 \in K PROVE i \in K
  <2> DEFINE u == Raised(a, i - 1)
             v == Raised(b, i - 1)
  <2>1. u \in Nat /\ Raised(a, i) = a * u /\ i \in 0 .. n
    BY RaisedStep
  <2>2. v \in Nat /\ Raised(b, i) = b * v
    BY RaisedStep
  <2>3. u <= v
    BY <1>2
  <2> HIDE DEF u, v
  <2>4. a * u <= b * v
    BY <2>1, <2>2, <2>3, ProductBound
  <2> QED BY <2>1, <2>2, <2>4
<1>3. \A i \in 0 .. n : i \in K
  <2> HIDE DEF K
  <2> QED BY <1>1, <1>2, Ascent
<1> QED BY <1>3, RaisedBy

\* A positive power grows with its base.
LEMMA RaisedStrict ==
  ASSUME NEW a \in Nat, NEW b \in Nat, a < b, NEW n \in Nat, n >= 1
  PROVE  Raised(a, n) < Raised(b, n)
<1> DEFINE u == Raised(a, n - 1)
           v == Raised(b, n - 1)
<1>0. n \in 1 .. n /\ n - 1 \in Nat /\ b >= 1 /\ a <= b
  OBVIOUS
<1>1. u \in Nat /\ Raised(a, n) = a * u
  BY <1>0, RaisedStep
<1>2. v \in Nat /\ Raised(b, n) = b * v
  BY <1>0, RaisedStep
<1>3. u <= v /\ v >= 1
  BY <1>0, RaisedMonotone, RaisedPositive
<1> HIDE DEF u, v
<1>4. a * u <= a * v
  BY <1>1, <1>2, <1>3, ProductBound
<1>5. a * v < b * v
  <2>1. b * v = a * v + (b - a) * v
    BY <1>2
  <2>2. 1 * 1 <= (b - a) * v
    <3>1. b - a \in Nat /\ 1 <= b - a
      OBVIOUS
    <3> QED BY <1>2, <1>3, <3>1, ProductBound
  <2>3. a * v \in Nat /\ (b - a) * v \in Int
    BY <1>2
  <2> QED BY <2>1, <2>2, <2>3
<1>6. a * u \in Nat /\ a * v \in Nat /\ b * v \in Nat
  BY <1>1, <1>2
<1> QED BY <1>1, <1>2, <1>4, <1>5, <1>6

\* So do its roots.
LEMMA Root ==
  ASSUME NEW a \in Nat, NEW b \in Nat, NEW n \in Nat, n >= 1, Raised(a, n) <= Raised(b, n)
  PROVE  a <= b
<1> SUFFICES ASSUME b < a PROVE FALSE
  OBVIOUS
<1>1. Raised(b, n) < Raised(a, n)
  BY RaisedStrict
<1>2. Raised(a, n) \in Nat /\ Raised(b, n) \in Nat
  BY RaisedBy
<1> QED BY <1>1, <1>2
-----------------------------------------------------------------------------
(***************************************************************************)
(* One quote.                                                              *)
(***************************************************************************)

\* The bits a word occupies are found, and the topmost one is set.
LEMMA BitLenLands ==
  ASSUME NEW x \in U128
  PROVE  /\ BitLen(x) \in 0 .. WIDTH /\ x < 2^BitLen(x)
         /\ BitLen(x) > 0 => x >= 2^(BitLen(x) - 1)
<1> DEFINE T == {n \in 0 .. WIDTH : x < 2^n}
           Lands(n) == x < 2^n /\ (n > 0 => x >= 2^(n - 1))
<1>1. WIDTH \in T /\ T \subseteq Nat
  BY WidthAssumption, PowerPositive DEF U128, WORD
<1>2. PICK n \in T : \A y \in T : n <= y
  <2> HIDE DEF T
  <2> QED BY <1>1, LeastElement
<1>3. n \in 0 .. WIDTH /\ x < 2^n
  BY <1>2
<1>4. ASSUME n > 0 PROVE x >= 2^(n - 1)
  <2>1. n - 1 \in 0 .. WIDTH /\ ~(n <= n - 1)
    BY <1>3, <1>4, WidthAssumption
  <2>2. n - 1 \notin T
    <3> HIDE DEF T
    <3> QED BY <2>1, <1>2
  <2>3. 2^(n - 1) \in Nat /\ x \in Nat
    BY <2>1, PowerPositive DEF U128
  <2> QED BY <2>1, <2>2, <2>3
<1>5. \E m \in 0 .. WIDTH : Lands(m)
  BY <1>3, <1>4
<1>6. BitLen(x) = CHOOSE m \in 0 .. WIDTH : Lands(m)
  BY DEF BitLen
<1> HIDE DEF Lands
<1>7. BitLen(x) \in 0 .. WIDTH /\ Lands(BitLen(x))
  BY <1>5, <1>6
<1> QED BY <1>7 DEF Lands

\* The pre-shift of a ratio never shifts its denominator out.
LEMMA ExcessKeeps ==
  ASSUME NEW den \in U128, den >= 1
  PROVE  /\ Excess(den) \in 0 .. WIDTH /\ 2^Excess(den) \in Nat /\ 2^Excess(den) > 0
         /\ Shr(den, Excess(den)) \in Nat /\ Shr(den, Excess(den)) >= 1
<1> DEFINE n == BitLen(den)
           e == Excess(den)
<1>1. n \in 0 .. WIDTH /\ (n > 0 => den >= 2^(n - 1)) /\ den \in Nat
  BY BitLenLands DEF U128
<1>2. WIDTH \in Nat /\ WIDTH - 2 - SCALE \in Nat /\ WIDTH - 2 - SCALE >= 1
  BY WidthAssumption, ScaleAssumption
<1>3. e = AtLeast(n - (WIDTH - 2 - SCALE), 0)
  BY DEF Excess
<1> HIDE DEF n, e
<1>4. e \in 0 .. WIDTH /\ (e > 0 => e <= n - 1)
  BY <1>1, <1>2, <1>3 DEF AtLeast
<1>5. 2^e \in Nat /\ 2^e > 0
  BY <1>4, PowerPositive
<1>6. 2^e <= den
  <2>1. CASE e = 0
    <3>1. 2^e = 1
      BY <2>1, PowerAssumption
    <3> QED BY <3>1, <1>1
  <2>2. CASE e > 0
    <3>1. n - 1 \in Nat /\ e \in Nat /\ e <= n - 1 /\ n - 1 <= WIDTH /\ n - 1 \in 0 .. WIDTH
      BY <2>2, <1>1, <1>2, <1>4
    <3>2. 2^e <= 2^(n - 1)
      BY <3>1, PowerMonotone
    <3>3. 2^(n - 1) \in Nat
      BY <3>1, PowerPositive
    <3>4. n > 0
      BY <3>1, <1>1
    <3> QED BY <3>4, <3>2, <3>3, <1>1, <1>5
  <2> QED BY <2>1, <2>2, <1>4
<1> DEFINE d == 2^e
           q == den \div d
<1> HIDE DEF d
<1>7. d \in Nat /\ d > 0 /\ d <= den
  BY <1>5, <1>6 DEF d
<1>8. q \in Nat /\ den < (d * q) + d
  BY <1>1, <1>7, DivisionBounds, DivisionNat
<1>9. q >= 1
  <2> HIDE DEF q
  <2> SUFFICES ASSUME q = 0 PROVE FALSE
    BY <1>8
  <2>1. d * q = 0
    BY <1>7
  <2> QED BY <2>1, <1>1, <1>7, <1>8
<1>10. Shr(den, e) = q
  BY DEF Shr, d
<1> QED BY <1>4, <1>5, <1>8, <1>9, <1>10 DEF e

\* A ratio is a number, and that of a reserve to itself is at least 1.
LEMMA RatiosAreNumbers ==
  ASSUME NEW num \in Nat, NEW den \in U128, den >= 1
  PROVE  /\ ratio_up(num, den) \in Nat /\ ratio_down(num, den) \in Nat
         /\ num = den => ratio_up(num, den) >= ONE
<1> DEFINE e == Excess(den)
           s == Shr(den, e)
           r == Shr(num, e)
<1>1. e \in Nat /\ s \in Nat /\ s >= 1 /\ 2^e \in Nat /\ 2^e > 0
  BY ExcessKeeps
<1>2. ONE \in Nat /\ ONE > 0 /\ den \in Nat
  BY ScaleFacts DEF U128
<1>3. r \in Nat
  <2> DEFINE d == 2^e
  <2> HIDE DEF d, e
  <2>1. num \div d \in Nat
    BY <1>1, DivisionNat DEF d
  <2> QED BY <2>1 DEF Shr, d
<1>4. /\ ratio_up(num, den) = IF e > 0 THEN CeilDiv((r + 1) * ONE, s)
                              ELSE CeilDiv(num * ONE, den)
      /\ ratio_down(num, den) = IF e > 0 THEN (r * ONE) \div (s + 1)
                                ELSE (num * ONE) \div den
      /\ num = den => r = s
  BY DEF ratio_up, ratio_down
<1> HIDE DEF e, s, r
<1>5. (r + 1) * ONE \in Nat /\ num * ONE \in Nat /\ r * ONE \in Nat /\ s + 1 \in Nat
  BY <1>1, <1>2, <1>3
<1> DEFINE x1 == (r + 1) * ONE
           x2 == num * ONE
           x3 == r * ONE
           u == CeilDiv(x1, s)
           v == CeilDiv(x2, den)
<1>6. u \in Nat /\ x1 <= s * u
  <2>1. x1 \in Nat /\ s > 0
    BY <1>1, <1>5
  <2> HIDE DEF x1
  <2> QED BY <2>1, <1>1, CeilDivBounds
<1>7. v \in Nat /\ x2 <= den * v
  <2>1. x2 \in Nat /\ den > 0
    BY <1>2, <1>5
  <2> HIDE DEF x2
  <2> QED BY <2>1, <1>2, CeilDivBounds
<1>8. x3 \div (s + 1) \in Nat
  <2> HIDE DEF x3
  <2>1. s + 1 > 0
    BY <1>1
  <2> QED BY <2>1, <1>5, DivisionNat DEF x3
<1>9. x2 \div den \in Nat
  <2> HIDE DEF x2
  <2> QED BY <1>2, <1>5, DivisionNat DEF x2
<1>10. ASSUME num = den PROVE u >= ONE /\ v >= ONE
  <2>1. s * ONE <= s * u
    <3>1. x1 = (s * ONE) + ONE /\ s * ONE \in Nat
      BY <1>1, <1>2, <1>4, <1>10
    <3>2. s * u \in Nat
      BY <1>1, <1>6
    <3> HIDE DEF x1, u
    <3> QED BY <3>1, <3>2, <1>2, <1>6
  <2>2. den * ONE <= den * v
    <3>1. x2 = den * ONE
      BY <1>10
    <3> HIDE DEF x2, v
    <3> QED BY <3>1, <1>7
  <2> HIDE DEF u, v
  <2>3. \A w \in Nat, z \in Nat, y \in Nat : w >= 1 /\ w * z <= w * y => z <= y
    <3> SUFFICES ASSUME NEW w \in Nat, NEW z \in Nat, NEW y \in Nat,
                        w >= 1, w * z <= w * y
                 PROVE  z <= y
      OBVIOUS
    <3>1. w * z < w * (y + 1)
      BY SMT
    <3> QED BY <3>1, Cancel
  <2> QED BY <2>1, <2>2, <2>3, <1>1, <1>2, <1>6, <1>7
<1> QED BY <1>4, <1>6, <1>7, <1>8, <1>9, <1>10

\* Small facts about the word, the scales and the exponents' range.
LEMMA PoolScales ==
  /\ ONE \in Nat /\ ONE >= 2 /\ ONE_62 \in Nat /\ ONE_62 >= 8 /\ LN_SCALE \in 1 .. WIDTH - 1
  /\ WORD \in Nat /\ ONE_62 \in U128 /\ MAX_RATIO \in Nat
  /\ MAX_RATIO * ONE \in Nat /\ ONE_62 * ONE_62 \in U128
  /\ \A y \in 1 .. MAX_RATIO * ONE : y \in I128
<1> DEFINE V == ONE_62
           h == 2^(WIDTH - 1)
           R == MAX_RATIO * ONE
<1>1. /\ ONE \in Nat /\ ONE >= 2 /\ V \in Nat /\ V >= 8 /\ WORD \in Nat
      /\ h \in Nat /\ 2 * h = WORD /\ 2 * (V * V) <= h /\ ONE <= V
  <2>1. /\ ONE \in Nat /\ ONE >= 2 /\ V \in Nat /\ V >= 8 /\ WORD \in Nat
        /\ h \in Nat /\ 2 * h = WORD /\ 2 * (V * V) <= h
        /\ GUARD \in Nat /\ GUARD >= 4 /\ ONE * GUARD = V
    BY ScaleFacts
  <2>2. ONE * 1 <= ONE * GUARD
    BY <2>1, ProductBound
  <2> QED BY <2>1, <2>2
<1>2. MAX_RATIO \in Nat /\ MAX_RATIO <= ONE
  BY ScaleAssumption, RatioAssumption, <1>1
<1>3. R \in Nat /\ R <= V * V /\ V * V \in Nat /\ V <= V * V
  <2>1. MAX_RATIO <= V
    BY <1>1, <1>2
  <2>2. R \in Nat /\ R <= V * V
    BY <2>1, <1>1, <1>2, ProductBound
  <2>3. V * 1 <= V * V /\ V * V \in Nat
    BY <1>1, ProductBound
  <2> QED BY <2>2, <2>3, <1>1
<1>4. LN_SCALE \in 1 .. WIDTH - 1
  BY ScaleAssumption, WidthAssumption
<1>5. U128 = 0 .. WORD - 1 /\ I128 = -h .. h - 1
  BY DEF U128, I128
<1> DEFINE Q == V * V
<1>6. Q \in Nat /\ R <= Q /\ V <= Q /\ 2 * Q <= h /\ Q >= 8
  BY <1>1, <1>3
<1> HIDE DEF V, h, R, Q
<1>7. Q \in U128 /\ V \in U128 /\ \A y \in 1 .. R : y \in I128
  BY <1>1, <1>3, <1>5, <1>6
<1> QED BY <1>1, <1>2, <1>3, <1>4, <1>7 DEF V, R, Q

\* A share of less than all of a reserve is less than the reserve.
LEMMA PayoutBelowReserve ==
  ASSUME NEW b \in U128, b >= 1, NEW share \in 0 .. ONE_62 - 1
  PROVE  ~Panicked(Payout(b, share)) /\ Payout(b, share).value \in 0 .. b - 1
<1> DEFINE V == ONE_62
           p == b * share
           q == p \div V
<1>1. /\ V \in Nat /\ V > 0 /\ V < WORD /\ WORD \in Nat /\ LN_SCALE \in 1 .. WIDTH - 1
      /\ b \in Nat /\ b < WORD
  BY PoolScales DEF U128
<1>2. share \in U128 /\ share \in Nat /\ share <= V - 1
  <2>1. share \in 0 .. V - 1
    OBVIOUS
  <2> HIDE DEF V
  <2> QED BY <1>1, <2>1 DEF U128
<1>3. p \in Nat /\ p < V * b
  <2>1. p \in Nat /\ p <= b * (V - 1)
    <3>1. V - 1 \in Nat
      BY <1>1
    <3> QED BY <3>1, <1>1, <1>2, ProductBound
  <2>2. b * (V - 1) = (V * b) - b /\ V * b \in Nat
    BY <1>1
  <2> QED BY <2>1, <2>2, <1>1
<1> HIDE DEF V, p
<1>4. q \in Nat /\ V * q <= p
  BY <1>1, <1>3, DivisionBounds, DivisionNat
<1>5. V * q < V * ((b - 1) + 1)
  <2>1. V * q \in Nat /\ V * b \in Nat /\ (b - 1) + 1 = b
    BY <1>1, <1>4
  <2> QED BY <2>1, <1>3, <1>4
<1>6. q <= b - 1
  <2>1. b - 1 \in Int /\ q \in Int
    BY <1>1, <1>4
  <2> HIDE DEF q
  <2> QED BY <2>1, <1>1, <1>5, Cancel
<1>7. q \in U128 /\ q \in 0 .. b - 1
  <2> HIDE DEF q
  <2> QED BY <1>1, <1>4, <1>6 DEF U128
<1>8. Shr(p, LN_SCALE) = q
  BY DEF Shr, V, ONE_62
<1>9. Payout(b, share) = Value(q)
  <2>1. mul_shr(b, share, LN_SCALE)
          = IF Shr(b * share, LN_SCALE) \in U128
            THEN Value(Shr(b * share, LN_SCALE)) ELSE Panic("unrepresentable")
    BY <1>1, <1>2, MulShrFloor
  <2> HIDE DEF q
  <2> QED BY <2>1, <1>7, <1>8 DEF Payout, p
<1> QED BY <1>7, <1>9 DEF Value, Panicked

\* What a quote of calc_out_given_in can be.
LEMMA OutBelowReserve ==
  ASSUME NEW bi \in U128, NEW wi \in U128, NEW bo \in U128, NEW wo \in U128,
         NEW a \in U128
  PROVE  LET got == calc_out_given_in(bi, wi, bo, wo, a)
         IN  ~Panicked(got) => /\ got.value \in 0 .. bo - 1
                               /\ bi + a \in U128
                               /\ a = 0 => got.value = 0
<1> DEFINE exponent == OutExponent(wi, wo)
           base == ratio_up(bi, bi + a)
           share == Returns("one_minus_pow_62", base, exponent)
           got == calc_out_given_in(bi, wi, bo, wo, a)
           fits == OutEnvelope(bi, wi, bo, wo, a)
           ok == InDomain("one_minus_pow_62", base, exponent)
<1>1. got = IF ~fits THEN Panic("envelope")
            ELSE IF base >= ONE THEN Value(0)
            ELSE IF ~ok THEN Panic("domain")
            ELSE Payout(bo, share)
  BY DEF calc_out_given_in
<1>2. SUFFICES ASSUME ~Panicked(got)
               PROVE  got.value \in 0 .. bo - 1 /\ bi + a \in U128
                      /\ (a = 0 => got.value = 0)
  OBVIOUS
<1>3. fits
  <2> HIDE DEF fits, ok, base, share, exponent, got
  <2> QED BY <1>1, <1>2 DEF Panicked, Panic
<1>4. /\ bi >= 1 /\ bo >= 1 /\ bi + a \in U128 /\ wi \in Nat /\ wo \in Nat /\ wo >= 1
      /\ bi \in Nat /\ bo \in Nat /\ a \in Nat /\ bi + a >= 1
  BY <1>3 DEF OutEnvelope, check_weights, U128
<1>5. base \in Nat /\ (a = 0 => base >= ONE) /\ ONE \in Nat
  <2>1. base \in Nat /\ (bi = bi + a => base >= ONE)
    BY <1>4, RatiosAreNumbers
  <2>2. a = 0 => bi = bi + a
    BY <1>4
  <2> QED BY <2>1, <2>2, PoolScales
<1>6. exponent \in Nat
  <2> DEFINE x == wi * ONE
  <2>1. x \in Nat
    BY <1>4, <1>5
  <2> HIDE DEF x
  <2>2. x \div wo \in Nat
    BY <2>1, <1>4, DivisionNat
  <2> QED BY <2>2 DEF OutExponent, x
<1> HIDE DEF fits, base, exponent, got
<1>7. CASE base >= ONE
  BY <1>1, <1>3, <1>4, <1>7 DEF Value
<1>8. CASE base < ONE
  <2>1. ~(base >= ONE) /\ a # 0
    BY <1>5, <1>8
  <2>2. ok /\ got = Payout(bo, share)
    <3> HIDE DEF ok, share
    <3> QED BY <1>1, <1>2, <1>3, <2>1 DEF Panicked, Panic
  <2>3. base > 0 /\ base < ONE /\ exponent > 0 /\ exponent <= MAX_RATIO * ONE
    BY <2>2 DEF InDomain, Ops62, PowOps, ExpOps
  <2>4. MAX_RATIO * ONE \in Nat
    BY PoolScales
  <2> DEFINE R == MAX_RATIO * ONE
  <2>5. base \in 1 .. ONE - 1 /\ exponent \in 1 .. R
    <3> HIDE DEF R
    <3>1. R \in Nat /\ exponent <= R
      BY <2>3, <2>4 DEF R
    <3> QED BY <3>1, <2>3, <1>5, <1>6
  <2>6. exponent \in I128
    BY <2>5, PoolScales
  <2>7. share \in 0 .. ONE_62 - 1
    <3> HIDE DEF share
    <3> QED BY <2>5, <2>6, PowersInRange DEF share
  <2> HIDE DEF share, ok, R
  <2>8. Payout(bo, share).value \in 0 .. bo - 1
    BY <1>4, <2>7, PayoutBelowReserve
  <2> QED BY <2>1, <2>2, <2>8, <1>4
<1> QED BY <1>5, <1>7, <1>8

\* The cap on what may be drained leaves most of a reserve.
LEMMA DrainLeavesSome ==
  ASSUME NEW b \in Nat, b >= 1
  PROVE  DrainCap(b) \in 0 .. b - 1
<1> DEFINE q == b \div 10
           r == b % 10
           z == (r * 3) \div 10
<1>1. q \in Nat /\ r \in 0 .. 9 /\ b = (10 * q) + r
  BY DivisionBounds, DivisionNat
<1>2. DrainCap(b) = (q * 3) + z
  BY DEF DrainCap
<1> HIDE DEF q, r
<1>3. z \in Nat /\ 10 * z <= r * 3
  BY <1>1
<1> HIDE DEF z
<1> QED BY <1>1, <1>2, <1>3

\* An exact product rounded up at LN_SCALE: a number, and one that no
\* factor's smallness rounds to nothing.
LEMMA PaymentIsPositive ==
  ASSUME NEW b \in U128, b >= 1, NEW p \in 1 .. ONE_62 - 1
  PROVE  LET in == mul_shr_up(b, PaymentRatio(p), LN_SCALE)
         IN  /\ in.value \in Nat
             /\ OVERFLOW_CHECKS /\ ~Panicked(in) => in.value >= 1
<1> DEFINE V == ONE_62
           x == (V - p) * V
           ratio == CeilDiv(x, p)
           y == b * ratio
           c == CeilDiv(y, V)
           in == mul_shr_up(b, ratio, LN_SCALE)
<1>1. /\ V \in Nat /\ V >= 8 /\ V * V \in Nat /\ V * V < WORD /\ WORD \in Nat
      /\ LN_SCALE \in 1 .. WIDTH - 1 /\ b \in Nat
  BY PoolScales DEF U128
<1>2. p \in 1 .. V - 1
  OBVIOUS
<1>3. PaymentRatio(p) = ratio
  BY DEF PaymentRatio
<1>4. V = 2^LN_SCALE
  BY DEF ONE_62
<1> HIDE DEF V
<1>5. x \in Nat /\ x >= 1 /\ x <= V * V
  <2>1. V - p \in Nat /\ V - p <= V /\ V - p >= 1
    BY <1>1, <1>2
  <2>2. x \in Nat /\ x <= V * V
    BY <2>1, <1>1, ProductBound
  <2>3. 1 * V <= (V - p) * V
    BY <2>1, <1>1, ProductBound
  <2> QED BY <2>2, <2>3, <1>1
<1> HIDE DEF x
<1>6. ratio \in Nat /\ ratio >= 1 /\ ratio <= x
  <2>1. p \in Nat /\ p > 0
    BY <1>2
  <2>2. ratio \in Nat /\ x <= p * ratio /\ ratio <= x
    BY <2>1, <1>5, CeilDivBounds
  <2> HIDE DEF ratio
  <2>3. ratio # 0
    <3> SUFFICES ASSUME ratio = 0 PROVE FALSE
      OBVIOUS
    <3>1. p * ratio = 0
      BY <2>1
    <3> QED BY <3>1, <2>2, <1>5
  <2> QED BY <2>2, <2>3
<1> HIDE DEF ratio
<1>7. ratio \in U128
  BY <1>1, <1>5, <1>6 DEF U128
<1>8. y \in Nat /\ y >= 1
  <2>1. y \in Nat
    BY <1>1, <1>6
  <2>2. 1 * 1 <= b * ratio
    BY <1>1, <1>6, ProductBound
  <2> QED BY <2>1, <2>2
<1> HIDE DEF y
<1>9. c \in Nat /\ c >= 1
  <2>1. c \in Nat /\ y <= V * c
    <3>1. V > 0
      BY <1>1
    <3> QED BY <3>1, <1>1, <1>8, CeilDivBounds
  <2> HIDE DEF c
  <2>2. c # 0
    <3> SUFFICES ASSUME c = 0 PROVE FALSE
      OBVIOUS
    <3>1. V * c = 0
      BY <1>1
    <3> QED BY <3>1, <2>1, <1>8
  <2> QED BY <2>1, <2>2
<1>10. OVERFLOW_CHECKS /\ ~Panicked(in) => in.value >= 1
  <2>1. IF c \in U128 THEN in = Value(c) ELSE OVERFLOW_CHECKS => Panicked(in)
    <3>1. IF CeilDiv(b * ratio, 2^LN_SCALE) \in U128
          THEN mul_shr_up(b, ratio, LN_SCALE) = Value(CeilDiv(b * ratio, 2^LN_SCALE))
          ELSE OVERFLOW_CHECKS => Panicked(mul_shr_up(b, ratio, LN_SCALE))
      BY <1>1, <1>7, MulShrUpCeiling
    <3> QED BY <3>1, <1>4 DEF y
  <2> HIDE DEF c, in
  <2> QED BY <2>1, <1>9 DEF Value
<1>11. in.value \in Nat
  <2> DEFINE f == Recombined(b, ratio, LN_SCALE)
             up == IF Discards(b, ratio, LN_SCALE) THEN 1 ELSE 0
  <2>1. f \in Nat
    <3>1. f = Shr(b * ratio, LN_SCALE)
      BY <1>1, <1>7, RecombinedExact
    <3>2. y \div V \in Nat
      BY <1>1, <1>8, DivisionNat
    <3> QED BY <3>1, <3>2, <1>4 DEF Shr, y
  <2>2. in = IF ProductFits(b, ratio, LN_SCALE) THEN Add(f, up) ELSE Panic("unrepresentable")
    BY DEF mul_shr_up
  <2> HIDE DEF in, f
  <2>3. f + up \in Nat
    BY <2>1
  <2> HIDE DEF up
  <2>4. Wrap(f + up) \in Nat
    BY <2>3, <1>1 DEF Wrap
  <2> QED BY <2>2, <2>3, <2>4 DEF Add, Value, Panic
<1> QED BY <1>3, <1>10, <1>11

\* What a quote of calc_in_given_out can be.
LEMMA InIsPaid ==
  ASSUME NEW bi \in U128, NEW wi \in U128, NEW bo \in U128, NEW wo \in U128,
         NEW a \in U128
  PROVE  LET in == calc_in_given_out(bi, wi, bo, wo, a)
         IN  ~Panicked(in) =>
               /\ in.value \in Nat /\ a \in 0 .. bo - 1
               /\ OVERFLOW_CHECKS /\ a > 0 => in.value >= 1
<1> DEFINE exponent == InExponent(wi, wo)
           base == ratio_down(bo - a, bo)
           p == Returns("pow_62_down", base, exponent)
           in == calc_in_given_out(bi, wi, bo, wo, a)
           fits == InEnvelope(bi, wi, bo, wo, a)
           ok == InDomain("pow_62_down", base, exponent)
           paid == mul_shr_up(bi, PaymentRatio(p), LN_SCALE)
<1>1. in = IF ~fits THEN Panic("envelope")
           ELSE IF a = 0 THEN Value(0)
           ELSE IF ~ok THEN Panic("domain")
           ELSE IF p <= 0 THEN Panic("underflow")
           ELSE paid
  BY DEF calc_in_given_out
<1>2. SUFFICES ASSUME ~Panicked(in)
               PROVE  /\ in.value \in Nat /\ a \in 0 .. bo - 1
                      /\ OVERFLOW_CHECKS /\ a > 0 => in.value >= 1
  OBVIOUS
<1>3. fits
  <2> HIDE DEF fits, ok, base, p, exponent, in, paid
  <2> QED BY <1>1, <1>2 DEF Panicked, Panic
<1>4. /\ bi >= 1 /\ bo >= 1 /\ wi \in Nat /\ wo \in Nat /\ wi >= 1
      /\ bi \in Nat /\ bo \in Nat /\ a \in Nat /\ a <= DrainCap(bo)
  BY <1>3 DEF InEnvelope, check_weights, U128
<1>5. a \in 0 .. bo - 1
  <2>1. DrainCap(bo) \in 0 .. bo - 1
    BY <1>4, DrainLeavesSome
  <2> QED BY <2>1, <1>4
<1>6. base \in Nat /\ ONE \in Nat
  <2>1. bo - a \in Nat
    BY <1>4, <1>5
  <2> QED BY <2>1, <1>4, RatiosAreNumbers, PoolScales
<1>7. exponent \in Nat
  <2> DEFINE x == wo * ONE
  <2>1. x \in Nat /\ wi > 0
    BY <1>4, <1>6
  <2> HIDE DEF x
  <2>2. CeilDiv(x, wi) \in Nat
    BY <2>1, <1>4, CeilDivBounds
  <2> QED BY <2>2 DEF InExponent, x
<1> HIDE DEF fits, base, exponent, in
<1>8. CASE a = 0
  BY <1>1, <1>3, <1>5, <1>8 DEF Value
<1>9. CASE a # 0
  <2>1. ok /\ ~(p <= 0) /\ in = paid
    <3> HIDE DEF ok, p, paid
    <3> QED BY <1>1, <1>2, <1>3, <1>9 DEF Panicked, Panic
  <2>2. base > 0 /\ base < ONE /\ exponent > 0 /\ exponent <= MAX_RATIO * ONE
    BY <2>1 DEF InDomain, Ops62, PowOps, ExpOps
  <2> DEFINE R == MAX_RATIO * ONE
  <2>3. base \in 1 .. ONE - 1 /\ exponent \in 1 .. R
    <3>1. R \in Nat
      BY PoolScales
    <3>2. exponent <= R
      BY <2>2
    <3> HIDE DEF R
    <3> QED BY <3>1, <3>2, <2>2, <1>6, <1>7
  <2>4. exponent \in I128
    BY <2>3, PoolScales
  <2>5. p \in 0 .. ONE_62 - 1
    <3> HIDE DEF p
    <3> QED BY <2>3, <2>4, PowersInRange DEF p
  <2> HIDE DEF p, ok, R
  <2>6. p \in 1 .. ONE_62 - 1
    BY <2>1, <2>5
  <2> HIDE DEF paid
  <2>7. /\ paid.value \in Nat
        /\ OVERFLOW_CHECKS /\ ~Panicked(paid) => paid.value >= 1
    BY <2>6, <1>4, PaymentIsPositive DEF paid
  <2> QED BY <2>1, <2>7, <1>2, <1>5
<1> QED BY <1>8, <1>9
-----------------------------------------------------------------------------
(***************************************************************************)
(* The bias of the ratios.                                                 *)
(***************************************************************************)
\* What the pre-shift leaves of a wide denominator is still far finer than
\* the scale of the ratio.
LEMMA ExcessPrecise ==
  ASSUME NEW den \in U128, den >= 1, Excess(den) > 0
  PROVE  Shr(den, Excess(den)) >= 4 * ONE
<1> DEFINE n == BitLen(den)
           e == Excess(den)
           g == WIDTH - 3 - SCALE
<1>1. n \in 0 .. WIDTH /\ (n > 0 => den >= 2^(n - 1)) /\ den \in Nat
  BY BitLenLands DEF U128
<1>2. /\ WIDTH \in Nat /\ SCALE \in Nat /\ g \in Nat /\ g >= SCALE + 2
      /\ g <= WIDTH - 1 /\ WIDTH - 2 - SCALE = g + 1
  BY WidthAssumption, ScaleAssumption
<1>3. e = AtLeast(n - (WIDTH - 2 - SCALE), 0) /\ e > 0
  BY DEF Excess
<1> HIDE DEF n, e, g
<1>4. e \in Nat /\ n - 1 = e + g /\ n > 0 /\ e + g <= WIDTH
  BY <1>1, <1>2, <1>3 DEF AtLeast
<1> DEFINE d == 2^e
           t == 2^g
           q == den \div d
<1>5. d * t <= den
  <2>1. 2^(e + g) = d * t
    BY <1>2, <1>4, PowerAdds
  <2> QED BY <2>1, <1>1, <1>4
<1>6. d \in Nat /\ d > 0 /\ t \in Nat
  <2>1. e \in 0 .. WIDTH /\ g \in 0 .. WIDTH
    BY <1>2, <1>4
  <2> QED BY <2>1, PowerPositive
<1>7. t >= 4 * ONE
  <2>1. 2^(SCALE + 2) <= t
    <3>1. SCALE + 2 \in Nat /\ g <= WIDTH
      BY <1>2
    <3> QED BY <3>1, <1>2, PowerMonotone
  <2>2. 2^(SCALE + 1) = 2 * 2^SCALE /\ 2^((SCALE + 1) + 1) = 2 * 2^(SCALE + 1)
    <3>1. SCALE \in 0 .. WIDTH - 1 /\ SCALE + 1 \in 0 .. WIDTH - 1
      BY <1>2
    <3> QED BY <3>1, PowerAssumption
  <2>3. (SCALE + 1) + 1 = SCALE + 2
    BY <1>2
  <2>4. 2^(SCALE + 2) = 4 * ONE
    <3>1. ONE \in Nat /\ ONE = 2^SCALE
      BY ScaleFacts DEF ONE
    <3> QED BY <3>1, <2>2, <2>3
  <2>5. ONE \in Nat
    BY ScaleFacts
  <2> QED BY <2>1, <2>4, <2>5, <1>6
<1> HIDE DEF d, t
<1>8. q \in Nat /\ den < (d * q) + d
  BY <1>1, <1>6, DivisionBounds, DivisionNat
<1>9. q >= t
  <2> HIDE DEF q
  <2>1. (d * q) + d = d * (q + 1)
    BY <1>6, <1>8
  <2>2. d * t < d * (q + 1)
    BY <2>1, <1>1, <1>5, <1>6, <1>8
  <2> QED BY <2>2, <1>6, <1>8, Cancel
<1>10. Shr(den, e) = q
  BY DEF Shr, d
<1>11. ONE \in Nat
  BY ScaleFacts
<1> HIDE DEF q
<1> QED BY <1>6, <1>7, <1>8, <1>9, <1>10, <1>11 DEF e

\* Both operands of a ratio after the pre-shift: what is kept and what is lost.
LEMMA PreShift ==
  ASSUME NEW num \in Nat, NEW den \in U128, den >= 1, num <= den
  PROVE  LET d == 2^Excess(den)
             r == Shr(num, Excess(den))
             s == Shr(den, Excess(den))
         IN  /\ d \in Nat /\ d > 0 /\ r \in Nat /\ s \in Nat /\ s >= 1 /\ r <= s
             /\ d * r <= num /\ num < (d * r) + d
             /\ d * s <= den /\ den < (d * s) + d
<1> DEFINE d == 2^Excess(den)
           r == num \div d
           s == den \div d
<1>1. /\ d \in Nat /\ d > 0 /\ Shr(den, Excess(den)) >= 1 /\ den \in Nat
  BY ExcessKeeps DEF U128
<1>2. Shr(num, Excess(den)) = r /\ Shr(den, Excess(den)) = s
  BY DEF Shr
<1> HIDE DEF d
<1>3. r \in Nat /\ d * r <= num /\ num < (d * r) + d
  BY <1>1, DivisionBounds, DivisionNat
<1>4. s \in Nat /\ d * s <= den /\ den < (d * s) + d
  BY <1>1, DivisionBounds, DivisionNat
<1> HIDE DEF r, s
<1>5. r <= s
  <2>1. d * r < d * (s + 1)
    <3>1. (d * s) + d = d * (s + 1) /\ d * s \in Nat /\ d * r \in Nat
      BY <1>1, <1>3, <1>4
    <3> QED BY <3>1, <1>1, <1>3, <1>4
  <2> QED BY <2>1, <1>1, <1>3, <1>4, Cancel
<1> QED BY <1>1, <1>2, <1>3, <1>4, <1>5 DEF d

(***************************************************************************)
(* ratio_up is never below the true ratio and less than two ulps above it, *)
(* also where the denominator is wider than num << 52 leaves room for and  *)
(* both operands are shifted down first.                                   *)
(***************************************************************************)
THEOREM RatioUpBiased ==
  ASSUME NEW num \in Nat, NEW den \in U128, den >= 1, num <= den
  PROVE  LET q == ratio_up(num, den)
         IN  num * ONE <= q * den /\ (q - 2) * den <= num * ONE
<1> DEFINE O == ONE
           e == Excess(den)
           d == 2^e
           r == Shr(num, e)
           s == Shr(den, e)
           q == ratio_up(num, den)
<1>1. /\ d \in Nat /\ d > 0 /\ r \in Nat /\ s \in Nat /\ s >= 1 /\ r <= s
      /\ d * r <= num /\ num < (d * r) + d
      /\ d * s <= den /\ den < (d * s) + d
  BY PreShift
<1>2. O \in Nat /\ O >= 2 /\ den \in Nat /\ e \in Nat
  BY ScaleFacts, ExcessKeeps DEF U128
<1>3. /\ e > 0 => s >= 4 * O
      /\ q = IF e > 0 THEN CeilDiv((r + 1) * O, s) ELSE CeilDiv(num * O, den)
  BY ExcessPrecise DEF ratio_up
<1> HIDE DEF O, e, d, r, s, q
<1>4. CASE e > 0
  <2> DEFINE x == (r + 1) * O
             y == s * q
  <2>1. x \in Nat /\ x = (r * O) + O /\ r * O \in Nat
    BY <1>1, <1>2
  <2> HIDE DEF x
  <2>2. q \in Nat /\ x <= y /\ y < x + s
    <3>1. q = CeilDiv(x, s) /\ s > 0
      BY <1>1, <1>3, <1>4 DEF x
    <3> QED BY <3>1, <2>1, <1>1, CeilDivBounds
  <2>3. y \in Nat
    BY <2>2, <1>1
  <2>4. num * O <= q * den
    <3>1. num * O <= (d * (r + 1)) * O
      <4>1. num <= d * (r + 1) /\ d * (r + 1) \in Nat
        BY <1>1
      <4> QED BY <4>1, <1>2, ProductBound
    <3>2. (d * (r + 1)) * O = d * x
      BY <1>1, <1>2 DEF x
    <3>3. d * x <= d * y
      BY <2>1, <2>2, <2>3, <1>1, ProductBound
    <3>4. d * y = (d * s) * q
      BY <2>2, <1>1
    <3>5. (d * s) * q <= den * q
      <4>1. d * s \in Nat
        BY <1>1
      <4> QED BY <4>1, <2>2, <1>1, <1>2, ProductBound
    <3>6. /\ num * O \in Nat /\ (d * (r + 1)) * O \in Nat /\ d * x \in Nat
          /\ d * y \in Nat /\ (d * s) * q \in Nat /\ den * q \in Nat /\ den * q = q * den
      BY <2>1, <2>2, <2>3, <1>1, <1>2
    <3> QED BY <3>1, <3>2, <3>3, <3>4, <3>5, <3>6
  <2>5. q <= O + 1
    <3>1. r * O <= s * O /\ s * O \in Nat
      BY <1>1, <1>2, ProductBound
    <3>2. s * ((O + 1) + 1) = (s * O) + s + s
      BY <1>1, <1>2
    <3>3. s * q < s * ((O + 1) + 1)
      BY <3>1, <3>2, <2>1, <2>2, <2>3, <1>1, <1>2, <1>3, <1>4
    <3>4. O + 1 \in Int /\ q \in Int /\ s > 0
      BY <2>2, <1>1, <1>2
    <3> QED BY <3>3, <3>4, <1>1, Cancel
  <2>6. (q - 2) * den <= num * O
    <3>1. CASE q <= 2
      <4>1. 2 - q \in Nat /\ (q - 2) * den = -((2 - q) * den)
        BY <3>1, <2>2, <1>2
      <4>2. (2 - q) * den \in Nat /\ num * O \in Nat
        BY <4>1, <1>2
      <4> QED BY <4>1, <4>2
    <3>2. CASE q > 2
      <4> DEFINE w == q - 2
                 v == w * (s + 1)
      <4>1. w \in Nat
        BY <3>2, <2>2
      <4>2. v = y + q - (2 * s) - 2
        BY <2>2, <1>1
      <4>3. v <= r * O
        <5>1. 4 * O <= s
          BY <1>3, <1>4
        <5> HIDE DEF v, y
        <5> QED BY <5>1, <4>2, <2>1, <2>2, <2>3, <2>5, <1>1, <1>2
      <4>4. v \in Nat
        BY <4>1, <1>1
      <4> HIDE DEF w, v
      <4>5. w * den <= w * (d * (s + 1))
        <5>1. d * (s + 1) \in Nat /\ den <= d * (s + 1)
          BY <1>1, <1>2
        <5> QED BY <5>1, <4>1, <1>2, ProductBound
      <4>6. w * (d * (s + 1)) = d * v
        BY <4>1, <1>1 DEF v
      <4>7. d * v <= d * (r * O)
        BY <4>3, <4>4, <2>1, <1>1, ProductBound
      <4>8. d * (r * O) = (d * r) * O
        BY <1>1, <1>2
      <4>9. (d * r) * O <= num * O
        <5>1. d * r \in Nat
          BY <1>1
        <5> QED BY <5>1, <1>1, <1>2, ProductBound
      <4>10. /\ w * den \in Nat /\ d * v \in Nat /\ d * (r * O) \in Nat
             /\ (d * r) * O \in Nat /\ num * O \in Nat
        BY <4>1, <4>4, <2>1, <1>1, <1>2
      <4>11. w * den <= num * O
        BY <4>5, <4>6, <4>7, <4>8, <4>9, <4>10
      <4> QED BY <4>11 DEF w
    <3> QED BY <3>1, <3>2, <2>2
  <2> QED BY <2>4, <2>6 DEF O, q
<1>5. CASE e = 0
  <2> DEFINE x == num * O
             y == den * q
  <2>1. x \in Nat
    BY <1>2
  <2> HIDE DEF x
  <2>2. q \in Nat /\ x <= y /\ y < x + den
    <3>1. q = CeilDiv(x, den) /\ den > 0
      BY <1>2, <1>3, <1>5 DEF x
    <3> QED BY <3>1, <2>1, <1>2, CeilDivBounds
  <2>3. y \in Nat /\ y = q * den /\ (q - 2) * den = y - (2 * den)
    BY <2>2, <1>2
  <2> HIDE DEF y
  <2>4. x <= q * den /\ (q - 2) * den <= x
    BY <2>1, <2>2, <2>3, <1>2
  <2> QED BY <2>4 DEF x, O, q
<1> QED BY <1>2, <1>4, <1>5

(***************************************************************************)
(* ratio_down is never above the true ratio and less than two ulps below.  *)
(***************************************************************************)
THEOREM RatioDownBiased ==
  ASSUME NEW num \in Nat, NEW den \in U128, den >= 1, num <= den
  PROVE  LET q == ratio_down(num, den)
         IN  q \in Nat /\ q * den <= num * ONE /\ num * ONE <= (q + 2) * den
<1> DEFINE O == ONE
           e == Excess(den)
           d == 2^e
           r == Shr(num, e)
           s == Shr(den, e)
           q == ratio_down(num, den)
<1>1. /\ d \in Nat /\ d > 0 /\ r \in Nat /\ s \in Nat /\ s >= 1 /\ r <= s
      /\ d * r <= num /\ num < (d * r) + d
      /\ d * s <= den /\ den < (d * s) + d
  BY PreShift
<1>2. O \in Nat /\ O >= 2 /\ den \in Nat /\ e \in Nat
  BY ScaleFacts, ExcessKeeps DEF U128
<1>3. /\ e > 0 => s >= 4 * O
      /\ q = IF e > 0 THEN (r * O) \div (s + 1) ELSE (num * O) \div den
  BY ExcessPrecise DEF ratio_down
<1> HIDE DEF O, e, d, r, s, q
<1>4. CASE e > 0
  <2> DEFINE x == r * O
             z == s + 1
             y == z * q
  <2>1. x \in Nat /\ z \in Nat /\ z > 0
    BY <1>1, <1>2
  <2> HIDE DEF x, z
  <2>2. q \in Nat /\ y <= x /\ x < y + z
    <3>1. q = x \div z
      BY <1>3, <1>4 DEF x, z
    <3> QED BY <3>1, <2>1, DivisionBounds, DivisionNat
  <2>3. y \in Nat /\ z = s + 1 /\ y = (s * q) + q /\ s * q \in Nat
    BY <2>1, <2>2, <1>1 DEF z
  <2>4. q * den <= num * O
    <3>1. q * den <= q * (d * z)
      <4>1. d * z \in Nat /\ den <= d * z
        BY <2>3, <1>1, <1>2
      <4> QED BY <4>1, <2>2, <1>2, ProductBound
    <3>2. q * (d * z) = d * y
      BY <2>1, <2>2, <1>1
    <3>3. d * y <= d * x
      BY <2>1, <2>2, <2>3, <1>1, ProductBound
    <3>4. d * x = (d * r) * O
      BY <1>1, <1>2 DEF x
    <3>5. (d * r) * O <= num * O
      <4>1. d * r \in Nat
        BY <1>1
      <4> QED BY <4>1, <1>1, <1>2, ProductBound
    <3>6. /\ q * den \in Nat /\ q * (d * z) \in Nat /\ d * y \in Nat /\ d * x \in Nat
          /\ (d * r) * O \in Nat /\ num * O \in Nat
      BY <2>1, <2>2, <2>3, <1>1, <1>2
    <3> QED BY <3>1, <3>2, <3>3, <3>4, <3>5, <3>6
  <2>5. q <= O
    <3>1. x <= s * O /\ s * O \in Nat
      BY <1>1, <1>2, ProductBound DEF x
    <3>2. s * (O + 1) = (s * O) + s
      BY <1>1, <1>2
    <3>3. s * q < s * (O + 1)
      BY <3>1, <3>2, <2>1, <2>2, <2>3, <1>1, <1>2
    <3>4. O \in Int /\ q \in Int /\ s > 0
      BY <2>2, <1>1, <1>2
    <3> QED BY <3>3, <3>4, <1>1, Cancel
  <2>6. num * O <= (q + 2) * den
    <3> DEFINE w == q + 2
               v == w * s
    <3>1. w \in Nat /\ v \in Nat /\ v = (s * q) + (2 * s)
      BY <2>2, <1>1
    <3>2. (r + 1) * O = x + O /\ (r + 1) * O \in Nat
      BY <1>1, <1>2 DEF x
    <3>3. x + O <= v
      <4>1. 4 * O <= s
        BY <1>3, <1>4
      <4> HIDE DEF v, w, y
      <4> QED BY <4>1, <3>1, <2>1, <2>2, <2>3, <2>5, <1>1, <1>2
    <3> HIDE DEF w, v
    <3>4. num * O <= (d * (r + 1)) * O
      <4>1. num <= d * (r + 1) /\ d * (r + 1) \in Nat
        BY <1>1
      <4> QED BY <4>1, <1>2, ProductBound
    <3>5. (d * (r + 1)) * O = d * (x + O)
      BY <1>1, <1>2 DEF x
    <3>6. d * (x + O) <= d * v
      <4>1. x + O \in Nat
        BY <2>1, <1>2
      <4> QED BY <4>1, <3>1, <3>3, <1>1, ProductBound
    <3>7. d * v = w * (d * s)
      BY <3>1, <1>1 DEF v
    <3>8. w * (d * s) <= w * den
      <4>1. d * s \in Nat
        BY <1>1
      <4> QED BY <4>1, <3>1, <1>1, <1>2, ProductBound
    <3>9. /\ num * O \in Nat /\ d * (x + O) \in Nat /\ d * v \in Nat
          /\ w * den \in Nat
      BY <2>1, <3>1, <1>1, <1>2
    <3>10. num * O <= w * den
      BY <3>4, <3>5, <3>6, <3>7, <3>8, <3>9
    <3> QED BY <3>10 DEF w
  <2> QED BY <2>2, <2>4, <2>6 DEF O, q
<1>5. CASE e = 0
  <2> DEFINE x == num * O
             y == den * q
  <2>1. x \in Nat /\ den > 0
    BY <1>2
  <2> HIDE DEF x
  <2>2. q \in Nat /\ y <= x /\ x < y + den
    <3>1. q = x \div den
      BY <1>3, <1>5 DEF x
    <3> QED BY <3>1, <2>1, <1>2, DivisionBounds, DivisionNat
  <2>3. y \in Nat /\ y = q * den /\ (q + 2) * den = y + (2 * den)
    BY <2>2, <1>2
  <2> HIDE DEF y
  <2>4. q * den <= x /\ x <= (q + 2) * den
    BY <2>1, <2>2, <2>3, <1>2
  <2> QED BY <2>2, <2>4 DEF x, O, q
<1> QED BY <1>2, <1>4, <1>5
-----------------------------------------------------------------------------
(***************************************************************************)
(* The asserts of pow that never fire under a quote.                       *)
(***************************************************************************)
\* Weights within MAX_RATIO of each other give an exponent of the domain,
\* rounded down or up.
LEMMA ExponentsInDomain ==
  ASSUME NEW u \in U128, NEW v \in U128, u >= 1, v >= 1,
         u <= MAX_RATIO * v, v <= MAX_RATIO * u
  PROVE  /\ (u * ONE) \div v \in 1 .. MAX_RATIO * ONE
         /\ CeilDiv(u * ONE, v) \in 1 .. MAX_RATIO * ONE
<1> DEFINE O == ONE
           M == MAX_RATIO
           R == M * O
           x == u * O
           q == x \div v
           c == CeilDiv(x, v)
<1>1. /\ u \in Nat /\ v \in Nat /\ O \in Nat /\ O >= 2 /\ M \in Nat /\ R \in Nat /\ M <= O
      /\ u <= M * v /\ v <= M * u
  <2>1. M <= O
    BY RatioAssumption, PoolScales
  <2> QED BY <2>1, PoolScales DEF U128
<1> HIDE DEF O, M
<1>2. x \in Nat /\ x >= v /\ x <= v * R
  <2>1. M * u <= O * u /\ M * u \in Nat /\ O * u = x /\ x \in Nat
    BY <1>1, ProductBound
  <2>2. u * O <= (M * v) * O
    <3>1. M * v \in Nat
      BY <1>1
    <3> QED BY <3>1, <1>1, ProductBound
  <2>3. (M * v) * O = v * R
    BY <1>1
  <2> HIDE DEF R
  <2> QED BY <2>1, <2>2, <2>3, <1>1
<1> HIDE DEF x, R
<1>3. q \in Nat /\ v * q <= x /\ x < (v * q) + v
  BY <1>1, <1>2, DivisionBounds, DivisionNat
<1>4. c \in Nat /\ x <= v * c /\ v * c < x + v
  <2>1. v > 0
    BY <1>1
  <2> QED BY <2>1, <1>1, <1>2, CeilDivBounds
<1> HIDE DEF q, c
<1>5. q <= R /\ c <= R
  <2>1. v * (R + 1) = (v * R) + v /\ v * R \in Nat /\ v * q \in Nat /\ v * c \in Nat /\ v > 0
    BY <1>1, <1>3, <1>4
  <2>2. v * q < v * (R + 1) /\ v * c < v * (R + 1)
    BY <2>1, <1>1, <1>2, <1>3, <1>4
  <2>3. q <= R
    BY <2>1, <2>2, <1>1, <1>3, Cancel
  <2>4. c <= R
    BY <2>1, <2>2, <1>1, <1>4, Cancel
  <2> QED BY <2>3, <2>4
<1>6. q # 0 /\ c # 0
  <2>1. ASSUME q = 0 PROVE FALSE
    <3>1. v * q = 0
      BY <2>1, <1>1
    <3> QED BY <3>1, <1>1, <1>2, <1>3
  <2>2. ASSUME c = 0 PROVE FALSE
    <3>1. v * c = 0
      BY <2>2, <1>1
    <3> QED BY <3>1, <1>1, <1>2, <1>4
  <2> QED BY <2>1, <2>2
<1>7. q \in 1 .. R /\ c \in 1 .. R
  BY <1>1, <1>3, <1>4, <1>5, <1>6
<1> QED BY <1>7 DEF q, c, x, R, O, M

\* Inside its envelope an exact-in trade is priced: the base is in the domain,
\* or it has come to one.
LEMMA OutGivenInPrices ==
  ASSUME NEW bi \in U128, NEW wi \in U128, NEW bo \in U128, NEW wo \in U128,
         NEW a \in U128, OutEnvelope(bi, wi, bo, wo, a)
  PROVE  LET exponent == OutExponent(wi, wo)
             base == ratio_up(bi, bi + a)
         IN  /\ base \in Nat /\ base >= 1 /\ exponent \in 1 .. MAX_RATIO * ONE
             /\ base < ONE => Returns("one_minus_pow_62", base, exponent) \in 0 .. ONE_62 - 1
             /\ calc_out_given_in(bi, wi, bo, wo, a)
                  = IF base >= ONE THEN Value(0)
                    ELSE Payout(bo, Returns("one_minus_pow_62", base, exponent))
<1> DEFINE exponent == OutExponent(wi, wo)
           base == ratio_up(bi, bi + a)
           share == Returns("one_minus_pow_62", base, exponent)
           fits == OutEnvelope(bi, wi, bo, wo, a)
           ok == InDomain("one_minus_pow_62", base, exponent)
           R == MAX_RATIO * ONE
           z == calc_out_given_in(bi, wi, bo, wo, a)
<1>1. z = IF ~fits THEN Panic("envelope")
          ELSE IF base >= ONE THEN Value(0)
          ELSE IF ~ok THEN Panic("domain")
          ELSE Payout(bo, share)
  BY DEF calc_out_given_in
<1>2. /\ bi >= 1 /\ bo >= 1 /\ bi + a \in U128 /\ wi >= 1 /\ wo >= 1
      /\ wi <= MAX_RATIO * wo /\ wo <= MAX_RATIO * wi
      /\ bi \in Nat /\ a \in Nat /\ bi + a >= 1 /\ bi <= bi + a
  BY DEF OutEnvelope, check_weights, U128
<1>3. exponent \in 1 .. R
  BY <1>2, ExponentsInDomain DEF OutExponent
<1>4. ONE \in Nat /\ ONE >= 2 /\ R \in Nat
  BY PoolScales
<1>5. base \in Nat /\ base >= 1
  <2> DEFINE den == bi + a
  <2>1. base \in Nat /\ bi * ONE <= base * den
    <3>1. den \in U128 /\ den >= 1 /\ bi <= den
      BY <1>2
    <3> HIDE DEF den
    <3>2. ratio_up(bi, den) \in Nat
      BY <3>1, <1>2, RatiosAreNumbers
    <3>3. bi * ONE <= ratio_up(bi, den) * den
      BY <3>1, <1>2, RatioUpBiased
    <3> QED BY <3>2, <3>3 DEF den
  <2> HIDE DEF base
  <2>2. den \in Nat
    BY <1>2
  <2> HIDE DEF den
  <2>3. base # 0
    <3> SUFFICES ASSUME base = 0 PROVE FALSE
      OBVIOUS
    <3>1. base * den = 0
      BY <2>2
    <3>2. 1 * 2 <= bi * ONE
      BY <1>2, <1>4, ProductBound
    <3>3. bi * ONE \in Nat
      BY <1>2, <1>4
    <3> QED BY <3>1, <3>2, <3>3, <2>1
  <2> QED BY <2>1, <2>3
<1> HIDE DEF base, exponent, z, ok, fits, share
<1>6. fits
  BY DEF fits
<1>7. CASE base >= ONE
  BY <1>1, <1>3, <1>4, <1>5, <1>6, <1>7 DEF z, base, exponent
<1>8. CASE ~(base >= ONE)
  <2>1. base \in 1 .. ONE - 1
    BY <1>4, <1>5, <1>8
  <2>2. exponent \in I128
    BY <1>3, PoolScales
  <2>3. ok
    <3>1. base > 0 /\ base < ONE /\ base <= ONE /\ exponent > 0 /\ exponent <= R
      BY <2>1, <1>3, <1>4
    <3> QED BY <3>1 DEF ok, InDomain, Ops62, ExpOps, PowOps, RawOps
  <2>4. share \in 0 .. ONE_62 - 1
    BY <2>1, <2>2, <1>3, PowersInRange DEF share
  <2>5. z = Payout(bo, share)
    BY <1>1, <1>6, <1>8, <2>3
  <2> QED BY <1>3, <1>5, <1>8, <2>4, <2>5 DEF z, base, exponent, share
<1> QED BY <1>7, <1>8

(***************************************************************************)
(* Inside the asserted envelope an exact-in trade never panics             *)
(* (docs/overflow-proof.md): its base and exponent are of pow's domain,    *)
(* and a share of the reserve fits a word.                                 *)
(***************************************************************************)
THEOREM ExactInNeverPanics ==
  ASSUME NEW bi \in U128, NEW wi \in U128, NEW bo \in U128, NEW wo \in U128,
         NEW a \in U128, OutEnvelope(bi, wi, bo, wo, a)
  PROVE  ~Panicked(calc_out_given_in(bi, wi, bo, wo, a))
<1> DEFINE exponent == OutExponent(wi, wo)
           base == ratio_up(bi, bi + a)
           share == Returns("one_minus_pow_62", base, exponent)
<1>1. /\ base \in Nat /\ (base < ONE => share \in 0 .. ONE_62 - 1)
      /\ calc_out_given_in(bi, wi, bo, wo, a)
           = IF base >= ONE THEN Value(0) ELSE Payout(bo, share)
  BY OutGivenInPrices
<1>2. bo >= 1 /\ ONE \in Nat
  BY PoolScales DEF OutEnvelope
<1> HIDE DEF base, share
<1>3. CASE base >= ONE
  BY <1>1, <1>3 DEF Panicked, Value
<1>4. CASE ~(base >= ONE)
  <2>1. share \in 0 .. ONE_62 - 1
    BY <1>1, <1>2, <1>4
  <2>2. ~Panicked(Payout(bo, share))
    BY <2>1, <1>2, PayoutBelowReserve
  <2> QED BY <2>2, <1>1, <1>4
<1> QED BY <1>3, <1>4

(***************************************************************************)
(* Nor does pow refuse an argument of an exact-out trade: what is left of  *)
(* the reserve is at least seven tenths, so the ratio is not rounded to    *)
(* nothing, and less than all of it.                                       *)
(***************************************************************************)
THEOREM ExactOutMeetsDomain ==
  ASSUME SCALE >= 2,
         NEW bi \in U128, NEW wi \in U128, NEW bo \in U128, NEW wo \in U128,
         NEW a \in U128, a # 0, InEnvelope(bi, wi, bo, wo, a)
  PROVE  InDomain("pow_62_down", ratio_down(bo - a, bo), InExponent(wi, wo))
<1> DEFINE exponent == InExponent(wi, wo)
           rest == bo - a
           base == ratio_down(rest, bo)
           R == MAX_RATIO * ONE
<1>1. /\ bo >= 1 /\ wi >= 1 /\ wo >= 1
      /\ wi <= MAX_RATIO * wo /\ wo <= MAX_RATIO * wi
      /\ bo \in Nat /\ a \in Nat /\ a >= 1 /\ a <= DrainCap(bo)
  BY DEF InEnvelope, check_weights, U128
<1>2. exponent \in 1 .. R
  BY <1>1, ExponentsInDomain DEF InExponent
<1>3. ONE \in Nat /\ ONE >= 4 /\ R \in Nat
  <2>1. /\ SCALE - 1 \in 0 .. WIDTH - 1 /\ SCALE - 2 \in 0 .. WIDTH - 1
        /\ SCALE - 2 \in 0 .. WIDTH
        /\ (SCALE - 1) + 1 = SCALE /\ (SCALE - 2) + 1 = SCALE - 1
    BY ScaleAssumption, WidthAssumption
  <2>2. 2^((SCALE - 1) + 1) = 2 * 2^(SCALE - 1) /\ 2^((SCALE - 2) + 1) = 2 * 2^(SCALE - 2)
    BY <2>1, PowerAssumption
  <2>3. 2^(SCALE - 2) \in Nat /\ 2^(SCALE - 2) > 0
    BY <2>1, PowerPositive
  <2>4. ONE = 2 * (2 * 2^(SCALE - 2))
    BY <2>1, <2>2 DEF ONE
  <2> QED BY <2>3, <2>4, PoolScales
<1>4. 10 * a <= 3 * bo
  <2> DEFINE q == bo \div 10
             r == bo % 10
             z == (r * 3) \div 10
  <2>1. q \in Nat /\ r \in 0 .. 9 /\ bo = (10 * q) + r
    BY <1>1, DivisionBounds, DivisionNat
  <2>2. DrainCap(bo) = (q * 3) + z
    BY DEF DrainCap
  <2> HIDE DEF q, r
  <2>3. z \in Nat /\ 10 * z <= r * 3
    BY <2>1
  <2> HIDE DEF z
  <2> QED BY <2>1, <2>2, <2>3, <1>1
<1>5. rest \in Nat /\ rest < bo /\ 10 * rest >= 7 * bo
  BY <1>1, <1>4
<1> HIDE DEF rest
<1>6. base \in Nat /\ base * bo <= rest * ONE /\ rest * ONE <= (base + 2) * bo
  <2>1. rest <= bo
    BY <1>1, <1>5
  <2> QED BY <2>1, <1>1, <1>5, RatioDownBiased
<1> HIDE DEF base, exponent
<1>7. base < ONE
  <2> SUFFICES ASSUME ONE <= base PROVE FALSE
    BY <1>3, <1>6
  <2>1. bo * ONE <= bo * base /\ bo * ONE \in Nat
    BY <1>1, <1>3, <1>6, ProductBound
  <2>2. (rest + 1) * ONE <= bo * ONE /\ (rest + 1) * ONE = (rest * ONE) + ONE
    <3>1. rest + 1 <= bo /\ rest + 1 \in Nat
      BY <1>1, <1>5
    <3> QED BY <3>1, <1>1, <1>3, <1>5, ProductBound
  <2>3. bo * base = base * bo /\ base * bo \in Nat /\ rest * ONE \in Nat
    BY <1>1, <1>3, <1>5, <1>6
  <2> QED BY <2>1, <2>2, <2>3, <1>3, <1>6
<1>8. base # 0
  <2> SUFFICES ASSUME base = 0 PROVE FALSE
    OBVIOUS
  <2>1. rest * ONE <= 2 * bo
    BY <1>1, <1>6
  <2>2. rest * 4 <= rest * ONE /\ rest * ONE \in Nat
    BY <1>3, <1>5, ProductBound
  <2> QED BY <2>1, <2>2, <1>1, <1>5
<1>9. base > 0 /\ base <= ONE /\ exponent > 0 /\ exponent <= R
  BY <1>2, <1>3, <1>6, <1>7, <1>8
<1>10. InDomain("pow_62_down", base, exponent)
  BY <1>7, <1>9 DEF InDomain, Ops62, ExpOps, PowOps, RawOps
<1> QED BY <1>10 DEF base, exponent, rest
-----------------------------------------------------------------------------
(***************************************************************************)
(* The power at the drain cap.                                             *)
(***************************************************************************)
\* floor(3 b / 10) is at most that.
LEMMA DrainAtMost ==
  ASSUME NEW b \in Nat
  PROVE  DrainCap(b) \in Nat /\ 10 * DrainCap(b) <= 3 * b
<1> DEFINE q == b \div 10
           r == b % 10
           u == (r * 3) \div 10
<1>1. q \in Nat /\ r \in 0 .. 9 /\ b = (10 * q) + r
  BY DivisionBounds, DivisionNat
<1> HIDE DEF q, r
<1>2. u \in Nat /\ 10 * u <= r * 3
  BY <1>1
<1> HIDE DEF u
<1>3. DrainCap(b) = (q * 3) + u
  BY DEF DrainCap, q, r, u
<1> QED BY <1>1, <1>2, <1>3

\* The drain cap leaves at least seven tenths of the reserve, the quantised
\* base two units less.
LEMMA BaseAtLeast ==
  ASSUME NEW b \in U128, b >= 1, NEW a \in Nat, a <= DrainCap(b)
  PROVE  ratio_down(b - a, b) \in Nat /\ ratio_down(b - a, b) >= LeastBase
<1> DEFINE q == ratio_down(b - a, b)
           c == CeilDiv(7 * ONE, 10)
<1>1. ONE \in Nat /\ ONE >= 2 /\ b \in Nat
  BY ScaleFacts DEF U128
<1>2. DrainCap(b) \in Nat /\ 10 * DrainCap(b) <= 3 * b
  BY <1>1, DrainAtMost
<1>3. b - a \in Nat /\ b - a <= b /\ 10 * (b - a) >= 7 * b
  BY <1>1, <1>2
<1>4. q \in Nat /\ (b - a) * ONE <= (q + 2) * b
  BY <1>3, RatioDownBiased
<1> HIDE DEF q
<1>5. b * (7 * ONE) <= b * (10 * (q + 2))
  <2> DEFINE n == b - a
  <2>1. n \in Nat /\ 10 * n >= 7 * b /\ n * ONE <= (q + 2) * b
    BY <1>3, <1>4
  <2> HIDE DEF n
  <2>2. (10 * n) * ONE >= (7 * b) * ONE
    BY <2>1, <1>1
  <2>3. (10 * n) * ONE = 10 * (n * ONE) /\ (7 * b) * ONE = b * (7 * ONE)
        /\ 10 * ((q + 2) * b) = b * (10 * (q + 2))
    BY <2>1, <1>1, <1>4
  <2>4. n * ONE \in Nat /\ (q + 2) * b \in Nat
    BY <2>1, <1>1, <1>4
  <2> DEFINE A == n * ONE
             B == (q + 2) * b
  <2>5. b * (7 * ONE) <= 10 * A /\ A \in Nat /\ B \in Nat /\ A <= B
        /\ 10 * B = b * (10 * (q + 2)) /\ b * (7 * ONE) \in Nat
    BY <2>1, <2>2, <2>3, <2>4, <1>1
  <2> HIDE DEF A, B
  <2> QED BY <2>5
<1>6. 7 * ONE <= 10 * (q + 2)
  <2>1. b * (7 * ONE) < b * (10 * (q + 2) + 1)
    BY <1>1, <1>4, <1>5
  <2> QED BY <2>1, <1>1, <1>4, Cancel
<1>7. c \in Nat /\ 10 * c < 7 * ONE + 10
  BY <1>1, CeilDivBounds
<1> HIDE DEF c
<1>8. q >= c - 2
  BY <1>1, <1>4, <1>6, <1>7
<1> QED BY <1>4, <1>8 DEF q, c, LeastBase

\* Above 1: ln m is at least 2 t.
LEMMA LnAboveOne ==
  ASSUME NEW t \in Nat, NEW p \in Nat, p >= ONE_62
  PROVE  LnMantissa(t, p) \in Int /\ LnMantissa(t, p) >= 2 * t
<1> DEFINE h == 2^(LN_SCALE - 1)
           n == t * p
           q == n \div h
<1>1. h \in Nat /\ h > 0 /\ ONE_62 = 2 * h
  BY ScaleFacts
<1>2. LnMantissa(t, p) = q
  BY DEF LnMantissa, Shr
<1> HIDE DEF h
<1>3. n \in Nat /\ n >= h * (2 * t)
  <2>1. p >= 2 * h /\ t * p >= t * (2 * h) /\ t * (2 * h) = h * (2 * t)
    BY <1>1
  <2> QED BY <1>1, <2>1
<1> HIDE DEF n
<1>4. q \in Int /\ n < h * q + h
  BY <1>1, <1>3, DivisionBounds
<1> HIDE DEF q
<1>5. h * (2 * t) < h * (q + 1)
  <2>1. h * (q + 1) = h * q + h
    BY <1>1, <1>4
  <2>2. h * (2 * t) \in Int /\ h * q \in Int
    BY <1>1, <1>4
  <2> QED BY <1>3, <1>4, <2>1, <2>2, <1>1
<1>6. 2 * t <= q
  BY <1>1, <1>4, <1>5, Cancel
<1> QED BY <1>2, <1>4, <1>6

\* Below 1: -ln m is at most 2.1 t.
LEMMA LnBelowOne ==
  ASSUME NEW t \in Nat, NEW p \in Nat, 20 * p <= 21 * ONE_62,
         NEW c \in Nat, 10 * c >= 21 * t
  PROVE  LnMantissa(-t, p) \in Int /\ -LnMantissa(-t, p) <= c
<1> DEFINE h == 2^(LN_SCALE - 1)
           n == (-t) * p
           q == n \div h
<1>1. h \in Nat /\ h > 0 /\ ONE_62 = 2 * h
  BY ScaleFacts
<1>2. LnMantissa(-t, p) = q
  BY DEF LnMantissa, Shr
<1> HIDE DEF h
<1>3. n \in Int /\ n >= h * (-c)
  <2>1. t * p \in Nat /\ n = -(t * p)
    OBVIOUS
  <2>2. 10 * p <= 21 * h
    BY <1>1
  <2>3. t * (10 * p) <= t * (21 * h) /\ t * (21 * h) = h * (21 * t)
        /\ t * (10 * p) = 10 * (t * p)
    BY <1>1, <2>2
  <2>4. h * (21 * t) <= h * (10 * c) /\ h * (10 * c) = 10 * (h * c) /\ h * c \in Nat
    BY <1>1
  <2>5. h * (-c) = -(h * c)
    BY <1>1
  <2> DEFINE A == t * p
             B == h * c
  <2>6. 10 * A <= 10 * B /\ A \in Nat /\ B \in Nat
    <3>1. h * (21 * t) \in Nat
      BY <1>1
    <3> QED BY <2>1, <2>3, <2>4, <3>1
  <2>7. n = -A /\ h * (-c) = -B
    BY <2>1, <2>5
  <2> HIDE DEF A, B, n
  <2> QED BY <2>6, <2>7
<1> HIDE DEF n
<1>4. q \in Int /\ n < h * q + h
  BY <1>1, <1>3, DivisionBounds
<1> HIDE DEF q
<1>5. h * (-c) < h * (q + 1)
  <2>1. h * (q + 1) = h * q + h /\ h * (-c) \in Int /\ h * q \in Int
    BY <1>1, <1>4
  <2> QED BY <1>1, <1>3, <1>4, <2>1
<1>6. -c <= q
  BY <1>1, <1>4, <1>5, Cancel
<1> QED BY <1>2, <1>4, <1>6

\* Tenths rounded up.
LEMMA TenthsUp ==
  ASSUME NEW a \in Nat
  PROVE  CeilDiv(a, 10) \in Nat /\ a <= 10 * CeilDiv(a, 10) /\ 10 * CeilDiv(a, 10) < a + 10
BY CeilDivBounds

\* A logarithm of a mantissa is a number.
LEMMA LnMantissaInt ==
  ASSUME NEW t \in Int, NEW p \in Nat
  PROVE  LnMantissa(t, p) \in Int
<1> DEFINE h == 2^(LN_SCALE - 1)
           n == t * p
<1>1. h \in Nat /\ h > 0
  BY ScaleFacts
<1>2. n \in Int
  OBVIOUS
<1> HIDE DEF h, n
<1>3. n \div h \in Int
  BY <1>1, <1>2, DivisionBounds
<1> QED BY <1>3 DEF LnMantissa, Shr, h, n

\* A base the cap allows is doubled once at most.
LEMMA LnOneDoubling ==
  ASSUME NEW x \in 1 .. ONE - 1, x >= LeastBase
  PROVE  LET g == x * GUARD
         IN  \E p \in Nat :
               /\ p >= ONE_62 /\ 20 * p <= 21 * ONE_62
               /\ \/ /\ g >= SQRT2_HALF_62 /\ g <= ONE_62
                     /\ ln_inner[x] = -LnMantissa(AtanhArgument(g), p)
                  \/ /\ 2 * g >= ONE_62 /\ 2 * (2 * g) <= 3 * ONE_62
                     /\ ln_inner[x] = LN2_62 - LnMantissa(AtanhArgument(2 * g), p)
<1> DEFINE W == ONE_62
           g == x * GUARD
           k == Doublings(x)
           m == x * GUARD * 2^k
           t == AtanhArgument(m)
           u == Square(t)
           p == Horner(ATANH_COEFF_62, u)
           l == LnMantissa(t, p)
<1>1. ln_inner[x] = k * LN2_62 - l
  BY ScaleFacts DEF ln_inner
<1>2. /\ W \in Nat /\ W >= 8 /\ ONE \in Nat /\ GUARD \in Nat /\ GUARD >= 4 /\ ONE * GUARD = W
      /\ SQRT2_HALF_62 \in Nat /\ 4 * SQRT2_HALF_62 <= 3 * W
      /\ LN2_62 \in Nat /\ LeastBase \in Int /\ 2 * LeastBase >= ONE /\ ATANH_COEFF_62[1] = W
  <2>1. CeilDiv(7 * ONE, 10) \in Nat
    <3>1. ONE \in Nat
      BY ScaleFacts
    <3> QED BY <3>1, TenthsUp
  <2>2. LeastBase \in Int
    BY <2>1 DEF LeastBase
  <2> QED BY <2>2, ScaleFacts, LogarithmAssumption, UnderflowAssumption
<1>3. x \in 1 .. ONE /\ x \in Nat
  BY <1>2
<1>4. k \in 0 .. SCALE /\ InWindow(m) /\ (k = 0 => m <= W)
  BY <1>3, DoublingsLand
<1>5. g \in Nat /\ 2 * g >= W
  <2>1. (2 * x) * GUARD >= W /\ (2 * x) * GUARD = 2 * (x * GUARD) /\ x * GUARD \in Nat
    <3>1. 2 * x \in Nat /\ 2 * x >= ONE
      BY <1>2, <1>3
    <3>2. (2 * x) * GUARD >= ONE * GUARD
      BY <1>2, <3>1
    <3> QED BY <1>2, <1>3, <3>2
  <2> QED BY <2>1
<1>6. m = g * 2^k /\ m \in Nat /\ m >= SQRT2_HALF_62 /\ 2 * m <= 3 * W
  BY <1>2, <1>4 DEF InWindow
<1>7. k \in Nat /\ k <= WIDTH /\ WIDTH \in Nat /\ WIDTH >= 4
  BY <1>4, ScaleAssumption, WidthAssumption
<1>8. /\ t \in Int /\ 5 * t <= W /\ -W <= 5 * t
  BY <1>4, AtanhBound
<1> HIDE DEF k, m
<1>9. u \in Nat /\ 25 * u <= W
  BY <1>8, SquareBound
<1> HIDE DEF u
<1>10. p \in Nat /\ p >= W /\ 20 * p <= 21 * W
  BY <1>2, <1>9, AtanhHornerTop
<1> HIDE DEF p
<1>11. l \in Int
  BY <1>8, <1>10, LnMantissaInt
<1>12. CASE k = 0
  <2>1. m = g
    BY <1>5, <1>6, <1>12, PowerAssumption
  <2>2. ln_inner[x] = -LnMantissa(AtanhArgument(g), p)
    <3>1. l = LnMantissa(AtanhArgument(g), p)
      BY <2>1
    <3> HIDE DEF l
    <3> QED BY <1>1, <1>2, <1>11, <1>12, <3>1
  <2>3. g >= SQRT2_HALF_62 /\ g <= ONE_62
    BY <1>4, <1>6, <1>12, <2>1 DEF m
  <2> HIDE DEF g
  <2> QED BY <1>10, <2>2, <2>3 DEF g
<1>13. CASE k = 1
  <2>1. 2^k = 2
    BY <1>13, <1>7, PowerAssumption
  <2>2. m = 2 * g
    BY <1>5, <1>6, <2>1
  <2>3. ln_inner[x] = LN2_62 - LnMantissa(AtanhArgument(2 * g), p)
    <3>1. l = LnMantissa(AtanhArgument(2 * g), p)
      BY <2>2
    <3> HIDE DEF l
    <3> QED BY <1>1, <1>2, <1>11, <1>13, <3>1
  <2>4. 2 * g >= ONE_62 /\ 2 * (2 * g) <= 3 * ONE_62
    BY <1>5, <1>6, <2>2
  <2> HIDE DEF g
  <2> QED BY <1>10, <2>3, <2>4 DEF g
<1>14. CASE k >= 2
  <2>1. 2^2 = 4 /\ 2^2 <= 2^k
    <3>1. 2^(0 + 1) = 2 * 2^0 /\ 2^(1 + 1) = 2 * 2^1 /\ 2^0 = 1
      BY <1>7, PowerAssumption
    <3>2. 2^2 <= 2^k
      BY <1>7, <1>14, PowerMonotone
    <3> QED BY <3>1, <3>2
  <2>2. 2^k \in Nat
    BY <1>7, PowerPositive
  <2> DEFINE e == 2^k
  <2>3. e \in Nat /\ e >= 4 /\ m = g * e
    BY <2>1, <2>2, <1>6
  <2> HIDE DEF e, g, W
  <2>4. g * e >= g * 4
    BY <1>5, <2>3
  <2> QED BY <1>2, <1>5, <1>6, <2>3, <2>4
<1> QED BY <1>7, <1>12, <1>13, <1>14

\* -ln of a base the cap allows is at most GreatestLn.
LEMMA LnAtMost ==
  ASSUME NEW x \in 1 .. ONE - 1, x >= LeastBase
  PROVE  ln_inner[x] \in Nat /\ ln_inner[x] <= GreatestLn /\ GreatestLn \in Int
<1> DEFINE W == ONE_62
           g == x * GUARD
           L == 2 * LeastBase * GUARD
           T1 == AtanhArgument(L)
           T0 == AtanhArgument(SQRT2_HALF_62)
           c == CeilDiv(-21 * T0, 10)
<1>1. /\ W \in Nat /\ W >= 8 /\ ONE \in Nat /\ GUARD \in Nat /\ GUARD >= 4 /\ ONE * GUARD = W
      /\ SQRT2_HALF_62 \in Nat /\ 4 * SQRT2_HALF_62 <= 3 * W
      /\ LN2_62 \in Nat /\ LeastBase \in Int /\ 2 * LeastBase >= ONE
  <2>1. CeilDiv(7 * ONE, 10) \in Nat
    <3>1. ONE \in Nat
      BY ScaleFacts
    <3> QED BY <3>1, TenthsUp
  <2>2. LeastBase \in Int
    BY <2>1 DEF LeastBase
  <2> QED BY <2>2, ScaleFacts, LogarithmAssumption, UnderflowAssumption
<1>2. ln_inner[x] \in Nat
  <2>1. x \in 1 .. ONE
    BY <1>1
  <2> QED BY <2>1, LnInnerInRange DEF LnRange
<1>3. g \in Nat /\ L \in Nat /\ L >= W /\ 2 * g >= L
  <2> DEFINE b == 2 * LeastBase
  <2>1. b \in Nat /\ b >= ONE /\ 2 * x >= b /\ x \in Nat
    BY <1>1
  <2> HIDE DEF b
  <2>2. b * GUARD >= W /\ b * GUARD \in Nat /\ (2 * x) * GUARD >= b * GUARD
        /\ (2 * x) * GUARD = 2 * (x * GUARD) /\ x * GUARD \in Nat
    BY <1>1, <2>1
  <2> HIDE DEF W
  <2> QED BY <2>2 DEF b
<1> HIDE DEF L
<1>4. T1 \in Nat /\ -T0 \in Nat /\ T0 \in Int /\ c \in Nat /\ 10 * c >= 21 * (-T0)
  <2>1. T1 \in Int /\ T1 >= 0
    BY <1>3, AtanhGrows
  <2>2. SQRT2_HALF_62 <= W
    BY <1>1
  <2>3. T0 \in Int /\ T0 <= 0
    BY <1>1, <2>2, AtanhGrows
  <2> HIDE DEF T0
  <2> DEFINE a == -21 * T0
  <2>4. a \in Nat /\ a = 21 * (-T0)
    BY <2>3
  <2>5. c = CeilDiv(a, 10)
    OBVIOUS
  <2> HIDE DEF a, c
  <2>6. c \in Nat /\ a <= 10 * c
    BY <2>4, <2>5, TenthsUp
  <2> QED BY <2>1, <2>3, <2>4, <2>6
<1>5. GreatestLn = AtLeast(LN2_62 - 2 * T1, c) /\ GreatestLn \in Int
  <2>1. GreatestLn = AtLeast(LN2_62 - 2 * T1, c)
    BY DEF GreatestLn, L
  <2> HIDE DEF c, T1
  <2> QED BY <1>1, <1>4, <2>1 DEF AtLeast
<1>6. GreatestLn >= c /\ GreatestLn >= LN2_62 - 2 * T1
  <2> HIDE DEF c, T1
  <2> QED BY <1>1, <1>4, <1>5 DEF AtLeast
<1>7. PICK p \in Nat :
        /\ p >= ONE_62 /\ 20 * p <= 21 * ONE_62
        /\ \/ /\ g >= SQRT2_HALF_62 /\ g <= ONE_62
              /\ ln_inner[x] = -LnMantissa(AtanhArgument(g), p)
           \/ /\ 2 * g >= ONE_62 /\ 2 * (2 * g) <= 3 * ONE_62
              /\ ln_inner[x] = LN2_62 - LnMantissa(AtanhArgument(2 * g), p)
  BY LnOneDoubling
<1> HIDE DEF c, g
<1>8. CASE /\ g >= SQRT2_HALF_62 /\ g <= ONE_62
           /\ ln_inner[x] = -LnMantissa(AtanhArgument(g), p)
  <2> DEFINE t == AtanhArgument(g)
             z == -t
  <2>1. T0 <= t /\ t <= 0 /\ T0 \in Int /\ t \in Int
    BY <1>1, <1>3, <1>8, AtanhGrows
  <2>2. ln_inner[x] = -LnMantissa(t, p)
    BY <1>8
  <2> HIDE DEF t, T0
  <2>3. z \in Nat /\ 10 * c >= 21 * z /\ -z = t
    BY <1>4, <2>1
  <2> HIDE DEF z
  <2>4. LnMantissa(-z, p) \in Int /\ -LnMantissa(-z, p) <= c
    BY <1>4, <1>7, <2>3, LnBelowOne
  <2> QED BY <1>2, <1>4, <1>5, <1>6, <2>2, <2>3, <2>4
<1>9. CASE ln_inner[x] = LN2_62 - LnMantissa(AtanhArgument(2 * g), p)
  <2> DEFINE t == AtanhArgument(2 * g)
  <2>1. T1 <= t /\ t \in Int
    <3>1. 2 * g \in Nat /\ L <= 2 * g /\ L \in Nat /\ L >= ONE_62
      BY <1>3
    <3> QED BY <3>1, AtanhGrows
  <2>2. ln_inner[x] = LN2_62 - LnMantissa(t, p)
    BY <1>9
  <2> HIDE DEF t, T1
  <2>3. t \in Nat
    BY <1>4, <2>1
  <2>4. LnMantissa(t, p) \in Int /\ LnMantissa(t, p) >= 2 * t
    BY <1>7, <2>3, LnAboveOne
  <2> QED BY <1>1, <1>2, <1>4, <1>5, <1>6, <2>1, <2>2, <2>3, <2>4
<1> QED BY <1>7, <1>8, <1>9

\* The power of a base the cap allows, to any exponent of the domain, is
\* above the pad.
LEMMA PowAbovePad ==
  ASSUME NEW x \in 1 .. ONE - 1, x >= LeastBase, NEW y \in 1 .. MAX_RATIO * ONE
  PROVE  Returns("pow_62_down", x, y) \in 1 .. ONE_62 - 1
<1> DEFINE n == ln_inner[x]
           z == ArgProduct(y, n).value
           k == z \div LN2_62
           s == z % LN2_62
           h == Horner(EXP_COEFF_62, s)
           v == pow_inner(x, y)
           W == ONE_62
<1>1. /\ ONE \in Nat /\ ONE >= 2 /\ W \in Nat /\ W >= 8 /\ MAX_RATIO \in Nat
      /\ LN2_62 \in Nat /\ LN2_62 > 0 /\ 10 * LN2_62 <= 7 * W
      /\ PAD_62 \in Nat /\ PAD_62 > 0 /\ LN_SCALE \in Nat /\ LN_SCALE <= WIDTH /\ WIDTH \in Nat
      /\ ARG_ENVELOPE \in Nat
  BY ScaleFacts, LogarithmAssumption, ScaleAssumption, PadAssumption, WidthAssumption,
     EnvelopeAssumption
<1>2. PICK K \in 0 .. LN_SCALE : /\ MAX_RATIO * GreatestLn < (K + 1) * LN2_62
                                 /\ 10 * (PAD_62 + 1) * 2^K <= 3 * W
  BY UnderflowAssumption
<1>3. n \in Nat /\ n <= GreatestLn /\ n \in LnRange
  <2>1. x \in 1 .. ONE
    BY <1>1
  <2> QED BY <2>1, LnAtMost, LnInnerInRange
<1>4. y \in I128 /\ y \in Nat /\ y <= MAX_RATIO * ONE
  BY <1>1, PoolScales
<1>5. z \in Nat /\ ONE * z <= y * n
  BY <1>1, <1>3, <1>4, ArgProductFits DEF Envelope
<1>6. v = exp_inner[z]
  BY DEF pow_inner
<1>7. Returns("pow_62_down", x, y) = AtLeast(v - PAD_62, 0)
      /\ Returns("pow_62_down", x, y) \in 0 .. W - 1
  <2>1. Returns("pow_62_down", x, y) = Rounded("pow_62_down", v)
    <3>1. "pow_62_down" \notin ExpOps /\ "pow_62_down" \in PowOps
      BY DEF Ops62, ExpOps, PowOps
    <3>2. ~Saturates("pow_62_down", x)
      BY <3>1 DEF Saturates
    <3> QED BY <3>1, <3>2, Zenon DEF Returns, v
  <2>2. Rounded("pow_62_down", v) = AtLeast(v - PAD_62, 0)
    BY Zenon DEF Rounded, RawOps
  <2> QED BY <1>4, <2>1, <2>2, PowersInRange
<1>8. exp_inner[z] = IF k > LN_SCALE THEN 0 ELSE Shr(h, k)
  BY <1>5 DEF exp_inner
<1>9. k \in Nat /\ LN2_62 * k <= z /\ s \in 0 .. LN2_62 - 1
  <2>1. z \in Nat /\ LN2_62 \in Nat /\ LN2_62 > 0
    BY <1>1, <1>5
  <2> HIDE DEF z
  <2> QED BY <2>1, DivisionBounds, DivisionNat
<1> HIDE DEF n, z, k, s
<1>10. z <= MAX_RATIO * n
  <2>1. y * n <= (MAX_RATIO * ONE) * n /\ (MAX_RATIO * ONE) * n = ONE * (MAX_RATIO * n)
        /\ y * n \in Nat /\ MAX_RATIO * n \in Nat
    <3>1. MAX_RATIO * ONE \in Nat
      BY <1>1
    <3> QED BY <1>1, <1>3, <1>4, <3>1
  <2>2. ONE * z < ONE * (MAX_RATIO * n + 1)
    BY <1>1, <1>5, <2>1
  <2> QED BY <1>1, <1>5, <2>1, <2>2, Cancel
<1>11. k <= K
  <2>1. GreatestLn \in Int
    BY LnAtMost
  <2>2. MAX_RATIO * n <= MAX_RATIO * GreatestLn
    BY <1>1, <1>3, <2>1
  <2>3. LN2_62 * k < LN2_62 * (K + 1)
    <3>1. MAX_RATIO * n \in Nat /\ MAX_RATIO * GreatestLn \in Int /\ (K + 1) * LN2_62 \in Nat
          /\ (K + 1) * LN2_62 = LN2_62 * (K + 1) /\ LN2_62 * k \in Nat
      BY <1>1, <1>3, <1>9, <2>1
    <3> QED BY <1>2, <1>5, <1>9, <1>10, <2>2, <3>1
  <2> QED BY <1>1, <1>9, <2>3, Cancel
<1>12. v = h \div 2^k
  BY <1>1, <1>6, <1>8, <1>9, <1>11 DEF Shr
<1>13. h \in Nat /\ h >= W - s
  BY <1>9, ExpHornerSum, ExpHornerBelow
<1> HIDE DEF h, v
<1>14. 10 * h >= 3 * W
  <2>1. s \in Nat /\ s < LN2_62
    BY <1>1, <1>9
  <2> QED BY <1>1, <1>13, <2>1
<1>15. 2^k \in Nat /\ 2^k > 0 /\ 2^K \in Nat /\ 2^k <= 2^K
  BY <1>1, <1>9, <1>11, PowerPositive, PowerMonotone
<1>16. v >= PAD_62 + 1 /\ v \in Nat
  <2> DEFINE d == 2^k
             D == 2^K
             P == PAD_62 + 1
  <2>1. /\ d \in Nat /\ d > 0 /\ D \in Nat /\ d <= D /\ P \in Nat /\ 10 * P * D <= 3 * W
        /\ v = h \div d
    BY <1>1, <1>2, <1>12, <1>15
  <2> HIDE DEF d, D, P, W
  <2>2. v \in Nat /\ h < d * v + d
    BY <1>13, <2>1, DivisionBounds, DivisionNat
  <2>3. P * d <= P * D /\ 10 * P * D = 10 * (P * D) /\ P * d = d * P /\ d * v + d = d * (v + 1)
    BY <2>1, <2>2
  <2>4. d * P \in Nat /\ P * D \in Nat
    BY <2>1
  <2>5. d * P <= h
    BY <1>1, <1>13, <1>14, <2>1, <2>3, <2>4
  <2>6. d * P < d * (v + 1)
    <3>1. d * v + d = d * (v + 1) /\ d * v \in Nat
      BY <2>1, <2>2
    <3> DEFINE E == d * v
               F == d * P
               G == d * (v + 1)
    <3>2. F <= h /\ h < E + d /\ E + d = G /\ E \in Nat /\ F \in Nat /\ d \in Nat
      BY <2>1, <2>2, <2>4, <2>5, <3>1
    <3> HIDE DEF E, F, G
    <3>3. F < G
      BY <1>13, <3>2
    <3> QED BY <3>3 DEF F, G
  <2>7. P <= v
    BY <2>1, <2>2, <2>6, Cancel
  <2> QED BY <2>2, <2>7 DEF P
<1>17. AtLeast(v - PAD_62, 0) >= 1
  BY <1>1, <1>16 DEF AtLeast
<1> QED BY <1>1, <1>7, <1>17
-----------------------------------------------------------------------------
(***************************************************************************)
(* Which panics a quote can end in.                                        *)
(***************************************************************************)
IsQuote(q) ==
  /\ q.balance_in \in U128 /\ q.weight_in \in U128
  /\ q.balance_out \in U128 /\ q.weight_out \in U128 /\ q.amount \in U128

\* Inside the envelope of an exact-in trade there is none.
LEMMA OutGivenInPanics ==
  ASSUME NEW q, IsQuote(q)
  PROVE  OutGivenIn(q, q.amount).panic =
           IF OutEnvelope(q.balance_in, q.weight_in, q.balance_out, q.weight_out, q.amount)
           THEN "none" ELSE "envelope"
<1> DEFINE fits == OutEnvelope(q.balance_in, q.weight_in, q.balance_out, q.weight_out,
                               q.amount)
           z == OutGivenIn(q, q.amount)
<1>1. CASE fits
  <2>1. ~Panicked(z)
    BY <1>1, ExactInNeverPanics DEF IsQuote, OutGivenIn
  <2> QED BY <1>1, <2>1 DEF Panicked
<1>2. CASE ~fits
  <2>1. z = Panic("envelope")
    BY <1>2 DEF OutGivenIn, calc_out_given_in
  <2> QED BY <1>2, <2>1 DEF Panic
<1> QED BY <1>1, <1>2

\* An exact-out trade inside its envelope is priced: the base is in the
\* domain and the power above the pad, so the payment is all that is left.
LEMMA InGivenOutPrices ==
  ASSUME NEW q, IsQuote(q), q.amount # 0,
         InEnvelope(q.balance_in, q.weight_in, q.balance_out, q.weight_out, q.amount)
  PROVE  LET base == ratio_down(q.balance_out - q.amount, q.balance_out)
             exponent == InExponent(q.weight_in, q.weight_out)
             p62 == Returns("pow_62_down", base, exponent)
         IN  /\ base \in 1 .. ONE - 1 /\ base >= LeastBase
             /\ exponent \in 1 .. MAX_RATIO * ONE
             /\ p62 \in 1 .. ONE_62 - 1
             /\ InGivenOut(q, q.amount)
                  = mul_shr_up(q.balance_in, PaymentRatio(p62), LN_SCALE)
<1> DEFINE bi == q.balance_in
           wi == q.weight_in
           bo == q.balance_out
           wo == q.weight_out
           a == q.amount
           base == ratio_down(bo - a, bo)
           exponent == InExponent(wi, wo)
           p62 == Returns("pow_62_down", base, exponent)
           ok == InDomain("pow_62_down", base, exponent)
           fits == InEnvelope(bi, wi, bo, wo, a)
<1>1. /\ bi \in U128 /\ wi \in U128 /\ bo \in U128 /\ wo \in U128 /\ a \in U128 /\ a # 0
      /\ fits
  BY DEF IsQuote
<1>2. InGivenOut(q, a)
        = IF ~fits THEN Panic("envelope")
          ELSE IF a = 0 THEN Value(0)
          ELSE IF ~ok THEN Panic("domain")
          ELSE IF p62 <= 0 THEN Panic("underflow")
          ELSE mul_shr_up(bi, PaymentRatio(p62), LN_SCALE)
  BY DEF InGivenOut, calc_in_given_out
<1>3. ok
  BY <1>1, UnderflowAssumption, ExactOutMeetsDomain
<1>4. /\ bo >= 1 /\ a <= DrainCap(bo) /\ wi >= 1 /\ wo >= 1
      /\ wi <= MAX_RATIO * wo /\ wo <= MAX_RATIO * wi
  BY <1>1 DEF InEnvelope, check_weights
<1>5. a \in Nat
  BY <1>1, PoolScales DEF U128
<1>6. base \in Nat /\ base >= LeastBase
  BY <1>1, <1>4, <1>5, BaseAtLeast
<1>7. exponent \in 1 .. MAX_RATIO * ONE
  BY <1>1, <1>4, ExponentsInDomain DEF InExponent
<1> HIDE DEF base, exponent
<1>8. base \in 1 .. ONE - 1
  <2>1. base > 0 /\ base < ONE
    BY <1>3 DEF InDomain, Ops62, ExpOps
  <2>2. ONE \in Nat
    BY PoolScales
  <2> QED BY <1>6, <2>1, <2>2
<1>9. p62 \in 1 .. ONE_62 - 1
  BY <1>6, <1>7, <1>8, PowAbovePad
<1> HIDE DEF ok, fits, p62
<1>10. ~(p62 <= 0)
  <2>1. ONE_62 \in Nat
    BY PoolScales
  <2> QED BY <1>9, <2>1
<1>11. InGivenOut(q, a) = mul_shr_up(bi, PaymentRatio(p62), LN_SCALE)
  BY <1>1, <1>2, <1>3, <1>10
<1> QED BY <1>6, <1>7, <1>8, <1>9, <1>11 DEF base, exponent, p62

LEMMA InGivenOutPanics ==
  ASSUME NEW q, IsQuote(q)
  PROVE  InGivenOut(q, q.amount).panic \in
           IF InEnvelope(q.balance_in, q.weight_in, q.balance_out, q.weight_out, q.amount)
           THEN {"none", "unrepresentable", "overflow"} ELSE {"envelope"}
<1> DEFINE fits == InEnvelope(q.balance_in, q.weight_in, q.balance_out, q.weight_out,
                              q.amount)
           z == InGivenOut(q, q.amount)
<1>1. CASE ~fits
  <2>1. z = Panic("envelope")
    BY <1>1 DEF InGivenOut, calc_in_given_out
  <2> QED BY <1>1, <2>1 DEF Panic
<1>2. CASE fits /\ q.amount = 0
  <2>1. z = Value(0)
    BY <1>2 DEF InGivenOut, calc_in_given_out
  <2> QED BY <1>2, <2>1 DEF Value
<1>3. CASE fits /\ q.amount # 0
  <2>1. PICK p : z = mul_shr_up(q.balance_in, PaymentRatio(p), LN_SCALE)
    <3> HIDE DEF z
    <3> QED BY <1>3, InGivenOutPrices DEF z
  <2>2. ASSUME NEW x, NEW y, NEW s
        PROVE  mul_shr_up(x, y, s).panic \in {"none", "unrepresentable", "overflow"}
    <3>1. Panic("unrepresentable").panic = "unrepresentable"
      BY DEF Panic
    <3>2. ASSUME NEW u, NEW v PROVE Add(u, v).panic \in {"none", "overflow"}
      BY DEF Add, Panic, Value
    <3> QED BY <3>1, <3>2, Zenon DEF mul_shr_up
  <2>3. z.panic \in {"none", "unrepresentable", "overflow"}
    <3> HIDE DEF z
    <3> QED BY <2>1, <2>2
  <2> HIDE DEF z
  <2>4. z.panic \in IF fits THEN {"none", "unrepresentable", "overflow"} ELSE {"envelope"}
    <3> HIDE DEF fits
    <3> QED BY <1>3, <2>3
  <2> QED BY <2>4 DEF z
<1> QED BY <1>1, <1>2, <1>3

(***************************************************************************)
(* The invariant: what is pending or known is a well-formed request, and   *)
(* an outcome is what the kernel answers to the request of its session.    *)
(***************************************************************************)
Answered ==
  \/ out = Pending
  \/ quote.fn = "out_given_in" /\ out = OutGivenIn(quote, quote.amount)
  \/ quote.fn = "in_given_out" /\ out = InGivenOut(quote, quote.amount)

QuoteInv ==
  /\ IsQuote(quote) /\ Answered
  /\ caller = "none" => quote.fn = "none" /\ out = Pending
  /\ caller = "fuzz" => \E t \in Trades : MaxAmount(t) # 0 /\ quote = Shaped(t)

\* A shaped trade is a request.
LEMMA ShapedIsQuote ==
  ASSUME NEW t \in Trades, MaxAmount(t) # 0
  PROVE  /\ IsQuote(Shaped(t))
         /\ Shaped(t).fn \in {"out_given_in", "in_given_out"}
         /\ Shaped(t).balance_in = Balance(t.balance_in) /\ Shaped(t).balance_in >= 1
         /\ Shaped(t).balance_out = Balance(t.balance_out) /\ Shaped(t).balance_out >= 1
         /\ Shaped(t).weight_in = Weight(t.weight_in)
         /\ Shaped(t).weight_out = Weight(t.weight_out)
         /\ Weight(t.weight_in) \in 1 .. MAX_RATIO /\ Weight(t.weight_out) \in 1 .. MAX_RATIO
         /\ Shaped(t).amount \in 1 .. MaxAmount(t)
<1> DEFINE q == Shaped(t)
           bi == Balance(t.balance_in)
           bo == Balance(t.balance_out)
           wi == Weight(t.weight_in)
           wo == Weight(t.weight_out)
           m == MaxAmount(t)
           a == t.amount
<1>1. /\ t.balance_in \in U128 /\ t.balance_out \in U128 /\ a \in U128
      /\ t.weight_in \in 0 .. 255 /\ t.weight_out \in 0 .. 255
  BY QuotesAssumption
<1>2. /\ WORD \in Nat /\ WORD >= 2 /\ MAX_RATIO \in Nat /\ MAX_RATIO > 0 /\ MAX_RATIO < WORD
  <2>1. ONE \in Nat /\ ONE >= 2 /\ ONE_62 \in U128 /\ ONE * GUARD = ONE_62
        /\ GUARD \in Nat /\ GUARD >= 4 /\ WORD \in Nat
    BY PoolScales, ScaleFacts
  <2>2. ONE * 1 <= ONE * GUARD
    BY <2>1
  <2> QED BY <2>1, <2>2, RatioAssumption, ScaleAssumption DEF U128
<1>3. bi \in U128 /\ bi >= 1 /\ bo \in U128 /\ bo >= 1
  BY <1>1, <1>2 DEF Balance, AtLeast, U128
<1>4. wi \in 1 .. MAX_RATIO /\ wo \in 1 .. MAX_RATIO
  <2>1. ASSUME NEW r \in 0 .. 255 PROVE Weight(r) \in 1 .. MAX_RATIO
    <3>1. r % MAX_RATIO \in 0 .. MAX_RATIO - 1
      BY <1>2, DivisionBounds
    <3> QED BY <1>2, <3>1 DEF Weight
  <2> QED BY <1>1, <2>1
<1>5. q = [fn |-> IF t.exact_out THEN "in_given_out" ELSE "out_given_in",
           balance_in |-> bi, weight_in |-> wi, balance_out |-> bo, weight_out |-> wo,
           amount |-> 1 + (a % m)]
  BY DEF Shaped
<1>6. m \in Nat /\ m <= WORD - 1
  <2>1. m = IF t.exact_out THEN AtMost(DrainCap(bo), cap_fit(bo, wi, wo))
            ELSE WORD - 1 - bi
    BY DEF MaxAmount
  <2> HIDE DEF bi, bo, wi, wo, m
  <2>2. bi \in Nat /\ bo \in Nat /\ WORD - 1 - bi \in Nat /\ WORD - 1 - bi <= WORD - 1
    BY <1>2, <1>3 DEF U128
  <2>3. DrainCap(bo) \in 0 .. bo - 1
    BY <1>3, <2>2, DrainLeavesSome
  <2>4. cap_fit(bo, wi, wo) \in Nat
    <3> DEFINE x == bo \div (4 * wo)
    <3>1. 4 * wo \in Nat /\ 4 * wo > 0 /\ wi \in Nat
      BY <1>2, <1>4
    <3>2. x \in Nat
      BY <2>2, <3>1, DivisionNat
    <3> HIDE DEF x
    <3>3. x * wi \in Nat
      BY <3>1, <3>2
    <3>4. cap_fit(bo, wi, wo) = AtMost(x * wi, WORD - 1)
      BY DEF cap_fit, x
    <3> QED BY <1>2, <3>3, <3>4 DEF AtMost
  <2>5. AtMost(DrainCap(bo), cap_fit(bo, wi, wo)) \in 0 .. bo - 1
    BY <1>2, <2>2, <2>3, <2>4 DEF AtMost
  <2>6. bo <= WORD - 1
    BY <1>2, <1>3 DEF U128
  <2> QED BY <1>2, <2>1, <2>2, <2>5, <2>6
<1>7. 1 + (a % m) \in 1 .. m /\ 1 + (a % m) \in U128
  <2>1. a \in Nat /\ m > 0
    BY <1>1, <1>6 DEF U128
  <2> HIDE DEF a, m
  <2>2. a % m \in 0 .. m - 1
    BY <1>6, <2>1, DivisionBounds
  <2> QED BY <1>2, <1>6, <2>2 DEF U128
<1>8. wi \in U128 /\ wo \in U128
  BY <1>2, <1>4 DEF U128
<1> HIDE DEF bi, bo, wi, wo, m, q
<1>9. /\ q.balance_in = bi /\ q.balance_out = bo /\ q.weight_in = wi /\ q.weight_out = wo
      /\ q.amount = 1 + (a % m) /\ q.fn \in {"out_given_in", "in_given_out"}
  BY <1>5
<1>10. IsQuote(q)
  BY <1>3, <1>7, <1>8, <1>9 DEF IsQuote
<1> QED BY <1>3, <1>4, <1>7, <1>9, <1>10 DEF bi, bo, wi, wo, m, q

LEMMA QuoteInvInit ==
  ASSUME SwapInit
  PROVE  QuoteInv
<1>1. 1 \in U128 /\ 0 \in U128
  <2>1. WORD \in Nat /\ ONE_62 \in U128 /\ ONE_62 \in Nat /\ ONE_62 >= 8
    BY PoolScales
  <2> QED BY <2>1 DEF U128
<1> QED BY <1>1 DEF SwapInit, QuoteInv, IsQuote, Answered, NoQuote

LEMMA QuoteInvNext ==
  ASSUME QuoteInv, [SwapNext]_swap_vars
  PROVE  QuoteInv'
<1>1. CASE Request
  <2>1. quote' \in Quotes /\ caller' = "any" /\ out' = Pending
    BY <1>1 DEF Request, QuoteInv
  <2>2. IsQuote(quote')
    BY <2>1, QuotesAssumption DEF IsQuote
  <2> QED BY <2>1, <2>2 DEF QuoteInv, Answered
<1>2. CASE Fuzz
  <2>1. PICK t \in Trades : MaxAmount(t) # 0 /\ quote' = Shaped(t)
    BY <1>2 DEF Fuzz
  <2>2. caller' = "fuzz" /\ out' = Pending
    BY <1>2 DEF Fuzz, QuoteInv
  <2>3. IsQuote(quote')
    BY <2>1, ShapedIsQuote
  <2> QED BY <2>1, <2>2, <2>3 DEF QuoteInv, Answered
<1>3. CASE PriceOut
  <2>1. /\ quote.fn = "out_given_in" /\ quote' = quote /\ caller' = caller
        /\ out' = OutGivenIn(quote', quote'.amount)
    BY <1>3 DEF PriceOut
  <2> QED BY <2>1 DEF QuoteInv, Answered
<1>4. CASE PriceIn
  <2>1. /\ quote.fn = "in_given_out" /\ quote' = quote /\ caller' = caller
        /\ out' = InGivenOut(quote', quote'.amount)
    BY <1>4 DEF PriceIn
  <2> QED BY <2>1 DEF QuoteInv, Answered
<1>5. CASE UNCHANGED swap_vars
  BY <1>5 DEF swap_vars, QuoteInv, Answered
<1> QED BY <1>1, <1>2, <1>3, <1>4, <1>5 DEF SwapNext

LEMMA QuoteInvariant == SwapSpec => []QuoteInv
<1>1. SwapInit => QuoteInv
  BY QuoteInvInit
<1>2. QuoteInv /\ [SwapNext]_swap_vars => QuoteInv'
  BY QuoteInvNext
<1> QED BY <1>1, <1>2, PTL DEF SwapSpec

(***************************************************************************)
(* Inside the envelope the only panic left is a payment past the word:     *)
(* weighted.rs's assert that the power does not underflow, and pow's       *)
(* domain asserts, never fire, whatever the reserves, weights and amounts. *)
(***************************************************************************)
THEOREM PanicsAreEnvelope == SwapSpec => []OnlyPaymentPanics
<1>1. QuoteInv => OnlyPaymentPanics
  <2> SUFFICES ASSUME QuoteInv PROVE OnlyPaymentPanics
    OBVIOUS
  <2>1. IsQuote(quote) /\ Answered
    BY DEF QuoteInv
  <2>2. CASE out = Pending
    BY <2>2 DEF Pending, Panic, OnlyPaymentPanics
  <2>3. CASE quote.fn = "out_given_in" /\ out = OutGivenIn(quote, quote.amount)
    <3>1. out.panic = IF InsideEnvelope THEN "none" ELSE "envelope"
      BY <2>1, <2>3, OutGivenInPanics DEF InsideEnvelope
    <3> QED BY <3>1 DEF OnlyPaymentPanics
  <2>4. CASE quote.fn = "in_given_out" /\ out = InGivenOut(quote, quote.amount)
    <3>1. out.panic \in IF InsideEnvelope THEN {"none", "unrepresentable", "overflow"}
                        ELSE {"envelope"}
      BY <2>1, <2>4, InGivenOutPanics DEF InsideEnvelope
    <3> QED BY <2>4, <3>1 DEF OnlyPaymentPanics
  <2> QED BY <2>1, <2>2, <2>3, <2>4 DEF Answered
<1> QED BY <1>1, QuoteInvariant, PTL
-----------------------------------------------------------------------------
(***************************************************************************)
(* The ratios, on every quote.                                             *)
(***************************************************************************)
LEMMA ProductCompare ==
  ASSUME NEW a \in Nat, NEW b \in Nat, NEW c \in Nat, NEW d \in Nat
  PROVE  NotAbove(Times(Big(a), Big(b)), Times(Big(c), Big(d))) <=> a * b <= c * d
<1>1. /\ Denotes(Big(a), a) /\ Denotes(Big(b), b) /\ Denotes(Big(c), c) /\ Denotes(Big(d), d)
  BY BigDenotes
<1>2. Denotes(Times(Big(a), Big(b)), a * b) /\ Denotes(Times(Big(c), Big(d)), c * d)
  BY <1>1, TimesDenotes
<1> QED BY <1>2, NotAboveDenotes

\* The comparisons of RatiosBiased, in numbers.
LEMMA RatioComparisons ==
  ASSUME NEW q \in Int, NEW num \in Nat, NEW den \in Nat
  PROVE  /\ q * den <= num * ONE => RatioAtMost(q, num, den)
         /\ q >= 0 /\ num * ONE <= q * den => RatioAtLeast(q, num, den)
<1>1. ONE \in Nat
  BY PoolScales
<1>2. ASSUME q * den <= num * ONE PROVE RatioAtMost(q, num, den)
  <2>1. CASE q < 0
    BY <2>1 DEF RatioAtMost
  <2>2. CASE q \in Nat
    <3>1. NotAbove(Times(Big(q), Big(den)), Times(Big(num), Big(ONE)))
      BY <1>1, <1>2, <2>2, ProductCompare
    <3> QED BY <3>1 DEF RatioAtMost
  <2> QED BY <2>1, <2>2
<1>3. ASSUME q >= 0, num * ONE <= q * den PROVE RatioAtLeast(q, num, den)
  <2>1. q \in Nat
    BY <1>3
  <2>2. NotAbove(Times(Big(num), Big(ONE)), Times(Big(q), Big(den)))
    BY <1>1, <1>3, <2>1, ProductCompare
  <2> QED BY <2>2 DEF RatioAtLeast
<1> QED BY <1>2, <1>3

(***************************************************************************)
(* The exact-in ratio never understates, the exact-out ratio never         *)
(* overstates, and neither is two ulps off: ratio_up and ratio_down as     *)
(* their callers use them, at every quote inside the envelope.             *)
(***************************************************************************)
THEOREM RatiosFavourPool == SwapSpec => []RatiosBiased
<1>1. QuoteInv => RatiosBiased
  <2> SUFFICES ASSUME QuoteInv PROVE RatiosBiased
    OBVIOUS
  <2> DEFINE bi == quote.balance_in
             bo == quote.balance_out
             a == quote.amount
  <2>1. bi \in Nat /\ bo \in U128 /\ a \in Nat /\ bo \in Nat
    BY DEF QuoteInv, IsQuote, U128
  <2>2. ASSUME quote.fn = "out_given_in", InsideEnvelope
        PROVE  LET total == bi + a
                   q == ratio_up(bi, total)
               IN  RatioAtLeast(q, bi, total) /\ RatioAtMost(q - 2, bi, total)
    <3> DEFINE total == bi + a
               q == ratio_up(bi, total)
    <3>1. bi >= 1 /\ total \in U128
      BY <2>2 DEF InsideEnvelope, OutEnvelope
    <3> HIDE DEF bi, a
    <3>2. total \in Nat /\ total >= 1 /\ bi <= total
      BY <2>1, <3>1
    <3> HIDE DEF total
    <3>3. q \in Nat
      BY <2>1, <3>1, <3>2, RatiosAreNumbers
    <3>4. bi * ONE <= q * total /\ (q - 2) * total <= bi * ONE
      BY <2>1, <3>1, <3>2, RatioUpBiased
    <3> HIDE DEF q
    <3>5. q - 2 \in Int /\ q \in Int /\ q >= 0
      BY <3>3
    <3>6. RatioAtLeast(q, bi, total)
      BY <2>1, <3>2, <3>4, <3>5, RatioComparisons
    <3>7. RatioAtMost(q - 2, bi, total)
      BY <2>1, <3>2, <3>4, <3>5, RatioComparisons
    <3> QED BY <3>6, <3>7 DEF q, total
  <2>3. ASSUME quote.fn = "in_given_out", InsideEnvelope
        PROVE  LET rest == bo - a
                   q == ratio_down(rest, bo)
               IN  RatioAtMost(q, rest, bo) /\ RatioAtLeast(q + 2, rest, bo)
    <3> DEFINE rest == bo - a
               q == ratio_down(rest, bo)
    <3>1. bo >= 1 /\ a <= DrainCap(bo)
      BY <2>3 DEF InsideEnvelope, InEnvelope
    <3> HIDE DEF bo, a
    <3>2. DrainCap(bo) \in 0 .. bo - 1
      BY <2>1, <3>1, DrainLeavesSome
    <3>3. rest \in Nat /\ rest <= bo
      BY <2>1, <3>1, <3>2
    <3> HIDE DEF rest
    <3>4. q \in Nat /\ q * bo <= rest * ONE /\ rest * ONE <= (q + 2) * bo
      BY <2>1, <3>1, <3>3, RatioDownBiased
    <3> HIDE DEF q
    <3>5. q \in Int /\ q + 2 \in Int /\ q + 2 >= 0
      BY <3>4
    <3>6. RatioAtMost(q, rest, bo)
      BY <2>1, <3>3, <3>4, <3>5, RatioComparisons
    <3>7. RatioAtLeast(q + 2, rest, bo)
      BY <2>1, <3>3, <3>4, <3>5, RatioComparisons
    <3> QED BY <3>6, <3>7 DEF q, rest
  <2> QED BY <2>2, <2>3 DEF RatiosBiased
<1> QED BY <1>1, QuoteInvariant, PTL
-----------------------------------------------------------------------------
(***************************************************************************)
(* The power of a trade whose payment fits.                                *)
(***************************************************************************)
\* Between 4/3 and 3/2 the rational bound on -ln is below its chord.
LEMMA ChordBound ==
  ASSUME NEW m \in Nat, NEW W \in Nat, 3 * m >= 4 * W, 2 * m <= 3 * W
  PROVE  63 * (m * m) + 144 * (W * W) <= 193 * (m * W)
<1> DEFINE a == 3 * m - 4 * W
           b == 3 * W - 2 * m
<1>1. a \in Nat /\ b \in Nat /\ a * b \in Nat
  <2>1. a \in Nat /\ b \in Nat
    OBVIOUS
  <2> HIDE DEF a, b
  <2> QED BY <2>1
<1>2. a * b = 17 * (m * W) - 6 * (m * m) - 12 * (W * W)
  OBVIOUS
<1>3. a * W = 3 * (m * W) - 4 * (W * W) /\ a * W \in Nat
  <2>1. a * W = 3 * (m * W) - 4 * (W * W)
    OBVIOUS
  <2> HIDE DEF a
  <2> QED BY <1>1, <2>1
<1> DEFINE x == m * m
           y == m * W
           z == W * W
<1>4. x \in Nat /\ y \in Nat /\ z \in Nat
  OBVIOUS
<1>5. 17 * y - 6 * x - 12 * z >= 0 /\ 3 * y - 4 * z >= 0
  BY <1>1, <1>2, <1>3
<1> HIDE DEF x, y, z
<1>6. 63 * x + 144 * z <= 193 * y
  BY <1>4, <1>5
<1> QED BY <1>6 DEF x, y, z

\* The atanh argument of a mantissa below 1 and of one above, as divisions.
LEMMA AtanhBelowOne ==
  ASSUME NEW m \in Nat, m <= ONE_62, NEW f, f = ONE_62 - m
  PROVE  LET z == (f * ONE_62) \div (m + ONE_62)
         IN  /\ AtanhArgument(m) = -z /\ z \in Nat
             /\ (m + ONE_62) * z <= f * ONE_62
<1> DEFINE W == ONE_62
           a == f * W
           b == m + W
<1>1. W \in Nat /\ W >= 8
  BY ScaleFacts
<1>2. a \in Nat /\ b \in Nat /\ b > 0 /\ (m - W) * W = -a
  <2>1. f \in Nat /\ m - W = -f
    BY <1>1
  <2> HIDE DEF W
  <2>2. (-f) * W = -(f * W) /\ f * W \in Nat
    BY <1>1, <2>1
  <2> QED BY <1>1, <2>1, <2>2
<1>3. AtanhArgument(m) = TruncDiv(-a, b)
  BY <1>2 DEF AtanhArgument
<1> HIDE DEF a, b
<1>4. TruncDiv(-a, b) = -(a \div b)
  <2>1. CASE a = 0
    <3>1. a \div b = 0
      BY <1>2, <2>1, DivisionUnique
    <3> QED BY <2>1, <3>1 DEF TruncDiv
  <2>2. CASE a > 0
    BY <1>2, <2>2 DEF TruncDiv
  <2> QED BY <1>2, <2>1, <2>2
<1>5. a \div b \in Nat /\ b * (a \div b) <= a
  BY <1>2, DivisionBounds, DivisionNat
<1> QED BY <1>3, <1>4, <1>5 DEF a, b

LEMMA AtanhAboveOne ==
  ASSUME NEW m \in Nat, m >= ONE_62
  PROVE  LET t == AtanhArgument(m)
         IN  /\ t = ((m - ONE_62) * ONE_62) \div (m + ONE_62) /\ t \in Nat
             /\ (m - ONE_62) * ONE_62 < (m + ONE_62) * t + (m + ONE_62)
<1> DEFINE W == ONE_62
           a == (m - W) * W
           b == m + W
<1>1. W \in Nat /\ W >= 8
  BY ScaleFacts
<1>2. a \in Nat /\ b \in Nat /\ b > 0
  <2>1. m - W \in Nat
    BY <1>1
  <2> HIDE DEF W
  <2> QED BY <1>1, <2>1
<1>3. AtanhArgument(m) = a \div b
  BY <1>2 DEF AtanhArgument, TruncDiv
<1> HIDE DEF a, b
<1>4. a \div b \in Nat /\ a < b * (a \div b) + b
  BY <1>2, DivisionBounds, DivisionNat
<1> QED BY <1>3, <1>4 DEF a, b

\* -ln of a base the cap allows is at most 63/50 of its complement, and the
\* two units its truncations may cost.
LEMMA LnBelowComplement ==
  ASSUME NEW x \in 1 .. ONE - 1, x >= LeastBase
  PROVE  /\ ln_inner[x] \in Nat /\ (ONE - x) * GUARD \in Nat
         /\ 50 * ln_inner[x] <= 63 * ((ONE - x) * GUARD) + 100
<1> DEFINE W == ONE_62
           g == x * GUARD
           f == (ONE - x) * GUARD
           n == ln_inner[x]
<1>1. /\ W \in Nat /\ W >= 8 /\ ONE \in Nat /\ ONE >= 2 /\ GUARD \in Nat /\ GUARD >= 4
      /\ ONE * GUARD = W /\ SQRT2_HALF_62 \in Nat /\ 3 * SQRT2_HALF_62 >= 2 * W
      /\ LN2_62 \in Nat /\ 10 * LN2_62 <= 7 * W /\ 3 * LeastBase >= 2 * ONE /\ LeastBase \in Int
  <2>1. CeilDiv(7 * ONE, 10) \in Nat
    <3>1. ONE \in Nat
      BY ScaleFacts
    <3> QED BY <3>1, TenthsUp
  <2>2. LeastBase \in Int
    BY <2>1 DEF LeastBase
  <2> QED BY <2>2, ScaleFacts, LogarithmAssumption, FitAssumption
<1>2. n \in Nat
  <2>1. x \in 1 .. ONE
    BY <1>1
  <2> QED BY <2>1, LnInnerInRange DEF LnRange
<1>3. x \in Nat /\ ONE - x \in Nat /\ 3 * x >= 2 * ONE
  BY <1>1
<1>4. g \in Nat /\ f \in Nat /\ f = W - g /\ 3 * g >= 2 * W
  <2>1. g \in Nat /\ f \in Nat /\ g + f = W
    <3>1. x * GUARD + (ONE - x) * GUARD = ONE * GUARD
      BY <1>1, <1>3
    <3> QED BY <1>1, <1>3, <3>1
  <2>2. (3 * x) * GUARD >= (2 * ONE) * GUARD /\ (3 * x) * GUARD = 3 * (x * GUARD)
        /\ (2 * ONE) * GUARD = 2 * (ONE * GUARD)
    BY <1>1, <1>3
  <2> HIDE DEF W
  <2> QED BY <1>1, <2>1, <2>2
<1>5. PICK p \in Nat :
        /\ p >= ONE_62 /\ 20 * p <= 21 * ONE_62
        /\ \/ /\ g >= SQRT2_HALF_62 /\ g <= ONE_62
              /\ n = -LnMantissa(AtanhArgument(g), p)
           \/ /\ 2 * g >= ONE_62 /\ 2 * (2 * g) <= 3 * ONE_62
              /\ n = LN2_62 - LnMantissa(AtanhArgument(2 * g), p)
  BY LnOneDoubling
<1> HIDE DEF g, f, n
<1>6. CASE /\ g >= SQRT2_HALF_62 /\ g <= ONE_62
           /\ n = -LnMantissa(AtanhArgument(g), p)
  <2> DEFINE z == (f * W) \div (g + W)
             c == CeilDiv(21 * z, 10)
  <2>1. AtanhArgument(g) = -z /\ z \in Nat /\ (g + W) * z <= f * W
    BY <1>1, <1>4, <1>6, AtanhBelowOne
  <2> HIDE DEF z
  <2>2. c \in Nat /\ 10 * c >= 21 * z /\ 10 * c < 21 * z + 10
    <3> DEFINE a == 21 * z
    <3>1. a \in Nat
      BY <2>1
    <3> HIDE DEF a
    <3>2. CeilDiv(a, 10) \in Nat /\ 10 * CeilDiv(a, 10) >= a /\ 10 * CeilDiv(a, 10) < a + 10
      BY <3>1, TenthsUp
    <3> QED BY <3>2 DEF a
  <2> HIDE DEF c
  <2>3. n <= c
    BY <1>5, <1>6, <2>1, <2>2, LnBelowOne
  <2>4. 5 * z <= 3 * f
    <3>1. 3 * (g + W) >= 5 * W /\ g + W \in Nat
      BY <1>1, <1>4, <1>6
    <3>2. (3 * (g + W)) * z >= (5 * W) * z /\ (3 * (g + W)) * z = 3 * ((g + W) * z)
          /\ (5 * W) * z = W * (5 * z) /\ (g + W) * z \in Nat /\ f * W \in Nat
          /\ 3 * (f * W) = W * (3 * f) /\ W * (5 * z) \in Nat
      BY <1>1, <1>4, <2>1, <3>1
    <3> DEFINE A == (g + W) * z
               B == f * W
               C == W * (5 * z)
               D == W * (3 * f)
    <3>3. A <= B /\ C <= 3 * A /\ 3 * B = D /\ A \in Nat /\ B \in Nat /\ C \in Nat
      BY <2>1, <3>2
    <3> HIDE DEF A, B, C, D
    <3>4. C <= D
      BY <3>3
    <3>5. W * (5 * z) < W * (3 * f + 1)
      BY <1>1, <1>4, <2>1, <3>4 DEF C, D
    <3> QED BY <1>1, <1>4, <2>1, <3>5, Cancel
  <2> QED BY <1>2, <1>4, <2>1, <2>2, <2>3, <2>4 DEF f, n
<1>7. CASE /\ 2 * g >= ONE_62 /\ 2 * (2 * g) <= 3 * ONE_62
           /\ n = LN2_62 - LnMantissa(AtanhArgument(2 * g), p)
  <2> DEFINE m == 2 * g
             t == AtanhArgument(m)
             d == m + W
  <2>1. m \in Nat /\ m >= W /\ 2 * m <= 3 * W /\ 3 * m >= 4 * W /\ d \in Nat /\ d > 0
    BY <1>1, <1>4, <1>7
  <2>2. n = LN2_62 - LnMantissa(t, p) /\ 2 * f = 2 * W - m
    <3>1. n = LN2_62 - LnMantissa(t, p)
      BY <1>7
    <3>2. 2 * f = 2 * W - m
      BY <1>1, <1>4
    <3> HIDE DEF m, W, t
    <3> QED BY <3>1, <3>2
  <2> HIDE DEF m
  <2>3. t \in Nat /\ (m - W) * W < d * t + d
    BY <2>1, AtanhAboveOne
  <2> HIDE DEF t
  <2>4. LnMantissa(t, p) \in Int /\ LnMantissa(t, p) >= 2 * t
    BY <1>5, <2>3, LnAboveOne
  <2>5. n <= LN2_62 - 2 * t
    BY <1>1, <2>2, <2>3, <2>4
  <2>7. 100 * n + 200 * t <= 70 * W
    BY <1>1, <1>2, <2>3, <2>5
  <2>8. d * (100 * n) + 200 * (d * t) <= 70 * (d * W)
    <3>1. d * (100 * n + 200 * t) <= d * (70 * W)
      BY <1>1, <1>2, <2>1, <2>3, <2>7
    <3>2. d * (100 * n + 200 * t) = d * (100 * n) + 200 * (d * t) /\ d * (70 * W) = 70 * (d * W)
      BY <1>1, <1>2, <2>1, <2>3
    <3> QED BY <3>1, <3>2
  <2>9. 70 * (d * W) - 200 * ((m - W) * W) <= 63 * (d * (2 * W - m))
    <3>1. 63 * (m * m) + 144 * (W * W) <= 193 * (m * W)
      BY <1>1, <2>1, ChordBound
    <3>2. d * W = m * W + W * W /\ (m - W) * W = m * W - W * W
          /\ d * (2 * W - m) = m * W + 2 * (W * W) - m * m
      BY <1>1, <2>1
    <3> DEFINE X == m * m
               Y == m * W
               Z == W * W
    <3>3. X \in Nat /\ Y \in Nat /\ Z \in Nat
      BY <1>1, <2>1
    <3>4. 63 * X + 144 * Z <= 193 * Y /\ d * W = Y + Z /\ (m - W) * W = Y - Z
          /\ d * (2 * W - m) = Y + 2 * Z - X
      BY <3>1, <3>2
    <3> HIDE DEF X, Y, Z, d, W
    <3> QED BY <3>3, <3>4
  <2>10. d * (100 * n) <= d * (126 * f + 200)
    <3> DEFINE N == d * (100 * n)
               T == d * t
               A == (m - W) * W
               B == d * W
               F == d * (2 * W - m)
    <3>1. N + 200 * T <= 70 * B /\ 70 * B - 200 * A <= 63 * F /\ A < T + d
      BY <2>3, <2>8, <2>9
    <3>2. N \in Int /\ T \in Int /\ A \in Int /\ B \in Int /\ F \in Int /\ d \in Int
      BY <1>1, <1>2, <2>1, <2>3
    <3>3. F = 2 * (d * f) /\ d * (126 * f + 200) = 126 * (d * f) + 200 * d /\ d * f \in Int
      <4>1. F = d * (2 * f)
        BY <2>2
      <4> HIDE DEF F, d
      <4> QED BY <4>1, <2>1, <1>4
    <3> HIDE DEF N, T, A, B, F
    <3>4. N <= 63 * F + 200 * d
      BY <3>1, <3>2
    <3> HIDE DEF d
    <3>5. N <= d * (126 * f + 200)
      BY <3>2, <3>3, <3>4
    <3> QED BY <3>5 DEF N
  <2> HIDE DEF d
  <2>11. 100 * n <= 126 * f + 200
    <3>1. d * (100 * n) < d * ((126 * f + 200) + 1)
      BY <1>2, <1>4, <2>1, <2>10
    <3> QED BY <1>2, <1>4, <2>1, <3>1, Cancel
  <2> QED BY <1>2, <1>4, <2>11 DEF f, n
<1> QED BY <1>5, <1>6, <1>7

LEMMA FitArgNat ==
  /\ FitArg \in Nat
  /\ \A z \in Nat : 200 * z <= 63 * (GUARD * (ONE + 2 + 8 * MAX_RATIO)) + 400 * MAX_RATIO
       => z <= FitArg
<1> DEFINE a == 63 * GUARD * (ONE + 2 + 8 * MAX_RATIO)
           q == a \div 200
<1>1. ONE \in Nat /\ GUARD \in Nat /\ MAX_RATIO \in Nat
  BY ScaleFacts, ScaleAssumption
<1>2. a \in Nat /\ a = 63 * (GUARD * (ONE + 2 + 8 * MAX_RATIO))
  <2> DEFINE b == ONE + 2 + 8 * MAX_RATIO
  <2>1. b \in Nat
    BY <1>1
  <2> HIDE DEF b
  <2>2. 63 * GUARD * b \in Nat /\ 63 * GUARD * b = 63 * (GUARD * b)
    BY <1>1, <2>1
  <2> QED BY <2>2 DEF b
<1>3. FitArg = q + 2 * MAX_RATIO
  BY DEF FitArg
<1> HIDE DEF a
<1>4. q \in Nat /\ a < 200 * q + 200
  BY <1>2
<1> HIDE DEF q
<1>5. FitArg \in Nat
  BY <1>1, <1>3, <1>4
<1>6. ASSUME NEW z \in Nat, 200 * z <= a + 400 * MAX_RATIO
      PROVE  z <= FitArg
  BY <1>1, <1>2, <1>3, <1>4, <1>6
<1> QED BY <1>2, <1>5, <1>6

\* A larger multiple of s leaves a larger floor.
LEMMA FloorAbove ==
  ASSUME NEW W \in Nat, W > 0, NEW a \in Int, NEW c \in Int, NEW k \in Nat, k > 0,
         k * a >= W * c
  PROVE  k * (a \div W) + k > c /\ a \div W \in Int
<1> DEFINE q == a \div W
<1>1. q \in Int /\ a < W * q + W
  BY DivisionBounds
<1> HIDE DEF q
<1>2. k * a < k * (W * q + W)
  BY <1>1
<1>3. k * (W * q + W) = W * (k * q + k)
  BY <1>1
<1>4. W * c < W * ((k * q + k - 1) + 1)
  <2>1. k * a \in Int /\ W * c \in Int /\ k * q \in Int
    BY <1>1
  <2>2. (k * q + k - 1) + 1 = k * q + k
    BY <2>1
  <2> QED BY <1>2, <1>3, <2>1, <2>2
<1>5. c <= k * q + k - 1
  <2>1. k * q + k - 1 \in Int
    BY <1>1
  <2> DEFINE b == k * q + k - 1
  <2>2. b \in Int /\ W * c < W * (b + 1)
    BY <1>4, <2>1
  <2> HIDE DEF b
  <2>3. c <= b
    BY <2>2, Cancel
  <2> QED BY <2>3 DEF b
<1>6. k * q \in Int
  BY <1>1
<1> QED BY <1>1, <1>5, <1>6 DEF q

\* From 2/5 on exp(-s) is at least 1 - 13/15 s, two units aside.
LEMMA ExpHornerChord ==
  ASSUME NEW s \in 0 .. LN2_62 - 1, 5 * s >= 2 * ONE_62
  PROVE  15 * Horner(EXP_COEFF_62, s) + 30 >= 15 * ONE_62 - 13 * s
<1> DEFINE W == ONE_62
           n == Len(EXP_COEFF_62)
           h == Horner(EXP_COEFF_62, s)
<1>1. /\ W \in Nat /\ W >= 8 /\ s \in Nat /\ 10 * s <= 7 * W /\ n \in Nat /\ n >= 4
      /\ 30 * EXP_COEFF_62[3] + 21 * EXP_COEFF_62[4] >= 10 * W + 30
  BY ScaleFacts, LogarithmAssumption, Tables, FitAssumption
<1>2. PICK f : /\ h = f[1] /\ PartialSums(EXP_COEFF_62, s, f)
               /\ \A i \in 1 .. n : ExpSum(i, f[i])
  BY ExpSums
<1>3. /\ 1 \in 1 .. n /\ 2 \in 1 .. n /\ 3 \in 1 .. n /\ 4 \in 1 .. n
      /\ 1 \in 1 .. n - 1 /\ 2 \in 1 .. n - 1 /\ 3 \in 1 .. n - 1
  <2> HIDE DEF n
  <2> QED BY <1>1
<1> DEFINE f2 == f[2]
           f3 == f[3]
           f4 == f[4]
           c2 == EXP_COEFF_62[2]
           c3 == EXP_COEFF_62[3]
           c4 == EXP_COEFF_62[4]
           q1 == (f2 * s) \div W
           q2 == (f3 * s) \div W
           q3 == (f4 * s) \div W
<1>4. h = W + q1 /\ f2 = c2 + q2 /\ f3 = c3 + q3
  <2>1. /\ f[1] = HornerStep(EXP_COEFF_62[1], f[2], s)
        /\ f[2] = HornerStep(EXP_COEFF_62[2], f[3], s)
        /\ f[3] = HornerStep(EXP_COEFF_62[3], f[4], s)
    BY <1>2, <1>3 DEF PartialSums
  <2> QED BY <1>2, <2>1, ExponentialAssumption DEF HornerStep, Shr, ONE_62
<1>5. f4 \in Int /\ f4 <= 0 /\ f4 >= c4
  BY <1>2, <1>3 DEF ExpSum
<1>6. f3 \in Int /\ f3 >= 0 /\ f2 \in Int
  BY <1>2, <1>3 DEF ExpSum
<1>7. c2 \in Int /\ c2 >= -W /\ c3 \in Int /\ c4 \in Int
  <2>1. \A j \in 1 .. n : EXP_COEFF_62[j] \in -W .. W
    BY Tables
  <2>2. c2 \in -W .. W /\ c3 \in -W .. W /\ c4 \in -W .. W
    BY <1>3, <2>1
  <2> QED BY <1>1, <2>2
<1>8. q3 \in Int /\ 10 * q3 + 10 >= 7 * f4
  <2> HIDE DEF f4, W
  <2>1. W \in Nat /\ W > 0 /\ f4 \in Int /\ f4 <= 0 /\ s \in Nat /\ 10 * s <= 7 * W
    BY <1>1, <1>5
  <2> QED BY <2>1, FloorScaled
<1> HIDE DEF f2, f3, f4, c2, c3, c4, q3, h, W, n
<1>9. 3 * f3 >= W
  BY <1>1, <1>4, <1>5, <1>7, <1>8 DEF c3, c4
<1>10. 15 * q2 + 15 > 2 * W /\ q2 \in Int
  <2>1. f3 * s \in Int
    BY <1>1, <1>6
  <2>2. 15 * (f3 * s) >= W * (2 * W)
    <3>1. (3 * f3) * (5 * s) >= W * (2 * W)
      <4>1. 3 * f3 \in Nat /\ 5 * s \in Nat /\ 5 * s >= 2 * W
        BY <1>1, <1>6 DEF W
      <4>2. W * (2 * W) <= (3 * f3) * (5 * s)
        BY <1>1, <1>9, <4>1, ProductBound
      <4> QED BY <4>2
    <3>2. (3 * f3) * (5 * s) = 15 * (f3 * s)
      BY <1>1, <1>6
    <3> QED BY <3>1, <3>2
  <2> DEFINE a == f3 * s
  <2>3. a \in Int /\ 15 * a >= W * (2 * W) /\ 2 * W \in Int
    BY <1>1, <2>1, <2>2
  <2> HIDE DEF a
  <2>4. 15 * (a \div W) + 15 > 2 * W /\ a \div W \in Int
    BY <1>1, <2>3, FloorAbove
  <2> QED BY <2>4 DEF a
<1> HIDE DEF q2
<1>11. 15 * f2 >= -(13 * W) - 14
  BY <1>1, <1>4, <1>7, <1>10
<1>12. 15 * q1 + 15 > -(13 * s) - 14 /\ q1 \in Int
  <2> DEFINE a == f2 * s
             c == -(13 * s) - 14
  <2>1. a \in Int /\ c \in Int
    BY <1>1, <1>6
  <2>2. 15 * a >= W * c
    <3>1. (15 * f2) * s >= (-(13 * W) - 14) * s /\ (15 * f2) * s = 15 * a
      BY <1>1, <1>6, <1>11
    <3>2. (-(13 * W) - 14) * s = -(13 * (W * s)) - 14 * s
          /\ W * c = -(13 * (W * s)) - 14 * W
      BY <1>1
    <3> DEFINE X == W * s
    <3>3. X \in Int /\ 15 * a >= -(13 * X) - 14 * s /\ W * c = -(13 * X) - 14 * W
      BY <1>1, <3>1, <3>2
    <3> HIDE DEF X, a, c
    <3> QED BY <1>1, <2>1, <3>3
  <2> HIDE DEF a, c
  <2>3. 15 * (a \div W) + 15 > c /\ a \div W \in Int
    BY <1>1, <2>1, <2>2, FloorAbove
  <2> QED BY <2>3 DEF a, c
<1> HIDE DEF q1
<1>13. 15 * h + 30 >= 15 * W - 13 * s
  BY <1>1, <1>4, <1>12
<1> QED BY <1>13 DEF h, W

\* A fitting argument leaves a half and the pad.
LEMMA ExpHornerHalf ==
  ASSUME NEW s \in 0 .. LN2_62 - 1, s <= FitArg
  PROVE  2 * Horner(EXP_COEFF_62, s) >= ONE_62 + 2 * PAD_62
<1> DEFINE W == ONE_62
           h == Horner(EXP_COEFF_62, s)
<1>1. W \in Nat /\ s \in Nat /\ PAD_62 \in Nat /\ h \in Nat /\ 10 * PAD_62 <= W
  BY ScaleFacts, LogarithmAssumption, PadAssumption, FitAssumption, ExpHornerSum
<1>2. CASE 5 * s < 2 * W
  <2>1. h >= W - s
    BY ExpHornerBelow
  <2> HIDE DEF h, W
  <2>2. 2 * h >= W + 2 * PAD_62
    BY <1>1, <1>2, <2>1
  <2> QED BY <2>2 DEF h, W
<1>3. CASE 5 * s >= 2 * W
  <2>1. 15 * h + 30 >= 15 * W - 13 * s
    BY <1>3, ExpHornerChord
  <2>2. 26 * FitArg + 30 * (PAD_62 + 2) <= 15 * W /\ FitArg \in Int
    BY FitAssumption, FitArgNat
  <2> HIDE DEF h, W
  <2>3. 2 * h >= W + 2 * PAD_62
    BY <1>1, <2>1, <2>2
  <2> QED BY <2>3 DEF h, W
<1> QED BY <1>1, <1>2, <1>3

\* The scale has sixteen units at least.
LEMMA OneAtLeast == ONE >= 16
<1>1. SCALE \in Nat /\ SCALE >= 4 /\ SCALE <= WIDTH /\ WIDTH \in Nat
  BY ScaleAssumption, WidthAssumption, FitAssumption
<1>2. /\ 2^(0 + 1) = 2 * 2^0 /\ 2^(1 + 1) = 2 * 2^1 /\ 2^(2 + 1) = 2 * 2^2
      /\ 2^(3 + 1) = 2 * 2^3 /\ 2^0 = 1
  BY <1>1, PowerAssumption
<1>3. 2^4 <= 2^SCALE
  BY <1>1, PowerMonotone
<1> QED BY <1>2, <1>3 DEF ONE

\* The exponent of an exact-out trade within cap_fit times the complement of
\* its base is a quarter, and what the two roundings add.
LEMMA FitProduct ==
  ASSUME NEW bo \in Nat, bo >= 1, NEW wi \in Nat, wi >= 1, NEW wo \in Nat, wo >= 1,
         wo <= MAX_RATIO * wi, NEW a \in Nat, 10 * a <= 3 * bo, a <= (bo \div (4 * wo)) * wi,
         NEW q \in 0 .. ONE, (bo - a) * ONE <= (q + 2) * bo
  PROVE  LET e == InExponent(wi, wo)
         IN  e \in Nat /\ 4 * (e * (ONE - q)) <= ONE * (ONE + 2 + 8 * MAX_RATIO)
<1> DEFINE e == InExponent(wi, wo)
           r == ONE - q
           R == MAX_RATIO
<1>1. /\ ONE \in Nat /\ ONE >= 16 /\ R \in Nat /\ q \in Nat
  BY ScaleFacts, ScaleAssumption, OneAtLeast
<1>2. r \in Nat /\ q + r = ONE
  BY <1>1
<1>3. wo * ONE \in Nat /\ e \in Nat /\ wi * e < wo * ONE + wi
  <2>1. wo * ONE \in Nat
    BY <1>1
  <2> DEFINE x == wo * ONE
  <2>2. x \in Nat /\ wi > 0
    BY <2>1
  <2> HIDE DEF x
  <2>3. CeilDiv(x, wi) \in Nat /\ wi * CeilDiv(x, wi) < x + wi
    BY <2>2, CeilDivBounds
  <2> QED BY <2>1, <2>3 DEF x, InExponent
<1> HIDE DEF e, r
\* The complement of the base.
<1>4. bo * r <= a * ONE + 2 * bo
  <2>1. (bo - a) * ONE = bo * ONE - a * ONE /\ (q + 2) * bo = bo * q + 2 * bo
        /\ bo * ONE = bo * q + bo * r
    <3>1. bo * (q + r) = bo * q + bo * r
      BY <1>1, <1>2
    <3> QED BY <1>1, <1>2, <3>1
  <2> DEFINE A == a * ONE
             B == bo * q
             C == bo * r
             D == bo * ONE
  <2>2. A \in Nat /\ B \in Nat /\ C \in Nat /\ D \in Nat
    BY <1>1, <1>2
  <2>3. D - A <= B + 2 * bo /\ D = B + C
    BY <2>1
  <2> HIDE DEF A, B, C, D
  <2>4. C <= A + 2 * bo
    BY <2>2, <2>3
  <2> QED BY <2>4 DEF A, C
\* cap_fit: a is at most a quarter of bo * wi / wo.
<1>5. 4 * (wo * a) <= wi * bo
  <2> DEFINE y == bo \div (4 * wo)
  <2>1. 4 * wo \in Nat /\ 4 * wo > 0
    OBVIOUS
  <2>2. y \in Nat /\ (4 * wo) * y <= bo
    BY <2>1, DivisionBounds, DivisionNat
  <2> HIDE DEF y
  <2>3. a <= y * wi
    BY DEF y
  <2>4. (4 * wo) * a <= (4 * wo) * (y * wi) /\ (4 * wo) * (y * wi) = wi * ((4 * wo) * y)
        /\ (4 * wo) * a = 4 * (wo * a) /\ wi * ((4 * wo) * y) <= wi * bo
    BY <2>1, <2>2, <2>3
  <2> QED BY <2>4
\* All four terms of the product, over wi * bo.
<1>6. (wi * e) * (bo * r) <= (wo * ONE + wi) * (a * ONE + 2 * bo)
  <2> DEFINE A == wi * e
             B == bo * r
             C == wo * ONE + wi
             D == a * ONE + 2 * bo
  <2>1. A \in Nat /\ B \in Nat /\ C \in Nat /\ D \in Nat /\ A <= C /\ B <= D
    BY <1>1, <1>2, <1>3, <1>4
  <2> HIDE DEF A, B, C, D
  <2>2. A * B <= C * D
    BY <2>1, ProductBound
  <2> QED BY <2>2 DEF A, B, C, D
<1> DEFINE u == wi * bo
           P == e * r
<1>7. (wi * e) * (bo * r) = u * P
  BY <1>2, <1>3
<1>8. (wo * ONE + wi) * (a * ONE + 2 * bo)
        = ONE * (ONE * (wo * a)) + 2 * (ONE * (wo * bo)) + ONE * (wi * a) + 2 * u
  BY <1>1
<1>9. 4 * (ONE * (ONE * (wo * a))) <= ONE * (ONE * u)
  <2>1. ONE * (4 * (wo * a)) <= ONE * u /\ ONE * (4 * (wo * a)) \in Nat /\ ONE * u \in Nat
    BY <1>1, <1>5
  <2>2. ONE * (ONE * (4 * (wo * a))) <= ONE * (ONE * u)
    BY <1>1, <2>1
  <2>3. ONE * (ONE * (4 * (wo * a))) = 4 * (ONE * (ONE * (wo * a)))
    BY <1>1
  <2> QED BY <2>2, <2>3
<1>10. ONE * (wo * bo) <= ONE * (R * u)
  <2>1. wo * bo <= (R * wi) * bo /\ (R * wi) * bo = R * u /\ wo * bo \in Nat /\ R * u \in Nat
    BY <1>1
  <2> QED BY <1>1, <2>1
<1>11. 10 * (ONE * (wi * a)) <= 3 * (ONE * u)
  <2>1. wi * (10 * a) <= wi * (3 * bo) /\ wi * (10 * a) = 10 * (wi * a)
        /\ wi * (3 * bo) = 3 * u /\ wi * a \in Nat /\ u \in Nat
    OBVIOUS
  <2>2. ONE * (10 * (wi * a)) <= ONE * (3 * u)
    BY <1>1, <2>1
  <2>3. ONE * (10 * (wi * a)) = 10 * (ONE * (wi * a)) /\ ONE * (3 * u) = 3 * (ONE * u)
    BY <1>1
  <2> QED BY <2>2, <2>3
<1>12. 16 * u <= ONE * u
  BY <1>1
<1> DEFINE T1 == ONE * (ONE * (wo * a))
           T2 == ONE * (wo * bo)
           T3 == ONE * (wi * a)
           U1 == ONE * u
           U2 == ONE * (ONE * u)
           U3 == ONE * (R * u)
           X == u * P
<1>13. /\ T1 \in Nat /\ T2 \in Nat /\ T3 \in Nat /\ U1 \in Nat /\ U2 \in Nat /\ U3 \in Nat
       /\ X \in Nat /\ u \in Nat
  BY <1>1, <1>2, <1>3
<1>14. /\ X <= T1 + 2 * T2 + T3 + 2 * u
       /\ 4 * T1 <= U2 /\ T2 <= U3 /\ 10 * T3 <= 3 * U1 /\ 16 * u <= U1
  BY <1>6, <1>7, <1>8, <1>9, <1>10, <1>11, <1>12
<1>15. U2 + 2 * U1 + 8 * U3 = u * (ONE * (ONE + 2 + 8 * R))
  BY <1>1
<1> HIDE DEF T1, T2, T3, U1, U2, U3, X, u
<1>16. 4 * X <= U2 + 2 * U1 + 8 * U3
  BY <1>13, <1>14
<1> DEFINE Q == ONE * (ONE + 2 + 8 * R)
<1>17. Q \in Nat /\ P \in Nat
  <2>1. ONE + 2 + 8 * R \in Nat
    BY <1>1
  <2> QED BY <1>1, <1>2, <1>3, <2>1
<1>18. u > 0
  BY DEF u
<1>19. 4 * X = u * (4 * P) /\ 4 * X <= u * Q
  <2>1. 4 * X = u * (4 * P)
    BY <1>13, <1>17 DEF X
  <2> QED BY <2>1, <1>15, <1>16
<1> HIDE DEF P, Q
<1>20. 4 * P <= Q
  <2>1. u * (4 * P) < u * (Q + 1)
    <3>1. u * (Q + 1) = u * Q + u /\ u * Q \in Nat /\ u * (4 * P) \in Nat
      BY <1>13, <1>17
    <3> QED BY <1>13, <1>18, <1>19, <3>1
  <2> QED BY <1>13, <1>17, <1>18, <2>1, Cancel
<1> QED BY <1>3, <1>20 DEF P, Q, r, e

\* Such a power is at least a half.
LEMMA FitPower ==
  ASSUME NEW x \in 1 .. ONE - 1, x >= LeastBase, NEW e \in 1 .. MAX_RATIO * ONE,
         4 * (e * (ONE - x)) <= ONE * (ONE + 2 + 8 * MAX_RATIO)
  PROVE  2 * Returns("pow_62_down", x, e) >= ONE_62
<1> DEFINE n == ln_inner[x]
           z == ArgProduct(e, n).value
           k == z \div LN2_62
           s == z % LN2_62
           h == Horner(EXP_COEFF_62, s)
           v == pow_inner(x, e)
           W == ONE_62
           R == MAX_RATIO
           f == (ONE - x) * GUARD
           Q == ONE + 2 + 8 * R
<1>1. /\ ONE \in Nat /\ ONE >= 2 /\ W \in Nat /\ W >= 8 /\ R \in Nat /\ GUARD \in Nat
      /\ LN2_62 \in Nat /\ LN2_62 > 0 /\ PAD_62 \in Nat /\ PAD_62 > 0 /\ LN_SCALE \in Nat
      /\ ARG_ENVELOPE \in Nat
  BY ScaleFacts, LogarithmAssumption, ScaleAssumption, PadAssumption, EnvelopeAssumption
<1>2. x \in Nat /\ ONE - x \in Nat /\ e \in Nat /\ e <= R * ONE /\ Q \in Nat
  BY <1>1
<1>3. n \in Nat /\ f \in Nat /\ 50 * n <= 63 * f + 100 /\ n \in LnRange
  <2>1. x \in 1 .. ONE
    BY <1>1
  <2> QED BY <2>1, LnBelowComplement, LnInnerInRange
<1>4. e \in I128
  BY PoolScales
<1>5. z \in Nat /\ ONE * z <= e * n
  BY <1>1, <1>3, <1>4, ArgProductFits DEF Envelope
<1>6. Returns("pow_62_down", x, e) = AtLeast(v - PAD_62, 0)
  <2>1. Returns("pow_62_down", x, e) = Rounded("pow_62_down", v)
    <3>1. "pow_62_down" \notin ExpOps /\ "pow_62_down" \in PowOps
      BY DEF Ops62, ExpOps, PowOps
    <3>2. ~Saturates("pow_62_down", x)
      BY <3>1 DEF Saturates
    <3> QED BY <3>1, <3>2, Zenon DEF Returns, v
  <2>2. Rounded("pow_62_down", v) = AtLeast(v - PAD_62, 0)
    BY Zenon DEF Rounded, RawOps
  <2> QED BY <2>1, <2>2
<1>7. v = IF k > LN_SCALE THEN 0 ELSE Shr(h, k)
  BY <1>5 DEF exp_inner, pow_inner
<1>8. 4 * (e * f) <= ONE * (GUARD * Q)
  <2>1. (4 * (e * (ONE - x))) * GUARD <= (ONE * Q) * GUARD
    <3> DEFINE A == 4 * (e * (ONE - x))
               B == ONE * Q
    <3>1. A \in Nat /\ B \in Nat /\ A <= B
      BY <1>1, <1>2
    <3> HIDE DEF A, B
    <3>2. A * GUARD <= B * GUARD
      BY <1>1, <3>1
    <3> QED BY <3>2 DEF A, B
  <2>2. (4 * (e * (ONE - x))) * GUARD = 4 * (e * ((ONE - x) * GUARD))
    BY <1>1, <1>2
  <2>3. (ONE * Q) * GUARD = ONE * (GUARD * Q)
    BY <1>1, <1>2
  <2> QED BY <2>1, <2>2, <2>3
<1> HIDE DEF n, z, f, Q
<1>9. 200 * z <= 63 * (GUARD * Q) + 400 * R
  <2>1. GUARD * Q \in Nat /\ e * f \in Nat /\ e * n \in Nat /\ ONE * (GUARD * Q) \in Nat
        /\ ONE * z \in Nat /\ ONE * R \in Nat
    BY <1>1, <1>2, <1>3, <1>5
  <2>2. 50 * (e * n) <= 63 * (e * f) + 100 * e
    <3>1. e * (50 * n) <= e * (63 * f + 100)
      BY <1>2, <1>3
    <3>2. e * (50 * n) = 50 * (e * n) /\ e * (63 * f + 100) = 63 * (e * f) + 100 * e
      BY <1>2, <1>3
    <3> QED BY <3>1, <3>2
  <2> DEFINE A == e * n
             B == e * f
             C == ONE * (GUARD * Q)
             D == ONE * z
             E == ONE * R
  <2>3. 50 * A <= 63 * B + 100 * e /\ 4 * B <= C /\ D <= A /\ e <= E
        /\ A \in Nat /\ B \in Nat /\ C \in Nat /\ D \in Nat /\ E \in Nat
    BY <1>1, <1>2, <1>5, <1>8, <2>1, <2>2
  <2>4. ONE * (63 * (GUARD * Q) + 400 * R) = 63 * C + 400 * E /\ ONE * (200 * z) = 200 * D
    BY <1>1, <1>5, <2>1
  <2> HIDE DEF A, B, C, D, E
  <2>5. 200 * D <= 63 * C + 400 * E
    BY <1>2, <2>3
  <2>6. ONE * (200 * z) < ONE * ((63 * (GUARD * Q) + 400 * R) + 1)
    <3> DEFINE F == 63 * (GUARD * Q) + 400 * R
    <3>1. F \in Nat /\ ONE * (200 * z) <= ONE * F
      BY <1>1, <2>1, <2>4, <2>5
    <3> HIDE DEF F
    <3>2. ONE * (200 * z) < ONE * (F + 1)
      <4>1. ONE * (F + 1) = ONE * F + ONE /\ ONE * F \in Nat /\ ONE * (200 * z) \in Nat
        BY <1>1, <1>5, <3>1
      <4> QED BY <1>1, <3>1, <4>1
    <3> QED BY <3>2 DEF F
  <2>7. 200 * z \in Int /\ 63 * (GUARD * Q) + 400 * R \in Int
    BY <1>1, <1>5, <2>1
  <2> QED BY <1>1, <2>6, <2>7, Cancel
<1>10. z <= FitArg /\ FitArg < LN2_62 /\ FitArg \in Nat
  BY <1>5, <1>9, FitArgNat, FitAssumption DEF Q
<1>11. k = 0 /\ s = z
  <2>1. z = (LN2_62 * 0) + z /\ 0 <= z /\ z < LN2_62
    BY <1>1, <1>5, <1>10
  <2> QED BY <1>1, <1>5, <2>1, DivisionUnique
<1>12. s \in 0 .. LN2_62 - 1 /\ s <= FitArg
  BY <1>1, <1>5, <1>10, <1>11
<1>13. h \in Nat /\ 2 * h >= W + 2 * PAD_62
  <2> HIDE DEF s
  <2> QED BY <1>12, ExpHornerHalf, ExpHornerSum
<1> HIDE DEF k, s, h, v
<1>14. v = h
  <2>1. ~(k > LN_SCALE)
    BY <1>1, <1>11
  <2>2. h \div 1 = h
    BY <1>13
  <2>3. Shr(h, 0) = h
    BY <2>2, PowerAssumption DEF Shr
  <2> QED BY <1>7, <1>11, <2>1, <2>3
<1>15. 2 * AtLeast(v - PAD_62, 0) >= W
  BY <1>1, <1>13, <1>14 DEF AtLeast
<1> QED BY <1>6, <1>15

\* A power of a half or more asks for no more than the reserve.
LEMMA HalfPays ==
  ASSUME NEW b \in U128, NEW p \in 1 .. ONE_62 - 1, 2 * p >= ONE_62
  PROVE  ~Panicked(mul_shr_up(b, PaymentRatio(p), LN_SCALE))
<1> DEFINE W == ONE_62
           r == PaymentRatio(p)
           y == b * r
           c == CeilDiv(y, W)
<1>1. W \in Nat /\ W >= 8 /\ W \in U128 /\ p \in Nat /\ p > 0 /\ b \in Nat /\ WORD \in Nat
      /\ LN_SCALE \in 1 .. WIDTH - 1
  BY PoolScales DEF U128
<1>2. r \in Nat /\ r <= W
  <2> DEFINE n == (W - p) * W
  <2>1. n \in Nat /\ n <= p * W
    <3>1. W - p \in Nat /\ W - p <= p
      BY <1>1
    <3> HIDE DEF W
    <3>2. (W - p) * W <= p * W /\ (W - p) * W \in Nat
      BY <1>1, <3>1
    <3> QED BY <3>2
  <2>2. r = CeilDiv(n, p)
    BY DEF PaymentRatio
  <2> HIDE DEF n, r, W
  <2>3. r \in Nat /\ p * r < n + p
    BY <1>1, <2>1, <2>2, CeilDivBounds
  <2>4. p * r < p * (W + 1)
    <3>1. p * (W + 1) = p * W + p /\ p * W \in Nat /\ p * r \in Nat
      BY <1>1, <2>3
    <3> QED BY <1>1, <2>1, <2>3, <3>1
  <2> QED BY <1>1, <2>3, <2>4, Cancel
<1> HIDE DEF r
<1>3. y \in Nat /\ y <= W * b
  <2> HIDE DEF W
  <2>1. b * r <= b * W /\ b * W = W * b /\ b * r \in Nat
    BY <1>1, <1>2
  <2> QED BY <2>1
<1>4. c \in Nat /\ c <= b
  <2> HIDE DEF y, W
  <2>1. c \in Nat /\ W * c < y + W
    <3>1. y \in Nat /\ W \in Nat /\ W > 0
      BY <1>1, <1>3
    <3> QED BY <3>1, CeilDivBounds
  <2> HIDE DEF c
  <2>2. W * c < W * (b + 1)
    <3>1. W * (b + 1) = W * b + W /\ W * b \in Nat /\ W * c \in Nat
      BY <1>1, <2>1
    <3> QED BY <1>1, <1>3, <2>1, <3>1
  <2> QED BY <1>1, <2>1, <2>2, Cancel
<1>5. c \in U128 /\ r \in U128
  <2> HIDE DEF c, W
  <2> QED BY <1>1, <1>2, <1>4 DEF U128
<1>6. mul_shr_up(b, r, LN_SCALE) = Value(c)
  <2>1. CeilDiv(b * r, 2^LN_SCALE) = c
    BY DEF ONE_62
  <2> HIDE DEF c
  <2> QED BY <1>1, <1>5, <2>1, MulShrUpCeiling
<1> QED BY <1>6 DEF Panicked, Value, r

\* No exact-out trade within cap_fit panics.
LEMMA FitPays ==
  ASSUME NEW q, IsQuote(q),
         InEnvelope(q.balance_in, q.weight_in, q.balance_out, q.weight_out, q.amount),
         q.amount <= cap_fit(q.balance_out, q.weight_in, q.weight_out)
  PROVE  ~Panicked(InGivenOut(q, q.amount))
<1> DEFINE bi == q.balance_in
           wi == q.weight_in
           bo == q.balance_out
           wo == q.weight_out
           a == q.amount
           base == ratio_down(bo - a, bo)
           e == InExponent(wi, wo)
           p62 == Returns("pow_62_down", base, e)
           y == bo \div (4 * wo)
<1>1. CASE a = 0
  <2>1. InGivenOut(q, a) = Value(0)
    BY <1>1 DEF InGivenOut, calc_in_given_out
  <2> QED BY <2>1 DEF Panicked, Value
<1>2. CASE a # 0
  <2>1. /\ base \in 1 .. ONE - 1 /\ base >= LeastBase /\ e \in 1 .. MAX_RATIO * ONE
        /\ p62 \in 1 .. ONE_62 - 1
        /\ InGivenOut(q, a) = mul_shr_up(bi, PaymentRatio(p62), LN_SCALE)
    BY <1>2, InGivenOutPrices
  <2>2. /\ bi \in U128 /\ bo \in Nat /\ bo \in U128 /\ wi \in Nat /\ wo \in Nat /\ a \in Nat
        /\ bo >= 1 /\ wi >= 1 /\ wo >= 1 /\ wo <= MAX_RATIO * wi /\ a <= DrainCap(bo)
        /\ WORD \in Nat /\ ONE \in Nat /\ ONE >= 2
    BY PoolScales DEF IsQuote, InEnvelope, check_weights, U128
  <2>3. 10 * a <= 3 * bo
    <3>1. DrainCap(bo) \in Nat /\ 10 * DrainCap(bo) <= 3 * bo
      BY <2>2, DrainAtMost
    <3> QED BY <2>2, <3>1
  <2>4. a <= y * wi
    <3>1. cap_fit(bo, wi, wo) = AtMost(y * wi, WORD - 1)
      BY DEF cap_fit
    <3>2. 4 * wo \in Nat /\ 4 * wo > 0
      BY <2>2
    <3>3. y \in Nat
      BY <2>2, <3>2, DivisionNat
    <3> HIDE DEF y
    <3>4. y * wi \in Nat
      BY <2>2, <3>3
    <3> QED BY <2>2, <3>1, <3>4 DEF AtMost
  <2>5. (bo - a) * ONE <= (base + 2) * bo
    <3>1. bo - a \in Nat /\ bo - a <= bo
      BY <2>2, <2>3
    <3> QED BY <2>2, <3>1, RatioDownBiased
  <2>6. base \in 0 .. ONE
    BY <2>1, <2>2
  <2> HIDE DEF base
  <2>7. 4 * (e * (ONE - base)) <= ONE * (ONE + 2 + 8 * MAX_RATIO)
    BY <2>2, <2>3, <2>4, <2>5, <2>6, FitProduct
  <2>8. 2 * p62 >= ONE_62
    <3> HIDE DEF e
    <3> QED BY <2>1, <2>7, FitPower
  <2> HIDE DEF p62
  <2>9. ~Panicked(mul_shr_up(bi, PaymentRatio(p62), LN_SCALE))
    BY <2>1, <2>2, <2>8, HalfPays
  <2> QED BY <2>1, <2>9
<1> QED BY <1>1, <1>2

\* The weights the fuzz target draws pass check_weights.
LEMMA FuzzWeightsMeet ==
  ASSUME NEW wi \in 1 .. MAX_RATIO, NEW wo \in 1 .. MAX_RATIO
  PROVE  check_weights(wi, wo)
<1>1. MAX_RATIO \in Nat /\ WIDTH \in Nat /\ SCALE \in Nat /\ LN_SCALE \in Nat
      /\ SCALE + 2 <= LN_SCALE /\ 2 * LN_SCALE + 2 <= WIDTH
  BY ScaleAssumption, WidthAssumption
<1>2. WIDTH \div 2 \in Nat /\ SCALE <= WIDTH \div 2 /\ WIDTH \div 2 <= WIDTH
  BY <1>1
<1>3. 2^SCALE <= 2^(WIDTH \div 2)
  BY <1>1, <1>2, PowerMonotone
<1>4. ONE \in Nat /\ MAX_RATIO <= ONE
  BY ScaleFacts, RatioAssumption
<1>5. 2^(WIDTH \div 2) \in Nat
  BY <1>1, <1>2, PowerPositive
<1>6. MAX_RATIO <= MAX_WEIGHT /\ MAX_WEIGHT \in Nat
  BY <1>1, <1>3, <1>4, <1>5 DEF MAX_WEIGHT, ONE
<1>7. MAX_RATIO <= MAX_RATIO * wi /\ MAX_RATIO <= MAX_RATIO * wo
  <2>1. ASSUME NEW n \in Nat, n >= 1 PROVE MAX_RATIO <= MAX_RATIO * n
    <3>1. MAX_RATIO * 1 <= MAX_RATIO * n
      BY <1>1, <2>1
    <3> QED BY <1>1, <3>1
  <2> QED BY <1>1, <2>1
<1>8. MAX_RATIO * wi \in Nat /\ MAX_RATIO * wo \in Nat
  BY <1>1
<1>9. wi <= MAX_RATIO * wo /\ wo <= MAX_RATIO * wi
  BY <1>1, <1>7, <1>8
<1>10. wi <= MAX_WEIGHT /\ wo <= MAX_WEIGHT
  BY <1>1, <1>6
<1> QED BY <1>1, <1>9, <1>10 DEF check_weights

\* The bound the fuzz target shapes an exact-out amount to.
LEMMA AmountWithinCaps ==
  ASSUME NEW t \in Trades, t.exact_out, NEW x \in Nat, x <= MaxAmount(t)
  PROVE  /\ x <= DrainCap(Balance(t.balance_out))
         /\ x <= cap_fit(Balance(t.balance_out), Weight(t.weight_in), Weight(t.weight_out))
<1> DEFINE c == DrainCap(Balance(t.balance_out))
           d == cap_fit(Balance(t.balance_out), Weight(t.weight_in), Weight(t.weight_out))
<1>1. MaxAmount(t) = AtMost(c, d)
  BY DEF MaxAmount
<1>2. c \in Nat /\ d \in Nat
  <2> DEFINE bo == Balance(t.balance_out)
             wi == Weight(t.weight_in)
             wo == Weight(t.weight_out)
  <2>1. t.balance_out \in U128 /\ t.weight_in \in 0 .. 255 /\ t.weight_out \in 0 .. 255
    BY QuotesAssumption
  <2>2. WORD \in Nat /\ WORD >= 1 /\ MAX_RATIO \in Nat /\ MAX_RATIO > 0
    BY PoolScales, ScaleAssumption DEF U128
  <2>3. bo \in Nat /\ bo >= 1
    BY <2>1, <2>2 DEF Balance, AtLeast, U128
  <2>4. wi \in Nat /\ wo \in Nat /\ wo >= 1
    <3>1. ASSUME NEW r \in 0 .. 255 PROVE Weight(r) \in Nat /\ Weight(r) >= 1
      <4>1. r % MAX_RATIO \in 0 .. MAX_RATIO - 1
        BY <2>2, DivisionBounds
      <4> QED BY <2>2, <4>1 DEF Weight
    <3> QED BY <2>1, <3>1
  <2> HIDE DEF bo, wi, wo
  <2>5. DrainCap(bo) \in 0 .. bo - 1
    BY <2>3, DrainLeavesSome
  <2>6. cap_fit(bo, wi, wo) \in Nat
    <3> DEFINE y == bo \div (4 * wo)
    <3>1. 4 * wo \in Nat /\ 4 * wo > 0
      BY <2>4
    <3>2. y \in Nat
      BY <2>3, <3>1, DivisionNat
    <3>3. cap_fit(bo, wi, wo) = AtMost(y * wi, WORD - 1)
      BY DEF cap_fit
    <3> HIDE DEF y
    <3>4. y * wi \in Nat
      BY <2>4, <3>2
    <3> QED BY <2>2, <3>3, <3>4 DEF AtMost
  <2> QED BY <2>3, <2>5, <2>6 DEF bo, wi, wo
<1> HIDE DEF c, d
<1>3. x <= c /\ x <= d
  BY <1>1, <1>2 DEF AtMost
<1> QED BY <1>3 DEF c, d

(***************************************************************************)
(* No fuzz input is a false crash, nor is any exact-out amount within the  *)
(* caps that the fuzz target and the proptest generator draw from: the     *)
(* power of such a trade is at least a half, so the payment is at most the *)
(* reserve, whatever the reserve, and nothing on the way asserts.          *)
(***************************************************************************)
THEOREM FuzzInputsPay == SwapSpec => []ShapedTradesPay
<1>1. QuoteInv => ShapedTradesPay
  <2> SUFFICES ASSUME QuoteInv, out # Pending PROVE ShapedTradesPay
    BY DEF ShapedTradesPay
  <2>1. /\ IsQuote(quote) /\ Answered
        /\ caller = "fuzz" => \E t \in Trades : MaxAmount(t) # 0 /\ quote = Shaped(t)
    BY DEF QuoteInv
  <2>2. ASSUME quote.fn = "in_given_out", InsideEnvelope,
               quote.amount <= cap_fit(quote.balance_out, quote.weight_in, quote.weight_out)
        PROVE  ~Panicked(out)
    <3>1. out = InGivenOut(quote, quote.amount)
      BY <2>1, <2>2 DEF Answered
    <3>2. InEnvelope(quote.balance_in, quote.weight_in, quote.balance_out,
                     quote.weight_out, quote.amount)
      BY <2>2 DEF InsideEnvelope
    <3> QED BY <2>1, <2>2, <3>1, <3>2, FitPays
  <2>3. ASSUME caller = "fuzz"
        PROVE  /\ ~Panicked(out)
               /\ quote.weight_in \in 1 .. MAX_RATIO /\ quote.weight_out \in 1 .. MAX_RATIO
    <3>1. PICK t \in Trades : MaxAmount(t) # 0 /\ quote = Shaped(t)
      BY <2>1, <2>3
    <3>2. /\ quote.fn \in {"out_given_in", "in_given_out"}
          /\ quote.balance_in = Balance(t.balance_in) /\ quote.balance_in >= 1
          /\ quote.balance_out = Balance(t.balance_out) /\ quote.balance_out >= 1
          /\ quote.weight_in = Weight(t.weight_in) /\ quote.weight_out = Weight(t.weight_out)
          /\ quote.weight_in \in 1 .. MAX_RATIO /\ quote.weight_out \in 1 .. MAX_RATIO
          /\ quote.amount \in 1 .. MaxAmount(t)
      BY <3>1, ShapedIsQuote
    <3>3. check_weights(quote.weight_in, quote.weight_out)
      BY <3>2, FuzzWeightsMeet
    <3>4. quote.balance_in \in Nat /\ quote.amount \in Nat /\ WORD \in Nat
          /\ quote.balance_in \in U128
      BY <2>1, PoolScales DEF IsQuote, U128
    <3>5. quote.fn = IF t.exact_out THEN "in_given_out" ELSE "out_given_in"
      BY <3>1 DEF Shaped
    <3>6. quote.amount <= MaxAmount(t)
      BY <3>2
    <3>7. CASE t.exact_out
      <4>1. quote.fn = "in_given_out"
        BY <3>5, <3>7
      <4>2. /\ quote.amount <= DrainCap(quote.balance_out)
            /\ quote.amount <= cap_fit(quote.balance_out, quote.weight_in, quote.weight_out)
        BY <3>1, <3>2, <3>4, <3>6, <3>7, AmountWithinCaps
      <4>3. InsideEnvelope
        BY <3>2, <3>3, <4>1, <4>2 DEF InsideEnvelope, InEnvelope
      <4> QED BY <2>2, <3>2, <4>1, <4>2, <4>3
    <3>8. CASE ~t.exact_out
      <4>1. quote.fn = "out_given_in" /\ out = OutGivenIn(quote, quote.amount)
        BY <2>1, <3>5, <3>8 DEF Answered
      <4>2. quote.balance_in + quote.amount \in U128
        <5>1. MaxAmount(t) = WORD - 1 - quote.balance_in
          BY <3>2, <3>8 DEF MaxAmount
        <5> QED BY <3>4, <3>6, <5>1 DEF U128
      <4>3. OutEnvelope(quote.balance_in, quote.weight_in, quote.balance_out,
                        quote.weight_out, quote.amount)
        BY <3>2, <3>3, <4>2 DEF OutEnvelope
      <4>4. out.panic = "none"
        BY <2>1, <4>1, <4>3, OutGivenInPanics
      <4> QED BY <3>2, <4>4 DEF Panicked
    <3> QED BY <3>7, <3>8
  <2> QED BY <2>2, <2>3 DEF ShapedTradesPay
<1> QED BY <1>1, QuoteInvariant, PTL
-----------------------------------------------------------------------------
(***************************************************************************)
(* One unit more.                                                          *)
(***************************************************************************)

\* The least number whose multiple reaches x.
LEMMA CeilDivLeast ==
  ASSUME NEW x \in Nat, NEW d \in Nat, d > 0, NEW q \in Nat, x <= d * q
  PROVE  CeilDiv(x, d) \in Nat /\ CeilDiv(x, d) <= q
<1> DEFINE c == CeilDiv(x, d)
<1>1. c \in Nat /\ d * c < x + d
  BY CeilDivBounds
<1> HIDE DEF c
<1>2. d * c < d * (q + 1)
  <2>1. d * (q + 1) = d * q + d /\ d * q \in Nat /\ d * c \in Nat
    BY <1>1
  <2> QED BY <2>1, <1>1
<1>3. c <= q
  BY <1>1, <1>2, Cancel
<1> QED BY <1>1, <1>3 DEF c

\* A ceiling grows with its dividend and falls with its divisor.
LEMMA CeilingMonotone ==
  ASSUME NEW x \in Nat, NEW z \in Nat, x <= z, NEW d \in Nat, NEW e \in Nat, d > 0, d <= e
  PROVE  CeilDiv(x, e) \in Nat /\ CeilDiv(z, d) \in Nat /\ CeilDiv(x, e) <= CeilDiv(z, d)
<1> DEFINE c == CeilDiv(z, d)
<1>1. c \in Nat /\ z <= d * c
  BY CeilDivBounds
<1> HIDE DEF c
<1>2. x <= e * c
  <2>1. d * c <= e * c /\ e * c \in Nat /\ d * c \in Nat
    BY <1>1, ProductBound
  <2> QED BY <2>1, <1>1
<1>3. CeilDiv(x, e) \in Nat /\ CeilDiv(x, e) <= c
  BY <1>1, <1>2, CeilDivLeast
<1> QED BY <1>1, <1>3 DEF c

\* The next word is as long, or a power of two.
LEMMA BitLenNext ==
  ASSUME NEW x \in U128, x + 1 \in U128
  PROVE  LET n == BitLen(x)
             m == BitLen(x + 1)
         IN  /\ n \in 0 .. WIDTH /\ m \in 0 .. WIDTH
             /\ m = n \/ (m = n + 1 /\ x + 1 = 2^n)
<1> DEFINE n == BitLen(x)
           m == BitLen(x + 1)
<1>1. n \in 0 .. WIDTH /\ x < 2^n /\ (n > 0 => x >= 2^(n - 1)) /\ x \in Nat
  BY BitLenLands DEF U128
<1>2. m \in 0 .. WIDTH /\ x + 1 < 2^m /\ (m > 0 => x + 1 >= 2^(m - 1))
  BY BitLenLands
<1> HIDE DEF n, m
<1>3. 2^n \in Nat /\ 2^m \in Nat
  BY <1>1, <1>2, PowerPositive
<1>4. ASSUME m < n PROVE FALSE
  <2>1. m <= n - 1 /\ n - 1 \in Nat /\ m \in Nat /\ n - 1 <= WIDTH /\ n - 1 \in 0 .. WIDTH
    BY <1>4, <1>1, <1>2, WidthAssumption
  <2>2. 2^m <= 2^(n - 1) /\ 2^(n - 1) \in Nat
    BY <2>1, PowerMonotone, PowerPositive
  <2>3. n > 0
    BY <1>4, <1>1, <1>2
  <2> QED BY <2>2, <2>3, <1>1, <1>2, <1>3
<1>5. ASSUME m > n PROVE m = n + 1 /\ x + 1 = 2^n
  <2>1. m - 1 \in Nat /\ n \in Nat /\ n <= m - 1 /\ m - 1 <= WIDTH /\ m > 0 /\ m - 1 \in 0 .. WIDTH
    BY <1>5, <1>1, <1>2, WidthAssumption
  <2>2. 2^n <= 2^(m - 1) /\ 2^(m - 1) \in Nat
    BY <2>1, PowerMonotone, PowerPositive
  <2>3. x + 1 = 2^n /\ 2^(m - 1) = 2^n
    BY <2>1, <2>2, <1>1, <1>2, <1>3
  <2>4. ASSUME m # n + 1 PROVE FALSE
    <3>1. n + 1 \in Nat /\ n + 1 <= m - 1 /\ n \in 0 .. WIDTH - 1
      BY <1>1, <1>2, <1>5, <2>4, WidthAssumption
    <3>2. 2^(n + 1) <= 2^(m - 1)
      BY <3>1, <2>1, PowerMonotone
    <3>3. 2^(n + 1) = 2 * 2^n
      BY <3>1, PowerAssumption
    <3>4. 2^n > 0
      BY <1>1, PowerPositive
    <3> QED BY <3>2, <3>3, <3>4, <2>3, <1>3
  <2> QED BY <2>3, <2>4
<1> QED BY <1>1, <1>2, <1>4, <1>5 DEF n, m

\* The next denominator is shifted as far, or it is the power of two that the
\* pre-shift brings back to the precision it keeps.
LEMMA ExcessNext ==
  ASSUME NEW x \in U128, x >= 1, x + 1 \in U128
  PROVE  LET e == Excess(x)
             f == Excess(x + 1)
         IN  /\ e \in Nat /\ f \in Nat
             /\ \/ f = e
                \/ /\ f = e + 1 /\ e + (WIDTH - 2 - SCALE) <= WIDTH
                   /\ x + 1 = 2^(e + (WIDTH - 2 - SCALE))
<1> DEFINE n == BitLen(x)
           m == BitLen(x + 1)
           K == WIDTH - 2 - SCALE
<1>1. n \in 0 .. WIDTH /\ m \in 0 .. WIDTH /\ (m = n \/ (m = n + 1 /\ x + 1 = 2^n))
  BY BitLenNext
<1>2. Excess(x) = AtLeast(n - K, 0) /\ Excess(x + 1) = AtLeast(m - K, 0)
  BY DEF Excess
<1>3. K \in Nat /\ WIDTH \in Nat
  BY WidthAssumption, ScaleAssumption
<1> HIDE DEF n, m, K
<1> DEFINE e == AtLeast(n - K, 0)
           f == AtLeast(m - K, 0)
<1>4. e \in Nat /\ f \in Nat
  BY <1>1, <1>3 DEF AtLeast
<1>5. f = e \/ (f = e + 1 /\ e + K = n /\ m = n + 1)
  BY <1>1, <1>3 DEF AtLeast
<1> HIDE DEF e, f
<1>6. f = e \/ (f = e + 1 /\ e + K <= WIDTH /\ x + 1 = 2^(e + K))
  <2>1. CASE f = e
    BY <2>1
  <2>2. CASE f = e + 1 /\ e + K = n /\ m = n + 1
    <3>1. x + 1 = 2^n /\ n <= WIDTH
      BY <2>2, <1>1
    <3> QED BY <3>1, <2>2
  <2> QED BY <2>1, <2>2, <1>5
<1> QED BY <1>2, <1>4, <1>6 DEF K, e, f

\* A larger denominator does not raise ratio_up: across the pre-shift's next
\* bit it is the sum that the shift gains and the grid's width that decide.
LEMMA RatioUpFalls ==
  ASSUME NEW num \in Nat, num >= 1, NEW den \in U128, num <= den, den + 1 \in U128
  PROVE  /\ ratio_up(num, den) \in Nat /\ ratio_up(num, den + 1) \in Nat
         /\ ratio_up(num, den + 1) <= ratio_up(num, den)
<1> DEFINE e == Excess(den)
           f == Excess(den + 1)
           K == WIDTH - 2 - SCALE
           a == Shr(num, e)
           s == Shr(den, e)
           b == Shr(num, f)
           t == Shr(den + 1, f)
           old == ratio_up(num, den)
           new == ratio_up(num, den + 1)
<1>1. /\ den \in Nat /\ den >= 1 /\ den + 1 >= 1 /\ num <= den + 1
  BY DEF U128
<1>2. old \in Nat /\ new \in Nat
  BY <1>1, RatiosAreNumbers
<1>3. /\ e \in Nat /\ f \in Nat
      /\ f = e \/ (f = e + 1 /\ e + K <= WIDTH /\ den + 1 = 2^(e + K))
  BY <1>1, ExcessNext
<1>4. /\ 2^e \in Nat /\ 2^e > 0 /\ a \in Nat /\ s \in Nat /\ s >= 1
      /\ 2^e * a <= num /\ num < 2^e * a + 2^e
      /\ 2^e * s <= den /\ den < 2^e * s + 2^e
  BY <1>1, PreShift
<1>5. /\ 2^f \in Nat /\ 2^f > 0 /\ b \in Nat /\ t \in Nat /\ t >= 1
      /\ 2^f * b <= num /\ num < 2^f * b + 2^f
      /\ 2^f * t <= den + 1 /\ den + 1 < 2^f * t + 2^f
  BY <1>1, PreShift
<1>6. old = IF e > 0 THEN CeilDiv((a + 1) * ONE, s) ELSE CeilDiv(num * ONE, den)
  BY DEF ratio_up
<1>7. new = IF f > 0 THEN CeilDiv((b + 1) * ONE, t) ELSE CeilDiv(num * ONE, den + 1)
  BY DEF ratio_up
<1>8. ONE \in Nat /\ ONE >= 2 /\ K \in Nat /\ K >= SCALE + 3 /\ SCALE \in Nat /\ K <= WIDTH
  BY PoolScales, WidthAssumption, ScaleAssumption
<1>9. f = e => a = b /\ s <= t
  <2> SUFFICES ASSUME f = e PROVE a = b /\ s <= t
    OBVIOUS
  <2>1. a = b
    OBVIOUS
  <2>2. s <= t
    <3> DEFINE d == 2^e
    <3>1. d * t <= den + 1 /\ den + 1 < d * t + d /\ d * s <= den /\ d \in Nat /\ d > 0
      BY <1>4, <1>5
    <3> HIDE DEF a, s, b, t, d, e, f
    <3>2. d * s < d * (t + 1)
      <4>1. d * (t + 1) = d * t + d /\ d * s \in Nat /\ d * t \in Nat
        BY <3>1, <1>4, <1>5
      <4> QED BY <4>1, <3>1, <1>1
    <3> QED BY <3>1, <3>2, <1>4, <1>5, Cancel
  <2> QED BY <2>1, <2>2
<1> HIDE DEF e, f, a, s, b, t, old, new, K
<1>10. ASSUME f = e PROVE new <= old
  <2>1. CASE e > 0
    <3>1. (a + 1) * ONE \in Nat /\ s > 0
      BY <1>4, <1>8
    <3>2. CeilDiv((a + 1) * ONE, t) <= CeilDiv((a + 1) * ONE, s)
      BY <3>1, <1>4, <1>5, <1>9, <1>10, CeilingMonotone
    <3> QED BY <3>2, <2>1, <1>6, <1>7, <1>9, <1>10
  <2>2. CASE ~(e > 0)
    <3>1. num * ONE \in Nat /\ den > 0 /\ den + 1 \in Nat /\ den <= den + 1
      BY <1>1, <1>8
    <3>2. CeilDiv(num * ONE, den + 1) <= CeilDiv(num * ONE, den)
      BY <3>1, <1>1, CeilingMonotone
    <3> QED BY <3>2, <2>2, <1>6, <1>7, <1>10
  <2> QED BY <2>1, <2>2
<1>11. ASSUME f = e + 1, e + K <= WIDTH, den + 1 = 2^(e + K) PROVE new <= old
  <2> DEFINE d == 2^e
             c == 2^(K - 1 - SCALE)
             U == 2^(K - 1)
             A == IF e > 0 THEN a + 1 ELSE num
             S == IF e > 0 THEN s ELSE den
  <2>1. c \in Nat /\ c > 0 /\ U \in Nat /\ U = c * ONE /\ 2^K = 2 * U /\ 2^f = 2 * d
        /\ 2^(e + K) = d * (2 * U)
    <3>1. K - 1 - SCALE \in 0 .. WIDTH /\ K - 1 \in 0 .. WIDTH - 1 /\ e \in 0 .. WIDTH - 1
          /\ K - 1 - SCALE \in Nat /\ (K - 1 - SCALE) + SCALE = K - 1 /\ (K - 1) + 1 = K
          /\ K - 1 <= WIDTH /\ WIDTH \in Nat
      BY <1>3, <1>8, <1>11, WidthAssumption
    <3>2. c \in Nat /\ c > 0 /\ U \in Nat
      BY <3>1, PowerPositive
    <3>3. 2^((K - 1 - SCALE) + SCALE) = c * 2^SCALE
      BY <3>1, <1>8, PowerAdds
    <3>4. 2^((K - 1) + 1) = 2 * U /\ 2^(e + 1) = 2 * d
      BY <3>1, PowerAssumption
    <3>5. 2^(e + K) = d * 2^K
      BY <1>3, <1>8, <1>11, PowerAdds
    <3> QED BY <3>1, <3>2, <3>3, <3>4, <3>5, <1>11 DEF ONE
  <2>2. d \in Nat /\ d > 0 /\ 2 * (c * ONE) * d = den + 1
    <3>1. d * (2 * U) = 2 * (c * ONE) * d
      <4> HIDE DEF U, c, d
      <4> QED BY <2>1, <1>4, <1>8 DEF d
    <3> QED BY <3>1, <2>1, <1>4, <1>11
  <2> DEFINE V == 2 * (c * ONE)
  <2>3. V \in Nat /\ V * d = den + 1 /\ V = 2 * U
    BY <2>1, <2>2, <1>8
  <2>4. 2 * d * b <= num /\ 2 * d * t <= den + 1 /\ den + 1 < 2 * d * t + 2 * d
    BY <2>1, <1>5
  <2> HIDE DEF d, c, U, V
  <2>5. A \in Nat /\ A >= 1 /\ S \in Nat /\ S >= 1 /\ S <= V - 1 /\ 2 * b <= A
        /\ old = CeilDiv(A * ONE, S)
    <3>1. CASE e > 0
      <4>1. s <= V - 1
        <5>1. d * s < d * ((V - 1) + 1)
          <6>1. d * ((V - 1) + 1) = V * d
            BY <2>2, <2>3
          <6>2. d * s <= den
            BY <1>4 DEF d
          <6>3. d * s \in Nat
            BY <2>2, <1>4
          <6> QED BY <6>1, <6>2, <6>3, <2>3, <1>1
        <5> QED BY <5>1, <2>2, <2>3, <1>4, Cancel
      <4>2. 2 * b <= a
        <5>1. d * (2 * b) < d * (a + 1)
          <6>1. num < d * a + d
            BY <1>4 DEF d
          <6>2. d * (a + 1) = d * a + d /\ d * (2 * b) = 2 * d * b
            BY <2>2, <1>4, <1>5
          <6>3. num < d * (a + 1)
            BY <6>1, <6>2
          <6>4. d * (2 * b) <= num
            BY <6>2, <2>4
          <6>5. d * (2 * b) \in Int /\ d * (a + 1) \in Int
            BY <2>2, <1>4, <1>5
          <6> HIDE DEF A, S
          <6> QED BY <6>3, <6>4, <6>5
        <5> QED BY <5>1, <2>2, <1>4, <1>5, Cancel
      <4>3. A = a + 1 /\ S = s
        BY <3>1
      <4> HIDE DEF A, S
      <4> QED BY <4>1, <4>2, <4>3, <3>1, <1>4, <1>5, <1>6
    <3>2. CASE ~(e > 0)
      <4>1. e = 0 /\ d = 1
        <5>1. e = 0
          BY <3>2, <1>3
        <5>2. 2^e = 1
          BY <5>1, PowerAssumption
        <5> QED BY <5>1, <5>2 DEF d
      <4>2. 2 * b <= num /\ V = den + 1
        <5>1. 2 * d * b = 2 * b /\ V * d = V
          BY <4>1, <1>5, <2>3
        <5> QED BY <5>1, <2>3, <2>4
      <4>3. A = num /\ S = den
        BY <3>2
      <4> HIDE DEF A, S
      <4> QED BY <4>2, <4>3, <3>2, <1>1, <1>6
    <3> QED BY <3>1, <3>2
  <2>6. t = U
    <3>1. (2 * d) * t <= (2 * d) * U /\ (2 * d) * U < (2 * d) * (t + 1)
      <4>1. (2 * d) * U = V * d
        BY <2>1, <2>2, <2>3
      <4>2. (2 * d) * t = 2 * d * t /\ (2 * d) * (t + 1) = 2 * d * t + 2 * d
        BY <2>2, <1>5
      <4> QED BY <4>1, <4>2, <2>3, <2>4
    <3>2. 2 * d \in Nat /\ 2 * d > 0 /\ t \in Int /\ U \in Int
      BY <2>1, <2>2, <1>5
    <3>3. (2 * d) * t < (2 * d) * (U + 1)
      <4>1. (2 * d) * (U + 1) = (2 * d) * U + 2 * d /\ (2 * d) * U \in Int /\ (2 * d) * t \in Int
        BY <3>2
      <4> QED BY <4>1, <3>1, <3>2
    <3>4. t <= U
      BY <3>2, <3>3, Cancel
    <3>5. U <= t
      BY <3>1, <3>2, Cancel
    <3> QED BY <3>2, <3>4, <3>5
  <2>7. old \in Nat /\ A * ONE <= S * old
    <3>1. A * ONE \in Nat /\ S > 0
      BY <2>5, <1>8
    <3> HIDE DEF A, S
    <3> QED BY <3>1, <2>5, CeilDivBounds
  <2> HIDE DEF A, S
  <2>8. A < 2 * (c * old)
    <3> DEFINE h == c * old
    <3>1. h \in Nat
      BY <2>1, <2>7
    <3>2. S * old <= (V - 1) * old
      <4>1. V - 1 \in Nat
        BY <2>5, <2>3
      <4> QED BY <4>1, <2>5, <2>7, ProductBound
    <3>3. (V - 1) * old = ONE * (2 * h) - old
      BY <2>1, <2>7, <1>8 DEF V
    <3>4. old # 0
      <4> SUFFICES ASSUME old = 0 PROVE FALSE
        OBVIOUS
      <4>1. S * old = 0
        BY <2>5
      <4>2. 1 * 1 <= A * ONE
        BY <2>5, <1>8, ProductBound
      <4>3. A * ONE \in Nat
        BY <2>5, <1>8
      <4> QED BY <4>1, <4>2, <4>3, <2>7
    <3> HIDE DEF h
    <3>5. ONE * A < ONE * (2 * h)
      <4>1. ONE * A = A * ONE /\ A * ONE \in Nat /\ ONE * (2 * h) \in Nat /\ S * old \in Nat
        BY <2>5, <2>7, <1>8, <3>1
      <4> QED BY <4>1, <2>7, <3>2, <3>3, <3>4
    <3>6. ONE * A < ONE * ((2 * h - 1) + 1)
      BY <3>5, <3>1
    <3>7. A <= 2 * h - 1
      BY <3>6, <3>1, <2>5, <1>8, Cancel
    <3> QED BY <3>7, <3>1, <2>5 DEF h
  <2>9. (b + 1) * ONE <= U * old
    <3> DEFINE h == c * old
    <3>1. h \in Nat /\ b + 1 <= h
      <4>1. h \in Nat
        BY <2>1, <2>7
      <4> HIDE DEF h
      <4>2. 2 * b < 2 * h
        BY <2>5, <2>8, <4>1, <1>5 DEF h
      <4> QED BY <4>1, <4>2, <1>5
    <3>2. U * old = h * ONE
      BY <2>1, <2>7, <1>8
    <3> HIDE DEF h
    <3>3. (b + 1) * ONE <= h * ONE
      BY <3>1, <1>5, <1>8, ProductBound
    <3> QED BY <3>2, <3>3
  <2>10. new = CeilDiv((b + 1) * ONE, U)
    BY <2>6, <1>3, <1>7, <1>11
  <2>11. (b + 1) * ONE \in Nat /\ U > 0
    BY <2>6, <1>5, <1>8
  <2> QED BY <2>1, <2>7, <2>9, <2>10, <2>11, CeilDivLeast
<1> QED BY <1>2, <1>3, <1>10, <1>11 DEF K, old, new

\* A larger numerator does not lower ratio_down.
LEMMA RatioDownGrows ==
  ASSUME NEW num \in Nat, NEW den \in U128, den >= 1, num + 1 <= den
  PROVE  ratio_down(num, den) <= ratio_down(num + 1, den)
<1> DEFINE e == Excess(den)
           a == Shr(num, e)
           b == Shr(num + 1, e)
           s == Shr(den, e)
<1>1. /\ 2^e \in Nat /\ 2^e > 0 /\ a \in Nat /\ s \in Nat /\ s >= 1
      /\ 2^e * a <= num /\ den \in Nat
  BY PreShift DEF U128
<1>2. b \in Nat /\ num + 1 < 2^e * b + 2^e
  BY PreShift
<1>3. ratio_down(num, den) = IF e > 0 THEN (a * ONE) \div (s + 1) ELSE (num * ONE) \div den
  BY DEF ratio_down
<1>4. ratio_down(num + 1, den)
        = IF e > 0 THEN (b * ONE) \div (s + 1) ELSE ((num + 1) * ONE) \div den
  BY DEF ratio_down
<1>5. a <= b
  <2> DEFINE d == 2^e
  <2> HIDE DEF a, b, d
  <2>1. d \in Nat /\ d > 0 /\ d * a <= num /\ num + 1 < d * b + d
    BY <1>1, <1>2 DEF d
  <2>2. d * a < d * (b + 1)
    <3>1. d * (b + 1) = d * b + d /\ d * a \in Nat /\ d * b \in Nat
      BY <2>1, <1>1, <1>2
    <3> QED BY <3>1, <2>1
  <2> QED BY <2>1, <2>2, <1>1, <1>2, Cancel
<1> HIDE DEF e, a, b, s
<1>6. ONE \in Nat /\ a * ONE <= b * ONE /\ num * ONE <= (num + 1) * ONE
      /\ a * ONE \in Nat /\ b * ONE \in Nat /\ num * ONE \in Nat /\ (num + 1) * ONE \in Nat
  <2>1. ONE \in Nat
    BY PoolScales
  <2> QED BY <2>1, <1>1, <1>2, <1>5, ProductBound
<1>7. \A x \in Nat, z \in Nat, w \in Nat : w > 0 /\ x <= z => x \div w <= z \div w
  <2> TAKE x \in Nat, z \in Nat, w \in Nat
  <2> SUFFICES ASSUME w > 0, x <= z PROVE x \div w <= z \div w
    OBVIOUS
  <2>1. x <= z + 0
    OBVIOUS
  <2>2. x \div w <= z \div w + 0 /\ z \div w \in Int
    BY <2>1, QuotientFollows
  <2> DEFINE q == z \div w
  <2> HIDE DEF q
  <2>3. q + 0 = q
    BY <2>2 DEF q
  <2> QED BY <2>2, <2>3 DEF q
<1>8. (a * ONE) \div (s + 1) <= (b * ONE) \div (s + 1)
  <2>1. s + 1 \in Nat /\ s + 1 > 0
    BY <1>1
  <2> QED BY <2>1, <1>6, <1>7
<1>9. (num * ONE) \div den <= ((num + 1) * ONE) \div den
  <2>1. den > 0
    BY <1>1
  <2> QED BY <2>1, <1>1, <1>6, <1>7
<1> QED BY <1>3, <1>4, <1>8, <1>9

\* The exponent of a trade, rounded down or up, is in the domain and no
\* smaller than the least ratio, which makes the power grow with its base.
LEMMA ExponentSteep ==
  ASSUME NEW u \in U128, NEW v \in U128, u >= 1, v >= 1,
         u <= MAX_RATIO * v, v <= MAX_RATIO * u,
         NEW y, y = (u * ONE) \div v \/ y = CeilDiv(u * ONE, v)
  PROVE  y \in 1 .. MAX_RATIO * ONE /\ 5 * ONE <= y * (GUARD - 4)
<1> DEFINE O == ONE
           M == MAX_RATIO
           r == O \div M
           x == u * O
           h == GUARD - 4
<1>1. /\ u \in Nat /\ v \in Nat /\ v > 0 /\ O \in Nat /\ M \in Nat /\ M > 0
      /\ v <= M * u /\ h \in Nat /\ 5 * O <= r * h
  BY PoolScales, ScaleAssumption, GuardFacts, SlopeAssumption DEF U128
<1>2. y \in 1 .. MAX_RATIO * ONE
  BY ExponentsInDomain
<1>3. MAX_RATIO * ONE \in Nat
  BY PoolScales
<1>4. y \in Nat
  BY <1>2, <1>3
<1>5. y = x \div v \/ y = CeilDiv(x, v)
  OBVIOUS
<1> HIDE DEF O, M, h
<1>6. r \in Nat /\ M * r <= O
  BY <1>1, DivisionBounds, DivisionNat
<1> HIDE DEF r
<1>7. x \in Nat /\ v * r <= x
  <2>1. v * r <= (M * u) * r
    <3>1. M * u \in Nat
      BY <1>1
    <3> QED BY <3>1, <1>1, <1>6, ProductBound
  <2>2. (M * u) * r = u * (M * r) /\ M * r \in Nat
    BY <1>1, <1>6
  <2>3. u * (M * r) <= u * O
    BY <2>2, <1>1, <1>6, ProductBound
  <2>4. u * O \in Nat /\ v * r \in Nat /\ (M * u) * r \in Nat
    BY <1>1, <1>6
  <2> QED BY <2>1, <2>2, <2>3, <2>4
<1> HIDE DEF x
<1>8. r <= y
  <2>1. CASE y = x \div v
    BY <2>1, <1>1, <1>6, <1>7, QuotientAbove
  <2>2. CASE y = CeilDiv(x, v)
    <3>1. x <= v * y
      BY <2>2, <1>1, <1>7, CeilDivBounds
    <3>2. v * r < v * (y + 1)
      <4>1. v * (y + 1) = v * y + v /\ v * y \in Nat /\ v * r \in Nat
        BY <1>1, <1>4, <1>6
      <4> QED BY <4>1, <3>1, <1>1, <1>7
    <3> QED BY <3>2, <1>1, <1>4, <1>6, Cancel
  <2> QED BY <2>1, <2>2, <1>5
<1>9. 5 * O <= y * h
  <2>1. r * h <= y * h /\ r * h \in Nat /\ y * h \in Nat
    BY <1>1, <1>4, <1>6, <1>8, ProductBound
  <2> QED BY <2>1, <1>1
<1> QED BY <1>2, <1>9 DEF O, h

\* The floor that a payout is.
LEMMA PayoutFloor ==
  ASSUME NEW b \in U128, b >= 1, NEW share \in 0 .. ONE_62 - 1
  PROVE  Payout(b, share).value = (b * share) \div ONE_62
<1> DEFINE q == Shr(b * share, LN_SCALE)
<1>1. ~Panicked(Payout(b, share))
  BY PayoutBelowReserve
<1>2. share \in U128 /\ LN_SCALE \in 1 .. WIDTH - 1
  <2> DEFINE V == ONE_62
  <2>1. /\ V \in U128 /\ V \in Nat /\ WORD \in Nat
        /\ share \in 0 .. V - 1 /\ LN_SCALE \in 1 .. WIDTH - 1
    BY PoolScales
  <2> HIDE DEF V
  <2> QED BY <2>1 DEF U128
<1>3. Payout(b, share) = IF q \in U128 THEN Value(q) ELSE Panic("unrepresentable")
  BY <1>2, MulShrFloor DEF Payout
<1> HIDE DEF q
<1>4. Payout(b, share).value = q
  BY <1>1, <1>3 DEF Panicked, Panic, Value
<1> QED BY <1>4 DEF q, Shr, ONE_62

\* A larger share of a reserve pays no less.
LEMMA PayoutGrows ==
  ASSUME NEW b \in U128, b >= 1, NEW v \in 0 .. ONE_62 - 1, NEW w \in 0 .. ONE_62 - 1, v <= w
  PROVE  Payout(b, v).value <= Payout(b, w).value
<1> DEFINE V == ONE_62
<1>1. V \in Nat /\ V > 0 /\ b \in Nat
  BY PoolScales DEF U128
<1>2. v \in Nat /\ w \in Nat
  OBVIOUS
<1>3. Payout(b, v).value = (b * v) \div V /\ Payout(b, w).value = (b * w) \div V
  BY PayoutFloor
<1> HIDE DEF V
<1> DEFINE x == b * v
           y == b * w
<1>4. x \in Nat /\ y \in Nat /\ x <= y + 0
  BY <1>1, <1>2, ProductBound
<1> HIDE DEF x, y
<1>5. x \div V <= y \div V + 0 /\ y \div V \in Int
  BY <1>1, <1>4, QuotientFollows
<1> DEFINE q == y \div V
<1> HIDE DEF q
<1>6. q + 0 = q
  BY <1>5 DEF q
<1>7. x \div V <= q
  BY <1>5, <1>6 DEF q
<1> QED BY <1>3, <1>7 DEF x, y, q

\* A smaller power leaves a larger complement and a smaller padded power.
LEMMA PaddedGrows ==
  ASSUME NEW x \in 1 .. ONE - 1, NEW z \in 1 .. ONE - 1, x <= z,
         NEW y \in 1 .. MAX_RATIO * ONE, 5 * ONE <= y * (GUARD - 4)
  PROVE  /\ Returns("one_minus_pow_62", z, y) \in 0 .. ONE_62 - 1
         /\ Returns("one_minus_pow_62", x, y) \in 0 .. ONE_62 - 1
         /\ Returns("one_minus_pow_62", z, y) <= Returns("one_minus_pow_62", x, y)
         /\ Returns("pow_62_down", x, y) <= Returns("pow_62_down", z, y)
<1> DEFINE v == pow_inner(x, y)
           w == pow_inner(z, y)
           V == ONE_62
<1>1. y \in I128
  BY PoolScales
<1>2. /\ v \in 0 .. V /\ w \in 0 .. V
      /\ Returns("one_minus_pow_62", z, y) \in 0 .. V - 1
      /\ Returns("one_minus_pow_62", x, y) \in 0 .. V - 1
  BY <1>1, PowersInRange
<1>3. v <= w
  <2>1. x \in 1 .. ONE /\ z \in 1 .. ONE
    BY PoolScales
  <2> QED BY <2>1, PowRises
<1>4. V \in Nat /\ PAD_62 \in Nat
  BY PoolScales, PadAssumption
<1>5. \A b, o : o \in Ops62 => Returns(o, b, y) = Rounded(o, pow_inner(b, y))
  BY DEF Returns, Ops62, PowOps, RawOps, ExpOps, Saturates
<1>6. /\ Returns("one_minus_pow_62", x, y) = AtLeast(V - v - PAD_62, 0)
      /\ Returns("one_minus_pow_62", z, y) = AtLeast(V - w - PAD_62, 0)
      /\ Returns("pow_62_down", x, y) = AtLeast(v - PAD_62, 0)
      /\ Returns("pow_62_down", z, y) = AtLeast(w - PAD_62, 0)
  BY <1>5 DEF Ops62, Rounded, RawOps
<1> HIDE DEF v, w, V
<1>7. /\ AtLeast(V - w - PAD_62, 0) <= AtLeast(V - v - PAD_62, 0)
      /\ AtLeast(v - PAD_62, 0) <= AtLeast(w - PAD_62, 0)
  BY <1>2, <1>3, <1>4 DEF AtLeast
<1> QED BY <1>2, <1>6, <1>7 DEF V

\* Another unit paid in pays no less out.
LEMMA OutGrows ==
  ASSUME NEW bi \in U128, NEW wi \in U128, NEW bo \in U128, NEW wo \in U128,
         NEW a \in U128, OutEnvelope(bi, wi, bo, wo, a), OutEnvelope(bi, wi, bo, wo, a + 1)
  PROVE  calc_out_given_in(bi, wi, bo, wo, a).value
           <= calc_out_given_in(bi, wi, bo, wo, a + 1).value
<1> DEFINE y == OutExponent(wi, wo)
           z == ratio_up(bi, bi + a)
           x == ratio_up(bi, bi + (a + 1))
           S(base) == Returns("one_minus_pow_62", base, y)
           paid == calc_out_given_in(bi, wi, bo, wo, a)
           more == calc_out_given_in(bi, wi, bo, wo, a + 1)
<1>1. /\ bi >= 1 /\ bo >= 1 /\ bi + a \in U128 /\ wi >= 1 /\ wo >= 1 /\ bi + (a + 1) \in U128
      /\ wi <= MAX_RATIO * wo /\ wo <= MAX_RATIO * wi
      /\ bi \in Nat /\ a \in Nat /\ bi <= bi + a /\ bi + (a + 1) = (bi + a) + 1
      /\ a + 1 \in U128
  <2>1. /\ bi >= 1 /\ bo >= 1 /\ bi + a \in U128 /\ wi >= 1 /\ wo >= 1
        /\ wi <= MAX_RATIO * wo /\ wo <= MAX_RATIO * wi
    BY DEF OutEnvelope, check_weights
  <2>2. bi + (a + 1) \in U128
    BY DEF OutEnvelope
  <2>3. WORD \in Nat
    BY PoolScales
  <2> QED BY <2>1, <2>2, <2>3 DEF U128
<1>2. /\ z \in Nat /\ z >= 1 /\ (z < ONE => S(z) \in 0 .. ONE_62 - 1)
      /\ paid = IF z >= ONE THEN Value(0) ELSE Payout(bo, S(z))
  BY OutGivenInPrices
<1>3. /\ x \in Nat /\ x >= 1 /\ (x < ONE => S(x) \in 0 .. ONE_62 - 1)
      /\ more = IF x >= ONE THEN Value(0) ELSE Payout(bo, S(x))
  <2> DEFINE c == a + 1
  <2>1. c \in U128 /\ OutEnvelope(bi, wi, bo, wo, c)
    BY <1>1
  <2> HIDE DEF c
  <2>2. LET base == ratio_up(bi, bi + c)
        IN  /\ base \in Nat /\ base >= 1 /\ (base < ONE => S(base) \in 0 .. ONE_62 - 1)
            /\ calc_out_given_in(bi, wi, bo, wo, c)
                 = IF base >= ONE THEN Value(0) ELSE Payout(bo, S(base))
    BY <2>1, OutGivenInPrices
  <2> QED BY <2>2 DEF c
<1>4. x <= z
  <2> DEFINE den == bi + a
  <2>1. den \in U128 /\ den + 1 \in U128 /\ bi <= den /\ bi + (a + 1) = den + 1
    BY <1>1
  <2> HIDE DEF den
  <2>2. ratio_up(bi, den + 1) <= ratio_up(bi, den)
    BY <2>1, <1>1, RatioUpFalls
  <2> QED BY <2>1, <2>2 DEF den
<1>5. y \in 1 .. MAX_RATIO * ONE /\ 5 * ONE <= y * (GUARD - 4)
  BY <1>1, ExponentSteep DEF OutExponent
<1>6. ONE \in Nat
  BY PoolScales
<1> HIDE DEF x, y, z, S, paid, more
<1>7. CASE z >= ONE
  <2>1. paid.value = 0
    BY <1>2, <1>7 DEF Value
  <2>2. more.value \in Nat
    <3>1. CASE x >= ONE
      BY <3>1, <1>3 DEF Value
    <3>2. CASE ~(x >= ONE)
      <4>1. S(x) \in 0 .. ONE_62 - 1
        BY <3>2, <1>3, <1>6
      <4>2. Payout(bo, S(x)).value \in 0 .. bo - 1
        BY <4>1, <1>1, PayoutBelowReserve
      <4> QED BY <3>2, <4>2, <1>3
    <3> QED BY <3>1, <3>2
  <2> QED BY <2>1, <2>2 DEF paid, more
<1>8. CASE ~(z >= ONE)
  <2>1. x \in 1 .. ONE - 1 /\ z \in 1 .. ONE - 1 /\ ~(x >= ONE)
    BY <1>2, <1>3, <1>4, <1>6, <1>8
  <2>2. S(z) \in 0 .. ONE_62 - 1 /\ S(x) \in 0 .. ONE_62 - 1 /\ S(z) <= S(x)
    BY <2>1, <1>4, <1>5, PaddedGrows DEF S
  <2>3. Payout(bo, S(z)).value <= Payout(bo, S(x)).value
    BY <2>2, <1>1, PayoutGrows
  <2> QED BY <2>1, <2>3, <1>2, <1>3, <1>8 DEF paid, more
<1> QED BY <1>7, <1>8

\* A smaller power asks for a larger payment; where that one fits a word, so
\* does the other.
LEMMA PaymentGrows ==
  ASSUME OVERFLOW_CHECKS, NEW b \in U128,
         NEW p \in 1 .. ONE_62 - 1, NEW r \in 1 .. ONE_62 - 1, r <= p,
         ~Panicked(mul_shr_up(b, PaymentRatio(r), LN_SCALE))
  PROVE  /\ ~Panicked(mul_shr_up(b, PaymentRatio(p), LN_SCALE))
         /\ mul_shr_up(b, PaymentRatio(p), LN_SCALE).value
              <= mul_shr_up(b, PaymentRatio(r), LN_SCALE).value
<1> DEFINE W == ONE_62
           q == PaymentRatio(p)
           s == PaymentRatio(r)
           n == (W - p) * W
           m == (W - r) * W
<1>1. W \in Nat /\ W >= 8 /\ W * W \in U128 /\ b \in Nat /\ WORD \in Nat /\ LN_SCALE \in 1 .. WIDTH - 1
  BY PoolScales DEF U128
<1>2. p \in Nat /\ r \in Nat /\ p > 0 /\ r > 0 /\ p < W /\ r < W
  <2>1. p \in 1 .. W - 1 /\ r \in 1 .. W - 1
    OBVIOUS
  <2> HIDE DEF W
  <2> QED BY <2>1, <1>1
<1>3. q = CeilDiv(n, p) /\ s = CeilDiv(m, r)
  BY DEF PaymentRatio
<1> HIDE DEF W, q, s
<1>4. n \in Nat /\ m \in Nat /\ n <= m /\ m <= W * W
  <2>1. W - p \in Nat /\ W - r \in Nat /\ W - p <= W - r /\ W - r <= W
    BY <1>1, <1>2
  <2>2. (W - p) * W <= (W - r) * W /\ (W - r) * W <= W * W /\ (W - p) * W \in Nat
        /\ (W - r) * W \in Nat
    BY <2>1, <1>1, ProductBound
  <2> QED BY <2>2
<1> HIDE DEF n, m
<1>5. q \in Nat /\ s \in Nat /\ q <= s /\ s <= m
  <2>1. CeilDiv(n, p) \in Nat /\ CeilDiv(m, r) \in Nat /\ CeilDiv(n, p) <= CeilDiv(m, r)
    BY <1>2, <1>4, CeilingMonotone
  <2>2. CeilDiv(m, r) <= m
    BY <1>2, <1>4, CeilDivBounds
  <2> QED BY <2>1, <2>2, <1>3
<1>6. q \in U128 /\ s \in U128
  <2> DEFINE Q == W * W
  <2>1. Q \in U128 /\ m <= Q
    BY <1>1, <1>4
  <2> HIDE DEF Q
  <2> QED BY <2>1, <1>1, <1>4, <1>5 DEF U128
<1> DEFINE c == CeilDiv(b * q, 2^LN_SCALE)
           d == CeilDiv(b * s, 2^LN_SCALE)
<1>7. c <= d /\ c \in Nat /\ d \in Nat
  <2>1. b * q \in Nat /\ b * s \in Nat /\ b * q <= b * s
    BY <1>1, <1>5, ProductBound
  <2>2. 2^LN_SCALE = W
    BY DEF W, ONE_62
  <2> DEFINE k == b * q
             l == b * s
  <2>3. k \in Nat /\ l \in Nat /\ k <= l
    BY <2>1
  <2> HIDE DEF k, l
  <2>4. W > 0
    BY <1>1
  <2>5. CeilDiv(k, W) <= CeilDiv(l, W)
    BY <2>3, <2>4, <1>1, CeilingMonotone
  <2>6. CeilDiv(k, W) \in Nat /\ CeilDiv(l, W) \in Nat
    BY <2>3, <2>4, <1>1, CeilDivBounds
  <2> QED BY <2>2, <2>5, <2>6 DEF k, l
<1>8. /\ c \in U128 => mul_shr_up(b, q, LN_SCALE) = Value(c)
      /\ c \notin U128 => Panicked(mul_shr_up(b, q, LN_SCALE))
  BY <1>1, <1>6, MulShrUpCeiling
<1>9. /\ d \in U128 => mul_shr_up(b, s, LN_SCALE) = Value(d)
      /\ d \notin U128 => Panicked(mul_shr_up(b, s, LN_SCALE))
  BY <1>1, <1>6, MulShrUpCeiling
<1> HIDE DEF c, d
<1>10. d \in U128 /\ c \in U128
  <2>1. d \in U128
    BY <1>9 DEF s
  <2> QED BY <2>1, <1>1, <1>7 DEF U128
<1>11. mul_shr_up(b, q, LN_SCALE) = Value(c) /\ mul_shr_up(b, s, LN_SCALE) = Value(d)
  BY <1>8, <1>9, <1>10
<1> QED BY <1>7, <1>11 DEF Value, Panicked, q, s

\* Another unit bought costs no less; where it is priced, so is the amount
\* without it.
LEMMA InGrows ==
  ASSUME OVERFLOW_CHECKS, NEW q, IsQuote(q), ~Panicked(InGivenOut(q, q.amount + 1))
  PROVE  /\ ~Panicked(InGivenOut(q, q.amount))
         /\ InGivenOut(q, q.amount).value <= InGivenOut(q, q.amount + 1).value
<1> DEFINE bi == q.balance_in
           wi == q.weight_in
           bo == q.balance_out
           wo == q.weight_out
           a == q.amount
           r == [fn |-> "in_given_out", balance_in |-> bi, weight_in |-> wi,
                 balance_out |-> bo, weight_out |-> wo, amount |-> a + 1]
           y == InExponent(wi, wo)
           z == ratio_down(bo - a, bo)
           x == ratio_down(bo - (a + 1), bo)
           P(base) == Returns("pow_62_down", base, y)
           Pays(p) == mul_shr_up(bi, PaymentRatio(p), LN_SCALE)
<1>1. bi \in U128 /\ wi \in U128 /\ bo \in U128 /\ wo \in U128 /\ a \in U128
  BY DEF IsQuote
<1>2. InGivenOut(q, a) = calc_in_given_out(bi, wi, bo, wo, a)
      /\ InGivenOut(q, a + 1) = calc_in_given_out(bi, wi, bo, wo, a + 1)
      /\ InGivenOut(r, r.amount) = calc_in_given_out(bi, wi, bo, wo, a + 1)
  BY DEF InGivenOut
<1>3. InEnvelope(bi, wi, bo, wo, a + 1)
  BY <1>2 DEF calc_in_given_out, Panicked, Panic
<1>4. /\ bi >= 1 /\ bo >= 1 /\ wi >= 1 /\ wo >= 1 /\ a + 1 <= DrainCap(bo)
      /\ wi <= MAX_RATIO * wo /\ wo <= MAX_RATIO * wi
  BY <1>3 DEF InEnvelope, check_weights
<1>5. a \in Nat /\ bo \in Nat /\ a + 1 <= bo - 1 /\ a + 1 \in U128
  <2>1. DrainCap(bo) \in 0 .. bo - 1
    BY <1>1, <1>4, DrainLeavesSome DEF U128
  <2>2. a \in Nat /\ bo \in Nat /\ WORD \in Nat /\ bo <= WORD - 1
    BY <1>1, PoolScales DEF U128
  <2>3. a + 1 <= bo - 1
    BY <2>1, <2>2, <1>4
  <2> QED BY <2>2, <2>3 DEF U128
<1>6. InEnvelope(bi, wi, bo, wo, a) /\ InEnvelope(bi, wi, bo, wo, a + 1)
  <2>1. DrainCap(bo) \in Nat
    BY <1>1, <1>4, DrainLeavesSome DEF U128
  <2>2. a <= DrainCap(bo)
    BY <2>1, <1>4, <1>5
  <2> QED BY <2>2, <1>3 DEF InEnvelope
<1>7. IsQuote(r) /\ r.amount # 0
      /\ InEnvelope(r.balance_in, r.weight_in, r.balance_out, r.weight_out, r.amount)
  BY <1>1, <1>6, <1>5 DEF IsQuote
<1>8. /\ x \in 1 .. ONE - 1 /\ y \in 1 .. MAX_RATIO * ONE /\ P(x) \in 1 .. ONE_62 - 1
      /\ InGivenOut(q, a + 1) = Pays(P(x))
  <2> HIDE DEF r
  <2>1. LET base == ratio_down(r.balance_out - r.amount, r.balance_out)
            exponent == InExponent(r.weight_in, r.weight_out)
            p62 == Returns("pow_62_down", base, exponent)
        IN  /\ base \in 1 .. ONE - 1 /\ exponent \in 1 .. MAX_RATIO * ONE
            /\ p62 \in 1 .. ONE_62 - 1
            /\ InGivenOut(r, r.amount)
                 = mul_shr_up(r.balance_in, PaymentRatio(p62), LN_SCALE)
    BY <1>7, InGivenOutPrices
  <2>2. /\ r.balance_out = bo /\ r.amount = a + 1 /\ r.weight_in = wi /\ r.weight_out = wo
        /\ r.balance_in = bi
    BY DEF r
  <2> QED BY <2>1, <2>2, <1>2
<1>9. CASE a = 0
  <2>1. InGivenOut(q, a).value = 0 /\ ~Panicked(InGivenOut(q, a))
    BY <1>2, <1>6, <1>9 DEF calc_in_given_out, Value, Panicked
  <2>2. Pays(P(x)).value \in Nat
    <3> DEFINE p == P(x)
    <3>1. p \in 1 .. ONE_62 - 1
      BY <1>8
    <3> HIDE DEF p
    <3>2. mul_shr_up(bi, PaymentRatio(p), LN_SCALE).value \in Nat
      BY <3>1, <1>1, <1>4, PaymentIsPositive
    <3> QED BY <3>2 DEF p
  <2> HIDE DEF P, Pays
  <2> QED BY <2>1, <2>2, <1>8
<1>10. CASE a # 0
  <2>1. z \in 1 .. ONE - 1 /\ P(z) \in 1 .. ONE_62 - 1 /\ InGivenOut(q, a) = Pays(P(z))
    BY <1>6, <1>10, InGivenOutPrices
  <2>2. x <= z
    <3> DEFINE n == bo - (a + 1)
    <3>1. n \in Nat /\ n + 1 = bo - a /\ n + 1 <= bo
      BY <1>5
    <3> HIDE DEF n
    <3>2. ratio_down(n, bo) <= ratio_down(n + 1, bo)
      BY <3>1, <1>1, <1>4, RatioDownGrows
    <3> QED BY <3>1, <3>2 DEF n
  <2>3. 5 * ONE <= y * (GUARD - 4)
    BY <1>1, <1>4, ExponentSteep DEF InExponent
  <2> HIDE DEF x, y, z
  <2>4. P(x) <= P(z)
    BY <2>1, <2>2, <2>3, <1>8, PaddedGrows
  <2> HIDE DEF P
  <2>5. ~Panicked(Pays(P(z))) /\ Pays(P(z)).value <= Pays(P(x)).value
    <3>1. ~Panicked(Pays(P(x)))
      BY <1>8
    <3> QED BY <3>1, <2>1, <2>4, <1>1, <1>8, PaymentGrows
  <2> QED BY <2>1, <2>5, <1>8
<1> QED BY <1>9, <1>10

(***************************************************************************)
(* A larger payment never buys less, however much larger it is: the        *)
(* proptest calc_out_monotone_in_amount at every reserve, weight, amount   *)
(* and extra.                                                              *)
(***************************************************************************)
THEOREM ExactInMonotone ==
  ASSUME NEW bi \in U128, NEW wi \in U128, NEW bo \in U128, NEW wo \in U128,
         NEW a \in U128, NEW c \in U128, a <= c, OutEnvelope(bi, wi, bo, wo, c)
  PROVE  calc_out_given_in(bi, wi, bo, wo, a).value
           <= calc_out_given_in(bi, wi, bo, wo, c).value
<1> DEFINE got(n) == calc_out_given_in(bi, wi, bo, wo, n)
           N == c - a
           S == {i \in Nat : got(a).value <= got(a + i).value}
<1>1. a \in Nat /\ c \in Nat /\ bi \in Nat /\ N \in Nat /\ WORD \in Nat
      /\ \A n \in 0 .. c : n \in U128 /\ n \in Nat
  <2>1. a \in Nat /\ c \in Nat /\ bi \in Nat /\ WORD \in Nat /\ c < WORD
    BY PoolScales DEF U128
  <2> QED BY <2>1 DEF U128
<1>2. \A n \in 0 .. c : OutEnvelope(bi, wi, bo, wo, n)
  <2> TAKE n \in 0 .. c
  <2>1. bi + n \in U128
    <3>1. bi + c < WORD
      BY <1>1 DEF OutEnvelope, U128
    <3> QED BY <1>1, <3>1 DEF U128
  <2> QED BY <2>1 DEF OutEnvelope
<1>3. \A n \in 0 .. c : got(n).value \in Int
  <2> TAKE n \in 0 .. c
  <2>1. n \in U128 /\ ~Panicked(got(n))
    BY <1>1, <1>2, ExactInNeverPanics
  <2> QED BY <2>1, OutBelowReserve
<1>4. \A n \in 0 .. c - 1 : got(n).value <= got(n + 1).value
  <2> TAKE n \in 0 .. c - 1
  <2>1. n \in U128 /\ n \in 0 .. c /\ n + 1 \in 0 .. c
    BY <1>1
  <2> QED BY <2>1, <1>2, OutGrows
<1> HIDE DEF got
<1>5. 0 \in S
  <2>1. a + 0 = a /\ got(a).value \in Int
    BY <1>1, <1>3
  <2> QED BY <2>1
<1>6. \A i \in 1 .. N : i - 1 \in S => i \in S
  <2> SUFFICES ASSUME NEW i \in 1 .. N, i - 1 \in S PROVE i \in S
    OBVIOUS
  <2> DEFINE n == a + (i - 1)
  <2>1. n \in 0 .. c - 1 /\ n + 1 = a + i /\ a \in 0 .. c /\ n \in 0 .. c /\ n + 1 \in 0 .. c
        /\ i \in Nat
    BY <1>1
  <2>2. got(a).value <= got(n).value
    OBVIOUS
  <2> HIDE DEF n
  <2>3. got(n).value <= got(n + 1).value /\ got(a).value \in Int
        /\ got(n).value \in Int /\ got(n + 1).value \in Int
    BY <2>1, <1>3, <1>4
  <2>4. got(a).value <= got(n + 1).value
    BY <2>2, <2>3
  <2> QED BY <2>1, <2>4
<1> HIDE DEF S
<1>7. N \in S
  <2>1. \A i \in 0 .. N : i \in S
    BY <1>1, <1>5, <1>6, Ascent
  <2> QED BY <1>1, <2>1
<1>8. got(a).value <= got(a + N).value /\ a + N = c
  BY <1>1, <1>7 DEF S
<1> QED BY <1>8 DEF got

(***************************************************************************)
(* Where a purchase is priced, so is every smaller one, at no more: the    *)
(* proptest calc_in_positive_and_monotone at every amount, the panic of a  *)
(* payment past the word included.                                         *)
(***************************************************************************)
THEOREM ExactOutMonotone ==
  ASSUME OVERFLOW_CHECKS,
         NEW bi \in U128, NEW wi \in U128, NEW bo \in U128, NEW wo \in U128,
         NEW a \in U128, NEW c \in U128, a <= c,
         ~Panicked(calc_in_given_out(bi, wi, bo, wo, c))
  PROVE  /\ ~Panicked(calc_in_given_out(bi, wi, bo, wo, a))
         /\ calc_in_given_out(bi, wi, bo, wo, a).value
              <= calc_in_given_out(bi, wi, bo, wo, c).value
<1> DEFINE cost(n) == calc_in_given_out(bi, wi, bo, wo, n)
           N == c - a
           S == {i \in Nat : ~Panicked(cost(c - i)) /\ cost(c - i).value <= cost(c).value}
<1>1. a \in Nat /\ c \in Nat /\ N \in Nat /\ \A n \in 0 .. c : n \in U128 /\ n \in Nat
  <2>1. a \in Nat /\ c \in Nat /\ WORD \in Nat /\ c < WORD
    BY PoolScales DEF U128
  <2> QED BY <2>1 DEF U128
<1>2. \A n \in 0 .. c : ~Panicked(cost(n)) => cost(n).value \in Int
  <2> TAKE n \in 0 .. c
  <2>1. n \in U128
    BY <1>1
  <2> QED BY <2>1, InIsPaid
<1>3. \A n \in 0 .. c - 1 : ~Panicked(cost(n + 1)) =>
        ~Panicked(cost(n)) /\ cost(n).value <= cost(n + 1).value
  <2> SUFFICES ASSUME NEW n \in 0 .. c - 1, ~Panicked(cost(n + 1))
               PROVE  ~Panicked(cost(n)) /\ cost(n).value <= cost(n + 1).value
    OBVIOUS
  <2> DEFINE q == [fn |-> "in_given_out", balance_in |-> bi, weight_in |-> wi,
                   balance_out |-> bo, weight_out |-> wo, amount |-> n]
  <2>1. n \in U128
    BY <1>1
  <2>2. IsQuote(q) /\ q.amount = n
    BY <2>1 DEF IsQuote
  <2>3. \A k : InGivenOut(q, k) = cost(k)
    BY DEF InGivenOut
  <2> HIDE DEF q, cost
  <2> QED BY <2>2, <2>3, InGrows
<1>4. 0 \in S
  <2>1. c - 0 = c /\ ~Panicked(cost(c)) /\ c \in 0 .. c
    BY <1>1
  <2> HIDE DEF cost
  <2>2. cost(c).value \in Int
    BY <2>1, <1>2
  <2> QED BY <2>1, <2>2
<1> HIDE DEF cost
<1>5. \A i \in 1 .. N : i - 1 \in S => i \in S
  <2> SUFFICES ASSUME NEW i \in 1 .. N, i - 1 \in S PROVE i \in S
    OBVIOUS
  <2> DEFINE n == c - i
  <2>1. n \in 0 .. c - 1 /\ n + 1 = c - (i - 1) /\ c \in 0 .. c /\ n \in 0 .. c /\ n + 1 \in 0 .. c
        /\ i \in Nat
    BY <1>1
  <2>2. ~Panicked(cost(n + 1)) /\ cost(n + 1).value <= cost(c).value
    BY <2>1
  <2>3. ~Panicked(cost(c))
    BY DEF cost
  <2> HIDE DEF n
  <2>4. ~Panicked(cost(n)) /\ cost(n).value <= cost(n + 1).value
    BY <2>1, <2>2, <1>3
  <2>5. cost(n).value \in Int /\ cost(n + 1).value \in Int /\ cost(c).value \in Int
    BY <2>1, <2>2, <2>3, <2>4, <1>2
  <2>6. cost(n).value <= cost(c).value
    BY <2>2, <2>4, <2>5
  <2> QED BY <2>1, <2>4, <2>6 DEF n
<1> HIDE DEF S
<1>6. N \in S
  <2>1. \A i \in 0 .. N : i \in S
    BY <1>1, <1>4, <1>5, Ascent
  <2> QED BY <1>1, <2>1
<1>7. ~Panicked(cost(c - N)) /\ cost(c - N).value <= cost(c).value /\ c - N = a
  BY <1>1, <1>6 DEF S
<1> QED BY <1>7 DEF cost

(***************************************************************************)
(* Another unit paid in never pays less out, and another unit bought never *)
(* costs less, on every quote of any caller: whatever the pre-shift of the *)
(* ratio and the range reductions of the power do between the two amounts. *)
(***************************************************************************)
THEOREM QuotesMonotone == ASSUME OVERFLOW_CHECKS PROVE SwapSpec => []Monotone
<1>1. QuoteInv => Monotone
  <2> SUFFICES ASSUME QuoteInv PROVE Monotone
    OBVIOUS
  <2> DEFINE bi == quote.balance_in
             wi == quote.weight_in
             bo == quote.balance_out
             wo == quote.weight_out
             a == quote.amount
  <2>1. IsQuote(quote) /\ Answered
    BY DEF QuoteInv
  <2>2. bi \in U128 /\ wi \in U128 /\ bo \in U128 /\ wo \in U128 /\ a \in U128
    BY <2>1 DEF IsQuote
  <2>3. ASSUME Paid("out_given_in")
        PROVE  LET more == OutGivenIn(quote, quote.amount + 1)
               IN  Panicked(more) \/ more.value >= out.value
    <3> DEFINE more == OutGivenIn(quote, quote.amount + 1)
    <3>1. out = OutGivenIn(quote, quote.amount)
      BY <2>1, <2>3 DEF Answered, Paid, Pending, Panic
    <3>2. out = calc_out_given_in(bi, wi, bo, wo, a)
          /\ more = calc_out_given_in(bi, wi, bo, wo, a + 1)
      BY <3>1 DEF OutGivenIn
    <3> HIDE DEF more
    <3> SUFFICES ASSUME ~Panicked(more) PROVE more.value >= out.value
      BY DEF more
    <3>3. OutEnvelope(bi, wi, bo, wo, a) /\ OutEnvelope(bi, wi, bo, wo, a + 1)
      BY <2>3, <3>2 DEF calc_out_given_in, Panicked, Panic, Paid
    <3>4. out.value <= more.value
      BY <2>2, <3>2, <3>3, OutGrows
    <3>5. out.value \in Int /\ more.value \in Int
      <4>1. WORD \in Nat
        BY PoolScales
      <4>2. a + 1 \in U128
        BY <2>2, <3>3, <4>1 DEF OutEnvelope, U128
      <4>3. ~Panicked(out)
        BY <2>3 DEF Paid, Panicked
      <4> QED BY <4>2, <4>3, <2>2, <3>2, OutBelowReserve
    <3> QED BY <3>4, <3>5
  <2>4. ASSUME Paid("in_given_out")
        PROVE  LET more == InGivenOut(quote, quote.amount + 1)
               IN  Panicked(more) \/ more.value >= out.value
    <3> DEFINE more == InGivenOut(quote, quote.amount + 1)
    <3>1. out = InGivenOut(quote, quote.amount) /\ ~Panicked(out)
      BY <2>1, <2>4 DEF Answered, Paid, Pending, Panic, Panicked
    <3> SUFFICES ASSUME ~Panicked(more) PROVE more.value >= out.value
      OBVIOUS
    <3>2. out.value <= more.value
      BY <2>1, <3>1, InGrows
    <3> HIDE DEF more
    <3>3. out.value \in Int /\ more.value \in Int
      <4>1. out = calc_in_given_out(bi, wi, bo, wo, a)
            /\ more = calc_in_given_out(bi, wi, bo, wo, a + 1)
        BY <3>1 DEF InGivenOut, more
      <4>2. a + 1 \in U128
        <5>1. bo >= 1 /\ a + 1 <= DrainCap(bo)
          BY <4>1 DEF calc_in_given_out, InEnvelope, Panicked, Panic
        <5>2. DrainCap(bo) \in 0 .. bo - 1
          BY <5>1, <2>2, DrainLeavesSome DEF U128
        <5>3. WORD \in Nat
          BY PoolScales
        <5> QED BY <5>1, <5>2, <5>3, <2>2 DEF U128
      <4>3. out.value \in Int
        <5>1. calc_in_given_out(bi, wi, bo, wo, a).value \in Nat
          BY <4>1, <3>1, <2>2, InIsPaid
        <5> QED BY <5>1, <4>1
      <4>4. more.value \in Int
        <5> DEFINE c == a + 1
        <5>1. c \in U128 /\ more = calc_in_given_out(bi, wi, bo, wo, c)
          BY <4>1, <4>2
        <5> HIDE DEF c
        <5>2. calc_in_given_out(bi, wi, bo, wo, c).value \in Nat
          BY <5>1, <2>2, InIsPaid
        <5> QED BY <5>1, <5>2
      <4> QED BY <4>3, <4>4
    <3> QED BY <3>2, <3>3
  <2> QED BY <2>3, <2>4 DEF Monotone
<1> QED BY <1>1, QuoteInvariant, PTL
-----------------------------------------------------------------------------
(***************************************************************************)
(* The curve value of a trade.                                             *)
(***************************************************************************)
\* A product of powers raised to k raises either power.
Spreads(a, m, b, n, k) ==
  /\ Raised(a, m) * Raised(b, n) \in Nat
  /\ Raised(Raised(a, m) * Raised(b, n), k) = Raised(a, m * k) * Raised(b, n * k)

LEMMA RaisedTerm ==
  ASSUME NEW a \in Nat, NEW m \in Nat, NEW b \in Nat, NEW n \in Nat, NEW k \in Nat
  PROVE  Spreads(a, m, b, n, k)
<1>1. Raised(a, m) \in Nat /\ Raised(b, n) \in Nat
  BY RaisedBy
<1>2. Raised(Raised(a, m), k) = Raised(a, m * k) /\ Raised(Raised(b, n), k) = Raised(b, n * k)
  BY RaisedTwice
<1> DEFINE u == Raised(a, m)
           v == Raised(b, n)
<1>3. u \in Nat /\ v \in Nat
  BY <1>1
<1>4. Raised(u, k) = Raised(a, m * k) /\ Raised(v, k) = Raised(b, n * k)
  BY <1>2
<1> HIDE DEF u, v
<1>5. u * v \in Nat /\ Raised(u * v, k) = Raised(u, k) * Raised(v, k)
  BY <1>3, RaisedProduct
<1> QED BY <1>4, <1>5 DEF u, v, Spreads

\* Either factor of a comparison scaled.
LEMMA Scaled ==
  ASSUME NEW a \in Nat, NEW b \in Nat, NEW c \in Nat, a <= b
  PROVE  a * c \in Nat /\ b * c \in Nat /\ a * c <= b * c
<1>1. a * c <= b * c
  BY ProductBound
<1> QED BY <1>1

LEMMA Unscaled ==
  ASSUME NEW a \in Nat, NEW b \in Nat, NEW c \in Nat, c >= 1, a * c <= b * c
  PROVE  a <= b
<1> SUFFICES ASSUME b + 1 <= a PROVE FALSE
  OBVIOUS
<1>1. (b + 1) * c <= a * c
  BY ProductBound
<1>2. (b + 1) * c = b * c + c /\ b * c \in Nat /\ a * c \in Nat
  OBVIOUS
<1> QED BY <1>1, <1>2

\* Exchanges factors: u b <= p t from u x <= p s and b s <= x t.
LEMMA Exchange ==
  ASSUME NEW u \in Nat, NEW x \in Nat, NEW p \in Nat, NEW s \in Nat, NEW b \in Nat, NEW t \in Nat,
         s >= 1, u * x <= p * s, b * s <= x * t
  PROVE  u * b <= p * t
<1>1. u * b \in Nat /\ p * t \in Nat /\ u * x \in Nat /\ p * s \in Nat /\ b * s \in Nat /\ x * t \in Nat
  OBVIOUS
<1>2. (b * s) * u <= (x * t) * u
  BY <1>1, Scaled
<1>3. (u * x) * t <= (p * s) * t
  BY <1>1, Scaled
<1>4. (b * s) * u = (u * b) * s
  OBVIOUS
<1>5. (x * t) * u = (u * x) * t
  OBVIOUS
<1>6. (p * s) * t = (p * t) * s
  OBVIOUS
<1>7. (u * b) * s <= (p * t) * s
  <2> DEFINE c == (u * b) * s
             d == (u * x) * t
             e == (p * t) * s
  <2>1. c <= d /\ d <= e
    BY <1>2, <1>3, <1>4, <1>5, <1>6
  <2>2. c \in Nat /\ d \in Nat /\ e \in Nat
    BY <1>1
  <2> HIDE DEF c, d, e
  <2>3. c <= e
    BY <2>1, <2>2
  <2> QED BY <2>3 DEF c, e
<1> QED BY <1>1, <1>7, Unscaled

\* The curve value of reserves b and c at weights w and z.
Curve(b, w, c, z) == Raised(b, w) * Raised(c, z)

\* An exact-in trade: exponent e, base x, power p and payout each rounded for
\* the pool.  b, t, c, r are the reserves before and after, s and u the units
\* of the two scales.
OutPriced(s, u, w, z, b, t, c, r, e, x, p) ==
  /\ s >= 1 /\ u >= 1 /\ b <= t /\ e * z <= w * s /\ b * s <= x * t
  /\ Raised(u, s) * Raised(x, e) <= Raised(p, s) * Raised(s, e)
  /\ c * p <= r * u

LEMMA OutTrade ==
  ASSUME NEW s \in Nat, NEW u \in Nat, NEW w \in Nat, NEW z \in Nat, NEW b \in Nat, NEW t \in Nat,
         NEW c \in Nat, NEW r \in Nat, NEW e \in Nat, NEW x \in Nat, NEW p \in Nat,
         OutPriced(s, u, w, z, b, t, c, r, e, x, p)
  PROVE  Curve(b, w, c, z) <= Curve(t, w, r, z)
<1> SUFFICES ASSUME s >= 1, u >= 1, b <= t, e * z <= w * s, b * s <= x * t,
                    Raised(u, s) * Raised(x, e) <= Raised(p, s) * Raised(s, e),
                    c * p <= r * u
             PROVE  Raised(b, w) * Raised(c, z) <= Raised(t, w) * Raised(r, z)
  BY DEF OutPriced, Curve
<1> DEFINE A == e * z
           B == s * z
           D == w * s - A
<1>1. A \in Nat /\ B \in Nat /\ D \in Nat /\ A + D = w * s /\ w * s \in Nat /\ z * s = B
  <2>1. A \in Nat /\ w * s \in Nat
    OBVIOUS
  <2> QED BY <2>1
<1> HIDE DEF A, B, D
<1> DEFINE uB == Raised(u, B)
           xA == Raised(x, A)
           pB == Raised(p, B)
           sA == Raised(s, A)
           bA == Raised(b, A)
           tA == Raised(t, A)
           bD == Raised(b, D)
           tD == Raised(t, D)
           cB == Raised(c, B)
           rB == Raised(r, B)
<1>2. /\ uB \in Nat /\ xA \in Nat /\ pB \in Nat /\ sA \in Nat /\ bA \in Nat /\ tA \in Nat
      /\ bD \in Nat /\ tD \in Nat /\ cB \in Nat /\ rB \in Nat
  BY <1>1, RaisedBy
<1>3. uB >= 1 /\ sA >= 1
  BY <1>1, RaisedPositive
<1>4. uB * xA <= pB * sA
  <2> DEFINE l == Raised(u, s) * Raised(x, e)
             g == Raised(p, s) * Raised(s, e)
  <2>1. l \in Nat /\ Raised(l, z) = uB * xA
    <3>1. Spreads(u, s, x, e, z)
      BY RaisedTerm
    <3> QED BY <3>1 DEF Spreads, A, B
  <2>2. g \in Nat /\ Raised(g, z) = pB * sA
    <3>1. Spreads(p, s, s, e, z)
      BY RaisedTerm
    <3> QED BY <3>1 DEF Spreads, A, B
  <2>3. l <= g
    OBVIOUS
  <2> HIDE DEF l, g, uB, xA, pB, sA
  <2>4. Raised(l, z) <= Raised(g, z)
    BY <2>1, <2>2, <2>3, RaisedMonotone
  <2> QED BY <2>1, <2>2, <2>4
<1>5. bA * sA <= xA * tA
  <2>1. b * s \in Nat /\ Raised(b * s, A) = bA * sA
    BY <1>1, RaisedProduct
  <2>2. x * t \in Nat /\ Raised(x * t, A) = xA * tA
    BY <1>1, RaisedProduct
  <2> HIDE DEF bA, sA, xA, tA
  <2>3. Raised(b * s, A) <= Raised(x * t, A)
    BY <1>1, <2>1, <2>2, RaisedMonotone
  <2> QED BY <2>1, <2>2, <2>3
<1>6. cB * pB <= rB * uB
  <2>1. c * p \in Nat /\ Raised(c * p, B) = cB * pB
    BY <1>1, RaisedProduct
  <2>2. r * u \in Nat /\ Raised(r * u, B) = rB * uB
    BY <1>1, RaisedProduct
  <2> HIDE DEF cB, pB, rB, uB
  <2>3. Raised(c * p, B) <= Raised(r * u, B)
    BY <1>1, <2>1, <2>2, RaisedMonotone
  <2> QED BY <2>1, <2>2, <2>3
<1>7. bD <= tD
  BY <1>1, RaisedMonotone
<1>8. Raised(b, w * s) = bA * bD /\ Raised(t, w * s) = tA * tD
  <2>1. Raised(b, A + D) = bA * bD
    BY <1>1, RaisedSum
  <2>2. Raised(t, A + D) = tA * tD
    BY <1>1, RaisedSum
  <2> HIDE DEF bA, bD, tA, tD
  <2> QED BY <1>1, <2>1, <2>2
<1>9. /\ Raised(b, w) * Raised(c, z) \in Nat
      /\ Raised(Raised(b, w) * Raised(c, z), s) = Raised(b, w * s) * cB
  <2>0. Spreads(b, w, c, z, s)
    BY RaisedTerm
  <2>1. /\ Raised(b, w) * Raised(c, z) \in Nat
        /\ Raised(Raised(b, w) * Raised(c, z), s) = Raised(b, w * s) * Raised(c, z * s)
    BY <2>0, Zenon DEF Spreads
  <2> QED BY <1>1, <2>1, Zenon
<1>10. /\ Raised(t, w) * Raised(r, z) \in Nat
       /\ Raised(Raised(t, w) * Raised(r, z), s) = Raised(t, w * s) * rB
  <2>0. Spreads(t, w, r, z, s)
    BY RaisedTerm
  <2>1. /\ Raised(t, w) * Raised(r, z) \in Nat
        /\ Raised(Raised(t, w) * Raised(r, z), s) = Raised(t, w * s) * Raised(r, z * s)
    BY <2>0, Zenon DEF Spreads
  <2> QED BY <1>1, <2>1, Zenon
<1> HIDE DEF uB, xA, pB, sA, bA, tA, bD, tD, cB, rB
<1>11. uB * bA <= pB * tA
  BY <1>2, <1>3, <1>4, <1>5, Exchange
<1>12. cB * bA <= rB * tA
  <2>1. bA * uB <= tA * pB
    BY <1>2, <1>11
  <2>2. pB * cB <= uB * rB
    BY <1>2, <1>6
  <2>3. bA * uB \in Nat /\ tA * pB \in Nat /\ pB * cB \in Nat
    BY <1>2
  <2>4. (bA * uB) * cB <= (tA * pB) * cB
    BY <1>2, <2>1, <2>3, Scaled
  <2>5. (pB * cB) * tA <= (uB * rB) * tA
    BY <1>2, <2>2, <2>3, Scaled
  <2>6. (tA * pB) * cB = (pB * cB) * tA
    BY <1>2
  <2>7. (bA * uB) * cB = (cB * bA) * uB /\ (uB * rB) * tA = (rB * tA) * uB
    BY <1>2
  <2> DEFINE f == (cB * bA) * uB
             g == (pB * cB) * tA
             h == (rB * tA) * uB
  <2>8. f <= g /\ g <= h
    BY <2>4, <2>5, <2>6, <2>7
  <2>9. f \in Nat /\ g \in Nat /\ h \in Nat
    BY <1>2
  <2> HIDE DEF f, g, h
  <2>10. f <= h
    BY <2>8, <2>9
  <2>11. cB * bA \in Nat /\ rB * tA \in Nat
    BY <1>2
  <2> QED BY <1>2, <1>3, <2>10, <2>11, Unscaled DEF f, h
<1>13. (bA * bD) * cB <= (tA * tD) * rB
  <2>1. cB * bA \in Nat /\ rB * tA \in Nat
    BY <1>2
  <2>2. (cB * bA) * bD <= (rB * tA) * tD
    BY <1>2, <1>7, <1>12, <2>1, ProductBound
  <2>3. (cB * bA) * bD = (bA * bD) * cB /\ (rB * tA) * tD = (tA * tD) * rB
    BY <1>2
  <2> QED BY <2>2, <2>3
<1>14. Raised(Raised(b, w) * Raised(c, z), s) <= Raised(Raised(t, w) * Raised(r, z), s)
  BY <1>8, <1>9, <1>10, <1>13
<1> DEFINE l == Raised(b, w) * Raised(c, z)
           g == Raised(t, w) * Raised(r, z)
<1>15. l \in Nat /\ g \in Nat /\ Raised(l, s) <= Raised(g, s)
  BY <1>9, <1>10, <1>14
<1> HIDE DEF l, g
<1>16. l <= g
  BY <1>15, Root
<1> QED BY <1>16 DEF l, g

\* An exact-out trade; q is what is left of reserve c.
InPriced(s, u, w, z, b, t, c, q, e, x, p) ==
  /\ s >= 1 /\ u >= 1 /\ c >= 1 /\ q <= c /\ z * s <= e * w /\ x * c <= q * s
  /\ Raised(p, s) * Raised(s, e) <= Raised(u, s) * Raised(x, e)
  /\ b * u <= t * p

LEMMA InTrade ==
  ASSUME NEW s \in Nat, NEW u \in Nat, NEW w \in Nat, NEW z \in Nat, NEW b \in Nat, NEW t \in Nat,
         NEW c \in Nat, NEW q \in Nat, NEW e \in Nat, NEW x \in Nat, NEW p \in Nat,
         InPriced(s, u, w, z, b, t, c, q, e, x, p)
  PROVE  Curve(b, w, c, z) <= Curve(t, w, q, z)
<1> SUFFICES ASSUME s >= 1, u >= 1, c >= 1, q <= c, z * s <= e * w, x * c <= q * s,
                    Raised(p, s) * Raised(s, e) <= Raised(u, s) * Raised(x, e),
                    b * u <= t * p
             PROVE  Raised(b, w) * Raised(c, z) <= Raised(t, w) * Raised(q, z)
  BY DEF InPriced, Curve
<1> DEFINE A == e * w
           B == s * w
           V == z * s
           D == A - V
<1>1. A \in Nat /\ B \in Nat /\ V \in Nat /\ D \in Nat /\ V + D = A /\ w * s = B
  <2>1. A \in Nat /\ V \in Nat
    OBVIOUS
  <2> QED BY <2>1
<1> HIDE DEF A, B, V, D
<1> DEFINE uB == Raised(u, B)
           xA == Raised(x, A)
           pB == Raised(p, B)
           sA == Raised(s, A)
           bB == Raised(b, B)
           tB == Raised(t, B)
           cA == Raised(c, A)
           qA == Raised(q, A)
           cV == Raised(c, V)
           qV == Raised(q, V)
           cD == Raised(c, D)
           qD == Raised(q, D)
<1>2. /\ uB \in Nat /\ xA \in Nat /\ pB \in Nat /\ sA \in Nat /\ bB \in Nat /\ tB \in Nat
      /\ cA \in Nat /\ qA \in Nat /\ cV \in Nat /\ qV \in Nat /\ cD \in Nat /\ qD \in Nat
  BY <1>1, RaisedBy
<1>3. uB >= 1 /\ sA >= 1 /\ cD >= 1
  BY <1>1, RaisedPositive
<1>4. pB * sA <= uB * xA
  <2> DEFINE l == Raised(p, s) * Raised(s, e)
             g == Raised(u, s) * Raised(x, e)
  <2>1. l \in Nat /\ Raised(l, w) = pB * sA
    <3>1. Spreads(p, s, s, e, w)
      BY RaisedTerm
    <3> QED BY <3>1 DEF Spreads, A, B
  <2>2. g \in Nat /\ Raised(g, w) = uB * xA
    <3>1. Spreads(u, s, x, e, w)
      BY RaisedTerm
    <3> QED BY <3>1 DEF Spreads, A, B
  <2>3. l <= g
    OBVIOUS
  <2> HIDE DEF l, g, uB, xA, pB, sA
  <2>4. Raised(l, w) <= Raised(g, w)
    BY <2>1, <2>2, <2>3, RaisedMonotone
  <2> QED BY <2>1, <2>2, <2>4
<1>5. xA * cA <= qA * sA
  <2>1. x * c \in Nat /\ Raised(x * c, A) = xA * cA
    BY <1>1, RaisedProduct
  <2>2. q * s \in Nat /\ Raised(q * s, A) = qA * sA
    BY <1>1, RaisedProduct
  <2> HIDE DEF xA, cA, qA, sA
  <2>3. Raised(x * c, A) <= Raised(q * s, A)
    BY <1>1, <2>1, <2>2, RaisedMonotone
  <2> QED BY <2>1, <2>2, <2>3
<1>6. bB * uB <= tB * pB
  <2>1. b * u \in Nat /\ Raised(b * u, B) = bB * uB
    BY <1>1, RaisedProduct
  <2>2. t * p \in Nat /\ Raised(t * p, B) = tB * pB
    BY <1>1, RaisedProduct
  <2> HIDE DEF bB, uB, tB, pB
  <2>3. Raised(b * u, B) <= Raised(t * p, B)
    BY <1>1, <2>1, <2>2, RaisedMonotone
  <2> QED BY <2>1, <2>2, <2>3
<1>7. qD <= cD
  BY <1>1, RaisedMonotone
<1>8. cA = cV * cD /\ qA = qV * qD
  <2>1. Raised(c, V + D) = cV * cD
    BY <1>1, RaisedSum
  <2>2. Raised(q, V + D) = qV * qD
    BY <1>1, RaisedSum
  <2> HIDE DEF cV, cD, qV, qD
  <2> QED BY <1>1, <2>1, <2>2
<1>9. /\ Raised(b, w) * Raised(c, z) \in Nat
      /\ Raised(Raised(b, w) * Raised(c, z), s) = bB * cV
  <2>0. Spreads(b, w, c, z, s)
    BY RaisedTerm
  <2>1. /\ Raised(b, w) * Raised(c, z) \in Nat
        /\ Raised(Raised(b, w) * Raised(c, z), s) = Raised(b, w * s) * Raised(c, z * s)
    BY <2>0, Zenon DEF Spreads
  <2>2. w * s = B /\ z * s = V
    BY <1>1 DEF V
  <2> QED BY <2>1, <2>2, Zenon
<1>10. /\ Raised(t, w) * Raised(q, z) \in Nat
       /\ Raised(Raised(t, w) * Raised(q, z), s) = tB * qV
  <2>0. Spreads(t, w, q, z, s)
    BY RaisedTerm
  <2>1. /\ Raised(t, w) * Raised(q, z) \in Nat
        /\ Raised(Raised(t, w) * Raised(q, z), s) = Raised(t, w * s) * Raised(q, z * s)
    BY <2>0, Zenon DEF Spreads
  <2>2. w * s = B /\ z * s = V
    BY <1>1 DEF V
  <2> QED BY <2>1, <2>2, Zenon
<1> HIDE DEF uB, xA, pB, sA, bB, tB, cA, qA, cV, qV, cD, qD
<1>11. bB * sA <= tB * xA
  <2>1. sA * pB <= xA * uB
    BY <1>2, <1>4
  <2>2. bB * uB <= tB * pB
    BY <1>6
  <2>3. (bB * uB) * sA <= (tB * pB) * sA
    BY <1>2, <2>2, Scaled
  <2>4. (sA * pB) * tB <= (xA * uB) * tB
    BY <1>2, <2>1, Scaled
  <2>5. (tB * pB) * sA = (sA * pB) * tB
    BY <1>2
  <2>6. (bB * uB) * sA = (bB * sA) * uB /\ (xA * uB) * tB = (tB * xA) * uB
    BY <1>2
  <2> DEFINE f == (bB * sA) * uB
             g == (sA * pB) * tB
             h == (tB * xA) * uB
  <2>7. f <= g /\ g <= h
    BY <2>3, <2>4, <2>5, <2>6
  <2>8. f \in Nat /\ g \in Nat /\ h \in Nat
    BY <1>2
  <2> HIDE DEF f, g, h
  <2>9. f <= h
    BY <2>7, <2>8
  <2>10. bB * sA \in Nat /\ tB * xA \in Nat
    BY <1>2
  <2> QED BY <1>2, <1>3, <2>9, <2>10, Unscaled DEF f, h
<1>12. bB * cA <= tB * qA
  <2>1. bB * sA <= tB * xA /\ cA * xA <= qA * sA
    BY <1>2, <1>5, <1>11
  <2>2. (bB * sA) * cA <= (tB * xA) * cA
    BY <1>2, <2>1, Scaled
  <2>3. (cA * xA) * tB <= (qA * sA) * tB
    BY <1>2, <2>1, Scaled
  <2>4. (tB * xA) * cA = (cA * xA) * tB
    BY <1>2
  <2>5. (bB * sA) * cA = (bB * cA) * sA /\ (qA * sA) * tB = (tB * qA) * sA
    BY <1>2
  <2> DEFINE f == (bB * cA) * sA
             g == (cA * xA) * tB
             h == (tB * qA) * sA
  <2>6. f <= g /\ g <= h
    BY <2>2, <2>3, <2>4, <2>5
  <2>7. f \in Nat /\ g \in Nat /\ h \in Nat
    BY <1>2
  <2> HIDE DEF f, g, h
  <2>8. f <= h
    BY <2>6, <2>7
  <2>9. bB * cA \in Nat /\ tB * qA \in Nat
    BY <1>2
  <2> QED BY <1>2, <1>3, <2>8, <2>9, Unscaled DEF f, h
<1>13. bB * cV <= tB * qV
  <2>1. bB * cV \in Nat /\ tB * qV \in Nat
    BY <1>2
  <2>2. (bB * cV) * cD = bB * cA /\ (tB * qV) * qD = tB * qA
    BY <1>2, <1>8
  <2>3. (tB * qV) * qD <= (tB * qV) * cD
    BY <1>2, <1>7, <2>1, ProductBound
  <2> DEFINE f == (bB * cV) * cD
             g == (tB * qV) * qD
             h == (tB * qV) * cD
  <2>4. f <= g /\ g <= h
    BY <1>12, <2>2, <2>3
  <2>5. f \in Nat /\ g \in Nat /\ h \in Nat
    BY <1>2, <2>1
  <2> HIDE DEF f, g, h
  <2>6. f <= h
    BY <2>4, <2>5
  <2> QED BY <1>2, <1>3, <2>1, <2>6, Unscaled DEF f, h
<1> DEFINE l == Raised(b, w) * Raised(c, z)
           g == Raised(t, w) * Raised(q, z)
<1>14. l \in Nat /\ g \in Nat /\ Raised(l, s) <= Raised(g, s)
  BY <1>9, <1>10, <1>13
<1> HIDE DEF l, g
<1>15. l <= g
  BY <1>14, Root
<1> QED BY <1>15 DEF l, g

\* The swap-path forms are on the pool's side of the power, to the exponent
\* over ONE: p <= base^exponent <= 1 - share.
PowersFavourPool ==
  \A base \in 1 .. ONE - 1, exponent \in 1 .. MAX_RATIO * ONE :
    LET p == Returns("pow_62_down", base, exponent)
        share == Returns("one_minus_pow_62", base, exponent)
    IN  /\ Raised(p, ONE) * Raised(ONE, exponent) <= Raised(ONE_62, ONE) * Raised(base, exponent)
        /\ Raised(ONE_62, ONE) * Raised(base, exponent)
             <= Raised(ONE_62 - share, ONE) * Raised(ONE, exponent)

\* What is left of a reserve after a payout is no less than the power's share.
LEMMA PayoutLeaves ==
  ASSUME NEW b \in U128, b >= 1, NEW share \in 0 .. ONE_62 - 1
  PROVE  /\ ONE_62 - share \in Nat /\ Payout(b, share).value \in 0 .. b - 1
         /\ b * (ONE_62 - share) <= (b - Payout(b, share).value) * ONE_62
<1> DEFINE V == ONE_62
           p == b * share
           q == p \div V
           v == Payout(b, share).value
<1>1. V \in Nat /\ V > 0 /\ b \in Nat /\ LN_SCALE \in 1 .. WIDTH - 1 /\ V - 1 < WORD /\ WORD \in Nat
  BY PoolScales DEF U128
<1>2. share \in U128 /\ share \in Nat /\ share <= V - 1
  <2>1. share \in 0 .. V - 1
    OBVIOUS
  <2> HIDE DEF V
  <2> QED BY <1>1, <2>1 DEF U128
<1>3. v \in 0 .. b - 1 /\ ~Panicked(Payout(b, share))
  BY PayoutBelowReserve
<1>4. v = Shr(b * share, LN_SCALE)
  <2>1. Payout(b, share)
          = IF Shr(b * share, LN_SCALE) \in U128
            THEN Value(Shr(b * share, LN_SCALE)) ELSE Panic("unrepresentable")
    BY <1>1, <1>2, MulShrFloor DEF Payout
  <2> QED BY <1>3, <2>1 DEF Panicked, Panic, Value
<1>5. v = q
  BY <1>4 DEF Shr, ONE_62
<1> HIDE DEF V, v
<1>6. p \in Nat
  BY <1>1, <1>2
<1> HIDE DEF p
<1>7. V * q <= p
  BY <1>1, <1>6, DivisionBounds
<1> HIDE DEF q
<1>8. v \in Nat /\ v <= b
  BY <1>1, <1>3
<1>9. b * (V - share) <= (b - v) * V
  <2>1. b * (V - share) = b * V - b * share /\ (b - v) * V = b * V - V * v
    BY <1>1, <1>2, <1>8
  <2>2. b * V \in Int /\ b * share \in Int /\ V * v \in Int /\ V * v <= b * share
    BY <1>1, <1>2, <1>5, <1>7, <1>8 DEF p
  <2> QED BY <2>1, <2>2
<1> QED BY <1>1, <1>2, <1>3, <1>9 DEF V, v

\* A payment raises its reserve to at least what the power divides it to.
LEMMA PaymentCovers ==
  ASSUME OVERFLOW_CHECKS, NEW b \in U128, b >= 1, NEW p \in 1 .. ONE_62 - 1,
         ~Panicked(mul_shr_up(b, PaymentRatio(p), LN_SCALE))
  PROVE  LET v == mul_shr_up(b, PaymentRatio(p), LN_SCALE).value
         IN  v \in Nat /\ b * ONE_62 <= (b + v) * p
<1> DEFINE V == ONE_62
           x == (V - p) * V
           ratio == CeilDiv(x, p)
           y == b * ratio
           c == CeilDiv(y, V)
           in == mul_shr_up(b, ratio, LN_SCALE)
<1>1. /\ V \in Nat /\ V >= 8 /\ V * V \in Nat /\ V * V < WORD /\ WORD \in Nat
      /\ LN_SCALE \in 1 .. WIDTH - 1 /\ b \in Nat
  BY PoolScales DEF U128
<1>2. p \in 1 .. V - 1
  OBVIOUS
<1>3. PaymentRatio(p) = ratio
  BY DEF PaymentRatio
<1>4. V = 2^LN_SCALE
  BY DEF ONE_62
<1> HIDE DEF V
<1>5. x \in Nat /\ x <= V * V /\ p \in Nat /\ p > 0 /\ V - p \in Nat
  <2>1. V - p \in Nat /\ V - p <= V
    BY <1>1, <1>2
  <2>2. x \in Nat /\ x <= V * V
    BY <2>1, <1>1, ProductBound
  <2> QED BY <2>1, <2>2, <1>2
<1> HIDE DEF x
<1>6. ratio \in Nat /\ x <= p * ratio /\ ratio <= x
  BY <1>5, CeilDivBounds
<1> HIDE DEF ratio
<1>7. ratio \in U128
  BY <1>1, <1>5, <1>6 DEF U128
<1>8. y \in Nat
  BY <1>1, <1>6
<1> HIDE DEF y
<1>9. c \in Nat /\ y <= V * c
  <2>1. V > 0
    BY <1>1
  <2> QED BY <2>1, <1>1, <1>8, CeilDivBounds
<1>10. in.value = c
  <2>1. IF c \in U128 THEN in = Value(c) ELSE OVERFLOW_CHECKS => Panicked(in)
    <3>1. IF CeilDiv(b * ratio, 2^LN_SCALE) \in U128
          THEN mul_shr_up(b, ratio, LN_SCALE) = Value(CeilDiv(b * ratio, 2^LN_SCALE))
          ELSE OVERFLOW_CHECKS => Panicked(mul_shr_up(b, ratio, LN_SCALE))
      BY <1>1, <1>7, MulShrUpCeiling
    <3> QED BY <3>1, <1>4 DEF y
  <2>2. ~Panicked(in)
    BY <1>3
  <2> HIDE DEF c, in
  <2> QED BY <2>1, <2>2 DEF Value
<1> HIDE DEF c, in
<1>11. b * V <= (b + c) * p
  <2>1. (b * V) * V <= ((b + c) * p) * V
    <3>1. ((b + c) * p) * V = (b * p) * V + (V * c) * p
      BY <1>1, <1>5, <1>9
    <3>2. (b * V) * V = (b * p) * V + b * ((V - p) * V)
      BY <1>1, <1>5
    <3>3. b * ((V - p) * V) <= b * (p * ratio)
      BY <1>1, <1>5, <1>6, ProductBound DEF x
    <3>4. b * (p * ratio) = y * p
      BY <1>1, <1>5, <1>6 DEF y
    <3>5. y * p <= (V * c) * p
      <4>1. V * c \in Nat
        BY <1>1, <1>9
      <4> QED BY <4>1, <1>5, <1>8, <1>9, ProductBound
    <3> DEFINE f == (b * p) * V
               g == (V * c) * p
               h == b * ((V - p) * V)
               k == y * p
    <3>6. f \in Int /\ g \in Int /\ h \in Int /\ k \in Int
      BY <1>1, <1>5, <1>8, <1>9
    <3>7. h <= k /\ k <= g
      BY <3>3, <3>4, <3>5
    <3> HIDE DEF f, g, h, k
    <3>8. f + h <= f + g
      BY <3>6, <3>7
    <3> QED BY <3>1, <3>2, <3>8 DEF f, g, h
  <2>2. b * V \in Nat /\ (b + c) * p \in Nat /\ V >= 1
    BY <1>1, <1>5, <1>9
  <2> DEFINE f == b * V
             g == (b + c) * p
  <2> HIDE DEF f, g
  <2>3. f <= g
    <3>1. f \in Nat /\ g \in Nat /\ f * V <= g * V
      BY <2>1, <2>2 DEF f, g
    <3> QED BY <1>1, <2>2, <3>1, Unscaled
  <2> QED BY <2>3 DEF f, g
<1> QED BY <1>3, <1>9, <1>10, <1>11 DEF in, V

LEMMA CurveNat ==
  ASSUME NEW b \in Nat, NEW w \in Nat, NEW c \in Nat, NEW z \in Nat
  PROVE  Curve(b, w, c, z) \in Nat
<1> DEFINE u == Raised(b, w)
           v == Raised(c, z)
<1>1. u \in Nat /\ v \in Nat
  BY RaisedBy
<1> HIDE DEF u, v
<1>2. u * v \in Nat
  BY <1>1
<1> QED BY <1>2 DEF Curve, u, v

\* An exact-in quote does not lower the curve value.
LEMMA OutKeepsCurve ==
  ASSUME PowersFavourPool, NEW bi \in U128, NEW wi \in U128, NEW bo \in U128, NEW wo \in U128,
         NEW a \in U128, ~Panicked(calc_out_given_in(bi, wi, bo, wo, a))
  PROVE  LET v == calc_out_given_in(bi, wi, bo, wo, a).value
         IN  /\ v \in 0 .. bo - 1 /\ wi >= 1 /\ wo >= 1
             /\ Curve(bi, wi, bo, wo) <= Curve(bi + a, wi, bo - v, wo)
<1> DEFINE exponent == OutExponent(wi, wo)
           total == bi + a
           base == ratio_up(bi, total)
           share == Returns("one_minus_pow_62", base, exponent)
           got == calc_out_given_in(bi, wi, bo, wo, a)
           fits == OutEnvelope(bi, wi, bo, wo, a)
           ok == InDomain("one_minus_pow_62", base, exponent)
<1>1. got = IF ~fits THEN Panic("envelope")
            ELSE IF base >= ONE THEN Value(0)
            ELSE IF ~ok THEN Panic("domain")
            ELSE Payout(bo, share)
  BY DEF calc_out_given_in
<1>2. fits
  <2> HIDE DEF fits, ok, base, share, exponent
  <2>1. ~Panicked(got)
    OBVIOUS
  <2> HIDE DEF got
  <2> QED BY <1>1, <2>1 DEF Panicked, Panic
<1>3. /\ bi >= 1 /\ bo >= 1 /\ total \in U128 /\ wi >= 1 /\ wo >= 1
      /\ wi <= MAX_RATIO * wo /\ wo <= MAX_RATIO * wi
      /\ bi \in Nat /\ bo \in Nat /\ a \in Nat /\ total >= 1 /\ bi <= total /\ total \in Nat
      /\ wi \in Nat /\ wo \in Nat
  BY <1>2 DEF OutEnvelope, check_weights, U128
<1>4. exponent \in 1 .. MAX_RATIO * ONE /\ exponent \in I128
  <2>1. exponent \in 1 .. MAX_RATIO * ONE
    BY <1>3, ExponentsInDomain DEF OutExponent
  <2> HIDE DEF exponent
  <2> QED BY <2>1, PoolScales
<1>5. ONE \in Nat /\ ONE >= 1 /\ ONE_62 \in Nat /\ ONE_62 >= 1
  BY PoolScales
<1>6. exponent \in Nat /\ exponent * wo <= wi * ONE
  <2> DEFINE x == wi * ONE
             q == x \div wo
  <2>1. x \in Nat /\ wo > 0
    BY <1>3, <1>5
  <2> HIDE DEF x
  <2>2. q \in Nat /\ wo * q <= x
    BY <1>3, <2>1, DivisionBounds, DivisionNat
  <2>3. exponent = q
    BY DEF OutExponent, x
  <2> HIDE DEF q, exponent
  <2>4. wo * q = exponent * wo
    BY <1>3, <2>2, <2>3
  <2> QED BY <2>2, <2>3, <2>4 DEF x
<1> HIDE DEF total, exponent
<1>7. base \in Nat /\ bi * ONE <= base * total
  <2>1. ratio_up(bi, total) \in Nat
    BY <1>3, RatiosAreNumbers
  <2>2. bi * ONE <= ratio_up(bi, total) * total
    BY <1>3, RatioUpBiased
  <2> QED BY <2>1, <2>2
<1> HIDE DEF base
<1> DEFINE v == got.value
<1>8. CASE base >= ONE
  <2>1. v = 0
    BY <1>1, <1>2, <1>8 DEF Value
  <2>2. /\ Raised(bi, wi) \in Nat /\ Raised(total, wi) \in Nat /\ Raised(bo, wo) \in Nat
        /\ Raised(bi, wi) <= Raised(total, wi)
    BY <1>3, RaisedMonotone, RaisedBy
  <2>3. Raised(bi, wi) * Raised(bo, wo) <= Raised(total, wi) * Raised(bo, wo)
    BY <2>2, Scaled
  <2>4. bo - 0 = bo /\ 0 \in 0 .. bo - 1
    BY <1>3
  <2> HIDE DEF got
  <2>5. /\ v \in 0 .. bo - 1 /\ wi >= 1 /\ wo >= 1
        /\ Curve(bi, wi, bo, wo) <= Curve(total, wi, bo - v, wo)
    BY <1>3, <2>1, <2>3, <2>4 DEF Curve
  <2> QED BY <2>5 DEF got, total
<1>9. CASE ~(base >= ONE)
  <2>1. ok /\ got = Payout(bo, share)
    <3>1. ~Panicked(got)
      OBVIOUS
    <3> HIDE DEF ok, share, got, fits
    <3> QED BY <1>1, <1>2, <1>9, <3>1 DEF Panicked, Panic
  <2>2. base > 0
    BY <2>1 DEF InDomain, Ops62, PowOps, ExpOps
  <2>3. base \in 1 .. ONE - 1
    BY <1>5, <1>7, <1>9, <2>2
  <2>4. share \in 0 .. ONE_62 - 1
    BY <1>4, <2>3, PowersInRange
  <2>5. Raised(ONE_62, ONE) * Raised(base, exponent)
          <= Raised(ONE_62 - share, ONE) * Raised(ONE, exponent)
    BY <1>4, <2>3 DEF PowersFavourPool
  <2> HIDE DEF share, ok, fits
  <2>6. /\ ONE_62 - share \in Nat /\ v \in 0 .. bo - 1
        /\ bo * (ONE_62 - share) <= (bo - v) * ONE_62
    <3>1. /\ ONE_62 - share \in Nat /\ Payout(bo, share).value \in 0 .. bo - 1
          /\ bo * (ONE_62 - share) <= (bo - Payout(bo, share).value) * ONE_62
      BY <1>3, <2>4, PayoutLeaves
    <3> HIDE DEF got
    <3> QED BY <2>1, <3>1
  <2> HIDE DEF got, v
  <2> DEFINE rest == bo - v
             p == ONE_62 - share
  <2>7. rest \in Nat /\ p \in Nat /\ bo * p <= rest * ONE_62
    BY <1>3, <2>6
  <2>8. Raised(ONE_62, ONE) * Raised(base, exponent) <= Raised(p, ONE) * Raised(ONE, exponent)
    BY <2>5
  <2> HIDE DEF rest, p
  <2>9. OutPriced(ONE, ONE_62, wi, wo, bi, total, bo, rest, exponent, base, p)
    <3>1. ONE >= 1 /\ ONE_62 >= 1 /\ bi <= total
      BY <1>3, <1>5
    <3>2. exponent * wo <= wi * ONE /\ bi * ONE <= base * total /\ bo * p <= rest * ONE_62
      BY <1>6, <1>7, <2>7
    <3> QED BY <2>8, <3>1, <3>2, Zenon DEF OutPriced
  <2>10. Curve(bi, wi, bo, wo) <= Curve(total, wi, rest, wo)
    BY <1>3, <1>5, <1>6, <1>7, <2>7, <2>9, OutTrade
  <2>11. Curve(bi, wi, bo, wo) <= Curve(total, wi, bo - v, wo)
    BY <2>10 DEF rest
  <2> QED BY <1>3, <2>6, <2>11 DEF got, v, total
<1> QED BY <1>8, <1>9

\* Nor does an exact-out quote where the sum that rounds the payment up is
\* checked.
LEMMA InKeepsCurve ==
  ASSUME PowersFavourPool, OVERFLOW_CHECKS,
         NEW bi \in U128, NEW wi \in U128, NEW bo \in U128, NEW wo \in U128,
         NEW a \in U128, ~Panicked(calc_in_given_out(bi, wi, bo, wo, a))
  PROVE  LET v == calc_in_given_out(bi, wi, bo, wo, a).value
         IN  /\ v \in Nat /\ a \in 0 .. bo - 1 /\ wi >= 1 /\ wo >= 1
             /\ Curve(bi, wi, bo, wo) <= Curve(bi + v, wi, bo - a, wo)
<1> DEFINE exponent == InExponent(wi, wo)
           rest == bo - a
           base == ratio_down(rest, bo)
           p == Returns("pow_62_down", base, exponent)
           in == calc_in_given_out(bi, wi, bo, wo, a)
           fits == InEnvelope(bi, wi, bo, wo, a)
           ok == InDomain("pow_62_down", base, exponent)
           paid == mul_shr_up(bi, PaymentRatio(p), LN_SCALE)
           v == in.value
<1>1. in = IF ~fits THEN Panic("envelope")
           ELSE IF a = 0 THEN Value(0)
           ELSE IF ~ok THEN Panic("domain")
           ELSE IF p <= 0 THEN Panic("underflow")
           ELSE paid
  BY DEF calc_in_given_out
<1>2. ~Panicked(in)
  OBVIOUS
<1>3. fits
  <2> HIDE DEF fits, ok, base, p, exponent, in, paid
  <2> QED BY <1>1, <1>2 DEF Panicked, Panic
<1>4. /\ bi >= 1 /\ bo >= 1 /\ wi >= 1 /\ wo >= 1 /\ a <= DrainCap(bo)
      /\ wi <= MAX_RATIO * wo /\ wo <= MAX_RATIO * wi
      /\ bi \in Nat /\ bo \in Nat /\ a \in Nat /\ wi \in Nat /\ wo \in Nat
  BY <1>3 DEF InEnvelope, check_weights, U128
<1>5. a \in 0 .. bo - 1
  <2>1. DrainCap(bo) \in 0 .. bo - 1
    BY <1>4, DrainLeavesSome
  <2> QED BY <2>1, <1>4
<1>6. ONE \in Nat /\ ONE >= 1 /\ ONE_62 \in Nat /\ ONE_62 >= 1
  BY PoolScales
<1>7. exponent \in 1 .. MAX_RATIO * ONE /\ exponent \in I128
  <2>1. exponent \in 1 .. MAX_RATIO * ONE
    BY <1>4, ExponentsInDomain DEF InExponent
  <2> HIDE DEF exponent
  <2> QED BY <2>1, PoolScales
<1>8. exponent \in Nat /\ wo * ONE <= exponent * wi
  <2> DEFINE x == wo * ONE
             q == CeilDiv(x, wi)
  <2>1. x \in Nat /\ wi > 0
    BY <1>4, <1>6
  <2> HIDE DEF x
  <2>2. q \in Nat /\ x <= wi * q
    BY <1>4, <2>1, CeilDivBounds
  <2>3. exponent = q
    BY DEF InExponent, x
  <2> HIDE DEF q, exponent
  <2>4. wi * q = exponent * wi
    BY <1>4, <2>2, <2>3
  <2> QED BY <2>2, <2>3, <2>4 DEF x
<1>9. rest \in Nat /\ rest <= bo
  BY <1>4, <1>5
<1> HIDE DEF rest, exponent
<1>10. base \in Nat /\ base * bo <= rest * ONE
  BY <1>4, <1>9, RatioDownBiased
<1> HIDE DEF base
<1>11. CASE a = 0
  <2>1. v = 0
    <3> HIDE DEF in
    <3> QED BY <1>1, <1>3, <1>11 DEF Value
  <2> HIDE DEF in
  <2>2. bi + v = bi /\ bo - a = bo
    BY <1>4, <1>11, <2>1
  <2>3. Curve(bi, wi, bo, wo) \in Nat
    BY <1>4, CurveNat
  <2>4. Curve(bi, wi, bo, wo) <= Curve(bi + v, wi, bo - a, wo)
    BY <2>2, <2>3
  <2> QED BY <1>4, <1>5, <2>1, <2>4 DEF in
<1>12. CASE a # 0
  <2>1. ok /\ ~(p <= 0) /\ in = paid
    <3> HIDE DEF ok, p, paid, in, fits
    <3> QED BY <1>1, <1>2, <1>3, <1>12 DEF Panicked, Panic
  <2>2. base > 0 /\ base < ONE
    BY <2>1 DEF InDomain, Ops62, PowOps, ExpOps
  <2>3. base \in 1 .. ONE - 1
    BY <1>6, <1>10, <2>2
  <2>4. p \in 0 .. ONE_62 - 1
    BY <1>7, <2>3, PowersInRange
  <2>5. Raised(p, ONE) * Raised(ONE, exponent) <= Raised(ONE_62, ONE) * Raised(base, exponent)
    BY <1>7, <2>3 DEF PowersFavourPool
  <2> HIDE DEF p, ok, fits
  <2>6. p \in 1 .. ONE_62 - 1 /\ p \in Nat
    <3> DEFINE U == ONE_62
    <3> HIDE DEF U
    <3>1. U \in Nat /\ p \in 0 .. U - 1 /\ ~(p <= 0)
      BY <1>6, <2>1, <2>4 DEF U
    <3>2. p \in 1 .. U - 1 /\ p \in Nat
      BY <3>1
    <3> QED BY <3>2 DEF U
  <2>7. ~Panicked(paid)
    <3> HIDE DEF paid, in
    <3> QED BY <1>2, <2>1
  <2>8. paid.value \in Nat /\ bi * ONE_62 <= (bi + paid.value) * p
    BY <1>4, <2>6, <2>7, PaymentCovers
  <2> HIDE DEF paid, in
  <2>9. v \in Nat /\ bi * ONE_62 <= (bi + v) * p
    BY <2>1, <2>8
  <2> DEFINE t == bi + v
  <2> HIDE DEF v
  <2>10. t \in Nat /\ bi * ONE_62 <= t * p
    BY <1>4, <2>9
  <2> HIDE DEF t
  <2>11. InPriced(ONE, ONE_62, wi, wo, bi, t, bo, rest, exponent, base, p)
    <3>1. ONE >= 1 /\ ONE_62 >= 1 /\ bo >= 1 /\ rest <= bo
      BY <1>4, <1>6, <1>9
    <3>2. wo * ONE <= exponent * wi /\ base * bo <= rest * ONE /\ bi * ONE_62 <= t * p
      BY <1>8, <1>10, <2>10
    <3> QED BY <2>5, <3>1, <3>2, Zenon DEF InPriced
  <2>12. Curve(bi, wi, bo, wo) <= Curve(t, wi, rest, wo)
    BY <1>4, <1>6, <1>8, <1>9, <1>10, <2>6, <2>10, <2>11, InTrade
  <2>13. Curve(bi, wi, bo, wo) <= Curve(bi + v, wi, bo - a, wo)
    BY <2>12 DEF t, rest
  <2> QED BY <1>4, <1>5, <2>9, <2>13 DEF in, v
<1> QED BY <1>11, <1>12

\* The referee's comparison, in numbers.
LEMMA CurveDenotes ==
  ASSUME NEW b \in Nat, NEW w \in Nat, NEW c \in Nat, NEW z \in Nat
  PROVE  Denotes(CurveValue(b, w, c, z), Curve(b, w, c, z))
<1>1. Denotes(Big(b), b) /\ Denotes(Big(c), c)
  BY BigDenotes
<1>2. Denotes(ToThe(Big(b), w), Raised(b, w)) /\ Denotes(ToThe(Big(c), z), Raised(c, z))
  BY <1>1, ToTheDenotes
<1> QED BY <1>2, TimesDenotes DEF CurveValue, Curve

LEMMA CurveCompare ==
  ASSUME NEW b \in Nat, NEW w \in Nat, NEW c \in Nat, NEW z \in Nat,
         NEW t \in Nat, NEW r \in Nat
  PROVE  NotAbove(CurveValue(b, w, c, z), CurveValue(t, w, r, z))
           <=> Curve(b, w, c, z) <= Curve(t, w, r, z)
<1>1. /\ Denotes(CurveValue(b, w, c, z), Curve(b, w, c, z))
      /\ Denotes(CurveValue(t, w, r, z), Curve(t, w, r, z))
  BY CurveDenotes
<1> QED BY <1>1, NotAboveDenotes

(***************************************************************************)
(* No priced trade lowers the curve value, given that the powers it is     *)
(* priced by are on the pool's side: the ratio, the exponent, the product  *)
(* and the quotient around them never give it away, at any reserves,       *)
(* weights and amount, where the sum that rounds a payment up is checked.  *)
(***************************************************************************)
THEOREM CurveKept ==
  ASSUME OVERFLOW_CHECKS, PowersFavourPool
  PROVE  SwapSpec => []CurveNeverFalls
<1>1. QuoteInv => CurveNeverFalls
  <2> SUFFICES ASSUME QuoteInv PROVE CurveNeverFalls
    OBVIOUS
  <2> DEFINE bi == quote.balance_in
             wi == quote.weight_in
             bo == quote.balance_out
             wo == quote.weight_out
             a == quote.amount
             v == out.value
  <2>1. Answered /\ bi \in U128 /\ wi \in U128 /\ bo \in U128 /\ wo \in U128 /\ a \in U128
    BY DEF QuoteInv, IsQuote
  <2>2. bi \in Nat /\ wi \in Nat /\ bo \in Nat /\ wo \in Nat /\ a \in Nat
    BY <2>1 DEF U128
  <2>3. ASSUME Paid("out_given_in") PROVE invariant_preserved(quote, bi + a, v)
    <3>1. out = calc_out_given_in(bi, wi, bo, wo, a) /\ ~Panicked(out)
      BY <2>1, <2>3 DEF Paid, Answered, OutGivenIn, Pending, Panic, Panicked
    <3>2. ~Panicked(calc_out_given_in(bi, wi, bo, wo, a))
      BY <3>1
    <3> DEFINE d == calc_out_given_in(bi, wi, bo, wo, a).value
    <3>3. v = d
      BY <3>1
    <3> HIDE DEF bi, wi, bo, wo, a, v
    <3>4. d \in 0 .. bo - 1 /\ Curve(bi, wi, bo, wo) <= Curve(bi + a, wi, bo - d, wo)
      BY <2>1, <3>2, OutKeepsCurve
    <3> HIDE DEF d
    <3>5. v <= bo /\ bo - v \in Nat /\ bi + a \in Nat
      BY <2>2, <3>3, <3>4
    <3>6. NotAbove(CurveValue(bi, wi, bo, wo), CurveValue(bi + a, wi, bo - v, wo))
      BY <2>2, <3>3, <3>4, <3>5, CurveCompare
    <3> QED BY <3>5, <3>6 DEF invariant_preserved, bi, wi, bo, wo
  <2>4. ASSUME Paid("in_given_out") PROVE invariant_preserved(quote, bi + v, a)
    <3>1. out = calc_in_given_out(bi, wi, bo, wo, a) /\ ~Panicked(out)
      BY <2>1, <2>4 DEF Paid, Answered, InGivenOut, Pending, Panic, Panicked
    <3>2. ~Panicked(calc_in_given_out(bi, wi, bo, wo, a))
      BY <3>1
    <3> DEFINE d == calc_in_given_out(bi, wi, bo, wo, a).value
    <3>3. v = d
      BY <3>1
    <3> HIDE DEF bi, wi, bo, wo, a, v
    <3>4. /\ d \in Nat /\ a \in 0 .. bo - 1
          /\ Curve(bi, wi, bo, wo) <= Curve(bi + d, wi, bo - a, wo)
      BY <2>1, <3>2, InKeepsCurve
    <3> HIDE DEF d
    <3>5. a <= bo /\ bo - a \in Nat /\ bi + v \in Nat
      BY <2>2, <3>3, <3>4
    <3>6. NotAbove(CurveValue(bi, wi, bo, wo), CurveValue(bi + v, wi, bo - a, wo))
      BY <2>2, <3>3, <3>4, <3>5, CurveCompare
    <3> QED BY <3>5, <3>6 DEF invariant_preserved, bi, wi, bo, wo
  <2> QED BY <2>3, <2>4 DEF CurveNeverFalls
<1> QED BY <1>1, QuoteInvariant, PTL
-----------------------------------------------------------------------------
(***************************************************************************)
(* A pool.                                                                 *)
(***************************************************************************)

IInv == TypeOK /\ ReservesNeverEmpty

TakerPays == \A z \in Tokens : reserve'[z] < reserve[z] =>
                           reserve'[Other(z)] > reserve[Other(z)]

\* A swap that adds paid_in and takes less than the whole other reserve.
LEMMA MoveKeeps ==
  ASSUME IInv, NEW token \in Tokens, NEW paid_in \in Nat, NEW paid_out \in Nat,
         Move(token, paid_in, paid_out),
         reserve[token] + paid_in \in U128, paid_out < reserve[Other(token)]
  PROVE  IInv' /\ ((paid_out > 0 => paid_in > 0) => TakerPays)
<1> DEFINE to == Other(token)
<1>1. /\ reserve \in [Tokens -> U128] /\ weight \in [Tokens -> U128]
      /\ start \in [Tokens -> U128] /\ trades \in 0 .. MAX_TRADES
      /\ \A z \in Tokens : reserve[z] >= 1
  BY DEF IInv, TypeOK, ReservesNeverEmpty
<1>2. /\ to \in Tokens /\ to # token /\ Tokens = {token, to}
      /\ Other(to) = token
  BY DEF Tokens, Other
<1> HIDE DEF to
<1>3. reserve[token] \in Nat /\ reserve[to] \in Nat /\ reserve[to] < WORD /\ WORD \in Nat
  BY <1>1, <1>2, PoolScales DEF U128
<1>4. /\ reserve' = [reserve EXCEPT ![token] = @ + paid_in, ![to] = @ - paid_out]
      /\ weight' = weight /\ start' = start
      /\ trades < MAX_TRADES /\ trades' = trades + 1
  BY DEF Move, to
<1>5. /\ reserve'[token] = reserve[token] + paid_in
      /\ reserve'[to] = reserve[to] - paid_out
      /\ DOMAIN reserve' = Tokens
  BY <1>1, <1>2, <1>4
<1>6. reserve'[token] \in U128 /\ reserve'[to] \in U128
  BY <1>3, <1>5 DEF U128, to
<1>7. reserve' \in [Tokens -> U128]
  BY <1>1, <1>2, <1>4, <1>5, <1>6
<1>8. trades' \in 0 .. MAX_TRADES
  BY <1>1, <1>4, PoolsAssumption
<1>9. \A z \in Tokens : reserve'[z] >= 1
  BY <1>1, <1>2, <1>3, <1>5 DEF to
<1>10. IInv'
  BY <1>1, <1>4, <1>7, <1>8, <1>9 DEF IInv, TypeOK, ReservesNeverEmpty
<1>11. ASSUME paid_out > 0 => paid_in > 0, NEW z \in Tokens, reserve'[z] < reserve[z]
       PROVE  reserve'[Other(z)] > reserve[Other(z)]
  <2>1. z = to
    BY <1>2, <1>3, <1>5, <1>11
  <2>2. paid_out > 0
    BY <2>1, <1>3, <1>5, <1>11
  <2> QED BY <2>1, <2>2, <1>2, <1>3, <1>5, <1>11
<1> QED BY <1>10, <1>11 DEF TakerPays

LEMMA GivenInKeeps ==
  ASSUME IInv, NEW token \in Tokens, NEW amount \in Amounts, SwapGivenIn(token, amount)
  PROVE  IInv' /\ TakerPays
<1> DEFINE to == Other(token)
           got == calc_out_given_in(reserve[token], weight[token],
                                    reserve[to], weight[to], amount)
<1>1. ~Panicked(got) /\ Move(token, amount, got.value)
  BY DEF SwapGivenIn
<1>2. /\ reserve[token] \in U128 /\ weight[token] \in U128
      /\ reserve[to] \in U128 /\ weight[to] \in U128
      /\ amount \in U128 /\ amount \in Nat /\ reserve[to] \in Nat
  BY PoolsAssumption DEF IInv, TypeOK, Other, Tokens, U128
<1>3. /\ got.value \in 0 .. reserve[to] - 1
      /\ reserve[token] + amount \in U128
      /\ amount = 0 => got.value = 0
  <2> HIDE DEF to
  <2> QED BY <1>1, <1>2, OutBelowReserve
<1> HIDE DEF got
<1>4. /\ got.value \in Nat /\ got.value < reserve[to]
      /\ got.value > 0 => amount > 0
  BY <1>2, <1>3
<1> QED BY <1>1, <1>2, <1>3, <1>4, MoveKeeps

LEMMA GivenOutKeeps ==
  ASSUME IInv, NEW token \in Tokens, NEW amount \in Amounts, SwapGivenOut(token, amount)
  PROVE  IInv' /\ (OVERFLOW_CHECKS => TakerPays)
<1> DEFINE to == Other(token)
           in == calc_in_given_out(reserve[token], weight[token],
                                   reserve[to], weight[to], amount)
<1>1. /\ ~Panicked(in) /\ Move(token, in.value, amount)
      /\ reserve[token] + in.value \in U128
  BY DEF SwapGivenOut
<1>2. /\ reserve[token] \in U128 /\ weight[token] \in U128
      /\ reserve[to] \in U128 /\ weight[to] \in U128
      /\ amount \in U128 /\ amount \in Nat /\ reserve[to] \in Nat
  BY PoolsAssumption DEF IInv, TypeOK, Other, Tokens, U128
<1>3. /\ in.value \in Nat /\ amount \in 0 .. reserve[to] - 1
      /\ OVERFLOW_CHECKS /\ amount > 0 => in.value >= 1
  <2> HIDE DEF to
  <2> QED BY <1>1, <1>2, InIsPaid
<1> HIDE DEF in
<1>4. /\ amount < reserve[to]
      /\ OVERFLOW_CHECKS => (amount > 0 => in.value > 0)
  BY <1>2, <1>3
<1>5. IInv' /\ ((amount > 0 => in.value > 0) => TakerPays)
  BY <1>1, <1>2, <1>3, <1>4, MoveKeeps
<1> QED BY <1>4, <1>5

LEMMA StepKeeps ==
  ASSUME IInv, [Next]_vars
  PROVE  IInv' /\ (OVERFLOW_CHECKS => TakerPays \/ UNCHANGED vars)
<1>1. CASE Next
  <2>1. PICK token \in Tokens, amount \in Amounts :
          SwapGivenIn(token, amount) \/ SwapGivenOut(token, amount)
    BY <1>1 DEF Next
  <2> QED BY <2>1, GivenInKeeps, GivenOutKeeps
<1>2. CASE UNCHANGED vars
  BY <1>2 DEF vars, IInv, TypeOK, ReservesNeverEmpty
<1> QED BY <1>1, <1>2

LEMMA InitInv ==
  ASSUME Init
  PROVE  IInv
BY PoolsAssumption DEF Init, IInv, TypeOK, ReservesNeverEmpty

LEMMA SessionInvariant == Spec => []IInv
<1> QED BY InitInv, StepKeeps, PTL DEF Spec

(***************************************************************************)
(* A reserve stays a word: what a swap takes of one is there, whatever the *)
(* other one is.                                                           *)
(***************************************************************************)
THEOREM SessionTypes == Spec => []TypeOK
<1>1. IInv => TypeOK
  BY DEF IInv
<1> QED BY <1>1, SessionInvariant, PTL

(***************************************************************************)
(* No session of swaps, of any length, empties a reserve: a complement is  *)
(* less than one whatever the tables say, so a payout is less than the     *)
(* reserve, and the cap on a withdrawal leaves seven tenths of it.         *)
(***************************************************************************)
THEOREM SessionsLeaveReserves == Spec => []ReservesNeverEmpty
<1>1. IInv => ReservesNeverEmpty
  BY DEF IInv
<1> QED BY <1>1, SessionInvariant, PTL

(***************************************************************************)
(* Where the profile checks overflow, a swap that lowers one reserve       *)
(* raises the other.  Unchecked, the sum that rounds a payment up may      *)
(* wrap to nothing.                                                        *)
(***************************************************************************)
THEOREM SwapsPay == ASSUME OVERFLOW_CHECKS PROVE Spec => EverySwapPays
<1>1. IInv /\ [Next]_vars => [TakerPays]_vars
  BY StepKeeps
<1>2. Spec => [][TakerPays]_vars
  BY <1>1, SessionInvariant, PTL DEF Spec
<1> QED BY <1>2 DEF EverySwapPays, TakerPays

(***************************************************************************)
(* What a session leaves the pool: unless it has its initial reserves, its *)
(* weights price swaps and its curve value is no less than at the start.   *)
(* The reserves alone are not inductive: a swap lowers one of them, and    *)
(* only the curve value says what a swap back may then take of the other.  *)
(***************************************************************************)
PoolValue(r) == Curve(r["A"], weight["A"], r["B"], weight["B"])

Gained == /\ weight["A"] >= 1 /\ weight["B"] >= 1
          /\ PoolValue(start) <= PoolValue(reserve)

SessionInv == IInv /\ (reserve = start \/ Gained)

\* A move whose trade keeps the curve value keeps the pool's.
LEMMA MoveGains ==
  ASSUME IInv, NEW token \in Tokens, NEW paid_in \in Nat, NEW paid_out \in Nat,
         Move(token, paid_in, paid_out), paid_out < reserve[Other(token)],
         weight[token] >= 1, weight[Other(token)] >= 1,
         Curve(reserve[token], weight[token], reserve[Other(token)], weight[Other(token)])
           <= Curve(reserve[token] + paid_in, weight[token],
                    reserve[Other(token)] - paid_out, weight[Other(token)])
  PROVE  /\ weight["A"] >= 1 /\ weight["B"] >= 1
         /\ PoolValue(reserve) <= PoolValue(reserve')
<1> DEFINE to == Other(token)
<1>1. /\ reserve \in [Tokens -> U128] /\ weight \in [Tokens -> U128]
  BY DEF IInv, TypeOK
<1>2. (token = "A" /\ to = "B") \/ (token = "B" /\ to = "A")
  BY DEF Tokens, Other
<1>3. reserve' = [reserve EXCEPT ![token] = @ + paid_in, ![to] = @ - paid_out]
  BY DEF Move
<1>4. "A" \in Tokens /\ "B" \in Tokens /\ "A" # "B"
  BY DEF Tokens
<1> HIDE DEF to
<1>5. reserve'[token] = reserve[token] + paid_in /\ reserve'[to] = reserve[to] - paid_out
  BY <1>1, <1>2, <1>3, <1>4
<1>6. Curve(reserve[token], weight[token], reserve[to], weight[to])
        <= Curve(reserve'[token], weight[token], reserve'[to], weight[to])
  BY <1>5 DEF to
<1>7. weight[token] >= 1 /\ weight[to] >= 1
  BY DEF to
<1>8. CASE token = "A" /\ to = "B"
  BY <1>6, <1>7, <1>8 DEF PoolValue
<1>9. CASE token = "B" /\ to = "A"
  <2>1. /\ \A z \in Tokens : reserve[z] \in Nat /\ weight[z] \in Nat
        /\ paid_out \in Nat /\ reserve[to] - paid_out \in Nat
        /\ reserve[token] + paid_in \in Nat
    <3>1. \A z \in Tokens : reserve[z] \in Nat /\ weight[z] \in Nat
      BY <1>1 DEF U128
    <3>2. paid_out < reserve[to]
      BY DEF to
    <3> QED BY <1>4, <1>9, <3>1, <3>2
  <2>2. reserve'["A"] \in Nat /\ reserve'["B"] \in Nat
    BY <1>5, <1>9, <2>1
  <2>3. ASSUME NEW b \in Nat, NEW w \in Nat, NEW c \in Nat, NEW z \in Nat
        PROVE  Curve(b, w, c, z) = Curve(c, z, b, w)
    <3> DEFINE u == Raised(b, w)
               v == Raised(c, z)
    <3>1. u \in Nat /\ v \in Nat
      BY RaisedBy
    <3> HIDE DEF u, v
    <3>2. u * v = v * u
      BY <3>1
    <3> QED BY <3>2 DEF Curve, u, v
  <2>4. /\ Curve(reserve["B"], weight["B"], reserve["A"], weight["A"]) = PoolValue(reserve)
        /\ Curve(reserve'["B"], weight["B"], reserve'["A"], weight["A"]) = PoolValue(reserve')
    BY <1>4, <2>1, <2>2, <2>3 DEF PoolValue
  <2> QED BY <1>6, <1>7, <1>9, <2>4
<1> QED BY <1>2, <1>8, <1>9

LEMMA SwapGains ==
  ASSUME OVERFLOW_CHECKS, PowersFavourPool, IInv, Next
  PROVE  /\ weight["A"] >= 1 /\ weight["B"] >= 1
         /\ PoolValue(reserve) <= PoolValue(reserve')
<1>1. PICK token \in Tokens, amount \in Amounts :
        SwapGivenIn(token, amount) \/ SwapGivenOut(token, amount)
  BY DEF Next
<1> DEFINE to == Other(token)
           bi == reserve[token]
           wi == weight[token]
           bo == reserve[to]
           wo == weight[to]
<1>2. /\ bi \in U128 /\ wi \in U128 /\ bo \in U128 /\ wo \in U128 /\ amount \in U128
      /\ amount \in Nat /\ bo \in Nat
  BY PoolsAssumption DEF IInv, TypeOK, Other, Tokens, U128
<1>3. CASE SwapGivenIn(token, amount)
  <2> DEFINE got == calc_out_given_in(bi, wi, bo, wo, amount)
             v == got.value
  <2>1. ~Panicked(got) /\ Move(token, amount, v)
    BY <1>3 DEF SwapGivenIn
  <2>2. /\ v \in 0 .. bo - 1 /\ wi >= 1 /\ wo >= 1
        /\ Curve(bi, wi, bo, wo) <= Curve(bi + amount, wi, bo - v, wo)
    <3> HIDE DEF bi, wi, bo, wo
    <3> QED BY <1>2, <2>1, OutKeepsCurve
  <2> HIDE DEF got, v
  <2>3. v \in Nat /\ v < bo
    BY <1>2, <2>2
  <2> QED BY <1>2, <2>1, <2>2, <2>3, MoveGains
<1>4. CASE SwapGivenOut(token, amount)
  <2> DEFINE in == calc_in_given_out(bi, wi, bo, wo, amount)
             v == in.value
  <2>1. ~Panicked(in) /\ Move(token, v, amount)
    BY <1>4 DEF SwapGivenOut
  <2>2. /\ v \in Nat /\ amount \in 0 .. bo - 1 /\ wi >= 1 /\ wo >= 1
        /\ Curve(bi, wi, bo, wo) <= Curve(bi + v, wi, bo - amount, wo)
    <3> HIDE DEF bi, wi, bo, wo
    <3> QED BY <1>2, <2>1, InKeepsCurve
  <2> HIDE DEF in, v
  <2>3. amount < bo
    BY <1>2, <2>2
  <2> QED BY <1>2, <2>1, <2>2, <2>3, MoveGains
<1> QED BY <1>1, <1>3, <1>4

LEMMA PoolValueNat ==
  ASSUME IInv
  PROVE  /\ PoolValue(reserve) \in Nat /\ PoolValue(start) \in Nat
         /\ \A z \in Tokens : /\ reserve[z] \in Nat /\ weight[z] \in Nat /\ start[z] \in Nat
                              /\ reserve[z] >= 1
<1>1. \A z \in Tokens : /\ reserve[z] \in Nat /\ weight[z] \in Nat /\ start[z] \in Nat
                        /\ reserve[z] >= 1
  BY DEF IInv, TypeOK, ReservesNeverEmpty, U128
<1>2. "A" \in Tokens /\ "B" \in Tokens
  BY DEF Tokens
<1> QED BY <1>1, <1>2, CurveNat DEF PoolValue

LEMMA SessionInvNext ==
  ASSUME OVERFLOW_CHECKS, PowersFavourPool, SessionInv, [Next]_vars
  PROVE  SessionInv'
<1>1. IInv /\ IInv'
  BY StepKeeps DEF SessionInv
<1>2. CASE Next
  <2>1. weight' = weight /\ start' = start
    BY <1>2 DEF Next, SwapGivenIn, SwapGivenOut, Move
  <2>2. /\ weight["A"] >= 1 /\ weight["B"] >= 1
        /\ PoolValue(reserve) <= PoolValue(reserve')
    BY <1>1, <1>2, SwapGains
  <2>3. PoolValue(reserve) \in Nat /\ PoolValue(start) \in Nat
    BY <1>1, PoolValueNat
  <2>4. PoolValue(reserve') \in Nat
    <3>1. /\ reserve'["A"] \in Nat /\ reserve'["B"] \in Nat
          /\ weight["A"] \in Nat /\ weight["B"] \in Nat
      BY <1>1 DEF IInv, TypeOK, Tokens, U128
    <3> QED BY <3>1, CurveNat DEF PoolValue
  <2>5. PoolValue(reserve)' = PoolValue(reserve') /\ PoolValue(start)' = PoolValue(start)
    BY <2>1 DEF PoolValue
  <2>6. PoolValue(start) <= PoolValue(reserve)
    BY <2>3 DEF SessionInv, Gained
  <2>7. PoolValue(start)' <= PoolValue(reserve)'
    <3> DEFINE x == PoolValue(start)
               y == PoolValue(reserve)
               z == PoolValue(reserve')
    <3>1. x \in Nat /\ y \in Nat /\ z \in Nat /\ x <= y /\ y <= z
      BY <2>2, <2>3, <2>4, <2>5, <2>6
    <3> HIDE DEF x, y, z
    <3>2. x <= z
      BY <3>1
    <3> QED BY <2>5, <3>2 DEF x, z
  <2> QED BY <1>1, <2>1, <2>2, <2>7 DEF SessionInv, Gained
<1>3. CASE UNCHANGED vars
  BY <1>1, <1>3 DEF vars, SessionInv, Gained, PoolValue
<1> QED BY <1>2, <1>3

\* A pool that lost reserves and gained none has lost curve value.
LEMMA LossShows ==
  ASSUME NEW b \in Nat, NEW w \in Nat, NEW c \in Nat, NEW z \in Nat,
         NEW t \in Nat, NEW r \in Nat, w >= 1, z >= 1, t >= 1, r >= 1,
         t <= b, r <= c, Curve(b, w, c, z) <= Curve(t, w, r, z)
  PROVE  t = b /\ r = c
<1> DEFINE u == Raised(b, w)
           v == Raised(c, z)
           x == Raised(t, w)
           y == Raised(r, z)
<1>1. x <= u /\ y <= v /\ x \in Nat /\ u \in Nat /\ y \in Nat /\ v \in Nat
  BY RaisedMonotone
<1>2. x >= 1 /\ y >= 1
  BY RaisedPositive
<1>3. (t < b => x < u) /\ (r < c => y < v)
  BY RaisedStrict
<1>4. u * v <= x * y
  BY DEF Curve
<1> HIDE DEF u, v, x, y
<1>5. ~(x < u)
  <2> SUFFICES ASSUME x < u PROVE FALSE
    OBVIOUS
  <2>1. x * y <= x * v /\ x * v \in Nat /\ x * y \in Nat
    BY <1>1, ProductBound
  <2>2. (x + 1) * v <= u * v /\ u * v \in Nat
    <3>1. x + 1 <= u /\ x + 1 \in Nat
      BY <1>1
    <3> QED BY <1>1, <3>1, Scaled
  <2>3. (x + 1) * v = x * v + v
    BY <1>1
  <2>4. v >= 1
    BY <1>1, <1>2
  <2> QED BY <1>1, <1>4, <2>1, <2>2, <2>3, <2>4
<1>6. ~(y < v)
  <2> SUFFICES ASSUME y < v PROVE FALSE
    OBVIOUS
  <2>1. x * y <= u * y /\ u * y \in Nat /\ x * y \in Nat
    BY <1>1, Scaled
  <2>2. u * (y + 1) <= u * v /\ u * v \in Nat
    <3>1. y + 1 <= v /\ y + 1 \in Nat
      BY <1>1
    <3> QED BY <1>1, <3>1, ProductBound
  <2>3. u * (y + 1) = u * y + u
    BY <1>1
  <2>4. u >= 1
    BY <1>1, <1>2
  <2> QED BY <1>1, <1>4, <2>1, <2>2, <2>3, <2>4
<1> QED BY <1>3, <1>5, <1>6

(***************************************************************************)
(* No session of swaps, of any length and in whichever directions, leaves  *)
(* the pool with less of one token and no more of the other, given that    *)
(* the powers are on the pool's side and the payment's sum is checked.     *)
(***************************************************************************)
THEOREM SessionsGainNothing ==
  ASSUME OVERFLOW_CHECKS, PowersFavourPool
  PROVE  Spec => []NoFreeSession
<1>1. Init => SessionInv
  BY InitInv DEF SessionInv, Init
<1>2. SessionInv /\ [Next]_vars => SessionInv'
  BY SessionInvNext
<1>3. SessionInv => NoFreeSession
  <2> SUFFICES ASSUME SessionInv, reserve # start,
                      \A z \in Tokens : reserve[z] <= start[z]
               PROVE  FALSE
    BY DEF NoFreeSession
  <2>1. IInv /\ Gained
    BY DEF SessionInv
  <2>2. /\ \A z \in Tokens : /\ reserve[z] \in Nat /\ weight[z] \in Nat /\ start[z] \in Nat
                             /\ reserve[z] >= 1
        /\ "A" \in Tokens /\ "B" \in Tokens
    BY <2>1, PoolValueNat DEF Tokens
  <2> DEFINE b == start["A"]
             w == weight["A"]
             c == start["B"]
             z == weight["B"]
             t == reserve["A"]
             r == reserve["B"]
  <2>3. t = b /\ r = c
    <3>1. /\ b \in Nat /\ w \in Nat /\ c \in Nat /\ z \in Nat /\ t \in Nat /\ r \in Nat
          /\ t >= 1 /\ r >= 1 /\ t <= b /\ r <= c
      BY <2>2
    <3>2. w >= 1 /\ z >= 1 /\ Curve(b, w, c, z) <= Curve(t, w, r, z)
      BY <2>1 DEF Gained, PoolValue
    <3> HIDE DEF b, w, c, z, t, r
    <3> QED BY <3>1, <3>2, LossShows
  <2>4. reserve = start
    BY <2>1, <2>3 DEF IInv, TypeOK, Tokens
  <2> QED BY <2>4
<1> QED BY <1>1, <1>2, <1>3, PTL DEF Spec
=============================================================================
