---------------------------- MODULE Parity_proofs ---------------------------
(***************************************************************************)
(* The parity protocol for every suite, kernel and word.  What the wire    *)
(* holds is a concatenation of pieces of one length, so host and guest     *)
(* agree on every word by its place; the verdict follows from an invariant *)
(* that keeps, for every batch compared, what was found in it.             *)
(***************************************************************************)
EXTENDS Parity, SequenceTheorems, FiniteSetTheorems, WellFoundedInduction, TLAPS

\* A nonempty set of naturals has a least element.
LEMMA LeastElement ==
  ASSUME NEW T, T \subseteq Nat, T # {}
  PROVE  \E x \in T : \A y \in T : x <= y
<1> DEFINE R == {ss \in Nat \X Nat : ss[1] < ss[2]}
<1>1. IsWellFoundedOn(R, Nat)
  BY NatLessThanWellFounded DEF OpToRel
<1>2. PICK x \in T : \A y \in T : ~(<<y, x>> \in R)
  <2> HIDE DEF R
  <2> QED BY <1>1, WFMin
<1>3. ASSUME NEW y \in T PROVE x <= y
  <2>1. x \in Nat /\ y \in Nat
    OBVIOUS
  <2>2. ~(y < x)
    BY <2>1, <1>2
  <2> QED BY <2>1, <2>2
<1> QED BY <1>3

\* A number without the property is reached by no step of one.
LEMMA Climbs ==
  ASSUME NEW n \in Nat, NEW Good, 1 \in Good,
         \A i \in 1 .. n - 1 : i \in Good => i + 1 \in Good
  PROVE  1 .. n \subseteq Good
<1> DEFINE T == (1 .. n) \ Good
<1> SUFFICES ASSUME T # {} PROVE FALSE
  OBVIOUS
<1>1. PICK x \in T : \A y \in T : x <= y
  <2>1. T \subseteq Nat
    OBVIOUS
  <2> HIDE DEF T
  <2> QED BY <2>1, LeastElement
<1>2. x - 1 \in 1 .. n - 1
  BY <1>1
<1>3. x - 1 \in Good
  BY <1>1, <1>2
<1> QED BY <1>1, <1>2, <1>3

\* What a floor division leaves.
LEMMA SplitsOff ==
  ASSUME NEW x \in Nat, NEW d \in Nat, d > 0
  PROVE  /\ x \div d \in Nat /\ x % d \in 0 .. d - 1
         /\ x = ((x \div d) * d) + (x % d)
BY SMT

-----------------------------------------------------------------------------
(***************************************************************************)
(* Concatenations of pieces of one length.                                 *)
(***************************************************************************)
\* What the first m pieces join to, as the LET of FlattenSeq has it.
Joining(pieces, m, f) ==
  f = [i \in 1 .. m |-> IF i = 1 THEN pieces[i] ELSE f[i - 1] \o pieces[i]]

LEMMA JoiningExists ==
  ASSUME NEW pieces, NEW n \in Nat, n >= 1
  PROVE  \E f : Joining(pieces, n, f)
<1> DEFINE Good == {m \in 1 .. n : \E f : Joining(pieces, m, f)}
<1>1. 1 \in Good
  <2> DEFINE f == [i \in 1 .. 1 |-> pieces[i]]
  <2>1. Joining(pieces, 1, f)
    BY DEF Joining
  <2> HIDE DEF f
  <2> QED BY <2>1
<1>2. ASSUME NEW m \in 1 .. n - 1, m \in Good PROVE m + 1 \in Good
  <2>1. PICK g : Joining(pieces, m, g)
    BY <1>2
  <2> DEFINE f == [i \in 1 .. m + 1 |-> IF i = m + 1 THEN g[m] \o pieces[i] ELSE g[i]]
  <2>2. \A i \in 1 .. m : g[i] = IF i = 1 THEN pieces[i] ELSE g[i - 1] \o pieces[i]
    BY <2>1 DEF Joining
  <2>3. \A i \in 1 .. m + 1 :
          f[i] = IF i = 1 THEN pieces[i] ELSE f[i - 1] \o pieces[i]
    <3> TAKE i \in 1 .. m + 1
    <3>1. CASE i = m + 1
      <4>1. i # 1 /\ i - 1 \in 1 .. m + 1 /\ i - 1 # m + 1 /\ i - 1 = m
        BY <3>1
      <4>2. f[i] = g[m] \o pieces[i] /\ f[i - 1] = g[m]
        BY <3>1, <4>1
      <4> HIDE DEF f
      <4> QED BY <4>1, <4>2
    <3>2. CASE i # m + 1
      <4>1. i \in 1 .. m /\ f[i] = g[i]
        BY <3>2
      <4>2. i # 1 => i - 1 \in 1 .. m + 1 /\ i - 1 # m + 1 /\ f[i - 1] = g[i - 1]
        BY <4>1
      <4> HIDE DEF f
      <4> QED BY <4>1, <4>2, <2>2
    <3> QED BY <3>1, <3>2
  <2>4. f = [i \in 1 .. m + 1 |-> IF i = 1 THEN pieces[i] ELSE f[i - 1] \o pieces[i]]
    <3>1. f = [i \in 1 .. m + 1 |-> f[i]]
      OBVIOUS
    <3> HIDE DEF f
    <3> QED BY <3>1, <2>3
  <2> HIDE DEF f
  <2>5. Joining(pieces, m + 1, f)
    BY <2>4 DEF Joining
  <2> QED BY <2>5
<1>3. 1 .. n \subseteq Good
  <2> HIDE DEF Good
  <2> QED BY <1>1, <1>2, Climbs
<1> QED BY <1>3

LEMMA FlattenUnfolds ==
  ASSUME NEW pieces, Len(pieces) \in Nat, Len(pieces) >= 1
  PROVE  \E f : FlattenSeq(pieces) = f[Len(pieces)] /\ Joining(pieces, Len(pieces), f)
<1> DEFINE n == Len(pieces)
           f == CHOOSE f : f = [i \in 1 .. n |-> IF i = 1 THEN pieces[i]
                                                 ELSE f[i - 1] \o pieces[i]]
<1>1. Joining(pieces, n, f)
  <2>1. PICK g : Joining(pieces, n, g)
    BY JoiningExists
  <2>2. g = [i \in 1 .. n |-> IF i = 1 THEN pieces[i] ELSE g[i - 1] \o pieces[i]]
    BY <2>1 DEF Joining
  <2> QED BY <2>2, Zenon DEF Joining
<1>2. FlattenSeq(pieces) = f[n]
  BY DEF FlattenSeq
<1> HIDE DEF f
<1> QED BY <1>1, <1>2

\* A concatenation of pieces of length w is known by the places of its pieces.
Laid(S, w, pieces, all) ==
  /\ all \in Seq(S) /\ Len(all) = Len(pieces) * w
  /\ \A k \in 1 .. Len(pieces), j \in 1 .. w : all[(k - 1) * w + j] = pieces[k][j]

LEMMA FlattenPlaces ==
  ASSUME NEW S, NEW w \in Nat, NEW pieces \in Seq(Seq(S)),
         \A i \in 1 .. Len(pieces) : Len(pieces[i]) = w
  PROVE  Laid(S, w, pieces, FlattenSeq(pieces))
<1> DEFINE n == Len(pieces)
<1>0. n \in Nat /\ \A i \in 1 .. n : pieces[i] \in Seq(S)
  BY LenProperties, ElementOfSeq
<1>1. CASE n = 0
  <2>1. pieces = <<>> /\ FlattenSeq(pieces) = pieces
    BY <1>1, EmptySeq DEF FlattenSeq
  <2>2. FlattenSeq(pieces) \in Seq(S)
    <3>1. << >> \in Seq(S)
      BY EmptySeq
    <3> QED BY <2>1, <3>1, Zenon
  <2>3. Len(FlattenSeq(pieces)) = n * w /\ 1 .. n = {}
    BY <2>1, <1>1
  <2> QED BY <2>2, <2>3 DEF Laid
<1>2. CASE n >= 1
  <2>1. PICK f : FlattenSeq(pieces) = f[n] /\ Joining(pieces, n, f)
    BY <1>2, <1>0, FlattenUnfolds
  <2> DEFINE Placed(i) == /\ f[i] \in Seq(S) /\ Len(f[i]) = i * w
                          /\ \A k \in 1 .. i, j \in 1 .. w :
                               f[i][(k - 1) * w + j] = pieces[k][j]
             Good == {i \in 1 .. n : Placed(i)}
  <2>2. \A i \in 1 .. n : f[i] = IF i = 1 THEN pieces[i] ELSE f[i - 1] \o pieces[i]
    BY <2>1 DEF Joining
  <2> HIDE DEF n
  <2>3. 1 \in Good
    <3>1. f[1] = pieces[1]
      BY <2>2, <1>2, <1>0
    <3>2. \A k \in 1 .. 1, j \in 1 .. w : k = 1 /\ (k - 1) * w + j = j
      OBVIOUS
    <3>3. Placed(1)
      BY <3>1, <3>2, <1>0, <1>2 DEF n
    <3> QED BY <3>3, <1>0, <1>2
  <2>4. ASSUME NEW i \in 1 .. n - 1, i \in Good PROVE i + 1 \in Good
    <3>1. i + 1 \in 1 .. n /\ i + 1 # 1 /\ (i + 1) - 1 = i
      BY <1>0
    <3>2. f[i + 1] = f[i] \o pieces[i + 1]
      BY <2>2, <3>1
    <3>3. Placed(i)
      BY <2>4
    <3>4. pieces[i + 1] \in Seq(S) /\ Len(pieces[i + 1]) = w
      BY <1>0, <3>1 DEF n
    <3>5. /\ f[i + 1] \in Seq(S) /\ Len(f[i + 1]) = i * w + w
          /\ \A m \in 1 .. i * w + w :
               f[i + 1][m] = IF m <= i * w THEN f[i][m] ELSE pieces[i + 1][m - i * w]
      <4>1. f[i] \in Seq(S) /\ Len(f[i]) = i * w
        BY <3>3
      <4>2. LET both == f[i] \o pieces[i + 1]
            IN  /\ both \in Seq(S) /\ Len(both) = Len(f[i]) + Len(pieces[i + 1])
                /\ \A m \in 1 .. Len(f[i]) + Len(pieces[i + 1]) :
                     both[m] = IF m <= Len(f[i]) THEN f[i][m]
                               ELSE pieces[i + 1][m - Len(f[i])]
        BY <4>1, <3>4, ConcatProperties
      <4> HIDE DEF Placed, Good
      <4> QED BY <4>1, <4>2, <3>2, <3>4
    <3>6. i \in Nat /\ i * w \in Nat /\ i * w + w = (i + 1) * w
      BY SMT
    <3>7. ASSUME NEW k \in 1 .. i + 1, NEW j \in 1 .. w
          PROVE  f[i + 1][(k - 1) * w + j] = pieces[k][j]
      <4>1. CASE k = i + 1
        <5>1. (k - 1) * w = i * w
          BY <4>1, <3>6
        <5>2. (k - 1) * w + j \in 1 .. i * w + w /\ ~((k - 1) * w + j <= i * w)
              /\ ((k - 1) * w + j) - i * w = j
          BY <5>1, <3>6
        <5> QED BY <5>2, <3>5, <4>1
      <4>2. CASE k # i + 1
        <5>1. k \in 1 .. i
          BY <4>2
        <5>2. (k - 1) * w \in Nat /\ (k - 1) * w + w = k * w /\ k * w <= i * w
          BY <5>1, <3>6, SMT
        <5>3. (k - 1) * w + j \in 1 .. i * w + w /\ (k - 1) * w + j <= i * w
          BY <5>2, <3>6
        <5> QED BY <5>1, <5>3, <3>5, <3>3
      <4> QED BY <4>1, <4>2
    <3>8. Placed(i + 1)
      BY <3>5, <3>6, <3>7
    <3> QED BY <3>8, <3>1
  <2>5. 1 .. n \subseteq Good
    <3> HIDE DEF Good
    <3> QED BY <2>3, <2>4, <1>0, Climbs
  <2>6. Placed(n)
    <3>1. n \in 1 .. n
      BY <1>2, <1>0
    <3>2. n \in Good
      BY <3>1, <2>5
    <3> QED BY <3>2
  <2>7. FlattenSeq(pieces) = f[n]
    BY <2>1
  <2> QED BY <2>6, <2>7 DEF n, Laid
<1> QED BY <1>0, <1>1, <1>2

\* The first piece of a concatenation comes off its front.
LEMMA FlattenHead ==
  ASSUME NEW S, NEW w \in Nat, NEW pieces \in Seq(Seq(S)), Len(pieces) >= 1,
         \A i \in 1 .. Len(pieces) : Len(pieces[i]) = w,
         NEW rest \in Seq(Seq(S)), Len(rest) = Len(pieces) - 1,
         \A i \in 1 .. Len(rest) : rest[i] = pieces[i + 1]
  PROVE  FlattenSeq(pieces) = pieces[1] \o FlattenSeq(rest)
<1>a. Len(pieces) \in Nat /\ pieces[1] \in Seq(S) /\ Len(pieces[1]) = w
  BY LenProperties, ElementOfSeq
<1>b. \A i \in 1 .. Len(rest) : Len(rest[i]) = w
  <2> TAKE i \in 1 .. Len(rest)
  <2>1. i + 1 \in 1 .. Len(pieces)
    BY <1>a
  <2>2. rest[i] = pieces[i + 1] /\ Len(pieces[i + 1]) = w
    BY <2>1
  <2> QED BY <2>2
<1>c. /\ FlattenSeq(pieces) \in Seq(S) /\ Len(FlattenSeq(pieces)) = Len(pieces) * w
      /\ \A k \in 1 .. Len(pieces), j \in 1 .. w :
           FlattenSeq(pieces)[(k - 1) * w + j] = pieces[k][j]
  <2>1. Laid(S, w, pieces, FlattenSeq(pieces))
    BY FlattenPlaces
  <2> QED BY <2>1 DEF Laid
<1>d. /\ FlattenSeq(rest) \in Seq(S) /\ Len(FlattenSeq(rest)) = Len(rest) * w
      /\ \A k \in 1 .. Len(rest), j \in 1 .. w :
           FlattenSeq(rest)[(k - 1) * w + j] = rest[k][j]
  <2>1. Laid(S, w, rest, FlattenSeq(rest))
    BY <1>b, FlattenPlaces
  <2> QED BY <2>1 DEF Laid
<1> DEFINE n == Len(pieces)
           all == FlattenSeq(pieces)
           tail == FlattenSeq(rest)
           head == pieces[1]
<1> HIDE DEF n, all, tail, head
<1>1. n \in Nat /\ n >= 1 /\ head \in Seq(S) /\ Len(head) = w /\ Len(rest) = n - 1
  BY <1>a DEF n, head
<1>2. \A i \in 1 .. n - 1 : rest[i] = pieces[i + 1]
  BY <1>1
<1>3. /\ all \in Seq(S) /\ Len(all) = n * w
      /\ \A k \in 1 .. n, j \in 1 .. w : all[(k - 1) * w + j] = pieces[k][j]
  BY <1>c DEF n, all
<1>4. /\ tail \in Seq(S) /\ Len(tail) = (n - 1) * w
      /\ \A k \in 1 .. n - 1, j \in 1 .. w : tail[(k - 1) * w + j] = rest[k][j]
  BY <1>d, <1>1 DEF tail
<1>5. (n - 1) * w \in Nat /\ n * w = w + (n - 1) * w
  BY <1>1, SMT
<1> DEFINE both == head \o tail
<1>6. /\ both \in Seq(S) /\ Len(both) = Len(head) + Len(tail)
      /\ \A t \in 1 .. Len(head) + Len(tail) :
           both[t] = IF t <= Len(head) THEN head[t] ELSE tail[t - Len(head)]
  <2>1. head \in Seq(S) /\ tail \in Seq(S)
    BY <1>1, <1>4
  <2> QED BY <2>1, ConcatProperties
<1> HIDE DEF both
<1>7. ASSUME NEW t \in 1 .. w + (n - 1) * w
      PROVE  all[t] = both[t]
  <2>1. both[t] = IF t <= w THEN head[t] ELSE tail[t - w]
    BY <1>6, <1>1, <1>4
  <2>2. CASE t <= w
    <3>1. 1 \in 1 .. n /\ t \in 1 .. w /\ (1 - 1) * w + t = t
      BY <2>2, <1>1, <1>5
    <3>2. all[t] = pieces[1][t]
      BY <3>1, <1>3
    <3> QED BY <3>2, <2>1, <2>2 DEF head
  <2>3. CASE t > w
    <3> DEFINE u == t - w - 1
               k == u \div w
               j == u % w
    <3>1. u \in Nat /\ u < (n - 1) * w /\ w > 0 /\ t - w = u + 1
      <4>1. u \in Nat /\ u < (n - 1) * w /\ t - w = u + 1
        BY <2>3, <1>5
      <4>2. w = 0 => (n - 1) * w = 0
        BY <1>1
      <4> QED BY <4>1, <4>2
    <3> HIDE DEF u
    <3>2. k \in Nat /\ j \in 0 .. w - 1 /\ u = (k * w) + j
      BY <3>1, SplitsOff
    <3> HIDE DEF k, j
    <3>3. k < n - 1
      <4> SUFFICES ASSUME k >= n - 1 PROVE FALSE
        BY <3>2, <1>1
      <4>1. k * w >= (n - 1) * w /\ k * w \in Nat
        BY <3>2, <1>1, SMT
      <4> QED BY <4>1, <3>1, <3>2, <1>5
    <3>4. k + 1 \in 1 .. n - 1 /\ j + 1 \in 1 .. w /\ k + 2 \in 1 .. n
          /\ ((k + 1) - 1) * w + (j + 1) = t - w
      BY <3>1, <3>2, <3>3, <1>1
    <3>5. tail[t - w] = rest[k + 1][j + 1]
      BY <3>4, <1>4
    <3>6. rest[k + 1] = pieces[k + 2]
      <4>1. (k + 1) + 1 = k + 2
        BY <3>2
      <4>2. rest[k + 1] = pieces[(k + 1) + 1]
        BY <3>4, <1>2
      <4> QED BY <4>1, <4>2
    <3>7. ((k + 2) - 1) * w + (j + 1) = t
      <4>1. ((k + 2) - 1) * w = k * w + w
        BY <3>2, SMT
      <4>2. k * w \in Nat
        BY <3>2, SMT
      <4> QED BY <4>1, <4>2, <3>1, <3>2
    <3>8. all[t] = pieces[k + 2][j + 1]
      <4>1. all[((k + 2) - 1) * w + (j + 1)] = pieces[k + 2][j + 1]
        BY <3>4, <1>3
      <4> QED BY <4>1, <3>7
    <3> QED BY <2>1, <2>3, <3>5, <3>6, <3>8
  <2>4. t \in Int /\ w \in Int
    BY <1>5
  <2> QED BY <2>2, <2>3, <2>4
<1>8. Len(all) = Len(both) /\ Len(all) = w + (n - 1) * w
  BY <1>1, <1>3, <1>4, <1>5, <1>6
<1>9. all = both
  BY <1>3, <1>6, <1>7, <1>8, SeqEqual
<1> QED BY <1>9 DEF all, head, tail, both
-----------------------------------------------------------------------------
(***************************************************************************)
(* Integers as words.                                                      *)
(***************************************************************************)
\* The quotient that leaves a remainder below the divisor is the division's.
LEMMA Divides ==
  ASSUME NEW x \in Int, NEW d \in Nat, d > 0, NEW q \in Int, NEW r \in Int,
         x = (q * d) + r, 0 <= r, r < d
  PROVE  x \div d = q
BY SMT

\* The words of an integer, and the integer of the words.
LEMMA LimbsRejoin ==
  ASSUME NEW v \in U128
  PROVE  /\ Limbs(v) \in Seq(Word) /\ Len(Limbs(v)) = 4
         /\ \A w : (\A l \in 1 .. 4 : w[l] = Limbs(v)[l]) => u128_of(w) = v
<1> DEFINE B == BASE
           q1 == v \div B
           q2 == q1 \div B
           q3 == q2 \div B
           r0 == v % B
           r1 == q1 % B
           r2 == q2 % B
<1>1. B \in Nat /\ B > 0 /\ v \in Nat /\ v < B * B * B * B
  BY WordAssumption DEF U128
<1> HIDE DEF B
<1>2. q1 \in Nat /\ r0 \in 0 .. B - 1 /\ v = (q1 * B) + r0
  BY <1>1, SplitsOff
<1>3. q2 \in Nat /\ r1 \in 0 .. B - 1 /\ q1 = (q2 * B) + r1
  BY <1>1, <1>2, SplitsOff
<1>4. q3 \in Nat /\ r2 \in 0 .. B - 1 /\ q2 = (q3 * B) + r2
  BY <1>1, <1>3, SplitsOff
<1> HIDE DEF q1, q2, q3, r0, r1, r2
<1>5. B * B \in Nat /\ B * B > 0 /\ B * B * B \in Nat /\ B * B * B > 0
  BY <1>1, SMT
<1>6. v \div (B * B) = q2
  <2>1. v = (q2 * (B * B)) + ((r1 * B) + r0)
    BY <1>1, <1>2, <1>3, SMT
  <2>2. r1 * B \in Nat /\ r1 * B <= (B - 1) * B /\ (B - 1) * B = (B * B) - B
    BY <1>1, <1>3, SMT
  <2>3. (r1 * B) + r0 \in Nat /\ (r1 * B) + r0 < B * B
    BY <2>2, <1>1, <1>2, <1>5
  <2> DEFINE rest == (r1 * B) + r0
             d == B * B
  <2>4. v = (q2 * d) + rest /\ rest \in Int /\ 0 <= rest /\ rest < d
    BY <2>1, <2>3
  <2>5. v \in Int /\ d \in Nat /\ d > 0 /\ q2 \in Int
    BY <1>1, <1>3, <1>5
  <2> HIDE DEF rest, d
  <2>6. v \div d = q2
    BY <2>4, <2>5, Divides
  <2> QED BY <2>6 DEF d
<1>7. /\ v = (q3 * (B * B * B)) + ((r2 * (B * B)) + ((r1 * B) + r0))
      /\ (r2 * (B * B)) + ((r1 * B) + r0) \in Nat
      /\ (r2 * (B * B)) + ((r1 * B) + r0) < B * B * B
  <2>1. v = (q2 * (B * B)) + ((r1 * B) + r0)
    BY <1>1, <1>2, <1>3, SMT
  <2>2. q2 * (B * B) = (q3 * (B * B * B)) + (r2 * (B * B))
    BY <1>1, <1>4, <1>5, SMT
  <2>3. r1 * B \in Nat /\ r1 * B <= (B * B) - B
    BY <1>1, <1>3, SMT
  <2>4. r2 * (B * B) \in Nat /\ r2 * (B * B) <= (B * B * B) - (B * B)
    <3>1. r2 * (B * B) <= (B - 1) * (B * B) /\ r2 * (B * B) \in Nat
      BY <1>1, <1>4, <1>5, SMT
    <3>2. (B - 1) * (B * B) = (B * B * B) - (B * B)
      BY <1>1, SMT
    <3> QED BY <3>1, <3>2
  <2>5. q3 * (B * B * B) \in Nat
    BY <1>4, <1>5, SMT
  <2> QED BY <2>1, <2>2, <2>3, <2>4, <2>5, <1>1, <1>2, <1>5
<1>8. v \div (B * B * B) = q3
  BY <1>7, <1>1, <1>4, <1>5, Divides
<1>9. q3 \in 0 .. B - 1 /\ q3 % B = q3
  <2>1. q3 * (B * B * B) < B * (B * B * B)
    <3>1. q3 * (B * B * B) <= v
      BY <1>7, <1>4, <1>5, SMT
    <3>2. B * B * B * B = B * (B * B * B)
      BY <1>1, SMT
    <3> QED BY <3>1, <3>2, <1>1, <1>4, <1>5
  <2>2. q3 < B
    BY <2>1, <1>1, <1>4, <1>5, SMT
  <2> QED BY <2>2, <1>1, <1>4, SMT
<1>10. Limbs(v) = <<r0, r1, r2, q3>>
  BY <1>6, <1>8, <1>9 DEF Limbs, r0, r1, r2, q1, q2, B
<1>11. \A w : (\A l \in 1 .. 4 : w[l] = Limbs(v)[l]) => u128_of(w) = v
  <2> TAKE w
  <2> HAVE \A l \in 1 .. 4 : w[l] = Limbs(v)[l]
  <2>1. w[1] = r0 /\ w[2] = r1 /\ w[3] = r2 /\ w[4] = q3
    BY <1>10
  <2>2. u128_of(w) = r0 + r1 * B + r2 * (B * B) + q3 * (B * B * B)
    BY <2>1 DEF u128_of, B
  <2>3. r1 * B \in Nat /\ r2 * (B * B) \in Nat /\ q3 * (B * B * B) \in Nat
    BY <1>1, <1>3, <1>4, <1>5, SMT
  <2> QED BY <2>2, <2>3, <1>7, <1>2
<1>12. r0 \in Word /\ r1 \in Word /\ r2 \in Word /\ q3 \in Word
  BY <1>2, <1>3, <1>4, <1>9 DEF Word, B
<1>13. Limbs(v) \in Seq(Word) /\ Len(Limbs(v)) = 4
  <2> HIDE DEF Limbs
  <2>1. <<r0, r1, r2, q3>> \in Seq(Word) /\ Len(<<r0, r1, r2, q3>>) = 4
    BY <1>12
  <2> QED BY <2>1, <1>10
<1> QED BY <1>11, <1>13

\* A delta is two words.
LEMMA DeltaRejoins ==
  ASSUME NEW d \in U64
  PROVE  /\ d % BASE \in Word /\ d \div BASE \in Word
         /\ (d % BASE) + (d \div BASE) * BASE = d
<1> DEFINE B == BASE
           q == d \div B
           r == d % B
<1>1. B \in Nat /\ B > 0 /\ d \in Nat /\ d < B * B
  BY WordAssumption DEF U64
<1> HIDE DEF B
<1>2. q \in Nat /\ r \in 0 .. B - 1 /\ d = (q * B) + r
  BY <1>1, SplitsOff
<1> HIDE DEF q, r
<1>3. q < B /\ q * B \in Nat
  BY <1>1, <1>2, SMT
<1> QED BY <1>1, <1>2, <1>3 DEF Word, q, r, B
-----------------------------------------------------------------------------
(***************************************************************************)
(* The words of a case and of a batch.                                     *)
(***************************************************************************)
LimbsOf(c) == [j \in DOMAIN c |-> Limbs(c[j])]
CaseWords(c) == FlattenSeq(LimbsOf(c))
Pieces(cases) == [n \in DOMAIN cases |-> CaseWords(cases[n])]
BatchWords(cases) == FlattenSeq(Pieces(cases))

LEMMA EncodedSplits ==
  ASSUME NEW op, NEW cases
  PROVE  Encoded(op, cases) = <<op, Len(cases)>> \o BatchWords(cases)
BY Zenon DEF Encoded, BatchWords, Pieces, CaseWords, LimbsOf

\* A mapped sequence is a sequence.
LEMMA LimbsOfSeq ==
  ASSUME NEW c \in Seq(U128)
  PROVE  /\ LimbsOf(c) \in Seq(Seq(Word)) /\ Len(LimbsOf(c)) = Len(c)
         /\ \A j \in 1 .. Len(c) : /\ LimbsOf(c)[j] = Limbs(c[j])
                                   /\ Len(LimbsOf(c)[j]) = 4
<1>1. Len(c) \in Nat /\ DOMAIN c = 1 .. Len(c)
  BY LenProperties
<1>2. \A j \in 1 .. Len(c) : Limbs(c[j]) \in Seq(Word) /\ Len(Limbs(c[j])) = 4
  BY ElementOfSeq, LimbsRejoin
<1> DEFINE f == [j \in 1 .. Len(c) |-> Limbs(c[j])]
<1>3. LimbsOf(c) = f
  BY <1>1 DEF LimbsOf
<1>4. f \in Seq(Seq(Word)) /\ Len(f) = Len(c)
  <2> DEFINE g(j) == Limbs(c[j])
  <2>1. \A j \in 1 .. Len(c) : g(j) \in Seq(Word)
    BY <1>2
  <2> HIDE DEF g
  <2>2. [j \in 1 .. Len(c) |-> g(j)] \in Seq(Seq(Word))
    BY <2>1, <1>1
  <2>3. Len([j \in 1 .. Len(c) |-> g(j)]) = Len(c)
    BY <1>1
  <2> QED BY <2>2, <2>3 DEF g
<1> QED BY <1>2, <1>3, <1>4

LEMMA CaseLaid ==
  ASSUME NEW c \in Seq(U128)
  PROVE  /\ CaseWords(c) \in Seq(Word) /\ Len(CaseWords(c)) = Len(c) * 4
         /\ \A j \in 1 .. Len(c), l \in 1 .. 4 :
              CaseWords(c)[(j - 1) * 4 + l] = Limbs(c[j])[l]
<1> DEFINE p == LimbsOf(c)
<1>1. /\ p \in Seq(Seq(Word)) /\ Len(p) = Len(c)
      /\ \A j \in 1 .. Len(c) : p[j] = Limbs(c[j]) /\ Len(p[j]) = 4
  BY LimbsOfSeq
<1> HIDE DEF p
<1>2. \A i \in 1 .. Len(p) : Len(p[i]) = 4
  BY <1>1
<1>3. Laid(Word, 4, p, FlattenSeq(p))
  BY <1>1, <1>2, FlattenPlaces
<1>4. FlattenSeq(p) = CaseWords(c)
  BY DEF CaseWords, p
<1>5. /\ CaseWords(c) \in Seq(Word) /\ Len(CaseWords(c)) = Len(p) * 4
      /\ \A k \in 1 .. Len(p), j \in 1 .. 4 : CaseWords(c)[(k - 1) * 4 + j] = p[k][j]
  BY <1>3, <1>4 DEF Laid
<1>6. CaseWords(c) \in Seq(Word) /\ Len(CaseWords(c)) = Len(c) * 4
  BY <1>1, <1>5
<1>7. ASSUME NEW j \in 1 .. Len(c), NEW l \in 1 .. 4
      PROVE  CaseWords(c)[(j - 1) * 4 + l] = Limbs(c[j])[l]
  <2>1. j \in 1 .. Len(p) /\ p[j] = Limbs(c[j])
    BY <1>1
  <2>2. CaseWords(c)[(j - 1) * 4 + l] = p[j][l]
    BY <2>1, <1>5
  <2> QED BY <2>1, <2>2
<1> QED BY <1>6, <1>7

\* The arguments the guest reads are the case's, whatever follows it.
LEMMA CaseReadsBack ==
  ASSUME NEW c \in Seq(U128), NEW rest \in Seq(Word), NEW j \in 1 .. Len(c)
  PROVE  u128_at(CaseWords(c) \o rest, j - 1) = c[j]
<1> DEFINE words == CaseWords(c)
           both == words \o rest
           i == 4 * (j - 1)
<1>1. /\ words \in Seq(Word) /\ Len(words) = Len(c) * 4 /\ Len(c) \in Nat
      /\ \A l \in 1 .. 4 : words[(j - 1) * 4 + l] = Limbs(c[j])[l]
  BY CaseLaid, LenProperties
<1> HIDE DEF words
<1>2. /\ Len(rest) \in Nat
      /\ \A t \in 1 .. Len(words) + Len(rest) :
           both[t] = IF t <= Len(words) THEN words[t] ELSE rest[t - Len(words)]
  <2>1. words \in Seq(Word)
    BY <1>1
  <2> QED BY <2>1, ConcatProperties, LenProperties
<1> HIDE DEF both
<1>3. \A l \in 1 .. 4 : both[i + l] = Limbs(c[j])[l]
  <2> TAKE l \in 1 .. 4
  <2>1. i + l \in 1 .. Len(words) + Len(rest) /\ i + l <= Len(words)
        /\ i + l = (j - 1) * 4 + l
    BY <1>1, <1>2
  <2> QED BY <2>1, <1>1, <1>2
<1>4. \A l \in 1 .. 4 : SubSeq(both, i + 1, i + 4)[l] = both[i + l]
  <2>1. i + 1 \in Int /\ i + 4 \in Int /\ \A l \in 1 .. 4 : both[i + l] \in Word
    <3>1. c[j] \in U128
      BY ElementOfSeq
    <3>2. Limbs(c[j]) \in Seq(Word) /\ Len(Limbs(c[j])) = 4
      BY <3>1, LimbsRejoin
    <3>3. \A l \in 1 .. 4 : Limbs(c[j])[l] \in Word
      BY <3>2, ElementOfSeq
    <3> QED BY <3>3, <1>1, <1>3
  <2> DEFINE m == i + 1
             n == i + 4
  <2>2. m \in Int /\ n \in Int /\ n - m + 1 = 4 /\ \A t \in m .. n : both[t] \in Word
    <3>1. ASSUME NEW t \in m .. n PROVE both[t] \in Word
      <4>1. t - i \in 1 .. 4 /\ i + (t - i) = t
        BY <2>1
      <4>2. both[i + (t - i)] \in Word
        BY <4>1, <2>1
      <4> QED BY <4>1, <4>2
    <3> QED BY <3>1, <2>1
  <2> HIDE DEF m, n
  <2>3. \A l \in 1 .. 4 : SubSeq(both, m, n)[l] = both[m + l - 1]
    BY <2>2, SubSeqProperties
  <2>4. \A l \in 1 .. 4 : m + l - 1 = i + l
    BY <2>1 DEF m
  <2> QED BY <2>3, <2>4 DEF m, n
<1>5. u128_of(SubSeq(both, i + 1, i + 4)) = c[j]
  <2>1. c[j] \in U128
    BY ElementOfSeq
  <2> QED BY <2>1, <1>3, <1>4, LimbsRejoin
<1>6. 4 * (j - 1) + 1 = i + 1 /\ 4 * (j - 1) + 4 = i + 4
  OBVIOUS
<1> QED BY <1>5, <1>6 DEF u128_at, both, words

\* What is left of a concatenation behind its first part.
LEMMA DropPrefix ==
  ASSUME NEW S, NEW s \in Seq(S), NEW t \in Seq(S)
  PROVE  SubSeq(s \o t, Len(s) + 1, Len(s \o t)) = t
<1>1. Len(s) \in Nat /\ Len(t) \in Nat /\ Len(s \o t) = Len(s) + Len(t)
  BY ConcatProperties, LenProperties
<1>2. CASE Len(t) = 0
  <2>1. t = <<>>
    BY <1>2, EmptySeq
  <2>2. SubSeq(s \o t, Len(s) + 1, Len(s \o t)) = <<>>
    BY <1>1, <1>2, SubSeqEmpty
  <2> QED BY <2>1, <2>2
<1>3. CASE Len(t) > 0
  <2> DEFINE m == Len(s) + 1
             n == Len(s \o t)
  <2>1. m \in Len(s) + 1 .. Len(s) + Len(t) /\ n \in Len(s) + 1 .. Len(s) + Len(t)
        /\ m - Len(s) = 1 /\ n - Len(s) = Len(t)
    BY <1>1, <1>3
  <2> HIDE DEF m, n
  <2>2. SubSeq(s \o t, m, n) = SubSeq(t, 1, Len(t))
    BY <2>1, SubSeqOfConcat2
  <2> QED BY <2>2, SubSeqFull DEF m, n
<1> QED BY <1>1, <1>2, <1>3

\* The cases of a batch of an op with m arguments.
OfLength(m, cases) ==
  cases \in Seq(Seq(U128)) /\ \A k \in 1 .. Len(cases) : Len(cases[k]) = m

LEMMA PiecesSeq ==
  ASSUME NEW m \in Nat, NEW cases, OfLength(m, cases)
  PROVE  /\ Pieces(cases) \in Seq(Seq(Word)) /\ Len(Pieces(cases)) = Len(cases)
         /\ \A k \in 1 .. Len(cases) : /\ Pieces(cases)[k] = CaseWords(cases[k])
                                       /\ Len(Pieces(cases)[k]) = m * 4
<1>1. /\ cases \in Seq(Seq(U128)) /\ Len(cases) \in Nat /\ DOMAIN cases = 1 .. Len(cases)
      /\ \A k \in 1 .. Len(cases) : cases[k] \in Seq(U128) /\ Len(cases[k]) = m
  BY LenProperties, ElementOfSeq DEF OfLength
<1> DEFINE g(k) == CaseWords(cases[k])
<1>2. \A k \in 1 .. Len(cases) : g(k) \in Seq(Word) /\ Len(g(k)) = m * 4
  BY <1>1, CaseLaid
<1>3. Pieces(cases) = [k \in 1 .. Len(cases) |-> g(k)]
  BY <1>1 DEF Pieces
<1> HIDE DEF g
<1>4. [k \in 1 .. Len(cases) |-> g(k)] \in Seq(Seq(Word))
  BY <1>1, <1>2
<1>5. Len([k \in 1 .. Len(cases) |-> g(k)]) = Len(cases)
  BY <1>1
<1>6. \A k \in 1 .. Len(cases) : Pieces(cases)[k] = g(k)
  BY <1>3
<1> QED BY <1>2, <1>3, <1>4, <1>5, <1>6 DEF g

LEMMA BatchTyped ==
  ASSUME NEW m \in Nat, NEW cases, OfLength(m, cases)
  PROVE  BatchWords(cases) \in Seq(Word) /\ Len(BatchWords(cases)) = Len(cases) * (m * 4)
<1> DEFINE p == Pieces(cases)
<1>1. /\ p \in Seq(Seq(Word)) /\ Len(p) = Len(cases) /\ m * 4 \in Nat
      /\ \A i \in 1 .. Len(p) : Len(p[i]) = m * 4
  <2>1. /\ p \in Seq(Seq(Word)) /\ Len(p) = Len(cases)
        /\ \A i \in 1 .. Len(cases) : p[i] = CaseWords(cases[i]) /\ Len(p[i]) = m * 4
    BY PiecesSeq
  <2> HIDE DEF p
  <2> QED BY <2>1
<1>2. BatchWords(cases) = FlattenSeq(p)
  BY DEF BatchWords
<1> HIDE DEF p
<1>3. Laid(Word, m * 4, p, FlattenSeq(p))
  BY <1>1, FlattenPlaces
<1> QED BY <1>1, <1>2, <1>3 DEF Laid

\* What is left of a batch of n cases from its kth on.
Suffix(cases, k) == SubSeq(cases, k, Len(cases))

LEMMA SuffixTyped ==
  ASSUME NEW m \in Nat, NEW cases, OfLength(m, cases), NEW k \in 1 .. Len(cases) + 1
  PROVE  /\ OfLength(m, Suffix(cases, k)) /\ Len(Suffix(cases, k)) = Len(cases) + 1 - k
         /\ \A i \in 1 .. Len(cases) + 1 - k : Suffix(cases, k)[i] = cases[k + i - 1]
<1>1. /\ cases \in Seq(Seq(U128)) /\ Len(cases) \in Nat
      /\ \A i \in 1 .. Len(cases) : cases[i] \in Seq(U128) /\ Len(cases[i]) = m
  BY LenProperties, ElementOfSeq DEF OfLength
<1> DEFINE n == Len(cases)
<1>2. k \in Int /\ n \in Int /\ \A i \in k .. n : cases[i] \in Seq(U128)
  BY <1>1
<1>3. n - k + 1 = n + 1 - k /\ (k > n => n + 1 - k = 0)
  BY <1>1
<1> HIDE DEF n
<1>4. /\ SubSeq(cases, k, n) \in Seq(Seq(U128))
      /\ Len(SubSeq(cases, k, n)) = IF k <= n THEN n - k + 1 ELSE 0
      /\ \A i \in 1 .. n - k + 1 : SubSeq(cases, k, n)[i] = cases[k + i - 1]
  BY <1>2, SubSeqProperties
<1>5. Suffix(cases, k) = SubSeq(cases, k, n)
  BY DEF Suffix, n
<1> DEFINE s == Suffix(cases, k)
<1>6. s \in Seq(Seq(U128)) /\ Len(s) = n + 1 - k
      /\ \A i \in 1 .. n + 1 - k : s[i] = cases[k + i - 1]
  BY <1>2, <1>3, <1>4, <1>5
<1> HIDE DEF s
<1>7. \A i \in 1 .. n + 1 - k : k + i - 1 \in 1 .. n
  BY <1>2
<1>8. \A i \in 1 .. Len(s) : Len(s[i]) = m
  BY <1>1, <1>6, <1>7 DEF n
<1> QED BY <1>6, <1>8 DEF s, n, OfLength

LEMMA BatchEmpty ==
  ASSUME NEW m \in Nat, NEW cases, OfLength(m, cases)
  PROVE  BatchWords(Suffix(cases, Len(cases) + 1)) = <<>>
<1> DEFINE k == Len(cases) + 1
           end == Suffix(cases, k)
<1>1. k \in 1 .. Len(cases) + 1 /\ Len(cases) + 1 - k = 0
  BY LenProperties DEF OfLength
<1>2. OfLength(m, end) /\ Len(end) = Len(cases) + 1 - k
  BY <1>1, SuffixTyped
<1> HIDE DEF end, k
<1>3. BatchWords(end) \in Seq(Word) /\ Len(BatchWords(end)) = Len(end) * (m * 4)
  BY <1>2, BatchTyped
<1>4. Len(BatchWords(end)) = 0
  BY <1>1, <1>2, <1>3
<1> QED BY <1>3, <1>4, EmptySeq DEF end, k

\* A batch from its kth case on is that case's words and then the rest's.
LEMMA BatchSplits ==
  ASSUME NEW m \in Nat, NEW cases, OfLength(m, cases), NEW k \in 1 .. Len(cases)
  PROVE  BatchWords(Suffix(cases, k)) = CaseWords(cases[k]) \o BatchWords(Suffix(cases, k + 1))
<1> DEFINE n == Len(cases)
           a == Suffix(cases, k)
           b == Suffix(cases, k + 1)
           p == Pieces(a)
           r == Pieces(b)
<1>1. n \in Nat /\ k \in 1 .. n /\ k + 1 \in 1 .. n + 1 /\ k \in 1 .. n + 1
  BY LenProperties DEF OfLength
<1>2. /\ OfLength(m, a) /\ Len(a) = n + 1 - k
      /\ \A i \in 1 .. n + 1 - k : a[i] = cases[k + i - 1]
  BY <1>1, SuffixTyped
<1>3. /\ OfLength(m, b) /\ Len(b) = n + 1 - (k + 1)
      /\ \A i \in 1 .. n + 1 - (k + 1) : b[i] = cases[(k + 1) + i - 1]
  BY <1>1, SuffixTyped
<1> HIDE DEF a, b, n
<1>4. /\ p \in Seq(Seq(Word)) /\ Len(p) = Len(a)
      /\ \A i \in 1 .. Len(a) : p[i] = CaseWords(a[i]) /\ Len(p[i]) = m * 4
  BY <1>2, PiecesSeq
<1>5. /\ r \in Seq(Seq(Word)) /\ Len(r) = Len(b)
      /\ \A i \in 1 .. Len(b) : r[i] = CaseWords(b[i])
  BY <1>3, PiecesSeq
<1> HIDE DEF p, r
<1>6. Len(p) >= 1 /\ Len(r) = Len(p) - 1
  BY <1>1, <1>2, <1>3, <1>4, <1>5
<1>7. ASSUME NEW i \in 1 .. Len(r) PROVE r[i] = p[i + 1]
  <2>1. i \in 1 .. n + 1 - (k + 1) /\ i + 1 \in 1 .. n + 1 - k /\ (k + 1) + i - 1 = k + (i + 1) - 1
    BY <1>1, <1>3, <1>5
  <2>2. b[i] = a[i + 1]
    BY <2>1, <1>2, <1>3
  <2> QED BY <2>1, <2>2, <1>2, <1>3, <1>4, <1>5
<1>8. FlattenSeq(p) = p[1] \o FlattenSeq(r)
  <2>1. m * 4 \in Nat
    OBVIOUS
  <2>2. \A i \in 1 .. Len(p) : Len(p[i]) = m * 4
    BY <1>4
  <2> QED BY <2>1, <2>2, <1>4, <1>5, <1>6, <1>7, FlattenHead
<1>9. p[1] = CaseWords(cases[k])
  <2>1. 1 \in 1 .. n + 1 - k /\ k + 1 - 1 = k
    BY <1>1
  <2> QED BY <2>1, <1>2, <1>4
<1> QED BY <1>8, <1>9 DEF p, r, a, b, BatchWords
-----------------------------------------------------------------------------
(***************************************************************************)
(* The guest's reads.                                                      *)
(***************************************************************************)
LEMMA WordsOfCase ==
  ASSUME NEW op \in Op
  PROVE  ArgsOf(op) \in Nat /\ words_for(op) = ArgsOf(op) * 4 /\ words_for(op) \div 4 = ArgsOf(op)
BY DEF Op, ArgsOf, words_for

\* The guest's next read is the next case's, and leaves those behind it.
LEMMA NextCase ==
  ASSUME NEW op \in Op, NEW cases, OfLength(ArgsOf(op), cases), NEW k \in 1 .. Len(cases),
         NEW words, words = BatchWords(Suffix(cases, k))
  PROVE  /\ Len(words) >= words_for(op)
         /\ [i \in 1 .. words_for(op) \div 4 |-> u128_at(words, i - 1)] = cases[k]
         /\ SubSeq(words, words_for(op) + 1, Len(words)) = BatchWords(Suffix(cases, k + 1))
<1> DEFINE m == ArgsOf(op)
           c == cases[k]
           s == CaseWords(c)
           t == BatchWords(Suffix(cases, k + 1))
<1>1. m \in Nat /\ words_for(op) = m * 4 /\ words_for(op) \div 4 = m
  BY WordsOfCase
<1>2. c \in Seq(U128) /\ Len(c) = m /\ Len(cases) \in Nat
  BY ElementOfSeq, LenProperties DEF OfLength
<1>3. s \in Seq(Word) /\ Len(s) = m * 4
  BY <1>2, CaseLaid
<1>4. OfLength(m, cases)
  OBVIOUS
<1> HIDE DEF m
<1>5. words = s \o t
  BY <1>1, <1>4, BatchSplits
<1>6. t \in Seq(Word)
  <2>1. k + 1 \in 1 .. Len(cases) + 1
    BY <1>2
  <2>2. OfLength(m, Suffix(cases, k + 1))
    BY <2>1, <1>1, <1>4, SuffixTyped
  <2> QED BY <2>2, <1>1, BatchTyped
<1>7. \A i \in 1 .. m : u128_at(s \o t, i - 1) = c[i]
  <2> HIDE DEF c, t
  <2> QED BY <1>2, <1>6, CaseReadsBack
<1> HIDE DEF s, t, c
<1>8. Len(words) >= m * 4
  <2>1. Len(t) \in Nat /\ Len(s \o t) = Len(s) + Len(t)
    BY <1>3, <1>6, ConcatProperties, LenProperties
  <2> QED BY <2>1, <1>1, <1>3, <1>5
<1>9. [i \in 1 .. m |-> u128_at(words, i - 1)] = c
  <2>1. c = [i \in 1 .. m |-> c[i]]
    BY <1>2, LenProperties
  <2> QED BY <2>1, <1>5, <1>7
<1>10. SubSeq(words, m * 4 + 1, Len(words)) = t
  BY <1>3, <1>5, <1>6, DropPrefix
<1> QED BY <1>1, <1>8, <1>9, <1>10 DEF c, t

\* The header comes off the input's front.
LEMMA HeaderRead ==
  ASSUME NEW op \in Op, NEW cases, OfLength(ArgsOf(op), cases), Len(cases) \in 1 .. BASE - 1
  PROVE  /\ Encoded(op, cases) \in Seq(Word)
         /\ Encoded(op, cases)[1] = op /\ Encoded(op, cases)[2] = Len(cases)
         /\ SubSeq(Encoded(op, cases), 3, Len(Encoded(op, cases))) = BatchWords(Suffix(cases, 1))
<1> DEFINE h == <<op, Len(cases)>>
           t == BatchWords(cases)
           e == Encoded(op, cases)
<1>1. BASE \in Nat /\ BASE > 9
  BY WordAssumption
<1>2. op \in Word /\ Len(cases) \in Word
  BY <1>1 DEF Op, Word
<1>3. h \in Seq(Word) /\ Len(h) = 2 /\ h[1] = op /\ h[2] = Len(cases)
  BY <1>2
<1>4. t \in Seq(Word)
  BY BatchTyped, WordsOfCase
<1>5. e = h \o t
  BY EncodedSplits
<1>6. Suffix(cases, 1) = cases
  BY SubSeqFull DEF Suffix, OfLength
<1> HIDE DEF h, t, e
<1>7. /\ e \in Seq(Word) /\ Len(e) = Len(h) + Len(t) /\ Len(t) \in Nat
      /\ \A i \in 1 .. Len(h) + Len(t) : e[i] = IF i <= Len(h) THEN h[i] ELSE t[i - Len(h)]
  <2>1. h \in Seq(Word) /\ t \in Seq(Word)
    BY <1>3, <1>4
  <2>2. /\ h \o t \in Seq(Word) /\ Len(h \o t) = Len(h) + Len(t)
        /\ \A i \in 1 .. Len(h) + Len(t) :
             (h \o t)[i] = IF i <= Len(h) THEN h[i] ELSE t[i - Len(h)]
    BY <2>1, ConcatProperties
  <2>3. Len(t) \in Nat
    BY <2>1, LenProperties
  <2> QED BY <2>2, <2>3, <1>5
<1>8. SubSeq(e, 3, Len(e)) = t
  <2>1. SubSeq(h \o t, Len(h) + 1, Len(h \o t)) = t
    BY <1>3, <1>4, DropPrefix
  <2> QED BY <2>1, <1>3, <1>5
<1>9. e[1] = h[1] /\ e[2] = h[2]
  BY <1>3, <1>7
<1> QED BY <1>3, <1>6, <1>7, <1>8, <1>9 DEF e, t
-----------------------------------------------------------------------------
(***************************************************************************)
(* The guest's commits and the host's decoding of them.                    *)
(***************************************************************************)
\* The first count answers are on the journal, six words each.
Recorded(words, answers, count) ==
  /\ words \in Seq(Word) /\ Len(words) = 6 * count
  /\ \A k \in 1 .. count :
       /\ answers[k] \in U128
       /\ \E d \in CycleDeltas : \A t \in 1 .. 6 :
            words[6 * (k - 1) + t] = Record(answers[k], d)[t]

\* The words of a slice are those at its places.
LEMMA Slice ==
  ASSUME NEW S, NEW s \in Seq(S), NEW a \in 1 .. Len(s), NEW b \in 1 .. Len(s)
  PROVE  \A l \in 1 .. b - a + 1 : SubSeq(s, a, b)[l] = s[a + l - 1]
<1>1. a \in Int /\ b \in Int /\ \A i \in a .. b : s[i] \in S
  BY ElementOfSeq, LenProperties
<1> QED BY <1>1, SubSeqProperties

LEMMA RecordTyped ==
  ASSUME NEW r \in U128, NEW d \in CycleDeltas
  PROVE  /\ Record(r, d) \in Seq(Word) /\ Len(Record(r, d)) = 6
         /\ \A l \in 1 .. 4 : Record(r, d)[l] = Limbs(r)[l]
         /\ Record(r, d)[5] = d % BASE /\ Record(r, d)[6] = d \div BASE
<1> DEFINE a == Limbs(r)
           b == <<d % BASE, d \div BASE>>
<1>1. a \in Seq(Word) /\ Len(a) = 4
  BY LimbsRejoin
<1>2. d % BASE \in Word /\ d \div BASE \in Word
  BY DeltaRejoins, WordAssumption
<1>3. b \in Seq(Word) /\ Len(b) = 2 /\ b[1] = d % BASE /\ b[2] = d \div BASE
  BY <1>2
<1>4. Record(r, d) = a \o b
  BY DEF Record
<1> HIDE DEF a, b
<1>5. /\ a \o b \in Seq(Word) /\ Len(a \o b) = Len(a) + Len(b)
      /\ \A i \in 1 .. Len(a) + Len(b) :
           (a \o b)[i] = IF i <= Len(a) THEN a[i] ELSE b[i - Len(a)]
  BY <1>1, <1>3, ConcatProperties
<1> DEFINE e == Record(r, d)
<1>6. /\ e \in Seq(Word) /\ Len(e) = 6
      /\ \A i \in 1 .. 6 : e[i] = IF i <= 4 THEN a[i] ELSE b[i - 4]
  BY <1>1, <1>3, <1>4, <1>5
<1> HIDE DEF e
<1>7. e[5] = b[1] /\ e[6] = b[2] /\ \A l \in 1 .. 4 : e[l] = a[l]
  BY <1>6
<1> QED BY <1>3, <1>6, <1>7 DEF e, a

\* One more answer is one more record.
LEMMA RecordAppends ==
  ASSUME NEW words, NEW answers, NEW count \in Nat, Recorded(words, answers, count),
         answers[count + 1] \in U128, NEW d \in CycleDeltas
  PROVE  Recorded(words \o Record(answers[count + 1], d), answers, count + 1)
<1> DEFINE e == Record(answers[count + 1], d)
           all == words \o e
<1>1. e \in Seq(Word) /\ Len(e) = 6
  BY RecordTyped
<1>2. words \in Seq(Word) /\ Len(words) = 6 * count
  BY DEF Recorded
<1> HIDE DEF e
<1>3. /\ all \in Seq(Word) /\ Len(all) = Len(words) + Len(e)
      /\ \A i \in 1 .. Len(words) + Len(e) :
           all[i] = IF i <= Len(words) THEN words[i] ELSE e[i - Len(words)]
  BY <1>1, <1>2, ConcatProperties
<1> HIDE DEF all
<1>4. Len(all) = 6 * (count + 1)
  BY <1>1, <1>2, <1>3
<1>5. ASSUME NEW k \in 1 .. count + 1
      PROVE  /\ answers[k] \in U128
             /\ \E f \in CycleDeltas : \A t \in 1 .. 6 :
                  all[6 * (k - 1) + t] = Record(answers[k], f)[t]
  <2>1. CASE k = count + 1
    <3>1. \A t \in 1 .. 6 : /\ 6 * (k - 1) + t \in 1 .. Len(words) + Len(e)
                            /\ ~(6 * (k - 1) + t <= Len(words))
                            /\ 6 * (k - 1) + t - Len(words) = t
      BY <2>1, <1>1, <1>2
    <3>2. ASSUME NEW t \in 1 .. 6 PROVE all[6 * (k - 1) + t] = e[t]
      <4> DEFINE i == 6 * (k - 1) + t
      <4>1. i \in 1 .. Len(words) + Len(e) /\ ~(i <= Len(words)) /\ i - Len(words) = t
        BY <3>1
      <4> HIDE DEF i
      <4>2. all[i] = e[i - Len(words)]
        BY <4>1, <1>3
      <4> QED BY <4>1, <4>2 DEF i
    <3> QED BY <2>1, <3>2 DEF e
  <2>2. CASE k \in 1 .. count
    <3>1. \A t \in 1 .. 6 : /\ 6 * (k - 1) + t \in 1 .. Len(words) + Len(e)
                            /\ 6 * (k - 1) + t <= Len(words)
      BY <2>2, <1>1, <1>2
    <3>2. \A t \in 1 .. 6 : all[6 * (k - 1) + t] = words[6 * (k - 1) + t]
      BY <3>1, <1>3
    <3>3. /\ answers[k] \in U128
          /\ \E f \in CycleDeltas : \A t \in 1 .. 6 :
               words[6 * (k - 1) + t] = Record(answers[k], f)[t]
      BY <2>2 DEF Recorded
    <3> QED BY <3>2, <3>3
  <2> QED BY <2>1, <2>2
<1> QED BY <1>3, <1>4, <1>5 DEF all, e, Recorded

\* The host decodes what the guest committed.
LEMMA DecodedAnswers ==
  ASSUME NEW n \in Nat, NEW answers, DOMAIN answers = 1 .. n, NEW words,
         answers = [k \in 1 .. n |-> answers[k]], Recorded(words, answers, n)
  PROVE  /\ Decoded(words).outputs = answers
         /\ Decoded(words).cycles \in [1 .. n -> CycleDeltas]
<1>1. words \in Seq(Word) /\ Len(words) = 6 * n /\ \A i \in 1 .. Len(words) : words[i] \in Word
  BY ElementOfSeq DEF Recorded
<1>2. Len(words) \div 6 = n
  BY <1>1
<1>3. ASSUME NEW k \in 1 .. n
      PROVE  /\ u128_of(SubSeq(words, 6 * k - 5, 6 * k - 2)) = answers[k]
             /\ u64_of(SubSeq(words, 6 * k - 1, 6 * k)) \in CycleDeltas
  <2>1. answers[k] \in U128
    BY DEF Recorded
  <2>2. PICK d \in CycleDeltas : \A t \in 1 .. 6 :
          words[6 * (k - 1) + t] = Record(answers[k], d)[t]
    BY DEF Recorded
  <2>3. /\ \A l \in 1 .. 4 : words[6 * (k - 1) + l] = Limbs(answers[k])[l]
        /\ words[6 * (k - 1) + 5] = d % BASE /\ words[6 * (k - 1) + 6] = d \div BASE
    BY <2>1, <2>2, RecordTyped
  <2>4. \A l \in 1 .. 4 : SubSeq(words, 6 * k - 5, 6 * k - 2)[l] = Limbs(answers[k])[l]
    <3> DEFINE a == 6 * k - 5
               b == 6 * k - 2
    <3>1. a \in 1 .. Len(words) /\ b \in 1 .. Len(words) /\ b - a + 1 = 4
      BY <1>1
    <3>2. \A l \in 1 .. 4 : a + l - 1 = 6 * (k - 1) + l
      OBVIOUS
    <3> HIDE DEF a, b
    <3>3. \A l \in 1 .. b - a + 1 : SubSeq(words, a, b)[l] = words[a + l - 1]
      BY <1>1, <3>1, Slice
    <3> QED BY <3>1, <3>2, <3>3, <2>3 DEF a, b
  <2>5. /\ SubSeq(words, 6 * k - 1, 6 * k)[1] = d % BASE
        /\ SubSeq(words, 6 * k - 1, 6 * k)[2] = d \div BASE
    <3> DEFINE a == 6 * k - 1
               b == 6 * k
    <3>1. a \in 1 .. Len(words) /\ b \in 1 .. Len(words) /\ b - a + 1 = 2
      BY <1>1
    <3>2. a + 1 - 1 = 6 * (k - 1) + 5 /\ a + 2 - 1 = 6 * (k - 1) + 6 /\ 1 \in 1 .. 2 /\ 2 \in 1 .. 2
      OBVIOUS
    <3> HIDE DEF a, b
    <3>3. \A l \in 1 .. b - a + 1 : SubSeq(words, a, b)[l] = words[a + l - 1]
      BY <1>1, <3>1, Slice
    <3> QED BY <3>1, <3>2, <3>3, <2>3 DEF a, b
  <2>6. u128_of(SubSeq(words, 6 * k - 5, 6 * k - 2)) = answers[k]
    BY <2>1, <2>4, LimbsRejoin
  <2>7. u64_of(SubSeq(words, 6 * k - 1, 6 * k)) = d
    <3> DEFINE w == SubSeq(words, 6 * k - 1, 6 * k)
    <3>1. w[1] = d % BASE /\ w[2] = d \div BASE
      BY <2>5
    <3> HIDE DEF w
    <3>2. u64_of(w) = (d % BASE) + (d \div BASE) * BASE
      BY <3>1 DEF u64_of
    <3>3. d \in U64
      BY WordAssumption
    <3> QED BY <3>2, <3>3, DeltaRejoins DEF w
  <2> QED BY <2>6, <2>7
<1> DEFINE out(k) == u128_of(SubSeq(words, 6 * k - 5, 6 * k - 2))
           cyc(k) == u64_of(SubSeq(words, 6 * k - 1, 6 * k))
<1>4. \A k \in 1 .. n : out(k) = answers[k] /\ cyc(k) \in CycleDeltas
  BY <1>3
<1>5. /\ Decoded(words).outputs = [k \in 1 .. n |-> out(k)]
      /\ Decoded(words).cycles = [k \in 1 .. n |-> cyc(k)]
  BY <1>2 DEF Decoded
<1> HIDE DEF out, cyc
<1> QED BY <1>4, <1>5
-----------------------------------------------------------------------------
(***************************************************************************)
(* The median of some deltas is one of them.                               *)
(***************************************************************************)
\* Some delta is a largest one.
LEMMA Largest ==
  ASSUME NEW n \in Nat, n >= 1, NEW top \in Nat, NEW c \in [1 .. n -> 0 .. top]
  PROVE  \E q \in 1 .. n : \A i \in 1 .. n : c[i] <= c[q]
<1> DEFINE T == {top - c[i] : i \in 1 .. n}
<1>1. \A i \in 1 .. n : c[i] \in 0 .. top
  OBVIOUS
<1>2. T \subseteq Nat
  BY <1>1
<1>3. T # {}
  <2>1. top - c[1] \in T
    OBVIOUS
  <2> QED BY <2>1
<1>4. PICK x \in T : \A y \in T : x <= y
  <2> HIDE DEF T
  <2> QED BY <1>2, <1>3, LeastElement
<1>5. PICK q \in 1 .. n : x = top - c[q]
  OBVIOUS
<1>6. ASSUME NEW i \in 1 .. n PROVE c[i] <= c[q]
  <2>1. top - c[i] \in T
    OBVIOUS
  <2>2. top - c[q] <= top - c[i]
    BY <2>1, <1>4, <1>5
  <2> QED BY <2>2, <1>1
<1> QED BY <1>6

\* An ascending order puts a largest delta last.
Sortable(n, top) ==
  \A c \in [1 .. n -> 0 .. top] : \E p \in Bijection(1 .. n, 1 .. n) :
    \A i, j \in 1 .. n : i < j => c[p[i]] <= c[p[j]]

LEMMA SortOneMore ==
  ASSUME NEW top \in Nat, NEW n \in Nat, n >= 1, Sortable(n - 1, top)
  PROVE  Sortable(n, top)
<1> SUFFICES ASSUME NEW c \in [1 .. n -> 0 .. top]
             PROVE  \E p \in Bijection(1 .. n, 1 .. n) :
                      \A i, j \in 1 .. n : i < j => c[p[i]] <= c[p[j]]
  BY DEF Sortable
<1>1. PICK q \in 1 .. n : \A i \in 1 .. n : c[i] <= c[q]
  BY Largest
<1> DEFINE m == n - 1
           pos(i) == IF i = q THEN n ELSE i
           d == [i \in 1 .. m |-> c[pos(i)]]
<1>2. m \in Nat /\ \A i \in 1 .. m : i \in 1 .. n /\ i # n /\ pos(i) \in 1 .. n /\ pos(i) # q
  OBVIOUS
<1>3. d \in [1 .. m -> 0 .. top]
  BY <1>2
<1>4. PICK r \in Bijection(1 .. m, 1 .. m) :
        \A i, j \in 1 .. m : i < j => d[r[i]] <= d[r[j]]
  <2> HIDE DEF d
  <2> QED BY <1>3 DEF Sortable
<1>5. /\ r \in [1 .. m -> 1 .. m]
      /\ \A i, j \in 1 .. m : r[i] = r[j] => i = j
      /\ \A t \in 1 .. m : \E i \in 1 .. m : r[i] = t
  BY DEF Bijection, Injection, Surjection, IsInjective
<1> DEFINE p == [i \in 1 .. n |-> IF i = n THEN q ELSE pos(r[i])]
<1>6. \A i \in 1 .. m : r[i] \in 1 .. m /\ p[i] = pos(r[i])
  BY <1>2, <1>5
<1>7. p[n] = q
  OBVIOUS
<1>8. p \in [1 .. n -> 1 .. n]
  <2>1. ASSUME NEW i \in 1 .. n, i # n PROVE pos(r[i]) \in 1 .. n
    <3>1. i \in 1 .. m
      BY <2>1
    <3> QED BY <3>1, <1>2, <1>6
  <2> QED BY <2>1
<1>9. \A i, j \in 1 .. n : p[i] = p[j] => i = j
  <2>1. ASSUME NEW i \in 1 .. m PROVE p[i] # p[n]
    BY <1>2, <1>6, <1>7
  <2>2. ASSUME NEW i \in 1 .. m, NEW j \in 1 .. m, p[i] = p[j] PROVE i = j
    <3>1. pos(r[i]) = pos(r[j]) /\ r[i] \in 1 .. m /\ r[j] \in 1 .. m
      BY <2>2, <1>6
    <3>2. r[i] = r[j]
      BY <3>1, <1>2
    <3> QED BY <3>2, <1>5
  <2>3. \A i \in 1 .. n : i \in 1 .. m \/ i = n
    OBVIOUS
  <2> QED BY <2>1, <2>2, <2>3
<1>10. \A t \in 1 .. n : \E i \in 1 .. n : p[i] = t
  <2> TAKE t \in 1 .. n
  <2>1. CASE t = q
    BY <2>1, <1>7
  <2>2. CASE t # q
    <3> DEFINE s == IF t = n THEN q ELSE t
    <3>1. s \in 1 .. m /\ pos(s) = t
      BY <2>2
    <3>2. PICK i \in 1 .. m : r[i] = s
      <4> HIDE DEF s
      <4> QED BY <3>1, <1>5
    <3> QED BY <3>1, <3>2, <1>2, <1>6
  <2> QED BY <2>1, <2>2
<1>11. ASSUME NEW i \in 1 .. n, NEW j \in 1 .. n, i < j PROVE c[p[i]] <= c[p[j]]
  <2>1. CASE j = n
    BY <2>1, <1>1, <1>7, <1>8
  <2>2. CASE j # n
    <3>1. i \in 1 .. m /\ j \in 1 .. m
      BY <2>2, <1>11
    <3>2. d[r[i]] <= d[r[j]]
      BY <3>1, <1>4, <1>11
    <3>3. d[r[i]] = c[p[i]] /\ d[r[j]] = c[p[j]]
      BY <3>1, <1>6
    <3> QED BY <3>2, <3>3
  <2> QED BY <2>1, <2>2
<1>12. p \in Bijection(1 .. n, 1 .. n)
  <2> HIDE DEF p
  <2> QED BY <1>8, <1>9, <1>10 DEF Bijection, Injection, Surjection, IsInjective
<1> HIDE DEF p
<1> QED BY <1>11, <1>12

LEMMA Sorts ==
  ASSUME NEW top \in Nat, NEW n \in Nat
  PROVE  Sortable(n, top)
<1> DEFINE Bad == {k \in Nat : ~Sortable(k, top)}
<1> SUFFICES ASSUME Bad # {} PROVE FALSE
  OBVIOUS
<1>1. PICK k \in Bad : \A y \in Bad : k <= y
  <2>1. Bad \subseteq Nat
    OBVIOUS
  <2> HIDE DEF Bad
  <2> QED BY <2>1, LeastElement
<1>2. k \in Nat /\ ~Sortable(k, top)
  OBVIOUS
<1>3. CASE k = 0
  <2>1. ASSUME NEW c \in [1 .. k -> 0 .. top]
        PROVE  \E p \in Bijection(1 .. k, 1 .. k) :
                 \A i, j \in 1 .. k : i < j => c[p[i]] <= c[p[j]]
    <3> DEFINE p == [i \in 1 .. k |-> i]
    <3>1. p \in Bijection(1 .. k, 1 .. k)
      BY DEF Bijection, Injection, Surjection, IsInjective
    <3>2. \A i, j \in 1 .. k : i < j => c[p[i]] <= c[p[j]]
      BY <1>3
    <3> HIDE DEF p
    <3> QED BY <3>1, <3>2
  <2> QED BY <2>1, <1>2 DEF Sortable
<1>4. CASE k # 0
  <2>1. k >= 1 /\ k - 1 \in Nat /\ k - 1 \notin Bad
    BY <1>1, <1>2, <1>4
  <2>2. Sortable(k - 1, top)
    BY <2>1
  <2> QED BY <2>1, <2>2, <1>2, SortOneMore
<1> QED BY <1>3, <1>4

LEMMA MedianAmong ==
  ASSUME NEW n \in Nat, n >= 1, NEW cycles \in [1 .. n -> CycleDeltas], Len(cycles) = n
  PROVE  \E i \in 1 .. n : cycles[i] = median(cycles)
<1> DEFINE top == BASE * BASE - 1
           D == DOMAIN cycles
           P == {p \in Bijection(D, D) : Ascends(cycles, p)}
           order == CHOOSE p \in Bijection(D, D) : Ascends(cycles, p)
<1>1. D = 1 .. n
  OBVIOUS
<1>2. top \in Nat /\ cycles \in [1 .. n -> 0 .. top]
  <2>1. BASE \in Nat /\ BASE > 9 /\ CycleDeltas \subseteq 0 .. top
    BY WordAssumption DEF U64
  <2>2. top \in Nat
    BY <2>1
  <2> QED BY <2>1, <2>2
<1> HIDE DEF top, D
<1>3. \E p \in Bijection(D, D) : Ascends(cycles, p)
  <2>1. Sortable(n, top)
    BY <1>2, Sorts
  <2> QED BY <2>1, <1>1, <1>2 DEF Sortable, Ascends
<1>4. order \in Bijection(D, D)
  <2>1. \E p : p \in Bijection(D, D) /\ Ascends(cycles, p)
    BY <1>3
  <2> QED BY <2>1
<1> HIDE DEF order
<1>5. order \in [1 .. n -> 1 .. n]
  BY <1>1, <1>4 DEF Bijection, Injection
<1>6. sorted(cycles) = [i \in D |-> cycles[order[i]]]
  BY DEF sorted, order, D
<1> DEFINE mid == Len(cycles) \div 2 + 1
<1>7. mid \in 1 .. n
  OBVIOUS
<1>8. median(cycles) = cycles[order[mid]]
  <2> HIDE DEF mid
  <2>1. sorted(cycles)[mid] = cycles[order[mid]]
    BY <1>1, <1>6, <1>7
  <2> QED BY <2>1 DEF median, mid
<1> HIDE DEF mid
<1> QED BY <1>5, <1>7, <1>8

\* So stats finds the case it runs alone.
LEMMA MedianCaseFound ==
  ASSUME NEW n \in Nat, n >= 1, NEW cases, DOMAIN cases = 1 .. n,
         NEW cycles \in [1 .. n -> CycleDeltas], Len(cycles) = n
  PROVE  \E k \in 1 .. n : FirstOfMedianCost(cases, cycles) = cases[k]
<1> DEFINE found == {k \in DOMAIN cases : cycles[k] = median(cycles)}
<1>1. found # {} /\ found \subseteq 1 .. n
  BY MedianAmong
<1>2. \E k \in found : \A j \in found : k <= j
  <2> HIDE DEF found
  <2>1. found \subseteq Nat
    BY <1>1
  <2> QED BY <2>1, <1>1, LeastElement
<1> DEFINE first == CHOOSE k \in found : \A j \in found : k <= j
<1>3. FirstOfMedianCost(cases, cycles) = cases[first]
  BY <1>1 DEF FirstOfMedianCost
<1>4. first \in found
  <2> HIDE DEF found
  <2>1. \E k : k \in found /\ \A j \in found : k <= j
    BY <1>2
  <2> QED BY <2>1
<1> HIDE DEF first, found
<1> QED BY <1>1, <1>3, <1>4
-----------------------------------------------------------------------------
(***************************************************************************)
(* The inductive invariant.                                                *)
(***************************************************************************)
\* A batch the guest can read: what Job hands to run_guest.
Runs(job) ==
  /\ job.op \in Op /\ job.cases \in Seq(Seq(U128)) /\ Len(job.cases) \in 1 .. BASE - 1
  /\ \A k \in 1 .. Len(job.cases) :
       Len(job.cases[k]) = ArgsOf(job.op) /\ <<job.op, job.cases[k]>> \in Tested

Cases == Job(next).cases
Answers == [k \in DOMAIN Cases |-> GuestAnswer(Job(next).op, Cases[k])]
Unread(left) == SubSeq(Cases, Len(Cases) - left + 1, Len(Cases))

Typed == /\ suite \in Suites /\ next \in 1 .. Jobs + 1
         /\ pc \in {"host", "header", "guest", "collect", "compare", "passed", "failed"}
         /\ input \in Seq(Word) /\ journal \in Seq(Word)
         /\ guest \in [op : Op, left : Word]
         /\ Range(batch.outputs) \subseteq U128 /\ Range(batch.cycles) \subseteq CycleDeltas
         /\ mismatches \in Nat

\* What each stage of a run holds.
Stages ==
  /\ pc \in {"header", "guest", "collect", "compare"} => next <= Jobs
  /\ pc = "header" => input = Encoded(Job(next).op, Cases) /\ journal = <<>>
  /\ pc = "guest" => /\ guest.op = Job(next).op /\ guest.left \in 0 .. Len(Cases)
                     /\ input = BatchWords(Unread(guest.left))
                     /\ Recorded(journal, Answers, Len(Cases) - guest.left)
  /\ pc = "collect" => input = <<>> /\ Recorded(journal, Answers, Len(Cases))
  /\ pc = "compare" => /\ next <= Len(suite) /\ batch.outputs = Answers
                       /\ batch.cycles \in [1 .. Len(Cases) -> CycleDeltas]

\* What is known of the batches compared so far.
Compared ==
  /\ DOMAIN median_case = Op
  /\ \A n \in 1 .. Len(suite) : n < next =>
       /\ median_case[suite[n].op] \in Range(suite[n].cases)
       /\ \A k \in 1 .. Len(suite[n].cases) :
            /\ ~Panics(suite[n].op, suite[n].cases[k])
            /\ mismatches = 0 => <<suite[n].op, suite[n].cases[k]>> \notin wrong
  /\ mismatches > 0 => BadCases # {}

Verdicts == /\ pc = "passed" => mismatches = 0 /\ next > Jobs
            /\ pc = "failed" => BadCases # {}

IInv == Typed /\ Stages /\ Compared /\ Verdicts

\* What the fixtures may hold.
LEMMA SuiteHolds ==
  ASSUME suite \in Suites
  PROVE  /\ Len(suite) \in Nat /\ DOMAIN suite = 1 .. Len(suite)
         /\ \A n \in 1 .. Len(suite) :
              /\ suite[n].op \in Op /\ Len(suite[n].cases) \in 1 .. BASE - 1
              /\ OfLength(ArgsOf(suite[n].op), suite[n].cases)
              /\ \A k \in 1 .. Len(suite[n].cases) :
                   <<suite[n].op, suite[n].cases[k]>> \in Tested
         /\ \A op \in Range(SingleCalls) : \E n \in 1 .. Len(suite) : suite[n].op = op
         /\ \A n, k \in 1 .. Len(suite) : suite[n].op = suite[k].op => n = k
<1>1. suite \in Seq([op : Op, cases : Seq(Seq(U128))])
  BY SuitesAssumption
<1>2. Len(suite) \in Nat /\ DOMAIN suite = 1 .. Len(suite)
  BY <1>1, LenProperties
<1>3. \A op \in Range(SingleCalls) : \E n \in 1 .. Len(suite) : suite[n].op = op
  BY <1>2, SuitesAssumption
<1>4. \A n, k \in 1 .. Len(suite) : suite[n].op = suite[k].op => n = k
  BY <1>2, SuitesAssumption
<1>5. ASSUME NEW n \in 1 .. Len(suite)
      PROVE  /\ suite[n].op \in Op /\ Len(suite[n].cases) \in 1 .. BASE - 1
             /\ OfLength(ArgsOf(suite[n].op), suite[n].cases)
             /\ \A k \in 1 .. Len(suite[n].cases) :
                  <<suite[n].op, suite[n].cases[k]>> \in Tested
  <2>1. suite[n] \in [op : Op, cases : Seq(Seq(U128))]
    BY <1>1, ElementOfSeq
  <2>2. suite[n].op \in Op /\ suite[n].cases \in Seq(Seq(U128))
    BY <2>1
  <2>3. DOMAIN suite[n].cases = 1 .. Len(suite[n].cases)
    BY <2>2, LenProperties
  <2>4. Len(suite[n].cases) \in 1 .. BASE - 1
    BY <1>2, SuitesAssumption
  <2>5. \A c \in Range(suite[n].cases) : Len(c) = ArgsOf(suite[n].op)
    BY <1>2, SuitesAssumption
  <2>6. \A k \in 1 .. Len(suite[n].cases) : suite[n].cases[k] \in Range(suite[n].cases)
    BY <2>3 DEF Range
  <2>7. suite[n] \in Range(suite)
    BY <1>2 DEF Range
  <2>8. \A k \in 1 .. Len(suite[n].cases) : <<suite[n].op, suite[n].cases[k]>> \in Tested
    BY <2>6, <2>7 DEF Tested
  <2> QED BY <2>2, <2>4, <2>5, <2>6, <2>8 DEF OfLength
<1> QED BY <1>2, <1>3, <1>4, <1>5

\* Every case tested is a case of a batch.
LEMMA TestedFrom ==
  ASSUME suite \in Suites, NEW t \in Tested
  PROVE  \E n \in 1 .. Len(suite) : \E k \in 1 .. Len(suite[n].cases) :
           t = <<suite[n].op, suite[n].cases[k]>>
<1>1. PICK b \in Range(suite) : t \in {<<b.op, c>> : c \in Range(b.cases)}
  BY DEF Tested
<1>2. PICK c \in Range(b.cases) : t = <<b.op, c>>
  BY <1>1
<1>3. PICK n \in 1 .. Len(suite) : b = suite[n]
  BY SuiteHolds DEF Range
<1>4. OfLength(ArgsOf(suite[n].op), suite[n].cases)
  BY SuiteHolds
<1>5. DOMAIN suite[n].cases = 1 .. Len(suite[n].cases)
  BY <1>4, LenProperties DEF OfLength
<1> QED BY <1>2, <1>3, <1>5 DEF Range

\* What Job hands to run_guest, a batch or a single call.
LEMMA JobRuns ==
  ASSUME Typed, Compared, next <= Jobs
  PROVE  Runs(Job(next))
<1>1. /\ suite \in Suites /\ next \in 1 .. Jobs /\ Len(suite) \in Nat
      /\ Jobs = Len(suite) + 3
  BY SuiteHolds DEF Typed, Jobs, SingleCalls
<1>2. CASE next <= Len(suite)
  <2> DEFINE b == suite[next]
  <2>1. next \in 1 .. Len(suite) /\ Job(next) = b
    BY <1>1, <1>2 DEF Job
  <2>2. /\ b.op \in Op /\ Len(b.cases) \in 1 .. BASE - 1
        /\ OfLength(ArgsOf(b.op), b.cases)
        /\ \A k \in 1 .. Len(b.cases) : <<b.op, b.cases[k]>> \in Tested
    BY <1>1, <2>1, SuiteHolds
  <2> HIDE DEF b
  <2> QED BY <2>1, <2>2 DEF Runs, OfLength
<1>3. CASE next > Len(suite)
  <2> DEFINE i == next - Len(suite)
             op == SingleCalls[i]
  <2>1. i \in 1 .. 3
    BY <1>1, <1>3
  <2>2. op \in Range(SingleCalls)
    <3>1. DOMAIN SingleCalls = 1 .. 3
      BY DEF SingleCalls
    <3> QED BY <2>1, <3>1 DEF Range
  <2>3. Job(next) = [op |-> op, cases |-> <<median_case[op]>>]
    BY <1>1, <1>3 DEF Job
  <2> HIDE DEF i, op
  <2>4. PICK n \in 1 .. Len(suite) : suite[n].op = op
    BY <1>1, <2>2, SuiteHolds
  <2>5. median_case[op] \in Range(suite[n].cases)
    BY <1>1, <1>3, <2>4 DEF Compared
  <2>6. /\ op \in Op /\ OfLength(ArgsOf(op), suite[n].cases)
        /\ \A k \in 1 .. Len(suite[n].cases) : <<op, suite[n].cases[k]>> \in Tested
    BY <1>1, <2>4, SuiteHolds
  <2>7. PICK k \in 1 .. Len(suite[n].cases) : median_case[op] = suite[n].cases[k]
    BY <2>5, <2>6, LenProperties DEF Range, OfLength
  <2>8. /\ median_case[op] \in Seq(U128) /\ Len(median_case[op]) = ArgsOf(op)
        /\ <<op, median_case[op]>> \in Tested
    BY <2>6, <2>7, ElementOfSeq DEF OfLength
  <2> DEFINE one == <<median_case[op]>>
  <2>9. one \in Seq(Seq(U128)) /\ Len(one) = 1 /\ one[1] = median_case[op]
    BY <2>8
  <2>10. 1 \in 1 .. BASE - 1
    BY WordAssumption
  <2>11. Job(next).op = op /\ Job(next).cases = one
    BY <2>3
  <2> HIDE DEF one
  <2>12. ASSUME NEW m \in 1 .. Len(one)
         PROVE  Len(one[m]) = ArgsOf(op) /\ <<op, one[m]>> \in Tested
    <3>1. m = 1
      BY <2>9
    <3>2. one[m] = median_case[op]
      BY <2>9, <3>1
    <3> QED BY <2>8, <3>2
  <2> QED BY <2>6, <2>9, <2>10, <2>11, <2>12 DEF Runs
<1> QED BY <1>1, <1>2, <1>3

LEMMA CasesHold ==
  ASSUME Typed, Compared, next <= Jobs
  PROVE  /\ Job(next).op \in Op /\ OfLength(ArgsOf(Job(next).op), Cases)
         /\ Len(Cases) \in 1 .. BASE - 1 /\ DOMAIN Cases = 1 .. Len(Cases)
         /\ BASE \in Nat
         /\ \A k \in 1 .. Len(Cases) :
              <<Job(next).op, Cases[k]>> \in Tested /\ Cases[k] \in Seq(U128)
<1>1. Runs(Job(next))
  BY JobRuns
<1>2. Cases \in Seq(Seq(U128))
  BY <1>1 DEF Runs, Cases
<1> QED BY <1>1, <1>2, LenProperties, ElementOfSeq, WordAssumption DEF Runs, Cases, OfLength

\* An answer is a u128, and a wrong one is not the kernel's.
LEMMA AnswerTyped ==
  ASSUME suite \in Suites, NEW op, NEW c, <<op, c>> \in Tested,
         Panics(op, c) => <<op, c>> \in wrong
  PROVE  GuestAnswer(op, c) \in U128
<1> DEFINE top == BASE * BASE * BASE * BASE
<1>1. BASE \in Nat /\ BASE > 9
  BY WordAssumption
<1>2. top \in Nat /\ top >= 1 /\ U128 = 0 .. top - 1
  BY <1>1 DEF U128
<1>3. ~Panics(op, c) => Kernel(op, c) \in U128
  <2> DEFINE b(n) == suite[n].cases
  <2>1. PICK n \in 1 .. Len(suite) : \E k \in 1 .. Len(b(n)) :
          op = suite[n].op /\ c = b(n)[k]
    <3>1. \E n \in 1 .. Len(suite) : \E k \in 1 .. Len(suite[n].cases) :
            <<op, c>> = <<suite[n].op, suite[n].cases[k]>>
      BY TestedFrom
    <3> QED BY <3>1
  <2>2. n \in DOMAIN suite /\ c \in Range(suite[n].cases)
    <3>1. OfLength(ArgsOf(suite[n].op), suite[n].cases) /\ n \in DOMAIN suite
      BY SuiteHolds
    <3> QED BY <2>1, <3>1, LenProperties DEF OfLength, Range
  <2> QED BY <2>1, <2>2, KernelAssumption
<1> HIDE DEF top
<1>4. CASE Panics(op, c)
  BY <1>2, <1>4 DEF GuestAnswer
<1>5. CASE ~Panics(op, c)
  <2>1. Kernel(op, c) \in 0 .. top - 1
    BY <1>2, <1>3, <1>5
  <2>2. (Kernel(op, c) + 1) % top \in 0 .. top - 1
    BY <1>2, <2>1
  <2> QED BY <1>2, <1>5, <2>1, <2>2 DEF GuestAnswer, top
<1> QED BY <1>4, <1>5

LEMMA WrongDiffers ==
  ASSUME NEW op, NEW c, ~Panics(op, c), <<op, c>> \in wrong, Kernel(op, c) \in U128
  PROVE  GuestAnswer(op, c) # Kernel(op, c)
<1> DEFINE top == BASE * BASE * BASE * BASE
           v == Kernel(op, c)
<1>1. BASE \in Nat /\ BASE > 9
  BY WordAssumption
<1>2. top \in Nat /\ top >= 2
  <2>1. BASE * BASE \in Nat /\ BASE * BASE >= 2
    BY <1>1
  <2>2. BASE * BASE * BASE \in Nat /\ BASE * BASE * BASE >= 2
    BY <1>1, <2>1
  <2> QED BY <1>1, <2>2
<1>3. v \in 0 .. top - 1
  BY DEF U128
<1>4. GuestAnswer(op, c) = (v + 1) % top
  BY DEF GuestAnswer
<1> HIDE DEF top, v
<1>5. (v + 1) % top # v
  <2>1. CASE v = top - 1
    BY <1>2, <2>1
  <2>2. CASE v < top - 1
    <3>1. (v + 1) % top = v + 1
      BY <1>2, <1>3, <2>2
    <3> QED BY <3>1, <1>3
  <2> QED BY <1>2, <1>3, <2>1, <2>2
<1> QED BY <1>4, <1>5 DEF v
-----------------------------------------------------------------------------
(***************************************************************************)
(* Every step keeps it.                                                    *)
(***************************************************************************)
LEMMA InitInv == Init => IInv
<1> SUFFICES ASSUME Init PROVE IInv
  OBVIOUS
<1> USE DEF Init
<1>1. Len(suite) \in Nat /\ Jobs = Len(suite) + 3
  BY SuiteHolds DEF Jobs, SingleCalls
<1>2. Range(batch.outputs) = {} /\ Range(batch.cycles) = {}
  BY DEF NoBatch, Range
<1>3. guest \in [op : Op, left : Word]
  BY WordAssumption DEF NoGuest, Op, Word
<1>4. input \in Seq(Word) /\ journal \in Seq(Word)
  OBVIOUS
<1>5. Typed
  BY <1>1, <1>2, <1>3, <1>4 DEF Typed
<1>6. Stages
  BY DEF Stages
<1>7. Compared
  BY <1>1 DEF Compared
<1>8. Verdicts
  BY DEF Verdicts
<1> QED BY <1>5, <1>6, <1>7, <1>8 DEF IInv

\* What a step of one run leaves as it is.
Same == UNCHANGED <<suite, wrong, next, median_case>>

LEMMA SameJob ==
  ASSUME Same
  PROVE  /\ suite' = suite /\ wrong' = wrong /\ next' = next /\ median_case' = median_case
         /\ Tested' = Tested /\ BadCases' = BadCases /\ Jobs' = Jobs
         /\ Job(next)' = Job(next) /\ Cases' = Cases /\ Answers' = Answers
<1>1. suite' = suite /\ wrong' = wrong /\ next' = next /\ median_case' = median_case
  BY DEF Same
<1>2. Tested' = Tested /\ Jobs' = Jobs /\ Job(next)' = Job(next)
  BY <1>1 DEF Tested, Jobs, Job
<1>3. BadCases' = BadCases
  BY <1>1, <1>2 DEF BadCases
<1>4. Cases' = Cases
  BY <1>2 DEF Cases
<1>5. Answers' = Answers
  BY <1>1, <1>2, <1>4 DEF Answers, GuestAnswer
<1> QED BY <1>1, <1>2, <1>3, <1>4, <1>5

LEMMA SameFindings ==
  ASSUME Same, Compared, mismatches' = mismatches
  PROVE  Compared'
BY SameJob DEF Compared

LEMMA StartGuestKeeps ==
  ASSUME IInv, StartGuest
  PROVE  IInv'
<1> USE DEF IInv, StartGuest
<1>1. Same /\ mismatches' = mismatches
  BY DEF Same, config
<1>2. Runs(Job(next)) /\ OfLength(ArgsOf(Job(next).op), Cases)
      /\ Job(next).op \in Op /\ Len(Cases) \in 1 .. BASE - 1
  BY JobRuns, CasesHold
<1>3. input' \in Seq(Word)
  BY <1>2, HeaderRead DEF Cases
<1>4. Typed'
  BY <1>1, <1>3, SameJob DEF Typed
<1>5. Stages'
  BY <1>1, SameJob DEF Stages, Cases
<1>6. Compared'
  BY <1>1, SameFindings
<1>7. Verdicts'
  BY DEF Verdicts
<1> QED BY <1>4, <1>5, <1>6, <1>7

LEMMA ReadHeaderKeeps ==
  ASSUME IInv, ReadHeader
  PROVE  IInv'
<1> USE DEF IInv, ReadHeader
<1>1. Same /\ mismatches' = mismatches
  BY DEF Same, config
<1>2. next <= Jobs /\ input = Encoded(Job(next).op, Cases) /\ journal = <<>>
  BY DEF Stages
<1>3. /\ Job(next).op \in Op /\ OfLength(ArgsOf(Job(next).op), Cases)
      /\ Len(Cases) \in 1 .. BASE - 1 /\ BASE \in Nat
  BY <1>2, CasesHold
<1>4. /\ guest'.op = Job(next).op /\ guest'.left = Len(Cases)
      /\ guest' = [op |-> Job(next).op, left |-> Len(Cases)]
      /\ input' = BatchWords(Suffix(Cases, 1))
  <2>1. /\ input[1] = Job(next).op /\ input[2] = Len(Cases)
        /\ SubSeq(input, 3, Len(input)) = BatchWords(Suffix(Cases, 1))
    BY <1>2, <1>3, HeaderRead
  <2> QED BY <2>1
<1>5. input' \in Seq(Word) /\ Len(Cases) \in Word
  <2>1. ArgsOf(Job(next).op) \in Nat
    BY <1>3, WordsOfCase
  <2>2. OfLength(ArgsOf(Job(next).op), Suffix(Cases, 1))
    BY <1>3, <2>1, SuffixTyped
  <2>3. BatchWords(Suffix(Cases, 1)) \in Seq(Word)
    BY <2>1, <2>2, BatchTyped
  <2>4. Len(Cases) \in Word
    BY <1>3 DEF Word
  <2> QED BY <1>4, <2>3, <2>4
<1>6. Typed'
  BY <1>1, <1>3, <1>4, <1>5, SameJob DEF Typed
<1>7. Recorded(<<>>, Answers, 0)
  BY DEF Recorded
<1>8. Stages'
  <2>1. Unread(Len(Cases)) = Suffix(Cases, 1) /\ Len(Cases) - Len(Cases) = 0
    <3>1. Len(Cases) - Len(Cases) + 1 = 1 /\ Len(Cases) - Len(Cases) = 0
      BY <1>3
    <3> QED BY <3>1 DEF Unread, Suffix
  <2>2. Unread(guest.left)' = Suffix(Cases, 1)
    BY <1>1, <1>4, <2>1, SameJob DEF Unread
  <2>3. Recorded(journal, Answers, Len(Cases) - guest.left)'
    BY <1>1, <1>2, <1>4, <1>7, <2>1, SameJob DEF Recorded
  <2> QED BY <1>1, <1>2, <1>3, <1>4, <2>2, <2>3, SameJob DEF Stages
<1>9. Compared'
  BY <1>1, SameFindings
<1>10. Verdicts'
  BY DEF Verdicts
<1> QED BY <1>6, <1>8, <1>9, <1>10

\* The guest's next case is the first it has not answered.
LEMMA GuestReads ==
  ASSUME IInv, pc = "guest", guest.left > 0
  PROVE  LET k == Len(Cases) - guest.left + 1
         IN  /\ k \in 1 .. Len(Cases) /\ guest.op = Job(next).op /\ next <= Jobs
             /\ Len(input) >= words_for(guest.op)
             /\ CaseRead = Cases[k] /\ <<guest.op, CaseRead>> \in Tested
             /\ SubSeq(input, words_for(guest.op) + 1, Len(input)) =
                  BatchWords(Suffix(Cases, k + 1))
             /\ SubSeq(input, words_for(guest.op) + 1, Len(input)) \in Seq(Word)
<1> DEFINE k == Len(Cases) - guest.left + 1
           op == Job(next).op
<1>1. /\ next <= Jobs /\ guest.op = op /\ guest.left \in 0 .. Len(Cases)
      /\ input = BatchWords(Suffix(Cases, k))
  BY DEF IInv, Stages, Unread, Suffix
<1>2. /\ op \in Op /\ OfLength(ArgsOf(op), Cases) /\ Len(Cases) \in 1 .. BASE - 1
      /\ BASE \in Nat /\ \A i \in 1 .. Len(Cases) : <<op, Cases[i]>> \in Tested
  BY <1>1, CasesHold DEF IInv
<1>3. k \in 1 .. Len(Cases) /\ k + 1 \in 1 .. Len(Cases) + 1
  BY <1>1, <1>2
<1> HIDE DEF k, op
<1>4. /\ Len(input) >= words_for(op)
      /\ [i \in 1 .. words_for(op) \div 4 |-> u128_at(input, i - 1)] = Cases[k]
      /\ SubSeq(input, words_for(op) + 1, Len(input)) = BatchWords(Suffix(Cases, k + 1))
  BY <1>1, <1>2, <1>3, NextCase
<1>5. BatchWords(Suffix(Cases, k + 1)) \in Seq(Word)
  <2>1. ArgsOf(op) \in Nat
    BY <1>2, WordsOfCase
  <2>2. OfLength(ArgsOf(op), Suffix(Cases, k + 1))
    BY <1>2, <1>3, <2>1, SuffixTyped
  <2> QED BY <2>1, <2>2, BatchTyped
<1>6. CaseRead = Cases[k]
  BY <1>1, <1>4 DEF CaseRead
<1> QED BY <1>1, <1>2, <1>3, <1>4, <1>5, <1>6 DEF k, op

LEMMA DispatchCaseKeeps ==
  ASSUME IInv, DispatchCase
  PROVE  IInv'
<1> USE DEF IInv, DispatchCase
<1> DEFINE k == Len(Cases) - guest.left + 1
           op == Job(next).op
           done == Len(Cases) - guest.left
           answer == GuestAnswer(guest.op, CaseRead)
<1>1. Same /\ mismatches' = mismatches
  BY DEF Same, config
<1>2. /\ k \in 1 .. Len(Cases) /\ guest.op = op /\ next <= Jobs
      /\ CaseRead = Cases[k] /\ <<guest.op, CaseRead>> \in Tested
      /\ ~(Len(input) < words_for(guest.op))
      /\ input' = BatchWords(Suffix(Cases, k + 1)) /\ input' \in Seq(Word)
  BY GuestReads DEF Aborts
<1>3. answer \in U128
  <2>1. Panics(guest.op, CaseRead) => <<guest.op, CaseRead>> \in wrong
    BY <1>2 DEF Aborts
  <2>2. suite \in Suites
    BY DEF Typed
  <2> QED BY <1>2, <2>1, <2>2, AnswerTyped
<1>4. /\ Len(Cases) \in 1 .. BASE - 1 /\ DOMAIN Cases = 1 .. Len(Cases) /\ BASE \in Nat
  BY <1>2, CasesHold
<1>5. /\ guest \in [op : Op, left : Word] /\ guest.left \in 0 .. Len(Cases)
      /\ Recorded(journal, Answers, done) /\ guest.left > 0
  BY DEF Typed, Stages
<1>6. guest'.op = guest.op /\ guest'.left = guest.left - 1 /\ guest' \in [op : Op, left : Word]
  <2>1. guest' = [guest EXCEPT !.left = guest.left - 1]
    OBVIOUS
  <2>2. guest.left - 1 \in Word
    BY <1>4, <1>5 DEF Word
  <2> QED BY <1>5, <2>1, <2>2
<1>7. Recorded(journal', Answers, done + 1)
  <2>1. PICK d \in CycleDeltas : journal' = journal \o Record(answer, d)
    OBVIOUS
  <2>2. done \in Nat /\ done + 1 \in 1 .. Len(Cases) /\ done + 1 = k
    BY <1>4, <1>5
  <2>3. Answers[done + 1] = answer
    BY <1>2, <1>4, <2>2 DEF Answers
  <2> HIDE DEF done, answer, DispatchCase
  <2> QED BY <1>3, <1>5, <2>1, <2>2, <2>3, RecordAppends
<1>8. Typed'
  <2>1. journal' \in Seq(Word)
    BY <1>7 DEF Recorded
  <2> QED BY <1>1, <1>2, <1>6, <2>1, SameJob DEF Typed
<1>9. Stages'
  <2>1. /\ guest'.left \in 0 .. Len(Cases) /\ Len(Cases) - guest'.left = done + 1
        /\ Len(Cases) - guest'.left + 1 = k + 1
    BY <1>4, <1>5, <1>6
  <2>2. Unread(guest'.left) = Suffix(Cases, k + 1)
    BY <2>1 DEF Unread, Suffix
  <2>3. Unread(guest.left)' = Unread(guest'.left)
    BY <1>1, SameJob DEF Unread
  <2>4. Recorded(journal, Answers, Len(Cases) - guest.left)'
    <3>1. Answers' = Answers /\ Cases' = Cases
      BY <1>1, SameJob
    <3>2. Recorded(journal', Answers', Len(Cases') - guest'.left)
      BY <1>7, <2>1, <3>1
    <3> HIDE DEF IInv, DispatchCase, done
    <3> QED BY <3>2 DEF Recorded
  <2> QED BY <1>1, <1>2, <1>6, <2>1, <2>2, <2>3, <2>4, SameJob DEF Stages
<1>10. Compared'
  BY <1>1, SameFindings
<1>11. Verdicts'
  BY DEF Verdicts
<1> QED BY <1>8, <1>9, <1>10, <1>11

\* The guest stops only on a case the kernel panics on.
LEMMA GuestAbortsKeeps ==
  ASSUME IInv, GuestAborts
  PROVE  IInv'
<1> USE DEF IInv, GuestAborts
<1>1. Same /\ mismatches' = mismatches
  BY DEF Same, config
<1>2. ~(Len(input) < words_for(guest.op)) /\ <<guest.op, CaseRead>> \in Tested
  <2>1. Len(input) >= words_for(guest.op) /\ <<guest.op, CaseRead>> \in Tested
    BY GuestReads
  <2>2. Len(input) \in Nat /\ words_for(guest.op) \in Nat
    <3>1. input \in Seq(Word) /\ guest.op \in Op
      BY DEF Typed
    <3> QED BY <3>1, LenProperties DEF Op, words_for
  <2> QED BY <2>1, <2>2
<1>3. Panics(guest.op, CaseRead)
  BY <1>2 DEF Aborts
<1>4. BadCases # {}
  <2>1. <<guest.op, CaseRead>> \in BadCases
    BY <1>2, <1>3 DEF BadCases
  <2> QED BY <2>1
<1>5. Typed'
  BY <1>1, SameJob DEF Typed
<1>6. Stages'
  BY DEF Stages
<1>7. Compared'
  BY <1>1, SameFindings
<1>8. Verdicts'
  BY <1>1, <1>4, SameJob DEF Verdicts
<1> QED BY <1>5, <1>6, <1>7, <1>8

LEMMA GuestEndsKeeps ==
  ASSUME IInv, GuestEnds
  PROVE  IInv'
<1> USE DEF IInv, GuestEnds
<1>1. Same /\ mismatches' = mismatches
  BY DEF Same, config
<1>2. /\ next <= Jobs /\ input = BatchWords(Unread(0))
      /\ Recorded(journal, Answers, Len(Cases) - 0)
  BY DEF Stages
<1>3. Len(Cases) \in Nat /\ Len(Cases) - 0 = Len(Cases) /\ Job(next).op \in Op
      /\ OfLength(ArgsOf(Job(next).op), Cases) /\ Len(Cases) - 0 + 1 = Len(Cases) + 1
      /\ Len(Cases) + 1 - (Len(Cases) + 1) = 0
  BY <1>2, CasesHold
<1>4. input = <<>>
  <2>1. ArgsOf(Job(next).op) \in Nat
    BY <1>3, WordsOfCase
  <2>2. BatchWords(Suffix(Cases, Len(Cases) + 1)) = <<>>
    BY <1>3, <2>1, BatchEmpty
  <2> QED BY <1>2, <1>3, <2>2 DEF Unread, Suffix
<1>5. guest' \in [op : Op, left : Word]
  BY WordAssumption DEF NoGuest, Op, Word
<1>6. Typed'
  BY <1>1, <1>5, SameJob DEF Typed
<1>7. Stages'
  <2>1. Recorded(journal, Answers, Len(Cases))'
    BY <1>1, <1>2, <1>3, SameJob DEF Recorded
  <2> QED BY <1>1, <1>2, <1>4, <2>1, SameJob DEF Stages
<1>8. Compared'
  BY <1>1, SameFindings
<1>9. Verdicts'
  BY DEF Verdicts
<1> QED BY <1>6, <1>7, <1>8, <1>9

LEMMA CollectKeeps ==
  ASSUME IInv, Collect
  PROVE  IInv'
<1> USE DEF IInv, Collect
<1>1. /\ suite' = suite /\ wrong' = wrong /\ median_case' = median_case
      /\ mismatches' = mismatches /\ guest' = guest /\ input' = <<>> /\ journal' = <<>>
  BY DEF config
<1>2. next <= Jobs /\ Recorded(journal, Answers, Len(Cases))
  BY DEF Stages
<1>3. /\ Len(Cases) \in Nat /\ DOMAIN Cases = 1 .. Len(Cases)
      /\ Len(suite) \in Nat /\ Jobs = Len(suite) + 3 /\ next \in 1 .. Jobs
      /\ suite \in Suites
  BY <1>2, CasesHold, SuiteHolds DEF Typed, Jobs, SingleCalls
<1>4. Len(journal) = 6 * Len(Job(next).cases)
  BY <1>2 DEF Recorded, Cases
<1>5. Range(<<>>) = {} /\ <<>> \in Seq(Word)
  BY DEF Range
<1>6. CASE next <= Len(suite)
  <2>1. pc' = "compare" /\ batch' = Decoded(journal) /\ next' = next
    BY <1>4, <1>6
  <2>2. Same
    BY <1>1, <2>1 DEF Same
  <2>3. /\ Decoded(journal).outputs = Answers
        /\ Decoded(journal).cycles \in [1 .. Len(Cases) -> CycleDeltas]
    <3> DEFINE n == Len(Cases)
    <3>1. DOMAIN Answers = 1 .. n /\ Answers = [k \in 1 .. n |-> Answers[k]]
      BY <1>3 DEF Answers
    <3> HIDE DEF n
    <3>2. n \in Nat /\ Recorded(journal, Answers, n)
      BY <1>2, <1>3 DEF n
    <3>3. /\ Decoded(journal).outputs = Answers
          /\ Decoded(journal).cycles \in [1 .. n -> CycleDeltas]
      BY <3>1, <3>2, DecodedAnswers, Zenon
    <3> QED BY <3>3 DEF n
  <2>4. Range(batch'.outputs) \subseteq U128 /\ Range(batch'.cycles) \subseteq CycleDeltas
    <3>1. \A k \in 1 .. Len(Cases) : Answers[k] \in U128
      BY <1>2 DEF Recorded
    <3>2. DOMAIN Answers = 1 .. Len(Cases)
      BY <1>3 DEF Answers
    <3>3. Range(Answers) \subseteq U128
      BY <3>1, <3>2 DEF Range
    <3>4. Range(Decoded(journal).cycles) \subseteq CycleDeltas
      BY <2>3 DEF Range
    <3> QED BY <2>1, <2>3, <3>3, <3>4
  <2>5. Typed'
    BY <1>1, <1>5, <2>1, <2>2, <2>4, SameJob DEF Typed
  <2>6. Stages'
    BY <1>2, <1>6, <2>1, <2>2, <2>3, SameJob DEF Stages
  <2>7. Compared'
    BY <1>1, <2>2, SameFindings
  <2>8. Verdicts'
    BY <2>1 DEF Verdicts
  <2> QED BY <2>5, <2>6, <2>7, <2>8
<1>7. CASE next > Len(suite)
  <2>1. pc' = "host" /\ batch' = NoBatch /\ next' = next + 1
    BY <1>3, <1>4, <1>7
  <2>2. Jobs' = Jobs /\ next' \in 1 .. Jobs + 1
    BY <1>1, <1>3, <2>1 DEF Jobs
  <2>3. Typed'
    BY <1>1, <1>5, <2>1, <2>2 DEF Typed, NoBatch
  <2>4. Stages'
    BY <2>1 DEF Stages
  <2>5. Compared'
    <3>1. BadCases' = BadCases
      BY <1>1 DEF BadCases, Tested
    <3>2. \A n \in 1 .. Len(suite) : n < next
      BY <1>3, <1>7
    <3> QED BY <1>1, <3>1, <3>2 DEF Compared
  <2>6. Verdicts'
    BY <2>1 DEF Verdicts
  <2> QED BY <2>3, <2>4, <2>5, <2>6
<1> QED BY <1>3, <1>6, <1>7

\* A batch whose answers all match the host's holds no wrong one, and every
\* one that differs is wrong.
LEMMA DifferingIsWrong ==
  ASSUME suite \in Suites, NEW n \in 1 .. Len(suite),
         ~HostPanics(suite[n].op, suite[n].cases), NEW outputs,
         \A k \in 1 .. Len(suite[n].cases) :
           outputs[k] = GuestAnswer(suite[n].op, suite[n].cases[k])
  PROVE  LET op == suite[n].op
             cases == suite[n].cases
         IN  /\ Cardinality(Differing(op, cases, outputs)) \in Nat
             /\ Cardinality(Differing(op, cases, outputs)) = 0 =>
                  \A k \in 1 .. Len(cases) : <<op, cases[k]>> \notin wrong
             /\ Cardinality(Differing(op, cases, outputs)) > 0 => BadCases # {}
             /\ \A k \in 1 .. Len(cases) : ~Panics(op, cases[k])
<1> DEFINE op == suite[n].op
           cases == suite[n].cases
           D == Differing(op, cases, outputs)
<1>1. /\ OfLength(ArgsOf(op), cases) /\ n \in DOMAIN suite
      /\ \A k \in 1 .. Len(cases) : <<op, cases[k]>> \in Tested
  BY SuiteHolds
<1>2. DOMAIN cases = 1 .. Len(cases) /\ Len(cases) \in Nat
  BY <1>1, LenProperties DEF OfLength
<1>3. \A k \in 1 .. Len(cases) : cases[k] \in Range(cases)
  BY <1>2 DEF Range
<1>4. \A k \in 1 .. Len(cases) : ~Panics(op, cases[k])
  BY <1>3 DEF HostPanics
<1>5. \A k \in 1 .. Len(cases) : Kernel(op, cases[k]) \in U128
  BY <1>1, <1>3, <1>4, KernelAssumption
<1>6. \A k \in 1 .. Len(cases) : k \in D <=> outputs[k] # Kernel(op, cases[k])
  BY <1>2 DEF Differing
<1>7. D \subseteq 1 .. Len(cases)
  BY <1>2 DEF Differing
<1>8. IsFiniteSet(D) /\ Cardinality(D) \in Nat
  <2>1. IsFiniteSet(1 .. Len(cases))
    <3> DEFINE top == Len(cases)
    <3>1. top \in Int
      BY <1>2
    <3> HIDE DEF top
    <3>2. IsFiniteSet(1 .. top)
      BY <3>1, FS_Interval
    <3> QED BY <3>2 DEF top
  <2>2. IsFiniteSet(D)
    BY <1>7, <2>1, FS_Subset
  <2> QED BY <2>2, FS_CardinalityType
<1>9. ASSUME Cardinality(D) = 0, NEW k \in 1 .. Len(cases) PROVE <<op, cases[k]>> \notin wrong
  <2>1. D = {}
    BY <1>8, <1>9, FS_EmptySet
  <2>2. GuestAnswer(op, cases[k]) = Kernel(op, cases[k])
    BY <1>6, <2>1
  <2> QED BY <1>4, <1>5, <2>2, WrongDiffers
<1>10. ASSUME Cardinality(D) > 0 PROVE BadCases # {}
  <2>1. D # {}
    BY <1>8, <1>10, FS_EmptySet
  <2>2. PICK k \in 1 .. Len(cases) : outputs[k] # Kernel(op, cases[k])
    BY <1>6, <1>7, <2>1
  <2>3. <<op, cases[k]>> \in wrong
    BY <2>2 DEF GuestAnswer
  <2>4. <<op, cases[k]>> \in BadCases
    BY <1>1, <2>3 DEF BadCases
  <2> QED BY <2>4
<1> QED BY <1>4, <1>8, <1>9, <1>10

LEMMA CompareKeeps ==
  ASSUME IInv, Compare
  PROVE  IInv'
<1> DEFINE op == suite[next].op
           cases == suite[next].cases
           found == Cardinality(Differing(op, cases, batch.outputs))
<1>1. /\ pc = "compare" /\ suite' = suite /\ wrong' = wrong /\ guest' = guest
      /\ input' = input /\ journal' = journal
  BY DEF Compare, config
<1>2. Typed /\ Stages /\ Compared /\ suite \in Suites
  BY DEF IInv, Typed
<1>3. /\ next <= Jobs /\ next <= Len(suite) /\ batch.outputs = Answers
      /\ batch.cycles \in [1 .. Len(Cases) -> CycleDeltas]
  BY <1>1, <1>2 DEF Stages
<1>4. next \in 1 .. Len(suite) /\ Len(suite) \in Nat /\ Jobs = Len(suite) + 3
  BY <1>2, <1>3, SuiteHolds DEF Typed, Jobs, SingleCalls
<1>5. Job(next).op = op /\ Cases = cases
  BY <1>4 DEF Job, Cases
<1>6. /\ op \in Op /\ Len(cases) \in 1 .. BASE - 1 /\ DOMAIN cases = 1 .. Len(cases)
      /\ \A k \in 1 .. Len(cases) : <<op, cases[k]>> \in Tested
  BY <1>2, <1>3, <1>5, CasesHold
<1>7. BadCases' = BadCases /\ Tested' = Tested /\ Jobs' = Jobs
  BY <1>1 DEF BadCases, Tested, Jobs
<1>8. CASE HostPanics(op, cases)
  <2>1. pc' = "failed" /\ next' = next /\ batch' = batch /\ mismatches' = mismatches
        /\ median_case' = median_case
    BY <1>8 DEF Compare
  <2>2. BadCases # {}
    <3>1. PICK k \in 1 .. Len(cases) : Panics(op, cases[k])
      BY <1>6, <1>8 DEF HostPanics, Range
    <3>2. <<op, cases[k]>> \in BadCases
      BY <1>6, <3>1 DEF BadCases
    <3> QED BY <3>2
  <2>3. Typed'
    BY <1>1, <1>2, <1>7, <2>1 DEF Typed
  <2>4. Stages'
    BY <2>1 DEF Stages
  <2>5. Compared'
    BY <1>1, <1>2, <1>7, <2>1 DEF Compared
  <2>6. Verdicts'
    BY <1>7, <2>1, <2>2 DEF Verdicts
  <2> QED BY <2>3, <2>4, <2>5, <2>6 DEF IInv
<1>9. CASE ~HostPanics(op, cases)
  <2>1. /\ pc' = "host" /\ next' = next + 1 /\ batch' = NoBatch
        /\ mismatches' = mismatches + found
        /\ median_case' = [median_case EXCEPT ![op] = FirstOfMedianCost(cases, batch.cycles)]
    BY <1>9 DEF Compare, Counted
  <2>2. \A k \in 1 .. Len(cases) : batch.outputs[k] = GuestAnswer(op, cases[k])
    BY <1>3, <1>5, <1>6 DEF Answers
  <2>3. /\ found \in Nat
        /\ found = 0 => \A k \in 1 .. Len(cases) : <<op, cases[k]>> \notin wrong
        /\ found > 0 => BadCases # {}
        /\ \A k \in 1 .. Len(cases) : ~Panics(op, cases[k])
    BY <1>2, <1>4, <1>9, <2>2, DifferingIsWrong
  <2>4. FirstOfMedianCost(cases, batch.cycles) \in Range(cases)
    <3> DEFINE m == Len(cases)
    <3>1. m \in Nat /\ m >= 1 /\ DOMAIN cases = 1 .. m
      BY <1>6, WordAssumption
    <3>2. batch.cycles \in [1 .. m -> CycleDeltas]
      BY <1>3, <1>5
    <3> HIDE DEF m, cases
    <3>3. Len(batch.cycles) = m
      BY <3>1, <3>2
    <3>4. \E k \in 1 .. m : FirstOfMedianCost(cases, batch.cycles) = cases[k]
      BY <3>1, <3>2, <3>3, MedianCaseFound
    <3> QED BY <3>1, <3>4 DEF Range
  <2> HIDE DEF found
  <2>5. mismatches \in Nat /\ mismatches' \in Nat /\ DOMAIN median_case = Op
    BY <1>2, <2>1, <2>3 DEF Typed, Compared
  <2>6. Typed'
    <3>1. next' \in 1 .. Jobs + 1
      BY <1>3, <1>4, <2>1
    <3>2. Range(<<>>) = {}
      BY DEF Range
    <3> QED BY <1>1, <1>2, <1>7, <2>1, <2>5, <3>1, <3>2 DEF Typed, NoBatch
  <2>7. Stages'
    BY <2>1 DEF Stages
  <2>8. Compared'
    <3>1. DOMAIN median_case' = Op
      BY <2>1, <2>5
    <3>2. ASSUME NEW n \in 1 .. Len(suite), n < next + 1
          PROVE  /\ median_case'[suite[n].op] \in Range(suite[n].cases)
                 /\ \A k \in 1 .. Len(suite[n].cases) :
                      /\ ~Panics(suite[n].op, suite[n].cases[k])
                      /\ mismatches' = 0 => <<suite[n].op, suite[n].cases[k]>> \notin wrong
      <4>1. CASE n = next
        <5>1. median_case'[op] \in Range(cases)
          BY <1>6, <2>1, <2>4, <2>5
        <5>2. mismatches' = 0 => found = 0
          BY <2>1, <2>3, <2>5
        <5> QED BY <2>3, <4>1, <5>1, <5>2
      <4>2. CASE n # next
        <5>1. n < next
          BY <1>4, <3>2, <4>2
        <5>2. suite[n].op # op /\ suite[n].op \in Op
          BY <1>2, <1>4, <4>2, SuiteHolds
        <5>3. median_case'[suite[n].op] = median_case[suite[n].op]
          BY <2>1, <2>5, <5>2
        <5>4. mismatches' = 0 => mismatches = 0
          BY <2>1, <2>3, <2>5
        <5> QED BY <1>2, <5>1, <5>3, <5>4 DEF Compared
      <4> QED BY <4>1, <4>2
    <3>3. mismatches' > 0 => BadCases # {}
      <4>1. mismatches' > 0 => mismatches > 0 \/ found > 0
        BY <2>1, <2>3, <2>5
      <4> QED BY <1>2, <2>3, <4>1 DEF Compared
    <3> QED BY <1>1, <1>7, <2>1, <3>1, <3>2, <3>3 DEF Compared
  <2>9. Verdicts'
    BY <2>1 DEF Verdicts
  <2> QED BY <2>6, <2>7, <2>8, <2>9 DEF IInv
<1> QED BY <1>8, <1>9

LEMMA GiveVerdictKeeps ==
  ASSUME IInv, GiveVerdict
  PROVE  IInv'
<1> USE DEF IInv, GiveVerdict
<1>1. Same /\ mismatches' = mismatches
  BY DEF Same, config
<1>2. mismatches \in Nat
  BY DEF Typed
<1>3. Typed'
  BY <1>1, SameJob DEF Typed
<1>4. Stages'
  BY DEF Stages
<1>5. Compared'
  BY <1>1, SameFindings
<1>6. Verdicts'
  BY <1>1, <1>2, SameJob DEF Verdicts, Compared
<1> QED BY <1>3, <1>4, <1>5, <1>6

LEMMA StutterKeeps ==
  ASSUME IInv, UNCHANGED vars
  PROVE  IInv'
<1>1. Same /\ UNCHANGED <<pc, input, journal, guest, batch, mismatches>>
  BY DEF vars, Same
<1>2. Unread(guest.left)' = Unread(guest.left)
  BY <1>1, SameJob DEF Unread
<1>3. Typed'
  BY <1>1, SameJob DEF IInv, Typed
<1>4. Stages'
  BY <1>1, <1>2, SameJob DEF IInv, Stages
<1>5. Compared'
  BY <1>1, SameFindings DEF IInv
<1>6. Verdicts'
  BY <1>1, SameJob DEF IInv, Verdicts
<1> QED BY <1>3, <1>4, <1>5, <1>6 DEF IInv

LEMMA StepKeeps == IInv /\ [Next]_vars => IInv'
<1> SUFFICES ASSUME IInv, [Next]_vars PROVE IInv'
  OBVIOUS
<1>1. CASE StartGuest
  BY <1>1, StartGuestKeeps
<1>2. CASE ReadHeader
  BY <1>2, ReadHeaderKeeps
<1>3. CASE DispatchCase
  BY <1>3, DispatchCaseKeeps
<1>4. CASE GuestAborts
  BY <1>4, GuestAbortsKeeps
<1>5. CASE GuestEnds
  BY <1>5, GuestEndsKeeps
<1>6. CASE Collect
  BY <1>6, CollectKeeps
<1>7. CASE Compare
  BY <1>7, CompareKeeps
<1>8. CASE GiveVerdict
  BY <1>8, GiveVerdictKeeps
<1>9. CASE Exited
  BY <1>9, StutterKeeps DEF Exited
<1>10. CASE UNCHANGED vars
  BY <1>10, StutterKeeps
<1> QED BY <1>1, <1>2, <1>3, <1>4, <1>5, <1>6, <1>7, <1>8, <1>9, <1>10 DEF Next

LEMMA Invariance == Spec => []IInv
BY InitInv, StepKeeps, PTL DEF Spec
-----------------------------------------------------------------------------
(***************************************************************************)
(* The properties.                                                         *)
(***************************************************************************)
\* Every word on the wire fits a word, and what the host decodes from it fits
\* the types it is read as, whatever the suite, the kernel and the bad build.
THEOREM TypeCorrect == Spec => []TypeOK
<1>1. IInv => TypeOK
  <2> SUFFICES ASSUME IInv PROVE TypeOK
    OBVIOUS
  <2>1. Range(input) \subseteq Word /\ Range(journal) \subseteq Word
    <3>1. input \in Seq(Word) /\ journal \in Seq(Word)
      BY DEF IInv, Typed
    <3> QED BY <3>1, RangeOfSeq
  <2> QED BY <2>1 DEF IInv, Typed, TypeOK
<1> QED BY <1>1, Invariance, PTL

\* Host and guest agree on every case boundary of the stream, for every op,
\* every batch and every word size.
THEOREM Framing == Spec => []FramingAgrees
<1>1. IInv => FramingAgrees
  <2> SUFFICES ASSUME IInv PROVE FramingAgrees
    OBVIOUS
  <2>1. pc = "collect" => input = <<>>
    BY DEF IInv, Stages
  <2>2. ASSUME pc = "guest"
        PROVE  /\ guest.left <= Len(Cases)
               /\ <<guest.op, guest.left>> \o input =
                    Encoded(Job(next).op,
                            SubSeq(Cases, Len(Cases) - guest.left + 1, Len(Cases)))
    <3>1. /\ next <= Jobs /\ guest.op = Job(next).op /\ guest.left \in 0 .. Len(Cases)
          /\ input = BatchWords(Unread(guest.left))
      BY <2>2 DEF IInv, Stages
    <3>2. /\ Job(next).op \in Op /\ OfLength(ArgsOf(Job(next).op), Cases)
          /\ Len(Cases) \in 1 .. BASE - 1 /\ BASE \in Nat
      BY <3>1, CasesHold DEF IInv
    <3> DEFINE k == Len(Cases) - guest.left + 1
    <3>3. k \in 1 .. Len(Cases) + 1 /\ Len(Cases) + 1 - k = guest.left
      BY <3>1, <3>2
    <3>4. Unread(guest.left) = Suffix(Cases, k)
      BY DEF Unread, Suffix
    <3>5. ArgsOf(Job(next).op) \in Nat
      BY <3>2, WordsOfCase
    <3> HIDE DEF k
    <3>6. Len(Suffix(Cases, k)) = Len(Cases) + 1 - k
      BY <3>2, <3>3, <3>5, SuffixTyped
    <3>7. <<guest.op, guest.left>> \o input = Encoded(Job(next).op, Suffix(Cases, k))
      BY <3>1, <3>3, <3>4, <3>6, EncodedSplits
    <3> QED BY <3>1, <3>2, <3>7 DEF k, Suffix
  <2> QED BY <2>1, <2>2 DEF FramingAgrees, Cases
<1> QED BY <1>1, Invariance, PTL

\* A run passes only when no answer was wrong and no case panicked.
THEOREM Sound == Spec => []VerdictSound
<1>1. IInv => VerdictSound
  <2> SUFFICES ASSUME IInv, pc = "passed", NEW t \in BadCases PROVE FALSE
    BY DEF VerdictSound
  <2>1. /\ suite \in Suites /\ mismatches = 0 /\ next > Jobs /\ next \in Nat /\ Compared
        /\ Len(suite) \in Nat /\ Jobs = Len(suite) + 3
    BY SuiteHolds DEF IInv, Typed, Verdicts, Jobs, SingleCalls
  <2>2. PICK n \in 1 .. Len(suite) : \E k \in 1 .. Len(suite[n].cases) :
          t = <<suite[n].op, suite[n].cases[k]>>
    BY <2>1, TestedFrom DEF BadCases
  <2>3. n < next
    BY <2>1, <2>2
  <2> QED BY <2>1, <2>2, <2>3 DEF Compared, BadCases
<1> QED BY <1>1, Invariance, PTL

\* A run fails only when an answer was wrong or a case panicked.
THEOREM Complete == Spec => []VerdictComplete
<1>1. IInv => VerdictComplete
  BY DEF IInv, Verdicts, VerdictComplete
<1> QED BY <1>1, Invariance, PTL

\* Once the batches are compared, every op run alone has a case of its own
\* batch to run.
THEOREM Sessions == Spec => []SessionsHaveCases
<1>1. IInv => SessionsHaveCases
  <2> SUFFICES ASSUME IInv, next > Len(suite), NEW op \in Range(SingleCalls)
               PROVE  \E b \in Range(suite) : b.op = op /\ median_case[op] \in Range(b.cases)
    BY DEF SessionsHaveCases
  <2>1. suite \in Suites /\ Compared /\ next \in Nat
    BY SuiteHolds DEF IInv, Typed, Jobs, SingleCalls
  <2>2. PICK n \in 1 .. Len(suite) : suite[n].op = op
    BY <2>1, SuiteHolds
  <2>3. suite[n] \in Range(suite) /\ Len(suite) \in Nat
    BY <2>1, SuiteHolds DEF Range
  <2>4. median_case[op] \in Range(suite[n].cases)
    BY <2>1, <2>2, <2>3 DEF Compared
  <2> QED BY <2>2, <2>3, <2>4
<1> QED BY <1>1, Invariance, PTL
=============================================================================
