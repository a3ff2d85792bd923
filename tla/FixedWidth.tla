----------------------------- MODULE FixedWidth -----------------------------
(***************************************************************************)
(* The machine integers the kernel computes on.  Rust's u128 and i128 are  *)
(* the intervals U128 and I128 of a WIDTH-bit word, so that the model      *)
(* checker can run the same definitions on a narrow word.  A shift right   *)
(* is a floor division by a power of two on either type (u128: logical,    *)
(* i128: arithmetic); the division operator of i128 truncates.             *)
(***************************************************************************)
EXTENDS Integers

CONSTANTS WIDTH,            \* bits of a word: 128
          OVERFLOW_CHECKS   \* the build profile's overflow-checks flag

ASSUME WidthAssumption == WIDTH \in Nat /\ WIDTH >= 4 /\ WIDTH % 2 = 0
ASSUME ProfileAssumption == OVERFLOW_CHECKS \in BOOLEAN

\* The defining recurrence of 2^n, which the provers do not know.
ASSUME PowerAssumption ==
  2^0 = 1 /\ \A n \in 0 .. WIDTH - 1 : 2^(n + 1) = 2 * 2^n

WORD == 2^WIDTH
U128 == 0 .. WORD - 1
I128 == -(2^(WIDTH - 1)) .. 2^(WIDTH - 1) - 1

Wrap(x) == x % WORD
Shr(x, n) == x \div 2^n

\* a / b on i128, for b > 0: rounds toward zero.
TruncDiv(a, b) == IF a >= 0 THEN a \div b ELSE -((-a) \div b)

\* a.div_ceil(b) on u128: no intermediate above a.
CeilDiv(a, b) == IF a % b = 0 THEN a \div b ELSE (a \div b) + 1

\* WIDTH - x.leading_zeros(): how many bits x occupies.
BitLen(x) == CHOOSE n \in 0 .. WIDTH : x < 2^n /\ (n > 0 => x >= 2^(n - 1))

AtLeast(x, y) == IF x >= y THEN x ELSE y    \* x.max(y)
AtMost(x, y) == IF x <= y THEN x ELSE y     \* x.min(y)

(***************************************************************************)
(* What a Rust function that may panic hands its caller.                   *)
(***************************************************************************)
Value(v) == [panic |-> "none", value |-> v]
Panic(reason) == [panic |-> reason, value |-> 0]
Panicked(outcome) == outcome.panic # "none"

\* An unsigned addition: a checked build panics where an unchecked one wraps.
Add(a, b) ==
  IF a + b \in U128 THEN Value(a + b)
  ELSE IF OVERFLOW_CHECKS THEN Panic("overflow") ELSE Value(Wrap(a + b))
=============================================================================
