# Verification of the weighted-math kernel

TLA+ specifications, model-checking runs and machine-checked proofs for
`weighted-math-core`, the integer kernel that prices swaps of a weighted pool
(`crates/weighted-math-core`), and for what the repository's harness, fuzz
target and zkVM runner rely on. The modules follow the Rust source line by
line; `PROJECT.json` names the lines of every definition.

## The system

| Part | State | Operations | Used by |
|---|---|---|---|
| `wide.rs` | none (two words in, one out) | `mul_wide`, `mul_shr`, `mul_shr_up` | `fixed.rs`, `pow.rs`, `weighted.rs` |
| `fixed.rs` | none | `mul_down/up`, `div_down/up`, `complement` | the public API and the tests; **not** the swap path |
| `pow.rs` | the locals of two loops each in `ln_inner` and `exp_inner` | `ln`, `exp`, `expm1`, `pow`, `pow_down`, `pow_up`, `one_minus_pow_62`, `pow_62_down` | `weighted.rs`, tests, guest |
| `weighted.rs` | none | `calc_out_given_in`, `calc_in_given_out` | a pool program (not in the repository), tests, fuzz target, guest |
| `crates/harness` | none | band checker, quantizer, curve-invariant referee, swap generators | `cargo test`, fuzz target |
| `fuzz/` | none | shapes raw bytes into a trade of the envelope, quotes it, judges the quote | libFuzzer |
| `zkvm/methods/guest` | a 20-word buffer, the journal | one dispatch per case | the host runner |
| `zkvm/host` | batches, mismatch count | run a batch, compare bit for bit | CI, by hand |
| `oracle/gen.py`, `balancer-ref/` | none | write fixtures | run by hand |

The kernel is sequential and pure: no threads, no I/O, no persistence, so
there is nothing to interleave, crash or retry inside it. What is hard about
it is numeric. The correctness of a payout depends on a chain of about forty
roundings whose directions must all favour the pool; every intermediate has to
fit 128 bits although nothing checks it in a release build; two pairs of loops
normalise their argument and must stop inside the window the series is valid
in; and three asserts must be unreachable for every in-envelope trade, because
a panic aborts the pool's transaction. Interaction over time enters with the
pool that uses the kernel: a sequence of legal trades, in either direction and
either form, must never drain a reserve or leave the pool poorer.

What makes each part correct:

- **wide**: the two limbs are the exact product; the floor form answers exactly
  the floor and panics exactly when it is no word; the ceiling form is never
  below the product.
- **fixed**: each wrapper is correctly rounded, panics only where its contract
  says, and directions compose: a chain of `_down` and `_up` calls brackets the
  exact rational.
- **pow**: no intermediate overflows; the `debug_assert`s hold; the loops stop
  and one correction of the range reduction is enough; no in-domain call
  panics; the padded results lie on the documented side of the real power and
  not further than the pads explain; results stay in range and do not jump.
- **weighted**: the curve value never decreases (so no payout is the whole
  reserve and no purchase is free); the only panic from inside the envelope is
  a payment past the word, which no trade the fuzz target shapes meets; the pool
  keeps no more than rounding explains; paying more never buys less.
- **a pool of it**: no session empties a reserve, and none leaves the pool with
  less of one token and no more of the other.
- **the differential tests**: a gate accepts no result, payout or payment on the
  fund-leak side, also where the magnitude is not judged; it panics at no sound
  kernel; what it accepts is as close as its bounds say, in ulps and in wei; and
  the arithmetic test passes exactly the correctly rounded answers.
- **the zkVM runner**: host and guest agree where a case begins, and the run
  passes exactly when every answer of the guest is the host's.

## The modules

| Module | Models | Form |
|---|---|---|
| `FixedWidth` | `u128`/`i128` as a word of `WIDTH` bits, shifts, the two divisions, the two kinds of unsigned addition | operators |
| `Wide` | `wide.rs` | operators |
| `WideCalls` | one call of `mul_shr` or `mul_shr_up` | state machine |
| `Fixed` | `fixed.rs`: every wrapper with its asserts | operators |
| `FixedCalls` | a caller that carries an interval through chains of wrappers | state machine |
| `Pow` | what each entry point of `pow.rs` returns, the constants and what they must satisfy | operators, recursive functions |
| `PowCalls` | the abstract specification: a call answers the function's value, refuses, and ends | state machine |
| `PowSteps` | `pow.rs` step by step: one action per loop iteration, early return and rounding | state machine |
| `BigNat` | `num_bigint::BigUint` (external) | operators |
| `PowAccuracy` | exact comparison of the kernel's powers with the real ones | properties on `PowSteps` |
| `KernelConstants` | the numbers of `pow.rs`, digit for digit, and what is evaluated of them | operators |
| `Weighted` | `weighted.rs` | operators |
| `SwapCalls` | one quote at a time, from any caller or from the fuzz target, and what callers rely on | state machine |
| `Pool` | a pool that trades at the kernel's prices (external) | state machine |
| `Grader` | `harness/src/lib.rs`: the quantizer and the band checks | operators |
| `Referee` | `harness/src/lib.rs`: the double-width helpers and the verdict built on them | operators |
| `Differential` | `tests/differential.rs`: band gates, economic gates and arithmetic test, case after case | state machine |
| `Parity` | the zkVM guest's loop and the host that feeds, decodes, compares and judges it | state machine |
| `WideTheorems`, `PowTheorems` | what the operators of `Wide` and `Pow` return | proofs |
| `Wide_proofs`, `PowSteps_proofs`, `FixedCalls_proofs`, `Differential_proofs`, `Parity_proofs` | theorems of the state machines | proofs |
| `Weighted_proofs` | what the operators of `BigNat` and `Weighted` return, and the theorems of `SwapCalls` and `Pool` | proofs |
| `MC*` | instances for TLC | |

`Pow` extends `Fixed` extends `Wide` extends `FixedWidth`; `PowSteps` and
`Weighted` extend `Pow`; `SwapCalls` and `Pool` extend `Weighted`; `FixedCalls`
and the harness modules extend `Fixed`; `PowAccuracy` brings `KernelConstants`
into a run. `PowSteps` instantiates `PowCalls` with
`phase <- Phase`. `Parity` stands alone: the kernel is a parameter of it, so the
protocol is checked for whatever function the kernel computes.

### How state and actions correspond to the code

`PowSteps`: `pc` is the line about to run; `m, k, t, u, acc, i, neg, s` are
the locals of `ln_inner` and `exp_inner` (`acc` is `p` in the former, `acc` in
the latter; `neg` is `-ln x`, then `neg_arg`). `Refuse` is the `assert!` at
the top of an entry point, `Saturate` the early return of `exp`/`expm1`,
`Double` one turn of `while m < SQRT2_HALF_62`, `Divide` the straight-line code
up to the Horner loop, `LnHorner`/`ExpHorner` one iteration of either loop,
`Product` the widened multiply with its assert, `Estimate` the first guess of the
range reduction. Its two correction loops run one after the other: `ReduceDown`
turns the first and `DownDone` leaves it for good, `ReduceUp` turns the second, and
`Reduced` is where that one is left. `Underflow` is the early return for `k > 62`,
`Return` the last line of the entry point with its pad, clamp and rounding.
`Ask` and `Resume` are the caller. A panic is final: it aborts the program.

`SwapCalls` and `Pool` call the same operators `calc_out_given_in` and
`calc_in_given_out`, whose result is `Value(v)` or `Panic(reason)`; the reason
says which assert fired, so that a property can ask for *which* panics are
possible. The specification of `SwapCalls` is `SwapSpec`, that of every other
state machine `Spec`: the proofs about a quote and about a pool share a module.

In `SwapCalls` the `caller` is anyone, whose `Request` is any quote, or the fuzz
target: `Shaped` is `trade_invariant.rs` from the raw bytes to the arguments of
the call, `MaxAmount` its `max_out` and `max_in`, and the guard of `Fuzz` its early
return for an input with no legal amount. `cap_fit` is also the condition of
the proptest generator `exact_out_swap`.

`Pool` is the one module about code outside the repository. It does what
`README.md` and the ADRs design the kernel for: it moves the amounts the kernel
returns, and a panic leaves it unchanged. Its `MAX_TRADES` bounds a session.

`Fixed` casts as `checked_repr` does: `AsRepr` reads the bits of a `u128` as two's
complement, so without the check in front a large result would be a negative
number. `FixedCalls` keeps, beside the two `Fixed` values `low` and `high`, the exact
number `top/bottom` they stand for; `step` is the last call, for properties
about a single wrapper.

`Differential`: a case is the oracle's truth with the result of a build that may
be wrong, or operands of the wrappers with answers next to the right ones. `Quantize` is
`q_to_scale_bounds`, `Grade` the check a gate calls, `assert_band` the panic.
`TakeTrade` and `JudgeTrade` are the two economic gates: `Loss` is what the pool
would lose, `BoundWei` the saturating sum of sensitivities and kernel error,
`DirectionOnly` the case whose sensitivity does not fit a word. The arithmetic test
judges the products, the quotients and the complement of one pair in a row; nothing
is carried from one to the next, so each is a case of its own (`TakeOperands`,
`TakeComplement`, `JudgeArith`).
A panicked test stops; a passed one takes the next case.

`Parity`: `input` and `journal` are the words of `ExecutorEnv` and of the
journal, one list element per `u32`. `wrong` is chosen at the start: the cases a
miscompiled guest answers wrongly. `StartGuest` is the encoding in `run_guest`,
`ReadHeader` and `DispatchCase` the guest's reads, call and commit,
`GuestAborts` a panic in the guest (the end of the input among them), which
`default_executor().execute` reports and `?` passes up; `Collect` checks the
journal's length and decodes it, `Compare` is the loop over a batch with the
median case, `GiveVerdict` the end of `main`. Jobs past the batches are the
single-call sessions, which the code does not compare.

## Scaling down

The code's constants are CONSTANTS of the model: `WIDTH` (128), `SCALE` (52),
`LN_SCALE` (62), `MAX_RATIO` (99), the logarithm constants and both coefficient
tables. TLC's integers are 32-bit, so the runs use a 28-bit word with `SCALE` 7
and `LN_SCALE` 13. The instance is built as the kernel's is:

- the tables are the same series rounded at the smaller scale, cut where the
  next coefficient rounds away;
- `PAD_62` is half an ulp at `SCALE` (32 of 64, as 512 of 1024);
- `MAX_RATIO` is 11, so that 0.7^11 lies about five pads above zero, where the
  kernel's 0.7^99 lies four: the margin of the underflow assert is kept;
- `ARG_ENVELOPE`, `SATURATE_AT` keep the order the code's comments state.

Everything the proofs need of the constants is in the assumptions of
`FixedWidth`, `Wide`, `Fixed`, `Pow`, `Weighted` and `SwapCalls`, which TLC evaluates
for the small constants on every run. That the kernel's own numbers meet them is evaluated
too: `KernelConstants` holds the numerals of `pow.rs` digit for digit, as numbers
of any size, and four assumptions of it are evaluated in the `pow_accuracy` run.
`TablesAreRounded` says that every constant is the nearest integer its comment
says it is (both tables, `ln 2` from its own series, `sqrt(2)/2`, the
reciprocal); `SourceMeetsAssumptions`, `SourceMeetsSwapAssumptions` and
`SourceMeetsSeamAssumptions` that they satisfy the inequalities the proofs start
from. The last one computes the Horner sums of the source's tables exactly at the
ends of their windows: the exponential just below `ln 2` doubles to `2^62 - 2`, the
least value `SeamAssumption` allows, and the logarithms at the ends of the `sqrt(2)`
window leave 1450 units where it asks for 1024. None is a theorem: the prover folds numerals in machine
integers, which the 2^62 of the source already leaves.

## The runs

| Run | Config | Expect | Question |
|---|---|---|---|
| `wide_exact` | `MCWide.cfg` | pass | every pair of 6-bit words and every shift, in a checked build |
| `wide_up_carry` | `MCWideUnchecked.cfg` | violation | the same without overflow checks: can the `+ 1` wrap? |
| `fixed_wrappers` | `MCFixed.cfg` | pass | chains of multiplications, divisions and complements: do the directions compose? |
| `pow_steps` | `MCPow.cfg` | pass | every base, 15 exponents on both sides of each bound, every exp argument to past saturation |
| `pow_refines` | `MCPowRefines.cfg` | pass | a reciprocal that rounds down instead of up: refinement and termination |
| `pow_accuracy` | `MCAccuracy.cfg` | pass | distance to the real power, decided exactly; the numbers of the source against their definitions |
| `swap_quotes` | `MCSwap.cfg` | pass | reserves from 0 to the whole word, weights at and past the ratio, amounts at the caps, every amount of small pools, and the fuzz target's trades |
| `ratio_cost` | `MCRatioCost.cfg` | violation | does the pre-shift cost what its comment says? |
| `pool_sessions` | `MCPool.cfg` | pass | all sessions of three swaps from five pools |
| `differential` | `MCDifferential.cfg` | pass | every truth of [0, 1) with every result around it; every operand pair with every answer next to the right one; trades of every balance, bound and sensitivity |
| `grader_ceiling` | `MCDifferentialCeiling.cfg` | violation | does an `_up` result below the reference always fail? |
| `zkvm_parity` | `MCParity.cfg` | pass | guests with up to two wrong answers anywhere, fixtures with and without a panicking case |

Bounds, and why they are enough:

- `WIDTH = 6` makes every operand pair of the multiply checkable, with three-bit
  limbs in which both carries occur; the theorem covers all other widths.
- In the 28-bit runs the bases are complete (every value of the 7-bit grid and
  one on each side), so every mantissa the normalisation can produce occurs.
  The exponents include the smallest, 1/11, the largest and its neighbours.
- `MCPow` uses `INV_LN2_30` rounded up, as the kernel's is: only `ReduceDown`
  fires. `MCPowRefines` uses a reciprocal that is too small: only `ReduceUp`
  fires. Together they fire every action.
- Reserves lie on both sides of 2^19, the bound from which `ratio_up` and
  `ratio_down` pre-shift; the amounts include the cap, the cap plus one, and the
  largest deposit that still fits the word.
- The fuzz target's raw bytes take reserves from 0 to the word, weights that wrap
  at the ratio and amounts that wrap at either cap, so the shaped amount reaches
  its maximum and its minimum, and some inputs have no legal amount.
- The sweeps of `MCSwap` set every amount of a small pool against a reserve wide
  enough to show one unit of the power, so a rounding that errs at one grid point
  only is seen.
- `MCDifferential` keeps three widths apart, as the code does: a grid of three
  fraction bits, fixtures of five, truths of seven. Results reach from more than
  the bound below 0 to more than the bound above 1. Amounts of its trades lie on both sides of every bound a
  sensitivity gives, and a sensitivity is one past the word.
- `MCParity` has four-bit words, so that a value still takes four limbs and a
  cycle delta two; ops with one, two and five arguments occur, batches of one,
  two and three cases, and two wrong answers (in one batch or in two).
- `MAX_TRADES = 3` lets a trade in either direction follow one in the other and
  a third one collect.

`CHECK_DEADLOCK FALSE` is set where the models stop as the program does: after a
panic, after the one call of `WideCalls` and `SwapCalls`, and at the bounds of
`Pool` and `FixedCalls`. `Parity` is checked for deadlock: host and guest always
reach a verdict, after which the process has exited.

Fairness: `WF_vars(Step)` in `PowSteps` says that a call under way is executed
to its end. The kernel is a sequential function that waits for nothing, so a
started call can only fail to proceed if the processor stops. Callers owe
nothing: `Ask` and `Resume` are not fair.

Each property has a fault of the code that breaks it, listed under `mutants`:
the definitions introduced by a comment `Fault:` are those, and are used
nowhere else.

## What the runs found

1. **`mul_shr_up` can wrap.** `wide.rs:39` adds the rounding carry after the fit
   assert. If the floor is `2^128 - 1` and bits were discarded, the sum is
   `2^128`: a panic under `overflow-checks`, a wrap to 0 without.
   `docs/overflow-proof.md:67-71` argues that the `+ 1` cannot wrap because
   the floor is below the ceiling, which is below `2^128`; but the assert only
   bounds the floor, and for the payment of `calc_in_given_out` a ceiling of
   exactly `2^128` is not excluded. The same document says (lines 23-25) that its
   argument does not lean on `overflow-checks`. With them on, `CeilingExact`
   holds and is proved.
2. **The pre-shift's cost is not a relative `2^-73`.** `weighted.rs:160-161`.
   The bias adds one unit of `num >> excess`, which is `2^excess/num` relative:
   small against the *denominator*, unbounded against a small numerator. In
   units of the quotient it stays below two ulps (`RatiosBiased`), which is what
   the trade needs.

3. **The grader's ceiling is the ceiling of a floor.** `lib.rs:176`.
   `q_to_scale_bounds` is given `floor(value * 2^qbits)` and rounds *that* up, so
   a reference whose remaining bits lie below `2^-qbits` gets a ceiling below
   itself, and a `pow_up` that is less than the reference passes, where
   `docs/adr/0001-test-harness-architecture.md:56-58` has it fail regardless of
   magnitude. What is missed is less than one `2^-qbits`
   (`DirectionNeverMissed` holds with that slack), and only at references that
   near a grid point: `pow.json` has one, about `8e-1193`, stored as 0.

Smaller divergences met while modelling. The band checks measure from the grid's
floor or ceiling and allow `bound_ulps() = 1 + BUDGET_ULPS`, so an accepted
result may be almost `bound_ulps() + 1` ulps from the reference, although the ADR
counts the grid's own ulp into `BOUND` (`AcceptedIsClose` states the distance
that does hold). `docs/error-analysis.md` counts half an ulp for the one division
of `ln_inner`, which truncates (one ulp). The guest's header speaks of an op-10
baseline, its dispatch has op 9. `weighted.rs:131` and ADR 0006 give `0.7^99` as
`2^-50.6`, `docs/overflow-proof.md` as `2^-50.9`, which is right. The repository's profiles turn
`overflow-checks` on, so the wrap of finding 1 needs a foreign profile.

## What is proved

`tlapm` checks these for every value of the constants that meets the assumptions,
among them the kernel's own 128-bit word.

| Theorem | Of | Says |
|---|---|---|
| `WideTypes` | `WideCalls` | both shifted forms answer a word or one of their two panics |
| `WideProductExact` | `WideCalls` | the limb product with its two recorded carries is the exact product |
| `WideFloorExact` | `WideCalls` | `mul_shr` is the exact floor, and panics exactly when that is no word |
| `WideCeilingExact` * | `WideCalls` | `mul_shr_up` is the exact ceiling or a panic |
| `TypesHold` | `PowSteps` | every local stays in its type |
| `DebugAssertsNeverFire` | `PowSteps` | no `debug_assert` of `pow.rs` can fire |
| `PipelineNeverOverflows` | `PowSteps` | no product, sum, shift or cast of the pipeline leaves its 128-bit type |
| `InDomainNeverPanics` | `PowSteps` | a call inside the domain returns |
| `ReturnsInRange` | `PowSteps` | every result is in the range its entry point documents |
| `OneCorrection` | `PowSteps` | the range reduction is corrected at most once, in one direction |
| `StepsAnswerCalls` | `PowSteps` | the step part of the refinement of `PowCalls`: a call is answered with the value of the functions of `Pow`, or refused |
| `ExpFormsClose` | `PowSteps` | `exp` and `expm1` agree to one ulp, across the saturation bound |
| `PowersNearlyMonotone` | `PowSteps` | one unit more of the exponent or less of the base never raises `pow_down` by more than an ulp |
| `PowDownOrdered` | `Pow` | nor does any larger exponent with any smaller base |
| `ChainTypes`, `ChainPanics` * | `FixedCalls` | ends stay in the representation, and only the contracts' cases panic |
| `ChainRounded` * | `FixedCalls` | each wrapper is the exact floor, ceiling or saturated complement |
| `ChainBrackets` * | `FixedCalls` | a chain of any length brackets the exact number |
| `RatioUpBiased`, `RatioDownBiased` | `Weighted` | either ratio errs to the pool's side by less than two ulps, pre-shift included |
| `RatiosFavourPool` | `SwapCalls` | so does the referee's comparison in numbers of any size find it, on every quote |
| `ExactInNeverPanics` | `Weighted` | inside its envelope `calc_out_given_in` never panics |
| `ExactOutMeetsDomain` | `Weighted` | inside its envelope `calc_in_given_out` never trips an assert of `pow` (at two fraction bits or more) |
| `PanicsAreEnvelope` | `SwapCalls` | inside the envelope only a payment past the word panics: the underflow assert of `calc_in_given_out` and the domain asserts of `pow` are dead code |
| `FuzzInputsPay` | `SwapCalls` | what the fuzz target shapes meets every assert, and so does any exact-out amount within the caps, at any balance |
| `QuotesMonotone` * | `SwapCalls` | another unit paid in never pays less, another unit bought never costs less |
| `ExactInMonotone` | `Weighted` | a larger payment, of any size inside the envelope, never buys less |
| `ExactOutMonotone` * | `Weighted` | where a purchase is priced, every smaller one is priced too, at no more |
| `CurveKept` * & | `SwapCalls` | no priced trade lowers the curve value, as the referee compares it |
| `SessionTypes`, `SessionsLeaveReserves` | `Pool` | no session, of any length, empties a reserve or takes one past the word |
| `SwapsPay` * | `Pool` | a swap that lowers one reserve raises the other |
| `SessionsGainNothing` * & | `Pool` | no session, of any length, leaves the pool with less of one token and no more of the other |
| `GatesKeepDirection` | `Differential` | no gate accepts a result on the fund-leak side |
| `ArithmeticTestExact` | `Differential` | the arithmetic test passes exactly the correctly rounded answers |
| `AlarmsAreFaults`, `AcceptedResultsClose` + | `Differential` | a sound answer is never refused, and an accepted one is as close as the bounds say |
| `TypeCorrect`, `Framing` | `Parity` | what the guest has not read is the encoding of the cases it has not answered, and nothing is left over |
| `Sound`, `Complete` | `Parity` | the run passes only if every answer of the guest is the host's, and fails only if one is not or a case panics |
| `Sessions` | `Parity` | the median case of every op is filled when the single-call sessions start |

(*) assumes a build with overflow checks, as the repository's profiles are: without
them finding 1 refutes the statement. (+) assumes fixtures finer than the grid
(`QBITS > SCALE`; they have 128 and 116 bits against 52): at equal widths the
ceiling of an exact truth is a step above it, and an exact `pow_up` is refused.
(&) assumes `PowersFavourPool`: at every base of the grid and every exponent,
`pow_62_down` is at most the power and `1 - one_minus_pow_62` at least it, stated in
whole numbers as `p^ONE * ONE^e <= ONE_62^ONE * b^e`. This is what
`docs/error-analysis.md` derives over the reals for the tables of the source; it is
a fact of their values that cannot be proved here. The `pow_accuracy` run checks it
(`SwapFormsFavourPool`) at every base against exponents that are quarters, the
`swap_quotes` and `pool_sessions` runs check the two conclusions without it.

**wide.** `Schoolbook` is the identity of the four partial products, `Carry` what
`overflowing_add` records, `MulWideExact` the sum of both. The shifted forms
follow from `DivisionUnique`. `WideInv` says that an answered call holds what the
operators return, so each theorem is one step from its lemma. The width is any
even number; the assumption on `2^n` is its recurrence, which the provers do not
know.

**pow, the steps.** The properties are not inductive: that `acc * u` fits at the
tenth iteration of a Horner loop follows from a bound on `acc` which nothing in the
property mentions. `IInv` adds, for each stage, what the code's author relied on:

- while normalising, `m >= GUARD * 2^k`, and `m <= 1` before the first doubling
  (`Normalising`): so `k <= SCALE`, and the loop leaves with `m` in
  `[sqrt(2)/2, sqrt(2))`;
- over that window `|t| <= 1/5` and `u <= 1/25` (`LnRanges`, lemma `AtanhBound`),
  so the logarithm's partial sums stay below a fixed bound (`LnSumming`, lemma
  `AtanhHorner`); `t <= 0` when nothing was doubled and `t >= 0` after `SCALE`
  doublings keep `-ln x` within 0 and `SCALE * ln 2` at both ends;
- in the reduction `neg = k * ln 2 + s` (`Reducing`) with `s` less than one
  `ln 2` outside `[0, ln 2)` (`ExpRanges`, lemma `EstimateLands`), and no longer
  negative once the first loop is left: over the whole envelope the rounding of the reciprocal costs less than one multiple;
- each partial sum of the exponential has the sign of its coefficient and is no
  larger (`ExpSumming`, lemma `ExpHornerAlternates`), so the last one lies
  between 0 and 1;
- what is returned is in range (`Returned`), for each entry point's own pad,
  clamp and rounding.

`Invariant` proves `Spec => []IInv`, one lemma per group of actions; each
property is then a lemma `IInv => ...`. The assumptions on the constants used here
are sizes, not values: `1/2 <= ln 2 <= 7/10`, `2/3 <= sqrt(2)/2 <= 3/4`, logarithm
coefficients at most one, exponential coefficients that alternate and shrink by
more than 7/10, an envelope that holds the largest argument, and a reciprocal
precise enough for it.

**pow, the functions.** What callers use is not a step but a value, so the bounds
are carried over to the recursive functions of `Pow`. `HornerUnfolds` says that
`Horner` is the first of a sequence of partial sums, each one step from the next;
it is proved by a least counterexample over the natural numbers, in place of an
induction, and so are the bounds on the sums (`AtanhHornerSum`, `ExpHornerSum`).
`Computes` then says, stage by stage, which value of those functions the locals
hold: the mantissa after `k` doublings, the partial sum from coefficient `i + 1`
on, the argument of `exp_inner`. It is inductive together with `IInv`;
`FirstReached` makes the number of doublings the one `Doublings` chooses, and the
remainder in `[0, ln 2)` makes the corrected estimate the quotient. From it,
`StepsAnswerCalls` maps every action to a step of `PowCalls` or to a stutter;
the lemmas `Same...` equate the definitions that the instance has by its own
names. The other half of `RefinesPowCalls`, that every call is answered, is
fairness and is model-checked.

**pow, how the functions vary.** `PowersNearlyMonotone` is about two runs of the
pipeline, and no line of it makes it monotone: every step of a Horner loop truncates,
and both range reductions start over at their seams.

- *exp within a window.* The difference of two alternating sums is bounded by the
  first terms of a series that alternates and shrinks as well: `ExpSlope` follows it
  coefficient by coefficient, roundings included. So `exp_inner` of a larger argument
  may exceed that of a smaller one by the roundings, at most 5 units of `2^-62`
  (`ExpNearlyFalls`), and not at all where the arguments are at least 5 units apart
  and at least 30 for every 1.0 of the smaller one (`ExpFalls`).
- *exp across windows.* Where the reduction takes off one more `ln 2`, the halved sum
  at 0 has to come after the sum just below `ln 2`.
- *ln within a window.* The atanh argument steps with the mantissa (`AtanhSteep`), and
  the series follows it by more than its roundings lose (`MantissaLnSteep`).
- *ln across windows.* Where one more doubling starts, the largest mantissa of one
  window meets the least of the next (`SeamGap`). Together, each step of the base
  moves `-ln x` by at least `GUARD - 4` units (`LnFalls`).
- *Both.* Anything that grows the argument product lowers the power to within 5 units
  (`PowNearlyOrdered`), which is less than the ulp that `pow_down` rounds to
  (`PaddedFollows`).

What the two seams need is `SeamAssumption`, which unlike the others is about values:
that the tables and `ln 2` belong together to within a unit and an ulp.

**fixed.** `IInv` of `FixedCalls` is the conjunction of the four properties, with the
types of the exact fraction. A step that brackets needs the sign of all five
numbers and one cross-multiplication per end; `MultiplyKeeps`, `DivideKeeps` and
`ComplementKeeps` are those.

**weighted.** `PowersInRange` bounds the padded powers by less than
one whatever the tables say, because both pads are positive. A payout is a
share of the reserve smaller than one (`PayoutBelowReserve`), a withdrawal at
most three tenths of it (`DrainLeavesSome`), a payment at least one
(`PaymentIsPositive`). The ratios need the pre-shift: `ExcessPrecise` says how many
bits are dropped and how many remain, `PreShift` what that costs, and the
result is a bound in ulps, where finding 2 refutes the one in the comment.

**a quote.** The invariant of `SwapCalls` is `QuoteInv`: the request is well formed,
a fuzz request is some raw trade `Shaped`, and a known outcome is the kernel's answer
to that request. The properties are then about the two functions.

- *The underflow assert* (`PanicsAreEnvelope`). The base is at least
  `LeastBase`, seven tenths less two ulps (`BaseAtLeast`). Its logarithm is at most
  `GreatestLn`: above one the series is at least `2 t` (`LnAboveOne`), below it at
  least `2.1 t` (`LnBelowOne`), and the atanh argument grows with the mantissa
  (`AtanhGrows`). So the exponential divides by `2^k` at most, and a Horner sum of at
  least 3/10, shifted by `k`, is above the pad (`PowAbovePad`). What the constants
  have to satisfy is `UnderflowAssumption`; `k` is 51 for the source.
- *The fit of a payment* (`FuzzInputsPay`). Within `cap_fit` the exponent times the
  fraction drained is at most a quarter. `-ln x` is at most 63/50 of `1 - x` there
  (`LnBelowComplement`), so the argument at most `FitArg`, about 0.315; the
  exponential is at least `1 - 13/15 s` (`ExpHornerChord`), so the power at least a
  half and the pad (`FitPower`), and the payment at most the reserve (`HalfPays`).
  `FitAssumption` are the inequalities on the constants.
- *The referee's arithmetic* (`RatiosFavourPool`, `CurveKept`). `Denotes(x, n)` says
  that a list of digits is the number `n`, by its partial values; `TimesDenotes`,
  `ToTheDenotes`, `BigDenotes` and `NotAboveDenotes` say that the operators of `BigNat`
  compute products, powers, conversions and comparisons of the numbers denoted. So
  no claim about a comparison rests on the representation, and the same operators
  that TLC evaluates are the ones the theorems speak of.
- *The curve* (`CurveKept`). `Raised(m, n)` is the power as a number, with its laws
  (`RaisedSum`, `RaisedProduct`, `RaisedTwice`, `RaisedStrict`, `Root`), each by a least
  counterexample. `OutTrade` and `InTrade` chain the five roundings of a trade: raise
  the biased ratio to the exponent, cancel it against the power's inequality, raise the
  floored payout (`PayoutLeaves`) or the ceiled payment (`PaymentCovers`), absorb the
  rounding of the exponent, and take the `ONE`-th root. `OutKeepsCurve` and
  `InKeepsCurve` apply them to the two functions, early returns included.
- *One unit more* (`QuotesMonotone`). The denominator of `ratio_up` may reach the width
  at which it is shifted by one more bit, with a new bias on the numerator:
  `ExcessNext` says that this denominator is a power of two, and one unit more in the
  bits kept makes up for the bias there (`RatioUpFalls`); `RatioDownGrows` is the other ratio,
  whose denominator stays. Then the 5 units by which a power may rise have to vanish:
  the least exponent, `1/MAX_RATIO`, still stretches one step of the logarithm to
  more than 5 units (`SlopeAssumption`, `ExponentSteep`), so at equal exponents the
  power grows with its base with nothing to allow for (`PowRises`), and pads, clamps,
  quotient and product keep the order (`PaddedGrows`, `PayoutGrows`, `PaymentGrows`).
  The step to any two amounts is a least counterexample (`ExactInMonotone`,
  `ExactOutMonotone`).

**the pool.** `IInv` says that the reserves are words and at least one, and what a
swap moves is within them. `NoFreeSession` is not inductive: after a swap one reserve
is lower, and nothing in the property says what a swap back may take. `SessionInv`
adds that the pool has its initial reserves or a curve value no less than the
initial one (`Gained`); TLC finds it invariant on the sessions of `MCPool`,
`SwapGains` proves each swap keeps it, and `LossShows` that reserves which only fell
have less curve value.

**the zkVM runner.** `IInv` of `Parity_proofs` has four parts: `Typed`; `Stages`, what
the input, the journal and the batch hold at each line (the encoding of the cases left,
and the records of those answered); `Compared`, the mismatches of the batches already
compared; `Verdicts`, when the run has ended. Encoding a word in four limbs and joining
them again is the identity (`Limbs`, `u128_of`), a record is six words, and the
flattened encoding of a batch splits at each case; these are proved for lists of any
length, again by least counterexample. The assumptions on the suite are what `main` builds:
at most one batch for an op, none empty or longer than its header can say, and one for
every single call.

**the differential tests.** `Differential`'s invariant is stage by stage as well:
between `quantize` and `grade` the grid is the floor and ceiling of the stored truth,
after `grade` the verdict is that of the exact difference, and a judged trade
has the verdict of its exact loss, saturated sums included (`ExactBound`). The
arithmetic test's own double-width product is proved exact for it, separately
from `wide.rs`, with which it shares no code.

Only model-checked, and why:

- `CallsEnd` and the fairness of `RefinesPowCalls`: liveness.
- `PadsCoverTheError`, `SwapFormsFavourPool` and `NoCoarserThanPad` compare with the
  real power. They hold for the values of the coefficients, not for their sizes,
  and a proof would be the error analysis of `docs/error-analysis.md` over the
  reals. `QuotesTight` bounds a trade from the other side, where the roundings add up
  instead of being absorbed: besides `NoCoarserThanPad` it needs how far a real power
  moves with its base and its exponent.
- `CurveKept` and `SessionsGainNothing` without `PowersFavourPool`, for the first
  reason.

## Not modelled

- `oracle/gen.py` computes fixtures with mpmath; there is no state in it, and its
  numbers are what `Differential` takes as truths.
- `balancer-ref/` captures the output of third-party Solidity code once; the test
  that compares with it looks numbers up in a table, and `measure_error_margins`
  prints a histogram.
- Fixture loading, JSON, the printed cycle tables and the criterion of the
  division benchmark: I/O and layout. `user_cycles`, `total_cycles` and
  `segments` come from the executor and are only printed.
- The random choice of the generators: the properties they sample are checked over
  complete sets here. What shapes the choice, the cap that keeps an exact-out
  payment representable, is `cap_fit` in `SwapCalls`.
- The guest's `cycle_count` is a choice from a set, and the executor's own
  failures (other than a guest panic) are left out.

## Plan

Done: the kernel (`wide`, `fixed`, `pow`, `weighted`), the pool above it, the
differential tests with their economic gates, the fuzz target and the zkVM runner;
the numbers of the source evaluated; the theorems above, which state every invariant
of the runs except the liveness, `QuotesTight` and the three that compare with real
powers. Left, in order:

1. The error analysis of the kernel in whole numbers, from which `PowersFavourPool`
   would follow for the tables of the source instead of being assumed.
2. The sweep of `swap_quotes` at a second scale.
