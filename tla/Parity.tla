-------------------------------- MODULE Parity ------------------------------
(***************************************************************************)
(* zkvm/methods/guest/src/main.rs and zkvm/host/src/main.rs: the host runs *)
(* batches of kernel calls in the guest over a stream of raw words, checks *)
(* every answer against its own call, and then runs one case of some ops   *)
(* alone.  The kernel is a constant: the protocol must carry any function. *)
(***************************************************************************)
EXTENDS Integers, FiniteSets, SequencesExt

CONSTANTS Kernel(_, _),    \* what a call of op with these arguments returns
          Panics(_, _),    \* whether it panics instead
          WORD_BITS,       \* bits of a word: 32
          Suites,          \* the sequences of batches the fixtures may hold
          CycleDeltas,     \* what two reads of cycle_count may be apart
          MAX_WRONG        \* how many answers a bad guest build gets wrong

Op == 0 .. 9
SingleCalls == <<3, 6, 7>>
ArgsOf(op) == IF op \in {0, 1, 2, 9} THEN 1 ELSE IF op \in {6, 7} THEN 5 ELSE 2

BASE == 2^WORD_BITS
Word == 0 .. BASE - 1
U64 == 0 .. BASE * BASE - 1
U128 == 0 .. BASE * BASE * BASE * BASE - 1

Limbs(v) == <<v % BASE, (v \div BASE) % BASE, (v \div (BASE * BASE)) % BASE,
              (v \div (BASE * BASE * BASE)) % BASE>>

\* A word holds an op, and a delta is a u64.
ASSUME WordAssumption ==
  WORD_BITS \in Nat /\ BASE \in Nat /\ BASE > 9 /\ CycleDeltas \subseteq U64

\* Each op has one batch, of at least one case and no more than its header
\* counts; what is run alone has a batch.
ASSUME SuitesAssumption ==
  \A tests \in Suites :
    /\ tests \in Seq([op : Op, cases : Seq(Seq(U128))])
    /\ \A n \in DOMAIN tests :
         /\ Len(tests[n].cases) \in 1 .. BASE - 1
         /\ \A c \in Range(tests[n].cases) : Len(c) = ArgsOf(tests[n].op)
    /\ \A op \in Range(SingleCalls) : \E n \in DOMAIN tests : tests[n].op = op
    /\ \A n, k \in DOMAIN tests : tests[n].op = tests[k].op => n = k

\* An answer is a u128.
ASSUME KernelAssumption ==
  \A tests \in Suites : \A n \in DOMAIN tests : \A c \in Range(tests[n].cases) :
    ~Panics(tests[n].op, c) => Kernel(tests[n].op, c) \in U128

VARIABLES suite, wrong,     \* the batches; the <<op, case>> the guest gets wrong
          pc,               \* "host", "header", "guest", "collect", "compare" or a verdict
          next,             \* the job to run next: a batch, then a single call
          input, journal,   \* the words still to be read, and those committed
          guest,            \* the guest's op and how many cases it has left
          batch,            \* the outputs and cycles the host decoded
          mismatches,       \* answers that differed so far
          median_case       \* per op, the case of median cost

vars == <<suite, wrong, pc, next, input, journal, guest, batch, mismatches, median_case>>
config == <<suite, wrong>>
NoGuest == [op |-> 0, left |-> 0]
NoBatch == [outputs |-> <<>>, cycles |-> <<>>]

\* What the suite runs: every case of every batch, with its op.
Tested == UNION {{<<b.op, c>> : c \in Range(b.cases)} : b \in Range(suite)}

Jobs == Len(suite) + Len(SingleCalls)
Job(n) == IF n <= Len(suite) THEN suite[n]
          ELSE LET op == SingleCalls[n - Len(suite)]
               IN  [op |-> op, cases |-> <<median_case[op]>>]
-----------------------------------------------------------------------------
(***************************************************************************)
(* The words on the wire.                                                  *)
(***************************************************************************)
\* Fault: a trade's four balances and weights are read, its amount is not.
words_for_short(op) == IF op \in {6, 7} THEN 16 ELSE 4 * ArgsOf(op)

words_for(op) == CASE op \in {0, 1, 2, 9} -> 4
                   [] op \in {3, 4, 5, 8} -> 8
                   [] op \in {6, 7}       -> 20

\* Two words and four, low to high, as the integer they are.
u64_of(w) == w[1] + w[2] * BASE
u128_of(w) == w[1] + w[2] * BASE + w[3] * (BASE * BASE) + w[4] * (BASE * BASE * BASE)

\* Fault: the limbs are taken high to low.
u128_at_reversed(words, i) == u128_of(Reverse(SubSeq(words, 4 * i + 1, 4 * i + 4)))

u128_at(words, i) == u128_of(SubSeq(words, 4 * i + 1, 4 * i + 4))

\* run_guest's encoding of a batch.
Encoded(op, cases) ==
  <<op, Len(cases)>> \o FlattenSeq([n \in DOMAIN cases |->
                          FlattenSeq([j \in DOMAIN cases[n] |-> Limbs(cases[n][j])])])

\* Fault: the low word of the delta only.
Record_narrow(result, delta) == Limbs(result) \o <<delta % BASE, 0>>

Record(result, delta) == Limbs(result) \o <<delta % BASE, delta \div BASE>>

\* run_guest's reading of the journal, in chunks of six words.
Decoded(words) ==
  LET chunks == 1 .. Len(words) \div 6
  IN  [outputs |-> [n \in chunks |-> u128_of(SubSeq(words, 6 * n - 5, 6 * n - 2))],
       cycles  |-> [n \in chunks |-> u64_of(SubSeq(words, 6 * n - 1, 6 * n))]]

\* sort_unstable: the deltas in some ascending order.
Ascends(cycles, order) ==
  \A i, j \in DOMAIN cycles : i < j => cycles[order[i]] <= cycles[order[j]]

sorted(cycles) ==
  LET order == CHOOSE p \in Bijection(DOMAIN cycles, DOMAIN cycles) : Ascends(cycles, p)
  IN  [n \in DOMAIN cycles |-> cycles[order[n]]]

\* Fault: the mean of the two middle ones, as a median is also defined.
median_mean(cycles) ==
  LET all == sorted(cycles)
  IN  (all[(Len(cycles) + 1) \div 2] + all[Len(cycles) \div 2 + 1]) \div 2

\* stats: the element in the middle of the sorted deltas.
median(cycles) == sorted(cycles)[Len(cycles) \div 2 + 1]
-----------------------------------------------------------------------------
(***************************************************************************)
(* The host starts a guest; the guest reads its cases one by one.          *)
(***************************************************************************)
Init == /\ suite \in Suites
        /\ wrong \in {w \in SUBSET Tested : Cardinality(w) <= MAX_WRONG}
        /\ pc = "host" /\ next = 1 /\ guest = NoGuest /\ batch = NoBatch
        /\ input = <<>> /\ journal = <<>>
        /\ mismatches = 0 /\ median_case = [op \in Op |-> <<>>]

StartGuest ==
  /\ pc = "host" /\ next <= Jobs
  /\ pc' = "header"
  /\ input' = Encoded(Job(next).op, Job(next).cases) /\ journal' = <<>>
  /\ UNCHANGED <<config, next, guest, batch, mismatches, median_case>>

ReadHeader ==
  /\ pc = "header"
  /\ pc' = "guest"
  /\ guest' = [op |-> input[1], left |-> input[2]] /\ input' = SubSeq(input, 3, Len(input))
  /\ UNCHANGED <<config, next, journal, batch, mismatches, median_case>>

\* The arguments of the guest's next case.
CaseRead == [i \in 1 .. words_for(guest.op) \div 4 |-> u128_at(input, i - 1)]

\* The read runs into the end of the input, or the call panics.
Aborts == \/ Len(input) < words_for(guest.op)
          \/ /\ Panics(guest.op, CaseRead)
             /\ <<guest.op, CaseRead>> \notin wrong

\* A wrong build answers with some other value.
GuestAnswer(op, args) ==
  IF <<op, args>> \in wrong
  THEN IF Panics(op, args) THEN 0 ELSE (Kernel(op, args) + 1) % (BASE * BASE * BASE * BASE)
  ELSE Kernel(op, args)

DispatchCase ==
  /\ pc = "guest" /\ guest.left > 0 /\ ~Aborts
  /\ \E delta \in CycleDeltas :
       journal' = journal \o Record(GuestAnswer(guest.op, CaseRead), delta)
  /\ input' = SubSeq(input, words_for(guest.op) + 1, Len(input))
  /\ guest' = [guest EXCEPT !.left = @ - 1]
  /\ UNCHANGED <<config, pc, next, batch, mismatches, median_case>>

\* The executor reports the guest's panic, and `?` ends the host.
GuestAborts ==
  /\ pc = "guest" /\ guest.left > 0 /\ Aborts
  /\ pc' = "failed"
  /\ UNCHANGED <<config, next, input, journal, guest, batch, mismatches, median_case>>

GuestEnds ==
  /\ pc = "guest" /\ guest.left = 0
  /\ pc' = "collect" /\ guest' = NoGuest
  /\ UNCHANGED <<config, next, input, journal, batch, mismatches, median_case>>
-----------------------------------------------------------------------------
(***************************************************************************)
(* The host takes the journal, compares a batch, and gives its verdict.    *)
(***************************************************************************)
Collect ==
  /\ pc = "collect"
  /\ IF Len(journal) = 6 * Len(Job(next).cases)
     THEN /\ pc' = IF next <= Len(suite) THEN "compare" ELSE "host"
          /\ batch' = IF next <= Len(suite) THEN Decoded(journal) ELSE NoBatch
          /\ next' = IF next <= Len(suite) THEN next ELSE next + 1
     ELSE pc' = "failed" /\ UNCHANGED <<batch, next>>
  /\ input' = <<>> /\ journal' = <<>>
  /\ UNCHANGED <<config, guest, mismatches, median_case>>

FirstOfMedianCost(cases, cycles) ==
  LET found == {n \in DOMAIN cases : cycles[n] = median(cycles)}
  IN  IF found = {} THEN <<>> ELSE cases[CHOOSE n \in found : \A k \in found : n <= k]

HostPanics(op, cases) == \E c \in Range(cases) : Panics(op, c)
Differing(op, cases, outputs) == {n \in DOMAIN cases : outputs[n] # Kernel(op, cases[n])}

\* Fault: the count starts again with every batch.
Recounted(before, differing) == differing

Counted(before, differing) == before + differing

Compare ==
  /\ pc = "compare"
  /\ LET op == suite[next].op
         cases == suite[next].cases
     IN  IF HostPanics(op, cases)
         THEN pc' = "failed" /\ UNCHANGED <<next, batch, mismatches, median_case>>
         ELSE /\ pc' = "host" /\ next' = next + 1 /\ batch' = NoBatch
              /\ mismatches' = Counted(mismatches, Cardinality(Differing(op, cases, batch.outputs)))
              /\ median_case' =
                   [median_case EXCEPT ![op] = FirstOfMedianCost(cases, batch.cycles)]
  /\ UNCHANGED <<config, input, journal, guest>>

GiveVerdict ==
  /\ pc = "host" /\ next > Jobs
  /\ pc' = IF mismatches > 0 THEN "failed" ELSE "passed"
  /\ UNCHANGED <<config, next, input, journal, guest, batch, mismatches, median_case>>

Exited == pc \in {"passed", "failed"} /\ UNCHANGED vars

Next == \/ StartGuest \/ ReadHeader \/ DispatchCase \/ GuestAborts \/ GuestEnds
        \/ Collect \/ Compare \/ GiveVerdict \/ Exited

Spec == Init /\ [][Next]_vars
-----------------------------------------------------------------------------
(***************************************************************************)
(* Properties.                                                             *)
(***************************************************************************)
\* Every word on the wire fits a word, every count its header, and what the
\* host decodes fits the types it is read as.
TypeOK ==
  /\ suite \in Suites /\ next \in 1 .. Jobs + 1
  /\ pc \in {"host", "header", "guest", "collect", "compare", "passed", "failed"}
  /\ Range(input) \subseteq Word /\ Range(journal) \subseteq Word
  /\ guest.op \in Op /\ guest.left \in Word
  /\ Range(batch.outputs) \subseteq U128
  /\ Range(batch.cycles) \subseteq CycleDeltas
  /\ mismatches \in Nat

\* Host and guest agree where one case ends and the next begins: what the
\* guest has not read is the encoding of the cases it has not answered, and
\* nothing is left over when it ends (words_for against run_guest's pushes).
FramingAgrees ==
  LET cases == Job(next).cases
  IN  /\ pc = "guest" =>
           /\ guest.left <= Len(cases)
           /\ <<guest.op, guest.left>> \o input =
                Encoded(Job(next).op, SubSeq(cases, Len(cases) - guest.left + 1, Len(cases)))
      /\ pc = "collect" => input = <<>>

\* The cases a batch of the suite runs that the guest gets wrong, or on which
\* the kernel panics.
BadCases == {t \in Tested : t \in wrong \/ Panics(t[1], t[2])}

\* "all outputs bit-identical host vs guest" is said only when they are: one
\* wrong answer in any batch, or one panic, makes the run fail.
VerdictSound == pc = "passed" => BadCases = {}

\* The host fails no sound guest: a failed run had a wrong answer or a panic,
\* in whatever way words were cut, decoded and compared.
VerdictComplete == pc = "failed" => BadCases # {}

\* The whole-session cost of an op is measured on a case of its own batch:
\* the median delta is one of the deltas, so median_case was filled.
SessionsHaveCases ==
  next > Len(suite) =>
    \A op \in Range(SingleCalls) :
      \E b \in Range(suite) : b.op = op /\ median_case[op] \in Range(b.cases)
=============================================================================
