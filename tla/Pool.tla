-------------------------------- MODULE Pool --------------------------------
(***************************************************************************)
(* A weighted pool that prices every swap with the kernel and moves the    *)
(* amounts it returns.  The pool program is not in the repository: this is *)
(* the use that README.md, ADR 0006 and ADR 0007 design the kernel for.  A *)
(* panic of the kernel aborts the transaction and leaves the pool as it    *)
(* was.                                                                    *)
(***************************************************************************)
EXTENDS Weighted

CONSTANTS Pools,      \* initial pools, as [reserve, weight] of both tokens
          Amounts,    \* amounts the traders ask for
          MAX_TRADES  \* bound on the length of a trading session

Tokens == {"A", "B"}

ASSUME PoolsAssumption ==
  /\ \A p \in Pools : /\ p.reserve \in [Tokens -> U128]
                      /\ p.weight \in [Tokens -> U128]
                      /\ \A z \in Tokens : p.reserve[z] >= 1
  /\ Amounts \subseteq U128
  /\ MAX_TRADES \in Nat

VARIABLES reserve, weight,   \* of either token
          start,             \* the reserves the session began with
          trades             \* swaps made so far

vars == <<reserve, weight, start, trades>>

Init == /\ \E p \in Pools : reserve = p.reserve /\ weight = p.weight
        /\ start = reserve
        /\ trades = 0

Other(token) == IF token = "A" THEN "B" ELSE "A"

Move(token, paid_in, paid_out) ==
  /\ trades < MAX_TRADES /\ trades' = trades + 1
  /\ reserve' = [reserve EXCEPT ![token] = @ + paid_in,
                                ![Other(token)] = @ - paid_out]
  /\ UNCHANGED <<weight, start>>

\* A trader pays an amount of token and takes what it buys.
SwapGivenIn(token, amount) ==
  LET to == Other(token)
      out == calc_out_given_in(reserve[token], weight[token],
                               reserve[to], weight[to], amount)
  IN  ~Panicked(out) /\ Move(token, amount, out.value)

\* A trader takes an amount and pays its price in token.  The token program
\* refuses a transfer past the word.
SwapGivenOut(token, amount) ==
  LET to == Other(token)
      in == calc_in_given_out(reserve[token], weight[token],
                              reserve[to], weight[to], amount)
  IN  /\ ~Panicked(in) /\ reserve[token] + in.value \in U128
      /\ Move(token, in.value, amount)

Next == \E token \in Tokens, amount \in Amounts :
          SwapGivenIn(token, amount) \/ SwapGivenOut(token, amount)

Spec == Init /\ [][Next]_vars
-----------------------------------------------------------------------------
TypeOK ==
  /\ reserve \in [Tokens -> U128] /\ weight \in [Tokens -> U128]
  /\ start \in [Tokens -> U128] /\ trades \in 0 .. MAX_TRADES

(***************************************************************************)
(* No session of swaps empties a reserve, so the kernel's "empty reserve"  *)
(* assert never bars a pool from trading.                                  *)
(***************************************************************************)
ReservesNeverEmpty == \A z \in Tokens : reserve[z] >= 1

(***************************************************************************)
(* No session is a gain for the traders together: the pool never holds     *)
(* less of one token than it began with without holding more of the other, *)
(* whatever swaps in whichever directions came between.                    *)
(***************************************************************************)
NoFreeSession ==
  (\A z \in Tokens : reserve[z] <= start[z]) => reserve = start

(***************************************************************************)
(* A swap with something to take never only takes: one that lowers a       *)
(* reserve raises the other one.                                           *)
(***************************************************************************)
EverySwapPays ==
  [][\A z \in Tokens : reserve'[z] < reserve[z] =>
                       reserve'[Other(z)] > reserve[Other(z)]]_vars
=============================================================================
