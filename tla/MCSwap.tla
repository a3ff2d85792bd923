------------------------------- MODULE MCSwap -------------------------------
(***************************************************************************)
(* Quotes over a 28-bit word: reserves from one wei to the whole word on   *)
(* both sides of the pre-shift bound 2^19, weight pairs at and past the    *)
(* ratio 11, amounts at the caps and around them.                          *)
(***************************************************************************)
EXTENDS SwapCalls

MCAtanh == <<8192, 2731, 1638, 1170>>
MCExp == <<8192, -8192, 4096, -1365, 341, -68, 11, -2>>

Reserves == {0, 1, 3, 10, 1000, 524287, 524288, 1000003, WORD - 1}
WeightPairs == {<<1, 1>>, <<1, 2>>, <<3, 1>>, <<2, 3>>, <<1, 11>>, <<11, 1>>,
                <<1, 12>>, <<7, 9>>, <<0, 1>>}

AmountsIn(b) ==
  <<0, 1, 2, 7, b \div 128, b \div 100, b \div 10, b \div 2, b,
    3 * AtMost(b, 20000000), 11 * AtMost(b, 20000000), WORD - 1 - b, WORD - AtLeast(b, 1)>>

AmountsOut(b) ==
  <<0, 1, 2, b \div 128, b \div 44, b \div 20, b \div 10, b \div 4,
    DrainCap(b), AtMost(DrainCap(b) + 1, WORD - 1)>>

\* A quote by its function, reserves, weights and amount: one of the listed
\* amounts, or, from 100 on, the amount n - 100.
Quote(fn, bi, bo, w, n) ==
  [fn |-> fn, balance_in |-> bi, weight_in |-> w[1],
   balance_out |-> bo, weight_out |-> w[2],
   amount |-> IF n >= 100 THEN n - 100
              ELSE IF fn = "out_given_in" THEN AmountsIn(bi)[n] ELSE AmountsOut(bo)[n]]

Corners(fn, count) == {fn} \X Reserves \X Reserves \X WeightPairs \X (1 .. count)

\* Every amount of a small pool against a reserve wide enough to show one
\* unit of the power: the quantised base and its power at every grid point.
Sweep(fn, balances_in, balance_out, count) ==
  {fn} \X balances_in \X {balance_out}
       \X {<<1, 11>>, <<1, 2>>, <<7, 9>>, <<1, 1>>, <<3, 2>>, <<11, 1>>}
       \X (100 .. 100 + count)

MCQuotes ==
  {Quote(p[1], p[2], p[3], p[4], p[5]) :
     p \in Corners("out_given_in", 13) \cup Corners("in_given_out", 10)
             \cup Sweep("out_given_in", {127, 200}, WORD - 1, 1000)
             \cup Sweep("in_given_out", {1000003}, 500, 150)}

\* Bytes for the fuzz target: reserves at both ends of the word, weights that
\* wrap at the ratio, amounts that wrap at the caps.
RawReserves == {0, 3, 1000, 524288, 1000003, WORD - 2, WORD - 1}

MCTrades ==
  [exact_out : BOOLEAN, balance_in : RawReserves, balance_out : RawReserves,
   weight_in : {0, 4, 10, 255}, weight_out : {0, 4, 10, 255},
   amount : {0, 499, 7654321, WORD - 1}]
=============================================================================
