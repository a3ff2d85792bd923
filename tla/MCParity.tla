------------------------------ MODULE MCParity ------------------------------
(***************************************************************************)
(* Words of four bits, so that a value of 16 bits still takes four of them *)
(* and a cycle delta of 18 takes two.                                      *)
(***************************************************************************)
EXTENDS Parity

MCWordBits == 4
MCMaxWrong == 2
MCCycleDeltas == {1, 18}

\* A function of op and of every argument's place; the division divides.
MCKernel(op, args) ==
  CASE op = 8 -> args[1] \div args[2]
    [] op = 9 -> args[1]
    [] OTHER  -> FoldLeftDomain(LAMBDA v, i : v + i * args[i], op, args) % (BASE * BASE * BASE * BASE)

\* The division panics on zero, and calc_in_given_out on one input of its own.
MCPanics(op, args) == \/ op = 8 /\ args[2] = 0
                      \/ op = 7 /\ args[1] = 0

Batch(op, cases) == [op |-> op, cases |-> cases]
Five(n) == <<n, 4097, 300, 17, 1>>

Sound ==
  <<Batch(1, <<<<65535>>>>),
    Batch(3, <<<<1, 4096>>, <<258, 3>>>>),
    Batch(6, <<Five(7), Five(40000)>>),
    Batch(7, <<Five(9)>>),
    Batch(8, <<<<40001, 17>>, <<5, 3>>>>),
    Batch(9, <<<<0>>, <<1>>, <<2>>>>)>>

Panicking == [Sound EXCEPT ![5] = Batch(8, <<<<40001, 17>>, <<5, 0>>>>)]
PanickingLast == [Sound EXCEPT ![4] = Batch(7, <<Five(9), Five(0)>>)]

MCSuites == {Sound, Panicking, PanickingLast}
=============================================================================
