------------------------------- MODULE MCPool -------------------------------
(***************************************************************************)
(* Sessions of three swaps in every direction, from a one-wei pool to one  *)
(* whose reserves pass the pre-shift bound of the ratios.                  *)
(***************************************************************************)
EXTENDS Pool

MCAtanh == <<8192, 2731, 1638, 1170>>
MCExp == <<8192, -8192, 4096, -1365, 341, -68, 11, -2>>

Start(a, b, wa, wb) ==
  [reserve |-> [z \in Tokens |-> IF z = "A" THEN a ELSE b],
   weight |-> [z \in Tokens |-> IF z = "A" THEN wa ELSE wb]]

MCPools == {Start(1, 1, 1, 1), Start(3, 1000, 1, 3), Start(700, 20, 11, 1),
            Start(260, 1048575, 7, 9), Start(600000, 524288, 2, 1)}

MCAmounts == {1, 2, 5, 60, 310, 100000}
=============================================================================
