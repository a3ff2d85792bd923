----------------------------- MODULE MCAccuracy -----------------------------
(***************************************************************************)
(* Every base of the 7-bit grid against exponents from 1/4 to 11.          *)
(***************************************************************************)
EXTENDS PowAccuracy, KernelConstants

MCAtanh == <<8192, 2731, 1638, 1170>>
MCExp == <<8192, -8192, 4096, -1365, 341, -68, 11, -2>>

MCCalls ==
  [op : PowOps, x : 1 .. ONE,
   y : {32, 64, 96, 128, 160, 320, 544, 768, 1056, 1408}]
=============================================================================
