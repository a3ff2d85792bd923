------------------------------- MODULE MCWide -------------------------------
(***************************************************************************)
(* Every pair of words of a 6-bit machine (3-bit limbs), every shift.      *)
(***************************************************************************)
EXTENDS WideCalls

MCOperands == U128
=============================================================================
