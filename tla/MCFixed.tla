------------------------------ MODULE MCFixed -------------------------------
(***************************************************************************)
(* A 10-bit word with 3 fraction bits: every start, and calculations of    *)
(* three steps by factors below, at and above one and at the bounds.       *)
(***************************************************************************)
EXTENDS FixedCalls

MCStarts == -1 .. ReprMax
MCFactors == {-1, 0, 1, 3, 7, 8, 9, 20, 63, 64, ReprMax}
=============================================================================
