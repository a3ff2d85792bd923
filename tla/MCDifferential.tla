--------------------------- MODULE MCDifferential ---------------------------
(***************************************************************************)
(* Three fraction bits in a word of eight, two more in the fixture and two *)
(* more in the truth: every truth of [0, 1), results from well below to    *)
(* well above it, and every pair of operands.  Amounts and sensitivities   *)
(* reach the end of the word, the latter past it.                          *)
(***************************************************************************)
EXTENDS Differential

MCTruths == 0 .. 2^TRUTH_BITS - 1
MCResults == -6 .. 14
MCOperands == 0 .. ReprMax
MCWei == {0, 1, 37, 60, 61, 130, WORD - 1}
MCSensitivities == {0, 21, 130, WORD - 1, WORD}
=============================================================================
