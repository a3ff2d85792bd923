------------------------------- MODULE MCPow --------------------------------
(***************************************************************************)
(* The pow pipeline on a 28-bit word: SCALE 7, LN_SCALE 13, exponents up   *)
(* to 11.  The tables are rounded as the kernel's are, PAD_62 is half an   *)
(* ulp at SCALE as the kernel's 512 is, and 0.7^11 lies about five pads    *)
(* above zero where the kernel's 0.7^99 lies four.                         *)
(***************************************************************************)
EXTENDS PowSteps

MCAtanh == <<8192, 2731, 1638, 1170>>
MCExp == <<8192, -8192, 4096, -1365, 341, -68, 11, -2>>

\* Exponents from the smallest to the largest, and one on each side.
MCExponents == {0, 1, 12, 32, 64, 127, 128, 129, 192, 300, 384, 704, 1407, 1408, 1409}

MCCalls ==
  [op : PowOps, x : -1 .. ONE + 1, y : MCExponents]
    \cup [op : {"ln"}, x : -1 .. ONE + 1, y : {ONE}]
    \cup [op : ExpOps, x : -EXP_SATURATION - 2 .. 1, y : {ONE}]

\* A sample for the runs that follow every call to its end: the corners of
\* both domains, and arguments on both sides of each normalisation bound.
MCSample ==
  [op : PowOps, x : {0, 1, 45, 46, 90, 91, 127, 128}, y : {0, 1, 32, 129, 1408}]
    \cup [op : {"ln"}, x : {0, 1, 2, 3, 90, 91, 128, 129}, y : {ONE}]
    \cup [op : ExpOps,
          x : {-n * 100 : n \in 1 .. 14} \cup -90 .. -86
              \cup {-EXP_SATURATION, -EXP_SATURATION + 1, -1154, 0, 1}, y : {ONE}]
=============================================================================
