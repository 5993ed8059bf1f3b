----------------------------- MODULE MCBitQueue -----------------------------
(* Elements at both sides of each boundary of the bitmap: the first byte,  *)
(* its 64 bits before and its 128 bits after it has doubled.  The element  *)
(* 128 is beyond one doubling, and within two.                             *)
EXTENDS BitQueue

MCElem == {0, 7, 8, 63, 64, 127, 128}
=============================================================================
