------------------------------- MODULE MCLfsr --------------------------------
(***************************************************************************)
(* The two generators as they are built.  Each is expected to go on        *)
(* showing the least, a middle and the greatest of the words it can show:  *)
(* 1, 256 and 511 for LFSRX, 8, 127 and 255 for LFSRY.                     *)
(***************************************************************************)
EXTENDS Lfsr

MCDesigns == {
  [taps |-> {8, 3, 2, 0}, shifts |-> 9, awaited |-> {{0}, {8}, 0 .. 8}],   \* LFSRX
  [taps |-> {7, 3, 2, 0}, shifts |-> 8, awaited |-> {{3}, 0 .. 6, 0 .. 7}]}   \* LFSRY
=============================================================================
