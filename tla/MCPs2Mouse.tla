---------------------------- MODULE MCPs2Mouse -------------------------------
EXTENDS Ps2Mouse

(* A click that does not move, and a move to the lower left with the right *)
(* button held.                                                            *)
MCPackets == {[b1 |-> 9, x |-> 0, y |-> 0], [b1 |-> 58, x |-> 14, y |-> 131]}
=============================================================================
