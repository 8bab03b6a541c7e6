------------------------------- MODULE Words --------------------------------
(***************************************************************************)
(* The unsigned arithmetic every position, motion and size register of the *)
(* design lives in (logic [9:0] in ball.sv, enemy_ball.sv, AIball.sv and   *)
(* random_ball.sv).  A sum keeps the width of its operands, and a          *)
(* comparison is made on the bits that are left: a coordinate that goes    *)
(* below zero comes back at the far end.  A negative motion is a two's     *)
(* complement word, so it is a word whose top bit is set.                  *)
(***************************************************************************)
EXTENDS Integers

CONSTANT
  WordMod        \* 2^10 in the design; a smaller even number in a model

ASSUME WordAssumption ==
  WordMod \in Nat /\ WordMod >= 16 /\ WordMod % 2 = 0

Word == 0 .. WordMod - 1

(* Mutant of Add: the sum is one bit wider than its operands. *)
AddWide(a, b) == a + b

(* The sum of two words without its carry. *)
Add(a, b) == IF a + b >= WordMod THEN a + b - WordMod ELSE a + b

(* ~(a) + 1'b1 *)
Neg(a) == IF a = 0 THEN 0 ELSE WordMod - a

MinusOne == WordMod - 1

(* m[9] == 1 *)
IsNegative(m) == 2 * m >= WordMod

(***************************************************************************)
(* The contact test of enemy_ball.sv and random_ball.sv.  It mixes ten-bit *)
(* operands with the 32-bit literal of the radius, so it is evaluated on   *)
(* 32 bits, where the square of a wrapped difference is the true square.   *)
(***************************************************************************)
SquaredDistance(x1, y1, x2, y2) ==
  (x1 - x2) * (x1 - x2) + (y1 - y2) * (y1 - y2)

Within(x1, y1, x2, y2, reach) ==
  SquaredDistance(x1, y1, x2, y2) <= reach * reach

=============================================================================
