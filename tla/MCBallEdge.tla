------------------------------ MODULE MCBallEdge ------------------------------
(***************************************************************************)
(* The ball with the parameters of ball.sv, against its own comment on the *)
(* top edge of the arena.  One axis is enough to reach it, so the player   *)
(* holds one key, and he eats shrinking dots.                              *)
(***************************************************************************)
EXTENDS Ball

MCKeycodesUp == {{"none", "w"}}

(* Frames never stop; eating dots is up to the player. *)
UpNext == \E keycode \in Keycodes : Roll(keycode) \/ Shrink(keycode)
UpSpec == Init /\ [][UpNext]_vars /\ WF_vars(UpNext)

(***************************************************************************)
(* "Ball is at the top edge, BOUNCE!" (ball.sv:200): a ball at the top     *)
(* edge comes away from it.                                                *)
(***************************************************************************)
BouncesOffTop == AtTop ~> ~AtTop /\ ~AtBottom
=============================================================================
