---------------------------- MODULE MCEnemyBall -----------------------------
(***************************************************************************)
(* A small arena for EnemyBall.  A radius of 4 is the least the            *)
(* assumption allows; the arena is just wide enough to have an interior.   *)
(* The player appears on a grid that has points inside, on and beyond      *)
(* every wall, in sizes below, equal to and above the enemy's.             *)
(***************************************************************************)
EXTENDS EnemyBall

MCPlayers ==
  [x : {2, 6, 9, 12, 20}, y : {2, 6, 8, 10, 16}, size : {1, 3, 4, 5, 9}]
=============================================================================
