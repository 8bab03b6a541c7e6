--------------------------- MODULE MCEnemyPursuit ---------------------------
(***************************************************************************)
(* A small arena for EnemyPursuit: the idle player is well inside it and   *)
(* smaller than the enemy, as the ball of size 5 is.                       *)
(***************************************************************************)
EXTENDS EnemyPursuit

MCPlayers ==
  [x : {3, 15}, y : {3, 8}, size : {1, 5}]

MCIdlePlayer == [x |-> 12, y |-> 11, size |-> 1]
=============================================================================
