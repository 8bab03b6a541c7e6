---------------------------- MODULE EnemyPursuit ----------------------------
(***************************************************************************)
(* One enemy ball and a player who roams and then goes idle.               *)
(*                                                                         *)
(* A ball that has been steered never stands still again: ball.sv has no   *)
(* key that stops it.  The only still ball is the one ball.sv:92-104 puts  *)
(* back at its start position when some enemy catches it (gameover), for   *)
(* as long as no key is pressed.  A start screen shorter than a frame      *)
(* leaves the enemies where they are, so the idle player may face an enemy *)
(* in any state an earlier game has left it in.                            *)
(***************************************************************************)
EXTENDS EnemyBall

CONSTANT
  IdlePlayer     \* the ball at its start position: centre of the arena, size 5

ASSUME PursuitAssumption == IdlePlayer \in Player

VARIABLES
  player,        \* the ball, as the wires X, Y and size carry it
  idle           \* the ball has been put back and no key is pressed since

pursuitVars == <<vars, player, idle>>

PursuitInit ==
  /\ Init
  /\ player \in Players \cup {IdlePlayer}
  /\ idle = FALSE

(* A frame of a game, or of the start screen, with the player on the move. *)
Roam(start_signal) ==
  /\ ~idle
  /\ Frame(player, start_signal)
  /\ player' \in Players
  /\ UNCHANGED idle

(* Some enemy catches the player: this frame puts the ball back. *)
PutBack ==
  /\ ~idle
  /\ Frame(player, FALSE)
  /\ player' = IdlePlayer
  /\ idle' = TRUE

(* A frame of the next game, with the player still idle. *)
Wait ==
  /\ idle
  /\ Frame(player, FALSE)
  /\ UNCHANGED <<player, idle>>

PursuitNext ==
  \/ \E start_signal \in BOOLEAN : Roam(start_signal)
  \/ PutBack
  \/ Wait

(* The vertical sync comes at every refresh of the screen, for ever. *)
PursuitSpec == PursuitInit /\ [][PursuitNext]_pursuitVars /\ WF_pursuitVars(PursuitNext)

-----------------------------------------------------------------------------
(***************************************************************************)
(* A player who stays idle is caught, from whatever state the enemy is in: *)
(* the blind drift in the bands of the walls never traps the chase         *)
(* (enemy_ball.sv:124-152).                                                *)
(***************************************************************************)
IdlePlayerIsCaught == idle ~> gameover(player)

=============================================================================
