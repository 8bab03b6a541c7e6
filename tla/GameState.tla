------------------------------ MODULE GameState ------------------------------
(***************************************************************************)
(* The screen the game is on (gamestate.sv): the start screen, the game,   *)
(* the game-over screen.  A step is one 50 MHz clock edge; the wire        *)
(* gameover, the cursor and the buttons are read at it.  The buttons are   *)
(* levels, so one press is read at many edges.  The keycode is an input    *)
(* the machine never looks at.                                             *)
(***************************************************************************)

VARIABLE State

(* What the player presses a mouse button over: the letters on the start   *)
(* screen, the ones on the game-over screen, or anything else; no pressed  *)
(* button is like a press over anything else.                              *)
Press == {"play", "again", "elsewhere"}

start_signal    == State = "start"
ingame_signal   == State = "ingame"
gameover_signal == State = "gameover_state"

Init == State = "start"

Reset == State' = "start"

Play(press) ==
  /\ State = "start"
  /\ press = "play"
  /\ State' = "ingame"

Lose(gameover) ==
  /\ State = "ingame"
  /\ gameover
  /\ State' = "gameover_state"

Again(press) ==
  /\ State = "gameover_state"
  /\ press = "again"
  /\ State' = "start"

Stay(gameover, press) ==
  /\ State = "start" => press # "play"
  /\ State = "ingame" => ~gameover
  /\ State = "gameover_state" => press # "again"
  /\ UNCHANGED State

(* A clock edge with Reset low. *)
Clock(gameover, press) ==
  \/ Play(press)
  \/ Lose(gameover)
  \/ Again(press)
  \/ Stay(gameover, press)

=============================================================================
