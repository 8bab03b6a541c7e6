----------------------------- MODULE EnemyBall ------------------------------
(***************************************************************************)
(* One enemy ball: enemy_ball1, enemy_ball2 or enemy_ball3 of              *)
(* enemy_ball.sv.  The three modules are one machine with different        *)
(* parameters, and differ in which motion register the start screen        *)
(* leaves alone.                                                           *)
(*                                                                         *)
(* A step is one 50 MHz clock edge at which the machine changes something: *)
(* a clock edge with Reset high, or one on which frame_clk (the vertical   *)
(* sync) is seen to rise.  Every other clock edge is a stuttering step.    *)
(* The player's ball p = [x, y, size] and start_signal are wires read at   *)
(* that edge.  A wall of the vertical axis hides one of the horizontal     *)
(* axis, and any wall hides the contact with the player: this order of the *)
(* tests is what makes the bounds below worth stating.                     *)
(***************************************************************************)
EXTENDS Words

CONSTANTS
  Size,          \* radius (Ball_Size: 6, 7 and 8)
  XMax, YMax,    \* Ball_X_Max, Ball_Y_Max
  XCenter,       \* Ball_X_Center, where Reset and the start screen put it
  YCenter,       \* Ball_Y_Center
  Respawn,       \* both coordinates of an enemy that was eaten (9'b111111111)
  Bump,          \* motion of the branches commented "collision?" (4, 3, 5)
  KeepXMotion,   \* the start screen keeps the X motion (enemy_ball3)
  KeepYMotion,   \* the start screen keeps the Y motion (enemy_ball1)
  ScoreMod,      \* escore wraps here: 2^16 in the design, less in a model
  Players        \* the balls the wires X, Y, size may carry

Player == [x : Word, y : Word, size : Word]

(* What the parameters of the three enemies have in common: the home       *)
(* position is not in the band of the bottom wall, the respawn point is in *)
(* neither band, and every bound is far enough below WordMod.              *)
ASSUME EnemyAssumption ==
  /\ Size \in Word /\ Size >= 4
  /\ XMax \in Word /\ XMax >= 3 * Size /\ XMax + 4 < WordMod
  /\ YMax \in Word /\ YMax > 2 * Size + 2 /\ YMax + 1 < WordMod
  /\ XCenter \in Word /\ XCenter + 2 * Size + 3 < WordMod
  /\ YCenter \in Word /\ YCenter + Size < YMax
  /\ Respawn \in Word /\ Respawn > Size /\ Respawn + Size < YMax
  /\ Bump \in Word
  /\ KeepXMotion \in BOOLEAN /\ (KeepXMotion => XCenter >= 2 * Size)
  /\ KeepYMotion \in BOOLEAN /\ (KeepYMotion => YCenter >= 1)
  /\ ScoreMod \in Nat \ {0}
  /\ Players \subseteq Player

VARIABLES
  x, y,          \* Ball_X_Pos, Ball_Y_Pos
  mx, my,        \* Ball_X_Motion, Ball_Y_Motion
  escore         \* points the player has scored by eating this enemy

vars == <<x, y, mx, my, escore>>

-----------------------------------------------------------------------------
(* The combinational part: walls, contact and the next motion. *)

(* Mutants of the walls: each is seen on one line only. *)
AtTopLine    == y = Size
AtRightLine  == Add(x, Size) = XMax

AtBottom == Add(y, Size) >= YMax
AtTop    == y <= Size
AtRight  == Add(x, Size) >= XMax
AtLeft   == x <= Size
AtWall   == AtBottom \/ AtTop \/ AtRight \/ AtLeft

Contact(p) == ~AtWall /\ Within(x, y, p.x, p.y, Size + p.size)

(* The wires is_collision (the player eats the enemy) and gameover. *)
is_collision(p) == Contact(p) /\ p.size > Size
gameover(p)     == Contact(p) /\ p.size <= Size

(* Mutant of Toward: the wrong way. *)
TowardAway(from, to) ==
  IF to > from THEN MinusOne ELSE IF to < from THEN 1 ELSE 0

Toward(from, to) ==
  IF to > from THEN 1 ELSE IF to < from THEN MinusOne ELSE 0

(* A player smaller than the enemy is chased, any other is fled from; the  *)
(* branch for a player at the very same place has a motion of its own.     *)
Steer(from, to, p) ==
  IF p.x = x /\ p.y = y THEN Bump
  ELSE IF p.size < Size THEN Toward(from, to) ELSE Toward(to, from)

YMotionIn(p) ==
  IF AtBottom THEN MinusOne
  ELSE IF AtTop THEN 1
  ELSE IF AtRight \/ AtLeft \/ Contact(p) THEN my
  ELSE Steer(y, p.y, p)

(* Mutant of XMotionIn: no test for contact before steering. *)
XMotionInTouching(p) ==
  IF AtBottom \/ AtTop THEN mx
  ELSE IF AtRight THEN MinusOne
  ELSE IF AtLeft THEN 1
  ELSE Steer(x, p.x, p)

XMotionIn(p) ==
  IF AtBottom \/ AtTop THEN mx
  ELSE IF AtRight THEN MinusOne
  ELSE IF AtLeft THEN 1
  ELSE IF Contact(p) THEN mx
  ELSE Steer(x, p.x, p)

-----------------------------------------------------------------------------
(* The clocked part, in the priority order of the always_ff block. *)

Home ==
  /\ x = XCenter /\ y = YCenter
  /\ mx = 0 /\ my = 0
  /\ escore = 0

(* Registers power up at zero when the reset button is never pressed. *)
PowerUp ==
  /\ x = 0 /\ y = 0
  /\ mx = 0 /\ my = 0
  /\ escore = 0

Init == Home \/ PowerUp

Reset ==
  /\ x' = XCenter /\ y' = YCenter
  /\ mx' = 0 /\ my' = 0
  /\ escore' = 0

(* The player eats the enemy: it reappears at the respawn point. *)
Eaten(p) ==
  /\ is_collision(p)
  /\ x' = Respawn /\ y' = Respawn
  /\ UNCHANGED <<mx, my>>
  /\ escore' = (escore + 3) % ScoreMod

(* Mutant of GoHome: the score is left from the last game. *)
GoHomeScored(p) ==
  /\ ~is_collision(p)
  /\ x' = XCenter /\ y' = YCenter
  /\ mx' = IF KeepXMotion THEN mx ELSE 0
  /\ my' = IF KeepYMotion THEN my ELSE 0
  /\ UNCHANGED escore

(* A frame of the start screen sends the enemy home. *)
GoHome(p) ==
  /\ ~is_collision(p)
  /\ x' = XCenter /\ y' = YCenter
  /\ mx' = IF KeepXMotion THEN mx ELSE 0
  /\ my' = IF KeepYMotion THEN my ELSE 0
  /\ escore' = 0

(* The position follows the old motion while the new motion is chosen from *)
(* the old position.                                                       *)
Move(p) ==
  /\ ~is_collision(p)
  /\ x' = Add(x, mx) /\ y' = Add(y, my)
  /\ mx' = XMotionIn(p) /\ my' = YMotionIn(p)
  /\ UNCHANGED escore

(* A rising edge of frame_clk with Reset low. *)
Frame(p, start_signal) ==
  \/ Eaten(p)
  \/ start_signal /\ GoHome(p)
  \/ ~start_signal /\ Move(p)

Next ==
  \/ Reset
  \/ \E p \in Players, start_signal \in BOOLEAN : Frame(p, start_signal)

Spec == Init /\ [][Next]_vars

-----------------------------------------------------------------------------
(* Correctness. *)

(* The registers hold ten-bit words and the score stays below its modulus. *)
TypeOK ==
  /\ x \in Word /\ y \in Word
  /\ mx \in Word /\ my \in Word
  /\ escore \in 0 .. ScoreMod - 1

(***************************************************************************)
(* The enemy only ever moves by one pixel per axis and frame: the branches *)
(* commented "collision?" (enemy_ball.sv:189-192, 236-239) are dead,       *)
(* because the contact test before them already catches equal positions.   *)
(***************************************************************************)
UnitMotion == mx \in {0, 1, MinusOne} /\ my \in {0, 1, MinusOne}

(***************************************************************************)
(* The walls hold although the vertical ones hide the horizontal ones      *)
(* (enemy_ball.sv:124-131): the enemy overshoots a wall by a few pixels at *)
(* most, so no coordinate and no wall comparison ever wraps.             *)
(***************************************************************************)
Larger(a, b) == IF a >= b THEN a ELSE b

XHigh == Larger(XMax - Size + 4, Larger(XCenter + Size + 3, Respawn + 1))
YHigh == YMax - Size + 1

Confined == x <= XHigh /\ y <= YHigh

(***************************************************************************)
(* Unless the enemy is sent home or eaten, one step moves it by at most    *)
(* one pixel per axis: it never jumps across the arena, which is what an   *)
(* unsigned coordinate that passes zero would do.                          *)
(***************************************************************************)
Near(a, b) == a - b \in -1 .. 1

Glide ==
  \/ Near(x', x) /\ Near(y', y)
  \/ x' = XCenter /\ y' = YCenter
  \/ x' = Respawn /\ y' = Respawn

Glides == [][Glide]_vars

-----------------------------------------------------------------------------
(***************************************************************************)
(* Why the walls hold.  In the band of a vertical wall the X motion is     *)
(* blind, but the band is left after a number of frames fixed by the depth *)
(* and the Y motion, and it is entered at its edge: there is room for      *)
(* exactly that blind drift, and for the one frame the motion lags the     *)
(* position.                                                               *)
(***************************************************************************)
BlindFrames ==
  IF y <= Size
    THEN Size + 1 - y + (IF my = 1 THEN 0 ELSE IF my = 0 THEN 1 ELSE 2)
  ELSE IF y + Size >= YMax
    THEN y + Size + 1 - YMax + (IF my = MinusOne THEN 0 ELSE IF my = 0 THEN 1 ELSE 2)
  ELSE 0

RoomLeft   == mx = MinusOne => x >= Size - 3 + BlindFrames
RoomRight  == mx = 1 => x + BlindFrames <= XHigh - 1
RoomAbove  == my = MinusOne => y >= 1
RoomBelow  == my = 1 => y <= YHigh - 1

Inv ==
  /\ TypeOK
  /\ UnitMotion
  /\ Confined
  /\ RoomLeft
  /\ RoomRight
  /\ RoomAbove
  /\ RoomBelow

=============================================================================
