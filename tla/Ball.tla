-------------------------------- MODULE Ball ---------------------------------
(***************************************************************************)
(* The player's ball and the camera that scrolls the arena under it        *)
(* (ball.sv).                                                              *)
(*                                                                         *)
(* A step is one 50 MHz clock edge with Reset high, or one on which        *)
(* frame_clk is seen to rise; the keycode and the wires gameover,          *)
(* is_collision1 (a growing dot was touched), is_collision2 (a shrinking   *)
(* dot was touched) and start_signal are read at that edge.  The walls are *)
(* those of the screen, so they move with the camera.                      *)
(***************************************************************************)
EXTENDS Words

CONSTANTS
  XMax, YMax,                \* Ball_X_Max = 639, Ball_Y_Max = 479
  XCenter, YCenter,          \* Ball_X_Center = 320, Ball_Y_Center = 240
  ScrollLeft, ScrollRight,   \* the camera follows outside 200 .. 400 ...
  ScrollUp, ScrollDown,      \* ... and outside 100 .. 250 of the screen
  StartStep, MaxStep,        \* the speed: 3 at the start, 1 .. 4
  StartSize, MinSize, MaxSize, \* the radius: 5 at the start, 3 .. 10
  Keycodes                   \* the keycodes the keyboard may deliver

(***************************************************************************)
(* The keycode register holds two key bytes.  All the code looks at is     *)
(* which two of w, s, a, d, another key or no key they are, in any order,  *)
(* so a keycode is the set of its bytes.                                   *)
(***************************************************************************)
KeyByte == {"none", "w", "s", "a", "d", "other"}
Keycode == {{k, l} : k, l \in KeyByte}

ASSUME BallAssumption ==
  /\ XMax \in Word /\ YMax \in Word
  /\ XCenter \in Word /\ YCenter \in Word
  /\ MaxStep \in Nat \ {0} /\ StartStep \in 1 .. MaxStep
  /\ MinSize \in Nat /\ MaxSize \in Word /\ StartSize \in MinSize .. MaxSize
  /\ MinSize + MaxStep <= StartSize + StartStep
  /\ StartSize + StartStep <= MaxSize + 1
  /\ ScrollLeft \in Nat /\ ScrollRight \in Nat
  /\ MaxStep <= ScrollLeft /\ ScrollLeft < ScrollRight /\ ScrollRight <= XMax
  /\ ScrollUp \in Nat /\ ScrollDown \in Nat
  /\ MaxStep <= ScrollUp /\ ScrollUp < ScrollDown /\ ScrollDown <= YMax
  /\ XMax + MaxStep < WordMod /\ YMax + MaxStep < WordMod
  /\ 2 * MaxStep < WordMod
  /\ Keycodes \subseteq Keycode

VARIABLES
  x, y,                      \* Ball_X_Pos, Ball_Y_Pos
  mx, my,                    \* Ball_X_Motion, Ball_Y_Motion
  xstep, ystep,              \* Ball_X_Step, Ball_Y_Step
  size,                      \* Ball_Size
  progressx, progressy       \* place of the screen's corner in the arena

place == <<x, y, mx, my, progressx, progressy>>
build == <<xstep, ystep, size>>
vars  == <<x, y, mx, my, xstep, ystep, size, progressx, progressy>>

-----------------------------------------------------------------------------
(* The combinational part: walls and keys. *)

AtBottom == Add(y, size) >= Add(YMax, progressy)
AtTop    == y <= Add(size, progressy)
AtRight  == Add(x, size) >= Add(XMax, progressx)
AtLeft   == x <= Add(size, progressx)

(* One key, or two keys of different axes; any other keycode steers nothing. *)
UpDown    == {{"none", "w"}, {"none", "s"}}
LeftRight == {{"none", "a"}, {"none", "d"}}
Diagonal  == {{v, h} : v \in {"w", "s"}, h \in {"a", "d"}}
Steering  == UpDown \cup LeftRight \cup Diagonal

(* Mutant of XKept: any keycode without a horizontal key clears the X motion. *)
XKeptHeld(keycode) == IF {"a", "d"} \cap keycode = {} THEN 0 ELSE mx

(* A single key stops the other axis before the walls are looked at. *)
XKept(keycode) == IF keycode \in UpDown THEN 0 ELSE mx
YKept(keycode) == IF keycode \in LeftRight THEN 0 ELSE my

YMotionIn(keycode) ==
  IF AtBottom THEN Neg(ystep)
  ELSE IF AtTop THEN ystep
  ELSE IF AtRight \/ AtLeft \/ keycode \notin Steering THEN YKept(keycode)
  ELSE IF "w" \in keycode THEN Neg(ystep)
  ELSE IF "s" \in keycode THEN ystep
  ELSE YKept(keycode)

XMotionIn(keycode) ==
  IF AtBottom \/ AtTop THEN XKept(keycode)
  ELSE IF AtRight THEN Neg(xstep)
  ELSE IF AtLeft THEN xstep
  ELSE IF keycode \notin Steering THEN XKept(keycode)
  ELSE IF "a" \in keycode THEN Neg(xstep)
  ELSE IF "d" \in keycode THEN xstep
  ELSE XKept(keycode)

(* Mutant of Scroll: no limit to the right and below. *)
ScrollOn(pos, motion, progress, low, high, limit) ==
  IF pos >= Add(progress, high)
    THEN IF ~IsNegative(motion) THEN Add(progress, motion) ELSE progress
  ELSE IF pos <= Add(progress, low) /\ IsNegative(motion) /\ pos >= low
    THEN Add(progress, motion)
  ELSE progress

(***************************************************************************)
(* The camera moves with the ball, by the motion of this frame, while the  *)
(* ball is in the outer part of the screen, moves outwards and is still in *)
(* the part of the arena the camera may follow it through.                 *)
(***************************************************************************)
Scroll(pos, motion, progress, low, high, limit) ==
  IF pos >= Add(progress, high)
    THEN IF ~IsNegative(motion) /\ pos <= limit THEN Add(progress, motion) ELSE progress
  ELSE IF pos <= Add(progress, low) /\ IsNegative(motion) /\ pos >= low
    THEN Add(progress, motion)
  ELSE progress

-----------------------------------------------------------------------------
(* The clocked part, in the priority order of the always_ff block. *)

(* The state Reset establishes. *)
Init ==
  /\ x = XCenter /\ y = YCenter
  /\ mx = 0 /\ my = 0
  /\ xstep = StartStep /\ ystep = StartStep
  /\ size = StartSize
  /\ progressx = 0 /\ progressy = 0

(* Reset, and a frame of the start screen or one in which an enemy has the *)
(* player.                                                                 *)
BackToStart ==
  /\ x' = XCenter /\ y' = YCenter
  /\ mx' = 0 /\ my' = 0
  /\ xstep' = StartStep /\ ystep' = StartStep
  /\ size' = StartSize
  /\ progressx' = 0 /\ progressy' = 0

Advance(keycode) ==
  /\ x' = Add(x, mx) /\ y' = Add(y, my)
  /\ mx' = XMotionIn(keycode) /\ my' = YMotionIn(keycode)
  /\ progressx' = Scroll(x, mx, progressx, ScrollLeft, ScrollRight, XMax)
  /\ progressy' = Scroll(y, my, progressy, ScrollUp, ScrollDown, YMax)

(* Mutant of Grow: the speed has no lower limit. *)
GrowSlower(keycode) ==
  /\ Advance(keycode)
  /\ xstep' = xstep - 1 /\ ystep' = ystep - 1
  /\ size' = IF size # MaxSize THEN size + 1 ELSE size

(* Mutant of Shrink: the speed is tested against the limit of Grow. *)
ShrinkCopied(keycode) ==
  /\ Advance(keycode)
  /\ IF xstep # 1 /\ ystep # 1
       THEN xstep' = xstep + 1 /\ ystep' = ystep + 1
       ELSE UNCHANGED <<xstep, ystep>>
  /\ size' = IF size # MinSize THEN size - 1 ELSE size

(* A growing dot: slower and larger, each up to its own limit. *)
Grow(keycode) ==
  /\ Advance(keycode)
  /\ IF xstep # 1 /\ ystep # 1
       THEN xstep' = xstep - 1 /\ ystep' = ystep - 1
       ELSE UNCHANGED <<xstep, ystep>>
  /\ size' = IF size # MaxSize THEN size + 1 ELSE size

(* A shrinking dot: faster and smaller. *)
Shrink(keycode) ==
  /\ Advance(keycode)
  /\ IF xstep # MaxStep /\ ystep # MaxStep
       THEN xstep' = xstep + 1 /\ ystep' = ystep + 1
       ELSE UNCHANGED <<xstep, ystep>>
  /\ size' = IF size # MinSize THEN size - 1 ELSE size

Roll(keycode) ==
  /\ Advance(keycode)
  /\ UNCHANGED build

(* Mutant of Frame: a dot has priority over an enemy. *)
FrameDotFirst(keycode, gameover, is_collision1, is_collision2, start_signal) ==
  \/ is_collision1 /\ Grow(keycode)
  \/ ~is_collision1 /\ is_collision2 /\ Shrink(keycode)
  \/ ~is_collision1 /\ ~is_collision2 /\ (gameover \/ start_signal) /\ BackToStart
  \/ ~is_collision1 /\ ~is_collision2 /\ ~gameover /\ ~start_signal /\ Roll(keycode)

(* A rising edge of frame_clk with Reset low. *)
Frame(keycode, gameover, is_collision1, is_collision2, start_signal) ==
  \/ gameover /\ BackToStart
  \/ ~gameover /\ is_collision1 /\ Grow(keycode)
  \/ ~gameover /\ ~is_collision1 /\ is_collision2 /\ Shrink(keycode)
  \/ ~gameover /\ ~is_collision1 /\ ~is_collision2 /\ start_signal /\ BackToStart
  \/ ~gameover /\ ~is_collision1 /\ ~is_collision2 /\ ~start_signal /\ Roll(keycode)

(* On its own the ball may see the wires at any values. *)
Next ==
  \/ BackToStart
  \/ \E keycode \in Keycodes : Grow(keycode) \/ Shrink(keycode) \/ Roll(keycode)

Spec == Init /\ [][Next]_vars

-----------------------------------------------------------------------------
(* Correctness. *)

(* A motion is zero or a step of 1 .. MaxStep pixels either way. *)
Motion == 0 .. MaxStep \cup WordMod - MaxStep .. WordMod - 1

(* The registers hold ten-bit words, the speed and the radius stay in      *)
(* their ranges and a motion never exceeds the top speed.                  *)
TypeOK ==
  /\ x \in Word /\ y \in Word
  /\ mx \in Motion /\ my \in Motion
  /\ xstep \in 1 .. MaxStep /\ ystep \in 1 .. MaxStep
  /\ size \in MinSize .. MaxSize
  /\ progressx \in Word /\ progressy \in Word

(***************************************************************************)
(* Speed and radius are two registers with two limits each                 *)
(* (ball.sv:114-120, 133-140), and a dot moves one when the other may be   *)
(* stuck at its limit.  They still stay linked: however the dots come, the *)
(* smallest ball is the fastest and the largest one the slowest.           *)
(***************************************************************************)
Agility ==
  /\ xstep = ystep
  /\ MinSize + MaxStep <= size + xstep
  /\ size + xstep <= MaxSize + 1

(***************************************************************************)
(* The camera's corner stays in the part of the arena the code lets it     *)
(* scroll through (ball.sv:462-490), give or take one frame of motion: it  *)
(* may pass zero by less than a step, and it never runs away, although the *)
(* ball itself may be anywhere in the ten-bit plane.                       *)
(***************************************************************************)
CameraRange(limit, high) ==
  0 .. limit - high + MaxStep \cup WordMod - MaxStep .. WordMod - 1

CameraBounded ==
  /\ progressx \in CameraRange(XMax, ScrollRight)
  /\ progressy \in CameraRange(YMax, ScrollDown)

(***************************************************************************)
(* No key stops the ball: once it rolls it rolls until it is put back to   *)
(* its start, because a key that clears one motion sets the other, at a    *)
(* wall too (ball.sv:194-452).                                             *)
(***************************************************************************)
Rests == mx = 0 /\ my = 0

NeverStops == [][~Rests => ~Rests' \/ BackToStart]_vars

=============================================================================
