----------------------------- MODULE RandomBall ------------------------------
(***************************************************************************)
(* The sixteen dots the player collects, the score they bring and the      *)
(* dots' own copy of the ball's radius (random_ball.sv).                   *)
(*                                                                         *)
(* A step is one 50 MHz clock edge with Reset high, or one on which        *)
(* frame_clk is seen to rise.  The position of the ball, the two random    *)
(* words and start_signal are wires read at that edge; the wires           *)
(* is_collision1 and is_collision2 tell ball.sv, at the same edge, that a  *)
(* growing or a shrinking dot is touched.                                  *)
(***************************************************************************)
EXTENDS Words

CONSTANTS
  Dots,          \* 0 .. 15
  Growing,       \* 0 .. 7; the other dots shrink the ball
  FullRange,     \* {15}, the dot that takes all ten bits of a random word
  DotHome,       \* where Reset puts each dot
  DotSize,       \* Ball_size = 4
  XCut, YCut,    \* a random place keeps 9 bits of X, 8 of Y: 512 and 256
  StartShadow,   \* bSize after Reset: 4
  MaxShadow,     \* bSize never grows beyond 10
  ScoreMod,      \* rscore wraps here: 2^16 in the design, less in a model
  Balls,         \* the positions the wires BallX, BallY may carry
  Randoms        \* the words RandomX, RandomY may carry, as pairs

Position == [x : Word, y : Word]

ASSUME DotAssumption ==
  /\ Growing \subseteq Dots /\ FullRange \subseteq Dots
  /\ DotHome \in [Dots -> Position]
  /\ DotSize \in Nat
  /\ XCut \in 1 .. WordMod /\ YCut \in 1 .. WordMod
  /\ MaxShadow \in Nat /\ StartShadow \in 1 .. MaxShadow
  /\ ScoreMod \in Nat \ {0}
  /\ Balls \subseteq Position /\ Randoms \subseteq Position

VARIABLES
  place,         \* Ball_X_Pos[0:15], Ball_Y_Pos[0:15]
  bSize,         \* the radius random_ball.sv believes the ball has
  rscore         \* points the player has scored with dots

vars == <<place, bSize, rscore>>

-----------------------------------------------------------------------------
(* The combinational part. *)

(* Mutant of Touched: the growing dots are a pixel larger. *)
TouchedGrowing(ball) ==
  {d \in Dots : Within(ball.x, ball.y, place[d].x, place[d].y,
                       (IF d \in Growing THEN DotSize + 1 ELSE DotSize) + bSize)}

Touched(ball) ==
  {d \in Dots : Within(ball.x, ball.y, place[d].x, place[d].y, DotSize + bSize)}

is_collision1(ball) == Touched(ball) \cap Growing # {}
is_collision2(ball) == Touched(ball) \ Growing # {}

(* Mutant of NewPlace: every dot takes all bits of the random words. *)
NewPlaceWide(d, random) == random

(* Where a touched dot goes; every dot reads the same two random words. *)
NewPlace(d, random) ==
  IF d \in FullRange THEN random
  ELSE [x |-> random.x % XCut, y |-> random.y % YCut]

-----------------------------------------------------------------------------
(* The clocked part, in the priority order of the always_ff block. *)

Home ==
  /\ place = DotHome
  /\ bSize = StartShadow
  /\ rscore = 0

(* Without the reset button the dots power up at the origin; bSize has an  *)
(* initial value.                                                          *)
PowerUp ==
  /\ place = [d \in Dots |-> [x |-> 0, y |-> 0]]
  /\ bSize = StartShadow
  /\ rscore = 0

Init == Home \/ PowerUp

Reset ==
  /\ place' = DotHome
  /\ bSize' = StartShadow
  /\ rscore' = 0

(* Every frame moves the dots that are touched, on every screen. *)
Scatter(ball, random) ==
  place' = [d \in Dots |-> IF d \in Touched(ball) THEN NewPlace(d, random) ELSE place[d]]

(* Mutants: the other kind's update of bSize, and a lower limit off by one. *)
EatGrowingCopied(ball, random) ==
  /\ is_collision1(ball)
  /\ Scatter(ball, random)
  /\ rscore' = (rscore + 1) % ScoreMod
  /\ bSize' = IF bSize # 1 THEN bSize - 1 ELSE bSize

EatShrinkingToZero(ball, random) ==
  /\ ~is_collision1(ball) /\ is_collision2(ball)
  /\ Scatter(ball, random)
  /\ rscore' = (rscore + 1) % ScoreMod
  /\ bSize' = IF bSize # 0 THEN bSize - 1 ELSE bSize

(* One point a frame, however many dots are touched in it. *)
EatGrowing(ball, random) ==
  /\ is_collision1(ball)
  /\ Scatter(ball, random)
  /\ rscore' = (rscore + 1) % ScoreMod
  /\ bSize' = IF bSize # MaxShadow THEN bSize + 1 ELSE bSize

EatShrinking(ball, random) ==
  /\ ~is_collision1(ball) /\ is_collision2(ball)
  /\ Scatter(ball, random)
  /\ rscore' = (rscore + 1) % ScoreMod
  /\ bSize' = IF bSize # 1 THEN bSize - 1 ELSE bSize

(* A frame of the start screen clears the score but not bSize. *)
ClearScore(ball, random) ==
  /\ Touched(ball) = {}
  /\ Scatter(ball, random)
  /\ rscore' = 0
  /\ UNCHANGED bSize

Idle(ball, random) ==
  /\ Touched(ball) = {}
  /\ Scatter(ball, random)
  /\ UNCHANGED <<rscore, bSize>>

(* A rising edge of frame_clk with Reset low. *)
Frame(ball, random, start_signal) ==
  \/ EatGrowing(ball, random)
  \/ EatShrinking(ball, random)
  \/ start_signal /\ ClearScore(ball, random)
  \/ ~start_signal /\ Idle(ball, random)

Next ==
  \/ Reset
  \/ \E ball \in Balls, random \in Randoms, start_signal \in BOOLEAN :
       Frame(ball, random, start_signal)

Spec == Init /\ [][Next]_vars

-----------------------------------------------------------------------------
(* Correctness. *)

(* The registers hold words of their widths and bSize stays in 1 .. 10 (the *)
(* limits of random_ball.sv:178 and 217), whatever frames touch dots.      *)
TypeOK ==
  /\ place \in [Dots -> Position]
  /\ bSize \in 1 .. MaxShadow
  /\ rscore \in 0 .. ScoreMod - 1

(***************************************************************************)
(* Dots that are touched in one frame land on one spot, because they read  *)
(* the same random words (random_ball.sv:451-593), and from then on they   *)
(* are touched together: two dots that coincide stay together until the    *)
(* reset button is pressed, and every such pair is one dot less to see.    *)
(***************************************************************************)
Coincide(d, e) == place[d] = place[e]

DotsStayTogether ==
  [][\A d, e \in Dots \ FullRange : Coincide(d, e) => Coincide(d, e)' \/ Reset]_vars

(***************************************************************************)
(* A dot that has been eaten lies in the corner of the arena the nine and  *)
(* eight random bits span, so it can be eaten again; only the dot that     *)
(* takes all ten bits may leave it (random_ball.sv:587-592).               *)
(***************************************************************************)
WithinReach ==
  \A d \in Dots \ FullRange :
    place[d] = DotHome[d] \/ (place[d].x < XCut /\ place[d].y < YCut)

=============================================================================
