-------------------------------- MODULE Game ---------------------------------
(***************************************************************************)
(* The game lab8.sv wires together: the screens, the player's ball, the    *)
(* dots and three enemies, all on one 50 MHz clock.  The screens change at *)
(* any clock edge, the rest only at the one that sees a new frame, so the  *)
(* player's click and an enemy's catch may come anywhere within a frame.   *)
(* Every wire is read as it was before the edge.                           *)
(***************************************************************************)
EXTENDS Words

CONSTANTS
  BallSetup,     \* the parameters of Ball, as a record
  DotSetup,      \* the parameters of RandomBall, as a record
  EnemySetup,    \* the parameters of the three enemies, as records
  ScoreMod,      \* the scores wrap here: 2^16 in the design
  Keycodes,      \* the keycodes the keyboard may deliver
  Randoms,       \* the pairs of words RandomX, RandomY may carry
  MaxFrames      \* bound: frames between two presses of the reset button

VARIABLES
  State,                                                   \* gamestate
  x, y, mx, my, xstep, ystep, size, progressx, progressy,  \* ball
  place, bSize, rscore,                                    \* random_ball
  x1, y1, mx1, my1, escore1,                               \* enemy_ball1
  x2, y2, mx2, my2, escore2,                               \* enemy_ball2
  x3, y3, mx3, my3, escore3                                \* enemy_ball3

VARIABLES
  frames,        \* history: frames since the reset button
  quiet,         \* history: the last frame was an undisturbed start screen
  putBack,       \* history: the ball was at its start since this game began
  outOfStep      \* history: the ball was put back alone, the dots' copy was not

ballVars  == <<x, y, mx, my, xstep, ystep, size, progressx, progressy>>
dotVars   == <<place, bSize, rscore>>
enemyVars == <<x1, y1, mx1, my1, escore1, x2, y2, mx2, my2, escore2,
               x3, y3, mx3, my3, escore3>>
history   == <<frames, quiet, putBack, outOfStep>>
vars      == <<State, ballVars, dotVars, enemyVars, history>>

(* What the wires between the parts can carry. *)
BallWires   == [x : Word, y : Word]
PlayerWires == [x : Word, y : Word, size : Word]

G == INSTANCE GameState

B == INSTANCE Ball WITH
  XMax <- BallSetup.XMax, YMax <- BallSetup.YMax,
  XCenter <- BallSetup.XCenter, YCenter <- BallSetup.YCenter,
  ScrollLeft <- BallSetup.ScrollLeft, ScrollRight <- BallSetup.ScrollRight,
  ScrollUp <- BallSetup.ScrollUp, ScrollDown <- BallSetup.ScrollDown,
  StartStep <- BallSetup.StartStep, MaxStep <- BallSetup.MaxStep,
  StartSize <- BallSetup.StartSize, MinSize <- BallSetup.MinSize,
  MaxSize <- BallSetup.MaxSize

D == INSTANCE RandomBall WITH
  Dots <- DOMAIN DotSetup.DotHome, Growing <- DotSetup.Growing,
  FullRange <- DotSetup.FullRange, DotHome <- DotSetup.DotHome,
  DotSize <- DotSetup.DotSize, XCut <- DotSetup.XCut, YCut <- DotSetup.YCut,
  StartShadow <- DotSetup.StartShadow, MaxShadow <- DotSetup.MaxShadow,
  Balls <- BallWires

E1 == INSTANCE EnemyBall WITH
  x <- x1, y <- y1, mx <- mx1, my <- my1, escore <- escore1,
  Size <- EnemySetup[1].Size, XMax <- EnemySetup[1].XMax,
  YMax <- EnemySetup[1].YMax, XCenter <- EnemySetup[1].XCenter,
  YCenter <- EnemySetup[1].YCenter, Respawn <- EnemySetup[1].Respawn,
  Bump <- 4, KeepXMotion <- FALSE, KeepYMotion <- TRUE, Players <- PlayerWires

E2 == INSTANCE EnemyBall WITH
  x <- x2, y <- y2, mx <- mx2, my <- my2, escore <- escore2,
  Size <- EnemySetup[2].Size, XMax <- EnemySetup[2].XMax,
  YMax <- EnemySetup[2].YMax, XCenter <- EnemySetup[2].XCenter,
  YCenter <- EnemySetup[2].YCenter, Respawn <- EnemySetup[2].Respawn,
  Bump <- 3, KeepXMotion <- FALSE, KeepYMotion <- FALSE, Players <- PlayerWires

E3 == INSTANCE EnemyBall WITH
  x <- x3, y <- y3, mx <- mx3, my <- my3, escore <- escore3,
  Size <- EnemySetup[3].Size, XMax <- EnemySetup[3].XMax,
  YMax <- EnemySetup[3].YMax, XCenter <- EnemySetup[3].XCenter,
  YCenter <- EnemySetup[3].YCenter, Respawn <- EnemySetup[3].Respawn,
  Bump <- 5, KeepXMotion <- TRUE, KeepYMotion <- FALSE, Players <- PlayerWires

(* The limits of the ball's radius (3 .. 10, 5 at the start) and those of   *)
(* the dots' copy (1 .. 10, 4 at the start) leave the same room for each.   *)
LimitsMatch ==
  /\ BallSetup.MinSize \in 1 .. 3
  /\ BallSetup.MaxSize - DotSetup.MaxShadow \in 0 .. 2
  /\ BallSetup.StartSize - DotSetup.StartShadow \in 0 .. 2

(* An enemy at home is in the band of a wall, where it catches nobody.      *)
HomeAtWall(enemy) ==
  \/ Add(enemy.YCenter, enemy.Size) >= enemy.YMax \/ enemy.YCenter <= enemy.Size
  \/ Add(enemy.XCenter, enemy.Size) >= enemy.XMax \/ enemy.XCenter <= enemy.Size

ASSUME GameAssumption ==
  /\ B!BallAssumption /\ D!DotAssumption
  /\ E1!EnemyAssumption /\ E2!EnemyAssumption /\ E3!EnemyAssumption
  /\ LimitsMatch
  /\ \A i \in 1 .. 3 : HomeAtWall(EnemySetup[i])
  /\ MaxFrames \in Nat

-----------------------------------------------------------------------------
(* The wires. *)

BallXY == [x |-> x, y |-> y]
Player == [x |-> x, y |-> y, size |-> size]

start_signal  == G!start_signal
is_collision1 == D!is_collision1(BallXY)
is_collision2 == D!is_collision2(BallXY)
gameover      == E1!gameover(Player) \/ E2!gameover(Player) \/ E3!gameover(Player)
someoneEaten  == E1!is_collision(Player) \/ E2!is_collision(Player) \/ E3!is_collision(Player)

score == (escore1 + escore2 + escore3 + rscore) % ScoreMod

-----------------------------------------------------------------------------
(* One clock edge. *)

Init ==
  /\ G!Init /\ B!Init /\ D!Home /\ E1!Home /\ E2!Home /\ E3!Home
  /\ frames = 0 /\ quiet = TRUE /\ putBack = FALSE /\ outOfStep = FALSE

(* Mutant of Screens: the third enemy is not wired to the screens. *)
ScreensOfTwo(press) ==
  G!Clock(E1!gameover(Player) \/ E2!gameover(Player), press)

Screens(press) == G!Clock(gameover, press)

Objects(keycode, random) ==
  /\ B!Frame(keycode, gameover, is_collision1, is_collision2, start_signal)
  /\ D!Frame(BallXY, random, start_signal)
  /\ E1!Frame(Player, start_signal)
  /\ E2!Frame(Player, start_signal)
  /\ E3!Frame(Player, start_signal)

(* The reset button. *)
PressReset ==
  /\ G!Reset /\ B!BackToStart /\ D!Reset /\ E1!Reset /\ E2!Reset /\ E3!Reset
  /\ frames' = 0 /\ quiet' = TRUE /\ putBack' = FALSE /\ outOfStep' = FALSE

(* A clock edge within a frame. *)
Tick(press) ==
  /\ Screens(press)
  /\ putBack' = (putBack /\ ~G!Play(press))
  /\ UNCHANGED <<ballVars, dotVars, enemyVars, frames, quiet, outOfStep>>

(* The frames that put the ball back. *)
PutsBack == gameover \/ (start_signal /\ ~is_collision1 /\ ~is_collision2)

(* Putting the ball back changes its radius, or a dot touched at that very  *)
(* edge changes the dots' copy, but not the other.                          *)
InStep == size = BallSetup.StartSize /\ ~is_collision1 /\ ~is_collision2

(* The clock edge that sees a new frame. *)
FrameTick(keycode, random, press) ==
  /\ frames < MaxFrames
  /\ Screens(press)
  /\ Objects(keycode, random)
  /\ frames' = frames + 1
  /\ quiet' = (start_signal /\ ~is_collision1 /\ ~is_collision2 /\ ~someoneEaten)
  /\ putBack' = ((putBack \/ B!Init') /\ ~G!Play(press))
  /\ outOfStep' = (outOfStep \/ (PutsBack /\ ~InStep))

Next ==
  \/ PressReset
  \/ \E press \in G!Press :
       \/ Tick(press)
       \/ \E keycode \in Keycodes, random \in Randoms :
            FrameTick(keycode, random, press)

Spec == Init /\ [][Next]_vars

-----------------------------------------------------------------------------
(* Correctness. *)

(***************************************************************************)
(* Every part has its own reset branch for the start screen, each below    *)
(* its own contact branches (ball.sv:144, random_ball.sv:221,              *)
(* enemy_ball.sv:90), so one frame of the start screen may reset some      *)
(* parts and not others.  After a frame of it that nothing disturbed a     *)
(* game can begin: the ball is at its start, the enemies are at home, the  *)
(* score is zero and nobody is caught.                                     *)
(***************************************************************************)
AtHome ==
  /\ B!Init
  /\ <<x1, y1>> = <<EnemySetup[1].XCenter, EnemySetup[1].YCenter>>
  /\ <<x2, y2>> = <<EnemySetup[2].XCenter, EnemySetup[2].YCenter>>
  /\ <<x3, y3>> = <<EnemySetup[3].XCenter, EnemySetup[3].YCenter>>

FreshStart == quiet => AtHome /\ score = 0 /\ ~gameover

(***************************************************************************)
(* A catch is a wire that the screens read at once and the ball only at    *)
(* the next frame.  It cannot be lost on the way: on the game-over screen  *)
(* the ball has been put back, or an enemy still has it.                   *)
(***************************************************************************)
CaughtIsPutBack == G!gameover_signal => putBack \/ gameover

(***************************************************************************)
(* While the game goes on the ball only rolls: no frame puts it back       *)
(* without the screens leaving the game at that edge.                      *)
(***************************************************************************)
Rolls ==
  \/ <<x', y'>> = <<x, y>>
  \/ <<x', y'>> = <<Add(x, mx), Add(y, my)>>

InGameRolls == [][G!ingame_signal /\ G!ingame_signal' => Rolls]_vars

(***************************************************************************)
(* The dots keep their own copy of the ball's radius (random_ball.sv:45),  *)
(* with limits of its own and no branch for gameover or the start screen.  *)
(* Until a frame puts the ball back from another radius, or at the edge at *)
(* which it touches a dot, the copy is the radius less one, give or take   *)
(* one at the limits.                                                      *)
(***************************************************************************)
ShadowSize == ~outOfStep => size - bSize \in 0 .. 2

=============================================================================
