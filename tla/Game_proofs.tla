----------------------------- MODULE Game_proofs ------------------------------
(***************************************************************************)
(* Proofs about the whole game, for every setting of its parts: what the   *)
(* screens and the ball make of the same catch, read at different clock    *)
(* edges, and that the game implements the specification of each part, so  *)
(* that what is proved of the parts holds in the game.                     *)
(***************************************************************************)
EXTENDS Game, TLAPS

(* At a clock edge within a frame, the wire keeps its value.               *)
LEMMA CatchIsHeld ==
  ASSUME UNCHANGED <<ballVars, enemyVars>>
  PROVE  gameover' = gameover
<1>1. /\ x' = x /\ y' = y /\ size' = size
      /\ x1' = x1 /\ y1' = y1 /\ x2' = x2 /\ y2' = y2 /\ x3' = x3 /\ y3' = y3
  BY DEF ballVars, enemyVars
<1>2. Player' = Player
  BY <1>1 DEF Player
<1>3. E1!Contact(Player)' = E1!Contact(Player)
  BY <1>1, <1>2 DEF E1!Contact, E1!AtWall, E1!AtBottom, E1!AtTop, E1!AtRight, E1!AtLeft
<1>4. E2!Contact(Player)' = E2!Contact(Player)
  BY <1>1, <1>2 DEF E2!Contact, E2!AtWall, E2!AtBottom, E2!AtTop, E2!AtRight, E2!AtLeft
<1>5. E3!Contact(Player)' = E3!Contact(Player)
  BY <1>1, <1>2 DEF E3!Contact, E3!AtWall, E3!AtBottom, E3!AtTop, E3!AtRight, E3!AtLeft
<1>6. QED
  BY <1>2, <1>3, <1>4, <1>5 DEF gameover, E1!gameover, E2!gameover, E3!gameover

(* The game-over screen is reached from the game, by a catch, or it stays. *)
LEMMA OverScreen ==
  ASSUME NEW press, Screens(press), G!gameover_signal'
  PROVE  gameover \/ G!gameover_signal
  BY DEF Screens, G!Clock, G!Play, G!Lose, G!Again, G!Stay, G!gameover_signal

(* No click leads to a game while the game-over screen is shown next.      *)
LEMMA OverIsNoGame ==
  ASSUME NEW press, G!gameover_signal'
  PROVE  ~G!Play(press)
  BY DEF G!Play, G!gameover_signal

LEMMA TickKeeps ==
  ASSUME CaughtIsPutBack, NEW press, Tick(press)
  PROVE  CaughtIsPutBack'
<1> SUFFICES ASSUME G!gameover_signal'
             PROVE  putBack' \/ gameover'
  BY DEF CaughtIsPutBack
<1>1. Screens(press) /\ gameover' = gameover
  BY CatchIsHeld DEF Tick
<1>2. putBack => putBack'
  BY OverIsNoGame DEF Tick
<1>3. QED
  BY <1>1, <1>2, OverScreen DEF CaughtIsPutBack

LEMMA FrameTickKeeps ==
  ASSUME CaughtIsPutBack, NEW keycode, NEW random, NEW press,
         FrameTick(keycode, random, press)
  PROVE  CaughtIsPutBack'
<1> SUFFICES ASSUME G!gameover_signal'
             PROVE  putBack'
  BY DEF CaughtIsPutBack
<1>1. putBack' = (putBack \/ B!Init')
  BY OverIsNoGame DEF FrameTick
<1>2. gameover => B!BackToStart
  BY DEF FrameTick, Objects, B!Frame
<1>3. B!BackToStart => B!Init'
  BY DEF B!BackToStart, B!Init
<1>4. gameover \/ G!gameover_signal
  BY OverScreen DEF FrameTick
<1>5. CASE gameover
  BY <1>1, <1>2, <1>3, <1>5
<1>6. CASE ~gameover
  BY <1>1, <1>4, <1>6 DEF CaughtIsPutBack
<1>7. QED
  BY <1>5, <1>6

LEMMA NextKeeps == CaughtIsPutBack /\ [Next]_vars => CaughtIsPutBack'
<1> SUFFICES ASSUME CaughtIsPutBack, [Next]_vars
             PROVE  CaughtIsPutBack'
  OBVIOUS
<1>1. CASE PressReset
  BY <1>1 DEF PressReset, G!Reset, CaughtIsPutBack, G!gameover_signal
<1>2. CASE UNCHANGED vars
  <2>1. UNCHANGED <<ballVars, enemyVars>> /\ State' = State /\ putBack' = putBack
    BY <1>2 DEF vars, history
  <2>2. QED
    BY <2>1, CatchIsHeld DEF CaughtIsPutBack, G!gameover_signal
<1>3. QED
  BY <1>1, <1>2, TickKeeps, FrameTickKeeps DEF Next

(***************************************************************************)
(* A catch is never lost between the screens, which see it at once, and    *)
(* the ball, which sees it at the next frame.                              *)
(***************************************************************************)
THEOREM CaughtIsPutBackHolds == Spec => []CaughtIsPutBack
<1>1. Init => CaughtIsPutBack
  BY DEF Init, G!Init, CaughtIsPutBack, G!gameover_signal
<1>2. QED
  BY <1>1, NextKeeps, PTL DEF Spec

-----------------------------------------------------------------------------
(* A game that goes on is one in which nobody is caught.                   *)
LEMMA GameGoesOn ==
  ASSUME NEW press, Screens(press), G!ingame_signal, G!ingame_signal'
  PROVE  ~gameover /\ ~start_signal
  BY DEF Screens, G!Clock, G!Play, G!Lose, G!Again, G!Stay, G!ingame_signal,
         start_signal, G!start_signal

LEMMA StepRolls ==
  ASSUME [Next]_vars
  PROVE  [G!ingame_signal /\ G!ingame_signal' => Rolls]_vars
<1> SUFFICES ASSUME Next, G!ingame_signal, G!ingame_signal'
             PROVE  Rolls
  OBVIOUS
<1>1. CASE PressReset
  BY <1>1 DEF PressReset, G!Reset, G!ingame_signal
<1>2. ASSUME NEW press, Tick(press)
      PROVE  Rolls
  BY <1>2 DEF Tick, ballVars, Rolls
<1>3. ASSUME NEW keycode, NEW random, NEW press, FrameTick(keycode, random, press)
      PROVE  Rolls
  <2>1. ~gameover /\ ~start_signal
    BY <1>3, GameGoesOn DEF FrameTick
  <2>2. B!Frame(keycode, gameover, is_collision1, is_collision2, start_signal)
    BY <1>3 DEF FrameTick, Objects
  <2>3. B!Advance(keycode)
    BY <2>1, <2>2 DEF B!Frame, B!Grow, B!Shrink, B!Roll
  <2>4. QED
    BY <2>3 DEF B!Advance, B!Add, Add, Rolls
<1>4. QED
  BY <1>1, <1>2, <1>3 DEF Next

(***************************************************************************)
(* While the game goes on no frame takes the ball anywhere but along its   *)
(* motion.                                                                 *)
(***************************************************************************)
THEOREM InGameRollsHolds == Spec => InGameRolls
  BY StepRolls, PTL DEF Spec, InGameRolls

-----------------------------------------------------------------------------
(* Enemies at home catch nobody, wherever the player is.                   *)
LEMMA SafeAtHome ==
  ASSUME AtHome
  PROVE  ~gameover
<1>1. E1!AtWall
  BY GameAssumption DEF GameAssumption, HomeAtWall, AtHome, Add, E1!Add,
     E1!AtWall, E1!AtBottom, E1!AtTop, E1!AtRight, E1!AtLeft
<1>2. E2!AtWall
  BY GameAssumption DEF GameAssumption, HomeAtWall, AtHome, Add, E2!Add,
     E2!AtWall, E2!AtBottom, E2!AtTop, E2!AtRight, E2!AtLeft
<1>3. E3!AtWall
  BY GameAssumption DEF GameAssumption, HomeAtWall, AtHome, Add, E3!Add,
     E3!AtWall, E3!AtBottom, E3!AtTop, E3!AtRight, E3!AtLeft
<1>4. QED
  BY <1>1, <1>2, <1>3 DEF gameover, E1!gameover, E2!gameover, E3!gameover,
     E1!Contact, E2!Contact, E3!Contact

(* The score is zero when each part of it is.                              *)
NoPoints == escore1 = 0 /\ escore2 = 0 /\ escore3 = 0 /\ rscore = 0

LEMMA NoScore == NoPoints => score = 0
<1>1. ScoreMod \in Nat \ {0}
  BY GameAssumption DEF GameAssumption, D!DotAssumption
<1>2. 0 % ScoreMod = 0
  BY <1>1
<1>3. QED
  BY <1>2 DEF NoPoints, score

Fresh == quiet => AtHome /\ NoPoints

LEMMA FreshIsFreshStart == Fresh => FreshStart
  BY NoScore, SafeAtHome DEF Fresh, FreshStart

(* An undisturbed frame of the start screen sends everything home.         *)
LEMMA QuietFrame ==
  ASSUME NEW keycode, NEW random, Objects(keycode, random),
         start_signal, ~is_collision1, ~is_collision2, ~someoneEaten
  PROVE  AtHome' /\ NoPoints'
<1>1. B!BackToStart
  BY DEF Objects, B!Frame
<1>2. D!ClearScore(BallXY, random)
  BY DEF Objects, D!Frame, D!EatGrowing, D!EatShrinking, is_collision1, is_collision2
<1>3. E1!GoHome(Player)
  BY DEF Objects, E1!Frame, E1!Eaten, someoneEaten
<1>4. E2!GoHome(Player)
  BY DEF Objects, E2!Frame, E2!Eaten, someoneEaten
<1>5. E3!GoHome(Player)
  BY DEF Objects, E3!Frame, E3!Eaten, someoneEaten
<1>6. NoPoints'
  BY <1>2, <1>3, <1>4, <1>5 DEF NoPoints, D!ClearScore, E1!GoHome, E2!GoHome, E3!GoHome
<1>7. AtHome'
  BY <1>1, <1>3, <1>4, <1>5 DEF AtHome, B!BackToStart, B!Init, E1!GoHome, E2!GoHome, E3!GoHome
<1>8. QED
  BY <1>6, <1>7

LEMMA FreshNext == Fresh /\ [Next]_vars => Fresh'
<1> SUFFICES ASSUME Fresh, [Next]_vars
             PROVE  Fresh'
  OBVIOUS
<1>1. CASE PressReset
  BY <1>1 DEF PressReset, Fresh, AtHome, NoPoints, B!BackToStart, B!Init, D!Reset,
     E1!Reset, E2!Reset, E3!Reset
<1>2. CASE UNCHANGED <<ballVars, dotVars, enemyVars, quiet>>
  BY <1>2 DEF ballVars, dotVars, enemyVars, Fresh, AtHome, NoPoints, B!Init
<1>3. ASSUME NEW press, Tick(press)
      PROVE  Fresh'
  BY <1>2, <1>3 DEF Tick
<1>4. CASE UNCHANGED vars
  BY <1>2, <1>4 DEF vars, history
<1>5. ASSUME NEW keycode, NEW random, NEW press, FrameTick(keycode, random, press)
      PROVE  Fresh'
  BY <1>5, QuietFrame DEF FrameTick, Fresh
<1>6. QED
  BY <1>1, <1>3, <1>4, <1>5 DEF Next

(***************************************************************************)
(* After a frame of the start screen that nothing disturbed, a new game    *)
(* can begin: whatever happened before has left no trace.                  *)
(***************************************************************************)
THEOREM FreshStartHolds == Spec => []FreshStart
<1>1. Init => Fresh
  BY DEF Init, Fresh, AtHome, NoPoints, D!Home, E1!Home, E2!Home, E3!Home
<1>2. QED
  BY <1>1, FreshNext, FreshIsFreshStart, PTL DEF Spec

-----------------------------------------------------------------------------
(* The ball's radius and the dots' copy, each within its own limits, and   *)
(* linked until a frame puts back one without the other.                   *)
Radii ==
  /\ size \in BallSetup.MinSize .. BallSetup.MaxSize
  /\ bSize \in 1 .. DotSetup.MaxShadow
  /\ ShadowSize

(* What the settings say of the two radii. *)
LEMMA RadiusLimits ==
  /\ BallSetup.MinSize \in 1 .. 3
  /\ BallSetup.MaxSize \in Nat
  /\ BallSetup.StartSize \in BallSetup.MinSize .. BallSetup.MaxSize
  /\ DotSetup.MaxShadow \in Nat /\ DotSetup.StartShadow \in 1 .. DotSetup.MaxShadow
  /\ BallSetup.MaxSize - DotSetup.MaxShadow \in 0 .. 2
  /\ BallSetup.StartSize - DotSetup.StartShadow \in 0 .. 2
  BY GameAssumption DEF GameAssumption, LimitsMatch, B!BallAssumption, B!Word, D!DotAssumption

(* A frame that grows both, or shrinks both, keeps them linked: where one  *)
(* is stopped by its limit the other is within two of it.                  *)
LEMMA GrowKeepsRadii ==
  ASSUME Radii, NEW keycode, NEW random,
         B!Grow(keycode), D!EatGrowing(BallXY, random), outOfStep => outOfStep'
  PROVE  Radii'
  BY RadiusLimits DEF Radii, ShadowSize, B!Grow, D!EatGrowing

LEMMA ShrinkKeepsRadii ==
  ASSUME Radii, NEW keycode, NEW random,
         B!Shrink(keycode), D!EatShrinking(BallXY, random), outOfStep => outOfStep'
  PROVE  Radii'
  BY RadiusLimits DEF Radii, ShadowSize, B!Shrink, D!EatShrinking

(* Whatever a frame does, the dots' copy stays within its limits.          *)
LEMMA CopyInRange ==
  ASSUME bSize \in 1 .. DotSetup.MaxShadow, NEW random, D!Frame(BallXY, random, start_signal)
  PROVE  bSize' \in 1 .. DotSetup.MaxShadow
  BY RadiusLimits DEF D!Frame, D!EatGrowing, D!EatShrinking, D!ClearScore, D!Idle

(* A frame that touches no dot leaves the copy alone.                      *)
LEMMA CopyStays ==
  ASSUME NEW random, D!Frame(BallXY, random, start_signal),
         ~is_collision1, ~is_collision2
  PROVE  bSize' = bSize
  BY DEF D!Frame, D!EatGrowing, D!EatShrinking, D!ClearScore, D!Idle,
     is_collision1, is_collision2

(* Putting the ball back keeps the link, or the history records its loss.  *)
LEMMA BackKeepsRadii ==
  ASSUME Radii, NEW random, B!BackToStart, D!Frame(BallXY, random, start_signal),
         outOfStep' = (outOfStep \/ ~InStep)
  PROVE  Radii'
<1>1. size' = BallSetup.StartSize
  BY DEF B!BackToStart
<1>2. bSize' \in 1 .. DotSetup.MaxShadow
  BY CopyInRange DEF Radii
<1>3. CASE ~outOfStep /\ InStep
  BY <1>1, <1>2, <1>3, CopyStays, RadiusLimits DEF Radii, ShadowSize, InStep
<1>4. CASE outOfStep \/ ~InStep
  BY <1>1, <1>2, <1>4, RadiusLimits DEF Radii, ShadowSize
<1>5. QED
  BY <1>3, <1>4

LEMMA FrameTickKeepsRadii ==
  ASSUME Radii, NEW keycode, NEW random, NEW press, FrameTick(keycode, random, press)
  PROVE  Radii'
<1>1. /\ B!Frame(keycode, gameover, is_collision1, is_collision2, start_signal)
      /\ D!Frame(BallXY, random, start_signal)
      /\ outOfStep' = (outOfStep \/ (PutsBack /\ ~InStep))
  BY DEF FrameTick, Objects
<1>2. CASE PutsBack
  <2>1. B!BackToStart
    BY <1>1, <1>2 DEF PutsBack, B!Frame
  <2>2. QED
    BY <1>1, <1>2, <2>1, BackKeepsRadii
<1>3. CASE ~PutsBack /\ is_collision1
  <2>1. B!Grow(keycode)
    BY <1>1, <1>3 DEF PutsBack, B!Frame
  <2>2. D!EatGrowing(BallXY, random)
    BY <1>1, <1>3 DEF is_collision1, D!Frame, D!EatGrowing, D!EatShrinking,
       D!ClearScore, D!Idle, D!is_collision1
  <2>3. outOfStep => outOfStep'
    BY <1>1
  <2>4. QED
    BY <2>1, <2>2, <2>3, GrowKeepsRadii
<1>4. CASE ~PutsBack /\ ~is_collision1 /\ is_collision2
  <2>1. B!Shrink(keycode)
    BY <1>1, <1>4 DEF PutsBack, B!Frame
  <2>2. D!EatShrinking(BallXY, random)
    BY <1>1, <1>4 DEF is_collision1, is_collision2, D!Frame, D!EatGrowing, D!EatShrinking,
       D!ClearScore, D!Idle, D!is_collision1, D!is_collision2
  <2>3. outOfStep => outOfStep'
    BY <1>1
  <2>4. QED
    BY <2>1, <2>2, <2>3, ShrinkKeepsRadii
<1>5. CASE ~PutsBack /\ ~is_collision1 /\ ~is_collision2
  <2>1. size' = size
    BY <1>1, <1>5 DEF PutsBack, B!Frame, B!Roll, B!build
  <2>2. bSize' = bSize
    BY <1>1, <1>5, CopyStays
  <2>3. outOfStep => outOfStep'
    BY <1>1
  <2>4. QED
    BY <2>1, <2>2, <2>3 DEF Radii, ShadowSize
<1>6. QED
  BY <1>2, <1>3, <1>4, <1>5

LEMMA RadiiNext == Radii /\ [Next]_vars => Radii'
<1> SUFFICES ASSUME Radii, [Next]_vars
             PROVE  Radii'
  OBVIOUS
<1>1. CASE PressReset
  BY <1>1, RadiusLimits DEF PressReset, B!BackToStart, D!Reset, Radii, ShadowSize
<1>2. CASE UNCHANGED <<ballVars, dotVars, outOfStep>>
  BY <1>2 DEF ballVars, dotVars, Radii, ShadowSize
<1>3. ASSUME NEW press, Tick(press)
      PROVE  Radii'
  BY <1>2, <1>3 DEF Tick
<1>4. CASE UNCHANGED vars
  BY <1>2, <1>4 DEF vars, history
<1>5. QED
  BY <1>1, <1>3, <1>4, FrameTickKeepsRadii DEF Next

(***************************************************************************)
(* The dots' copy of the radius follows the ball's for as long as no frame *)
(* puts the ball back alone, whatever dots are eaten in what order.        *)
(***************************************************************************)
THEOREM ShadowSizeHolds == Spec => []ShadowSize
<1>1. Init => Radii
  BY RadiusLimits DEF Init, B!Init, D!Home, Radii, ShadowSize
<1>2. QED
  BY <1>1, RadiiNext, PTL DEF Spec, Radii

-----------------------------------------------------------------------------
(* The parts, with what is proved of each on its own. *)

BP == INSTANCE Ball_proofs WITH
  XMax <- BallSetup.XMax, YMax <- BallSetup.YMax,
  XCenter <- BallSetup.XCenter, YCenter <- BallSetup.YCenter,
  ScrollLeft <- BallSetup.ScrollLeft, ScrollRight <- BallSetup.ScrollRight,
  ScrollUp <- BallSetup.ScrollUp, ScrollDown <- BallSetup.ScrollDown,
  StartStep <- BallSetup.StartStep, MaxStep <- BallSetup.MaxStep,
  StartSize <- BallSetup.StartSize, MinSize <- BallSetup.MinSize,
  MaxSize <- BallSetup.MaxSize

DP == INSTANCE RandomBall_proofs WITH
  Dots <- DOMAIN DotSetup.DotHome, Growing <- DotSetup.Growing,
  FullRange <- DotSetup.FullRange, DotHome <- DotSetup.DotHome,
  DotSize <- DotSetup.DotSize, XCut <- DotSetup.XCut, YCut <- DotSetup.YCut,
  StartShadow <- DotSetup.StartShadow, MaxShadow <- DotSetup.MaxShadow,
  Balls <- BallWires

E1P == INSTANCE EnemyBall_proofs WITH
  x <- x1, y <- y1, mx <- mx1, my <- my1, escore <- escore1,
  Size <- EnemySetup[1].Size, XMax <- EnemySetup[1].XMax,
  YMax <- EnemySetup[1].YMax, XCenter <- EnemySetup[1].XCenter,
  YCenter <- EnemySetup[1].YCenter, Respawn <- EnemySetup[1].Respawn,
  Bump <- 4, KeepXMotion <- FALSE, KeepYMotion <- TRUE, Players <- PlayerWires

E2P == INSTANCE EnemyBall_proofs WITH
  x <- x2, y <- y2, mx <- mx2, my <- my2, escore <- escore2,
  Size <- EnemySetup[2].Size, XMax <- EnemySetup[2].XMax,
  YMax <- EnemySetup[2].YMax, XCenter <- EnemySetup[2].XCenter,
  YCenter <- EnemySetup[2].YCenter, Respawn <- EnemySetup[2].Respawn,
  Bump <- 3, KeepXMotion <- FALSE, KeepYMotion <- FALSE, Players <- PlayerWires

E3P == INSTANCE EnemyBall_proofs WITH
  x <- x3, y <- y3, mx <- mx3, my <- my3, escore <- escore3,
  Size <- EnemySetup[3].Size, XMax <- EnemySetup[3].XMax,
  YMax <- EnemySetup[3].YMax, XCenter <- EnemySetup[3].XCenter,
  YCenter <- EnemySetup[3].YCenter, Respawn <- EnemySetup[3].Respawn,
  Bump <- 5, KeepXMotion <- TRUE, KeepYMotion <- FALSE, Players <- PlayerWires

(* The settings are ones for which each part was proved.                   *)
LEMMA BallSettings == BP!WordAssumption /\ BP!BallAssumption
<1>1. BP!WordAssumption
  BY WordAssumption DEF BP!WordAssumption
<1>2. BP!BallAssumption
  BY GameAssumption DEF GameAssumption, B!BallAssumption, BP!BallAssumption, B!Word, BP!Word,
     B!Keycode, BP!Keycode, B!KeyByte, BP!KeyByte
<1>3. QED
  BY <1>1, <1>2

LEMMA DotSettings == DP!WordAssumption /\ DP!DotAssumption
<1>1. DP!WordAssumption
  BY WordAssumption DEF DP!WordAssumption
<1>2. DP!DotAssumption
  BY GameAssumption DEF GameAssumption, D!DotAssumption, DP!DotAssumption, D!Word, DP!Word,
     D!Position, DP!Position
<1>3. QED
  BY <1>1, <1>2

LEMMA EnemySettings ==
  /\ E1P!WordAssumption /\ E1P!EnemyAssumption
  /\ E2P!WordAssumption /\ E2P!EnemyAssumption
  /\ E3P!WordAssumption /\ E3P!EnemyAssumption
<1>1. E1P!WordAssumption /\ E2P!WordAssumption /\ E3P!WordAssumption
  BY WordAssumption DEF E1P!WordAssumption, E2P!WordAssumption, E3P!WordAssumption
<1>2. E1P!EnemyAssumption
  BY GameAssumption DEF GameAssumption, E1!EnemyAssumption, E1P!EnemyAssumption,
     E1!Word, E1P!Word, E1!Player, E1P!Player
<1>3. E2P!EnemyAssumption
  BY GameAssumption DEF GameAssumption, E2!EnemyAssumption, E2P!EnemyAssumption,
     E2!Word, E2P!Word, E2!Player, E2P!Player
<1>4. E3P!EnemyAssumption
  BY GameAssumption DEF GameAssumption, E3!EnemyAssumption, E3P!EnemyAssumption,
     E3!Word, E3P!Word, E3!Player, E3P!Player
<1>5. QED
  BY <1>1, <1>2, <1>3, <1>4

(* The instance with the proofs is the one the game is built from.         *)
LEMMA SameBall ==
  /\ BP!Spec <=> B!Spec
  /\ BP!TypeOK <=> B!TypeOK
  /\ BP!Agility <=> B!Agility
  /\ BP!CameraBounded <=> B!CameraBounded
  /\ BP!NeverStops <=> B!NeverStops
<1>1. ASSUME NEW keycode
      PROVE  BP!Advance(keycode) <=> B!Advance(keycode)
  BY DEF BP!Advance, B!Advance, BP!Add, B!Add, BP!XMotionIn, B!XMotionIn,
     BP!YMotionIn, B!YMotionIn, BP!Scroll, B!Scroll, BP!AtBottom, B!AtBottom,
     BP!AtTop, B!AtTop, BP!AtRight, B!AtRight, BP!AtLeft, B!AtLeft, BP!Steering,
     B!Steering, BP!UpDown, B!UpDown, BP!LeftRight, B!LeftRight, BP!Diagonal,
     B!Diagonal, BP!XKept, B!XKept, BP!YKept, B!YKept, BP!Neg, B!Neg,
     BP!IsNegative, B!IsNegative
<1>2. BP!BackToStart <=> B!BackToStart
  BY DEF BP!BackToStart, B!BackToStart
<1>3. BP!Next <=> B!Next
  BY <1>1, <1>2 DEF BP!Next, B!Next, BP!Grow, B!Grow, BP!Shrink, B!Shrink, BP!Roll, B!Roll,
     BP!build, B!build
<1>4. BP!Init <=> B!Init
  BY DEF BP!Init, B!Init
<1>5. [BP!Next]_(BP!vars) <=> [B!Next]_(B!vars)
  BY <1>3 DEF BP!vars, B!vars
<1>6. BP!Spec <=> B!Spec
  BY <1>4, <1>5, PTL DEF BP!Spec, B!Spec
<1>7. BP!TypeOK <=> B!TypeOK
  BY DEF BP!TypeOK, B!TypeOK, BP!Word, B!Word, BP!Motion, B!Motion
<1>8. BP!Agility <=> B!Agility
  BY DEF BP!Agility, B!Agility
<1>9. BP!CameraBounded <=> B!CameraBounded
  BY DEF BP!CameraBounded, B!CameraBounded, BP!CameraRange, B!CameraRange
<1>10. [~BP!Rests => ~BP!Rests' \/ BP!BackToStart]_(BP!vars)
         <=> [~B!Rests => ~B!Rests' \/ B!BackToStart]_(B!vars)
  BY <1>2 DEF BP!Rests, B!Rests, BP!vars, B!vars
<1>11. BP!NeverStops <=> B!NeverStops
  BY <1>10, PTL DEF BP!NeverStops, B!NeverStops
<1>12. QED
  BY <1>6, <1>7, <1>8, <1>9, <1>11

LEMMA SameDots ==
  /\ DP!Spec <=> D!Spec
  /\ DP!TypeOK <=> D!TypeOK
  /\ DP!WithinReach <=> D!WithinReach
  /\ DP!DotsStayTogether <=> D!DotsStayTogether
<1>1. ASSUME NEW ball
      PROVE  DP!Touched(ball) = D!Touched(ball)
  BY DEF DP!Touched, D!Touched, DP!Within, D!Within, DP!SquaredDistance,
     D!SquaredDistance
<1>2. ASSUME NEW ball, NEW random
      PROVE  DP!Scatter(ball, random) <=> D!Scatter(ball, random)
  BY <1>1 DEF DP!Scatter, D!Scatter, DP!NewPlace, D!NewPlace
<1>3. ASSUME NEW ball, NEW random, NEW start
      PROVE  DP!Frame(ball, random, start) <=> D!Frame(ball, random, start)
  BY <1>1, <1>2 DEF DP!Frame, D!Frame, DP!EatGrowing, D!EatGrowing, DP!EatShrinking,
     D!EatShrinking, DP!ClearScore, D!ClearScore, DP!Idle, D!Idle,
     DP!is_collision1, D!is_collision1, DP!is_collision2, D!is_collision2
<1>4. DP!Reset <=> D!Reset
  BY DEF DP!Reset, D!Reset
<1>5. DP!Next <=> D!Next
  BY <1>3, <1>4 DEF DP!Next, D!Next
<1>6. DP!Init <=> D!Init
  BY DEF DP!Init, D!Init, DP!Home, D!Home, DP!PowerUp, D!PowerUp
<1>7. [DP!Next]_(DP!vars) <=> [D!Next]_(D!vars)
  BY <1>5 DEF DP!vars, D!vars
<1>8. DP!Spec <=> D!Spec
  BY <1>6, <1>7, PTL DEF DP!Spec, D!Spec
<1>9. DP!TypeOK <=> D!TypeOK
  BY DEF DP!TypeOK, D!TypeOK, DP!Position, D!Position, DP!Word, D!Word
<1>10. DP!WithinReach <=> D!WithinReach
  BY DEF DP!WithinReach, D!WithinReach
<1>11. LET Dots == DOMAIN DotSetup.DotHome
           Full == DotSetup.FullRange
       IN  [\A d, e \in Dots \ Full :
              DP!Coincide(d, e) => DP!Coincide(d, e)' \/ DP!Reset]_(DP!vars)
            <=> [\A d, e \in Dots \ Full :
                   D!Coincide(d, e) => D!Coincide(d, e)' \/ D!Reset]_(D!vars)
  BY <1>4 DEF DP!Coincide, D!Coincide, DP!vars, D!vars
<1>12. DP!DotsStayTogether <=> D!DotsStayTogether
  BY <1>11, PTL DEF DP!DotsStayTogether, D!DotsStayTogether
<1>13. QED
  BY <1>8, <1>9, <1>10, <1>12

LEMMA SameEnemy1 ==
  /\ E1P!Spec <=> E1!Spec
  /\ E1P!Confined <=> E1!Confined
  /\ E1P!UnitMotion <=> E1!UnitMotion
  /\ E1P!Glides <=> E1!Glides
<1>1. ASSUME NEW p
      PROVE  E1P!Contact(p) <=> E1!Contact(p)
  BY DEF E1P!Contact, E1!Contact, E1P!AtWall, E1!AtWall, E1P!AtBottom, E1!AtBottom,
     E1P!AtTop, E1!AtTop, E1P!AtRight, E1!AtRight, E1P!AtLeft, E1!AtLeft, E1P!Add,
     E1!Add, E1P!Within, E1!Within, E1P!SquaredDistance, E1!SquaredDistance
<1>2. ASSUME NEW p
      PROVE  E1P!XMotionIn(p) = E1!XMotionIn(p) /\ E1P!YMotionIn(p) = E1!YMotionIn(p)
  BY <1>1 DEF E1P!XMotionIn, E1!XMotionIn, E1P!YMotionIn, E1!YMotionIn, E1P!AtBottom,
     E1!AtBottom, E1P!AtTop, E1!AtTop, E1P!AtRight, E1!AtRight, E1P!AtLeft,
     E1!AtLeft, E1P!Add, E1!Add, E1P!Steer, E1!Steer, E1P!Toward, E1!Toward,
     E1P!MinusOne, E1!MinusOne
<1>3. ASSUME NEW p, NEW start
      PROVE  E1P!Frame(p, start) <=> E1!Frame(p, start)
  BY <1>1, <1>2 DEF E1P!Frame, E1!Frame, E1P!Eaten, E1!Eaten, E1P!GoHome, E1!GoHome, E1P!Move,
     E1!Move, E1P!is_collision, E1!is_collision, E1P!Add, E1!Add
<1>4. E1P!Next <=> E1!Next
  BY <1>3 DEF E1P!Next, E1!Next, E1P!Reset, E1!Reset
<1>5. E1P!Init <=> E1!Init
  BY DEF E1P!Init, E1!Init, E1P!Home, E1!Home, E1P!PowerUp, E1!PowerUp
<1>6. [E1P!Next]_(E1P!vars) <=> [E1!Next]_(E1!vars)
  BY <1>4 DEF E1P!vars, E1!vars
<1>7. E1P!Spec <=> E1!Spec
  BY <1>5, <1>6, PTL DEF E1P!Spec, E1!Spec
<1>8. E1P!Confined <=> E1!Confined
  BY DEF E1P!Confined, E1!Confined, E1P!XHigh, E1!XHigh, E1P!YHigh, E1!YHigh,
     E1P!Larger, E1!Larger
<1>9. E1P!UnitMotion <=> E1!UnitMotion
  BY DEF E1P!UnitMotion, E1!UnitMotion, E1P!MinusOne, E1!MinusOne
<1>10. [E1P!Glide]_(E1P!vars) <=> [E1!Glide]_(E1!vars)
  BY DEF E1P!vars, E1!vars, E1P!Glide, E1!Glide, E1P!Near, E1!Near
<1>11. E1P!Glides <=> E1!Glides
  BY <1>10, PTL DEF E1P!Glides, E1!Glides
<1>12. QED
  BY <1>7, <1>8, <1>9, <1>11

LEMMA SameEnemy2 ==
  /\ E2P!Spec <=> E2!Spec
  /\ E2P!Confined <=> E2!Confined
  /\ E2P!UnitMotion <=> E2!UnitMotion
  /\ E2P!Glides <=> E2!Glides
<1>1. ASSUME NEW p
      PROVE  E2P!Contact(p) <=> E2!Contact(p)
  BY DEF E2P!Contact, E2!Contact, E2P!AtWall, E2!AtWall, E2P!AtBottom, E2!AtBottom,
     E2P!AtTop, E2!AtTop, E2P!AtRight, E2!AtRight, E2P!AtLeft, E2!AtLeft, E2P!Add,
     E2!Add, E2P!Within, E2!Within, E2P!SquaredDistance, E2!SquaredDistance
<1>2. ASSUME NEW p
      PROVE  E2P!XMotionIn(p) = E2!XMotionIn(p) /\ E2P!YMotionIn(p) = E2!YMotionIn(p)
  BY <1>1 DEF E2P!XMotionIn, E2!XMotionIn, E2P!YMotionIn, E2!YMotionIn, E2P!AtBottom,
     E2!AtBottom, E2P!AtTop, E2!AtTop, E2P!AtRight, E2!AtRight, E2P!AtLeft,
     E2!AtLeft, E2P!Add, E2!Add, E2P!Steer, E2!Steer, E2P!Toward, E2!Toward,
     E2P!MinusOne, E2!MinusOne
<1>3. ASSUME NEW p, NEW start
      PROVE  E2P!Frame(p, start) <=> E2!Frame(p, start)
  BY <1>1, <1>2 DEF E2P!Frame, E2!Frame, E2P!Eaten, E2!Eaten, E2P!GoHome, E2!GoHome, E2P!Move,
     E2!Move, E2P!is_collision, E2!is_collision, E2P!Add, E2!Add
<1>4. E2P!Next <=> E2!Next
  BY <1>3 DEF E2P!Next, E2!Next, E2P!Reset, E2!Reset
<1>5. E2P!Init <=> E2!Init
  BY DEF E2P!Init, E2!Init, E2P!Home, E2!Home, E2P!PowerUp, E2!PowerUp
<1>6. [E2P!Next]_(E2P!vars) <=> [E2!Next]_(E2!vars)
  BY <1>4 DEF E2P!vars, E2!vars
<1>7. E2P!Spec <=> E2!Spec
  BY <1>5, <1>6, PTL DEF E2P!Spec, E2!Spec
<1>8. E2P!Confined <=> E2!Confined
  BY DEF E2P!Confined, E2!Confined, E2P!XHigh, E2!XHigh, E2P!YHigh, E2!YHigh,
     E2P!Larger, E2!Larger
<1>9. E2P!UnitMotion <=> E2!UnitMotion
  BY DEF E2P!UnitMotion, E2!UnitMotion, E2P!MinusOne, E2!MinusOne
<1>10. [E2P!Glide]_(E2P!vars) <=> [E2!Glide]_(E2!vars)
  BY DEF E2P!vars, E2!vars, E2P!Glide, E2!Glide, E2P!Near, E2!Near
<1>11. E2P!Glides <=> E2!Glides
  BY <1>10, PTL DEF E2P!Glides, E2!Glides
<1>12. QED
  BY <1>7, <1>8, <1>9, <1>11

LEMMA SameEnemy3 ==
  /\ E3P!Spec <=> E3!Spec
  /\ E3P!Confined <=> E3!Confined
  /\ E3P!UnitMotion <=> E3!UnitMotion
  /\ E3P!Glides <=> E3!Glides
<1>1. ASSUME NEW p
      PROVE  E3P!Contact(p) <=> E3!Contact(p)
  BY DEF E3P!Contact, E3!Contact, E3P!AtWall, E3!AtWall, E3P!AtBottom, E3!AtBottom,
     E3P!AtTop, E3!AtTop, E3P!AtRight, E3!AtRight, E3P!AtLeft, E3!AtLeft, E3P!Add,
     E3!Add, E3P!Within, E3!Within, E3P!SquaredDistance, E3!SquaredDistance
<1>2. ASSUME NEW p
      PROVE  E3P!XMotionIn(p) = E3!XMotionIn(p) /\ E3P!YMotionIn(p) = E3!YMotionIn(p)
  BY <1>1 DEF E3P!XMotionIn, E3!XMotionIn, E3P!YMotionIn, E3!YMotionIn, E3P!AtBottom,
     E3!AtBottom, E3P!AtTop, E3!AtTop, E3P!AtRight, E3!AtRight, E3P!AtLeft,
     E3!AtLeft, E3P!Add, E3!Add, E3P!Steer, E3!Steer, E3P!Toward, E3!Toward,
     E3P!MinusOne, E3!MinusOne
<1>3. ASSUME NEW p, NEW start
      PROVE  E3P!Frame(p, start) <=> E3!Frame(p, start)
  BY <1>1, <1>2 DEF E3P!Frame, E3!Frame, E3P!Eaten, E3!Eaten, E3P!GoHome, E3!GoHome, E3P!Move,
     E3!Move, E3P!is_collision, E3!is_collision, E3P!Add, E3!Add
<1>4. E3P!Next <=> E3!Next
  BY <1>3 DEF E3P!Next, E3!Next, E3P!Reset, E3!Reset
<1>5. E3P!Init <=> E3!Init
  BY DEF E3P!Init, E3!Init, E3P!Home, E3!Home, E3P!PowerUp, E3!PowerUp
<1>6. [E3P!Next]_(E3P!vars) <=> [E3!Next]_(E3!vars)
  BY <1>4 DEF E3P!vars, E3!vars
<1>7. E3P!Spec <=> E3!Spec
  BY <1>5, <1>6, PTL DEF E3P!Spec, E3!Spec
<1>8. E3P!Confined <=> E3!Confined
  BY DEF E3P!Confined, E3!Confined, E3P!XHigh, E3!XHigh, E3P!YHigh, E3!YHigh,
     E3P!Larger, E3!Larger
<1>9. E3P!UnitMotion <=> E3!UnitMotion
  BY DEF E3P!UnitMotion, E3!UnitMotion, E3P!MinusOne, E3!MinusOne
<1>10. [E3P!Glide]_(E3P!vars) <=> [E3!Glide]_(E3!vars)
  BY DEF E3P!vars, E3!vars, E3P!Glide, E3!Glide, E3P!Near, E3!Near
<1>11. E3P!Glides <=> E3!Glides
  BY <1>10, PTL DEF E3P!Glides, E3!Glides
<1>12. QED
  BY <1>7, <1>8, <1>9, <1>11

-----------------------------------------------------------------------------
(* A step of the game is one of the ball, or leaves it alone.              *)
LEMMA BallStep ==
  ASSUME [Next]_vars
  PROVE  [B!Next]_(B!vars)
<1>1. CASE PressReset
  BY <1>1 DEF PressReset, B!Next
<1>2. ASSUME NEW press, Tick(press)
      PROVE  UNCHANGED B!vars
  BY <1>2 DEF Tick, ballVars, B!vars
<1>3. ASSUME NEW keycode \in Keycodes, NEW random, NEW press,
             FrameTick(keycode, random, press)
      PROVE  B!Next
  BY <1>3 DEF FrameTick, Objects, B!Frame, B!Next
<1>4. CASE UNCHANGED vars
  BY <1>4 DEF vars, ballVars, B!vars
<1>5. QED
  BY <1>1, <1>2, <1>3, <1>4 DEF Next

(* What the ball puts on the wires is a place and a radius.                *)
LEMMA BallOnWires ==
  ASSUME B!TypeOK
  PROVE  BallXY \in BallWires /\ Player \in PlayerWires
<1>1. BallSetup.MinSize \in Nat /\ BallSetup.MaxSize \in Word
  BY GameAssumption DEF GameAssumption, B!BallAssumption, B!Word, Word
<1>2. x \in Word /\ y \in Word /\ size \in Word
  BY <1>1, WordAssumption DEF B!TypeOK, B!Word, Word
<1>3. QED
  BY <1>2 DEF BallXY, Player, BallWires, PlayerWires

LEMMA DotStep ==
  ASSUME B!TypeOK, [Next]_vars
  PROVE  [D!Next]_(D!vars)
<1>1. CASE PressReset
  BY <1>1 DEF PressReset, D!Next
<1>2. ASSUME NEW press, Tick(press)
      PROVE  UNCHANGED D!vars
  BY <1>2 DEF Tick, dotVars, D!vars
<1>3. ASSUME NEW keycode, NEW random \in Randoms, NEW press,
             FrameTick(keycode, random, press)
      PROVE  D!Next
  <2>1. D!Frame(BallXY, random, start_signal)
    BY <1>3 DEF FrameTick, Objects
  <2>2. BallXY \in BallWires /\ start_signal \in BOOLEAN
    BY BallOnWires DEF start_signal, G!start_signal
  <2>3. QED
    BY <2>1, <2>2 DEF D!Next
<1>4. CASE UNCHANGED vars
  BY <1>4 DEF vars, dotVars, D!vars
<1>5. QED
  BY <1>1, <1>2, <1>3, <1>4 DEF Next

LEMMA EnemyStep ==
  ASSUME B!TypeOK, [Next]_vars
  PROVE  [E1!Next]_(E1!vars) /\ [E2!Next]_(E2!vars) /\ [E3!Next]_(E3!vars)
<1>1. CASE PressReset
  BY <1>1 DEF PressReset, E1!Next, E2!Next, E3!Next
<1>2. ASSUME NEW press, Tick(press)
      PROVE  UNCHANGED E1!vars /\ UNCHANGED E2!vars /\ UNCHANGED E3!vars
  BY <1>2 DEF Tick, enemyVars, E1!vars, E2!vars, E3!vars
<1>3. ASSUME NEW keycode, NEW random, NEW press, FrameTick(keycode, random, press)
      PROVE  E1!Next /\ E2!Next /\ E3!Next
  <2>1. E1!Frame(Player, start_signal) /\ E2!Frame(Player, start_signal)
        /\ E3!Frame(Player, start_signal)
    BY <1>3 DEF FrameTick, Objects
  <2>2. Player \in PlayerWires /\ start_signal \in BOOLEAN
    BY BallOnWires DEF start_signal, G!start_signal
  <2>3. QED
    BY <2>1, <2>2 DEF E1!Next, E2!Next, E3!Next
<1>4. CASE UNCHANGED vars
  BY <1>4 DEF vars, enemyVars, E1!vars, E2!vars, E3!vars
<1>5. QED
  BY <1>1, <1>2, <1>3, <1>4 DEF Next

(***************************************************************************)
(* The game implements each of its parts.  On its own a part may see the   *)
(* wires at any values; wired together, each still makes only steps its    *)
(* own specification allows, because the ball never puts anything but      *)
(* words of ten bits on the wires.                                         *)
(***************************************************************************)
THEOREM GameImplementsParts == Spec => B!Spec /\ D!Spec /\ E1!Spec /\ E2!Spec /\ E3!Spec
<1>1. Init => B!Init /\ D!Init /\ E1!Init /\ E2!Init /\ E3!Init
  BY DEF Init, D!Init, E1!Init, E2!Init, E3!Init
<1>2. Spec => B!Spec
  BY <1>1, BallStep, PTL DEF Spec, B!Spec
<1>3. BP!Spec => []BP!TypeOK
  BY BallSettings, BP!TypeCorrect
<1>4. B!Spec => []B!TypeOK
  BY <1>3, SameBall, PTL
<1>5. B!TypeOK /\ [Next]_vars =>
        /\ [D!Next]_(D!vars)
        /\ [E1!Next]_(E1!vars) /\ [E2!Next]_(E2!vars) /\ [E3!Next]_(E3!vars)
  BY DotStep, EnemyStep
<1>6. QED
  BY <1>1, <1>2, <1>4, <1>5, PTL DEF Spec, D!Spec, E1!Spec, E2!Spec, E3!Spec

(***************************************************************************)
(* So what each part promises on its own it keeps in the game, with the    *)
(* settings and against the players of the game: the three enemies of      *)
(* lab8.sv stay within their walls and never jump.                         *)
(***************************************************************************)
THEOREM EnemiesInGame ==
  Spec => /\ []E1!Confined /\ []E2!Confined /\ []E3!Confined
          /\ []E1!UnitMotion /\ []E2!UnitMotion /\ []E3!UnitMotion
          /\ E1!Glides /\ E2!Glides /\ E3!Glides
<1>1. /\ E1P!Spec => []E1P!Confined
      /\ E1P!Spec => []E1P!UnitMotion
      /\ E1P!Spec => E1P!Glides
  BY EnemySettings, E1P!ConfinedHolds, E1P!UnitMotionHolds, E1P!GlidesHolds
<1>2. /\ E2P!Spec => []E2P!Confined
      /\ E2P!Spec => []E2P!UnitMotion
      /\ E2P!Spec => E2P!Glides
  BY EnemySettings, E2P!ConfinedHolds, E2P!UnitMotionHolds, E2P!GlidesHolds
<1>3. /\ E3P!Spec => []E3P!Confined
      /\ E3P!Spec => []E3P!UnitMotion
      /\ E3P!Spec => E3P!Glides
  BY EnemySettings, E3P!ConfinedHolds, E3P!UnitMotionHolds, E3P!GlidesHolds
<1>4. QED
  BY <1>1, <1>2, <1>3, SameEnemy1, SameEnemy2, SameEnemy3, GameImplementsParts, PTL

(* The ball of the game keeps its radius and speed linked, its camera in   *)
(* bounds and rolls on until it is put back.                               *)
THEOREM BallInGame ==
  Spec => []B!TypeOK /\ []B!Agility /\ []B!CameraBounded /\ B!NeverStops
<1>1. /\ BP!Spec => []BP!TypeOK
      /\ BP!Spec => []BP!Agility
      /\ BP!Spec => []BP!CameraBounded
      /\ BP!Spec => BP!NeverStops
  BY BallSettings, BP!TypeCorrect, BP!AgilityHolds, BP!CameraBoundedHolds, BP!NeverStopsHolds
<1>2. QED
  BY <1>1, SameBall, GameImplementsParts, PTL

(* The dots of the game stay within reach, and together where they met.    *)
THEOREM DotsInGame ==
  Spec => []D!TypeOK /\ []D!WithinReach /\ D!DotsStayTogether
<1>1. /\ DP!Spec => []DP!TypeOK
      /\ DP!Spec => []DP!WithinReach
      /\ DP!Spec => DP!DotsStayTogether
  BY DotSettings, DP!TypeCorrect, DP!WithinReachHolds, DP!DotsStayTogetherHolds
<1>2. QED
  BY <1>1, SameDots, GameImplementsParts, PTL
=============================================================================
