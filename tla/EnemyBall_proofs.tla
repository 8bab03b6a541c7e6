-------------------------- MODULE EnemyBall_proofs --------------------------
(***************************************************************************)
(* For every arena, radius, home and respawn point that EnemyAssumption    *)
(* allows, and for any sequence of player positions: the enemy stays       *)
(* within a few pixels of its walls and never jumps.                       *)
(***************************************************************************)
EXTENDS EnemyBall, TLAPS

(* The arithmetic content of the assumption on the parameters. *)
LEMMA Parameters ==
  /\ WordMod \in Int /\ 16 <= WordMod
  /\ Size \in Int /\ 4 <= Size
  /\ XMax \in Int /\ 3 * Size <= XMax /\ XMax + 4 < WordMod
  /\ YMax \in Int /\ 2 * Size + 2 < YMax /\ YMax + 1 < WordMod
  /\ XCenter \in Int /\ 0 <= XCenter /\ XCenter + 2 * Size + 3 < WordMod
  /\ YCenter \in Int /\ 0 <= YCenter /\ YCenter + Size < YMax
  /\ Respawn \in Int /\ Size < Respawn /\ Respawn + Size < YMax
  BY EnemyAssumption, WordAssumption DEF Word

(* Two words whose sum fits in ten bits add without wrapping. *)
LEMMA AddFits ==
  ASSUME NEW a \in Word, NEW b \in Word, a + b < WordMod
  PROVE  Add(a, b) = a + b
  BY WordAssumption DEF Add, Word

(* Adding the word of -1 to a positive word subtracts one. *)
LEMMA AddMinusOne ==
  ASSUME NEW a \in Word, a >= 1
  PROVE  Add(a, MinusOne) = a - 1
  BY WordAssumption DEF Add, Word, MinusOne

(* The extreme X coordinate leaves room for the wall comparison. *)
LEMMA XHighFits ==
  /\ XHigh \in Int
  /\ XHigh + Size < WordMod
  /\ XHigh >= XMax - Size + 4
  /\ XHigh >= XCenter + Size + 3
  /\ XHigh >= Respawn + 1
  BY Parameters DEF XHigh, Larger

(* The registers of a state the invariant describes, as integers. *)
LEMMA Registers ==
  ASSUME Inv
  PROVE  /\ x \in Int /\ 0 <= x /\ x <= XHigh
         /\ y \in Int /\ 0 <= y /\ y <= YMax - Size + 1
         /\ mx \in {0, 1, WordMod - 1}
         /\ my \in {0, 1, WordMod - 1}
  BY DEF Inv, TypeOK, UnitMotion, Confined, YHigh, Word, MinusOne

(* In a state the invariant describes, the wall comparisons are exact. *)
LEMMA WallsExact ==
  ASSUME Inv
  PROVE  /\ AtBottom <=> y + Size >= YMax
         /\ AtRight <=> x + Size >= XMax
<1>1. y + Size < WordMod /\ x + Size < WordMod
  BY Parameters, XHighFits, Registers
<1>2. x \in Word /\ y \in Word /\ Size \in Word
  BY EnemyAssumption DEF Inv, TypeOK
<1>3. Add(y, Size) = y + Size /\ Add(x, Size) = x + Size
  BY <1>1, <1>2, AddFits
<1>4. QED BY <1>3 DEF AtBottom, AtRight

(* A player at the enemy's own place is always in contact with it. *)
LEMMA SamePlaceIsContact ==
  ASSUME NEW p \in Players, TypeOK, p.x = x, p.y = y
  PROVE  Within(x, y, p.x, p.y, Size + p.size)
<1>1. p.size \in Word /\ Size \in Word
  BY EnemyAssumption DEF Player
<1>2. \A a, b \in Word : a + b \in Nat
  BY DEF Word
<1>3. \A r \in Nat : 0 <= r * r
  OBVIOUS
<1>4. x - x = 0 /\ y - y = 0
  BY DEF TypeOK, Word
<1>5. SquaredDistance(x, y, p.x, p.y) = 0
  BY <1>4 DEF SquaredDistance
<1>6. 0 <= (Size + p.size) * (Size + p.size)
  BY <1>1, <1>2, <1>3
<1>7. QED BY <1>5, <1>6 DEF Within

(* Away from walls and contact the steering is by unit motions. *)
LEMMA SteerUnit ==
  ASSUME NEW p \in Players, TypeOK, ~AtWall, ~Contact(p), NEW from, NEW to
  PROVE  Steer(from, to, p) \in {0, 1, MinusOne}
<1>1. ~(p.x = x /\ p.y = y)
  BY SamePlaceIsContact DEF Contact
<1>2. QED BY <1>1 DEF Steer, Toward

(***************************************************************************)
(* What the combinational part chooses, with the wires reduced to the      *)
(* place of the enemy: the case analysis every later step starts from.     *)
(***************************************************************************)
LEMMA MotionCases ==
  ASSUME NEW p \in Players, Inv
  PROVE  /\ y + Size >= YMax => XMotionIn(p) = mx /\ YMotionIn(p) = MinusOne
         /\ y <= Size => XMotionIn(p) = mx /\ YMotionIn(p) = 1
         /\ y + Size < YMax /\ y > Size =>
              /\ x + Size >= XMax => XMotionIn(p) = MinusOne /\ YMotionIn(p) = my
              /\ x + Size < XMax /\ x <= Size => XMotionIn(p) = 1 /\ YMotionIn(p) = my
              /\ XMotionIn(p) \in {0, 1, MinusOne}
              /\ YMotionIn(p) \in {0, 1, MinusOne}
<1>1. /\ AtBottom <=> y + Size >= YMax
      /\ AtRight <=> x + Size >= XMax
  BY WallsExact
<1>2. ~(y + Size >= YMax /\ y <= Size)
  BY Parameters, Registers
<1>3. mx \in {0, 1, MinusOne} /\ my \in {0, 1, MinusOne}
  BY Registers DEF MinusOne
<1>4. /\ y + Size < YMax <=> ~(y + Size >= YMax)
      /\ x + Size < XMax <=> ~(x + Size >= XMax)
      /\ y > Size <=> ~(y <= Size)
  BY Parameters, Registers
<1>5. CASE AtWall
  BY <1>1, <1>2, <1>3, <1>4, <1>5 DEF XMotionIn, YMotionIn, AtWall, AtTop, AtLeft
<1>6. CASE ~AtWall
  <2>1. CASE Contact(p)
    BY <1>1, <1>3, <1>4, <1>6, <2>1 DEF XMotionIn, YMotionIn, AtWall, AtTop, AtLeft
  <2>2. CASE ~Contact(p)
    <3>1. /\ Steer(x, p.x, p) \in {0, 1, MinusOne}
          /\ Steer(y, p.y, p) \in {0, 1, MinusOne}
      BY <1>6, <2>2, SteerUnit DEF Inv
    <3>2. QED
      BY <1>1, <1>4, <1>6, <2>2, <3>1 DEF XMotionIn, YMotionIn, AtWall, AtTop, AtLeft
  <2>3. QED BY <2>1, <2>2
<1>7. QED BY <1>5, <1>6

(* The blind frames of a state, by the band the enemy is in. *)
LEMMA BlindFramesRange ==
  ASSUME Inv
  PROVE  /\ BlindFrames \in Nat
         /\ (y <= Size \/ y + Size >= YMax) => BlindFrames >= 1
         /\ (y > Size /\ y + Size < YMax) => BlindFrames = 0
  BY Parameters, Registers DEF BlindFrames, MinusOne

(* A move is a move by one pixel at most, computed without wrapping. *)
LEMMA MoveExact ==
  ASSUME Inv
  PROVE  /\ Add(x, mx) = IF mx = WordMod - 1 THEN x - 1 ELSE x + mx
         /\ Add(y, my) = IF my = WordMod - 1 THEN y - 1 ELSE y + my
         /\ Add(x, mx) >= 0
         /\ Add(y, my) >= 0
<1>1. mx = WordMod - 1 => x >= 1
  BY BlindFramesRange, Parameters, Registers DEF Inv, RoomLeft, MinusOne
<1>2. my = WordMod - 1 => y >= 1
  BY DEF Inv, RoomAbove, MinusOne
<1>3. x + 1 < WordMod /\ y + 1 < WordMod
  BY XHighFits, Parameters, Registers
<1>4. x \in Word /\ y \in Word /\ 0 \in Word /\ 1 \in Word
  BY Parameters DEF Inv, TypeOK, Word
<1>5. Add(x, mx) = IF mx = WordMod - 1 THEN x - 1 ELSE x + mx
  <2>1. CASE mx = WordMod - 1
    BY <1>1, <1>4, <2>1, AddMinusOne DEF MinusOne
  <2>2. CASE mx \in {0, 1}
    BY <1>3, <1>4, <2>2, AddFits, Parameters, Registers
  <2>3. QED BY <2>1, <2>2, Registers
<1>6. Add(y, my) = IF my = WordMod - 1 THEN y - 1 ELSE y + my
  <2>1. CASE my = WordMod - 1
    BY <1>2, <1>4, <2>1, AddMinusOne DEF MinusOne
  <2>2. CASE my \in {0, 1}
    BY <1>3, <1>4, <2>2, AddFits, Parameters, Registers
  <2>3. QED BY <2>1, <2>2, Registers
<1>7. QED BY <1>1, <1>2, <1>5, <1>6, Registers

(* A ball at rest at home or at the origin satisfies the invariant. *)
LEMMA RestInv ==
  ASSUME mx = 0, my = 0, escore = 0,
         (x = XCenter /\ y = YCenter) \/ (x = 0 /\ y = 0)
  PROVE  Inv
<1> USE Parameters, XHighFits
<1>1. x \in Int /\ 0 <= x /\ x <= XHigh /\ y \in Int /\ 0 <= y /\ y <= YMax - Size + 1
  OBVIOUS
<1>2. 0 \in 0 .. ScoreMod - 1
  BY EnemyAssumption
<1>3. TypeOK
  <2>1. x \in Word /\ y \in Word
    BY <1>1 DEF Word
  <2>2. 0 \in Word
    BY DEF Word
  <2>3. QED BY <1>2, <2>1, <2>2 DEF TypeOK
<1>4. UnitMotion
  BY DEF UnitMotion
<1>5. Confined
  BY <1>1 DEF Confined, YHigh
<1>6. 0 # 1 /\ 0 # MinusOne
  BY DEF MinusOne
<1>7. RoomLeft /\ RoomRight /\ RoomAbove /\ RoomBelow
  BY <1>6 DEF RoomLeft, RoomRight, RoomAbove, RoomBelow
<1>8. QED BY <1>3, <1>4, <1>5, <1>7 DEF Inv

(* The invariant holds in the reset state and at power-up. *)
LEMMA InitInv == Init => Inv
  BY RestInv DEF Init, Home, PowerUp

(* A reset re-establishes the invariant. *)
LEMMA ResetInv == Reset => Inv'
<1> SUFFICES ASSUME Reset PROVE Inv'
  OBVIOUS
<1> USE Parameters, XHighFits
<1>1. x' = XCenter /\ y' = YCenter /\ mx' = 0 /\ my' = 0 /\ escore' = 0
  BY DEF Reset
<1>2. 0 \in 0 .. ScoreMod - 1 /\ XCenter \in Word /\ YCenter \in Word /\ 0 \in Word
  BY EnemyAssumption DEF Word
<1>3. TypeOK' /\ UnitMotion'
  BY <1>1, <1>2 DEF TypeOK, UnitMotion
<1>4. Confined'
  BY <1>1 DEF Confined, YHigh
<1>5. 0 # 1 /\ 0 # MinusOne
  BY DEF MinusOne
<1>6. RoomLeft' /\ RoomRight' /\ RoomAbove' /\ RoomBelow'
  BY <1>1, <1>5 DEF RoomLeft, RoomRight, RoomAbove, RoomBelow
<1>7. QED BY <1>3, <1>4, <1>6 DEF Inv

(* An eaten enemy keeps its motion, but the respawn point is in no band. *)
LEMMA EatenInv ==
  ASSUME Inv, NEW p \in Players, Eaten(p)
  PROVE  Inv'
<1> USE Parameters, XHighFits
<1>1. x' = Respawn /\ y' = Respawn /\ mx' = mx /\ my' = my
  BY DEF Eaten
<1>2. escore' \in 0 .. ScoreMod - 1
  BY EnemyAssumption DEF Eaten, Inv, TypeOK
<1>3. TypeOK'
  BY <1>1, <1>2 DEF Inv, TypeOK, Word
<1>4. UnitMotion'
  BY <1>1 DEF Inv, UnitMotion
<1>5. Confined' /\ RoomAbove' /\ RoomBelow'
  BY <1>1 DEF Confined, YHigh, RoomAbove, RoomBelow
<1>6. BlindFrames' = 0
  BY <1>1 DEF BlindFrames
<1>7. RoomLeft' /\ RoomRight'
  BY <1>1, <1>6 DEF RoomLeft, RoomRight
<1>8. QED BY <1>3, <1>4, <1>5, <1>7 DEF Inv

(* At home there is room for the blind drift out of the top band. *)
LEMMA HomeRoom ==
  ASSUME NEW f \in Int, f <= Size + 2, XCenter >= 2 * Size
  PROVE  XCenter >= Size - 3 + f /\ XCenter + f <= XHigh - 1
  BY Parameters, XHighFits

(* The start screen may keep one motion: there is room at home for that. *)
LEMMA GoHomeInv ==
  ASSUME Inv, NEW p \in Players, GoHome(p)
  PROVE  Inv'
<1> USE Parameters, XHighFits
<1>1. x' = XCenter /\ y' = YCenter /\ escore' = 0
  BY DEF GoHome
<1>2. mx' = 0 \/ (mx' = mx /\ XCenter >= 2 * Size)
  BY EnemyAssumption DEF GoHome
<1>3. my' = 0 \/ (my' = my /\ YCenter >= 1)
  BY EnemyAssumption DEF GoHome
<1>4. mx' \in {0, 1, WordMod - 1} /\ my' \in {0, 1, WordMod - 1}
  BY <1>2, <1>3, Registers
<1>5. escore' \in 0 .. ScoreMod - 1
  BY <1>1, EnemyAssumption
<1>6. TypeOK' /\ UnitMotion'
  BY <1>1, <1>4, <1>5 DEF TypeOK, UnitMotion, Word, MinusOne
<1>7. Confined' /\ RoomAbove' /\ RoomBelow'
  BY <1>1, <1>3 DEF Confined, YHigh, RoomAbove, RoomBelow, MinusOne
<1>8. BlindFrames' \in Int /\ BlindFrames' <= Size + 2
  BY <1>1, <1>3, <1>4 DEF BlindFrames, MinusOne
<1>9. RoomLeft' /\ RoomRight'
  <2>1. CASE mx' = 0
    BY <2>1 DEF RoomLeft, RoomRight, MinusOne
  <2>2. CASE XCenter >= 2 * Size
    <3>1. PICK f \in Int : f = BlindFrames' /\ f <= Size + 2
      BY <1>8
    <3>2. f <= Size + 2
      BY <3>1
    <3>3. XCenter >= Size - 3 + f /\ XCenter + f <= XHigh - 1
      BY <2>2, <3>2, HomeRoom
    <3>4. BlindFrames' = f /\ x' = XCenter
      BY <1>1, <3>1
    <3>5. QED BY <3>3, <3>4 DEF RoomLeft, RoomRight
  <2>3. QED BY <1>2, <2>1, <2>2
<1>10. QED BY <1>6, <1>7, <1>9 DEF Inv

(***************************************************************************)
(* A move.  In the band of a vertical wall the X motion stays and          *)
(* BlindFrames decreases by one; outside, BlindFrames is at most three     *)
(* afterwards, and the X motion is fresh or the walls are far.             *)
(***************************************************************************)
LEMMA MoveInv ==
  ASSUME Inv, NEW p \in Players, Move(p)
  PROVE  Inv'
<1> USE Parameters, XHighFits
<1>1. /\ x' = IF mx = WordMod - 1 THEN x - 1 ELSE x + mx
      /\ y' = IF my = WordMod - 1 THEN y - 1 ELSE y + my
      /\ 0 <= x' /\ 0 <= y'
  BY MoveExact, Registers DEF Move
<1>2. /\ y + Size >= YMax => mx' = mx /\ my' = WordMod - 1
      /\ y <= Size => mx' = mx /\ my' = 1
      /\ y + Size < YMax /\ y > Size =>
           /\ x + Size >= XMax => mx' = WordMod - 1 /\ my' = my
           /\ x + Size < XMax /\ x <= Size => mx' = 1 /\ my' = my
           /\ mx' \in {0, 1, WordMod - 1}
           /\ my' \in {0, 1, WordMod - 1}
  BY MotionCases DEF Move, MinusOne
<1>3. mx' \in {0, 1, WordMod - 1} /\ my' \in {0, 1, WordMod - 1}
  BY <1>2, Registers
<1>4. RoomAbove' /\ RoomBelow' /\ y' <= YMax - Size + 1
  BY <1>1, <1>2, Registers DEF Inv, RoomAbove, RoomBelow, YHigh, MinusOne
<1>5. /\ mx = WordMod - 1 => x >= Size - 3 + BlindFrames
      /\ mx = 1 => x + BlindFrames <= XHigh - 1
      /\ my = 1 => y <= YMax - Size
  BY DEF Inv, RoomLeft, RoomRight, RoomBelow, YHigh, MinusOne
<1>6. RoomLeft' /\ RoomRight' /\ x' <= XHigh
  <2>1. CASE y <= Size \/ y + Size >= YMax
    <3>1. mx' = mx
      BY <1>2, <2>1
    <3>2. BlindFrames \in Nat /\ BlindFrames >= 1
      BY <2>1, BlindFramesRange
    <3>3. CASE y <= Size
      <4>1. BlindFrames' = BlindFrames - 1
        BY <1>1, <1>2, <3>3, Registers DEF BlindFrames, MinusOne
      <4>2. QED
        BY <1>1, <1>5, <3>1, <3>2, <4>1, Registers DEF RoomLeft, RoomRight, MinusOne
    <3>4. CASE y + Size >= YMax
      <4>1. BlindFrames' = BlindFrames - 1
        BY <1>1, <1>2, <1>5, <3>4, Registers DEF BlindFrames, MinusOne
      <4>2. QED
        BY <1>1, <1>5, <3>1, <3>2, <4>1, Registers DEF RoomLeft, RoomRight, MinusOne
    <3>5. QED BY <2>1, <3>3, <3>4
  <2>2. CASE y + Size < YMax /\ y > Size
    <3>1. BlindFrames' \in Int /\ 0 <= BlindFrames' /\ BlindFrames' <= 3
      BY <1>1, <1>3, <2>2, Registers DEF BlindFrames, MinusOne
    <3>2. CASE x + Size >= XMax
      BY <1>1, <1>2, <1>5, <2>2, <3>1, <3>2, BlindFramesRange, Registers
         DEF RoomLeft, RoomRight, MinusOne
    <3>3. CASE x + Size < XMax /\ x <= Size
      BY <1>1, <1>2, <2>2, <3>1, <3>3, Registers DEF RoomLeft, RoomRight, MinusOne
    <3>4. CASE x + Size < XMax /\ x > Size
      BY <1>1, <1>2, <2>2, <3>1, <3>4, Registers DEF RoomLeft, RoomRight, MinusOne
    <3>5. QED BY <3>2, <3>3, <3>4, Registers
  <2>3. QED BY <2>1, <2>2, Parameters, Registers
<1>7. x' \in Word /\ y' \in Word /\ mx' \in Word /\ my' \in Word
  <2>1. x' \in Int /\ y' \in Int
    BY <1>1, Registers
  <2>2. 0 <= x' /\ x' < WordMod /\ 0 <= y' /\ y' < WordMod
    BY <1>1, <1>4, <1>6, <2>1
  <2>3. x' \in Word /\ y' \in Word
    BY <2>1, <2>2 DEF Word
  <2>4. QED BY <1>3, <2>3 DEF Word
<1>8. TypeOK' /\ UnitMotion' /\ Confined'
  BY <1>3, <1>4, <1>6, <1>7 DEF Move, Inv, TypeOK, UnitMotion, Confined, YHigh, MinusOne
<1>9. QED BY <1>4, <1>6, <1>8 DEF Inv

(* Every step preserves the invariant, one lemma per action. *)
LEMMA NextInv == Inv /\ [Next]_vars => Inv'
<1> SUFFICES ASSUME Inv, [Next]_vars PROVE Inv'
  OBVIOUS
<1>1. CASE Reset
  BY <1>1, ResetInv
<1>2. CASE \E p \in Players, start_signal \in BOOLEAN : Frame(p, start_signal)
  BY <1>2, EatenInv, GoHomeInv, MoveInv DEF Frame
<1>3. CASE UNCHANGED vars
  BY <1>3
     DEF vars, Inv, TypeOK, UnitMotion, Confined, RoomLeft, RoomRight, RoomAbove, RoomBelow,
         BlindFrames
<1>4. QED BY <1>1, <1>2, <1>3 DEF Next

(***************************************************************************)
(* The inductive invariant holds in every reachable state.                 *)
(***************************************************************************)
THEOREM Invariance == Spec => []Inv
  BY InitInv, NextInv, PTL DEF Spec

(* The registers stay ten-bit words and the score stays below its modulus. *)
THEOREM TypeCorrect == Spec => []TypeOK
  BY Invariance, PTL DEF Inv

(* The "collision?" motions of enemy_ball.sv are never taken. *)
THEOREM UnitMotionHolds == Spec => []UnitMotion
  BY Invariance, PTL DEF Inv

(* The walls hold although the vertical ones hide the horizontal ones. *)
THEOREM ConfinedHolds == Spec => []Confined
  BY Invariance, PTL DEF Inv

(* A step of a state the invariant describes moves the enemy by a pixel,   *)
(* or sends it home, or to the respawn point.                              *)
LEMMA StepGlides ==
  ASSUME Inv, [Next]_vars
  PROVE  [Glide]_vars
<1>1. CASE Reset
  BY <1>1 DEF Reset, Glide
<1>2. ASSUME NEW p \in Players, NEW start_signal \in BOOLEAN, Frame(p, start_signal)
      PROVE  Glide
  <2>1. CASE Eaten(p)
    BY <2>1 DEF Eaten, Glide
  <2>2. CASE GoHome(p)
    BY <2>2 DEF GoHome, Glide
  <2>3. CASE Move(p)
    <3>1. /\ x' = IF mx = WordMod - 1 THEN x - 1 ELSE x + mx
          /\ y' = IF my = WordMod - 1 THEN y - 1 ELSE y + my
      BY <2>3, MoveExact DEF Move
    <3>2. x' - x \in -1 .. 1 /\ y' - y \in -1 .. 1
      BY <3>1, Registers
    <3>3. QED BY <3>2 DEF Glide, Near
  <2>4. QED BY <1>2, <2>1, <2>2, <2>3 DEF Frame
<1>3. QED BY <1>1, <1>2 DEF Next

(* The enemy never jumps across the arena. *)
THEOREM GlidesHolds == Spec => Glides
  BY Invariance, StepGlides, PTL DEF Spec, Glides

=============================================================================
