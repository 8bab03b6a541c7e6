----------------------------- MODULE Ball_proofs ------------------------------
(***************************************************************************)
(* Proofs about the player's ball, for every arena, camera, speed and      *)
(* radius the assumptions admit.  Radius and speed bound each other, and   *)
(* the place of the camera's corner bounds where the ball is when it may   *)
(* move: with the types, the two properties are inductive as they stand.   *)
(***************************************************************************)
EXTENDS Ball, TLAPS

BallInv == TypeOK /\ Agility /\ CameraBounded

(* The assumptions, as facts about integers. *)
LEMMA Parameters ==
  /\ WordMod \in Int /\ WordMod >= 16
  /\ XMax \in Int /\ YMax \in Int
  /\ XCenter \in Word /\ YCenter \in Word
  /\ MaxStep \in Int /\ MaxStep >= 1 /\ StartStep \in 1 .. MaxStep
  /\ MinSize \in Int /\ MinSize >= 0 /\ MaxSize \in Int /\ StartSize \in MinSize .. MaxSize
  /\ MinSize + MaxStep <= StartSize + StartStep
  /\ StartSize + StartStep <= MaxSize + 1
  /\ ScrollLeft \in Int /\ MaxStep <= ScrollLeft /\ ScrollLeft < ScrollRight
  /\ ScrollRight \in Int /\ ScrollRight <= XMax
  /\ ScrollUp \in Int /\ MaxStep <= ScrollUp /\ ScrollUp < ScrollDown
  /\ ScrollDown \in Int /\ ScrollDown <= YMax
  /\ XMax + MaxStep < WordMod /\ YMax + MaxStep < WordMod
  /\ 2 * MaxStep < WordMod
  /\ Keycodes \subseteq Keycode
  BY BallAssumption, WordAssumption DEF BallAssumption, WordAssumption, Word

(* A motion is a word, and a step either way is a motion other than zero.  *)
LEMMA StepIsMotion ==
  ASSUME NEW s \in 1 .. MaxStep
  PROVE  /\ s \in Motion /\ s # 0
         /\ Neg(s) \in Motion /\ Neg(s) # 0
  BY Parameters DEF Motion, Neg

LEMMA AddIsWord ==
  ASSUME NEW a \in Word, NEW b \in Word
  PROVE  Add(a, b) \in Word
  BY Parameters DEF Add, Word

LEMMA MotionIsWord == Motion \subseteq Word
  BY Parameters DEF Motion, Word

-----------------------------------------------------------------------------
(* What a frame that lets the ball roll does to the motions.               *)
LEMMA MotionsIn ==
  ASSUME TypeOK, NEW keycode
  PROVE  XMotionIn(keycode) \in Motion /\ YMotionIn(keycode) \in Motion
<1>1. /\ xstep \in Motion /\ Neg(xstep) \in Motion
      /\ ystep \in Motion /\ Neg(ystep) \in Motion
  BY StepIsMotion DEF TypeOK
<1>2. 0 \in Motion
  BY Parameters DEF Motion
<1>3. XKept(keycode) \in Motion /\ YKept(keycode) \in Motion
  BY <1>2 DEF TypeOK, XKept, YKept
<1>4. QED
  BY <1>1, <1>3 DEF XMotionIn, YMotionIn

(* Every keycode that steers holds one of the four keys.                   *)
LEMMA SteeringHasKey ==
  ASSUME NEW keycode \in Steering
  PROVE  "w" \in keycode \/ "s" \in keycode \/ "a" \in keycode \/ "d" \in keycode
  BY DEF Steering, UpDown, LeftRight, Diagonal

(* A rolling ball rolls on, on one axis or the other.                      *)
LEMMA RollsOn ==
  ASSUME TypeOK, ~Rests, NEW keycode
  PROVE  XMotionIn(keycode) # 0 \/ YMotionIn(keycode) # 0
<1>1. xstep # 0 /\ Neg(xstep) # 0 /\ ystep # 0 /\ Neg(ystep) # 0
  BY StepIsMotion DEF TypeOK
<1>2. CASE AtBottom \/ AtTop
  BY <1>1, <1>2 DEF YMotionIn
<1>3. CASE ~(AtBottom \/ AtTop) /\ (AtRight \/ AtLeft)
  BY <1>1, <1>3 DEF XMotionIn
<1>4. CASE ~(AtBottom \/ AtTop \/ AtRight \/ AtLeft) /\ keycode \notin Steering
  <2>1. keycode \notin UpDown /\ keycode \notin LeftRight
    BY <1>4 DEF Steering
  <2>2. XMotionIn(keycode) = mx /\ YMotionIn(keycode) = my
    BY <1>4, <2>1 DEF XMotionIn, YMotionIn, XKept, YKept
  <2>3. QED
    BY <2>2 DEF Rests
<1>5. CASE ~(AtBottom \/ AtTop \/ AtRight \/ AtLeft) /\ keycode \in Steering
  <2>1. CASE "w" \in keycode \/ "s" \in keycode
    BY <1>1, <1>5, <2>1 DEF YMotionIn
  <2>2. CASE "a" \in keycode \/ "d" \in keycode
    BY <1>1, <1>5, <2>2 DEF XMotionIn
  <2>3. QED
    BY <1>5, <2>1, <2>2, SteeringHasKey
<1>6. QED
  BY <1>2, <1>3, <1>4, <1>5

-----------------------------------------------------------------------------
(***************************************************************************)
(* The camera on one axis.  It moves outwards only while the ball is short *)
(* of the limit, so the corner is short of limit - high; it moves back     *)
(* only while the ball is at low or beyond, so the corner is not yet below *)
(* zero.                                                                   *)
(***************************************************************************)
LEMMA ScrollBounded ==
  ASSUME NEW pos \in Word, NEW motion \in Motion,
         NEW low \in Int, NEW high \in Int, NEW limit \in Int,
         MaxStep <= low, low < high, high <= limit, limit + MaxStep < WordMod,
         NEW progress \in CameraRange(limit, high)
  PROVE  Scroll(pos, motion, progress, low, high, limit) \in CameraRange(limit, high)
<1> DEFINE next == Scroll(pos, motion, progress, low, high, limit)
<1>1. CASE pos >= Add(progress, high) /\ ~IsNegative(motion) /\ pos <= limit
  <2>1. next = Add(progress, motion)
    BY <1>1 DEF Scroll
  <2>2. motion \in 0 .. MaxStep
    BY <1>1, Parameters DEF Motion, IsNegative
  <2>3. CASE progress \in 0 .. limit - high + MaxStep
    <3>1. progress <= limit - high
      BY <1>1, <2>3, Parameters DEF Add, Word
    <3>2. QED
      BY <2>1, <2>2, <2>3, <3>1, Parameters DEF Add, CameraRange
  <2>4. CASE progress \in WordMod - MaxStep .. WordMod - 1
    BY <2>1, <2>2, <2>4, Parameters DEF Add, CameraRange
  <2>5. QED
    BY <2>3, <2>4 DEF CameraRange
<1>2. CASE pos < Add(progress, high) /\ pos <= Add(progress, low) /\ IsNegative(motion) /\ pos >= low
  <2>1. progress \in Int /\ Add(progress, high) \in Int
    BY Parameters DEF CameraRange, Add
  <2>2. next = Add(progress, motion)
    BY <1>2, <2>1 DEF Scroll, Word
  <2>3. motion \in WordMod - MaxStep .. WordMod - 1
    BY <1>2, Parameters DEF Motion, IsNegative
  <2>4. CASE progress \in 0 .. limit - high + MaxStep
    BY <2>2, <2>3, <2>4, Parameters DEF Add, CameraRange
  <2>5. CASE progress \in WordMod - MaxStep .. WordMod - 1
    BY <1>2, <2>5, Parameters DEF Add, Word
  <2>6. QED
    BY <2>4, <2>5 DEF CameraRange
<1>3. CASE next = progress
  BY <1>3
<1>4. pos \in Int /\ Add(progress, high) \in Int /\ Add(progress, low) \in Int
  BY Parameters DEF CameraRange, Add, Word
<1>5. CASE ~(pos >= Add(progress, high) /\ ~IsNegative(motion) /\ pos <= limit)
           /\ ~(pos < Add(progress, high) /\ pos <= Add(progress, low) /\ IsNegative(motion) /\ pos >= low)
  BY <1>4, <1>5, <1>3 DEF Scroll
<1>6. QED
  BY <1>1, <1>2, <1>5

(* All that a frame which lets the ball roll does, but for the dots.       *)
LEMMA AdvanceKeeps ==
  ASSUME BallInv, NEW keycode, Advance(keycode)
  PROVE  /\ x' \in Word /\ y' \in Word
         /\ mx' \in Motion /\ my' \in Motion
         /\ progressx' \in Word /\ progressy' \in Word
         /\ CameraBounded'
<1>1. x' \in Word /\ y' \in Word
  BY AddIsWord, MotionIsWord DEF BallInv, TypeOK, Advance
<1>2. mx' \in Motion /\ my' \in Motion
  BY MotionsIn DEF BallInv, Advance
<1>3. progressx' \in CameraRange(XMax, ScrollRight)
  BY ScrollBounded, Parameters DEF BallInv, TypeOK, CameraBounded, Advance
<1>4. progressy' \in CameraRange(YMax, ScrollDown)
  BY ScrollBounded, Parameters DEF BallInv, TypeOK, CameraBounded, Advance
<1>5. progressx' \in Word /\ progressy' \in Word
  BY <1>3, <1>4, Parameters DEF CameraRange, Word
<1>6. QED
  BY <1>1, <1>2, <1>3, <1>4, <1>5 DEF CameraBounded

-----------------------------------------------------------------------------
(* The invariant is inductive. *)

LEMMA InitInv == Init => BallInv
  BY Parameters DEF Init, BallInv, TypeOK, Agility, CameraBounded, CameraRange, Motion, Word

LEMMA BackToStartInv == BackToStart => BallInv'
  BY Parameters DEF BackToStart, BallInv, TypeOK, Agility, CameraBounded, CameraRange, Motion, Word

LEMMA GrowInv ==
  ASSUME BallInv, NEW keycode, Grow(keycode)
  PROVE  BallInv'
<1>1. xstep' \in 1 .. MaxStep /\ ystep' \in 1 .. MaxStep /\ size' \in MinSize .. MaxSize
  BY Parameters DEF BallInv, TypeOK, Agility, Grow
<1>2. Agility'
  BY Parameters DEF BallInv, TypeOK, Agility, Grow
<1>3. QED
  BY <1>1, <1>2, AdvanceKeeps DEF Grow, BallInv, TypeOK

LEMMA ShrinkInv ==
  ASSUME BallInv, NEW keycode, Shrink(keycode)
  PROVE  BallInv'
<1>1. xstep' \in 1 .. MaxStep /\ ystep' \in 1 .. MaxStep /\ size' \in MinSize .. MaxSize
  BY Parameters DEF BallInv, TypeOK, Agility, Shrink
<1>2. Agility'
  BY Parameters DEF BallInv, TypeOK, Agility, Shrink
<1>3. QED
  BY <1>1, <1>2, AdvanceKeeps DEF Shrink, BallInv, TypeOK

LEMMA RollInv ==
  ASSUME BallInv, NEW keycode, Roll(keycode)
  PROVE  BallInv'
<1>1. UNCHANGED <<xstep, ystep, size>>
  BY DEF Roll, build
<1>2. QED
  BY <1>1, AdvanceKeeps DEF Roll, BallInv, TypeOK, Agility

LEMMA NextInv == BallInv /\ [Next]_vars => BallInv'
<1> SUFFICES ASSUME BallInv, [Next]_vars
             PROVE  BallInv'
  OBVIOUS
<1>1. CASE BackToStart
  BY <1>1, BackToStartInv
<1>2. ASSUME NEW keycode \in Keycodes, Grow(keycode) \/ Shrink(keycode) \/ Roll(keycode)
      PROVE  BallInv'
  BY <1>2, GrowInv, ShrinkInv, RollInv
<1>3. CASE UNCHANGED vars
  BY <1>3 DEF vars, BallInv, TypeOK, Agility, CameraBounded
<1>4. QED
  BY <1>1, <1>2, <1>3 DEF Next

(***************************************************************************)
(* Types, the link of radius and speed and the range of the camera         *)
(* together are an invariant of the ball.                                  *)
(***************************************************************************)
THEOREM Invariance == Spec => []BallInv
  BY InitInv, NextInv, PTL DEF Spec

(* The registers of ball.sv hold values of their widths and ranges.        *)
THEOREM TypeCorrect == Spec => []TypeOK
<1>1. BallInv => TypeOK
  BY DEF BallInv
<1>2. QED
  BY <1>1, Invariance, PTL

(* However the dots come, radius and speed stay linked.                    *)
THEOREM AgilityHolds == Spec => []Agility
<1>1. BallInv => Agility
  BY DEF BallInv
<1>2. QED
  BY <1>1, Invariance, PTL

(* The camera never leaves the part of the arena it may scroll through.    *)
THEOREM CameraBoundedHolds == Spec => []CameraBounded
<1>1. BallInv => CameraBounded
  BY DEF BallInv
<1>2. QED
  BY <1>1, Invariance, PTL

LEMMA StepNeverStops ==
  ASSUME BallInv, [Next]_vars
  PROVE  [~Rests => ~Rests' \/ BackToStart]_vars
<1>1. ASSUME ~Rests, NEW keycode, Advance(keycode)
      PROVE  ~Rests'
  <2>1. mx' # 0 \/ my' # 0
    BY <1>1, RollsOn DEF Advance, BallInv
  <2>2. QED
    BY <2>1 DEF Rests
<1>2. QED
  BY <1>1 DEF Next, Grow, Shrink, Roll

(* No sequence of keys, walls and dots stops a rolling ball.               *)
THEOREM NeverStopsHolds == Spec => NeverStops
  BY StepNeverStops, Invariance, PTL DEF Spec, NeverStops
=============================================================================
