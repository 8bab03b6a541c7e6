-------------------------- MODULE RandomBall_proofs ---------------------------
(***************************************************************************)
(* Proofs about the dots, for any number of them, any homes, and any       *)
(* sequence of ball positions and random words.                            *)
(***************************************************************************)
EXTENDS RandomBall, TLAPS

DotInv == TypeOK /\ WithinReach

LEMMA Parameters ==
  /\ WordMod \in Int /\ WordMod >= 16
  /\ XCut \in 1 .. WordMod /\ YCut \in 1 .. WordMod
  /\ MaxShadow \in Int /\ StartShadow \in 1 .. MaxShadow
  /\ ScoreMod \in Int /\ ScoreMod >= 1
  /\ DotHome \in [Dots -> Position]
  /\ Randoms \subseteq Position
  BY DotAssumption, WordAssumption

(* A random place is a place; one with the bits cut off is in the corner.  *)
LEMMA NewPlaceIsPlace ==
  ASSUME NEW d \in Dots, NEW random \in Randoms
  PROVE  /\ NewPlace(d, random) \in Position
         /\ d \notin FullRange =>
              NewPlace(d, random).x < XCut /\ NewPlace(d, random).y < YCut
<1>1. random \in Position
  BY Parameters
<1>2. CASE d \in FullRange
  BY <1>1, <1>2 DEF NewPlace
<1>3. CASE d \notin FullRange
  <2>1. random.x \in Nat /\ random.y \in Nat
    BY <1>1 DEF Position, Word
  <2>2. random.x % XCut \in 0 .. XCut - 1 /\ random.y % YCut \in 0 .. YCut - 1
    BY <2>1, Parameters
  <2>3. random.x % XCut \in Word /\ random.y % YCut \in Word
    BY <2>2, Parameters DEF Word
  <2>4. NewPlace(d, random) = [x |-> random.x % XCut, y |-> random.y % YCut]
    BY <1>3 DEF NewPlace
  <2>5. QED
    BY <2>2, <2>3, <2>4, Parameters DEF Position
<1>4. QED
  BY <1>2, <1>3

(* What every frame does to the dots.                                      *)
LEMMA ScatterKeeps ==
  ASSUME DotInv, NEW ball, NEW random \in Randoms, Scatter(ball, random)
  PROVE  place' \in [Dots -> Position] /\ WithinReach'
<1>1. \A d \in Dots : place'[d] = IF d \in Touched(ball) THEN NewPlace(d, random) ELSE place[d]
  BY DEF Scatter
<1>2. place' \in [Dots -> Position]
  BY NewPlaceIsPlace DEF Scatter, DotInv, TypeOK
<1>3. ASSUME NEW d \in Dots \ FullRange
      PROVE  place'[d] = DotHome[d] \/ (place'[d].x < XCut /\ place'[d].y < YCut)
  <2>1. CASE d \in Touched(ball)
    BY <1>1, <2>1, NewPlaceIsPlace
  <2>2. CASE d \notin Touched(ball)
    BY <1>1, <2>2 DEF DotInv, WithinReach
  <2>3. QED
    BY <2>1, <2>2
<1>4. QED
  BY <1>2, <1>3 DEF WithinReach

LEMMA InitInv == Init => DotInv
<1> SUFFICES ASSUME Init
             PROVE  DotInv
  OBVIOUS
<1>1. 0 \in Word
  BY Parameters DEF Word
<1>2. rscore \in 0 .. ScoreMod - 1 /\ bSize \in 1 .. MaxShadow
  BY Parameters DEF Init, Home, PowerUp
<1>3. CASE place = DotHome
  BY <1>2, <1>3, Parameters DEF DotInv, TypeOK, WithinReach
<1>4. CASE place = [d \in Dots |-> [x |-> 0, y |-> 0]]
  <2>1. place \in [Dots -> Position]
    BY <1>1, <1>4 DEF Position
  <2>2. \A d \in Dots : place[d].x < XCut /\ place[d].y < YCut
    BY <1>4, Parameters
  <2>3. QED
    BY <1>2, <2>1, <2>2 DEF DotInv, TypeOK, WithinReach
<1>5. QED
  BY <1>3, <1>4 DEF Init, Home, PowerUp

LEMMA FrameInv ==
  ASSUME DotInv, NEW ball, NEW random \in Randoms, NEW start_signal,
         Frame(ball, random, start_signal)
  PROVE  DotInv'
<1>1. Scatter(ball, random)
  BY DEF Frame, EatGrowing, EatShrinking, ClearScore, Idle
<1>2. bSize \in 1 .. MaxShadow /\ rscore \in 0 .. ScoreMod - 1
  BY DEF DotInv, TypeOK
<1>3. bSize' \in 1 .. MaxShadow
  BY <1>2, Parameters DEF Frame, EatGrowing, EatShrinking, ClearScore, Idle
<1>4. rscore' = (rscore + 1) % ScoreMod \/ rscore' = 0 \/ rscore' = rscore
  BY DEF Frame, EatGrowing, EatShrinking, ClearScore, Idle
<1>5. rscore' \in 0 .. ScoreMod - 1
  BY <1>2, <1>4, Parameters
<1>6. QED
  BY <1>1, <1>3, <1>5, ScatterKeeps DEF DotInv, TypeOK

LEMMA ResetInv == Reset => DotInv'
  BY Parameters DEF Reset, DotInv, TypeOK, WithinReach

LEMMA NextInv == DotInv /\ [Next]_vars => DotInv'
<1> SUFFICES ASSUME DotInv, [Next]_vars
             PROVE  DotInv'
  OBVIOUS
<1>1. CASE UNCHANGED vars
  BY <1>1 DEF vars, DotInv, TypeOK, WithinReach
<1>2. QED
  BY <1>1, FrameInv, ResetInv DEF Next

(* The registers of random_ball.sv hold values of their widths, and bSize  *)
(* stays between its limits.                                               *)
THEOREM TypeCorrect == Spec => []TypeOK
<1>1. DotInv => TypeOK
  BY DEF DotInv
<1>2. QED
  BY <1>1, InitInv, NextInv, PTL DEF Spec

(* An eaten dot lies where the player's ball can eat it again.             *)
THEOREM WithinReachHolds == Spec => []WithinReach
<1>1. DotInv => WithinReach
  BY DEF DotInv
<1>2. QED
  BY <1>1, InitInv, NextInv, PTL DEF Spec

-----------------------------------------------------------------------------
(* Two dots on one spot are touched together. *)
LEMMA TouchedTogether ==
  ASSUME NEW d \in Dots, NEW e \in Dots, Coincide(d, e), NEW ball
  PROVE  d \in Touched(ball) <=> e \in Touched(ball)
  BY DEF Coincide, Touched

LEMMA StepTogether ==
  ASSUME [Next]_vars
  PROVE  [\A d, e \in Dots \ FullRange : Coincide(d, e) => Coincide(d, e)' \/ Reset]_vars
<1>1. ASSUME NEW d \in Dots \ FullRange, NEW e \in Dots \ FullRange, Coincide(d, e),
             NEW ball, NEW random, Scatter(ball, random)
      PROVE  Coincide(d, e)'
  <2>1. NewPlace(d, random) = NewPlace(e, random)
    BY DEF NewPlace
  <2>2. /\ place'[d] = IF d \in Touched(ball) THEN NewPlace(d, random) ELSE place[d]
        /\ place'[e] = IF e \in Touched(ball) THEN NewPlace(e, random) ELSE place[e]
    BY <1>1 DEF Scatter
  <2>3. QED
    BY <1>1, <2>1, <2>2, TouchedTogether DEF Coincide
<1>2. ASSUME NEW ball, NEW random, NEW start_signal, Frame(ball, random, start_signal)
      PROVE  Scatter(ball, random)
  BY <1>2 DEF Frame, EatGrowing, EatShrinking, ClearScore, Idle
<1>3. QED
  BY <1>1, <1>2 DEF Next

(* Dots that once land on one spot are one dot until the reset button.     *)
THEOREM DotsStayTogetherHolds == Spec => DotsStayTogether
  BY StepTogether, PTL DEF Spec, DotsStayTogether
=============================================================================
