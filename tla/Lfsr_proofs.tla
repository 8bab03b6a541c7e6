----------------------------- MODULE Lfsr_proofs ------------------------------
(***************************************************************************)
(* Proofs about the random number generators, for every design: any taps   *)
(* and any number of shifts between two loads.                             *)
(***************************************************************************)
EXTENDS Lfsr, FiniteSetTheorems, TLAPS

(* What is known of the design that is being run. *)
LEMMA DesignIs ==
  ASSUME design \in Designs
  PROVE  /\ design.taps \subseteq 0 .. 9 /\ design.taps # {}
         /\ design.shifts \in 1 .. 15
  BY LfsrAssumption DEF LfsrAssumption, Word, Width

(* A shift keeps the width of the register. *)
LEMMA ShiftedInWord ==
  ASSUME NEW word \in Word
  PROVE  Shifted(word) \in Word
  BY DEF Shifted, Feedback, Word, Width

LEMMA TypeNext == TypeOK /\ [Next]_vars => TypeOK'
<1> SUFFICES ASSUME TypeOK, [Next]_vars
             PROVE  TypeOK'
  OBVIOUS
<1>1. design.shifts \in 1 .. 15
  BY DesignIs DEF TypeOK
<1>2. CASE Reset
  BY <1>1, <1>2 DEF Reset, TypeOK, Seed, Word, Width
<1>3. CASE Load
  BY <1>1, <1>3 DEF Load, TypeOK
<1>4. CASE Shift
  BY <1>1, <1>4, ShiftedInWord DEF Shift, TypeOK
<1>5. CASE UNCHANGED vars
  BY <1>5 DEF vars, TypeOK
<1>6. QED
  BY <1>2, <1>3, <1>4, <1>5 DEF Next

(* The registers of every design keep their widths. *)
THEOREM TypeCorrect == Spec => []TypeOK
<1>1. Init => TypeOK
  <2> SUFFICES ASSUME Init
               PROVE  TypeOK
    OBVIOUS
  <2>1. design.shifts \in 1 .. 15
    BY DesignIs DEF Init
  <2>2. QED
    BY <2>1 DEF Init, TypeOK, Seed, Word, Width
<1>2. QED
  BY <1>1, TypeNext, PTL DEF Spec

-----------------------------------------------------------------------------
(* The lowest bit of a word is always an effective one. *)
LEMMA SeedIsEffective ==
  ASSUME design \in Designs
  PROVE  Effective(Seed) # {}
  BY DesignIs DEF Effective, Seed

(***************************************************************************)
(* A shift that would lose the last effective bit loses it from the        *)
(* highest tap, and then it is the only bit fed back, so it comes in again *)
(* at the bottom.                                                          *)
(***************************************************************************)
LEMMA ShiftedIsEffective ==
  ASSUME design \in Designs, NEW word \in Word, Effective(word) # {}
  PROVE  Effective(Shifted(word)) # {}
<1>1. PICK i \in word, tap \in design.taps : i <= tap
  BY DEF Effective
<1>2. i \in 0 .. 9 /\ tap \in 0 .. 9 /\ word \subseteq 0 .. 9 /\ design.taps \subseteq 0 .. 9
  BY DesignIs DEF Word, Width
<1>3. CASE \E j \in word, top \in design.taps : j < top
  <2>1. PICK j \in word, top \in design.taps : j < top
    BY <1>3
  <2>2. j \in 0 .. 9 /\ top \in 0 .. 9
    BY <1>2
  <2>3. j + 1 \in Shifted(word) /\ j + 1 <= top
    BY <2>1, <2>2 DEF Shifted, Width
  <2>4. QED
    BY <2>3 DEF Effective
<1>4. CASE ~ \E j \in word, top \in design.taps : j < top
  <2>1. \A j \in word \cap design.taps : j = i
    BY <1>1, <1>2, <1>4
  <2>2. tap = i
    BY <1>1, <1>2, <1>4
  <2>3. word \cap design.taps = {i}
    BY <2>1, <2>2, <1>1
  <2>4. Cardinality({i}) = 1
    BY FS_Singleton
  <2>5. Cardinality(word \cap design.taps) % 2 = 1
    <3>1. Cardinality(word \cap design.taps) = 1
      BY <2>3, <2>4
    <3>2. 1 % 2 = 1
      OBVIOUS
    <3>3. QED
      BY <3>1, <3>2
  <2>6. 0 \in Shifted(word)
    BY <2>5 DEF Shifted, Feedback
  <2>7. QED
    BY <2>6, <1>2 DEF Effective
<1>5. QED
  BY <1>3, <1>4

LEMMA NeverStuckNext == TypeOK /\ NeverStuck /\ [Next]_vars => NeverStuck'
<1> SUFFICES ASSUME TypeOK, NeverStuck, [Next]_vars
             PROVE  NeverStuck'
  OBVIOUS
<1>1. design \in Designs /\ random \in Word /\ design' = design
  BY DEF TypeOK, Next, Reset, Load, Shift, vars
<1>2. NeverStuck' = (Effective(random') # {})
  BY <1>1 DEF NeverStuck, Effective
<1>3. CASE Reset
  BY <1>1, <1>2, <1>3, SeedIsEffective DEF Reset
<1>4. CASE Shift
  BY <1>1, <1>2, <1>4, ShiftedIsEffective DEF Shift, NeverStuck
<1>5. CASE Load \/ UNCHANGED vars
  BY <1>2, <1>5 DEF Load, vars, NeverStuck
<1>6. QED
  BY <1>3, <1>4, <1>5 DEF Next

(***************************************************************************)
(* No generator ever holds an all-zero state, whatever its taps: the seed  *)
(* and the feedback see to it, also when the register is wider than the    *)
(* bits its taps span.                                                     *)
(***************************************************************************)
THEOREM NeverStuckHolds == Spec => []NeverStuck
<1>1. Init => NeverStuck
  BY SeedIsEffective DEF Init, NeverStuck
<1>2. QED
  BY <1>1, TypeCorrect, NeverStuckNext, PTL DEF Spec
=============================================================================
