-------------------------------- MODULE Lfsr ---------------------------------
(***************************************************************************)
(* A linear feedback shift register that gives the dots their new places:  *)
(* LFSRX of randomx.sv and LFSRY of randomy.sv, one machine of two         *)
(* designs.  A behaviour is that of one generator, whichever it is; a step *)
(* is one 50 MHz clock edge.                                               *)
(***************************************************************************)
EXTENDS Integers, FiniteSets

(* A design is the bits of the register that are fed back, the shifts      *)
(* between two loads of the output, and the words the output is expected   *)
(* to show again and again.                                                *)
CONSTANT Designs

Width == 10

Word == SUBSET (0 .. Width - 1)

ASSUME LfsrAssumption == \A d \in Designs :
  /\ d.taps \in Word /\ d.taps # {}
  /\ d.shifts \in 1 .. 15
  /\ d.awaited \subseteq Word

VARIABLES
  design,        \* which generator this is
  random,        \* the shift register
  random_done,   \* the output: the register at the last load
  count          \* shifts since the last load

vars == <<design, random, random_done, count>>

(* The bits from the highest tap down determine all that follows: the      *)
(* others are only shifted out.                                            *)
Effective(word) == {i \in word : \E tap \in design.taps : i <= tap}

(* The taps are joined by exclusive or. *)
Feedback(word) ==
  IF Cardinality(word \cap design.taps) % 2 = 1 THEN {0} ELSE {}

(* Mutant of Shifted: the top bit is kept. *)
ShiftedWide(word) == {i + 1 : i \in word} \cup Feedback(word)

Shifted(word) == {i + 1 : i \in word \ {Width - 1}} \cup Feedback(word)

(* 9'hF *)
Seed == 0 .. 3

-----------------------------------------------------------------------------
(* random_done has no reset value; it powers up at zero. *)
Init ==
  /\ design \in Designs
  /\ random = Seed
  /\ count = 0
  /\ random_done = {}

(* Mutant of Reset: the register is cleared. *)
ResetToZero ==
  /\ random' = {}
  /\ count' = 0
  /\ UNCHANGED <<design, random_done>>

(* Mutant of Load: the count stays. *)
LoadSticks ==
  /\ count = design.shifts
  /\ random_done' = random
  /\ UNCHANGED <<design, count, random>>

(* Reset restarts the sequence but leaves the output. *)
Reset ==
  /\ random' = Seed
  /\ count' = 0
  /\ UNCHANGED <<design, random_done>>

Load ==
  /\ count = design.shifts
  /\ random_done' = random
  /\ count' = 0
  /\ UNCHANGED <<design, random>>

Shift ==
  /\ count # design.shifts
  /\ random' = Shifted(random)
  /\ count' = count + 1
  /\ UNCHANGED <<design, random_done>>

Next == Reset \/ Load \/ Shift

(* The clock never stops. *)
Spec == Init /\ [][Next]_vars /\ WF_vars(Load \/ Shift)

-----------------------------------------------------------------------------
(* Correctness. *)

(* The registers hold words of their widths. *)
TypeOK ==
  /\ design \in Designs
  /\ random \in Word
  /\ random_done \in Word
  /\ count \in 0 .. design.shifts

(***************************************************************************)
(* "An LFSR cannot have an all 0 state" (randomx.sv:16): the bits the      *)
(* feedback depends on are never all zero, although the register is wider  *)
(* than they are and keeps stale ones above them.                          *)
(***************************************************************************)
NeverStuck == Effective(random) # {}

(***************************************************************************)
(* Left alone, the output shows every awaited word again and again: the    *)
(* number of shifts between two loads does not fall into step with the     *)
(* period of the register.                                                 *)
(***************************************************************************)
LeftAlone == <>[][~Reset]_vars

ComesRound ==
  LeftAlone =>
    \A d \in Designs : design = d =>
      \A word \in d.awaited : []<>(Effective(random_done) = word)
=============================================================================
