--------------------------- MODULE Ps2Mouse_proofs ---------------------------
(***************************************************************************)
(* Proofs about the PS/2 mouse, for every set of packets and any number of *)
(* unanswered requests, broken commands and resets.                        *)
(***************************************************************************)
EXTENDS Ps2Mouse, SequenceTheorems, TLAPS

Bits == 0 .. 1

LEMMA BitIsBit ==
  ASSUME NEW n \in Byte, NEW i \in 0 .. 7
  PROVE  Bit(n, i) \in Bits
<1>1. <<1, 2, 4, 8, 16, 32, 64, 128>>[i + 1] \in {1, 2, 4, 8, 16, 32, 64, 128}
  <2>1. i \in {0, 1, 2, 3, 4, 5, 6, 7}
    OBVIOUS
  <2>2. QED
    BY <2>1
<1>2. QED
  BY <1>1 DEF Bit, Byte, Bits

LEMMA ParityIsBit ==
  ASSUME NEW n \in Byte
  PROVE  Parity(n) \in Bits
<1>1. \A i \in 0 .. 7 : Bit(n, i) \in Bits
  BY BitIsBit
<1>2. QED
  BY <1>1 DEF Parity, Bits

LEMMA CommandIsBit ==
  ASSUME NEW i \in 0 .. 8
  PROVE  Command(i) \in Bits
  BY BitIsBit, ParityIsBit DEF Command, Enable, Byte

LEMMA FrameIsBits ==
  ASSUME NEW n \in Byte
  PROVE  Frame(n) \in Seq(Bits) /\ Frame(n) # <<>>
<1>1. [i \in 1 .. 8 |-> Bit(n, i - 1)] \in Seq(Bits)
  BY BitIsBit
<1>2. <<0>> \in Seq(Bits) /\ <<Parity(n), 1>> \in Seq(Bits)
  BY ParityIsBit DEF Bits
<1>3. QED
  BY <1>1, <1>2 DEF Frame

LEMMA AckIsByte == Ack \in Byte
  BY DEF Ack, Byte

-----------------------------------------------------------------------------
(* The cursor. *)

LEMMA MagnitudeBound ==
  ASSUME NEW negative, NEW byte \in Byte
  PROVE  Magnitude(negative, byte) \in 0 .. 256
  BY DEF Magnitude, Byte

LEMMA LessBound ==
  ASSUME NEW cur \in Coordinate, NEW mag \in 0 .. 256
  PROVE  /\ Less(cur, mag) \in Coordinate
         /\ \A edge \in {475, 635} : OnScreen(cur, edge) => OnScreen(Less(cur, mag), edge)
<1>1. CASE cur < 5
  BY <1>1 DEF Less, Coordinate, OnScreen
<1>2. CASE cur >= 5 /\ cur - 5 > mag
  <2>1. (cur - mag) % 1024 = cur - mag
    BY <1>2 DEF Coordinate
  <2>2. QED
    BY <1>2, <2>1 DEF Less, Coordinate, OnScreen
<1>3. CASE cur >= 5 /\ ~(cur - 5 > mag)
  BY <1>3 DEF Less, Coordinate, OnScreen
<1>4. QED
  BY <1>1, <1>2, <1>3 DEF Coordinate

LEMMA MoreBound ==
  ASSUME NEW cur \in Coordinate, NEW mag \in 0 .. 256, NEW edge \in {475, 635}
  PROVE  /\ More(cur, mag, edge) \in Coordinate
         /\ OnScreen(cur, edge) => OnScreen(More(cur, mag, edge), edge)
  BY DEF More, Coordinate, OnScreen

LEMMA MovesOnScreen ==
  ASSUME curX \in Coordinate, curY \in Coordinate, byte2 \in Byte, byte3 \in Byte
  PROVE  /\ MoveX \in Coordinate /\ (OnScreen(curX, 635) => OnScreen(MoveX, 635))
         /\ MoveY \in Coordinate /\ (OnScreen(curY, 475) => OnScreen(MoveY, 475))
<1>1. ASSUME NEW mag \in 0 .. 256
      PROVE  /\ Less(curX, mag) \in Coordinate /\ Less(curY, mag) \in Coordinate
             /\ OnScreen(curX, 635) => OnScreen(Less(curX, mag), 635)
             /\ OnScreen(curY, 475) => OnScreen(Less(curY, mag), 475)
  <2>1. /\ Less(curX, mag) \in Coordinate
        /\ \A edge \in {475, 635} : OnScreen(curX, edge) => OnScreen(Less(curX, mag), edge)
    BY LessBound
  <2>2. /\ Less(curY, mag) \in Coordinate
        /\ \A edge \in {475, 635} : OnScreen(curY, edge) => OnScreen(Less(curY, mag), edge)
    BY LessBound
  <2>3. 635 \in {475, 635} /\ 475 \in {475, 635}
    OBVIOUS
  <2>4. QED
    BY ONLY <2>1, <2>2, <2>3
<1>2. ASSUME NEW mag \in 0 .. 256
      PROVE  /\ More(curX, mag, 635) \in Coordinate /\ More(curY, mag, 475) \in Coordinate
             /\ OnScreen(curX, 635) => OnScreen(More(curX, mag, 635), 635)
             /\ OnScreen(curY, 475) => OnScreen(More(curY, mag, 475), 475)
  <2>1. 635 \in {475, 635} /\ 475 \in {475, 635}
    OBVIOUS
  <2>2. More(curX, mag, 635) \in Coordinate
        /\ (OnScreen(curX, 635) => OnScreen(More(curX, mag, 635), 635))
    BY <2>1, MoreBound
  <2>3. More(curY, mag, 475) \in Coordinate
        /\ (OnScreen(curY, 475) => OnScreen(More(curY, mag, 475), 475))
    BY <2>1, MoreBound
  <2>4. QED
    BY <2>2, <2>3
<1>3. Magnitude(Bit(byte1, 4), byte3) \in 0 .. 256
  BY MagnitudeBound
<1>4. Magnitude(Bit(byte1, 5), byte2) \in 0 .. 256
  BY MagnitudeBound
<1>5. MoveX \in Coordinate /\ (OnScreen(curX, 635) => OnScreen(MoveX, 635))
  BY <1>1, <1>2, <1>3 DEF MoveX
<1>6. MoveY \in Coordinate /\ (OnScreen(curY, 475) => OnScreen(MoveY, 475))
  BY <1>1, <1>2, <1>4 DEF MoveY
<1>7. QED
  BY <1>5, <1>6

-----------------------------------------------------------------------------
(* The types. *)

TypeCursor ==
  /\ counter \in 0 .. 2 /\ byte1 \in Byte /\ byte2 \in Byte /\ byte3 \in Byte
  /\ curX \in Coordinate /\ curY \in Coordinate

TypeData ==
  rx \in {"idle", "data", "parity", "stop"} /\ data_count \in 0 .. 7 /\ data_shift_reg \in Byte

OnScreenStays ==
  /\ OnScreen(curX, 635) => OnScreen(curX', 635)
  /\ OnScreen(curY, 475) => OnScreen(curY', 475)

LEMMA TakeByteTypes ==
  ASSUME TypeCursor, NEW byte \in Byte, TakeByte(byte)
  PROVE  TypeCursor' /\ OnScreenStays
<1>1. /\ MoveX \in Coordinate /\ (OnScreen(curX, 635) => OnScreen(MoveX, 635))
      /\ MoveY \in Coordinate /\ (OnScreen(curY, 475) => OnScreen(MoveY, 475))
  BY MovesOnScreen DEF TypeCursor
<1>2. QED
  BY <1>1 DEF TypeCursor, OnScreenStays, TakeByte, OnScreen

LEMMA SampleTypes ==
  ASSUME TypeCursor, TypeData, NEW bit \in Bits, Sample(bit)
  PROVE  TypeCursor' /\ TypeData' /\ OnScreenStays
<1>1. CASE UNCHANGED cursorVars
  <2>1. TypeCursor' /\ OnScreenStays
    BY <1>1 DEF TypeCursor, OnScreenStays, OnScreen, cursorVars
  <2>2. 128 * bit + data_shift_reg \div 2 \in Byte /\ (data_count + 1) % 8 \in 0 .. 7
    BY DEF TypeData, Byte, Bits
  <2>3. TypeData'
    BY <2>2 DEF TypeData, Sample
  <2>4. QED
    BY <2>1, <2>3
<1>2. CASE rx = "stop" /\ rx' = "idle" /\ TakeByte(data_shift_reg) /\ UNCHANGED <<data_count, data_shift_reg>>
  <2>1. TypeCursor' /\ OnScreenStays
    BY <1>2, TakeByteTypes DEF TypeData
  <2>2. QED
    BY <1>2, <2>1 DEF TypeData
<1>3. QED
  BY <1>1, <1>2 DEF Sample, cursorVars

LEMMA Parameters ==
  /\ Packets \subseteq [b1 : Byte, x : Byte, y : Byte]
  /\ MaxPackets \in Nat /\ MaxSilent \in Nat /\ MaxFaults \in Nat
  BY MouseAssumption DEF MouseAssumption

LEMMA HostDataIsBit ==
  ASSUME cur_bit \in 0 .. 8
  PROVE  HostData \in Bits
<1>1. Command(cur_bit) \in Bits
  BY CommandIsBit
<1>2. QED
  BY <1>1 DEF HostData, Bits

LEMMA InitTypes == Init => TypeOK
<1> SUFFICES ASSUME Init
             PROVE  TypeOK
  OBVIOUS
<1>1. <<>> \in Seq(0 .. 1)
  OBVIOUS
<1>2. 0 \in Byte /\ 0 \in Coordinate
  BY DEF Byte, Coordinate
<1>3. 0 \in 0 .. MaxSilent /\ 0 \in 0 .. MaxPackets /\ 0 \in 0 .. MaxFaults
  BY Parameters
<1>4. init_done \in BOOLEAN /\ broken \in BOOLEAN
  BY DEF Init
<1>5. mouse = "sending" <=> todo # <<>>
  BY DEF Init
<1>6. last \in Packets \cup {NoPacket}
  BY DEF Init
<1>7. QED
  BY <1>1, <1>2, <1>3, <1>4, <1>5, <1>6 DEF Init, TypeOK

LEMMA InhibitTypes ==
  ASSUME TypeOK, Inhibit
  PROVE  /\ s' = "initiate" /\ cur_bit' = 0 /\ clk' = 0 /\ dat' = 1
         /\ mouse' = "idle" /\ got' \in Seq(Bits) /\ todo' \in Seq(Bits)
         /\ todo' = <<>> /\ got' = <<>>
  BY DEF Inhibit

LEMMA TypesStep == TypeOK /\ [Next]_vars => TypeOK' /\ OnScreenStays
<1> SUFFICES ASSUME TypeOK, [Next]_vars
             PROVE  TypeOK' /\ OnScreenStays
  OBVIOUS
<1>0. TypeCursor /\ TypeData
  BY DEF TypeOK, TypeCursor, TypeData
<1> USE Parameters
<1>1. CASE Request
  <2>1. TypeCursor' /\ TypeData' /\ OnScreenStays
    BY <1>0, <1>1, SampleTypes DEF Request, Bits
  <2>2. QED
    BY <1>1, <2>1 DEF TypeOK, TypeCursor, TypeData, Request, mouseVars, history
<1>2. CASE WaitTimeOut
  BY <1>2 DEF TypeOK, WaitTimeOut, dataVars, cursorVars, mouseVars, OnScreenStays, OnScreen
<1>3. CASE TransferTimeOut
  <2>1. faults' \in 0 .. MaxFaults /\ broken' \in BOOLEAN
    <3>1. CASE UNCHANGED <<broken, faults>>
      BY <3>1 DEF TypeOK
    <3>2. CASE faults < MaxFaults /\ faults' = faults + 1 /\ broken' = TRUE
      BY <3>2 DEF TypeOK
    <3>3. QED
      BY <1>3, <3>1, <3>2 DEF TransferTimeOut, Overdue
  <2>2. s' = "error" /\ cur_bit' = 0
        /\ UNCHANGED <<init_done, dataVars, cursorVars, clk, mouseVars, silent, packets, last>>
    BY <1>3 DEF TransferTimeOut
  <2>3. QED
    BY <2>1, <2>2 DEF TypeOK, dataVars, cursorVars, mouseVars, OnScreenStays, OnScreen
<1>4. CASE Retry
  BY <1>4, InhibitTypes DEF TypeOK, Retry, dataVars, cursorVars, history, OnScreenStays, OnScreen, Bits
<1>5. CASE CommandWasSent
  BY <1>5 DEF TypeOK, CommandWasSent, dataVars, cursorVars, mouseVars, history, OnScreenStays, OnScreen
<1>6. CASE Reset
  <2>1. s' = "initiate" /\ cur_bit' = 0 /\ clk' = 0 /\ dat' = 1 /\ mouse' = "idle" /\ got' = <<>> /\ todo' = <<>>
    BY <1>6, InhibitTypes DEF Reset
  <2>2. <<>> \in Seq(0 .. 1) /\ 0 \in Byte
    BY DEF Byte
  <2>3. faults' \in 0 .. MaxFaults /\ 0 \in 0 .. MaxSilent /\ 0 \in 0 .. MaxPackets
    BY <1>6 DEF Reset, TypeOK
  <2>4. OnScreenStays
    BY <1>6 DEF Reset, OnScreenStays, OnScreen
  <2>5. init_done' \in BOOLEAN /\ broken' \in BOOLEAN
    BY <1>6 DEF Reset
  <2>6. mouse' = "sending" <=> todo' # <<>>
    BY <2>1
  <2>7. QED
    BY <1>6, <2>1, <2>2, <2>3, <2>4, <2>5, <2>6 DEF TypeOK, Reset
<1>7. CASE Answer
  <2>1. todo = <<>>
    BY <1>7 DEF TypeOK, Answer
  <2>2. QED
    <3>1. OnScreenStays
      BY <1>7 DEF Answer, cursorVars, OnScreenStays
    <3>2. mouse' # "sending" /\ todo' = <<>>
      BY <1>7, <2>1 DEF Answer
    <3>3. TypeOK'
      BY <1>7, <3>2 DEF TypeOK, Answer, commandVars, dataVars, cursorVars, history
    <3>4. QED
      BY <3>1, <3>3
<1>8. CASE Fall
  <2>1. s' \in {"initiate", "wait", "transmit", "stop", "ack", "sent", "error", "idle"} /\ cur_bit' \in 0 .. 8
    <3>1. NextBit /\ s \in {"initiate", "wait", "transmit", "stop", "ack", "sent", "error", "idle"}
          /\ cur_bit \in 0 .. 8
      BY <1>8 DEF TypeOK, Fall
    <3>2. QED
      BY ONLY <3>1 DEF NextBit
  <2>2. dat' \in Bits
    BY <1>8 DEF TypeOK, Fall, Bits
  <2>3. QED
    BY <1>8, <2>1, <2>2 DEF TypeOK, Fall, dataVars, cursorVars, history, OnScreenStays, OnScreen, Bits
<1>9. CASE Rise
  <2> DEFINE line == IF dat = 0 THEN 0 ELSE HostData
  <2>1. line \in Bits
    BY HostDataIsBit DEF TypeOK, Bits
  <2>2. Sample(line) /\ got' = IF mouse = "receiving" THEN Append(got, line) ELSE got
    BY <1>9 DEF Rise
  <2>3. TypeCursor' /\ TypeData' /\ OnScreenStays
    BY <1>0, <2>1, <2>2, SampleTypes
  <2>4. got' \in Seq(Bits)
    BY <2>1, <2>2 DEF TypeOK, Bits
  <2>5. dat' \in Bits /\ mouse' \in {"idle", "receiving", "sending"} /\ todo' \in Seq(Bits)
        /\ (mouse' = "sending" <=> todo' # <<>>)
    <3>1. CASE mouse = "receiving" /\ Len(got) < 10 /\ UNCHANGED <<dat, mouse, todo>>
      BY <3>1 DEF TypeOK, Bits
    <3>2. CASE mouse = "receiving" /\ mouse' = "sending" /\ todo' = Frame(Ack) /\ dat' = 1
      BY <3>2, FrameIsBits, AckIsByte DEF Bits
    <3>3. CASE mouse = "sending" /\ todo' = Tail(todo)
               /\ mouse' = (IF Len(todo) = 1 THEN "idle" ELSE mouse) /\ dat' = 1
      <4>1. todo \in Seq(Bits) /\ todo # <<>>
        BY <3>3 DEF TypeOK, Bits
      <4>2. Tail(todo) \in Seq(Bits) /\ Len(Tail(todo)) = Len(todo) - 1
        BY <4>1, HeadTailProperties
      <4>3. Tail(todo) = <<>> <=> Len(todo) = 1
        <5>1. Tail(todo) = <<>> <=> Len(Tail(todo)) = 0
          BY ONLY <4>2, EmptySeq
        <5>2. Len(todo) \in Nat
          BY ONLY <4>1
        <5>3. QED
          BY ONLY <4>2, <5>1, <5>2
      <4>4. QED
        BY <3>3, <4>2, <4>3 DEF Bits
    <3>4. QED
      BY <1>9, <3>1, <3>2, <3>3 DEF Rise
  <2>6. QED
    BY <1>9, <2>3, <2>4, <2>5 DEF TypeOK, TypeCursor, TypeData, Rise, history, Bits
<1>10. CASE BreakOff
  BY <1>10 DEF TypeOK, BreakOff, commandVars, dataVars, cursorVars, OnScreenStays, OnScreen
<1>11. CASE Move
  <2>1. PICK p \in Packets : last' = p /\ todo' = Frame(p.b1) \o Frame(p.x) \o Frame(p.y)
    BY <1>11 DEF Move
  <2>2. p.b1 \in Byte /\ p.x \in Byte /\ p.y \in Byte
    OBVIOUS
  <2>3. todo' \in Seq(Bits) /\ todo' # <<>>
    <3>1. /\ Frame(p.b1) \in Seq(Bits) /\ Frame(p.x) \in Seq(Bits) /\ Frame(p.y) \in Seq(Bits)
          /\ Frame(p.b1) # <<>>
      BY <2>2, FrameIsBits
    <3>2. QED
      BY <2>1, <3>1
  <2>4. QED
    BY <1>11, <2>1, <2>3 DEF TypeOK, Move, commandVars, dataVars, cursorVars, OnScreenStays, OnScreen, Bits
<1>12. CASE UNCHANGED vars
  BY <1>12 DEF TypeOK, vars, commandVars, dataVars, cursorVars, mouseVars, history, OnScreenStays, OnScreen
<1>13. QED
  BY <1>1, <1>2, <1>3, <1>4, <1>5, <1>6, <1>7, <1>8, <1>9, <1>10, <1>11, <1>12 DEF Next

(* The registers keep their widths, and the mouse sends just when it has    *)
(* bits to send.                                                            *)
THEOREM TypeCorrect == Spec => []TypeOK
  BY InitTypes, TypesStep, PTL DEF Spec

(* A cursor on the screen stays there, whatever bytes come in: the unsigned *)
(* comparison of mouse_interface_IP.sv:66 does no harm there.               *)
THEOREM CursorStaysHolds == Spec => CursorStays
<1>1. TypeOK /\ [Next]_vars => [OnScreenStays]_vars
  BY TypesStep
<1>2. QED
  BY <1>1, TypeCorrect, PTL DEF Spec, CursorStays, OnScreenStays

-----------------------------------------------------------------------------
(* The command. *)

(* The bits the mouse should see, in the order of its pulses. *)
RightBit(i) == IF i = 10 THEN 1 ELSE Command(i - 1)

GotRight == \A i \in 1 .. 10 : i <= Len(got) => got[i] = RightBit(i)

(* Who has the wires in each state of the transmitter. *)
Roles ==
  /\ mouse = "receiving" => s \in {"wait", "transmit", "stop", "ack", "error"}
  /\ s \in {"initiate", "wait"} => got = <<>>
  /\ s = "wait" => clk = 1
  /\ s = "initiate" => mouse = "idle"
  /\ init_done => s = "idle"
  /\ mouse = "sending" => s \in {"sent", "idle"} \/ (s = "error" /\ clk = 1)

(* How far the mouse and the transmitter are, until the transmitter gives   *)
(* up.                                                                      *)
InStep ==
  mouse = "receiving" /\ s # "error" =>
    /\ s = "transmit" => Len(got) = (IF clk = 1 THEN cur_bit + 1 ELSE cur_bit)
    /\ s = "stop" => Len(got) = (IF clk = 1 THEN 10 ELSE 9)
    /\ s = "ack" => Len(got) = 10 /\ clk = 0
    /\ clk = 0 /\ Len(got) < 10 => dat = 1
    /\ GotRight

Complete == s = "sent" => Len(got) = 11 /\ GotRight

CommandInv == TypeOK /\ Roles /\ InStep /\ Complete

LEMMA InitCommand == Init => CommandInv
<1> SUFFICES ASSUME Init
             PROVE  CommandInv
  OBVIOUS
<1>1. TypeOK
  BY InitTypes
<1>2. Roles /\ InStep /\ Complete
  BY DEF Init, Roles, InStep, Complete
<1>3. QED
  BY <1>1, <1>2 DEF CommandInv

(* Nothing is heard while the controller holds the clock down. *)
LEMMA InhibitCommand == Inhibit /\ ~init_done' => Roles' /\ InStep' /\ Complete'
  BY DEF Inhibit, Roles, InStep, Complete

LEMMA FallCommand ==
  ASSUME CommandInv, Fall
  PROVE  Roles' /\ InStep' /\ Complete'
<1>1. /\ mouse # "idle" /\ mouse' = mouse /\ got' = got
      /\ clk = 1 /\ clk' = 0 /\ s # "error" /\ GotRight' = GotRight /\ init_done' = init_done
  BY DEF Fall, GotRight
<1>2. got \in Seq(0 .. 1) /\ Len(got) \in Nat /\ cur_bit \in 0 .. 8
  BY DEF CommandInv, TypeOK
<1>3. CASE mouse = "sending"
  <2>1. s \in {"sent", "idle"}
    BY <1>1, <1>3 DEF CommandInv, Roles
  <2>2. s' = s
    BY <2>1 DEF Fall, NextBit
  <2>3. Roles'
    BY <1>1, <1>3, <2>1, <2>2 DEF CommandInv, Roles, Fall
  <2>4. InStep' /\ Complete'
    BY <1>1, <1>3, <2>2 DEF CommandInv, InStep, Complete
  <2>5. QED
    BY <2>3, <2>4
<1>4. CASE mouse = "receiving"
  <2>1. dat' = IF Len(got) = 10 THEN 0 ELSE 1
    BY <1>4 DEF Fall
  <2>2. s \in {"wait", "transmit", "stop"}
    BY <1>1, <1>4 DEF CommandInv, Roles, InStep
  <2>0. ~init_done
    BY <2>2 DEF CommandInv, Roles
  <2>3. CASE s = "wait"
    <3>1. s' = "transmit" /\ cur_bit' = 0 /\ got = <<>>
      BY <2>3 DEF Fall, NextBit, CommandInv, Roles
    <3>2. GotRight /\ Len(got) = 0
      BY <3>1 DEF GotRight
    <3>3. QED
      BY <1>1, <1>4, <2>0, <2>1, <3>1, <3>2 DEF Roles, InStep, Complete
  <2>4. CASE s = "transmit"
    <3>1. Len(got) = cur_bit + 1 /\ GotRight
      BY <1>1, <1>4, <2>4 DEF CommandInv, InStep
    <3>2. \/ cur_bit = 8 /\ s' = "stop" /\ cur_bit' = 0
          \/ cur_bit # 8 /\ s' = "transmit" /\ cur_bit' = cur_bit + 1
      BY <2>4 DEF Fall, NextBit
    <3>3. QED
      BY <1>1, <1>2, <1>4, <2>0, <2>1, <3>1, <3>2 DEF Roles, InStep, Complete
  <2>5. CASE s = "stop"
    <3>1. Len(got) = 10 /\ GotRight
      BY <1>1, <1>4, <2>5 DEF CommandInv, InStep
    <3>2. s' = "ack"
      BY <2>5 DEF Fall, NextBit
    <3>3. QED
      BY <1>1, <1>4, <2>0, <2>1, <3>1, <3>2 DEF Roles, InStep, Complete
  <2>6. QED
    BY <2>2, <2>3, <2>4, <2>5
<1>5. QED
  BY <1>1, <1>3, <1>4 DEF CommandInv, TypeOK

(* What is on the wire at a rising edge while the mouse takes the command.  *)
LEMMA LineIs ==
  ASSUME CommandInv, clk = 0, mouse = "receiving", s # "error", Len(got) < 10
  PROVE  (IF dat = 0 THEN 0 ELSE HostData) = RightBit(Len(got) + 1)
<1>1. got \in Seq(0 .. 1) /\ Len(got) \in Nat /\ cur_bit \in 0 .. 8
  BY DEF CommandInv, TypeOK
<1>2. /\ s \in {"transmit", "stop", "ack"}
      /\ s = "transmit" => Len(got) = cur_bit
      /\ s = "stop" => Len(got) = 9
      /\ s = "ack" => Len(got) = 10
      /\ dat = 1
  BY DEF CommandInv, Roles, InStep
<1> SUFFICES HostData = RightBit(Len(got) + 1)
  BY <1>2
<1>3. CASE s = "transmit"
  <2>1. Len(got) = cur_bit /\ HostData = Command(cur_bit) /\ RightBit(Len(got) + 1) = Command(Len(got))
    BY <1>1, <1>2, <1>3 DEF HostData, RightBit
  <2>2. QED
    BY <2>1
<1>4. CASE s = "stop"
  <2>1. Len(got) = 9 /\ HostData = 1
    BY <1>2, <1>4 DEF HostData
  <2>2. QED
    BY <2>1 DEF RightBit
<1>5. s # "ack"
  <2>1. s = "ack" => Len(got) = 10
    BY <1>2
  <2>2. ASSUME Len(got) = 10
        PROVE  FALSE
    BY <2>2
  <2>3. QED
    BY <2>1, <2>2, Zenon
<1>6. QED
  BY <1>2, <1>3, <1>4, <1>5

LEMMA RiseCommand ==
  ASSUME CommandInv, Rise
  PROVE  Roles' /\ InStep' /\ Complete'
<1> DEFINE line == IF dat = 0 THEN 0 ELSE HostData
<1>1. mouse # "idle" /\ clk = 0 /\ clk' = 1 /\ cur_bit' = cur_bit
      /\ s' = (IF s = "ack" THEN "sent" ELSE s)
      /\ got' = (IF mouse = "receiving" THEN Append(got, line) ELSE got)
  BY DEF Rise
<1>2. got \in Seq(0 .. 1) /\ Len(got) \in Nat /\ cur_bit \in 0 .. 8
  BY DEF CommandInv, TypeOK
<1>3. CASE mouse = "sending"
  <2>1. mouse' \in {"idle", "sending"} /\ got' = got
    BY <1>1, <1>3 DEF Rise
  <2>2. GotRight' = GotRight
    BY <2>1 DEF GotRight
  <2>3. s # "initiate" /\ s # "wait" /\ init_done' = init_done
    BY <1>1, <1>3 DEF CommandInv, Roles, Rise
  <2>4. s \in {"sent", "idle"}
    BY <1>1, <1>3 DEF CommandInv, Roles
  <2>5. s' = s
    BY <1>1, <2>4
  <2>6. Roles'
    BY <2>1, <2>3, <2>4, <2>5 DEF CommandInv, Roles
  <2>7. InStep' /\ Complete'
    BY <2>1, <2>2, <2>5 DEF CommandInv, InStep, Complete
  <2>8. QED
    BY <2>6, <2>7
<1>4. CASE mouse = "receiving" /\ s = "error"
  <2>1. s' = "error" /\ mouse' \in {"receiving", "sending"} /\ ~init_done'
    BY <1>1, <1>4 DEF Rise, CommandInv, Roles
  <2>2. QED
    BY <1>1, <2>1 DEF Roles, InStep, Complete
<1>5. CASE mouse = "receiving" /\ s # "error"
  <2>0. GotRight
    BY <1>5 DEF CommandInv, InStep
  <2>1. /\ s \in {"transmit", "stop", "ack"}
        /\ s = "transmit" => Len(got) = cur_bit
        /\ s = "stop" => Len(got) = 9
        /\ s = "ack" => Len(got) = 10
        /\ Len(got) < 10 => dat = 1
    BY <1>1, <1>5 DEF CommandInv, Roles, InStep
  <2>2. got' = Append(got, line) /\ Len(got') = Len(got) + 1
    BY <1>1, <1>2, <1>5
  <2>3. Len(got) < 10 => line = RightBit(Len(got) + 1)
    BY <1>1, <1>5, LineIs
  <2>4. GotRight'
    <3> SUFFICES ASSUME NEW i \in 1 .. 10, i <= Len(got')
                 PROVE  got'[i] = RightBit(i)
      BY DEF GotRight, RightBit, Command
    <3>1. CASE i <= Len(got)
      <4>1. got'[i] = got[i]
        BY <1>2, <2>2, <3>1
      <4>2. QED
        BY <2>0, <3>1, <4>1 DEF GotRight
    <3>2. CASE i = Len(got) + 1
      <4>1. got'[i] = line
        BY <1>2, <2>2, <3>2
      <4>2. QED
        BY <1>2, <2>3, <3>2, <4>1
    <3>3. QED
      BY <1>2, <2>2, <3>1, <3>2
  <2>5. mouse' = IF Len(got) = 10 THEN "sending" ELSE "receiving"
    BY <1>2, <1>5, <2>1 DEF Rise
  <2>5a. \/ s = "transmit" /\ Len(got) < 10
         \/ s = "stop" /\ Len(got) < 10
         \/ s = "ack" /\ Len(got) = 10
    <3>1. CASE s = "transmit"
      BY <1>2, <2>1, <3>1
    <3>2. CASE s = "stop"
      <4>1. Len(got) = 9
        BY <2>1, <3>2
      <4>2. QED
        BY <3>2, <4>1
    <3>3. CASE s = "ack"
      BY <2>1, <3>3
    <3>4. s \in {"transmit", "stop", "ack"}
      BY <2>1
    <3>5. QED
      BY <3>1, <3>2, <3>3, <3>4
  <2>6. init_done' = init_done /\ ~init_done
    BY <2>1 DEF Rise, CommandInv, Roles
  <2>7. CASE s = "ack"
    <3>1. s' = "sent" /\ mouse' = "sending" /\ Len(got') = 11
      <4>1. Len(got) = 10
        BY <2>5a, <2>7
      <4>2. s' = "sent"
        BY <1>1, <2>7
      <4>3. mouse' = "sending"
        BY <2>5, <4>1
      <4>4. Len(got') = 11
        BY <2>2, <4>1
      <4>5. QED
        BY <4>2, <4>3, <4>4
    <3>2. QED
      BY <2>4, <2>6, <3>1 DEF Roles, InStep, Complete
  <2>8. CASE s # "ack"
    <3>1. s' = s /\ s \in {"transmit", "stop"} /\ mouse' = "receiving"
      <4>1. s \in {"transmit", "stop"} /\ Len(got) < 10
        BY <2>5a, <2>8
      <4>2. s' = s
        BY <1>1, <2>8
      <4>3. mouse' = "receiving"
        <5>1. Len(got) \in Nat /\ Len(got) < 10
          BY <1>2, <4>1
        <5>2. \A n \in Nat : n < 10 => n # 10
          OBVIOUS
        <5>3. QED
          BY <2>5, <5>1, <5>2
      <4>4. QED
        BY <4>1, <4>2, <4>3
    <3>2. Roles' /\ Complete'
      BY <2>6, <3>1 DEF Roles, Complete
    <3>3. InStep'
      <4>1. clk' = 1 /\ cur_bit' = cur_bit
        BY <1>1
      <4>2. s = "transmit" => Len(got') = cur_bit' + 1
        BY <2>1, <2>2, <4>1
      <4>3. s = "stop" => Len(got') = 10
        <5> SUFFICES ASSUME s = "stop"
                     PROVE  Len(got') = 10
          OBVIOUS
        <5>1. Len(got) = 9
          BY <2>1
        <5>2. Len(got') = 9 + 1
          BY <2>2, <5>1
        <5>3. QED
          BY <5>2
      <4>4. QED
        BY <2>4, <3>1, <4>1, <4>2, <4>3 DEF InStep
    <3>4. QED
      BY <3>2, <3>3
  <2>9. QED
    BY <2>7, <2>8
<1>6. QED
  BY <1>1, <1>3, <1>4, <1>5 DEF CommandInv, TypeOK

LEMMA CommandStep == CommandInv /\ [Next]_vars => CommandInv'
<1> SUFFICES ASSUME CommandInv, [Next]_vars
             PROVE  CommandInv'
  OBVIOUS
<1>0. TypeOK'
  BY TypesStep DEF CommandInv
<1> SUFFICES Roles' /\ InStep' /\ Complete'
  BY <1>0 DEF CommandInv
<1> USE DEF CommandInv
<1>1. CASE Request
  <2>1. got = <<>> /\ mouse = "idle" /\ got' = got /\ mouse' = mouse
    BY <1>1 DEF Request, Roles, mouseVars
  <2>2. QED
    BY <1>1, <2>1 DEF Request, Roles, InStep, Complete
<1>2. CASE WaitTimeOut
  BY <1>2 DEF WaitTimeOut, Roles, InStep, Complete, mouseVars
<1>3. CASE TransferTimeOut
  BY <1>3 DEF TransferTimeOut, Overdue, Roles, InStep, Complete, mouseVars
<1>4. CASE Retry \/ Reset
  BY <1>4, InhibitCommand DEF Retry, Reset, Roles
<1>5. CASE CommandWasSent
  BY <1>5 DEF CommandWasSent, Roles, InStep, Complete, mouseVars
<1>6. CASE Answer
  BY <1>6 DEF Answer, Roles, InStep, Complete, GotRight, commandVars
<1>7. CASE Fall
  BY <1>7, FallCommand
<1>8. CASE Rise
  BY <1>8, RiseCommand
<1>9. CASE BreakOff
  BY <1>9 DEF BreakOff, Roles, InStep, Complete, commandVars
<1>10. CASE Move
  <2>1. s # "initiate"
    BY <1>10 DEF Move, Roles
  <2>2. QED
    BY <1>10, <2>1 DEF Move, Roles, InStep, Complete, GotRight, commandVars
<1>11. CASE UNCHANGED vars
  BY <1>11 DEF vars, commandVars, mouseVars, Roles, InStep, Complete, GotRight
<1>12. QED
  BY <1>1, <1>2, <1>3, <1>4, <1>5, <1>6, <1>7, <1>8, <1>9, <1>10, <1>11 DEF Next

(* When the controller takes the command as sent, the mouse has seen it     *)
(* whole, after any number of commands broken off before it.                *)
THEOREM CommandIntactHolds == Spec => []CommandIntact
<1>1. CommandInv => CommandIntact
  <2> SUFFICES ASSUME CommandInv, s = "sent"
               PROVE  SubSeq(got, 1, 10) = [i \in 1 .. 10 |-> RightBit(i)]
    BY DEF CommandIntact, RightBit
  <2>1. got \in Seq(0 .. 1) /\ Len(got) = 11 /\ GotRight
    BY DEF CommandInv, TypeOK, Complete
  <2>2. QED
    BY <2>1 DEF GotRight
<1>2. QED
  BY <1>1, InitCommand, CommandStep, PTL DEF Spec

-----------------------------------------------------------------------------
(* The bytes of a packet are told apart by counting. *)

(* The place of the receiver in a byte: 0 between bytes, 1 after the start  *)
(* bit, 9 after the data and 10 after the parity.                           *)
Heard ==
  CASE rx = "idle"   -> 0
    [] rx = "data"   -> data_count + 1
    [] rx = "parity" -> 9
    [] OTHER         -> 10

(* The bits that have come in since the reset, until the mouse is set up:   *)
(* one for each request, the eleven of the command and the eleven of the    *)
(* answer.                                                                  *)
BitsIn ==
  IF s \in {"initiate", "error"} THEN silent
  ELSE IF s \in {"sent", "idle"} THEN silent + 23 - Len(todo)
  ELSE silent + 1 + Len(got)

(* The first byte begins with the first request.  The second begins with    *)
(* the mouse's last pulse, or with the parity of the command if the first   *)
(* byte is through by then.                                                 *)
Second == IF silent <= 1 THEN silent + 11 ELSE silent + 9

SetUp ==
  /\ BitsIn <= 10 => Heard = BitsIn /\ counter = 0
  /\ BitsIn >= 11 /\ BitsIn <= Second => Heard = 0 /\ counter = 1
  /\ BitsIn > Second /\ BitsIn <= Second + 10 => Heard = BitsIn - Second /\ counter = 1
  /\ BitsIn > Second + 10 => Heard = 0 /\ counter = 2

(* The bits of a packet, those of them that were sent, and the byte that is *)
(* being sent.                                                              *)
Sent(p) == Frame(p.b1) \o Frame(p.x) \o Frame(p.y)

SentBits == 33 - Len(todo)

Sending(p) == IF SentBits < 11 THEN p.b1 ELSE IF SentBits < 22 THEN p.x ELSE p.y

Power(n) == <<1, 2, 4, 8, 16, 32, 64, 128, 256>>[n + 1]

(* The low bits of the byte are the high ones of the shift register.        *)
Shifting(byte, n) ==
  data_shift_reg \div Power(8 - n) = byte % Power(n)

Taken(p) ==
  /\ SentBits < 11 => Heard = SentBits /\ counter = 2
  /\ SentBits >= 11 => byte1 = p.b1
  /\ SentBits >= 11 /\ SentBits < 22 => Heard = SentBits - 11 /\ counter = 0
  /\ SentBits >= 22 => byte3 = p.x
  /\ SentBits >= 22 /\ SentBits < 33 => Heard = SentBits - 22 /\ counter = 1
  /\ SentBits = 33 => byte2 = p.y /\ Heard = 0 /\ counter = 2
  /\ Heard \in 1 .. 9 => Shifting(Sending(p), Heard - 1)
  /\ Heard = 10 => data_shift_reg = Sending(p)

(* What the mouse is sending. *)
Stream == IF packets = 0 THEN Frame(Ack) ELSE Sent(last)

Wires ==
  /\ mouse = "idle" /\ s # "initiate" => clk = 1
  /\ clk = 0 /\ mouse = "sending" => dat = Head(todo)
  /\ clk = 0 /\ mouse = "receiving" /\ Len(got) = 10 => dat = 0
  /\ rx # "data" => data_count = 0
  /\ packets > 0 => init_done /\ last \in Packets
  /\ mouse = "sending" =>
       /\ Len(todo) <= Len(Stream)
       /\ \A i \in 1 .. Len(todo) : todo[i] = Stream[Len(Stream) - Len(todo) + i]

(* The conditions of Framed. *)
Straight == ~broken /\ silent < 7

(* No command is given up; only a request is. *)
OnTheWay ==
  Straight =>
    /\ s \in {"transmit", "stop", "ack"} => mouse = "receiving"
    /\ s = "error" => clk = 1

FrameInv ==
  /\ Wires
  /\ OnTheWay
  /\ Straight /\ packets = 0 => SetUp
  /\ Straight /\ packets > 0 => Taken(last)

LEMMA Joined ==
  ASSUME NEW a \in Seq(Bits), NEW b \in Seq(Bits)
  PROVE  /\ a \o b \in Seq(Bits) /\ Len(a \o b) = Len(a) + Len(b)
         /\ \A i \in 1 .. Len(a) : (a \o b)[i] = a[i]
         /\ \A i \in 1 .. Len(b) : (a \o b)[Len(a) + i] = b[i]
  BY ConcatProperties

LEMMA FrameIs ==
  ASSUME NEW n \in Byte
  PROVE  /\ Frame(n) \in Seq(Bits) /\ Len(Frame(n)) = 11
         /\ Frame(n)[1] = 0 /\ Frame(n)[10] = Parity(n) /\ Frame(n)[11] = 1
         /\ \A i \in 1 .. 8 : Frame(n)[1 + i] = Bit(n, i - 1)
<1> DEFINE start == <<0>>
           data == [i \in 1 .. 8 |-> Bit(n, i - 1)]
           end == <<Parity(n), 1>>
<1>1. data \in Seq(Bits) /\ Len(data) = 8 /\ \A i \in 1 .. 8 : data[i] = Bit(n, i - 1)
  BY BitIsBit
<1>2. end \in Seq(Bits) /\ Len(end) = 2 /\ end[1] = Parity(n) /\ end[2] = 1
  BY ParityIsBit DEF Bits
<1>3. start \in Seq(Bits) /\ Len(start) = 1 /\ start[1] = 0
  BY DEF Bits
<1>4. Frame(n) = (start \o data) \o end
  BY DEF Frame
<1> HIDE DEF start, data, end
<1>5. /\ start \o data \in Seq(Bits) /\ Len(start \o data) = 9
      /\ \A i \in 1 .. 1 : (start \o data)[i] = start[i]
      /\ \A i \in 1 .. 8 : (start \o data)[1 + i] = data[i]
  <2>1. /\ start \o data \in Seq(Bits) /\ Len(start \o data) = Len(start) + Len(data)
        /\ \A i \in 1 .. Len(start) : (start \o data)[i] = start[i]
        /\ \A i \in 1 .. Len(data) : (start \o data)[Len(start) + i] = data[i]
    BY <1>1, <1>3, Joined, Zenon
  <2>2. Len(start \o data) = 9
    BY <1>1, <1>3, <2>1
  <2>3. \A i \in 1 .. 1 : (start \o data)[i] = start[i]
    BY <1>1, <1>3, <2>1
  <2>4. \A i \in 1 .. 8 : (start \o data)[1 + i] = data[i]
    BY <1>1, <1>3, <2>1
  <2>5. QED
    BY <2>1, <2>2, <2>3, <2>4
<1> DEFINE most == start \o data
<1>6. /\ most \in Seq(Bits) /\ Len(most) = 9
  BY <1>5
<1> HIDE DEF most
<1>7. /\ most \o end \in Seq(Bits) /\ Len(most \o end) = 11
      /\ \A i \in 1 .. 9 : (most \o end)[i] = most[i]
      /\ \A i \in 1 .. 2 : (most \o end)[9 + i] = end[i]
  <2>1. /\ most \o end \in Seq(Bits) /\ Len(most \o end) = Len(most) + Len(end)
        /\ \A i \in 1 .. Len(most) : (most \o end)[i] = most[i]
        /\ \A i \in 1 .. Len(end) : (most \o end)[Len(most) + i] = end[i]
    BY <1>2, <1>6, Joined, Zenon
  <2>2. Len(most \o end) = 11
    BY <1>2, <1>6, <2>1
  <2>3. \A i \in 1 .. 9 : (most \o end)[i] = most[i]
    BY <1>2, <1>6, <2>1
  <2>4. \A i \in 1 .. 2 : (most \o end)[9 + i] = end[i]
    BY <1>2, <1>6, <2>1
  <2>5. QED
    BY <2>1, <2>2, <2>3, <2>4
<1>8. most \o end = Frame(n)
  BY <1>4 DEF most
<1>9. most[1] = 0 /\ \A i \in 1 .. 8 : most[1 + i] = Bit(n, i - 1)
  <2>1. most[1] = start[1]
    BY <1>5 DEF most
  <2>2. ASSUME NEW i \in 1 .. 8
        PROVE  most[1 + i] = Bit(n, i - 1)
    <3>1. most[1 + i] = data[i]
      BY <1>5 DEF most
    <3>2. QED
      BY <1>1, <3>1
  <2>3. QED
    BY <1>3, <2>1, <2>2
<1>10. Frame(n)[1] = 0
  BY <1>7, <1>8, <1>9
<1>11. Frame(n)[9 + 1] = Parity(n) /\ Frame(n)[9 + 2] = 1
  BY <1>2, <1>7, <1>8
<1>12. ASSUME NEW i \in 1 .. 8
       PROVE  Frame(n)[1 + i] = Bit(n, i - 1)
  <2>1. 1 + i \in 1 .. 9
    OBVIOUS
  <2>2. Frame(n)[1 + i] = most[1 + i]
    BY <1>7, <1>8, <2>1
  <2>3. QED
    BY <1>9, <2>2
<1>13. QED
  BY <1>7, <1>8, <1>10, <1>11, <1>12

LEMMA SentIs ==
  ASSUME NEW p \in Packets
  PROVE  /\ Sent(p) \in Seq(Bits) /\ Len(Sent(p)) = 33
         /\ Sent(p)[1] = 0 /\ Sent(p)[12] = 0 /\ Sent(p)[23] = 0
         /\ \A i \in 1 .. 8 : Sent(p)[1 + i] = Bit(p.b1, i - 1)
         /\ \A i \in 1 .. 8 : Sent(p)[12 + i] = Bit(p.x, i - 1)
         /\ \A i \in 1 .. 8 : Sent(p)[23 + i] = Bit(p.y, i - 1)
<1>1. p.b1 \in Byte /\ p.x \in Byte /\ p.y \in Byte
  BY Parameters
<1> DEFINE f == Frame(p.b1)  g == Frame(p.x)  h == Frame(p.y)
<1>2. f \in Seq(Bits) /\ Len(f) = 11 /\ f[1] = 0 /\ \A i \in 1 .. 8 : f[1 + i] = Bit(p.b1, i - 1)
  BY <1>1, FrameIs
<1>3. g \in Seq(Bits) /\ Len(g) = 11 /\ g[1] = 0 /\ \A i \in 1 .. 8 : g[1 + i] = Bit(p.x, i - 1)
  BY <1>1, FrameIs
<1>4. h \in Seq(Bits) /\ Len(h) = 11 /\ h[1] = 0 /\ \A i \in 1 .. 8 : h[1 + i] = Bit(p.y, i - 1)
  BY <1>1, FrameIs
<1>5. Sent(p) = (f \o g) \o h
  BY DEF Sent
<1> HIDE DEF f, g, h
<1>6. /\ f \o g \in Seq(Bits) /\ Len(f \o g) = 22
      /\ \A i \in 1 .. 11 : (f \o g)[i] = f[i]
      /\ \A i \in 1 .. 11 : (f \o g)[11 + i] = g[i]
  <2>1. /\ f \o g \in Seq(Bits) /\ Len(f \o g) = Len(f) + Len(g)
        /\ \A i \in 1 .. Len(f) : (f \o g)[i] = f[i]
        /\ \A i \in 1 .. Len(g) : (f \o g)[Len(f) + i] = g[i]
    BY <1>2, <1>3, Joined, Zenon
  <2>2. Len(f \o g) = 22
    BY <1>2, <1>3, <2>1
  <2>3. \A i \in 1 .. 11 : (f \o g)[i] = f[i]
    BY <1>2, <1>3, <2>1
  <2>4. \A i \in 1 .. 11 : (f \o g)[11 + i] = g[i]
    BY <1>2, <1>3, <2>1
  <2>5. QED
    BY <2>1, <2>2, <2>3, <2>4
<1> DEFINE most == f \o g
<1>7. /\ most \in Seq(Bits) /\ Len(most) = 22
  BY <1>6
<1> HIDE DEF most
<1>8. /\ most \o h \in Seq(Bits) /\ Len(most \o h) = 33
      /\ \A i \in 1 .. 22 : (most \o h)[i] = most[i]
      /\ \A i \in 1 .. 11 : (most \o h)[22 + i] = h[i]
  <2>1. /\ most \o h \in Seq(Bits) /\ Len(most \o h) = Len(most) + Len(h)
        /\ \A i \in 1 .. Len(most) : (most \o h)[i] = most[i]
        /\ \A i \in 1 .. Len(h) : (most \o h)[Len(most) + i] = h[i]
    BY <1>4, <1>7, Joined, Zenon
  <2>2. Len(most \o h) = 33
    BY <1>4, <1>7, <2>1
  <2>3. \A i \in 1 .. 22 : (most \o h)[i] = most[i]
    BY <1>4, <1>7, <2>1
  <2>4. \A i \in 1 .. 11 : (most \o h)[22 + i] = h[i]
    BY <1>4, <1>7, <2>1
  <2>5. QED
    BY <2>1, <2>2, <2>3, <2>4
<1>9. most \o h = Sent(p)
  BY <1>5 DEF most
<1>10. /\ \A i \in 1 .. 11 : most[i] = f[i]
       /\ \A i \in 1 .. 11 : most[11 + i] = g[i]
  BY <1>6 DEF most
<1>11. Sent(p)[1] = 0 /\ Sent(p)[11 + 1] = 0 /\ Sent(p)[22 + 1] = 0
  <2>1. Sent(p)[1] = most[1] /\ most[1] = f[1]
    BY <1>8, <1>9, <1>10
  <2>2. Sent(p)[11 + 1] = most[11 + 1] /\ most[11 + 1] = g[1]
    BY <1>8, <1>9, <1>10
  <2>3. Sent(p)[22 + 1] = h[1]
    BY <1>8, <1>9
  <2>4. QED
    BY <1>2, <1>3, <1>4, <2>1, <2>2, <2>3
<1>12. ASSUME NEW i \in 1 .. 8
       PROVE  Sent(p)[1 + i] = Bit(p.b1, i - 1)
  <2>0. 1 + i \in 1 .. 11 /\ 1 + i \in 1 .. 22
    OBVIOUS
  <2>1. Sent(p)[1 + i] = most[1 + i] /\ most[1 + i] = f[1 + i]
    BY <2>0, <1>8, <1>9, <1>10, Zenon
  <2>2. QED
    BY <1>2, <2>1
<1>13. ASSUME NEW i \in 1 .. 8
       PROVE  Sent(p)[11 + (1 + i)] = Bit(p.x, i - 1)
  <2>0. 1 + i \in 1 .. 11 /\ 11 + (1 + i) \in 1 .. 22
    OBVIOUS
  <2>1. Sent(p)[11 + (1 + i)] = most[11 + (1 + i)] /\ most[11 + (1 + i)] = g[1 + i]
    BY <2>0, <1>8, <1>9, <1>10, Zenon
  <2>2. QED
    BY <1>3, <2>1
<1>14. ASSUME NEW i \in 1 .. 8
       PROVE  Sent(p)[22 + (1 + i)] = Bit(p.y, i - 1)
  <2>0. 1 + i \in 1 .. 11
    OBVIOUS
  <2>1. Sent(p)[22 + (1 + i)] = h[1 + i]
    BY <2>0, <1>8, <1>9, Zenon
  <2>2. QED
    BY <1>4, <2>1
<1>15. \A i \in 1 .. 8 : 11 + (1 + i) = 12 + i /\ 22 + (1 + i) = 23 + i
  OBVIOUS
<1>16. QED
  BY <1>8, <1>9, <1>11, <1>12, <1>13, <1>14, <1>15

(* Data bits are shifted in from the top, the lowest one first.            *)
LEMMA ShiftIn ==
  ASSUME NEW byte \in Byte, NEW n \in 0 .. 7, data_shift_reg \in Byte, Shifting(byte, n),
         data_shift_reg' = 128 * Bit(byte, n) + data_shift_reg \div 2
  PROVE  data_shift_reg' \div Power(8 - (n + 1)) = byte % Power(n + 1)
<1>1. CASE n = 0
  <2>1. data_shift_reg \div 256 = byte % 1 /\ data_shift_reg' = 128 * ((byte \div 1) % 2) + data_shift_reg \div 2
    BY <1>1 DEF Shifting, Power, Bit
  <2>2. (128 * ((byte \div 1) % 2) + data_shift_reg \div 2) \div 128 = 1 * ((byte \div 1) % 2) + data_shift_reg \div 256
    BY DEF Byte
  <2>3. byte % 2 = 1 * ((byte \div 1) % 2) + (byte % 1)
    BY DEF Byte
  <2>4. QED
    BY <1>1, <2>1, <2>2, <2>3 DEF Shifting, Power
<1>2. CASE n = 1
  <2>1. data_shift_reg \div 128 = byte % 2 /\ data_shift_reg' = 128 * ((byte \div 2) % 2) + data_shift_reg \div 2
    BY <1>2 DEF Shifting, Power, Bit
  <2>2. (128 * ((byte \div 2) % 2) + data_shift_reg \div 2) \div 64 = 2 * ((byte \div 2) % 2) + data_shift_reg \div 128
    BY DEF Byte
  <2>3. byte % 4 = 2 * ((byte \div 2) % 2) + (byte % 2)
    BY DEF Byte
  <2>4. QED
    BY <1>2, <2>1, <2>2, <2>3 DEF Shifting, Power
<1>3. CASE n = 2
  <2>1. data_shift_reg \div 64 = byte % 4 /\ data_shift_reg' = 128 * ((byte \div 4) % 2) + data_shift_reg \div 2
    BY <1>3 DEF Shifting, Power, Bit
  <2>2. (128 * ((byte \div 4) % 2) + data_shift_reg \div 2) \div 32 = 4 * ((byte \div 4) % 2) + data_shift_reg \div 64
    BY DEF Byte
  <2>3. byte % 8 = 4 * ((byte \div 4) % 2) + (byte % 4)
    BY DEF Byte
  <2>4. QED
    BY <1>3, <2>1, <2>2, <2>3 DEF Shifting, Power
<1>4. CASE n = 3
  <2>1. data_shift_reg \div 32 = byte % 8 /\ data_shift_reg' = 128 * ((byte \div 8) % 2) + data_shift_reg \div 2
    BY <1>4 DEF Shifting, Power, Bit
  <2>2. (128 * ((byte \div 8) % 2) + data_shift_reg \div 2) \div 16 = 8 * ((byte \div 8) % 2) + data_shift_reg \div 32
    BY DEF Byte
  <2>3. byte % 16 = 8 * ((byte \div 8) % 2) + (byte % 8)
    BY DEF Byte
  <2>4. QED
    BY <1>4, <2>1, <2>2, <2>3 DEF Shifting, Power
<1>5. CASE n = 4
  <2>1. data_shift_reg \div 16 = byte % 16 /\ data_shift_reg' = 128 * ((byte \div 16) % 2) + data_shift_reg \div 2
    BY <1>5 DEF Shifting, Power, Bit
  <2>2. (128 * ((byte \div 16) % 2) + data_shift_reg \div 2) \div 8 = 16 * ((byte \div 16) % 2) + data_shift_reg \div 16
    BY DEF Byte
  <2>3. byte % 32 = 16 * ((byte \div 16) % 2) + (byte % 16)
    BY DEF Byte
  <2>4. QED
    BY <1>5, <2>1, <2>2, <2>3 DEF Shifting, Power
<1>6. CASE n = 5
  <2>1. data_shift_reg \div 8 = byte % 32 /\ data_shift_reg' = 128 * ((byte \div 32) % 2) + data_shift_reg \div 2
    BY <1>6 DEF Shifting, Power, Bit
  <2>2. (128 * ((byte \div 32) % 2) + data_shift_reg \div 2) \div 4 = 32 * ((byte \div 32) % 2) + data_shift_reg \div 8
    BY DEF Byte
  <2>3. byte % 64 = 32 * ((byte \div 32) % 2) + (byte % 32)
    BY DEF Byte
  <2>4. QED
    BY <1>6, <2>1, <2>2, <2>3 DEF Shifting, Power
<1>7. CASE n = 6
  <2>1. data_shift_reg \div 4 = byte % 64 /\ data_shift_reg' = 128 * ((byte \div 64) % 2) + data_shift_reg \div 2
    BY <1>7 DEF Shifting, Power, Bit
  <2>2. (128 * ((byte \div 64) % 2) + data_shift_reg \div 2) \div 2 = 64 * ((byte \div 64) % 2) + data_shift_reg \div 4
    BY DEF Byte
  <2>3. byte % 128 = 64 * ((byte \div 64) % 2) + (byte % 64)
    BY DEF Byte
  <2>4. QED
    BY <1>7, <2>1, <2>2, <2>3 DEF Shifting, Power
<1>8. CASE n = 7
  <2>1. data_shift_reg \div 2 = byte % 128 /\ data_shift_reg' = 128 * ((byte \div 128) % 2) + data_shift_reg \div 2
    BY <1>8 DEF Shifting, Power, Bit
  <2>2. (128 * ((byte \div 128) % 2) + data_shift_reg \div 2) \div 1 = 128 * ((byte \div 128) % 2) + data_shift_reg \div 2
    BY DEF Byte
  <2>3. byte % 256 = 128 * ((byte \div 128) % 2) + (byte % 128)
    BY DEF Byte
  <2>4. QED
    BY <1>8, <2>1, <2>2, <2>3 DEF Shifting, Power
<1>9. QED
  BY <1>1, <1>2, <1>3, <1>4, <1>5, <1>6, <1>7, <1>8

LEMMA ShiftedAll ==
  ASSUME NEW byte \in Byte, data_shift_reg \in Byte
  PROVE  /\ Shifting(byte, 8) => data_shift_reg = byte
         /\ Shifting(byte, 0)
<1>1. Shifting(byte, 8) = (data_shift_reg \div 1 = byte % 256)
  BY DEF Shifting, Power
<1>2. Shifting(byte, 0) = (data_shift_reg \div 256 = byte % 1)
  BY DEF Shifting, Power
<1>3. byte % 256 = byte /\ byte % 1 = 0 /\ data_shift_reg \div 1 = data_shift_reg /\ data_shift_reg \div 256 = 0
  BY DEF Byte
<1>4. QED
  BY <1>1, <1>2, <1>3

(* One sampled bit, in terms of the place in the byte.                     *)
LEMMA SampleHeard ==
  ASSUME TypeOK, rx # "data" => data_count = 0, NEW bit \in Bits, Sample(bit)
  PROVE  /\ Heard \in 0 .. 10 /\ (rx' # "data" => data_count' = 0)
         /\ Heard = 0 => /\ Heard' = 1 - bit
                         /\ UNCHANGED <<data_shift_reg, cursorVars>>
         /\ Heard \in 1 .. 8 => /\ Heard' = Heard + 1 /\ UNCHANGED cursorVars
                                /\ data_shift_reg' = 128 * bit + data_shift_reg \div 2
         /\ Heard = 9 => Heard' = 10 /\ UNCHANGED <<data_shift_reg, cursorVars>>
         /\ Heard = 10 => /\ Heard' = 0 /\ UNCHANGED data_shift_reg
                          /\ TakeByte(data_shift_reg)
<1>1. data_count \in 0 .. 7 /\ rx \in {"idle", "data", "parity", "stop"}
  BY DEF TypeOK
<1>2. CASE rx = "idle"
  BY <1>1, <1>2 DEF Sample, Heard, Bits
<1>3. CASE rx = "data"
  BY <1>1, <1>3 DEF Sample, Heard, Bits
<1>4. CASE rx = "parity"
  BY <1>1, <1>4 DEF Sample, Heard, Bits
<1>5. CASE rx = "stop"
  BY <1>1, <1>5 DEF Sample, Heard, Bits
<1>6. QED
  BY <1>1, <1>2, <1>3, <1>4, <1>5

(* Taking one more bit of those that set the mouse up.                     *)
LEMMA SetUpSample ==
  ASSUME TypeOK, rx # "data" => data_count = 0, NEW bit \in Bits, Sample(bit),
         SetUp, silent \in 0 .. 6, silent' = silent, BitsIn \in 0 .. 40, BitsIn' = BitsIn + 1,
         BitsIn = 0 \/ BitsIn = Second => bit = 0,
         BitsIn \in 11 .. Second - 1 \/ BitsIn > Second + 10 => bit = 1
  PROVE  SetUp'
<1>1. Second \in 11 .. 15 /\ Second' = Second
  BY DEF Second
<1>2. counter \in 0 .. 2
  BY DEF TypeOK
<1> USE SampleHeard
<1>3. CASE BitsIn = 0
  <2>1. Heard' = 1 /\ counter' = counter
    BY <1>3 DEF SetUp, cursorVars
  <2>2. QED
    BY <1>1, <1>3, <2>1 DEF SetUp
<1>4. CASE BitsIn \in 1 .. 9
  <2>1. Heard' = Heard + 1 /\ counter' = counter
    BY <1>4 DEF SetUp, cursorVars
  <2>2. QED
    BY <1>1, <1>4, <2>1 DEF SetUp
<1>5. CASE BitsIn = 10
  <2>1. Heard' = 0 /\ counter' = 1
    BY <1>5 DEF SetUp, TakeByte
  <2>2. QED
    BY <1>1, <1>5, <2>1 DEF SetUp
<1>6. CASE BitsIn \in 11 .. Second - 1
  <2>1. Heard' = 0 /\ counter' = counter
    BY <1>1, <1>6 DEF SetUp, cursorVars
  <2>2. QED
    BY <1>1, <1>6, <2>1 DEF SetUp
<1>7. CASE BitsIn = Second
  <2>1. Heard' = 1 /\ counter' = counter
    BY <1>1, <1>7 DEF SetUp, cursorVars
  <2>2. QED
    BY <1>1, <1>7, <2>1 DEF SetUp
<1>8. CASE BitsIn \in Second + 1 .. Second + 9
  <2>1. Heard' = Heard + 1 /\ counter' = counter
    BY <1>1, <1>8 DEF SetUp, cursorVars
  <2>2. QED
    BY <1>1, <1>8, <2>1 DEF SetUp
<1>9. CASE BitsIn = Second + 10
  <2>1. Heard' = 0 /\ counter' = 2
    BY <1>1, <1>9 DEF SetUp, TakeByte
  <2>2. QED
    BY <1>1, <1>9, <2>1 DEF SetUp
<1>10. CASE BitsIn > Second + 10
  <2>1. Heard' = 0 /\ counter' = counter
    BY <1>1, <1>10 DEF SetUp, cursorVars
  <2>2. QED
    BY <1>1, <1>10, <2>1 DEF SetUp
<1>11. QED
  BY <1>1, <1>3, <1>4, <1>5, <1>6, <1>7, <1>8, <1>9, <1>10

(* The bits of the command and of the answer that decide where a byte      *)
(* begins.                                                                 *)
LEMMA CommandBits ==
  /\ \A i \in 5 .. 8 : RightBit(i) = 1
  /\ RightBit(9) = 0 /\ RightBit(10) = 1
<1>1. Bit(244, 0) = 0 /\ Bit(244, 1) = 0 /\ Bit(244, 2) = 1 /\ Bit(244, 3) = 0
  BY DEF Bit
<1>2. Bit(244, 4) = 1 /\ Bit(244, 5) = 1 /\ Bit(244, 6) = 1 /\ Bit(244, 7) = 1
  BY DEF Bit
<1>3. Parity(244) = 0
  BY <1>1, <1>2 DEF Parity
<1>4. ASSUME NEW i \in 5 .. 8
      PROVE  RightBit(i) = 1
  <2>1. RightBit(i) = Bit(244, i - 1)
    BY DEF RightBit, Command, Enable
  <2>2. i - 1 = 4 \/ i - 1 = 5 \/ i - 1 = 6 \/ i - 1 = 7
    OBVIOUS
  <2>3. QED
    BY <1>2, <2>1, <2>2
<1>5. RightBit(9) = 0 /\ RightBit(10) = 1
  BY <1>3 DEF RightBit, Command, Enable
<1>6. QED
  BY <1>4, <1>5

LEMMA AckBits ==
  Frame(Ack)[9] = 1 /\ Frame(Ack)[10] = 1 /\ Frame(Ack)[11] = 1
<1>1. Bit(250, 0) = 0 /\ Bit(250, 1) = 1 /\ Bit(250, 2) = 0 /\ Bit(250, 3) = 1
  BY DEF Bit
<1>2. Bit(250, 4) = 1 /\ Bit(250, 5) = 1 /\ Bit(250, 6) = 1 /\ Bit(250, 7) = 1
  BY DEF Bit
<1>3. Parity(250) = 1
  BY <1>1, <1>2 DEF Parity
<1>4. Frame(Ack)[1 + 8] = Bit(Ack, 8 - 1) /\ Frame(Ack)[10] = Parity(Ack) /\ Frame(Ack)[11] = 1
  BY AckIsByte, FrameIs
<1>5. QED
  BY <1>2, <1>3, <1>4 DEF Ack

(* Taking one more bit of a packet.                                        *)
LEMMA TakenSample ==
  ASSUME TypeOK, rx # "data" => data_count = 0, NEW bit \in Bits, Sample(bit),
         NEW p \in Packets, Taken(p), SentBits \in 0 .. 32, SentBits' = SentBits + 1,
         bit = Sent(p)[SentBits + 1]
  PROVE  Taken(p)'
<1>1. p.b1 \in Byte /\ p.x \in Byte /\ p.y \in Byte /\ data_shift_reg \in Byte /\ counter \in 0 .. 2
  BY Parameters DEF TypeOK
<1>2. Sending(p) \in Byte
  BY <1>1 DEF Sending
<1>3. Heard = (IF SentBits < 11 THEN SentBits ELSE IF SentBits < 22 THEN SentBits - 11 ELSE SentBits - 22)
  BY DEF Taken
<1>4. Heard \in 0 .. 10
  BY <1>3
<1>5. CASE Heard = 0
  <2>1. SentBits = 0 \/ SentBits = 11 \/ SentBits = 22
    BY <1>3, <1>5
  <2>2. bit = 0
    <3>1. SentBits + 1 = 1 \/ SentBits + 1 = 12 \/ SentBits + 1 = 23
      BY <2>1
    <3>2. Sent(p)[1] = 0 /\ Sent(p)[12] = 0 /\ Sent(p)[23] = 0
      BY SentIs
    <3>3. QED
      BY <3>1, <3>2
  <2>3. Heard' = 1 /\ UNCHANGED <<data_shift_reg, cursorVars>>
    BY <1>5, <2>2, SampleHeard
  <2>4. Shifting(Sending(p), 0)'
    <3>1. data_shift_reg' \in Byte /\ Sending(p)' \in Byte
      BY <1>1, <2>3 DEF Sending
    <3>2. \A b \in Byte : b \div 256 = 0 /\ b % 1 = 0
      BY DEF Byte
    <3>3. QED
      BY <3>1, <3>2 DEF Shifting, Power
  <2>5. QED
    BY <2>1, <2>3, <2>4 DEF Taken, cursorVars
<1>6. CASE Heard \in 1 .. 8
  <2>1. bit = Bit(Sending(p), Heard - 1)
    <3>1. CASE SentBits < 11
      <4>1. Heard = SentBits /\ SentBits + 1 = 1 + Heard
        BY <1>3, <3>1
      <4>2. Sent(p)[1 + Heard] = Bit(p.b1, Heard - 1)
        BY <1>6, SentIs
      <4>3. QED
        BY <3>1, <4>1, <4>2 DEF Sending
    <3>2. CASE SentBits >= 11 /\ SentBits < 22
      <4>1. Heard = SentBits - 11 /\ SentBits + 1 = 12 + Heard
        BY <1>3, <3>2
      <4>2. Sent(p)[12 + Heard] = Bit(p.x, Heard - 1)
        BY <1>6, SentIs
      <4>3. QED
        BY <3>2, <4>1, <4>2 DEF Sending
    <3>3. CASE SentBits >= 22
      <4>1. Heard = SentBits - 22 /\ SentBits + 1 = 23 + Heard
        BY <1>3, <3>3
      <4>2. Sent(p)[23 + Heard] = Bit(p.y, Heard - 1)
        BY <1>6, SentIs
      <4>3. QED
        BY <3>3, <4>1, <4>2 DEF Sending
    <3>4. QED
      BY <3>1, <3>2, <3>3
  <2>2. Heard' = Heard + 1 /\ UNCHANGED cursorVars
        /\ data_shift_reg' = 128 * bit + data_shift_reg \div 2
    BY <1>6, SampleHeard
  <2>3. Sending(p)' = Sending(p)
    BY <1>3, <1>6 DEF Sending
  <2>4. data_shift_reg' \div Power(8 - Heard) = Sending(p)' % Power(Heard)
    <3> DEFINE byte == Sending(p)  n == Heard - 1
    <3>1. Shifting(byte, n) /\ n \in 0 .. 7
      BY <1>6 DEF Taken
    <3>2. byte \in Byte /\ data_shift_reg' = 128 * Bit(byte, n) + data_shift_reg \div 2
      BY <1>2, <2>1, <2>2
    <3> HIDE DEF byte, n
    <3>3. data_shift_reg' \div Power(8 - (n + 1)) = byte % Power(n + 1)
      BY <1>1, <3>1, <3>2, ShiftIn
    <3>4. n + 1 = Heard
      BY <1>6 DEF n
    <3>5. data_shift_reg' \div Power(8 - Heard) = Sending(p) % Power(Heard)
      BY <3>3, <3>4 DEF byte
    <3>6. QED
      BY <3>5, <2>3
  <2>5. Heard' \in 1 .. 9 => Shifting(Sending(p), Heard - 1)'
    <3>1. Heard' - 1 = Heard
      BY <1>4, <2>2
    <3>2. QED
      BY <2>4, <3>1 DEF Shifting
  <2>6. QED
    BY <1>3, <1>6, <2>2, <2>5 DEF Taken, cursorVars
<1>7. CASE Heard = 9
  <2>1. Heard' = 10 /\ UNCHANGED <<data_shift_reg, cursorVars>>
    BY <1>7, SampleHeard
  <2>2. data_shift_reg = Sending(p)
    <3>1. Shifting(Sending(p), 8)
      BY <1>7 DEF Taken
    <3>2. QED
      BY <1>1, <1>2, <3>1, ShiftedAll
  <2>3. Sending(p)' = Sending(p)
    BY <1>3, <1>7 DEF Sending
  <2>4. QED
    BY <1>3, <1>7, <2>1, <2>2, <2>3 DEF Taken, cursorVars
<1>8. CASE Heard = 10
  <2>1. Heard' = 0 /\ TakeByte(Sending(p))
    BY <1>8, SampleHeard DEF Taken
  <2>2. SentBits = 10 \/ SentBits = 21 \/ SentBits = 32
    BY <1>3, <1>8
  <2>3. QED
    BY <1>3, <1>8, <2>1, <2>2 DEF Taken, TakeByte, Sending
<1>9. QED
  BY <1>4, <1>5, <1>6, <1>7, <1>8

(* What Taken says is about the receiver, the registers and the bits left. *)
LEMMA TakenSame ==
  ASSUME NEW p, Taken(p), rx' = rx, data_count' = data_count, data_shift_reg' = data_shift_reg,
         counter' = counter, byte1' = byte1, byte2' = byte2, byte3' = byte3, todo' = todo
  PROVE  Taken(p)'
<1>1. Heard' = Heard /\ SentBits' = SentBits
  BY DEF Heard, SentBits
<1>2. Sending(p)' = Sending(p)
  BY <1>1 DEF Sending
<1>3. Shifting(Sending(p), Heard - 1)' = Shifting(Sending(p), Heard - 1)
  BY <1>1, <1>2 DEF Shifting
<1>4. QED
  BY <1>1, <1>2, <1>3 DEF Taken

LEMMA SetUpSame ==
  ASSUME SetUp, Heard' = Heard, counter' = counter, BitsIn' = BitsIn, silent' = silent
  PROVE  SetUp'
  BY DEF SetUp, Second

LEMMA RequestFrame ==
  ASSUME CommandInv, FrameInv, Request
  PROVE  FrameInv'
<1>1. /\ s = "initiate" /\ s' = "wait" /\ clk' = 1 /\ Sample(0)
      /\ UNCHANGED <<init_done, dat, mouse, got, todo, silent, packets, broken, last>>
  BY DEF Request, mouseVars, history
<1>2. TypeOK /\ mouse = "idle" /\ got = <<>> /\ ~init_done /\ packets = 0
      /\ (rx # "data" => data_count = 0)
  BY <1>1 DEF CommandInv, TypeOK, Roles, FrameInv, OnTheWay, Wires
<1>3. rx' # "data" => data_count' = 0
  BY <1>1, <1>2, SampleHeard DEF Bits
<1>4. Wires'
  BY <1>1, <1>2, <1>3 DEF Wires
<1>5. Straight => SetUp'
  <2> SUFFICES ASSUME Straight
               PROVE  SetUp'
    OBVIOUS
  <2>1. silent \in 0 .. 6 /\ silent' = silent
    BY <1>1, <1>2, Parameters DEF Straight, TypeOK
  <2>2. BitsIn = silent /\ BitsIn' = silent + 1
    BY <1>1, <1>2, <2>1 DEF BitsIn
  <2>3. SetUp
    BY <1>2 DEF FrameInv, OnTheWay
  <2>4. Second \in 11 .. 15
    BY <2>1 DEF Second
  <2>5. QED
    BY <1>1, <1>2, <2>1, <2>2, <2>3, <2>4, SetUpSample DEF Bits
<1>6. QED
  BY <1>1, <1>2, <1>4, <1>5 DEF FrameInv, OnTheWay, Straight

LEMMA WaitTimeOutFrame ==
  ASSUME CommandInv, FrameInv, WaitTimeOut
  PROVE  FrameInv'
<1>1. /\ s = "wait" /\ s' = "error" /\ silent' = silent + 1
      /\ UNCHANGED <<init_done, rx, data_count, counter, clk, dat, mouse, got, todo, packets, broken, last>>
  BY DEF WaitTimeOut, dataVars, cursorVars, mouseVars
<1>2. TypeOK /\ got = <<>> /\ ~init_done /\ packets = 0 /\ clk = 1 /\ mouse # "sending"
  BY <1>1 DEF CommandInv, TypeOK, Roles, FrameInv, OnTheWay, Wires
<1>3. Wires'
  BY <1>1, <1>2 DEF FrameInv, Wires
<1>4. Straight' => SetUp'
  <2> SUFFICES ASSUME Straight'
               PROVE  SetUp'
    OBVIOUS
  <2>1. silent \in 0 .. 5 /\ Straight
    BY <1>1, <1>2, Parameters DEF Straight, TypeOK
  <2>2. BitsIn = silent + 1 /\ BitsIn' = silent + 1 /\ Heard' = Heard
    BY <1>1, <1>2, <2>1 DEF BitsIn, Heard
  <2>3. SetUp
    BY <1>2, <2>1 DEF FrameInv, OnTheWay
  <2>4. Second' \in 11 .. 15
    BY <1>1, <2>1 DEF Second
  <2>5. Heard = silent + 1 /\ counter = 0
    BY <2>1, <2>2, <2>3 DEF SetUp
  <2>6. Heard' = silent + 1 /\ counter' = 0
    BY <1>1, <2>2, <2>5
  <2>7. BitsIn' \in 0 .. 10
    BY <2>1, <2>2
  <2>8. QED
    BY <2>2, <2>4, <2>6, <2>7 DEF SetUp
<1>5. QED
  BY <1>1, <1>2, <1>3, <1>4 DEF FrameInv, OnTheWay

LEMMA FallFrame ==
  ASSUME CommandInv, FrameInv, Fall, CommandInv'
  PROVE  FrameInv'
<1>1. /\ mouse # "idle" /\ clk = 1 /\ clk' = 0
      /\ dat' = (IF mouse = "sending" THEN Head(todo) ELSE IF Len(got) = 10 THEN 0 ELSE 1)
      /\ s # "error"
      /\ UNCHANGED <<init_done, dataVars, cursorVars, mouse, got, todo, silent, packets, broken, last>>
  BY DEF Fall, history
<1>2. Wires'
  BY <1>1 DEF FrameInv, OnTheWay, Wires, Stream, dataVars
<1>3. mouse = "receiving" \/ mouse = "sending"
  BY <1>1 DEF CommandInv, TypeOK
<1>4. mouse = "sending" => s' = s /\ s \in {"sent", "idle"}
  BY DEF CommandInv, Roles, Fall, NextBit
<1>5. mouse = "receiving" => s \in {"wait", "transmit", "stop", "ack"} /\ s' \in {"wait", "transmit", "stop", "ack"}
  <2>1. mouse = "receiving" => s \in {"wait", "transmit", "stop", "ack"}
    BY <1>1 DEF CommandInv, Roles
  <2>2. NextBit
    BY DEF Fall
  <2>3. QED
    BY <2>1, <2>2 DEF NextBit
<1>6. BitsIn' = BitsIn
  BY <1>1, <1>3, <1>4, <1>5 DEF BitsIn
<1>7. SetUp => SetUp'
  BY <1>1, <1>6, SetUpSame DEF Heard, dataVars, cursorVars
<1>8. Taken(last) => Taken(last)'
  BY <1>1, TakenSame DEF dataVars, cursorVars
<1>9. OnTheWay'
  BY <1>1, <1>3, <1>4, <1>5 DEF OnTheWay
<1>10. QED
  BY <1>1, <1>2, <1>7, <1>8, <1>9 DEF FrameInv, OnTheWay, Straight

(* The mouse takes one more bit of the command, its own answer after it    *)
(* included.                                                               *)
LEMMA RiseReceiving ==
  ASSUME CommandInv, FrameInv, Rise, mouse = "receiving", s # "error", CommandInv'
  PROVE  FrameInv'
<1> DEFINE line == IF dat = 0 THEN 0 ELSE HostData
           g == Len(got)
<1>1. /\ clk = 0 /\ clk' = 1 /\ Sample(line) /\ got' = Append(got, line)
      /\ s' = (IF s = "ack" THEN "sent" ELSE s)
      /\ UNCHANGED <<init_done, silent, packets, broken, last>>
  BY DEF Rise, history
<1>2. /\ TypeOK /\ got \in Seq(0 .. 1) /\ g \in Nat /\ packets = 0 /\ cur_bit \in 0 .. 8
      /\ s \in {"transmit", "stop", "ack"} /\ (rx # "data" => data_count = 0)
  BY <1>1 DEF CommandInv, TypeOK, Roles, FrameInv, OnTheWay, Wires
<1>3. Len(got') = g + 1
  BY <1>1, <1>2
<1>4. /\ s = "transmit" => g = cur_bit
      /\ s = "stop" => g = 9
      /\ s = "ack" => g = 10
  BY <1>1 DEF CommandInv, InStep
<1>5. line \in Bits
  BY HostDataIsBit, <1>2 DEF TypeOK, Bits
<1>6. rx' # "data" => data_count' = 0
  BY <1>1, <1>2, <1>5, SampleHeard
<1>7. g < 10 => line = RightBit(g + 1)
  BY <1>1, LineIs
<1>8. g = 10 => line = 0
  BY <1>1 DEF FrameInv, OnTheWay, Wires
<1>9. BitsIn = silent + 1 + g
  BY <1>2 DEF BitsIn
<1>10. s # "ack" => mouse' = mouse /\ UNCHANGED <<dat, todo>>
  <2> SUFFICES ASSUME s # "ack"
               PROVE  g # 10
    BY DEF Rise
  <2> HIDE DEF g
  <2>1. QED
    BY <1>2, <1>4
<1>11. s = "ack" => mouse' = "sending" /\ todo' = Frame(Ack) /\ dat' = 1
  <2> SUFFICES ASSUME s = "ack"
               PROVE  mouse' = "sending" /\ todo' = Frame(Ack) /\ dat' = 1
    OBVIOUS
  <2>1. Len(got) = 10
    BY <1>4
  <2>2. ~(Len(got) < 10)
    BY <2>1
  <2>3. QED
    BY <2>2 DEF Rise
<1>12. BitsIn' = (IF s' = "sent" THEN silent + 23 - Len(todo') ELSE silent + 1 + Len(got'))
  BY <1>1, <1>2 DEF BitsIn
<1> HIDE DEF g, line
<1>13. CASE s = "ack"
  <2>1. mouse' = "sending" /\ todo' = Frame(Ack) /\ dat' = 1 /\ s' = "sent" /\ g = 10
    BY <1>1, <1>4, <1>11, <1>13
  <2>2. Frame(Ack) \in Seq(Bits) /\ Len(Frame(Ack)) = 11
    BY FrameIs, AckIsByte
  <2>3. Stream' = Frame(Ack)
    BY <1>1, <1>2 DEF Stream
  <2>4. Wires'
    <3>1. \A i \in 1 .. 11 : Frame(Ack)[i] = Frame(Ack)[11 - 11 + i]
      OBVIOUS
    <3>2. Len(todo') = 11 /\ Len(Stream') = 11
      BY <2>1, <2>2, <2>3
    <3>3. /\ Len(todo') <= Len(Stream')
          /\ \A i \in 1 .. Len(todo') : todo'[i] = Stream'[Len(Stream') - Len(todo') + i]
      BY <2>1, <2>3, <3>1, <3>2
    <3>4. QED
      BY <1>1, <1>2, <1>6, <2>1, <3>3 DEF Wires
  <2>5. Straight => SetUp'
    <3> SUFFICES ASSUME Straight
                 PROVE  SetUp'
      OBVIOUS
    <3>1. silent \in 0 .. 6
      BY <1>2, Parameters DEF Straight, TypeOK
    <3>2. BitsIn = silent + 11 /\ BitsIn' = silent + 12
      BY <1>9, <1>12, <2>1, <2>2, <3>1
    <3>3. SetUp
      BY <1>2 DEF FrameInv, OnTheWay
    <3>4. /\ Second = BitsIn \/ (Second = BitsIn - 2 /\ BitsIn <= Second + 10)
      BY <3>1, <3>2 DEF Second
    <3>5. line = 0 /\ silent' = silent
      BY <1>1, <1>8, <2>1
    <3>6. ~(BitsIn \in 11 .. Second - 1 \/ BitsIn > Second + 10)
      BY <3>1, <3>2, <3>4
    <3>7. BitsIn \in 0 .. 40 /\ BitsIn' = BitsIn + 1
      BY <3>1, <3>2
    <3>8. QED
      BY <1>1, <1>2, <1>5, <3>1, <3>3, <3>5, <3>6, <3>7, SetUpSample
  <2>6. QED
    BY <1>1, <1>2, <2>1, <2>4, <2>5 DEF FrameInv, OnTheWay, Straight
<1>14. CASE s # "ack"
  <2>1. g \in 0 .. 9 /\ s' = s /\ s \in {"transmit", "stop"}
    BY <1>1, <1>2, <1>4, <1>14
  <2>2. mouse' = mouse /\ UNCHANGED <<dat, todo>>
    BY <1>10, <1>14
  <2>3. Wires'
    BY <1>1, <1>2, <1>6, <2>1, <2>2 DEF Wires
  <2>4. Straight => SetUp'
    <3> SUFFICES ASSUME Straight
                 PROVE  SetUp'
      OBVIOUS
    <3>1. silent \in 0 .. 6
      BY <1>2, Parameters DEF Straight, TypeOK
    <3>2. BitsIn = silent + 1 + g /\ BitsIn' = silent + 1 + g + 1
      BY <1>3, <1>9, <1>12, <2>1, <3>1
    <3>3. SetUp
      BY <1>2 DEF FrameInv, OnTheWay
    <3>4. BitsIn = Second => line = 0
      <4>1. BitsIn = Second => g = 8
        BY <2>1, <3>1, <3>2 DEF Second
      <4>2. g = 8 => line = RightBit(9)
        BY <1>7
      <4>3. QED
        BY <4>1, <4>2, CommandBits
    <3>5. BitsIn \in 11 .. Second - 1 => line = 1
      <4> SUFFICES ASSUME BitsIn \in 11 .. Second - 1
                   PROVE  line = 1
        OBVIOUS
      <4>1. g \in 4 .. 7 \/ g = 9
        BY <2>1, <3>1, <3>2 DEF Second
      <4>2. line = RightBit(g + 1)
        BY <1>7, <2>1
      <4>3. g + 1 \in 5 .. 8 \/ g + 1 = 10
        BY <4>1
      <4>4. QED
        BY <4>2, <4>3, CommandBits
    <3>6. BitsIn # 0 /\ ~(BitsIn > Second + 10)
      BY <2>1, <3>1, <3>2 DEF Second
    <3>7. BitsIn \in 0 .. 40 /\ BitsIn' = BitsIn + 1 /\ silent' = silent
      BY <1>1, <2>1, <3>1, <3>2
    <3>8. QED
      BY <1>1, <1>2, <1>5, <3>1, <3>3, <3>4, <3>5, <3>6, <3>7, SetUpSample
  <2>5. QED
    BY <1>1, <1>2, <2>1, <2>2, <2>3, <2>4 DEF FrameInv, OnTheWay, Straight
<1>15. QED
  BY <1>13, <1>14

(* The mouse goes on with a command the controller has given up. *)
LEMMA RiseGivenUp ==
  ASSUME CommandInv, FrameInv, Rise, mouse = "receiving", s = "error"
  PROVE  FrameInv'
<1> DEFINE line == IF dat = 0 THEN 0 ELSE HostData
<1>1. /\ clk = 0 /\ clk' = 1 /\ Sample(line) /\ s' = "error"
      /\ UNCHANGED <<init_done, silent, packets, broken, last>>
  BY DEF Rise, history
<1>2. TypeOK /\ packets = 0 /\ (rx # "data" => data_count = 0)
  BY DEF CommandInv, TypeOK, Roles, FrameInv, Wires
<1>3. ~Straight /\ ~Straight'
  BY <1>1 DEF FrameInv, OnTheWay, Straight
<1>4. rx' # "data" => data_count' = 0
  <2>1. line \in Bits
    BY HostDataIsBit, <1>2 DEF TypeOK, Bits
  <2> HIDE DEF line
  <2>2. QED
    BY <1>1, <1>2, <2>1, SampleHeard
<1>5. mouse' = "receiving" \/ (mouse' = "sending" /\ todo' = Frame(Ack))
  BY DEF Rise
<1>6. Len(Frame(Ack)) = 11 /\ Stream' = Frame(Ack)
  BY <1>1, <1>2, FrameIs, AckIsByte DEF Stream
<1>7. mouse' = "sending" =>
        /\ Len(todo') <= Len(Stream')
        /\ \A i \in 1 .. Len(todo') : todo'[i] = Stream'[Len(Stream') - Len(todo') + i]
  <2>1. \A i \in 1 .. 11 : Frame(Ack)[i] = Frame(Ack)[11 - 11 + i]
    OBVIOUS
  <2>2. QED
    BY <1>5, <1>6, <2>1
<1>8. Wires'
  BY <1>1, <1>2, <1>4, <1>5, <1>7 DEF Wires
<1>9. QED
  BY <1>3, <1>8 DEF FrameInv, OnTheWay

(* The mouse sends one more bit. *)
LEMMA RiseSending ==
  ASSUME CommandInv, FrameInv, Rise, mouse = "sending"
  PROVE  FrameInv'
<1> DEFINE t == Len(todo)
           n == Len(Stream)
<1>1. /\ clk = 0 /\ clk' = 1 /\ got' = got /\ todo' = Tail(todo) /\ dat' = 1
      /\ mouse' = (IF Len(todo) = 1 THEN "idle" ELSE mouse)
      /\ Sample(IF dat = 0 THEN 0 ELSE HostData)
      /\ s' = (IF s = "ack" THEN "sent" ELSE s)
      /\ UNCHANGED <<init_done, silent, packets, broken, last>>
  BY DEF Rise, history
<1>2. /\ TypeOK /\ s \in {"sent", "idle"} /\ (rx # "data" => data_count = 0)
      /\ todo \in Seq(Bits) /\ todo # <<>> /\ dat = Head(todo)
      /\ packets > 0 => init_done /\ last \in Packets
  BY <1>1 DEF CommandInv, TypeOK, Roles, FrameInv, OnTheWay, Wires, Bits
<1>3. t <= n /\ \A i \in 1 .. t : todo[i] = Stream[n - t + i]
  BY DEF FrameInv, OnTheWay, Wires
<1>4. /\ t \in Nat \ {0} /\ Tail(todo) \in Seq(Bits) /\ Len(todo') = t - 1
      /\ \A i \in 1 .. t - 1 : Tail(todo)[i] = todo[i + 1]
  BY <1>1, <1>2, HeadTailProperties
<1>5. s' = s
  BY <1>1, <1>2
<1>6. Sample(todo[1]) /\ todo[1] \in Bits
  <2>1. todo[1] = dat /\ dat \in Bits
    BY <1>2, <1>4, HeadTailProperties
  <2>2. HostData = 1
    BY <1>2 DEF HostData
  <2>3. (IF dat = 0 THEN 0 ELSE HostData) = todo[1]
    BY <2>1, <2>2 DEF Bits
  <2>4. QED
    BY <1>1, <2>1, <2>3
<1>7. rx' # "data" => data_count' = 0
  BY <1>2, <1>6, SampleHeard
<1>8. Stream' = Stream
  BY <1>1 DEF Stream
<1>9. packets = 0 => Stream = Frame(Ack) /\ n = 11
  BY FrameIs, AckIsByte DEF Stream
<1>10. packets > 0 => Stream = Sent(last) /\ n = 33
  <2> SUFFICES ASSUME packets > 0
               PROVE  Stream = Sent(last) /\ n = 33
    OBVIOUS
  <2>1. packets # 0 /\ last \in Packets
    BY <1>2 DEF TypeOK
  <2>2. Stream = Sent(last)
    BY <2>1 DEF Stream
  <2>3. QED
    BY <2>1, <2>2, SentIs
<1>11. packets = 0 \/ packets > 0
  BY <1>2, Parameters DEF TypeOK
<1>12. /\ BitsIn = silent + 23 - t
       /\ BitsIn' = silent' + 23 - Len(todo')
       /\ SentBits = 33 - t /\ SentBits' = 33 - Len(todo')
  BY <1>2, <1>5 DEF BitsIn, SentBits
<1>13. n = Len(Stream') /\ n \in Nat
  BY <1>8, <1>9, <1>10, <1>11
<1>14. ASSUME /\ Len(todo') <= n
              /\ \A i \in 1 .. Len(todo') : todo'[i] = Stream'[n - Len(todo') + i]
       PROVE  Wires'
  <2>1. mouse' # "receiving" /\ clk' # 0
    BY <1>1
  <2>2. packets' > 0 => init_done' /\ last' \in Packets
    BY <1>1, <1>2
  <2>3. /\ Len(todo') <= Len(Stream')
        /\ \A i \in 1 .. Len(todo') : todo'[i] = Stream'[Len(Stream') - Len(todo') + i]
    BY <1>13, <1>14, Zenon
  <2>4. QED
    BY <1>1, <1>7, <2>1, <2>2, <2>3 DEF Wires
<1> HIDE DEF t, n
<1>15. todo[1] = Stream[n - t + 1]
  BY <1>3, <1>4
<1>16. Wires'
  <2>1. \A i \in 1 .. Len(todo') : todo'[i] = Stream'[n - Len(todo') + i]
    <3> SUFFICES ASSUME NEW i \in 1 .. t - 1
                 PROVE  Tail(todo)[i] = Stream[n - (t - 1) + i]
      BY <1>1, <1>4, <1>8
    <3>1. i + 1 \in 1 .. t /\ n - (t - 1) + i = n - t + (i + 1)
      BY <1>4, <1>13
    <3>2. Tail(todo)[i] = todo[i + 1]
      BY <1>4
    <3>3. todo[i + 1] = Stream[n - t + (i + 1)]
      BY <1>3, <3>1
    <3>4. QED
      BY <3>1, <3>2, <3>3
  <2>2. Len(todo') <= n
    BY <1>3, <1>4, <1>13
  <2>3. QED
    BY <1>14, <2>1, <2>2
<1>17. Straight /\ packets = 0 => SetUp'
  <2> SUFFICES ASSUME Straight, packets = 0
               PROVE  SetUp'
    OBVIOUS
  <2>1. silent \in 0 .. 6 /\ silent' = silent /\ SetUp
    BY <1>1, <1>2, Parameters DEF Straight, TypeOK, FrameInv, OnTheWay
  <2>3. t \in 1 .. 11 /\ n = 11
    BY <1>3, <1>4, <1>9
  <2>4. BitsIn = silent + 23 - t /\ BitsIn' = silent + 23 - (t - 1)
    BY <1>1, <1>4, <1>12
  <2>5. BitsIn # 0 /\ BitsIn # Second /\ ~(BitsIn \in 11 .. Second - 1)
    BY <2>1, <2>3, <2>4 DEF Second
  <2>6. BitsIn > Second + 10 => todo[1] = 1
    <3> SUFFICES ASSUME BitsIn > Second + 10
                 PROVE  todo[1] = 1
      OBVIOUS
    <3>1. n - t + 1 \in 9 .. 11
      BY <2>1, <2>3, <2>4 DEF Second
    <3>2. n - t + 1 = 9 \/ n - t + 1 = 10 \/ n - t + 1 = 11
      BY <3>1
    <3>3. todo[1] = Frame(Ack)[n - t + 1]
      BY <1>9, <1>15
    <3>4. QED
      BY <3>2, <3>3, AckBits
  <2>7. BitsIn \in 0 .. 40 /\ BitsIn' = BitsIn + 1
    BY <2>1, <2>3, <2>4
  <2>8. QED
    BY <1>2, <1>6, <2>1, <2>5, <2>6, <2>7, SetUpSample
<1>18. Straight /\ packets > 0 => Taken(last)'
  <2> SUFFICES ASSUME Straight, packets > 0
               PROVE  Taken(last)'
    OBVIOUS
  <2>0. packets > 0
    OBVIOUS
  <2>1. last \in Packets /\ Taken(last) /\ last' = last
    BY <1>1, <1>2 DEF FrameInv, OnTheWay
  <2>2. n = 33 /\ t \in 1 .. 33
    <3>1. n = 33
      BY <1>10, <2>0
    <3>2. t \in Nat /\ 1 <= t /\ t <= n
      BY <1>3, <1>4
    <3>3. QED
      BY <3>1, <3>2
  <2>3. SentBits = n - t /\ SentBits \in 0 .. 32 /\ SentBits' = SentBits + 1
    BY <1>4, <1>12, <2>2
  <2>4. todo[1] = Sent(last)[SentBits + 1]
    BY <1>10, <1>15, <2>3
  <2>5. \A p \in Packets : Taken(p) /\ todo[1] = Sent(p)[SentBits + 1] => Taken(p)'
    BY <1>2, <1>6, <2>3, TakenSample
  <2>6. QED
    BY <2>1, <2>4, <2>5
<1>19. QED
  BY <1>1, <1>2, <1>5, <1>16, <1>17, <1>18 DEF FrameInv, OnTheWay, Straight

(* A packet begins when the receiver has taken all that came before it.    *)
LEMMA MoveFrame ==
  ASSUME CommandInv, FrameInv, Move
  PROVE  FrameInv'
<1>1. /\ mouse = "idle" /\ init_done /\ mouse' = "sending"
      /\ packets' = packets + 1
      /\ UNCHANGED <<s, init_done, rx, data_count, data_shift_reg, counter, clk, dat, got, silent, broken>>
  BY DEF Move, commandVars, dataVars, cursorVars
<1>2. PICK p \in Packets : last' = p /\ todo' = Sent(p)
  BY DEF Move, Sent
<1>3. TypeOK /\ s = "idle" /\ todo = <<>> /\ packets \in Nat /\ clk = 1
      /\ (rx # "data" => data_count = 0)
  BY <1>1, Parameters DEF CommandInv, TypeOK, Roles, FrameInv, OnTheWay, Wires
<1>4. packets' > 0 /\ packets' # 0
  BY <1>1, <1>3
<1>5. Stream' = Sent(p) /\ Len(Sent(p)) = 33
  BY <1>2, <1>4, SentIs DEF Stream
<1>6. Wires'
  <2>1. \A i \in 1 .. 33 : Sent(p)[i] = Sent(p)[33 - 33 + i]
    OBVIOUS
  <2>2. Len(todo') = 33 /\ Len(Stream') = 33
    BY <1>2, <1>5
  <2>3. /\ Len(todo') <= Len(Stream')
        /\ \A i \in 1 .. Len(todo') : todo'[i] = Stream'[Len(Stream') - Len(todo') + i]
    BY <1>2, <1>5, <2>1, <2>2
  <2>4. QED
    BY <1>1, <1>2, <1>3, <2>3 DEF Wires
<1>7. Straight => Heard = 0 /\ counter = 2
  <2> SUFFICES ASSUME Straight
               PROVE  Heard = 0 /\ counter = 2
    OBVIOUS
  <2>1. Len(todo) = 0
    BY <1>3
  <2>2. CASE packets = 0
    <3>1. silent \in 0 .. 6 /\ SetUp
      BY <1>3, <2>2, Parameters DEF Straight, TypeOK, FrameInv, OnTheWay
    <3>2. BitsIn = silent + 23
      BY <1>3, <2>1, <3>1 DEF BitsIn
    <3>3. BitsIn > Second + 10 /\ ~(BitsIn <= 10)
      BY <3>1, <3>2 DEF Second
    <3>4. QED
      BY <3>1, <3>3 DEF SetUp
  <2>3. CASE packets > 0
    <3>1. Taken(last)
      BY <2>3 DEF FrameInv, OnTheWay
    <3>2. SentBits = 33
      BY <2>1 DEF SentBits
    <3>3. QED
      BY <3>1, <3>2 DEF Taken
  <2>4. QED
    BY <1>3, <2>2, <2>3
<1>8. Straight => Taken(p)'
  <2> SUFFICES ASSUME Straight
               PROVE  Taken(p)'
    OBVIOUS
  <2>1. Heard' = 0 /\ counter' = 2
    BY <1>1, <1>7 DEF Heard
  <2>2. SentBits' = 0
    BY <1>2, <1>5 DEF SentBits
  <2>3. QED
    BY <2>1, <2>2 DEF Taken
<1>9. Taken(p)' => Taken(last)'
  BY <1>2 DEF Taken, Sending, Shifting
<1>10. QED
  BY <1>1, <1>3, <1>4, <1>6, <1>8, <1>9 DEF FrameInv, OnTheWay, Straight

LEMMA ResetFrame == Reset => FrameInv'
<1> SUFFICES ASSUME Reset
             PROVE  FrameInv'
  OBVIOUS
<1>1. /\ s' = "initiate" /\ clk' = 0 /\ mouse' = "idle" /\ rx' = "idle" /\ data_count' = 0
      /\ counter' = 0 /\ silent' = 0 /\ packets' = 0
  BY DEF Reset, Inhibit
<1>2. Heard' = 0 /\ BitsIn' = 0 /\ Second' = 11
  BY <1>1 DEF Heard, BitsIn, Second
<1>3. SetUp'
  BY <1>1, <1>2 DEF SetUp
<1>4. QED
  BY <1>1, <1>3 DEF FrameInv, OnTheWay, Wires

LEMMA InitFrame == Init => FrameInv
<1> SUFFICES ASSUME Init
             PROVE  FrameInv
  OBVIOUS
<1>1. Heard = 0 /\ BitsIn = 0 /\ Second = 11
  BY DEF Init, Heard, BitsIn, Second
<1>2. SetUp
  BY <1>1 DEF Init, SetUp
<1>3. QED
  BY <1>2 DEF Init, FrameInv, OnTheWay, Wires

(* The controller tries again, or takes the command as sent, or the mouse  *)
(* begins to answer: no bit comes in.                                      *)
LEMMA SilentFrame ==
  ASSUME CommandInv, FrameInv, Retry \/ CommandWasSent \/ Answer
  PROVE  FrameInv'
<1>1. UNCHANGED <<rx, data_count, data_shift_reg, counter, byte1, byte2, byte3, silent, packets, broken, last>>
  BY DEF Retry, CommandWasSent, Answer, dataVars, cursorVars, history
<1>2. Heard' = Heard
  BY <1>1 DEF Heard
<1>3. CASE Retry
  <2>1. s = "error" /\ s' = "initiate" /\ clk' = 0 /\ mouse' = "idle" /\ init_done' = init_done
    BY <1>3 DEF Retry, Inhibit
  <2>2. packets = 0 /\ BitsIn' = BitsIn
    BY <1>1, <2>1 DEF CommandInv, TypeOK, Roles, FrameInv, OnTheWay, Wires, BitsIn
  <2>3. Wires'
    BY <1>1, <2>1, <2>2 DEF FrameInv, OnTheWay, Wires
  <2>4. SetUp => SetUp'
    BY <1>1, <1>2, <2>2, SetUpSame
  <2>5. QED
    BY <1>1, <2>1, <2>2, <2>3, <2>4 DEF FrameInv, OnTheWay, Straight
<1>4. CASE CommandWasSent
  <2>1. s = "sent" /\ s' = "idle" /\ init_done' /\ UNCHANGED <<clk, dat, mouse, got, todo>>
    BY <1>4 DEF CommandWasSent, mouseVars
  <2>2. BitsIn' = BitsIn
    BY <1>1, <2>1 DEF BitsIn
  <2>3. Wires'
    BY <1>1, <2>1 DEF FrameInv, OnTheWay, Wires, Stream
  <2>4. SetUp => SetUp'
    BY <1>1, <1>2, <2>2, SetUpSame
  <2>5. Taken(last) => Taken(last)'
    BY <1>1, <2>1, TakenSame
  <2>6. QED
    BY <1>1, <2>1, <2>3, <2>4, <2>5 DEF FrameInv, OnTheWay, Straight
<1>5. CASE Answer
  <2>1. s = "wait" /\ s' = s /\ mouse = "idle" /\ mouse' = "receiving" /\ init_done' = init_done
        /\ UNCHANGED <<clk, dat, got, todo>>
    BY <1>5 DEF Answer, commandVars
  <2>2. BitsIn' = BitsIn
    BY <1>1, <2>1 DEF BitsIn
  <2>3. got = <<>> /\ clk = 1 /\ packets = 0
    BY <2>1 DEF CommandInv, TypeOK, Roles, FrameInv, OnTheWay, Wires
  <2>4. Wires'
    BY <1>1, <2>1, <2>3 DEF FrameInv, OnTheWay, Wires
  <2>5. SetUp => SetUp'
    BY <1>1, <1>2, <2>2, SetUpSame
  <2>6. QED
    BY <1>1, <2>1, <2>3, <2>4, <2>5 DEF FrameInv, OnTheWay, Straight
<1>6. QED
  BY <1>3, <1>4, <1>5

LEMMA FrameStep == CommandInv /\ CommandInv' /\ FrameInv /\ [Next]_vars => FrameInv'
<1> SUFFICES ASSUME CommandInv, CommandInv', FrameInv, [Next]_vars
             PROVE  FrameInv'
  OBVIOUS
<1>1. CASE TransferTimeOut
  <2>1. /\ s \in {"transmit", "stop", "ack"} /\ s' = "error"
        /\ UNCHANGED <<init_done, rx, data_count, clk, dat, mouse, got, todo, silent, packets, last>>
    BY <1>1 DEF TransferTimeOut, dataVars, mouseVars
  <2>2. ~Straight'
    <3>1. CASE mouse = "receiving"
      BY <1>1, <3>1 DEF TransferTimeOut, Overdue, Straight
    <3>2. CASE mouse # "receiving"
      BY <1>1, <2>1, <3>2 DEF TransferTimeOut, Overdue, FrameInv, OnTheWay, Straight
    <3>3. QED
      BY <3>1, <3>2
  <2>3. Wires'
    BY <2>1 DEF FrameInv, Wires, Stream
  <2>4. QED
    BY <2>2, <2>3 DEF FrameInv, OnTheWay
<1>2. CASE BreakOff
  <2>1. /\ mouse' = "idle" /\ clk' = 1 /\ broken'
        /\ UNCHANGED <<init_done, rx, data_count, packets, last>>
    BY <1>2 DEF BreakOff, commandVars, dataVars
  <2>2. ~Straight'
    BY <2>1 DEF Straight
  <2>3. Wires'
    BY <2>1 DEF FrameInv, OnTheWay, Wires
  <2>4. QED
    BY <2>2, <2>3 DEF FrameInv, OnTheWay
<1>3. CASE UNCHANGED vars
  <2>1. UNCHANGED <<s, init_done, rx, data_count, data_shift_reg, counter, byte1, byte2, byte3,
                    clk, dat, mouse, got, todo, silent, packets, broken, last>>
    BY <1>3 DEF vars, commandVars, dataVars, cursorVars, mouseVars, history
  <2>2. Wires'
    BY <2>1 DEF FrameInv, OnTheWay, Wires, Stream
  <2>3. SetUp => SetUp'
    BY <2>1, SetUpSame DEF Heard, BitsIn
  <2>4. Taken(last) => Taken(last)'
    BY <2>1, TakenSame
  <2>5. QED
    BY <2>1, <2>2, <2>3, <2>4 DEF FrameInv, OnTheWay, Straight
<1>4. CASE Rise
  <2>1. mouse = "receiving" \/ mouse = "sending"
    BY <1>4 DEF Rise
  <2>2. QED
    BY <1>4, <2>1, RiseReceiving, RiseGivenUp, RiseSending
<1>5. QED
  BY <1>1, <1>2, <1>3, <1>4, RequestFrame, WaitTimeOutFrame, SilentFrame, ResetFrame,
     FallFrame, MoveFrame DEF Next

(***************************************************************************)
(* After every packet the registers hold its bytes, for all packets, if    *)
(* since the reset no command was broken off or too slow and fewer than    *)
(* seven requests went without a clock.                                    *)
(***************************************************************************)
THEOREM FramedHolds == Spec => []Framed
<1>1. CommandInv /\ FrameInv => Framed
  <2> SUFFICES ASSUME CommandInv, FrameInv, mouse = "idle", packets > 0, ~broken, silent < 7
               PROVE  [b1 |-> byte1, x |-> byte3, y |-> byte2] = last
    BY DEF Framed
  <2>1. Taken(last) /\ last \in Packets
    BY DEF FrameInv, OnTheWay, Straight, Wires
  <2>2. todo = <<>>
    BY DEF CommandInv, TypeOK
  <2>3. SentBits = 33
    BY <2>2 DEF SentBits
  <2>4. byte1 = last.b1 /\ byte3 = last.x /\ byte2 = last.y
    BY <2>1, <2>3 DEF Taken
  <2>5. last = [b1 |-> last.b1, x |-> last.x, y |-> last.y]
    BY <2>1, Parameters
  <2>6. QED
    BY <2>4, <2>5
<1>2. Spec => []CommandInv
  BY InitCommand, CommandStep, PTL DEF Spec
<1>3. QED
  BY <1>1, <1>2, InitFrame, FrameStep, PTL DEF Spec
=============================================================================
