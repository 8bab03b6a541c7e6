------------------------------ MODULE Ps2Mouse -------------------------------
(***************************************************************************)
(* The PS/2 mouse (mouse_interface_IP.sv).  After a reset the controller   *)
(* sends the mouse the command that makes it report, again and again until *)
(* the mouse takes it, and from then on the mouse sends packets of three   *)
(* bytes.  The controller receives all the while: also what it sends       *)
(* itself, and the mouse's answer, come in as bytes.                       *)
(*                                                                         *)
(* A step is an edge of the PS/2 clock or a time-out.  The clocks of the   *)
(* FPGA between two edges, some thousand, belong to the step before them.  *)
(***************************************************************************)
EXTENDS Integers, Sequences

CONSTANTS
  Packets,      \* the packets the mouse may send
  MaxPackets,   \* bounds the packets after a reset
  MaxSilent,    \* bounds the requests that time out without a clock
  MaxFaults     \* bounds the commands the mouse does not finish in time and
                \* the presses of KEY[0]

Byte == 0 .. 255

ASSUME MouseAssumption ==
  /\ Packets \subseteq [b1 : Byte, x : Byte, y : Byte]
  /\ MaxPackets \in Nat /\ MaxSilent \in Nat /\ MaxFaults \in Nat

VARIABLES   \* PS2_Command_Out and PS2_Controller
  s,            \* s_ps2_transmitter
  cur_bit,
  init_done

VARIABLES   \* PS2_Data_In
  rx,           \* s_ps2_receiver
  data_count,
  data_shift_reg

VARIABLES   \* Mouse_interface
  counter, byte1, byte2, byte3, curX, curY

VARIABLES   \* the wires and the mouse
  clk,          \* PS2_CLK
  dat,          \* the mouse's side of PS2_DAT: it pulls it down or lets go
  mouse,        \* "idle", "receiving" or "sending"
  got,          \* the bits of the command it has seen
  todo          \* the bits it has yet to send

VARIABLES   \* history, and the bounds
  silent, packets,   \* since the last reset
  broken,            \* a command was broken off, or too slow, since then
  last,              \* the last packet the mouse started
  faults

commandVars == <<s, cur_bit, init_done>>
dataVars    == <<rx, data_count, data_shift_reg>>
cursorVars  == <<counter, byte1, byte2, byte3, curX, curY>>
mouseVars   == <<dat, mouse, got, todo>>
history     == <<silent, packets, broken, last, faults>>
vars == <<commandVars, dataVars, cursorVars, clk, mouseVars, history>>

Bit(n, i) == (n \div <<1, 2, 4, 8, 16, 32, 64, 128>>[i + 1]) % 2

(* Odd parity. *)
Parity(n) == (1 + Bit(n, 0) + Bit(n, 1) + Bit(n, 2) + Bit(n, 3)
                + Bit(n, 4) + Bit(n, 5) + Bit(n, 6) + Bit(n, 7)) % 2

Enable == 244   \* 8'hf4
Ack    == 250   \* 8'hfa

(* ps2_command: the byte and its parity. *)
Command(i) == IF i = 8 THEN Parity(Enable) ELSE Bit(Enable, i)

(* The controller's side of PS2_DAT, where 1 is to let go. *)
HostData == IF s = "transmit" THEN Command(cur_bit)
            ELSE IF s = "wait" THEN 0 ELSE 1

Frame(n) == <<0>> \o [i \in 1 .. 8 |-> Bit(n, i - 1)] \o <<Parity(n), 1>>

NoPacket == [b1 |-> 0, x |-> 0, y |-> 0]

Init ==
  /\ s = "initiate" /\ cur_bit = 0 /\ init_done = FALSE
  /\ rx = "idle" /\ data_count = 0 /\ data_shift_reg = 0
  /\ counter = 0 /\ byte1 = 0 /\ byte2 = 0 /\ byte3 = 0 /\ curX = 0 /\ curY = 0
  /\ clk = 0 /\ dat = 1 /\ mouse = "idle" /\ got = <<>> /\ todo = <<>>
  /\ silent = 0 /\ packets = 0 /\ broken = FALSE /\ last = NoPacket /\ faults = 0

-----------------------------------------------------------------------------
(* The cursor. *)

Magnitude(negative, byte) == IF negative = 1 THEN 256 - byte ELSE byte

(* Mutant of Less: clamps at 0. *)
LessSloppily(cur, magnitude) ==
  IF cur > magnitude THEN (cur - magnitude) % 1024 ELSE 5

(* The comparison with 5 is unsigned: a cursor below 5 counts as far away. *)
Less(cur, magnitude) ==
  IF cur < 5 \/ cur - 5 > magnitude THEN (cur - magnitude) % 1024 ELSE 5

More(cur, magnitude, edge) ==
  IF cur < edge - magnitude THEN cur + magnitude ELSE edge

MoveX ==
  LET mag == Magnitude(Bit(byte1, 4), byte3)
  IN  IF Bit(byte1, 4) = 1 THEN Less(curX, mag) ELSE More(curX, mag, 635)

MoveY ==
  LET mag == Magnitude(Bit(byte1, 5), byte2)
  IN  IF Bit(byte1, 5) = 1 THEN More(curY, mag, 475) ELSE Less(curY, mag)

(* Mutant: the count goes on to 3. *)
TakeByteOn(byte) ==
  /\ counter' = counter + 1
  /\ byte1' = byte /\ curY' = MoveY
  /\ UNCHANGED <<byte2, byte3, curX>>

(* A byte is in. *)
TakeByte(byte) ==
  \/ /\ counter = 0 /\ counter' = 1
     /\ byte3' = byte
     /\ UNCHANGED <<byte1, byte2, curX, curY>>
  \/ /\ counter = 1 /\ counter' = 2
     /\ byte2' = byte /\ curX' = MoveX
     /\ UNCHANGED <<byte1, byte3, curY>>
  \/ /\ counter = 2 /\ counter' = 0
     /\ byte1' = byte /\ curY' = MoveY
     /\ UNCHANGED <<byte2, byte3, curX>>

-----------------------------------------------------------------------------
(* The receiver, at a rising edge.  It checks neither parity nor stop bit.  *)

Sample(bit) ==
  \/ /\ rx = "idle" /\ rx' = (IF bit = 0 THEN "data" ELSE "idle")
     /\ UNCHANGED <<data_count, data_shift_reg, cursorVars>>
  \/ /\ rx = "data"
     /\ data_shift_reg' = 128 * bit + data_shift_reg \div 2
     /\ data_count' = (data_count + 1) % 8
     /\ rx' = (IF data_count = 7 THEN "parity" ELSE "data")
     /\ UNCHANGED cursorVars
  \/ /\ rx = "parity" /\ rx' = "stop"
     /\ UNCHANGED <<data_count, data_shift_reg, cursorVars>>
  \/ /\ rx = "stop" /\ rx' = "idle"
     /\ TakeByte(data_shift_reg)
     /\ UNCHANGED <<data_count, data_shift_reg>>

-----------------------------------------------------------------------------
(* The transmitter. *)

(* The clock is pulled down, and the mouse gives up what it was about.      *)
Inhibit ==
  /\ s' = "initiate" /\ cur_bit' = 0 /\ clk' = 0
  /\ dat' = 1 /\ mouse' = "idle" /\ got' = <<>> /\ todo' = <<>>

(* After 101 us the clock is let go, with the data pulled down. *)
Request ==
  /\ s = "initiate" /\ s' = "wait" /\ clk' = 1
  /\ Sample(0)
  /\ UNCHANGED <<cur_bit, init_done, mouseVars, history>>

(* 15 ms without a clock, also when the mouse was about to give one. *)
WaitTimeOut ==
  /\ s = "wait" /\ silent < MaxSilent
  /\ s' = "error" /\ silent' = silent + 1
  /\ UNCHANGED <<cur_bit, init_done, dataVars, cursorVars, clk, mouseVars, packets, broken, last, faults>>

(* The mouse is gone, or takes longer than the 2 ms.                        *)
Overdue ==
  \/ mouse = "idle" /\ UNCHANGED <<broken, faults>>
  \/ /\ mouse = "receiving"
     /\ faults < MaxFaults /\ faults' = faults + 1 /\ broken' = TRUE

(* Mutant: the time counts only while the bits go out. *)
TransferTimeOutEarly ==
  /\ s = "transmit" /\ Overdue
  /\ s' = "error" /\ cur_bit' = 0
  /\ UNCHANGED <<init_done, dataVars, cursorVars, clk, mouseVars, silent, packets, last>>

(* 2 ms, and the command is not through. *)
TransferTimeOut ==
  /\ s \in {"transmit", "stop", "ack"} /\ Overdue
  /\ s' = "error" /\ cur_bit' = 0
  /\ UNCHANGED <<init_done, dataVars, cursorVars, clk, mouseVars, silent, packets, last>>

(* Mutant: the command is sent again at once, without holding the clock.    *)
RetryAtOnce ==
  /\ s = "error" /\ s' = "wait" /\ cur_bit' = 0
  /\ UNCHANGED <<init_done, dataVars, cursorVars, clk, mouseVars, history>>

(* The error takes send_command away, which ends the error and brings       *)
(* send_command back.                                                       *)
Retry ==
  /\ s = "error"
  /\ Inhibit
  /\ UNCHANGED <<init_done, dataVars, cursorVars, history>>

CommandWasSent ==
  /\ s = "sent" /\ s' = "idle" /\ init_done' = TRUE
  /\ UNCHANGED <<cur_bit, dataVars, cursorVars, clk, mouseVars, history>>

(* A falling edge. *)
NextBit ==
  CASE s = "wait"     -> s' = "transmit" /\ cur_bit' = 0
    [] s = "transmit" -> IF cur_bit = 8 THEN s' = "stop" /\ cur_bit' = 0
                         ELSE s' = s /\ cur_bit' = cur_bit + 1
    [] s = "stop"     -> s' = "ack" /\ cur_bit' = 0
    [] OTHER          -> UNCHANGED <<s, cur_bit>>

(* Mutant: the count of the bytes is not reset. *)
ResetButCounter ==
  /\ faults < MaxFaults /\ faults' = faults + 1
  /\ Inhibit
  /\ init_done' = FALSE
  /\ rx' = "idle" /\ data_count' = 0 /\ data_shift_reg' = 0
  /\ byte1' = 0
  /\ silent' = 0 /\ packets' = 0 /\ broken' = FALSE
  /\ UNCHANGED <<counter, byte2, byte3, curX, curY, last>>

(* KEY[0].  The mouse gives up a byte it is sending, and the packet with it. *)
Reset ==
  /\ faults < MaxFaults /\ faults' = faults + 1
  /\ Inhibit
  /\ init_done' = FALSE
  /\ rx' = "idle" /\ data_count' = 0 /\ data_shift_reg' = 0
  /\ byte1' = 0 /\ counter' = 0
  /\ silent' = 0 /\ packets' = 0 /\ broken' = FALSE
  /\ UNCHANGED <<byte2, byte3, curX, curY, last>>

-----------------------------------------------------------------------------
(* The mouse.  It clocks the command in with eleven pulses, of which it     *)
(* answers the last by pulling the data down, and sends an acknowledgement. *)

Answer ==
  /\ s = "wait" /\ mouse = "idle" /\ mouse' = "receiving"
  /\ UNCHANGED <<commandVars, dataVars, cursorVars, clk, dat, got, todo, history>>

(* An error is over in a few clocks of the FPGA; nothing looks at an edge   *)
(* that falls in them.                                                      *)
Fall ==
  /\ mouse # "idle" /\ clk = 1 /\ clk' = 0 /\ s # "error"
  /\ NextBit
  /\ dat' = IF mouse = "sending" THEN Head(todo)
            ELSE IF Len(got) = 10 THEN 0 ELSE 1
  /\ UNCHANGED <<init_done, dataVars, cursorVars, mouse, got, todo, history>>

Rise ==
  /\ mouse # "idle" /\ clk = 0 /\ clk' = 1
  /\ LET line == IF dat = 0 THEN 0 ELSE HostData
     IN  /\ Sample(line)
         /\ got' = IF mouse = "receiving" THEN Append(got, line) ELSE got
  /\ s' = IF s = "ack" THEN "sent" ELSE s
  /\ \/ /\ mouse = "receiving" /\ Len(got) < 10
        /\ UNCHANGED <<dat, mouse, todo>>
     \/ /\ mouse = "receiving" /\ Len(got) = 10
        /\ mouse' = "sending" /\ todo' = Frame(Ack) /\ dat' = 1
     \/ /\ mouse = "sending" /\ todo' = Tail(todo)
        /\ mouse' = (IF Len(todo) = 1 THEN "idle" ELSE mouse) /\ dat' = 1
  /\ UNCHANGED <<cur_bit, init_done, history>>

(* The plug is out for a moment while the command is sent.  Until the mouse *)
(* is up again the transfer has timed out: it answers the next request, not *)
(* the rest of this one.                                                    *)
BreakOff ==
  /\ mouse = "receiving" /\ clk = 1 /\ s # "sent" /\ got # <<>>
  /\ faults < MaxFaults /\ faults' = faults + 1 /\ broken' = TRUE
  /\ mouse' = "idle" /\ got' = <<>>
  /\ UNCHANGED <<commandVars, dataVars, cursorVars, clk, dat, todo, silent, packets, last>>

(* It is moved or a button changes. *)
Move ==
  /\ mouse = "idle" /\ init_done /\ packets < MaxPackets
  /\ packets' = packets + 1
  /\ \E p \in Packets :
       /\ last' = p
       /\ todo' = Frame(p.b1) \o Frame(p.x) \o Frame(p.y)
  /\ mouse' = "sending"
  /\ UNCHANGED <<commandVars, dataVars, cursorVars, clk, dat, got, silent, broken, faults>>

-----------------------------------------------------------------------------
Next ==
  \/ Request \/ WaitTimeOut \/ TransferTimeOut \/ Retry \/ CommandWasSent
  \/ Reset
  \/ Answer \/ Fall \/ Rise \/ BreakOff \/ Move

(* The counters of the controller run out, and a mouse that has begun to    *)
(* answer goes on.                                                          *)
Fairness ==
  /\ WF_vars(Request) /\ WF_vars(WaitTimeOut \/ Answer) /\ WF_vars(TransferTimeOut)
  /\ WF_vars(Retry) /\ WF_vars(CommandWasSent)
  /\ WF_vars(Fall) /\ WF_vars(Rise)

Spec == Init /\ [][Next]_vars /\ Fairness

-----------------------------------------------------------------------------
(* Correctness. *)

Coordinate == 0 .. 1023

TypeOK ==
  /\ s \in {"initiate", "wait", "transmit", "stop", "ack", "sent", "error", "idle"}
  /\ cur_bit \in 0 .. 8 /\ init_done \in BOOLEAN
  /\ rx \in {"idle", "data", "parity", "stop"}
  /\ data_count \in 0 .. 7 /\ data_shift_reg \in Byte
  /\ counter \in 0 .. 2 /\ byte1 \in Byte /\ byte2 \in Byte /\ byte3 \in Byte
  /\ curX \in Coordinate /\ curY \in Coordinate
  /\ clk \in 0 .. 1 /\ dat \in 0 .. 1
  /\ mouse \in {"idle", "receiving", "sending"}
  /\ got \in Seq(0 .. 1) /\ todo \in Seq(0 .. 1)
  /\ mouse = "sending" <=> todo # <<>>
  /\ silent \in 0 .. MaxSilent /\ packets \in 0 .. MaxPackets
  /\ broken \in BOOLEAN /\ faults \in 0 .. MaxFaults
  /\ last \in Packets \cup {NoPacket}

(* The bytes of a packet are told apart by a count that nothing sets right: *)
(* byte1 takes every third byte since the reset, although the first byte of *)
(* a packet is the mouse's first.  It works because two bytes come in       *)
(* before: the command the controller hears itself send, and the mouse's    *)
(* acknowledgement a bit late.  So after every packet the registers hold    *)
(* its bytes (mouse_interface_IP.sv:58), also after a reset in the middle   *)
(* of one; but a command broken off or too slow, or a mouse that leaves     *)
(* seven requests unanswered, puts the bytes in the wrong registers until   *)
(* the next reset.                                                          *)
Framed ==
  mouse = "idle" /\ packets > 0 /\ ~broken /\ silent < 7 =>
    [b1 |-> byte1, x |-> byte3, y |-> byte2] = last

(* When the controller takes the command as sent, the mouse has seen all of *)
(* it, with its parity and stop bit (mouse_interface_IP.sv:470): no bit of  *)
(* an earlier sending that the mouse was slow with, or broke off, is among  *)
(* them, since holding the clock down makes the mouse forget those.         *)
CommandIntact ==
  s = "sent" => SubSeq(got, 1, 10) = [i \in 1 .. 10 |-> IF i = 10 THEN 1 ELSE Command(i - 1)]

OnScreen(cur, edge) == cur \in 5 .. edge

(* A cursor on the screen never leaves it or wraps around, whatever bytes   *)
(* come in, although the comparison at mouse_interface_IP.sv:66 is unsigned *)
(* and is wrong near the edge.  (It starts off the screen, at 0.)           *)
CursorStays ==
  [][/\ OnScreen(curX, 635) => OnScreen(curX', 635)
     /\ OnScreen(curY, 475) => OnScreen(curY', 475)]_vars

(* The mouse is set up in the end, whatever the line did and whenever it    *)
(* was reset: each of the waits ends by itself (mouse_interface_IP.sv:440). *)
InitEnds == ~init_done ~> init_done

=============================================================================
