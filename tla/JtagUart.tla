------------------------------- MODULE JtagUart ------------------------------
(***************************************************************************)
(* The console of the keyboard program: the interrupt-driven driver of the *)
(* JTAG UART (altera_avalon_jtag_uart_{init,write,read,ioctl}.c), through  *)
(* which every printf of main.c goes.  The program's one thread fills and  *)
(* empties two rings that the interrupt routine shares with it; a timer    *)
(* counts the seconds the terminal stays away.  The routine is not itself  *)
(* interrupted, and the thread updates the interrupt enables with          *)
(* interrupts off, so that such an update is one step.                     *)
(***************************************************************************)
EXTENDS Integers, Sequences

CONSTANTS
  BufLen,           \* ALTERA_AVALON_JTAG_UART_BUF_LEN: 2048
  WriteDepth,       \* characters the hardware holds for the terminal: 64
  WriteThreshold,   \* it asks for more when it holds no more than this
  ReadDepth,        \* characters the hardware holds for the program: 64
  IntMax,           \* INT_MAX
  DefaultTimeout,   \* ALTERA_AVALON_JTAG_UART_DEFAULT_TIMEOUT: 10
  Alarm,            \* whether alt_alarm_start can succeed: {FALSE} here
  MaxWrite,         \* bound: characters in one write
  MaxRead,          \* bound: characters in one read
  OutChars,         \* the characters printed are numbered modulo this
  InChars           \* the characters typed are numbered modulo this

ASSUME JtagAssumption ==
  /\ BufLen \in Nat /\ BufLen >= 2
  /\ WriteDepth \in Nat /\ WriteThreshold \in Nat /\ WriteThreshold < WriteDepth
  /\ ReadDepth \in Nat /\ MaxWrite \in Nat /\ MaxRead \in Nat
  /\ IntMax \in Nat /\ DefaultTimeout \in 2 .. IntMax - 2
  /\ Alarm \subseteq BOOLEAN
  /\ OutChars \in Nat \ {0} /\ InChars \in Nat \ {0}

VARIABLES   \* altera_avalon_jtag_uart_state
  tx_in, tx_out, tx_buf, rx_in, rx_out, rx_buf,
  irq_enable,       \* which interrupts are enabled: "RE", "WE"
  timeout,          \* seconds until the host is assumed inactive
  host_inactive     \* seconds it has been away

VARIABLES
  call,             \* the call under way (write, read or close), or NoCall
  ptr,              \* write: the next character of the program's stream
  isr               \* the interrupt routine, or NoIsr

VARIABLES   \* the hardware and the terminal
  txFifo, rxFifo,
  present,          \* a terminal is attached
  heard,            \* the last character the terminal received
  got               \* the last character read() gave the program

txVars   == <<tx_in, tx_out, tx_buf>>
rxVars   == <<rx_in, rx_out, rx_buf>>
clkVars  == <<timeout, host_inactive>>
hostVars == <<txFifo, rxFifo, present, heard, got>>
vars == <<txVars, rxVars, irq_enable, clkVars, call, ptr, isr, hostVars>>

Slot == 0 .. BufLen - 1
OutChar == 0 .. OutChars - 1
InChar  == 0 .. InChars - 1

(* The locals of a call: where it is, O_NONBLOCK, the characters still to   *)
(* copy, those of the current copy, the pointer of the other side as it     *)
(* read it, and the characters read() copied but did not yet release.       *)
NoCall == [pc |-> "idle", nonblock |-> FALSE, count |-> 0, n |-> 0, seen |-> 0,
           buffer |-> <<>>]

(* The locals of the interrupt routine: where it is, and what the control   *)
(* word said: a write interrupt, and the room in the hardware.              *)
NoIsr == [pc |-> "off", wi |-> FALSE, space |-> 0]

Bump(i, k)  == (i + k) % BufLen
Least(a, b) == IF a < b THEN a ELSE b

(* The characters of a ring, oldest first. *)
Ring(buf, first, end) == [i \in 1 .. (end - first) % BufLen |-> buf[Bump(first, i - 1)]]

-----------------------------------------------------------------------------
(* altera_avalon_jtag_uart_init, with both rings empty. *)
Init ==
  /\ tx_in = 0 /\ tx_out = 0 /\ tx_buf = [i \in Slot |-> 0]
  /\ rx_in = 0 /\ rx_out = 0 /\ rx_buf = [i \in Slot |-> 0]
  /\ irq_enable = {"RE"}
  /\ host_inactive = 0
  /\ \E started \in Alarm : timeout = IF started THEN DefaultTimeout ELSE IntMax
  /\ call = NoCall /\ ptr = 0 /\ isr = NoIsr
  /\ txFifo = <<>> /\ rxFifo = <<>> /\ present \in BOOLEAN
  /\ heard = OutChars - 1 /\ got = InChars - 1

(* The thread runs while the interrupt routine does not. *)
Thread(from) == isr.pc = "off" /\ call.pc = from

Inactive == host_inactive >= timeout

(* A call to copy up to max characters begins. *)
Enter(entry, max) ==
  /\ Thread("idle")
  /\ \E count \in 1 .. max, nonblock \in BOOLEAN :
       call' = [NoCall EXCEPT !.pc = entry, !.count = count, !.nonblock = nonblock]

-----------------------------------------------------------------------------
(* altera_avalon_jtag_uart_write. *)

Write ==
  /\ Enter("fill", MaxWrite)
  /\ UNCHANGED <<txVars, rxVars, irq_enable, clkVars, ptr, isr, hostVars>>

(* Mutants of Room: no slot stays free below tx_out; none at the end.       *)
RoomExact ==
  IF tx_in < tx_out THEN tx_out - tx_in
  ELSE IF tx_out > 0 THEN BufLen - tx_in
  ELSE BufLen - 1 - tx_in
RoomToTheEnd ==
  IF tx_in < tx_out THEN tx_out - 1 - tx_in ELSE BufLen - tx_in

(* Contiguous room in the ring; one slot always stays free. *)
Room ==
  IF tx_in < tx_out THEN tx_out - 1 - tx_in
  ELSE IF tx_out > 0 THEN BufLen - tx_in
  ELSE BufLen - 1 - tx_in

(* memcpy; the interrupt routine sees nothing of it before Publish. *)
Copy ==
  /\ Thread("fill") /\ call.count > 0 /\ Room > 0
  /\ LET n == Least(Room, call.count) IN
       /\ tx_buf' = [i \in Slot |-> IF i \in tx_in .. tx_in + n - 1
                                    THEN (ptr + i - tx_in) % OutChars ELSE tx_buf[i]]
       /\ ptr' = (ptr + n) % OutChars
       /\ call' = [call EXCEPT !.pc = "publish", !.n = n, !.count = @ - n]
  /\ UNCHANGED <<tx_in, tx_out, rxVars, irq_enable, clkVars, isr, hostVars>>

Publish ==
  /\ Thread("publish")
  /\ tx_in' = Bump(tx_in, call.n)
  /\ call' = [call EXCEPT !.pc = "fill", !.n = 0]
  /\ UNCHANGED <<tx_out, tx_buf, rxVars, irq_enable, clkVars, ptr, isr, hostVars>>

Full ==
  /\ Thread("fill") /\ (call.count = 0 \/ Room = 0)
  /\ call' = [call EXCEPT !.pc = "kick", !.seen = tx_out]
  /\ UNCHANGED <<txVars, rxVars, irq_enable, clkVars, ptr, isr, hostVars>>

(* Mutants of Kick: the routine is kicked only if characters are left over, *)
(* or only if none are.                                                     *)
KickWhenFull ==
  /\ Thread("kick")
  /\ irq_enable' = IF call.count > 0 THEN irq_enable \cup {"WE"} ELSE irq_enable
  /\ call' = IF call.count > 0 /\ ~call.nonblock THEN [call EXCEPT !.pc = "spin"] ELSE NoCall
  /\ UNCHANGED <<txVars, rxVars, clkVars, ptr, isr, hostVars>>
KickWhenDone ==
  /\ Thread("kick")
  /\ irq_enable' = IF call.count = 0 THEN irq_enable \cup {"WE"} ELSE irq_enable
  /\ call' = IF call.count > 0 /\ ~call.nonblock THEN [call EXCEPT !.pc = "spin"] ELSE NoCall
  /\ UNCHANGED <<txVars, rxVars, clkVars, ptr, isr, hostVars>>

(* The interrupt routine is kicked every time; what is left has to wait,    *)
(* unless the caller does not.                                              *)
Kick ==
  /\ Thread("kick")
  /\ irq_enable' = irq_enable \cup {"WE"}
  /\ call' = IF call.count > 0 /\ ~call.nonblock THEN [call EXCEPT !.pc = "spin"] ELSE NoCall
  /\ UNCHANGED <<txVars, rxVars, clkVars, ptr, isr, hostVars>>

(* Mutant of Spin: the wait does not look at the clock. *)
SpinBlindly ==
  /\ Thread("spin") /\ call.seen # tx_out
  /\ call' = IF host_inactive # 0 THEN NoCall ELSE [call EXCEPT !.pc = "fill"]
  /\ UNCHANGED <<txVars, rxVars, irq_enable, clkVars, ptr, isr, hostVars>>

(* The call returns early when the terminal missed even one second. *)
Spin ==
  /\ Thread("spin") /\ (call.seen # tx_out \/ Inactive)
  /\ call' = IF host_inactive # 0 THEN NoCall ELSE [call EXCEPT !.pc = "fill"]
  /\ UNCHANGED <<txVars, rxVars, irq_enable, clkVars, ptr, isr, hostVars>>

-----------------------------------------------------------------------------
(* altera_avalon_jtag_uart_read. *)

Read ==
  /\ Enter("take", MaxRead)
  /\ UNCHANGED <<txVars, rxVars, irq_enable, clkVars, ptr, isr, hostVars>>

(* Contiguous characters in the ring. *)
Ready == IF rx_in >= rx_out THEN rx_in - rx_out ELSE BufLen - rx_out

Take ==
  /\ Thread("take") /\ Ready > 0
  /\ LET n == Least(Ready, call.count) IN
       call' = [call EXCEPT !.pc = "release", !.n = n, !.count = @ - n,
                            !.buffer = [i \in 1 .. n |-> rx_buf[rx_out + i - 1]]]
  /\ UNCHANGED <<txVars, rxVars, irq_enable, clkVars, ptr, isr, hostVars>>

Release ==
  /\ Thread("release")
  /\ rx_out' = Bump(rx_out, call.n)
  /\ got' = call.buffer[call.n]
  /\ call' = [call EXCEPT !.pc = IF call.count > 0 THEN "take" ELSE "rearm", !.buffer = <<>>]
  /\ UNCHANGED <<txVars, rx_in, rx_buf, irq_enable, clkVars, ptr, isr,
                 txFifo, rxFifo, present, heard>>

(* No more characters: the call returns what it has, or waits for some. *)
Empty ==
  /\ Thread("take") /\ Ready = 0
  /\ call' = IF call.n > 0 THEN [call EXCEPT !.pc = "rearm"]
             ELSE IF call.nonblock THEN NoCall
             ELSE [call EXCEPT !.pc = "await", !.seen = rx_in]
  /\ UNCHANGED <<txVars, rxVars, irq_enable, clkVars, ptr, isr, hostVars>>

Await ==
  /\ Thread("await") /\ (call.seen # rx_in \/ Inactive)
  /\ call' = IF call.seen = rx_in THEN NoCall ELSE [call EXCEPT !.pc = "take"]
  /\ UNCHANGED <<txVars, rxVars, irq_enable, clkVars, ptr, isr, hostVars>>

(* Mutant of Rearm: read interrupts stay as they are. *)
RearmNothing ==
  /\ Thread("rearm")
  /\ call' = NoCall
  /\ UNCHANGED <<irq_enable, txVars, rxVars, clkVars, ptr, isr, hostVars>>

(* There is room in the ring again. *)
Rearm ==
  /\ Thread("rearm")
  /\ irq_enable' = irq_enable \cup {"RE"}
  /\ call' = NoCall
  /\ UNCHANGED <<txVars, rxVars, clkVars, ptr, isr, hostVars>>

-----------------------------------------------------------------------------
(* altera_avalon_jtag_uart_close, when it waits, and _ioctl, when it sets.  *)

Close ==
  /\ Thread("idle") /\ tx_out # tx_in /\ ~Inactive
  /\ call' = [NoCall EXCEPT !.pc = "close"]
  /\ UNCHANGED <<txVars, rxVars, irq_enable, clkVars, ptr, isr, hostVars>>

Closed ==
  /\ Thread("close") /\ (tx_out = tx_in \/ Inactive)
  /\ call' = NoCall
  /\ UNCHANGED <<txVars, rxVars, irq_enable, clkVars, ptr, isr, hostVars>>

(* TIOCSTIMEOUT; without an alarm it is refused. *)
SetTimeout ==
  /\ Thread("idle") /\ timeout # IntMax
  /\ \E t \in 0 .. IntMax :
       timeout' = IF t >= 2 /\ t < IntMax THEN t ELSE IntMax - 1
  /\ UNCHANGED <<txVars, rxVars, irq_enable, host_inactive, call, ptr, isr, hostVars>>

-----------------------------------------------------------------------------
(* altera_avalon_jtag_uart_irq. *)

RI == "RE" \in irq_enable /\ rxFifo # <<>>
WI == "WE" \in irq_enable /\ Len(txFifo) <= WriteThreshold

Interrupt ==
  /\ isr.pc = "off" /\ (RI \/ WI)
  /\ isr' = [isr EXCEPT !.pc = "control"]
  /\ UNCHANGED <<txVars, rxVars, irq_enable, clkVars, call, ptr, hostVars>>

(* A turn of the loop begins by reading the control word. *)
Control ==
  /\ isr.pc = "control"
  /\ isr' = IF RI \/ WI
            THEN [pc |-> IF RI THEN "receive" ELSE "send", wi |-> WI,
                  space |-> IF WI THEN WriteDepth - Len(txFifo) ELSE 0]
            ELSE NoIsr
  /\ UNCHANGED <<txVars, rxVars, irq_enable, clkVars, call, ptr, hostVars>>

(* "receive": the last data word, if any, said that more were available.    *)
Receiving == isr.pc \in {"receive", "received"}

(* Mutant of RingFull: the ring is never full. *)
RingNeverFull == FALSE

RingFull == Bump(rx_in, 1) = rx_out

(* One character from the hardware into the ring. *)
ReceiveChar ==
  /\ Receiving /\ ~RingFull /\ rxFifo # <<>>
  /\ rx_buf' = [rx_buf EXCEPT ![rx_in] = Head(rxFifo)]
  /\ rx_in' = Bump(rx_in, 1)
  /\ rxFifo' = Tail(rxFifo)
  /\ isr' = [isr EXCEPT !.pc = IF Len(rxFifo) > 1 THEN "receive" ELSE "received"]
  /\ UNCHANGED <<txVars, rx_out, irq_enable, clkVars, call, ptr,
                 txFifo, present, heard, got>>

(* The ring is full or nothing is left; in the first case receive           *)
(* interrupts go off until read() makes room.                               *)
StopReceiving ==
  /\ Receiving /\ (RingFull \/ rxFifo = <<>>)
  /\ irq_enable' = IF RingFull /\ isr.pc = "receive" THEN irq_enable \ {"RE"} ELSE irq_enable
  /\ isr' = [isr EXCEPT !.pc = IF isr.wi THEN "send" ELSE "control"]
  /\ UNCHANGED <<txVars, rxVars, clkVars, call, ptr, hostVars>>

(* Mutant of Send: write interrupts go off with characters left. *)
SendOnce ==
  /\ isr.pc = "send"
  /\ LET ring == Ring(tx_buf, tx_out, tx_in)
         k    == Least(isr.space, Len(ring))
     IN  /\ txFifo' = txFifo \o SubSeq(ring, 1, k)
         /\ tx_out' = Bump(tx_out, k)
  /\ irq_enable' = irq_enable \ {"WE"}
  /\ isr' = [isr EXCEPT !.pc = "control"]
  /\ UNCHANGED <<tx_in, tx_buf, rxVars, clkVars, call, ptr, rxFifo, present, heard, got>>

(* As many characters as fit; with room to spare there were no more, and    *)
(* write interrupts go off until write() brings some.                       *)
Send ==
  /\ isr.pc = "send"
  /\ LET ring == Ring(tx_buf, tx_out, tx_in)
         k    == Least(isr.space, Len(ring))
     IN  /\ txFifo' = txFifo \o SubSeq(ring, 1, k)
         /\ tx_out' = Bump(tx_out, k)
         /\ irq_enable' = IF isr.space > k THEN irq_enable \ {"WE"} ELSE irq_enable
  /\ isr' = [isr EXCEPT !.pc = "control"]
  /\ UNCHANGED <<tx_in, tx_buf, rxVars, clkVars, call, ptr, rxFifo, present, heard, got>>

(* altera_avalon_jtag_uart_timeout, every second once the alarm is started. *)
Tick ==
  /\ isr.pc = "off" /\ timeout # IntMax
  /\ host_inactive' = IF present THEN 0
                      ELSE IF host_inactive < IntMax - 2 THEN host_inactive + 1
                      ELSE host_inactive
  /\ UNCHANGED <<txVars, rxVars, irq_enable, timeout, call, ptr, isr, hostVars>>

-----------------------------------------------------------------------------
(* The terminal. *)

HostReads ==
  /\ present /\ txFifo # <<>>
  /\ heard' = Head(txFifo)
  /\ txFifo' = Tail(txFifo)
  /\ UNCHANGED <<txVars, rxVars, irq_enable, clkVars, call, ptr, isr, rxFifo, present, got>>

(* The characters on their way to the terminal and to the program.          *)
OutChan == txFifo \o Ring(tx_buf, tx_out, tx_in)
InChan  == Ring(rx_buf, rx_out, rx_in) \o rxFifo

(* The newest character typed. *)
Typed == IF InChan = <<>> THEN got ELSE InChan[Len(InChan)]

HostTypes ==
  /\ present /\ Len(rxFifo) < ReadDepth
  /\ rxFifo' = Append(rxFifo, (Typed + 1) % InChars)
  /\ UNCHANGED <<txVars, rxVars, irq_enable, clkVars, call, ptr, isr,
                 txFifo, present, heard, got>>

ComeAndGo ==
  /\ present' = ~present
  /\ UNCHANGED <<txVars, rxVars, irq_enable, clkVars, call, ptr, isr,
                 txFifo, rxFifo, heard, got>>

-----------------------------------------------------------------------------
Calls == Write \/ Read \/ Close \/ SetTimeout

Running ==
  \/ Copy \/ Publish \/ Full \/ Kick \/ Spin
  \/ Take \/ Release \/ Empty \/ Await \/ Rearm \/ Closed

Isr == Interrupt \/ Control \/ ReceiveChar \/ StopReceiving \/ Send

Next == Calls \/ Running \/ Isr \/ Tick \/ HostReads \/ HostTypes \/ ComeAndGo

(* The processor goes on with whatever it is in, the alarm goes off every   *)
(* second, and a terminal that is there again and again reads what there    *)
(* is.  Nobody has to call the driver, to type, to come or to go.           *)
Fairness == WF_vars(Running) /\ WF_vars(Isr) /\ WF_vars(Tick) /\ SF_vars(HostReads)

Spec == Init /\ [][Next]_vars /\ Fairness

-----------------------------------------------------------------------------
(* Correctness. *)

TypeOK ==
  /\ tx_in \in Slot /\ tx_out \in Slot /\ tx_buf \in [Slot -> OutChar]
  /\ rx_in \in Slot /\ rx_out \in Slot /\ rx_buf \in [Slot -> InChar]
  /\ irq_enable \subseteq {"RE", "WE"}
  /\ timeout \in 2 .. IntMax /\ host_inactive \in 0 .. IntMax - 2
  /\ call \in [pc : {"idle", "fill", "publish", "kick", "spin",
                    "take", "release", "await", "rearm", "close"},
              nonblock : BOOLEAN, count : Nat, n : 0 .. BufLen - 1, seen : Slot,
              buffer : Seq(InChar)]
  /\ ptr \in OutChar
  /\ isr \in [pc : {"off", "control", "receive", "received", "send"},
             wi : BOOLEAN, space : 0 .. WriteDepth]
  /\ txFifo \in Seq(OutChar) /\ Len(txFifo) <= WriteDepth
  /\ rxFifo \in Seq(InChar) /\ Len(rxFifo) <= ReadDepth
  /\ present \in BOOLEAN /\ heard \in OutChar /\ got \in InChar

(***************************************************************************)
(* No wake-up is lost.  The routine turns its own interrupts off, the      *)
(* calls turn them on after they changed the ring, and neither looks at    *)
(* what the other is about to do: with characters in the transmit ring     *)
(* write interrupts are on, unless a write is yet to kick the routine      *)
(* (write.c:137); with read interrupts off the receive ring has            *)
(* characters, unless a read is yet to turn them on (read.c:188).          *)
(***************************************************************************)
Armed ==
  /\ tx_in # tx_out => "WE" \in irq_enable \/ call.pc \in {"fill", "publish", "kick"}
  /\ "RE" \notin irq_enable =>
       \/ rx_in # rx_out
       \/ call.pc = "rearm" \/ (call.pc = "take" /\ call.n > 0)

(***************************************************************************)
(* The rings are shared without locks: write() moves tx_in, the routine    *)
(* tx_out, each from its own reading of the other (write.c:106).  For the   *)
(* terminal it is one stream: every character main.c printed, once and in  *)
(* order, whatever short counts the calls returned.                        *)
(***************************************************************************)
Out == INSTANCE CharStream WITH
  Capacity <- BufLen - 1 + WriteDepth, Chars <- OutChars,
  chan <- OutChan,
  last <- heard

OutputInOrder == Out!Spec

(* The same for the characters typed at the terminal (init.c:132,          *)
(* read.c:122), where read() must not let a slot be filled again before it *)
(* has copied it.                                                          *)
In == INSTANCE CharStream WITH
  Capacity <- BufLen - 1 + ReadDepth, Chars <- InChars,
  chan <- InChan,
  last <- got

InputInOrder == In!Spec

(***************************************************************************)
(* What is printed is shown: while characters are under way and a terminal *)
(* is there again and again, the next one comes out.                       *)
(***************************************************************************)
OutputMoves ==
  <>[]~present \/ \A c \in OutChar : (heard = c /\ OutChan # <<>>) ~> heard # c

(***************************************************************************)
(* A printf of main.c comes back, and with it the polling of the keyboard, *)
(* unless the terminal is gone for good and the driver knows no time-out:  *)
(* the system has no clock to start the alarm with (system.h:              *)
(* ALT_SYS_CLK none), and init.c:95 then waits for the terminal for ever.  *)
(***************************************************************************)
Writing == call.pc \in {"fill", "publish", "kick", "spin", "close"}

WriteReturns ==
  <>[](~present /\ timeout >= IntMax - 1) \/ (Writing ~> ~Writing)

(* A read that waits for characters gets those that were typed, although   *)
(* the routine turned its interrupts off when the ring was full            *)
(* (init.c:156).                                                           *)
ReadReturns == (call.pc = "await" /\ InChan # <<>>) ~> call.pc # "await"

=============================================================================
