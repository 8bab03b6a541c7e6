--------------------------- MODULE JtagUart_proofs ---------------------------
(***************************************************************************)
(* Proofs about the console, for rings and hardware of every size: the     *)
(* indices and the interrupts first, then the stream that is printed and   *)
(* the one that is typed.                                                  *)
(***************************************************************************)
EXTENDS JtagUart, SequenceTheorems, TLAPS

-----------------------------------------------------------------------------
(* Counting round the ring. *)

Used(end, first) == (end - first) % BufLen

LEMMA UsedIs ==
  ASSUME NEW end \in Slot, NEW first \in Slot
  PROVE  /\ end >= first => Used(end, first) = end - first
         /\ end < first => Used(end, first) = end - first + BufLen
         /\ Used(end, first) \in 0 .. BufLen - 1
  BY JtagAssumption DEF Used, Slot

LEMMA BumpIs ==
  ASSUME NEW i \in Slot, NEW k \in 0 .. BufLen
  PROVE  /\ i + k < BufLen => Bump(i, k) = i + k
         /\ i + k >= BufLen => Bump(i, k) = i + k - BufLen
         /\ Bump(i, k) \in Slot
  BY JtagAssumption DEF Bump, Slot

LEMMA NumberedIs ==
  ASSUME NEW x \in Int
  PROVE  x % OutChars \in OutChar /\ x % InChars \in InChar
  BY JtagAssumption DEF OutChar, InChar

LEMMA RingsAre ==
  ASSUME NEW S, NEW buf \in [Slot -> S]
  PROVE  \A f, e \in Slot :
           /\ Ring(buf, f, e) \in Seq(S)
           /\ Len(Ring(buf, f, e)) = Used(e, f)
           /\ Used(e, f) \in 0 .. BufLen - 1
           /\ \A i \in 1 .. Used(e, f) : Ring(buf, f, e)[i] = buf[Bump(f, i - 1)]
<1> SUFFICES ASSUME NEW first \in Slot, NEW end \in Slot
             PROVE  /\ Ring(buf, first, end) \in Seq(S)
                    /\ Len(Ring(buf, first, end)) = Used(end, first)
                    /\ Used(end, first) \in 0 .. BufLen - 1
                    /\ \A i \in 1 .. Used(end, first) :
                         Ring(buf, first, end)[i] = buf[Bump(first, i - 1)]
  OBVIOUS
<1>1. Used(end, first) \in 0 .. BufLen - 1
  BY UsedIs
<1>2. \A i \in 1 .. Used(end, first) : Bump(first, i - 1) \in Slot
  BY <1>1, BumpIs, JtagAssumption
<1>3. Ring(buf, first, end) = [i \in 1 .. Used(end, first) |-> buf[Bump(first, i - 1)]]
  BY DEF Ring, Used
<1>4. \A i \in 1 .. Used(end, first) : buf[Bump(first, i - 1)] \in S
  BY <1>2
<1>5. QED
  BY <1>1, <1>3, <1>4

LEMMA RingIs ==
  ASSUME NEW S, NEW buf \in [Slot -> S], NEW first \in Slot, NEW end \in Slot
  PROVE  /\ Ring(buf, first, end) \in Seq(S)
         /\ Len(Ring(buf, first, end)) = Used(end, first)
         /\ Used(end, first) \in 0 .. BufLen - 1
         /\ \A i \in 1 .. Used(end, first) :
              Ring(buf, first, end)[i] = buf[Bump(first, i - 1)]
<1>1. \A f, e \in Slot :
        /\ Ring(buf, f, e) \in Seq(S)
        /\ Len(Ring(buf, f, e)) = Used(e, f)
        /\ Used(e, f) \in 0 .. BufLen - 1
        /\ \A i \in 1 .. Used(e, f) : Ring(buf, f, e)[i] = buf[Bump(f, i - 1)]
  BY ONLY buf \in [Slot -> S], RingsAre
<1>2. QED
  BY ONLY <1>1, first \in Slot, end \in Slot, Zenon

(* Past k characters, the ring holds the rest. *)
LEMMA RingEmpties ==
  ASSUME NEW first \in Slot, NEW end \in Slot, NEW k \in 0 .. Used(end, first)
  PROVE  /\ Bump(first, k) \in Slot
         /\ Used(end, Bump(first, k)) = Used(end, first) - k
<1>1. Used(end, first) \in 0 .. BufLen - 1
  BY UsedIs
<1>2. Bump(first, k) \in Slot
  BY <1>1, BumpIs, JtagAssumption
<1>3. /\ end >= Bump(first, k) => Used(end, Bump(first, k)) = end - Bump(first, k)
      /\ end < Bump(first, k) => Used(end, Bump(first, k)) = end - Bump(first, k) + BufLen
  BY <1>2, UsedIs
<1>4. /\ end >= first => Used(end, first) = end - first
      /\ end < first => Used(end, first) = end - first + BufLen
  BY UsedIs
<1>5. /\ first + k < BufLen => Bump(first, k) = first + k
      /\ first + k >= BufLen => Bump(first, k) = first + k - BufLen
  BY <1>1, BumpIs, JtagAssumption
<1>6. QED
  BY <1>1, <1>2, <1>3, <1>4, <1>5, JtagAssumption DEF Slot

LEMMA RingFills ==
  ASSUME NEW first \in Slot, NEW end \in Slot, NEW k \in Nat,
         Used(end, first) + k <= BufLen - 1
  PROVE  /\ Bump(end, k) \in Slot
         /\ Used(Bump(end, k), first) = Used(end, first) + k
<1>1. Used(end, first) \in 0 .. BufLen - 1
  BY UsedIs
<1>2. k \in 0 .. BufLen
  BY <1>1, JtagAssumption
<1>3. Bump(end, k) \in Slot
  BY <1>2, BumpIs, JtagAssumption
<1>4. /\ Bump(end, k) >= first => Used(Bump(end, k), first) = Bump(end, k) - first
      /\ Bump(end, k) < first => Used(Bump(end, k), first) = Bump(end, k) - first + BufLen
  BY <1>3, UsedIs
<1>5. /\ end >= first => Used(end, first) = end - first
      /\ end < first => Used(end, first) = end - first + BufLen
  BY UsedIs
<1>6. /\ end + k < BufLen => Bump(end, k) = end + k
      /\ end + k >= BufLen => Bump(end, k) = end + k - BufLen
  BY <1>2, BumpIs
<1>7. QED
  BY <1>1, <1>3, <1>4, <1>5, <1>6, JtagAssumption DEF Slot

LEMMA RingEmpty ==
  ASSUME NEW end \in Slot, NEW first \in Slot, Used(end, first) = 0
  PROVE  end = first
<1>1. /\ end >= first => Used(end, first) = end - first
      /\ end < first => Used(end, first) = end - first + BufLen
  BY UsedIs
<1>2. QED
  BY <1>1, JtagAssumption DEF Slot

LEMMA RingTurns ==
  ASSUME NEW i \in Slot
  PROVE  Bump(i, 1) # i
<1>1. /\ i + 1 < BufLen => Bump(i, 1) = i + 1
      /\ i + 1 >= BufLen => Bump(i, 1) = i + 1 - BufLen
  BY BumpIs, JtagAssumption
<1>2. QED
  BY <1>1, JtagAssumption DEF Slot

(* What write() may copy in one piece fits and does not wrap. *)
LEMMA RoomFits ==
  ASSUME tx_in \in Slot, tx_out \in Slot, NEW n \in 1 .. Room
  PROVE  tx_in + n <= BufLen /\ Used(tx_in, tx_out) + n <= BufLen - 1
  BY UsedIs, JtagAssumption DEF Room, Slot

LEMMA RoomIs ==
  ASSUME tx_in \in Slot, tx_out \in Slot
  PROVE  Room \in 0 .. BufLen - 1
  BY JtagAssumption DEF Room, Slot

(* What read() may copy in one piece does not wrap. *)
LEMMA ReadyIs ==
  ASSUME rx_in \in Slot, rx_out \in Slot
  PROVE  /\ Ready \in 0 .. BufLen /\ rx_out + Ready <= BufLen
         /\ Ready <= Used(rx_in, rx_out)
         /\ Ready = 0 <=> rx_in = rx_out
  BY UsedIs, JtagAssumption DEF Ready, Slot

-----------------------------------------------------------------------------
(* The types, in parts. *)

TxTypes ==
  /\ tx_in \in Slot /\ tx_out \in Slot /\ tx_buf \in [Slot -> OutChar]
  /\ ptr \in OutChar /\ heard \in OutChar
  /\ txFifo \in Seq(OutChar) /\ Len(txFifo) <= WriteDepth

RxTypes ==
  /\ rx_in \in Slot /\ rx_out \in Slot /\ rx_buf \in [Slot -> InChar]
  /\ got \in InChar
  /\ rxFifo \in Seq(InChar) /\ Len(rxFifo) <= ReadDepth

ClockTypes ==
  /\ timeout \in 2 .. IntMax /\ host_inactive \in 0 .. IntMax - 2
  /\ irq_enable \subseteq {"RE", "WE"}

CallTypes ==
  call \in [pc : {"idle", "fill", "publish", "kick", "spin",
                  "take", "release", "await", "rearm", "close"},
            nonblock : BOOLEAN, count : Nat, n : 0 .. BufLen - 1, seen : Slot,
            buffer : Seq(InChar)]

IsrTypes ==
  isr \in [pc : {"off", "control", "receive", "received", "send"},
           wi : BOOLEAN, space : 0 .. WriteDepth]

LEMMA Types ==
  TypeOK <=> /\ TxTypes /\ RxTypes /\ ClockTypes /\ CallTypes /\ IsrTypes
             /\ present \in BOOLEAN
  BY DEF TypeOK, TxTypes, RxTypes, ClockTypes, CallTypes, IsrTypes

(* What a call under way knows of the rings. *)
CallInv ==
  /\ call.pc = "publish" =>
       tx_in + call.n <= BufLen /\ Used(tx_in, tx_out) + call.n <= BufLen - 1
  /\ call.pc \in {"take", "await"} => call.count > 0
  /\ call.pc = "release" => call.n > 0 /\ Len(call.buffer) = call.n

(* The room the routine saw is still there: only the terminal reads. *)
IsrInv ==
  isr.pc \in {"receive", "received", "send"} => isr.space + Len(txFifo) <= WriteDepth

Sound == TypeOK /\ CallInv /\ IsrInv

USE DEF txVars, rxVars, clkVars, hostVars, Thread

(* What the actions leave alone. *)
LEMMA Frames ==
  ASSUME [Next]_vars
  PROVE  /\ UNCHANGED <<txVars, ptr, txFifo, heard>> \/ Copy \/ Publish \/ Send \/ HostReads
         /\ UNCHANGED <<rxVars, got, rxFifo>> \/ Release \/ ReceiveChar \/ HostTypes
         /\ UNCHANGED <<clkVars>> \/ SetTimeout \/ Tick
         /\ UNCHANGED irq_enable \/ Kick \/ Rearm \/ StopReceiving \/ Send
         /\ UNCHANGED call \/ Calls \/ Running
         /\ UNCHANGED isr \/ Isr
         /\ UNCHANGED present \/ ComeAndGo
<1>1. CASE Calls
  BY <1>1 DEF Calls, Enter, Write, Read, Close, SetTimeout
<1>2. CASE Running
  BY <1>2 DEF Running, Copy, Publish, Full, Kick, Spin, Take, Release, Empty, Await,
     Rearm, Closed
<1>3. CASE Isr
  BY <1>3 DEF Isr, Interrupt, Control, ReceiveChar, StopReceiving, Send
<1>4. CASE Tick \/ HostReads \/ HostTypes \/ ComeAndGo
  BY <1>4 DEF Tick, HostReads, HostTypes, ComeAndGo
<1>5. CASE UNCHANGED vars
  BY <1>5 DEF vars
<1>6. QED
  BY <1>1, <1>2, <1>3, <1>4, <1>5 DEF Next

LEMMA LeastIs ==
  ASSUME NEW a \in Nat, NEW b \in Nat
  PROVE  Least(a, b) \in Nat /\ Least(a, b) <= a /\ Least(a, b) <= b
         /\ (a > 0 /\ b > 0 => Least(a, b) > 0)
         /\ (Least(a, b) = a \/ Least(a, b) = b)
  BY DEF Least

LEMMA Fields ==
  ASSUME Sound
  PROVE  /\ call.n \in 0 .. BufLen - 1 /\ call.count \in Nat /\ call.seen \in Slot
         /\ call.buffer \in Seq(InChar)
         /\ isr.space \in 0 .. WriteDepth
         /\ tx_in \in Slot /\ tx_out \in Slot /\ rx_in \in Slot /\ rx_out \in Slot
<1>1. CallTypes /\ IsrTypes /\ TxTypes /\ RxTypes
  BY Types DEF Sound
<1>2. QED
  BY <1>1 DEF CallTypes, IsrTypes, TxTypes, RxTypes

(* How many characters a copy takes. *)
LEMMA CopyCount ==
  ASSUME Sound, Copy
  PROVE  /\ Least(Room, call.count) \in 1 .. Room
         /\ Least(Room, call.count) \in 1 .. BufLen - 1
         /\ Least(Room, call.count) <= call.count
<1>1. Room \in 0 .. BufLen - 1 /\ call.count \in Nat
  BY Fields, RoomIs
<1>2. Room > 0 /\ call.count > 0
  BY DEF Copy
<1>3. QED
  BY <1>1, <1>2, JtagAssumption DEF Least

LEMMA TakeCount ==
  ASSUME Sound, Take
  PROVE  /\ Least(Ready, call.count) \in 1 .. BufLen - 1
         /\ Least(Ready, call.count) <= call.count
         /\ rx_out + Least(Ready, call.count) <= BufLen
<1>1. /\ Ready \in 0 .. BufLen /\ rx_out + Ready <= BufLen
      /\ Ready <= Used(rx_in, rx_out) /\ Used(rx_in, rx_out) \in 0 .. BufLen - 1
  BY Fields, ReadyIs, UsedIs
<1>2. Ready > 0 /\ call.count > 0
  BY DEF Take, Sound, CallInv
<1>4. call.count \in Nat /\ rx_out \in Nat
  BY Fields, JtagAssumption DEF Slot
<1>3. QED
  BY <1>1, <1>2, <1>4, JtagAssumption DEF Least

(* What the routine sends. *)
LEMMA SendCount ==
  ASSUME Sound, Send
  PROVE  LET k == Least(isr.space, Len(Ring(tx_buf, tx_out, tx_in)))
         IN  /\ k \in 0 .. Used(tx_in, tx_out)
             /\ k <= isr.space
             /\ isr.space > k => k = Used(tx_in, tx_out)
             /\ Len(Ring(tx_buf, tx_out, tx_in)) = Used(tx_in, tx_out)
             /\ Ring(tx_buf, tx_out, tx_in) \in Seq(OutChar)
             /\ Bump(tx_out, k) \in Slot
             /\ Used(tx_in, Bump(tx_out, k)) = Used(tx_in, tx_out) - k
<1>1. tx_buf \in [Slot -> OutChar] /\ tx_out \in Slot /\ tx_in \in Slot /\ isr.space \in Nat
  BY Fields, Types, JtagAssumption DEF Sound, TxTypes
<1>2. /\ Len(Ring(tx_buf, tx_out, tx_in)) = Used(tx_in, tx_out)
      /\ Ring(tx_buf, tx_out, tx_in) \in Seq(OutChar)
      /\ Used(tx_in, tx_out) \in 0 .. BufLen - 1
  BY <1>1, RingIs
<1>3. LET k == Least(isr.space, Len(Ring(tx_buf, tx_out, tx_in)))
      IN  /\ k \in 0 .. Used(tx_in, tx_out)
          /\ k <= isr.space
          /\ isr.space > k => k = Used(tx_in, tx_out)
  BY <1>1, <1>2, JtagAssumption DEF Least
<1>4. QED
  BY <1>1, <1>2, <1>3, RingEmpties

LEMMA TxStep ==
  ASSUME Sound, [Next]_vars
  PROVE  TxTypes'
<1>1. TxTypes
  BY Types DEF Sound
<1>2. CASE UNCHANGED <<txVars, ptr, txFifo, heard>>
  BY <1>1, <1>2 DEF TxTypes
<1>3. CASE Copy
  <2>1. tx_buf' \in [Slot -> OutChar]
    BY <1>1, <1>3, NumberedIs DEF Copy, TxTypes, Slot, OutChar
  <2>2. ptr' \in OutChar
    BY <1>1, <1>3, NumberedIs, CopyCount DEF Copy, TxTypes, OutChar
  <2>3. QED
    BY <1>1, <1>3, <2>1, <2>2 DEF Copy, TxTypes
<1>4. CASE Publish
  <2>1. call.n \in 0 .. BufLen
    BY Fields, JtagAssumption
  <2>2. Bump(tx_in, call.n) \in Slot
    BY <1>1, <2>1, BumpIs DEF TxTypes
  <2>3. QED
    BY <1>1, <1>4, <2>2 DEF Publish, TxTypes
<1>5. CASE Send
  <2> DEFINE ring == Ring(tx_buf, tx_out, tx_in)
             k    == Least(isr.space, Len(ring))
  <2>1. /\ k \in 0 .. Len(ring) /\ ring \in Seq(OutChar) /\ Bump(tx_out, k) \in Slot
        /\ k <= isr.space
    BY <1>5, SendCount
  <2>2. isr.space + Len(txFifo) <= WriteDepth /\ isr.space \in Nat
    BY <1>5 DEF Sound, IsrInv, Send, TypeOK
  <2>3. txFifo' = txFifo \o SubSeq(ring, 1, k) /\ tx_out' = Bump(tx_out, k)
    BY <1>5 DEF Send
  <2> HIDE DEF ring, k
  <2>4. SubSeq(ring, 1, k) \in Seq(OutChar) /\ Len(SubSeq(ring, 1, k)) = k
    BY <2>1
  <2>5. txFifo' \in Seq(OutChar) /\ Len(txFifo') = Len(txFifo) + k
    BY <1>1, <2>3, <2>4 DEF TxTypes
  <2>6. Len(txFifo') <= WriteDepth
    BY <1>1, <2>1, <2>2, <2>5, JtagAssumption DEF TxTypes
  <2>7. QED
    BY <1>1, <1>5, <2>1, <2>3, <2>5, <2>6 DEF TxTypes, Send
<1>6. CASE HostReads
  <2>1. txFifo \in Seq(OutChar) /\ txFifo # <<>>
    BY <1>1, <1>6 DEF TxTypes, HostReads
  <2>2. /\ Head(txFifo) \in OutChar /\ Tail(txFifo) \in Seq(OutChar)
        /\ Len(Tail(txFifo)) = Len(txFifo) - 1
    BY <2>1, HeadTailProperties
  <2>3. Len(Tail(txFifo)) <= WriteDepth
    BY <1>1, <2>1, <2>2, JtagAssumption DEF TxTypes
  <2>4. QED
    BY <1>1, <1>6, <2>2, <2>3 DEF TxTypes, HostReads
<1>7. QED
  BY <1>2, <1>3, <1>4, <1>5, <1>6, Frames

LEMMA RxStep ==
  ASSUME Sound, [Next]_vars
  PROVE  RxTypes'
<1>1. RxTypes
  BY Types DEF Sound
<1>2. CASE UNCHANGED <<rxVars, got, rxFifo>>
  BY <1>1, <1>2 DEF RxTypes
<1>3. CASE Release
  <2>1. Bump(rx_out, call.n) \in Slot
    BY Fields, BumpIs, JtagAssumption
  <2>2. call.buffer[call.n] \in InChar
    <3>1. call.pc = "release"
      BY <1>3 DEF Release
    <3>2. QED
      BY <3>1, Fields, JtagAssumption DEF Sound, CallInv
  <2>3. QED
    BY <1>1, <1>3, <2>1, <2>2 DEF Release, RxTypes
<1>4. CASE ReceiveChar
  <2>1. rxFifo \in Seq(InChar) /\ rxFifo # <<>>
    BY <1>1, <1>4 DEF RxTypes, ReceiveChar
  <2>2. /\ Head(rxFifo) \in InChar /\ Tail(rxFifo) \in Seq(InChar)
        /\ Len(Tail(rxFifo)) = Len(rxFifo) - 1
    BY <2>1, HeadTailProperties
  <2>3. Len(Tail(rxFifo)) <= ReadDepth
    BY <1>1, <2>1, <2>2, JtagAssumption DEF RxTypes
  <2>4. Bump(rx_in, 1) \in Slot
    BY Fields, BumpIs, JtagAssumption
  <2>5. QED
    BY <1>1, <1>4, <2>2, <2>3, <2>4 DEF ReceiveChar, RxTypes
<1>5. CASE HostTypes
  <2>1. Typed \in Int
    <3>1. Ring(rx_buf, rx_out, rx_in) \in Seq(InChar) /\ rxFifo \in Seq(InChar) /\ got \in InChar
      BY <1>1, RingIs DEF RxTypes
    <3>2. InChan \in Seq(InChar)
      BY <3>1 DEF InChan
    <3>3. InChan # <<>> => InChan[Len(InChan)] \in InChar
      BY <3>2
    <3>4. QED
      BY <3>1, <3>3, JtagAssumption DEF Typed, InChar
  <2>2. (Typed + 1) % InChars \in InChar
    BY <2>1, NumberedIs
  <2>3. rxFifo' = Append(rxFifo, (Typed + 1) % InChars)
    BY <1>5 DEF HostTypes
  <2>4. rxFifo' \in Seq(InChar) /\ Len(rxFifo') = Len(rxFifo) + 1
    BY <1>1, <2>2, <2>3 DEF RxTypes
  <2>5. Len(rxFifo') <= ReadDepth
    BY <1>1, <1>5, <2>4, JtagAssumption DEF RxTypes, HostTypes
  <2>6. QED
    BY <1>1, <1>5, <2>4, <2>5 DEF HostTypes, RxTypes
<1>6. QED
  BY <1>2, <1>3, <1>4, <1>5, Frames

LEMMA ClockStep ==
  ASSUME Sound, [Next]_vars
  PROVE  ClockTypes'
<1>1. ClockTypes
  BY Types DEF Sound
<1>2. irq_enable' \subseteq {"RE", "WE"}
  <2>1. CASE UNCHANGED irq_enable
    BY <1>1, <2>1 DEF ClockTypes
  <2>2. CASE Kick \/ Rearm \/ StopReceiving \/ Send
    BY <1>1, <2>2 DEF ClockTypes, Kick, Rearm, StopReceiving, Send
  <2>3. QED
    BY <2>1, <2>2, Frames
<1>3. timeout' \in 2 .. IntMax /\ host_inactive' \in 0 .. IntMax - 2
  <2>1. CASE UNCHANGED <<clkVars>>
    BY <1>1, <2>1 DEF ClockTypes
  <2>2. CASE SetTimeout
    BY <1>1, <2>2, JtagAssumption DEF ClockTypes, SetTimeout
  <2>3. CASE Tick
    BY <1>1, <2>3, JtagAssumption DEF ClockTypes, Tick
  <2>4. QED
    BY <2>1, <2>2, <2>3, Frames
<1>4. QED
  BY <1>2, <1>3 DEF ClockTypes

LEMMA CallStep ==
  ASSUME Sound, [Next]_vars
  PROVE  CallTypes'
<1>1. CallTypes
  BY Types DEF Sound
<1>2. NoCall \in [pc : {"idle"}, nonblock : BOOLEAN, count : Nat, n : 0 .. BufLen - 1,
                  seen : Slot, buffer : Seq(InChar)]
  BY JtagAssumption DEF NoCall, Slot
<1>3. CASE UNCHANGED call
  BY <1>1, <1>3 DEF CallTypes
<1>4. CASE Write
  <2>1. PICK count \in 1 .. MaxWrite, nonblock \in BOOLEAN :
          call' = [NoCall EXCEPT !.pc = "fill", !.count = count, !.nonblock = nonblock]
    BY <1>4 DEF Write, Enter
  <2>2. count \in Nat
    BY JtagAssumption
  <2>3. QED
    BY <1>2, <2>1, <2>2 DEF CallTypes
<1>5. CASE Read
  <2>1. PICK count \in 1 .. MaxRead, nonblock \in BOOLEAN :
          call' = [NoCall EXCEPT !.pc = "take", !.count = count, !.nonblock = nonblock]
    BY <1>5 DEF Read, Enter
  <2>2. count \in Nat
    BY JtagAssumption
  <2>3. QED
    BY <1>2, <2>1, <2>2 DEF CallTypes
<1>6. CASE Close
  BY <1>2, <1>6 DEF Close, CallTypes
<1>7. CASE SetTimeout
  BY <1>1, <1>7 DEF SetTimeout, CallTypes
<1>8. CASE Copy
  <2> DEFINE n == Least(Room, call.count)
  <2>1. n \in 0 .. BufLen - 1 /\ call.count - n \in Nat
    BY <1>8, CopyCount, Fields, JtagAssumption
  <2>2. call' = [call EXCEPT !.pc = "publish", !.n = n, !.count = @ - n]
    BY <1>8 DEF Copy
  <2> HIDE DEF n
  <2>3. QED
    BY <1>1, <2>1, <2>2 DEF CallTypes
<1>9. CASE Publish
  <2>1. 0 \in 0 .. BufLen - 1
    BY JtagAssumption
  <2>2. call' = [call EXCEPT !.pc = "fill", !.n = 0]
    BY <1>9 DEF Publish
  <2>3. QED
    BY <1>1, <2>1, <2>2 DEF CallTypes
<1>10. CASE Full
  BY <1>1, <1>10, Fields DEF Full, CallTypes
<1>11. CASE Kick
  BY <1>1, <1>2, <1>11 DEF Kick, CallTypes
<1>12. CASE Spin
  BY <1>1, <1>2, <1>12 DEF Spin, CallTypes
<1>13. CASE Take
  <2> DEFINE n == Least(Ready, call.count)
             copied == [i \in 1 .. n |-> rx_buf[rx_out + i - 1]]
  <2>1. n \in 1 .. BufLen - 1 /\ call.count - n \in Nat /\ rx_out + n <= BufLen
    BY <1>13, TakeCount, Fields, JtagAssumption
  <2>2. call' = [call EXCEPT !.pc = "release", !.n = n, !.count = @ - n, !.buffer = copied]
    BY <1>13 DEF Take
  <2>3. rx_buf \in [Slot -> InChar] /\ rx_out \in Slot
    BY Types DEF Sound, RxTypes
  <2> HIDE DEF n
  <2>4. \A i \in 1 .. n : rx_out + i - 1 \in Slot
    BY <2>1, <2>3, JtagAssumption DEF Slot
  <2>5. copied \in Seq(InChar)
    BY <2>1, <2>3, <2>4
  <2> HIDE DEF copied
  <2>6. QED
    <3>1. n \in 0 .. BufLen - 1
      BY <2>1, JtagAssumption
    <3>2. QED
      BY <1>1, <2>1, <2>2, <2>5, <3>1 DEF CallTypes
<1>14. CASE Release
  <2>1. <<>> \in Seq(InChar)
    OBVIOUS
  <2>2. \E place \in {"take", "rearm"} : call' = [call EXCEPT !.pc = place, !.buffer = <<>>]
    BY <1>14 DEF Release
  <2>3. QED
    BY <1>1, <2>1, <2>2 DEF CallTypes
<1>15. CASE Empty
  BY <1>1, <1>2, <1>15, Fields DEF Empty, CallTypes
<1>16. CASE Await
  BY <1>1, <1>2, <1>16 DEF Await, CallTypes
<1>17. CASE Rearm
  BY <1>2, <1>17 DEF Rearm, CallTypes
<1>18. CASE Closed
  BY <1>2, <1>18 DEF Closed, CallTypes
<1>19. QED
  BY <1>3, <1>4, <1>5, <1>6, <1>7, <1>8, <1>9, <1>10, <1>11, <1>12, <1>13, <1>14, <1>15,
     <1>16, <1>17, <1>18, Frames DEF Calls, Running

LEMMA IsrStep ==
  ASSUME Sound, [Next]_vars
  PROVE  IsrTypes' /\ IsrInv'
<1>1. IsrTypes /\ TxTypes /\ IsrInv
  BY Types DEF Sound
<1>2. NoIsr.pc = "off" /\ NoIsr \in [pc : {"off"}, wi : BOOLEAN, space : 0 .. WriteDepth]
  BY JtagAssumption DEF NoIsr
<1>3. Len(txFifo) \in Nat /\ Len(txFifo) <= WriteDepth
  BY <1>1 DEF TxTypes
<1>4. CASE UNCHANGED isr
  <2>1. IsrTypes'
    BY <1>1, <1>4 DEF IsrTypes
  <2>2. CASE UNCHANGED txFifo
    BY <1>1, <1>4, <2>1, <2>2 DEF IsrInv
  <2>3. CASE HostReads
    <3>1. txFifo \in Seq(OutChar) /\ txFifo # <<>> /\ txFifo' = Tail(txFifo)
      BY <1>1, <2>3 DEF TxTypes, HostReads
    <3>2. Len(txFifo') = Len(txFifo) - 1
      BY <3>1, HeadTailProperties
    <3>3. isr.space \in Nat
      BY Fields, JtagAssumption
    <3>4. QED
      BY <1>1, <1>3, <1>4, <2>1, <3>2, <3>3, JtagAssumption DEF IsrInv
  <2>4. ~Send
    BY <1>1, <1>4 DEF Send, IsrTypes
  <2>5. QED
    BY <2>2, <2>3, <2>4, Frames DEF Copy, Publish
<1>5. CASE Interrupt
  BY <1>1, <1>5 DEF Interrupt, IsrTypes, IsrInv
<1>6. CASE Control
  <2>1. CASE ~(RI \/ WI)
    BY <1>2, <1>6, <2>1 DEF Control, IsrTypes, IsrInv
  <2>2. CASE RI \/ WI
    <3> DEFINE room == IF WI THEN WriteDepth - Len(txFifo) ELSE 0
    <3>1. room \in 0 .. WriteDepth /\ room + Len(txFifo) <= WriteDepth /\ txFifo' = txFifo
      BY <1>3, <1>6, JtagAssumption DEF Control
    <3>2. isr' = [pc |-> IF RI THEN "receive" ELSE "send", wi |-> WI, space |-> room]
      BY <1>6, <2>2 DEF Control
    <3>3. WI \in BOOLEAN
      BY DEF WI
    <3> HIDE DEF room
    <3>4. QED
      BY <3>1, <3>2, <3>3 DEF IsrTypes, IsrInv
  <2>3. QED
    BY <2>1, <2>2
<1>7. CASE ReceiveChar
  BY <1>1, <1>7 DEF ReceiveChar, Receiving, IsrTypes, IsrInv
<1>8. CASE StopReceiving
  BY <1>1, <1>8 DEF StopReceiving, Receiving, IsrTypes, IsrInv
<1>9. CASE Send
  BY <1>1, <1>9 DEF Send, IsrTypes, IsrInv
<1>10. QED
  BY <1>4, <1>5, <1>6, <1>7, <1>8, <1>9, Frames DEF Isr

LEMMA CallInvStep ==
  ASSUME Sound, [Next]_vars
  PROVE  CallInv'
<1>1. CallTypes /\ CallInv
  BY Types DEF Sound
<1>2. NoCall.pc = "idle"
  BY DEF NoCall
<1>3. CASE UNCHANGED call
  <2>1. CASE Send
    <3> DEFINE k == Least(isr.space, Len(Ring(tx_buf, tx_out, tx_in)))
    <3>1. k \in Nat /\ Used(tx_in, Bump(tx_out, k)) = Used(tx_in, tx_out) - k
      BY <2>1, SendCount, UsedIs, Fields, JtagAssumption
    <3>2. tx_in' = tx_in /\ tx_out' = Bump(tx_out, k)
      BY <2>1 DEF Send
    <3> HIDE DEF k
    <3>3. Used(tx_in, tx_out)' = Used(tx_in, tx_out) - k
      BY <3>1, <3>2 DEF Used
    <3>4. call.n \in Nat /\ Used(tx_in, tx_out) \in Nat
      BY Fields, UsedIs, JtagAssumption
    <3>5. QED
      BY <1>1, <1>3, <3>1, <3>2, <3>3, <3>4, JtagAssumption DEF CallInv
  <2>2. CASE UNCHANGED <<tx_in, tx_out>>
    BY <1>1, <1>3, <2>2 DEF CallInv, Used
  <2>3. ~Publish
    BY <1>1, <1>3 DEF Publish, CallTypes
  <2>4. QED
    BY <2>1, <2>2, <2>3, Frames DEF Copy, HostReads
<1>4. CASE Write
  BY <1>2, <1>4 DEF Write, Enter, CallInv, NoCall
<1>5. CASE Read
  <2>1. PICK count \in 1 .. MaxRead, nonblock \in BOOLEAN :
          call' = [NoCall EXCEPT !.pc = "take", !.count = count, !.nonblock = nonblock]
    BY <1>5 DEF Read, Enter
  <2>2. call'.pc = "take" /\ call'.count = count
    BY <2>1 DEF NoCall
  <2>3. QED
    BY <2>2, JtagAssumption DEF CallInv
<1>6. CASE Close
  BY <1>6 DEF Close, CallInv, NoCall
<1>7. CASE Copy
  <2> DEFINE n == Least(Room, call.count)
  <2>1. n \in 1 .. Room
    BY <1>7, CopyCount
  <2>2. call'.pc = "publish" /\ call'.n = n /\ tx_in' = tx_in /\ tx_out' = tx_out
    BY <1>1, <1>7 DEF Copy, CallTypes
  <2>3. tx_in + n <= BufLen /\ Used(tx_in, tx_out) + n <= BufLen - 1
    BY <2>1, Fields, RoomFits
  <2> HIDE DEF n
  <2>4. QED
    BY <2>2, <2>3 DEF CallInv, Used
<1>8. CASE Publish
  BY <1>1, <1>8 DEF Publish, CallInv, CallTypes
<1>9. CASE Full
  BY <1>1, <1>9 DEF Full, CallInv, CallTypes
<1>10. CASE Kick \/ Spin \/ Rearm \/ Closed
  BY <1>1, <1>2, <1>10 DEF Kick, Spin, Rearm, Closed, CallInv, CallTypes
<1>11. CASE Take
  <2> DEFINE n == Least(Ready, call.count)
             copied == [i \in 1 .. n |-> rx_buf[rx_out + i - 1]]
  <2>1. n \in 1 .. BufLen - 1
    BY <1>11, TakeCount
  <2>2. call' = [call EXCEPT !.pc = "release", !.n = n, !.count = @ - n, !.buffer = copied]
    BY <1>11 DEF Take
  <2>3. n > 0 /\ Len(copied) = n
    BY <2>1, JtagAssumption
  <2> HIDE DEF n, copied
  <2>4. call'.pc = "release" /\ call'.n = n /\ call'.buffer = copied
    BY <1>1, <2>2 DEF CallTypes
  <2>5. QED
    BY <2>3, <2>4 DEF CallInv
<1>12. CASE Release
  <2>1. /\ call'.pc = IF call.count > 0 THEN "take" ELSE "rearm"
        /\ call'.count = call.count
    BY <1>1, <1>12 DEF Release, CallTypes
  <2>2. QED
    BY <2>1 DEF CallInv
<1>13. CASE Empty
  BY <1>1, <1>2, <1>13 DEF Empty, CallInv, CallTypes
<1>14. CASE Await
  BY <1>1, <1>2, <1>14 DEF Await, CallInv, CallTypes
<1>15. CASE SetTimeout
  BY <1>1, <1>15 DEF SetTimeout, CallInv, Used
<1>16. QED
  BY <1>3, <1>4, <1>5, <1>6, <1>7, <1>8, <1>9, <1>10, <1>11, <1>12, <1>13, <1>14, <1>15,
     Frames DEF Calls, Running

LEMMA SoundInit == Init => Sound
<1> SUFFICES ASSUME Init
             PROVE  Sound
  OBVIOUS
<1>1. TxTypes /\ RxTypes
  BY JtagAssumption DEF Init, TxTypes, RxTypes, Slot, OutChar, InChar
<1>2. ClockTypes /\ CallTypes /\ IsrTypes /\ present \in BOOLEAN
  BY JtagAssumption DEF Init, ClockTypes, CallTypes, IsrTypes, NoCall, NoIsr, Slot
<1>3. CallInv /\ IsrInv
  BY DEF Init, CallInv, IsrInv, NoCall, NoIsr
<1>4. QED
  BY <1>1, <1>2, <1>3, Types DEF Sound

LEMMA SoundStep == Sound /\ [Next]_vars => Sound'
<1> SUFFICES ASSUME Sound, [Next]_vars
             PROVE  Sound'
  OBVIOUS
<1>1. TxTypes' /\ RxTypes' /\ ClockTypes' /\ CallTypes' /\ IsrTypes'
  BY TxStep, RxStep, ClockStep, CallStep, IsrStep
<1>2. present' \in BOOLEAN
  BY Frames, Types DEF Sound, ComeAndGo
<1>3. TypeOK'
  BY <1>1, <1>2 DEF TypeOK, TxTypes, RxTypes, ClockTypes, CallTypes, IsrTypes
<1>4. QED
  BY <1>3, IsrStep, CallInvStep DEF Sound

THEOREM SoundHolds == Spec => []Sound
  BY SoundInit, SoundStep, PTL DEF Spec

(* The rings' indices stay in the rings, the copies stay in front of the    *)
(* other side's index, and the hardware is never given more than it holds.  *)
THEOREM TypeCorrect == Spec => []TypeOK
<1>1. Sound => TypeOK
  BY DEF Sound
<1>2. QED
  BY <1>1, SoundHolds, PTL

-----------------------------------------------------------------------------
(* No wake-up is lost. *)

LEMMA ArmedInit == Init => Armed
  BY DEF Init, Armed

LEMMA ArmedStep ==
  ASSUME Sound, Armed, [Next]_vars
  PROVE  Armed'
<1>1. CallTypes
  BY Types DEF Sound
<1>2. NoCall.pc = "idle"
  BY DEF NoCall
<1>3. tx_in' # tx_out' => "WE" \in irq_enable' \/ call'.pc \in {"fill", "publish", "kick"}
  <2>1. CASE Calls
    BY <1>1, <1>2, <2>1 DEF Calls, Enter, Write, Read, Close, SetTimeout, Armed, NoCall
  <2>2. CASE Running
    BY <1>1, <1>2, <2>2 DEF Running, Copy, Publish, Full, Kick, Spin, Take, Release, Empty,
       Await, Rearm, Closed, Armed, CallTypes
  <2>3. CASE Send
    <3> DEFINE k == Least(isr.space, Len(Ring(tx_buf, tx_out, tx_in)))
    <3>1. /\ isr.space > k => k = Used(tx_in, tx_out)
          /\ Used(tx_in, Bump(tx_out, k)) = Used(tx_in, tx_out) - k
          /\ Bump(tx_out, k) \in Slot /\ k \in 0 .. Used(tx_in, tx_out)
      BY <2>3, SendCount
    <3>2. /\ irq_enable' = IF isr.space > k THEN irq_enable \ {"WE"} ELSE irq_enable
          /\ tx_out' = Bump(tx_out, k) /\ tx_in' = tx_in /\ call' = call
      BY <2>3 DEF Send
    <3> HIDE DEF k
    <3>3. CASE isr.space > k
      <4>1. Used(tx_in, Bump(tx_out, k)) = 0
        BY <3>1, <3>3, Fields, UsedIs, JtagAssumption
      <4>2. tx_in = Bump(tx_out, k)
        BY <3>1, <4>1, Fields, RingEmpty
      <4>3. QED
        BY <3>2, <4>2
    <3>4. CASE ~(isr.space > k)
      <4>1. tx_in = tx_out => tx_in = Bump(tx_out, k)
        <5>1. tx_in = tx_out => Used(tx_in, tx_out) = 0
          BY Fields, UsedIs, JtagAssumption DEF Slot
        <5>2. tx_in = tx_out => k = 0
          BY <3>1, <5>1
        <5>3. Bump(tx_out, 0) = tx_out
          BY Fields, BumpIs, JtagAssumption DEF Slot
        <5>4. QED
          BY <5>2, <5>3
      <4>2. QED
        BY <3>2, <3>4, <4>1 DEF Armed
    <3>5. QED
      BY <3>3, <3>4
  <2>4. CASE Interrupt \/ Control \/ ReceiveChar \/ StopReceiving
    BY <2>4 DEF Interrupt, Control, ReceiveChar, StopReceiving, Armed
  <2>5. CASE Tick \/ HostReads \/ HostTypes \/ ComeAndGo
    BY <2>5 DEF Tick, HostReads, HostTypes, ComeAndGo, Armed
  <2>6. CASE UNCHANGED vars
    BY <2>6 DEF vars, Armed
  <2>7. QED
    BY <2>1, <2>2, <2>3, <2>4, <2>5, <2>6 DEF Next, Isr
<1>4. "RE" \notin irq_enable' =>
        \/ rx_in' # rx_out'
        \/ call'.pc = "rearm" \/ (call'.pc = "take" /\ call'.n > 0)
  <2>1. CASE Calls
    BY <1>1, <1>2, <2>1 DEF Calls, Enter, Write, Read, Close, SetTimeout, Armed, NoCall
  <2>2. CASE Copy \/ Publish \/ Full \/ Kick \/ Spin \/ Await \/ Rearm \/ Closed
    BY <1>1, <1>2, <2>2 DEF Copy, Publish, Full, Kick, Spin, Await, Rearm, Closed, Armed,
       CallTypes
  <2>3. CASE Take
    <3>1. rx_in # rx_out
      BY <2>3, Fields, ReadyIs DEF Take
    <3>2. QED
      BY <2>3, <3>1 DEF Take
  <2>4. CASE Release
    <3>1. call.n > 0 /\ call'.n = call.n /\ call'.pc \in {"take", "rearm"}
      BY <1>1, <2>4 DEF Release, Sound, CallInv, CallTypes
    <3>2. QED
      BY <3>1
  <2>5. CASE Empty
    <3>1. rx_in = rx_out /\ rx_in' = rx_in /\ rx_out' = rx_out /\ irq_enable' = irq_enable
      BY <2>5, Fields, ReadyIs DEF Empty
    <3>2. call.n > 0 => call'.pc = "rearm"
      BY <1>1, <2>5 DEF Empty, CallTypes
    <3>3. QED
      BY <2>5, <3>1, <3>2 DEF Armed, Empty
  <2>6. CASE ReceiveChar
    BY <2>6 DEF ReceiveChar, RingFull
  <2>7. CASE StopReceiving
    <3>1. RingFull => rx_in # rx_out
      BY Fields, RingTurns DEF RingFull
    <3>2. QED
      BY <2>7, <3>1 DEF StopReceiving, Armed
  <2>8. CASE Interrupt \/ Control \/ Send
    BY <2>8 DEF Interrupt, Control, Send, Armed
  <2>9. CASE Tick \/ HostReads \/ HostTypes \/ ComeAndGo
    BY <2>9 DEF Tick, HostReads, HostTypes, ComeAndGo, Armed
  <2>10. CASE UNCHANGED vars
    BY <2>10 DEF vars, Armed
  <2>11. QED
    BY <2>1, <2>2, <2>3, <2>4, <2>5, <2>6, <2>7, <2>8, <2>9, <2>10 DEF Next, Isr, Running
<1>5. QED
  BY <1>3, <1>4 DEF Armed

(* Neither write.c:134 nor read.c:188 loses a wake-up to the routine, for   *)
(* rings, hardware and calls of every size.                                 *)
THEOREM ArmedHolds == Spec => []Armed
<1>1. Sound /\ Armed /\ [Next]_vars => Armed'
  BY ArmedStep
<1>2. QED
  BY <1>1, ArmedInit, SoundHolds, PTL DEF Spec

-----------------------------------------------------------------------------
(* Rings as sequences. *)

LEMMA BumpTwice ==
  ASSUME NEW first \in Slot, NEW j \in Nat, NEW k \in Nat, j + k <= BufLen
  PROVE  Bump(Bump(first, j), k) = Bump(first, j + k)
<1>1. j \in 0 .. BufLen /\ k \in 0 .. BufLen /\ j + k \in 0 .. BufLen
  BY JtagAssumption
<1>2. Bump(first, j) \in Slot
  BY <1>1, BumpIs
<1>3. /\ first + j < BufLen => Bump(first, j) = first + j
      /\ first + j >= BufLen => Bump(first, j) = first + j - BufLen
  BY <1>1, BumpIs
<1>4. /\ first + (j + k) < BufLen => Bump(first, j + k) = first + (j + k)
      /\ first + (j + k) >= BufLen => Bump(first, j + k) = first + (j + k) - BufLen
  BY <1>1, BumpIs
<1>5. /\ Bump(first, j) + k < BufLen => Bump(Bump(first, j), k) = Bump(first, j) + k
      /\ Bump(first, j) + k >= BufLen => Bump(Bump(first, j), k) = Bump(first, j) + k - BufLen
  BY <1>1, <1>2, BumpIs
<1>6. CASE first + j >= BufLen
  BY <1>1, <1>2, <1>3, <1>4, <1>5, <1>6, JtagAssumption DEF Slot
<1>7. CASE first + j < BufLen
  BY <1>1, <1>2, <1>3, <1>4, <1>5, <1>7, JtagAssumption DEF Slot
<1>8. QED
  BY <1>6, <1>7, JtagAssumption DEF Slot

(* The end is as far round as the characters go. *)
LEMMA BumpToEnd ==
  ASSUME NEW first \in Slot, NEW end \in Slot
  PROVE  Bump(first, Used(end, first)) = end
<1>1. Used(end, first) \in 0 .. BufLen
  BY UsedIs, JtagAssumption
<1>2. /\ first + Used(end, first) < BufLen => Bump(first, Used(end, first)) = first + Used(end, first)
      /\ first + Used(end, first) >= BufLen =>
           Bump(first, Used(end, first)) = first + Used(end, first) - BufLen
  BY <1>1, BumpIs
<1>3. /\ end >= first => Used(end, first) = end - first
      /\ end < first => Used(end, first) = end - first + BufLen
  BY UsedIs
<1>4. QED
  BY <1>1, <1>2, <1>3, JtagAssumption DEF Slot

(* A sequence is put together from its pieces. *)
LEMMA Pieces ==
  ASSUME NEW S, NEW a \in Seq(S), NEW b \in Seq(S), NEW c \in Seq(S),
         Len(c) = Len(a) + Len(b),
         \A i \in 1 .. Len(a) : c[i] = a[i],
         \A i \in 1 .. Len(b) : c[Len(a) + i] = b[i]
  PROVE  c = a \o b
<1>1. /\ a \o b \in Seq(S) /\ Len(a \o b) = Len(a) + Len(b)
      /\ \A i \in 1 .. Len(a) + Len(b) :
           (a \o b)[i] = IF i <= Len(a) THEN a[i] ELSE b[i - Len(a)]
  BY ConcatProperties
<1>2. Len(a) \in Nat /\ Len(b) \in Nat
  OBVIOUS
<1>3. ASSUME NEW i \in 1 .. Len(a) + Len(b) PROVE c[i] = (a \o b)[i]
  <2>1. CASE i <= Len(a)
    <3>1. i \in 1 .. Len(a)
      BY <1>2, <2>1
    <3>2. QED
      BY <1>1, <2>1, <3>1
  <2>2. CASE ~(i <= Len(a))
    <3>1. i - Len(a) \in 1 .. Len(b) /\ Len(a) + (i - Len(a)) = i
      BY <1>2, <2>2
    <3>2. c[Len(a) + (i - Len(a))] = b[i - Len(a)]
      BY <3>1
    <3>3. QED
      BY <1>1, <2>2, <3>1, <3>2
  <2>3. QED
    BY <2>1, <2>2
<1>4. QED
  BY <1>1, <1>3, SeqEqual

LEMMA RingSplits ==
  ASSUME NEW S, NEW buf \in [Slot -> S], NEW first \in Slot, NEW end \in Slot,
         NEW k \in Nat, k <= Used(end, first)
  PROVE  Ring(buf, first, end) =
           SubSeq(Ring(buf, first, end), 1, k) \o Ring(buf, Bump(first, k), end)
<1>1. \A f, e \in Slot :
        /\ Ring(buf, f, e) \in Seq(S)
        /\ Len(Ring(buf, f, e)) = Used(e, f)
        /\ Used(e, f) \in 0 .. BufLen - 1
        /\ \A i \in 1 .. Used(e, f) : Ring(buf, f, e)[i] = buf[Bump(f, i - 1)]
  BY ONLY buf \in [Slot -> S], RingsAre
<1>2. SUFFICES ASSUME NEW whole, whole = Ring(buf, first, end),
                    NEW next, next = Bump(first, k),
                    NEW rest, rest = Ring(buf, next, end),
                    NEW n, n = Used(end, first)
             PROVE  whole = SubSeq(whole, 1, k) \o rest
  OBVIOUS
<1>3. /\ whole \in Seq(S) /\ Len(whole) = n /\ n \in 0 .. BufLen - 1
      /\ \A i \in 1 .. n : whole[i] = buf[Bump(first, i - 1)]
  <2>1. /\ Ring(buf, first, end) \in Seq(S)
        /\ Len(Ring(buf, first, end)) = Used(end, first)
        /\ Used(end, first) \in 0 .. BufLen - 1
        /\ \A i \in 1 .. Used(end, first) :
             Ring(buf, first, end)[i] = buf[Bump(first, i - 1)]
    BY ONLY <1>1, first \in Slot, end \in Slot, Zenon
  <2>2. QED
    BY <1>2, <2>1
<1>4. next \in Slot
  BY <1>2, RingEmpties
<1>5. Used(end, next) = n - k
  BY <1>2, RingEmpties
<1>6. /\ rest \in Seq(S) /\ Len(rest) = n - k
      /\ \A i \in 1 .. n - k : rest[i] = buf[Bump(next, i - 1)]
  <2>1. /\ Ring(buf, next, end) \in Seq(S)
        /\ Len(Ring(buf, next, end)) = Used(end, next)
        /\ Used(end, next) \in 0 .. BufLen - 1
        /\ \A i \in 1 .. Used(end, next) :
             Ring(buf, next, end)[i] = buf[Bump(next, i - 1)]
    BY <1>4, <1>1
  <2>2. QED
    BY <1>2, <1>5, <2>1
<1>7. k \in Nat /\ n \in Nat /\ k <= n /\ n < BufLen /\ n - k \in Nat /\ k + (n - k) = n
  BY <1>2, <1>3, JtagAssumption
<1>8. ASSUME NEW i \in 1 .. n - k PROVE whole[k + i] = rest[i]
  <2>1. i - 1 \in Nat /\ k + (i - 1) <= BufLen /\ k + i \in 1 .. n /\ (k + i) - 1 = k + (i - 1)
    BY <1>7, JtagAssumption
  <2>2. Bump(next, i - 1) = Bump(first, k + (i - 1))
    BY <1>2, <1>7, <2>1, BumpTwice
  <2>3. whole[k + i] = buf[Bump(first, (k + i) - 1)]
    BY <1>3, <2>1
  <2>4. QED
    BY <1>6, <2>1, <2>2, <2>3
<1>9. /\ SubSeq(whole, 1, k) \in Seq(S) /\ Len(SubSeq(whole, 1, k)) = k
      /\ \A i \in 1 .. k : whole[i] = SubSeq(whole, 1, k)[i]
  BY <1>3, <1>7
<1>10. QED
  <2>1. SUFFICES ASSUME NEW head, head = SubSeq(whole, 1, k)
                 PROVE  whole = head \o rest
    OBVIOUS
  <2>2. head \in Seq(S) /\ rest \in Seq(S) /\ whole \in Seq(S)
    BY <1>3, <1>6, <1>9, <2>1
  <2>3. Len(head) = k /\ Len(rest) = n - k
    BY <1>6, <1>9, <2>1
  <2>4. Len(whole) = Len(head) + Len(rest)
    BY <1>3, <1>7, <2>3
  <2>5. \A i \in 1 .. Len(head) : whole[i] = head[i]
    BY <1>9, <2>1, <2>3
  <2>6. \A i \in 1 .. Len(rest) : whole[Len(head) + i] = rest[i]
    BY <1>8, <2>3
  <2>7. QED
    BY ONLY <2>2, <2>4, <2>5, <2>6, Pieces

LEMMA RingGrows ==
  ASSUME NEW S, NEW buf \in [Slot -> S], NEW first \in Slot, NEW end \in Slot,
         NEW n \in Nat, Used(end, first) + n <= BufLen - 1,
         NEW more \in Seq(S), Len(more) = n,
         \A i \in 1 .. n : more[i] = buf[Bump(end, i - 1)]
  PROVE  Ring(buf, first, Bump(end, n)) = Ring(buf, first, end) \o more
<1>1. \A f, e \in Slot :
        /\ Ring(buf, f, e) \in Seq(S)
        /\ Len(Ring(buf, f, e)) = Used(e, f)
        /\ Used(e, f) \in 0 .. BufLen - 1
        /\ \A i \in 1 .. Used(e, f) : Ring(buf, f, e)[i] = buf[Bump(f, i - 1)]
  BY ONLY buf \in [Slot -> S], RingsAre
<1>2. SUFFICES ASSUME NEW old, old = Ring(buf, first, end),
                    NEW stop, stop = Bump(end, n),
                    NEW new, new = Ring(buf, first, stop),
                    NEW u, u = Used(end, first)
             PROVE  new = old \o more
  OBVIOUS
<1>3. /\ old \in Seq(S) /\ Len(old) = u /\ u \in 0 .. BufLen - 1
      /\ \A i \in 1 .. u : old[i] = buf[Bump(first, i - 1)]
  <2>1. /\ Ring(buf, first, end) \in Seq(S)
        /\ Len(Ring(buf, first, end)) = Used(end, first)
        /\ Used(end, first) \in 0 .. BufLen - 1
        /\ \A i \in 1 .. Used(end, first) :
             Ring(buf, first, end)[i] = buf[Bump(first, i - 1)]
    BY ONLY <1>1, first \in Slot, end \in Slot, Zenon
  <2>2. QED
    BY <1>2, <2>1
<1>4. stop \in Slot
  BY <1>2, RingFills
<1>5. Used(stop, first) = u + n
  BY <1>2, RingFills
<1>6. /\ new \in Seq(S) /\ Len(new) = u + n
      /\ \A i \in 1 .. u + n : new[i] = buf[Bump(first, i - 1)]
  <2>1. /\ Ring(buf, first, stop) \in Seq(S)
        /\ Len(Ring(buf, first, stop)) = Used(stop, first)
        /\ Used(stop, first) \in 0 .. BufLen - 1
        /\ \A i \in 1 .. Used(stop, first) :
             Ring(buf, first, stop)[i] = buf[Bump(first, i - 1)]
    BY <1>4, <1>1
  <2>2. QED
    BY <1>2, <1>5, <2>1
<1>7. u \in Nat /\ u + n < BufLen /\ n <= BufLen
  BY <1>2, <1>3, JtagAssumption
<1>8. Bump(first, u) = end
  BY <1>2, BumpToEnd
<1>9. ASSUME NEW i \in 1 .. n
      PROVE  Bump(end, i - 1) \in Slot /\ new[u + i] = buf[Bump(end, i - 1)]
  <2>1. /\ i - 1 \in Nat /\ u + (i - 1) <= BufLen /\ i - 1 \in 0 .. BufLen
        /\ u + i \in 1 .. u + n /\ (u + i) - 1 = u + (i - 1)
    BY <1>7, JtagAssumption
  <2>2. Bump(end, i - 1) = Bump(first, u + (i - 1))
    BY <1>7, <1>8, <2>1, BumpTwice
  <2>3. QED
    BY <1>6, <2>1, <2>2, BumpIs
<1>10. ASSUME NEW i \in 1 .. u PROVE new[i] = old[i]
  <2>1. i \in 1 .. u + n
    BY <1>7
  <2>2. QED
    BY <1>3, <1>6, <2>1
<1>11. \A i \in 1 .. n : new[u + i] = more[i]
  BY <1>9
<1>12. /\ Len(new) = Len(old) + Len(more)
      /\ new \in Seq(S) /\ old \in Seq(S)
  BY <1>3, <1>6
<1>13. /\ \A i \in 1 .. Len(old) : new[i] = old[i]
      /\ \A i \in 1 .. Len(more) : new[Len(old) + i] = more[i]
  BY <1>3, <1>10, <1>11
<1>14. QED
  BY ONLY <1>12, <1>13, more \in Seq(S), Pieces

-----------------------------------------------------------------------------
(* Counting round the numbers of the characters. *)

LEMMA DivMod ==
  ASSUME NEW x \in Nat, NEW N \in Nat \ {0}
  PROVE  x % N \in 0 .. N - 1 /\ x \div N \in Int /\ x = (N * (x \div N)) + (x % N)
  OBVIOUS

LEMMA OneRemainder ==
  ASSUME NEW N \in Nat \ {0}, NEW p \in Int, NEW q \in Int,
         NEW r \in 0 .. N - 1, NEW s \in 0 .. N - 1, N * p + r = N * q + s
  PROVE  r = s
<1>1. N * (p - q) = s - r
  OBVIOUS
<1>2. p - q >= 1 => N * (p - q) >= N
  OBVIOUS
<1>3. p - q <= -1 => N * (p - q) <= -N
  OBVIOUS
<1>4. QED
  BY <1>1, <1>2, <1>3

LEMMA ModAdds ==
  ASSUME NEW x \in Nat, NEW y \in Nat, NEW N \in Nat \ {0}
  PROVE  ((x % N) + y) % N = (x + y) % N
<1>0. SUFFICES ASSUME NEW p, p = x \div N, NEW r, r = x % N,
                      NEW q, q = (r + y) \div N, NEW s, s = (r + y) % N,
                      NEW u, u = (x + y) \div N, NEW t, t = (x + y) % N
               PROVE  s = t
  OBVIOUS
<1>1. p \in Int /\ r \in 0 .. N - 1 /\ x = N * p + r
  BY <1>0, DivMod
<1>2. q \in Int /\ s \in 0 .. N - 1 /\ r + y = N * q + s
  <2>1. r + y \in Nat
    BY <1>1
  <2>2. QED
    BY <1>0, <2>1, DivMod
<1>3. u \in Int /\ t \in 0 .. N - 1 /\ x + y = N * u + t
  <2>1. x + y \in Nat
    OBVIOUS
  <2>2. QED
    BY <1>0, <2>1, DivMod
<1>4. N * (p + q) + s = N * u + t
  <2>1. N * (p + q) = N * p + N * q
    BY <1>1, <1>2
  <2>2. N * p \in Int /\ N * q \in Int /\ N * u \in Int
    BY <1>1, <1>2, <1>3
  <2>3. QED
    BY <1>1, <1>2, <1>3, <2>1, <2>2
<1>5. p + q \in Int
  BY <1>1, <1>2
<1>6. QED
  BY ONLY <1>2, <1>3, <1>4, <1>5, N \in Nat \ {0}, OneRemainder

-----------------------------------------------------------------------------
(* The pointer of write() goes on where the stream ends. *)

LEMMA ChanIs ==
  ASSUME Sound
  PROVE  /\ txFifo \in Seq(OutChar) /\ Ring(tx_buf, tx_out, tx_in) \in Seq(OutChar)
         /\ OutChan \in Seq(OutChar)
         /\ Len(OutChan) = Len(txFifo) + Used(tx_in, tx_out)
         /\ Len(txFifo) \in 0 .. WriteDepth /\ Used(tx_in, tx_out) \in 0 .. BufLen - 1
         /\ tx_buf \in [Slot -> OutChar] /\ heard \in OutChar /\ ptr \in OutChar
         /\ Out!Newest \in OutChar
<1>1. TxTypes
  BY Types DEF Sound
<1>2. /\ txFifo \in Seq(OutChar) /\ tx_buf \in [Slot -> OutChar]
      /\ heard \in OutChar /\ ptr \in OutChar /\ tx_in \in Slot /\ tx_out \in Slot
      /\ Len(txFifo) <= WriteDepth
  BY <1>1 DEF TxTypes
<1>3. /\ Ring(tx_buf, tx_out, tx_in) \in Seq(OutChar)
      /\ Len(Ring(tx_buf, tx_out, tx_in)) = Used(tx_in, tx_out)
      /\ Used(tx_in, tx_out) \in 0 .. BufLen - 1
  BY <1>2, RingIs
<1>4. OutChan \in Seq(OutChar) /\ Len(OutChan) = Len(txFifo) + Used(tx_in, tx_out)
  BY <1>2, <1>3 DEF OutChan
<1>5. OutChan # <<>> => OutChan[Len(OutChan)] \in OutChar
  BY <1>4
<1>6. Out!Newest \in OutChar
  BY <1>2, <1>5 DEF Out!Newest
<1>7. Len(txFifo) \in 0 .. WriteDepth
  BY <1>2, JtagAssumption
<1>8. QED
  BY <1>2, <1>3, <1>4, <1>6, <1>7

StreamInv ==
  /\ call.pc # "publish" => ptr = Out!After(Out!Newest, 1)
  /\ call.pc = "publish" =>
       /\ call.n > 0
       /\ ptr = Out!After(Out!Newest, call.n + 1)
       /\ \A i \in 1 .. call.n : tx_buf[tx_in + i - 1] = Out!After(Out!Newest, i)

LEMMA AfterAfter ==
  ASSUME NEW c \in OutChar, NEW i \in Nat, NEW j \in Nat
  PROVE  Out!After(Out!After(c, i), j) = Out!After(c, i + j)
<1>1. c + i \in Nat /\ OutChars \in Nat \ {0}
  BY JtagAssumption DEF OutChar
<1>2. (((c + i) % OutChars) + j) % OutChars = ((c + i) + j) % OutChars
  BY <1>1, ModAdds
<1>3. (c + i) + j = c + (i + j)
  BY JtagAssumption DEF OutChar
<1>4. QED
  BY <1>2, <1>3 DEF Out!After

(* Where nothing goes in or out, the stream and the pointer stay. *)
LEMMA Quiet ==
  ASSUME OutChan' = OutChan, heard' = heard
  PROVE  Out!Newest' = Out!Newest /\ UNCHANGED Out!vars
  BY DEF Out!Newest, Out!vars

(* Each step of the driver is one of the stream, or none. *)
LEMMA CopyKeepsStream ==
  ASSUME Sound, StreamInv, Copy
  PROVE  UNCHANGED Out!vars /\ StreamInv'
<1>1. SUFFICES ASSUME NEW n, n = Least(Room, call.count)
               PROVE  UNCHANGED Out!vars /\ StreamInv'
  OBVIOUS
<1>2. /\ n \in 1 .. BufLen - 1 /\ n \in Nat /\ n > 0
      /\ tx_in + n <= BufLen /\ Used(tx_in, tx_out) + n <= BufLen - 1
  BY <1>1, CopyCount, Fields, RoomFits, JtagAssumption
<1>3. /\ tx_buf' = [i \in Slot |-> IF i \in tx_in .. tx_in + n - 1
                                   THEN (ptr + i - tx_in) % OutChars ELSE tx_buf[i]]
      /\ ptr' = (ptr + n) % OutChars
      /\ call' = [call EXCEPT !.pc = "publish", !.n = n, !.count = @ - n]
      /\ UNCHANGED <<tx_in, tx_out, txFifo, heard>>
      /\ call.pc = "fill"
  <2>1. tx_buf' = [i \in Slot |-> IF i \in tx_in .. tx_in + n - 1
                                  THEN (ptr + i - tx_in) % OutChars ELSE tx_buf[i]]
    BY <1>1, Zenon DEF Copy
  <2>2. call' = [call EXCEPT !.pc = "publish", !.n = n, !.count = @ - n]
    BY <1>1, Zenon DEF Copy
  <2>3. /\ ptr' = (ptr + n) % OutChars
        /\ UNCHANGED <<tx_in, tx_out, txFifo, heard>>
        /\ call.pc = "fill"
    BY <1>1 DEF Copy
  <2>4. QED
    BY <2>1, <2>2, <2>3
<1>4. tx_in \in Slot /\ tx_out \in Slot /\ tx_in \in Nat /\ tx_out \in Nat
  BY Fields, JtagAssumption DEF Slot
<1>5. Ring(tx_buf', tx_out, tx_in) = Ring(tx_buf, tx_out, tx_in)
  <2>1. ASSUME NEW i \in 1 .. Used(tx_in, tx_out)
        PROVE  tx_buf'[Bump(tx_out, i - 1)] = tx_buf[Bump(tx_out, i - 1)]
    <3>1. Used(tx_in, tx_out) \in 0 .. BufLen - 1
      BY <1>4, UsedIs
    <3>2. i - 1 \in 0 .. BufLen /\ i - 1 < Used(tx_in, tx_out)
      BY <3>1, JtagAssumption
    <3>3. /\ tx_out + (i - 1) < BufLen => Bump(tx_out, i - 1) = tx_out + (i - 1)
          /\ tx_out + (i - 1) >= BufLen => Bump(tx_out, i - 1) = tx_out + (i - 1) - BufLen
          /\ Bump(tx_out, i - 1) \in Slot
      BY <1>4, <3>2, BumpIs
    <3>4. /\ tx_in >= tx_out => Used(tx_in, tx_out) = tx_in - tx_out
          /\ tx_in < tx_out => Used(tx_in, tx_out) = tx_in - tx_out + BufLen
      BY <1>4, UsedIs
    <3>5. Bump(tx_out, i - 1) \notin tx_in .. tx_in + n - 1
      BY <1>2, <1>4, <3>1, <3>2, <3>3, <3>4, JtagAssumption DEF Slot
    <3>6. QED
      BY <1>3, <3>3, <3>5
  <2>2. /\ Ring(tx_buf', tx_out, tx_in) =
             [i \in 1 .. Used(tx_in, tx_out) |-> tx_buf'[Bump(tx_out, i - 1)]]
        /\ Ring(tx_buf, tx_out, tx_in) =
             [i \in 1 .. Used(tx_in, tx_out) |-> tx_buf[Bump(tx_out, i - 1)]]
    BY DEF Ring, Used
  <2>3. QED
    BY <2>1, <2>2
<1>6. OutChan' = OutChan /\ heard' = heard
  BY <1>3, <1>5 DEF OutChan
<1>7. Out!Newest' = Out!Newest /\ UNCHANGED Out!vars
  BY <1>6, Quiet
<1>8. call'.pc = "publish" /\ call'.n = n
  <2>1. CallTypes
    BY Types DEF Sound
  <2>2. QED
    BY <1>3, <2>1 DEF CallTypes
<1>9. Out!Newest \in OutChar /\ ptr = Out!After(Out!Newest, 1) /\ ptr \in OutChar /\ ptr \in Nat
  BY <1>3, ChanIs, JtagAssumption DEF StreamInv, OutChar
<1>10. ptr' = Out!After(Out!Newest, n + 1)
  <2>1. ptr' = Out!After(ptr, n)
    BY <1>3 DEF Out!After
  <2>2. Out!After(Out!After(Out!Newest, 1), n) = Out!After(Out!Newest, 1 + n)
    BY <1>2, <1>9, AfterAfter
  <2>3. 1 + n = n + 1
    BY <1>2
  <2>4. QED
    BY <1>9, <2>1, <2>2, <2>3
<1>11. ASSUME NEW i \in 1 .. n
       PROVE  tx_buf'[tx_in + i - 1] = Out!After(Out!Newest, i)
  <2>1. /\ tx_in + i - 1 \in Slot /\ tx_in + i - 1 \in tx_in .. tx_in + n - 1
        /\ ptr + (tx_in + i - 1) - tx_in = ptr + (i - 1) /\ i - 1 \in Nat /\ 1 + (i - 1) = i
    BY <1>2, <1>4, <1>9, JtagAssumption DEF Slot
  <2>2. tx_buf'[tx_in + i - 1] = Out!After(ptr, i - 1)
    BY <1>3, <2>1 DEF Out!After
  <2>3. Out!After(Out!After(Out!Newest, 1), i - 1) = Out!After(Out!Newest, 1 + (i - 1))
    BY <1>9, <2>1, AfterAfter
  <2>4. QED
    BY <1>9, <2>1, <2>2, <2>3
<1>12. StreamInv'
  BY <1>2, <1>3, <1>7, <1>8, <1>10, <1>11 DEF StreamInv
<1>13. QED
  BY <1>7, <1>12

LEMMA SendKeepsStream ==
  ASSUME Sound, StreamInv, Send
  PROVE  UNCHANGED Out!vars /\ StreamInv'
<1>1. SUFFICES ASSUME NEW k, k = Least(isr.space, Len(Ring(tx_buf, tx_out, tx_in))),
                      NEW ring, ring = Ring(tx_buf, tx_out, tx_in),
                      NEW rest, rest = Ring(tx_buf, Bump(tx_out, k), tx_in)
               PROVE  UNCHANGED Out!vars /\ StreamInv'
  OBVIOUS
<1>2. k \in 0 .. Used(tx_in, tx_out) /\ Bump(tx_out, k) \in Slot
  BY <1>1, SendCount
<1>3. /\ txFifo' = txFifo \o SubSeq(ring, 1, k)
      /\ tx_out' = Bump(tx_out, k)
      /\ UNCHANGED <<tx_in, tx_buf, call, ptr, heard>>
  BY <1>1 DEF Send
<1>4. /\ txFifo \in Seq(OutChar) /\ ring \in Seq(OutChar)
      /\ tx_in \in Slot /\ tx_out \in Slot /\ tx_buf \in [Slot -> OutChar]
      /\ Used(tx_in, tx_out) \in 0 .. BufLen - 1 /\ Len(ring) = Used(tx_in, tx_out)
  <2>1. /\ txFifo \in Seq(OutChar) /\ Ring(tx_buf, tx_out, tx_in) \in Seq(OutChar)
        /\ tx_buf \in [Slot -> OutChar] /\ tx_in \in Slot /\ tx_out \in Slot
        /\ Used(tx_in, tx_out) \in 0 .. BufLen - 1
    BY ChanIs, Fields
  <2>2. Len(Ring(tx_buf, tx_out, tx_in)) = Used(tx_in, tx_out)
    BY ONLY <2>1, RingIs
  <2>3. QED
    BY ONLY <1>1, <2>1, <2>2
<1>5. k \in Nat /\ k <= Used(tx_in, tx_out)
  BY <1>2, <1>4, JtagAssumption
<1>6. ring = SubSeq(ring, 1, k) \o rest
  BY <1>1, <1>4, <1>5, RingSplits
<1>7. SubSeq(ring, 1, k) \in Seq(OutChar) /\ rest \in Seq(OutChar)
  <2>1. Ring(tx_buf, Bump(tx_out, k), tx_in) \in Seq(OutChar)
    BY <1>2, <1>4, RingIs
  <2>2. QED
    BY <1>1, <1>4, <1>5, <2>1
<1>8. (txFifo \o SubSeq(ring, 1, k)) \o rest = txFifo \o (SubSeq(ring, 1, k) \o rest)
  <2>1. SUFFICES ASSUME NEW head, head = SubSeq(ring, 1, k)
                 PROVE  (txFifo \o head) \o rest = txFifo \o (head \o rest)
    OBVIOUS
  <2>2. txFifo \in Seq(OutChar) /\ head \in Seq(OutChar) /\ rest \in Seq(OutChar)
    BY <1>4, <1>7, <2>1
  <2>3. QED
    BY ONLY <2>2, ConcatAssociative
<1>9. OutChan' = OutChan /\ heard' = heard
  <2>1. OutChan = txFifo \o ring
    BY <1>1 DEF OutChan
  <2>2. OutChan' = (txFifo \o SubSeq(ring, 1, k)) \o rest
    BY <1>1, <1>3 DEF OutChan
  <2>3. QED
    BY <1>3, <1>6, <1>8, <2>1, <2>2
<1>10. QED
  BY <1>3, <1>9, Quiet DEF StreamInv

LEMMA PublishPuts ==
  ASSUME Sound, StreamInv, Publish
  PROVE  Out!Next /\ StreamInv'
<1>1. SUFFICES ASSUME NEW n, n = call.n,
                      NEW ring, ring = Ring(tx_buf, tx_out, tx_in),
                      NEW more, more = [i \in 1 .. n |-> Out!After(Out!Newest, i)]
               PROVE  Out!Next /\ StreamInv'
  OBVIOUS
<1>2. /\ tx_in' = Bump(tx_in, n) /\ call'.pc = "fill"
      /\ UNCHANGED <<tx_out, tx_buf, ptr, txFifo, heard>>
      /\ call.pc = "publish"
  <2>1. CallTypes
    BY Types DEF Sound
  <2>2. QED
    BY <1>1, <2>1 DEF Publish, CallTypes
<1>3. /\ n \in Nat /\ n > 0 /\ n \in 1 .. BufLen - 1 /\ tx_in + n <= BufLen
      /\ Used(tx_in, tx_out) + n <= BufLen - 1
      /\ tx_in \in Slot /\ tx_out \in Slot
  BY <1>1, <1>2, Fields, JtagAssumption DEF Sound, CallInv, StreamInv
<1>4. /\ txFifo \in Seq(OutChar) /\ ring \in Seq(OutChar)
      /\ tx_buf \in [Slot -> OutChar] /\ Out!Newest \in OutChar
      /\ OutChan = txFifo \o ring /\ OutChan \in Seq(OutChar)
      /\ Len(OutChan) = Len(txFifo) + Used(tx_in, tx_out)
      /\ Len(txFifo) \in 0 .. WriteDepth /\ Used(tx_in, tx_out) \in 0 .. BufLen - 1
  BY <1>1, ChanIs DEF OutChan
<1>5. ASSUME NEW i \in 1 .. n
      PROVE  more[i] = tx_buf[Bump(tx_in, i - 1)] /\ more[i] \in OutChar
  <2>1. i - 1 \in 0 .. BufLen /\ tx_in + (i - 1) < BufLen /\ tx_in + i - 1 = tx_in + (i - 1)
    BY <1>3, JtagAssumption DEF Slot
  <2>2. Bump(tx_in, i - 1) = tx_in + i - 1 /\ Bump(tx_in, i - 1) \in Slot
    BY <1>3, <2>1, BumpIs
  <2>3. tx_buf[tx_in + i - 1] = Out!After(Out!Newest, i)
    BY <1>1, <1>2 DEF StreamInv
  <2>4. more[i] = Out!After(Out!Newest, i)
    BY <1>1
  <2>5. QED
    BY <1>4, <2>2, <2>3, <2>4
<1>6. more \in Seq(OutChar) /\ Len(more) = n
  <2>1. more \in [1 .. n -> OutChar]
    BY <1>1, <1>5
  <2>2. QED
    BY <1>3, <2>1
<1>7. Ring(tx_buf, tx_out, Bump(tx_in, n)) = ring \o more
  <2>1. \A i \in 1 .. n : more[i] = tx_buf[Bump(tx_in, i - 1)]
    BY <1>5
  <2>2. Ring(tx_buf, tx_out, Bump(tx_in, n)) = Ring(tx_buf, tx_out, tx_in) \o more
    <3>1. /\ tx_buf \in [Slot -> OutChar] /\ tx_out \in Slot /\ tx_in \in Slot /\ n \in Nat
          /\ Used(tx_in, tx_out) + n <= BufLen - 1 /\ more \in Seq(OutChar) /\ Len(more) = n
      BY <1>3, <1>4, <1>6
    <3>2. QED
      BY ONLY <2>1, <3>1, RingGrows, ZenonT(60)
  <2>3. QED
    BY <1>1, <2>2
<1>8. OutChan' = OutChan \o more
  <2>1. OutChan' = txFifo \o (ring \o more)
    BY <1>2, <1>7 DEF OutChan
  <2>2. (txFifo \o ring) \o more = txFifo \o (ring \o more)
    <3>1. txFifo \in Seq(OutChar) /\ ring \in Seq(OutChar) /\ more \in Seq(OutChar)
      BY <1>4, <1>6
    <3>2. QED
      BY ONLY <3>1, ConcatAssociative
  <2>3. QED
    BY <1>4, <2>1, <2>2
<1>9. Out!Next
  <2>1. n \in 1 .. BufLen - 1 + WriteDepth
    BY <1>3, JtagAssumption
  <2>2. Len(OutChan) + n <= BufLen - 1 + WriteDepth
    BY <1>3, <1>4, JtagAssumption
  <2>3. Out!Put(n)
    BY <1>1, <1>2, <1>8, <2>2 DEF Out!Put
  <2>4. QED
    BY <2>1, <2>3 DEF Out!Next
<1>10. Out!Newest' = Out!After(Out!Newest, n)
  <2>a. Len(OutChan \o more) = Len(OutChan) + Len(more) /\ OutChan \o more \in Seq(OutChar)
    <3>1. SUFFICES ASSUME NEW chan \in Seq(OutChar)
                   PROVE  Len(chan \o more) = Len(chan) + Len(more) /\ chan \o more \in Seq(OutChar)
      BY <1>4
    <3>2. QED
      BY <1>6
  <2>1. OutChan' \in Seq(OutChar) /\ Len(OutChan') = Len(OutChan) + n
    BY <1>4, <1>6, <1>8, <2>a
  <2>2. OutChan'[Len(OutChan) + n] = more[n]
    BY <1>3, <1>4, <1>6, <1>8
  <2>3. OutChan' # <<>>
    BY <1>3, <1>4, <2>1
  <2>4. more[n] = Out!After(Out!Newest, n)
    BY <1>1, <1>3
  <2>5. QED
    BY <2>1, <2>2, <2>3, <2>4 DEF Out!Newest
<1>11. ptr' = Out!After(Out!Newest', 1)
  <2>1. ptr = Out!After(Out!Newest, n + 1)
    BY <1>1, <1>2 DEF StreamInv
  <2>2. Out!After(Out!After(Out!Newest, n), 1) = Out!After(Out!Newest, n + 1)
    BY <1>3, <1>4, AfterAfter
  <2>3. QED
    BY <1>2, <1>10, <2>1, <2>2
<1>12. StreamInv'
  BY <1>2, <1>11 DEF StreamInv
<1>13. QED
  BY <1>9, <1>12

LEMMA HostReadsGets ==
  ASSUME Sound, StreamInv, HostReads
  PROVE  Out!Next /\ StreamInv'
<1>1. SUFFICES ASSUME NEW ring, ring = Ring(tx_buf, tx_out, tx_in)
               PROVE  Out!Next /\ StreamInv'
  OBVIOUS
<1>2. /\ txFifo # <<>> /\ heard' = Head(txFifo) /\ txFifo' = Tail(txFifo)
      /\ UNCHANGED <<tx_in, tx_out, tx_buf, call, ptr>>
  BY DEF HostReads
<1>3. /\ txFifo \in Seq(OutChar) /\ ring \in Seq(OutChar) /\ OutChan \in Seq(OutChar)
      /\ OutChan = txFifo \o ring /\ OutChan' = Tail(txFifo) \o ring
  BY <1>1, <1>2, ChanIs DEF OutChan
<1>4. /\ Len(txFifo) \in Nat /\ Len(txFifo) > 0
      /\ Tail(txFifo) \in Seq(OutChar) /\ Len(Tail(txFifo)) = Len(txFifo) - 1
      /\ Head(txFifo) = txFifo[1]
  BY <1>2, <1>3, HeadTailProperties
<1>5. heard' = OutChan[1] /\ Len(OutChan) >= 1
  BY <1>2, <1>3, <1>4
<1>6. OutChan' = SubSeq(OutChan, 2, Len(OutChan))
  BY <1>3, <1>4
<1>7. Out!Next
  <2>1. 1 \in 1 .. BufLen - 1 + WriteDepth /\ 1 + 1 = 2
    BY JtagAssumption
  <2>2. Out!Get(1)
    BY <1>5, <1>6, <2>1 DEF Out!Get
  <2>3. QED
    BY <2>1, <2>2 DEF Out!Next
<1>8. Out!Newest' = Out!Newest
  <2>1. SUFFICES ASSUME NEW chan, chan = OutChan, NEW m, m = Len(OutChan)
                 PROVE  Out!Newest' = Out!Newest
    OBVIOUS
  <2>2. chan \in Seq(OutChar) /\ Len(chan) = m /\ m \in Nat /\ m >= 1
    BY <1>3, <1>5, <2>1
  <2>3. OutChan' = SubSeq(chan, 2, m) /\ heard' = chan[1]
    BY <1>5, <1>6, <2>1
  <2>4. Out!Newest = chan[m]
    BY <2>1, <2>2 DEF Out!Newest
  <2>5. CASE m = 1
    <3>1. OutChan' = <<>>
      BY <2>2, <2>3, <2>5
    <3>2. QED
      BY <2>3, <2>4, <2>5, <3>1 DEF Out!Newest
  <2>6. CASE m > 1
    <3>1. /\ SubSeq(chan, 2, m) \in Seq(OutChar) /\ Len(SubSeq(chan, 2, m)) = m - 1
          /\ SubSeq(chan, 2, m)[m - 1] = chan[m]
      BY <2>2, <2>6
    <3>2. SubSeq(chan, 2, m) # <<>>
      BY <2>2, <2>6, <3>1
    <3>3. QED
      BY <2>3, <2>4, <3>1, <3>2 DEF Out!Newest
  <2>7. QED
    BY <2>2, <2>5, <2>6
<1>9. QED
  BY <1>2, <1>7, <1>8 DEF StreamInv

LEMMA RestKeepsStream ==
  ASSUME Sound, StreamInv, [Next]_vars, ~Copy, ~Publish, ~Send, ~HostReads
  PROVE  UNCHANGED Out!vars /\ StreamInv'
<1>1. UNCHANGED <<txVars, ptr, txFifo, heard>>
  BY Frames
<1>2. OutChan' = OutChan /\ heard' = heard
  BY <1>1 DEF OutChan
<1>3. Out!Newest' = Out!Newest /\ UNCHANGED Out!vars
  BY <1>2, Quiet
<1>4. CallTypes /\ NoCall.pc = "idle"
  BY Types DEF Sound, NoCall
<1>5. (call'.pc # "publish" /\ call.pc # "publish") \/ UNCHANGED call
  <2>1. CASE Calls
    BY <1>4, <2>1 DEF Calls, Enter, Write, Read, Close, SetTimeout, NoCall
  <2>2. CASE Running
    BY <1>4, <2>2 DEF Running, Full, Kick, Spin, Take, Release, Empty, Await, Rearm, Closed,
       CallTypes
  <2>3. QED
    BY <2>1, <2>2, Frames
<1>6. StreamInv'
  BY <1>1, <1>3, <1>5 DEF StreamInv
<1>7. QED
  BY <1>3, <1>6

LEMMA StreamInit == Init => Out!Init /\ StreamInv
<1>1. SUFFICES ASSUME Init
               PROVE  Out!Init /\ StreamInv
  OBVIOUS
<1>2. Used(tx_in, tx_out) = 0 /\ tx_in = 0 /\ tx_out = 0
  BY <1>1, UsedIs, JtagAssumption DEF Init, Slot
<1>3. Ring(tx_buf, tx_out, tx_in) = <<>>
  <2>1. Ring(tx_buf, tx_out, tx_in) = [i \in 1 .. Used(tx_in, tx_out) |-> tx_buf[Bump(tx_out, i - 1)]]
    BY DEF Ring, Used
  <2>2. QED
    BY <1>2, <2>1
<1>4. OutChan = <<>>
  BY <1>1, <1>3 DEF Init, OutChan
<1>5. heard = OutChars - 1 /\ ptr = 0 /\ call.pc = "idle"
  BY <1>1 DEF Init, NoCall
<1>6. ((OutChars - 1) + 1) % OutChars = 0
  <2>1. (OutChars - 1) + 1 = OutChars
    BY JtagAssumption
  <2>2. OutChars % OutChars = 0
    BY JtagAssumption
  <2>3. QED
    BY <2>1, <2>2
<1>7. QED
  BY <1>4, <1>5, <1>6 DEF Out!Init, Out!Newest, Out!After, StreamInv

LEMMA StreamStep ==
  ASSUME Sound, StreamInv, [Next]_vars
  PROVE  StreamInv' /\ [Out!Next]_(Out!vars)
<1>1. CASE Copy
  BY <1>1, CopyKeepsStream
<1>2. CASE Publish
  BY <1>2, PublishPuts
<1>3. CASE Send
  BY <1>3, SendKeepsStream
<1>4. CASE HostReads
  BY <1>4, HostReadsGets
<1>5. CASE ~Copy /\ ~Publish /\ ~Send /\ ~HostReads
  BY <1>5, RestKeepsStream
<1>6. QED
  BY <1>1, <1>2, <1>3, <1>4, <1>5

(* Whatever the program prints, in pieces of any size, comes out at the     *)
(* terminal once and in order: the shared ring of write.c:98 and init.c:169 *)
(* implements the stream, for rings and hardware of every size.             *)
THEOREM OutputInOrderHolds == Spec => OutputInOrder
<1>1. Init => Out!Init /\ StreamInv
  BY StreamInit
<1>2. Sound /\ StreamInv /\ [Next]_vars => StreamInv' /\ [Out!Next]_(Out!vars)
  BY StreamStep
<1>3. QED
  BY <1>1, <1>2, SoundHolds, PTL DEF Spec, OutputInOrder, Out!Spec

-----------------------------------------------------------------------------
(* What is typed is the same stream, the other way.                         *)

(* Until read() gives them up, the ring still holds what it has copied.     *)
ReadInv ==
  call.pc = "release" =>
    /\ call.n <= Used(rx_in, rx_out) /\ rx_out + call.n <= BufLen
    /\ \A i \in 1 .. call.n : call.buffer[i] = rx_buf[rx_out + i - 1]

LEMMA InChanIs ==
  ASSUME Sound
  PROVE  /\ rxFifo \in Seq(InChar) /\ Ring(rx_buf, rx_out, rx_in) \in Seq(InChar)
         /\ InChan \in Seq(InChar)
         /\ Len(Ring(rx_buf, rx_out, rx_in)) = Used(rx_in, rx_out)
         /\ Len(InChan) = Used(rx_in, rx_out) + Len(rxFifo)
         /\ Len(rxFifo) \in 0 .. ReadDepth /\ Used(rx_in, rx_out) \in 0 .. BufLen - 1
         /\ rx_buf \in [Slot -> InChar] /\ got \in InChar
         /\ rx_in \in Slot /\ rx_out \in Slot
<1>1. RxTypes
  BY Types DEF Sound
<1>2. /\ rxFifo \in Seq(InChar) /\ rx_buf \in [Slot -> InChar]
      /\ got \in InChar /\ rx_in \in Slot /\ rx_out \in Slot
      /\ Len(rxFifo) <= ReadDepth
  BY <1>1 DEF RxTypes
<1>3. /\ Ring(rx_buf, rx_out, rx_in) \in Seq(InChar)
      /\ Len(Ring(rx_buf, rx_out, rx_in)) = Used(rx_in, rx_out)
      /\ Used(rx_in, rx_out) \in 0 .. BufLen - 1
  BY <1>2, RingIs
<1>4. InChan \in Seq(InChar) /\ Len(InChan) = Used(rx_in, rx_out) + Len(rxFifo)
  BY <1>2, <1>3 DEF InChan
<1>5. Len(rxFifo) \in 0 .. ReadDepth
  BY <1>2, JtagAssumption
<1>6. QED
  BY <1>2, <1>3, <1>4, <1>5

(* What follows the first part of a sequence. *)
LEMMA Dropped ==
  ASSUME NEW S, NEW a \in Seq(S), NEW b \in Seq(S), NEW n \in Nat, Len(a) = n
  PROVE  SubSeq(a \o b, n + 1, Len(a \o b)) = b
<1>1. SUFFICES ASSUME NEW m, m = Len(b), NEW whole, whole = a \o b
               PROVE  SubSeq(whole, n + 1, Len(whole)) = b
  OBVIOUS
<1>2. /\ whole \in Seq(S) /\ Len(whole) = n + m /\ m \in Nat
      /\ \A i \in 1 .. m : whole[n + i] = b[i]
  <2>1. /\ a \o b \in Seq(S) /\ Len(a \o b) = Len(a) + Len(b)
        /\ \A i \in 1 .. Len(a) + Len(b) :
             (a \o b)[i] = IF i <= Len(a) THEN a[i] ELSE b[i - Len(a)]
    BY ConcatProperties
  <2>2. m \in Nat
    BY <1>1
  <2>3. /\ whole \in Seq(S) /\ Len(whole) = n + m
        /\ \A i \in 1 .. n + m : whole[i] = IF i <= n THEN a[i] ELSE b[i - n]
    BY <1>1, <2>1
  <2>4. ASSUME NEW i \in 1 .. m PROVE whole[n + i] = b[i]
    <3>1. n + i \in 1 .. n + m /\ ~(n + i <= n) /\ (n + i) - n = i
      BY <2>2
    <3>2. QED
      BY <2>3, <3>1
  <2>5. QED
    BY <2>2, <2>3, <2>4
<1>3. SUFFICES ASSUME NEW rest, rest = SubSeq(whole, n + 1, n + m)
               PROVE  rest = b
  BY <1>2
<1>4. rest \in Seq(S) /\ Len(rest) = m /\ \A i \in 1 .. m : rest[i] = whole[n + i]
  BY <1>2, <1>3
<1>5. \A i \in 1 .. m : rest[i] = b[i]
  BY <1>2, <1>4
<1>6. Len(b) = m
  BY <1>1
<1>7. QED
  BY ONLY b \in Seq(S), <1>4, <1>5, <1>6, SeqEqual

LEMMA TypesPuts ==
  ASSUME Sound, ReadInv, HostTypes
  PROVE  In!Next /\ ReadInv'
<1>1. SUFFICES ASSUME NEW ring, ring = Ring(rx_buf, rx_out, rx_in),
                      NEW c, c = In!After(In!Newest, 1),
                      NEW chan, chan = InChan
               PROVE  In!Next /\ ReadInv'
  OBVIOUS
<1>2. /\ rxFifo' = Append(rxFifo, c) /\ Len(rxFifo) < ReadDepth
      /\ UNCHANGED <<rx_in, rx_out, rx_buf, got, call>>
  BY <1>1 DEF HostTypes, In!After, In!Newest, Typed
<1>3. /\ rxFifo \in Seq(InChar) /\ ring \in Seq(InChar) /\ chan \in Seq(InChar)
      /\ chan = ring \o rxFifo
      /\ Len(chan) = Used(rx_in, rx_out) + Len(rxFifo)
      /\ Len(rxFifo) \in Nat /\ Used(rx_in, rx_out) \in 0 .. BufLen - 1
  BY <1>1, InChanIs, JtagAssumption DEF InChan
<1>4. c \in InChar
  <2>1. In!Newest \in Int
    <3>1. got \in Int
      BY InChanIs, JtagAssumption DEF InChar
    <3>2. chan # <<>> => chan[Len(chan)] \in InChar
      BY ONLY <1>3
    <3>3. chan # <<>> => chan[Len(chan)] \in Int
      BY <3>2, JtagAssumption DEF InChar
    <3>4. QED
      BY <1>1, <3>1, <3>3 DEF In!Newest
  <2>2. QED
    BY <1>1, <2>1, NumberedIs DEF In!After
<1>5. <<c>> \in Seq(InChar)
  BY <1>4
<1>6. InChan' = chan \o <<c>>
  <2>1. Append(rxFifo, c) = rxFifo \o <<c>>
    BY ONLY <1>3, <1>4, AppendIsConcat
  <2>2. InChan' = ring \o (rxFifo \o <<c>>)
    BY <1>1, <1>2, <2>1 DEF InChan
  <2>3. (ring \o rxFifo) \o <<c>> = ring \o (rxFifo \o <<c>>)
    <3>1. ring \in Seq(InChar) /\ rxFifo \in Seq(InChar) /\ <<c>> \in Seq(InChar)
      BY <1>3, <1>5
    <3>2. QED
      BY ONLY <3>1, ConcatAssociative
  <2>4. QED
    BY <1>3, <2>2, <2>3
<1>7. [i \in 1 .. 1 |-> In!After(In!Newest, i)] = <<c>>
  BY <1>1
<1>8. In!Next
  <2>1. 1 \in 1 .. BufLen - 1 + ReadDepth
    BY JtagAssumption
  <2>2. Len(InChan) + 1 <= BufLen - 1 + ReadDepth
    BY <1>1, <1>2, <1>3, JtagAssumption
  <2>3. In!Put(1)
    BY <1>1, <1>2, <1>6, <1>7, <2>2 DEF In!Put
  <2>4. QED
    BY <2>1, <2>3 DEF In!Next
<1>9. ReadInv'
  BY <1>2 DEF ReadInv, Used
<1>10. QED
  BY <1>8, <1>9

LEMMA ReceiveKeepsInput ==
  ASSUME Sound, ReadInv, ReceiveChar
  PROVE  UNCHANGED In!vars /\ ReadInv'
<1>1. SUFFICES ASSUME NEW ring, ring = Ring(rx_buf, rx_out, rx_in),
                      NEW head, head = Head(rxFifo),
                      NEW tail, tail = Tail(rxFifo),
                      NEW buf, buf = [rx_buf EXCEPT ![rx_in] = head],
                      NEW u, u = Used(rx_in, rx_out)
               PROVE  UNCHANGED In!vars /\ ReadInv'
  OBVIOUS
<1>2. /\ rx_buf' = buf /\ rx_in' = Bump(rx_in, 1) /\ rxFifo' = tail
      /\ rxFifo # <<>> /\ Bump(rx_in, 1) # rx_out
      /\ UNCHANGED <<rx_out, got, call>>
  BY <1>1 DEF ReceiveChar, RingFull
<1>3. /\ rxFifo \in Seq(InChar) /\ ring \in Seq(InChar) /\ rx_buf \in [Slot -> InChar]
      /\ rx_in \in Slot /\ rx_out \in Slot /\ u \in 0 .. BufLen - 1
      /\ InChan = ring \o rxFifo
  BY <1>1, InChanIs DEF InChan
<1>4. head \in InChar /\ tail \in Seq(InChar) /\ <<head>> \in Seq(InChar)
      /\ <<head>> \o tail = rxFifo
  <2>1. Head(rxFifo) \in InChar /\ Tail(rxFifo) \in Seq(InChar)
    BY <1>2, <1>3, HeadTailProperties
  <2>2. <<Head(rxFifo)>> \o Tail(rxFifo) = rxFifo
    BY <1>2, <1>3
  <2>3. QED
    BY <1>1, <2>1, <2>2
<1>5. u + 1 <= BufLen - 1
  <2>1. /\ rx_in + 1 < BufLen => Bump(rx_in, 1) = rx_in + 1
        /\ rx_in + 1 >= BufLen => Bump(rx_in, 1) = rx_in + 1 - BufLen
    BY <1>3, BumpIs, JtagAssumption
  <2>2. /\ rx_in >= rx_out => u = rx_in - rx_out
        /\ rx_in < rx_out => u = rx_in - rx_out + BufLen
    BY <1>1, <1>3, UsedIs
  <2>3. QED
    BY <1>2, <1>3, <2>1, <2>2, JtagAssumption DEF Slot
<1>6. /\ buf \in [Slot -> InChar] /\ buf[rx_in] = head
      /\ \A j \in Slot : j # rx_in => buf[j] = rx_buf[j]
  BY <1>1, <1>3, <1>4
<1>7. ASSUME NEW i \in 0 .. u - 1
      PROVE  Bump(rx_out, i) \in Slot /\ Bump(rx_out, i) # rx_in
  <2>1. i \in 0 .. BufLen /\ i < u
    BY <1>3, JtagAssumption
  <2>2. /\ rx_out + i < BufLen => Bump(rx_out, i) = rx_out + i
        /\ rx_out + i >= BufLen => Bump(rx_out, i) = rx_out + i - BufLen
        /\ Bump(rx_out, i) \in Slot
    BY <1>3, <2>1, BumpIs
  <2>3. /\ rx_in >= rx_out => u = rx_in - rx_out
        /\ rx_in < rx_out => u = rx_in - rx_out + BufLen
    BY <1>1, <1>3, UsedIs
  <2>4. QED
    BY <1>3, <2>1, <2>2, <2>3, JtagAssumption DEF Slot
<1>8. Ring(buf, rx_out, rx_in) = ring
  <2>1. ASSUME NEW i \in 1 .. Used(rx_in, rx_out)
        PROVE  buf[Bump(rx_out, i - 1)] = rx_buf[Bump(rx_out, i - 1)]
    <3>1. i - 1 \in 0 .. u - 1
      BY <1>1, <1>3
    <3>2. QED
      BY <1>6, <1>7, <3>1
  <2>2. /\ Ring(buf, rx_out, rx_in) =
             [i \in 1 .. Used(rx_in, rx_out) |-> buf[Bump(rx_out, i - 1)]]
        /\ Ring(rx_buf, rx_out, rx_in) =
             [i \in 1 .. Used(rx_in, rx_out) |-> rx_buf[Bump(rx_out, i - 1)]]
    BY DEF Ring, Used
  <2>3. QED
    BY <1>1, <2>1, <2>2
<1>9. Ring(buf, rx_out, Bump(rx_in, 1)) = ring \o <<head>>
  <2>1. /\ Used(rx_in, rx_out) + 1 <= BufLen - 1 /\ 1 \in Nat
        /\ Len(<<head>>) = 1
    BY <1>1, <1>5
  <2>2. \A i \in 1 .. 1 : <<head>>[i] = buf[Bump(rx_in, i - 1)]
    <3>1. Bump(rx_in, 1 - 1) = rx_in
      BY <1>3, BumpIs, JtagAssumption DEF Slot
    <3>2. <<head>>[1] = buf[Bump(rx_in, 1 - 1)]
      BY <1>6, <3>1
    <3>3. QED
      BY <3>2
  <2>3. Ring(buf, rx_out, Bump(rx_in, 1)) = Ring(buf, rx_out, rx_in) \o <<head>>
    <3>1. /\ buf \in [Slot -> InChar] /\ rx_out \in Slot /\ rx_in \in Slot
          /\ <<head>> \in Seq(InChar)
      BY <1>3, <1>4, <1>6
    <3>2. SUFFICES ASSUME NEW more, more = <<head>>
                   PROVE  Ring(buf, rx_out, Bump(rx_in, 1)) = Ring(buf, rx_out, rx_in) \o more
      OBVIOUS
    <3>3. /\ more \in Seq(InChar) /\ Len(more) = 1
          /\ \A i \in 1 .. 1 : more[i] = buf[Bump(rx_in, i - 1)]
      BY <2>1, <2>2, <3>1, <3>2
    <3>4. QED
      BY ONLY <2>1, <3>1, <3>3, RingGrows, ZenonT(60)
  <2>4. QED
    BY <1>8, <2>3
<1>10. InChan' = InChan
  <2>1. InChan' = (ring \o <<head>>) \o tail
    BY <1>2, <1>9 DEF InChan
  <2>2. (ring \o <<head>>) \o tail = ring \o (<<head>> \o tail)
    <3>1. ring \in Seq(InChar) /\ <<head>> \in Seq(InChar) /\ tail \in Seq(InChar)
      BY <1>3, <1>4
    <3>2. QED
      BY ONLY <3>1, ConcatAssociative
  <2>3. QED
    BY <1>3, <1>4, <2>1, <2>2
<1>11. UNCHANGED In!vars
  BY <1>2, <1>10 DEF In!vars
<1>12. ReadInv'
  <2>1. SUFFICES ASSUME call.pc = "release"
                 PROVE  /\ call.n <= Used(rx_in', rx_out) /\ rx_out + call.n <= BufLen
                        /\ \A i \in 1 .. call.n : call.buffer[i] = buf[rx_out + i - 1]
    BY <1>2 DEF ReadInv, Used
  <2>2. /\ call.n <= u /\ rx_out + call.n <= BufLen
        /\ \A i \in 1 .. call.n : call.buffer[i] = rx_buf[rx_out + i - 1]
        /\ call.n \in 0 .. BufLen - 1
    BY <1>1, <2>1, Fields DEF ReadInv
  <2>3. Used(rx_in', rx_out) = u + 1
    <3>1. Used(Bump(rx_in, 1), rx_out) = Used(rx_in, rx_out) + 1
      BY <1>1, <1>3, <1>5, RingFills
    <3>2. QED
      BY <1>1, <1>2, <3>1
  <2>4. ASSUME NEW i \in 1 .. call.n
        PROVE  call.buffer[i] = buf[rx_out + i - 1]
    <3>1. i - 1 \in 0 .. u - 1 /\ i - 1 \in 0 .. BufLen /\ rx_out + (i - 1) < BufLen
          /\ rx_out + i - 1 = rx_out + (i - 1)
      BY <1>3, <2>2, JtagAssumption DEF Slot
    <3>2. Bump(rx_out, i - 1) = rx_out + i - 1
      BY <1>3, <3>1, BumpIs
    <3>3. rx_out + i - 1 \in Slot /\ rx_out + i - 1 # rx_in
      BY <1>7, <3>1, <3>2
    <3>4. QED
      BY <1>6, <2>2, <3>3
  <2>5. QED
    BY <1>3, <2>2, <2>3, <2>4, JtagAssumption
<1>13. QED
  BY <1>11, <1>12

LEMMA ReleaseGets ==
  ASSUME Sound, ReadInv, Release
  PROVE  In!Next /\ ReadInv'
<1>1. SUFFICES ASSUME NEW n, n = call.n,
                      NEW ring, ring = Ring(rx_buf, rx_out, rx_in),
                      NEW head, head = SubSeq(ring, 1, n),
                      NEW rest, rest = Ring(rx_buf, Bump(rx_out, n), rx_in),
                      NEW u, u = Used(rx_in, rx_out)
               PROVE  In!Next /\ ReadInv'
  OBVIOUS
<1>2. /\ rx_out' = Bump(rx_out, n) /\ got' = call.buffer[n]
      /\ UNCHANGED <<rx_in, rx_buf, rxFifo>>
      /\ call.pc = "release" /\ call'.pc # "release"
  <2>1. CallTypes
    BY Types DEF Sound
  <2>2. QED
    BY <1>1, <2>1 DEF Release, CallTypes
<1>3. /\ n \in Nat /\ n > 0 /\ n \in 1 .. BufLen - 1 /\ n <= u /\ rx_out + n <= BufLen
      /\ \A i \in 1 .. n : call.buffer[i] = rx_buf[rx_out + i - 1]
  BY <1>1, <1>2, Fields, JtagAssumption DEF Sound, CallInv, ReadInv
<1>4. /\ rxFifo \in Seq(InChar) /\ ring \in Seq(InChar) /\ rx_buf \in [Slot -> InChar]
      /\ rx_in \in Slot /\ rx_out \in Slot /\ u \in 0 .. BufLen - 1 /\ Len(ring) = u
      /\ InChan = ring \o rxFifo /\ Len(InChan) = u + Len(rxFifo) /\ Len(rxFifo) \in Nat
  BY <1>1, InChanIs, JtagAssumption DEF InChan
<1>5. ring = head \o rest
  <2>1. Ring(rx_buf, rx_out, rx_in) =
          SubSeq(Ring(rx_buf, rx_out, rx_in), 1, n) \o Ring(rx_buf, Bump(rx_out, n), rx_in)
    <3>1. n \in Nat /\ n <= Used(rx_in, rx_out)
      BY <1>1, <1>3
    <3>2. QED
      BY ONLY <1>4, <3>1, RingSplits, ZenonT(60)
  <2>2. QED
    BY <1>1, <2>1
<1>6. head \in Seq(InChar) /\ Len(head) = n /\ rest \in Seq(InChar)
  <2>1. Bump(rx_out, n) \in Slot
    BY <1>1, <1>3, <1>4, RingEmpties
  <2>2. Ring(rx_buf, Bump(rx_out, n), rx_in) \in Seq(InChar)
    BY <1>4, <2>1, RingIs
  <2>3. QED
    BY <1>1, <1>3, <1>4, <2>2
<1>7. SubSeq(InChan, n + 1, Len(InChan)) = rest \o rxFifo
  <2>1. (head \o rest) \o rxFifo = head \o (rest \o rxFifo)
    <3>1. head \in Seq(InChar) /\ rest \in Seq(InChar) /\ rxFifo \in Seq(InChar)
      BY <1>4, <1>6
    <3>2. QED
      BY ONLY <3>1, ConcatAssociative
  <2>2. InChan = head \o (rest \o rxFifo)
    BY <1>4, <1>5, <2>1
  <2>3. rest \o rxFifo \in Seq(InChar)
    BY ONLY <1>4, <1>6, ConcatProperties
  <2>4. SUFFICES ASSUME NEW after, after = rest \o rxFifo
                 PROVE  SubSeq(InChan, n + 1, Len(InChan)) = after
    OBVIOUS
  <2>5. after \in Seq(InChar) /\ InChan = head \o after
    BY <2>2, <2>3, <2>4
  <2>6. SubSeq(head \o after, n + 1, Len(head \o after)) = after
    BY ONLY <1>3, <1>6, <2>5, Dropped
  <2>7. QED
    BY <2>5, <2>6
<1>8. InChan' = SubSeq(InChan, n + 1, Len(InChan))
  BY <1>1, <1>2, <1>7 DEF InChan
<1>9. got' = InChan[n]
  <2>1. InChan[n] = ring[n]
    <3>1. n \in 1 .. Len(ring)
      BY <1>3, <1>4
    <3>2. QED
      BY <1>4, <3>1
  <2>2. ring[n] = rx_buf[Bump(rx_out, n - 1)]
    <3>1. n \in 1 .. Used(rx_in, rx_out)
      BY <1>1, <1>3
    <3>2. \A i \in 1 .. Used(rx_in, rx_out) :
            Ring(rx_buf, rx_out, rx_in)[i] = rx_buf[Bump(rx_out, i - 1)]
      BY ONLY <1>4, RingIs, SMTT(30)
    <3>3. QED
      BY <1>1, <3>1, <3>2
  <2>3. Bump(rx_out, n - 1) = rx_out + n - 1
    <3>1. n - 1 \in 0 .. BufLen /\ rx_out + (n - 1) < BufLen /\ rx_out + (n - 1) = rx_out + n - 1
      BY <1>3, <1>4, JtagAssumption DEF Slot
    <3>2. QED
      BY <1>4, <3>1, BumpIs
  <2>4. QED
    BY <1>2, <1>3, <2>1, <2>2, <2>3
<1>10. In!Next
  <2>1. n \in 1 .. BufLen - 1 + ReadDepth /\ n <= Len(InChan)
    BY <1>3, <1>4, JtagAssumption
  <2>2. In!Get(n)
    BY <1>8, <1>9, <2>1 DEF In!Get
  <2>3. QED
    BY <2>1, <2>2 DEF In!Next
<1>11. ReadInv'
  BY <1>2 DEF ReadInv
<1>12. QED
  BY <1>10, <1>11

(* read() copies no more than the ring holds, in one piece. *)
LEMMA TakeKeepsInput ==
  ASSUME Sound, Take
  PROVE  UNCHANGED In!vars /\ ReadInv'
<1>1. SUFFICES ASSUME NEW n, n = Least(Ready, call.count),
                      NEW copied, copied = [i \in 1 .. n |-> rx_buf[rx_out + i - 1]]
               PROVE  UNCHANGED In!vars /\ ReadInv'
  OBVIOUS
<1>2. /\ call' = [call EXCEPT !.pc = "release", !.n = n, !.count = @ - n, !.buffer = copied]
      /\ UNCHANGED <<rx_in, rx_out, rx_buf, rxFifo, got>>
  <2>1. call' = [call EXCEPT !.pc = "release", !.n = n, !.count = @ - n, !.buffer = copied]
    BY <1>1, Zenon DEF Take
  <2>2. UNCHANGED <<rx_in, rx_out, rx_buf, rxFifo, got>>
    BY DEF Take
  <2>3. QED
    BY <2>1, <2>2
<1>3. call'.n = n /\ call'.buffer = copied
  <2>1. CallTypes
    BY Types DEF Sound
  <2>2. QED
    BY <1>2, <2>1 DEF CallTypes
<1>4. n \in Nat /\ rx_out + n <= BufLen /\ n <= Used(rx_in, rx_out)
  <2>1. n \in 1 .. BufLen - 1 /\ rx_out + n <= BufLen
    BY <1>1, TakeCount
  <2>2. /\ Ready \in 0 .. BufLen /\ Ready <= Used(rx_in, rx_out)
        /\ Used(rx_in, rx_out) \in 0 .. BufLen - 1 /\ call.count \in Nat
    BY Fields, ReadyIs, UsedIs
  <2>3. n <= Ready
    BY <1>1, <2>2, JtagAssumption DEF Least
  <2>4. QED
    BY <2>1, <2>2, <2>3, JtagAssumption
<1>5. ReadInv'
  BY <1>1, <1>2, <1>3, <1>4 DEF ReadInv, Used
<1>6. UNCHANGED In!vars
  BY <1>2 DEF In!vars, InChan
<1>7. QED
  BY <1>5, <1>6

LEMMA RestKeepsInput ==
  ASSUME Sound, ReadInv, [Next]_vars, ~Take, ~Release, ~ReceiveChar, ~HostTypes
  PROVE  UNCHANGED In!vars /\ ReadInv'
<1>1. UNCHANGED <<rxVars, got, rxFifo>>
  BY Frames
<1>2. UNCHANGED In!vars
  BY <1>1 DEF In!vars, InChan
<1>3. CallTypes /\ NoCall.pc = "idle"
  BY Types DEF Sound, NoCall
<1>4. call'.pc # "release" \/ UNCHANGED call
  <2>1. CASE Calls
    BY <1>3, <2>1 DEF Calls, Enter, Write, Read, Close, SetTimeout, NoCall
  <2>2. CASE Running
    BY <1>3, <2>2 DEF Running, Copy, Publish, Full, Kick, Spin, Empty, Await, Rearm, Closed,
       CallTypes
  <2>3. QED
    BY <2>1, <2>2, Frames
<1>5. ReadInv'
  BY <1>1, <1>4 DEF ReadInv, Used
<1>6. QED
  BY <1>2, <1>5

LEMMA InputInit == Init => In!Init /\ ReadInv
<1>1. SUFFICES ASSUME Init
               PROVE  In!Init /\ ReadInv
  OBVIOUS
<1>2. Used(rx_in, rx_out) = 0
  BY <1>1, UsedIs, JtagAssumption DEF Init, Slot
<1>3. Ring(rx_buf, rx_out, rx_in) = <<>>
  <2>1. Ring(rx_buf, rx_out, rx_in) = [i \in 1 .. Used(rx_in, rx_out) |-> rx_buf[Bump(rx_out, i - 1)]]
    BY DEF Ring, Used
  <2>2. QED
    BY <1>2, <2>1
<1>4. InChan = <<>> /\ got = InChars - 1 /\ call.pc = "idle"
  BY <1>1, <1>3 DEF Init, InChan, NoCall
<1>5. QED
  BY <1>4 DEF In!Init, ReadInv

LEMMA InputStep ==
  ASSUME Sound, ReadInv, [Next]_vars
  PROVE  ReadInv' /\ [In!Next]_(In!vars)
<1>1. CASE Take
  BY <1>1, TakeKeepsInput
<1>2. CASE Release
  BY <1>2, ReleaseGets
<1>3. CASE ReceiveChar
  BY <1>3, ReceiveKeepsInput
<1>4. CASE HostTypes
  BY <1>4, TypesPuts
<1>5. CASE ~Take /\ ~Release /\ ~ReceiveChar /\ ~HostTypes
  BY <1>5, RestKeepsInput
<1>6. QED
  BY <1>1, <1>2, <1>3, <1>4, <1>5

(* Whatever is typed at the terminal reaches the program once and in order, *)
(* in pieces of any size: the routine (init.c:132) never fills a slot that  *)
(* read() (read.c:122) has not copied and given up.                         *)
THEOREM InputInOrderHolds == Spec => InputInOrder
<1>1. Init => In!Init /\ ReadInv
  BY InputInit
<1>2. Sound /\ ReadInv /\ [Next]_vars => ReadInv' /\ [In!Next]_(In!vars)
  BY InputStep
<1>3. QED
  BY <1>1, <1>2, SoundHolds, PTL DEF Spec, InputInOrder, In!Spec

===============================================================================
