------------------------------- MODULE UsbHost -------------------------------
(***************************************************************************)
(* The program that reads the USB keyboard (main.c, usb.c, io_handler.c).  *)
(* It resets the CY7C67200 host chip, sets up the keyboard with nine lists *)
(* of transfer descriptors and then polls it for ever.  A list is written  *)
(* to the chip's memory at 0x0500 and started by a pointer to it; the chip *)
(* runs it in a frame of its own, writes the outcome over the control byte *)
(* at 0x0508 and leaves a message.  The keyboard may be pulled and put     *)
(* back at any moment.                                                     *)
(*                                                                         *)
(* A step of the program is one access to the chip, or a list written word *)
(* by word; the chip and the keyboard step in between.                     *)
(***************************************************************************)
EXTENDS Integers

CONSTANTS
  FirstTries,   \* looks for a keyboard after a reset: 5
  Disturbances, \* bounds the lists the line spoils
  PollTries,    \* looks for a keyboard that did not show: 7
  Keys,         \* the keys
  NoKey,        \* the word the program reads when no key is down: 0
  Link          \* a word of a list that points into it: 0x0520

ASSUME UsbAssumption ==
  /\ FirstTries \in Nat \ {0} /\ PollTries \in Nat \ {0}
  /\ Disturbances \in Nat
  /\ NoKey \notin Keys /\ Link \notin Keys \cup {NoKey}

VARIABLES   \* the program
  pc,
  list,         \* the list it is at: 1 .. Poll
  toggle,       \* the low bit of toggle: the data toggle it polls for
  tries,        \* hot_plug_count
  usb_ctl_val   \* the message it read last

VARIABLES   \* the chip
  ctl,          \* the control byte of the list in memory
  cell,         \* the word at 0x051e
  ptr,          \* pCurrentTDPtr points to the list in memory
  run,          \* the list it is running and the toggle, or NoRun
  msg, flag     \* HPI_SIE1_MSG, and its flag in HPI_STATUS

VARIABLES   \* the keyboard
  device,
  conf,         \* the last list it answered since it was reset
  parity,       \* its data toggle
  held,         \* the key down, or NoKey
  pending       \* it has a report to give

VARIABLE disturbed  \* the lists the line spoiled

VARIABLE keycode    \* the parallel port the game reads

VARIABLES   \* history, since the last reset
  answered,     \* a report came in
  repeated      \* the chip had to go over a list again

hostVars   == <<list, toggle, tries, usb_ctl_val>>
chipVars   == <<ctl, cell, ptr, run, msg, flag>>
deviceVars == <<device, conf, parity, held, pending>>
history    == <<answered, repeated>>
vars == <<pc, hostVars, chipVars, deviceVars, disturbed, keycode, history>>

(* The lists: UsbSetAddress, UsbGetDeviceDesc1 and 2, UsbGetConfigDesc1 and *)
(* 2, UsbSetConfig, UsbClassRequest, UsbGetHidDesc, UsbGetReportDesc, and   *)
(* the poll.                                                                *)
SetAddress   == 1
ConfigDesc   == 5
SetConfig    == 6
ClassRequest == 7
ReportDesc   == 9
Poll         == 10

(* The program's places: a reset, the look for a keyboard, a list, a poll.  *)
Resetting == {"hotplug", "init", "reset"}
Looking   == {"look", "insert"}
Listing   == {"endpoint", "submit", "check", "again", "sleep", "readmsg", "clearmsg",
              "control", "retrymsg", "retryclear", "retrywait", "retrycontrol"}
Written   == Listing \ {"endpoint", "submit"}
Polling   == {"poll", "show", "present", "reinsert"}

InPoll == list = Poll /\ pc # "hotplug"

NoRun == [list |-> 0, toggle |-> 0]

Init ==
  /\ pc = "hotplug" /\ list = SetAddress /\ toggle = 0 /\ tries = 0
  /\ usb_ctl_val = "none"
  /\ ctl = "error" /\ cell = NoKey /\ ptr = FALSE /\ run = NoRun
  /\ msg = "none" /\ flag = FALSE
  /\ device \in {"absent", "powered"} /\ conf = 0 /\ parity = 0
  /\ held = NoKey /\ pending = FALSE /\ disturbed = 0
  /\ keycode = NoKey /\ answered = FALSE /\ repeated = FALSE

Goto(place) == pc' = place

-----------------------------------------------------------------------------
(* USB_HOT_PLUG: the chip is reset, its messages are cleared. *)
UsbSoftReset ==
  /\ pc = "hotplug" /\ Goto("init")
  /\ ptr' = FALSE /\ run' = NoRun /\ msg' = "none" /\ flag' = FALSE
  /\ list' = SetAddress /\ tries' = 0
  /\ UNCHANGED <<toggle, usb_ctl_val, ctl, cell, deviceVars, disturbed, keycode, history>>

(* Steps 1 and 2 each end in a mailbox word; any but COMM_ACK starts over.  *)
Refused ==
  /\ pc \in {"init", "reset"} /\ Goto("hotplug")
  /\ UNCHANGED <<hostVars, chipVars, deviceVars, disturbed, keycode, history>>

InitAck ==
  /\ pc = "init" /\ Goto("reset")
  /\ UNCHANGED <<hostVars, chipVars, deviceVars, disturbed, keycode, history>>

(* Step 2 resets the bus: a keyboard there takes address 0 again.           *)
ResetAck ==
  /\ pc = "reset" /\ Goto("look")
  /\ device' = IF device = "absent" THEN device ELSE "default"
  /\ conf' = 0 /\ parity' = 0 /\ pending' = FALSE
  /\ answered' = FALSE /\ repeated' = FALSE
  /\ UNCHANGED <<hostVars, chipVars, held, disturbed, keycode>>

Attached == device # "absent"

(* A keyboard that shows during the looks is set up without a reset. *)
Look ==
  /\ pc = "look"
  /\ \/ /\ Attached /\ Goto("submit") /\ tries' = 0
     \/ /\ ~Attached /\ tries < FirstTries
        /\ tries' = tries + 1 /\ UNCHANGED pc
     \/ /\ ~Attached /\ tries = FirstTries
        /\ Goto("insert") /\ tries' = 0
  /\ UNCHANGED <<list, toggle, usb_ctl_val, chipVars, deviceVars, disturbed, keycode, history>>

Insert ==
  /\ pc \in {"insert", "reinsert"} /\ Attached /\ Goto("hotplug")
  /\ UNCHANGED <<hostVars, chipVars, deviceVars, disturbed, keycode, history>>

-----------------------------------------------------------------------------
(* One list, from main.c:177 to 463, and the poll from 469 to 516.          *)

(* Mutant: the lists end before 0x051e. *)
WordKept == cell

(* Every list but the poll reaches 0x051e. *)
WordAt051e ==
  IF InPoll THEN cell
  ELSE IF list \in {SetAddress, SetConfig, ClassRequest} THEN NoKey ELSE Link

WriteList ==
  /\ ctl' = "active" /\ ptr' = TRUE
  /\ cell' = WordAt051e
  /\ UNCHANGED <<run, msg, flag, disturbed>>

Submit ==
  /\ pc = "submit" /\ Goto("check")
  /\ WriteList
  /\ UNCHANGED <<hostVars, deviceVars, disturbed, keycode, history>>

Check ==
  /\ pc = "check" /\ Goto(IF flag THEN "readmsg" ELSE "again")
  /\ UNCHANGED <<hostVars, chipVars, deviceVars, disturbed, keycode, history>>

(* Mutant: looks for the message again without the wait. *)
AgainHastily ==
  /\ pc = "again" /\ Goto("check")
  /\ WriteList
  /\ UNCHANGED <<hostVars, deviceVars, disturbed, keycode, history>>

(* Mutant: a poll that is started again takes the next toggle. *)
AgainFlips ==
  /\ pc = "again" /\ Goto("sleep")
  /\ toggle' = (IF InPoll THEN 1 - toggle ELSE toggle)
  /\ WriteList
  /\ UNCHANGED <<list, tries, usb_ctl_val, deviceVars, disturbed, keycode, history>>

(* No message: the list is written and started a second time. *)
Again ==
  /\ pc = "again" /\ Goto("sleep")
  /\ WriteList
  /\ UNCHANGED <<hostVars, deviceVars, disturbed, keycode, history>>

(* usleep(10*1000): ten frames, in which the chip finishes a list that was  *)
(* started twice; but a poll waits for the keyboard's next report.          *)
Sleep ==
  /\ pc = "sleep" /\ Goto("check")
  /\ InPoll \/ (run = NoRun /\ ~ptr)
  /\ UNCHANGED <<hostVars, chipVars, deviceVars, disturbed, keycode, history>>

(* UsbWaitTDListDone: the message is read, which clears its flag, and only  *)
(* then overwritten.                                                        *)
ReadMsg ==
  /\ pc = "readmsg" /\ Goto("clearmsg")
  /\ usb_ctl_val' = msg /\ flag' = FALSE
  /\ UNCHANGED <<list, toggle, tries, ctl, cell, ptr, run, msg, deviceVars, disturbed, keycode, history>>

ClearMsg ==
  /\ pc = "clearmsg"
  /\ msg' = "none"
  /\ Goto(IF usb_ctl_val # "done" THEN "readmsg" ELSE IF InPoll THEN "show" ELSE "control")
  /\ UNCHANGED <<hostVars, ctl, cell, ptr, run, flag, deviceVars, disturbed, keycode, history>>

(* The list ran without retries: on to the next one, or to the polling. *)
Proceed ==
  /\ list' = list + 1
  /\ Goto(IF list = ReportDesc THEN "poll"
          ELSE IF list = ConfigDesc THEN "endpoint" ELSE "submit")

(* Before SetConfig five words are written at 0x0576 and the chip is        *)
(* pointed there.  Their control byte, 0x0a, is not active: there is        *)
(* nothing to run, and the pointer no longer leads to the list.             *)
WriteEndpoint ==
  /\ pc = "endpoint" /\ Goto("submit")
  /\ ptr' = FALSE
  /\ UNCHANGED <<hostVars, ctl, cell, run, msg, flag, deviceVars, disturbed, keycode, history>>

(* Mutant: the control byte is printed and not looked at. *)
ControlUnread ==
  /\ pc = "control" /\ Proceed
  /\ UNCHANGED <<toggle, tries, usb_ctl_val, chipVars, deviceVars, disturbed, keycode, history>>

Control ==
  /\ pc = "control"
  /\ IF ctl = "done" THEN Proceed ELSE Goto("retrymsg") /\ UNCHANGED list
  /\ UNCHANGED <<toggle, tries, usb_ctl_val, chipVars, deviceVars, disturbed, keycode, history>>

(* UsbGetRetryCnt, once for the first list and until it is happy for the    *)
(* others.                                                                  *)
RetryMsg ==
  /\ pc = "retrymsg"
  /\ Goto(IF msg = "done" THEN "retryclear" ELSE "retrycontrol")
  /\ flag' = FALSE
  /\ UNCHANGED <<hostVars, ctl, cell, ptr, run, msg, deviceVars, disturbed, keycode, history>>

RetryClear ==
  /\ pc = "retryclear" /\ Goto("retrywait")
  /\ msg' = "none"
  /\ UNCHANGED <<hostVars, ctl, cell, ptr, run, flag, deviceVars, disturbed, keycode, history>>

RetryWait ==
  /\ pc = "retrywait" /\ flag /\ Goto("retrycontrol")
  /\ UNCHANGED <<hostVars, chipVars, deviceVars, disturbed, keycode, history>>

(* Mutant: the first list is retried like the others. *)
RetryControlStays ==
  /\ pc = "retrycontrol"
  /\ IF ctl = "done" THEN Proceed ELSE Goto("retrymsg") /\ UNCHANGED list
  /\ UNCHANGED <<toggle, tries, usb_ctl_val, chipVars, deviceVars, disturbed, keycode, history>>

RetryControl ==
  /\ pc = "retrycontrol"
  /\ IF list = SetAddress THEN Goto("hotplug") /\ UNCHANGED list
     ELSE IF ctl = "done" THEN Proceed
     ELSE Goto("retrymsg") /\ UNCHANGED list
  /\ UNCHANGED <<toggle, tries, usb_ctl_val, chipVars, deviceVars, disturbed, keycode, history>>

-----------------------------------------------------------------------------
(* The polling loop, main.c:469 to 561. *)

StartPoll ==
  /\ pc = "poll" /\ Goto("check")
  /\ toggle' = 1 - toggle
  /\ WriteList
  /\ UNCHANGED <<list, tries, usb_ctl_val, deviceVars, disturbed, keycode, history>>

Show ==
  /\ pc = "show" /\ Goto("present")
  /\ keycode' = cell
  /\ UNCHANGED <<hostVars, chipVars, deviceVars, disturbed, history>>

(* Mutants: one look too many; a removal that is only printed. *)
PresentOnceMore ==
  /\ pc = "present"
  /\ \/ /\ Attached /\ Goto("poll") /\ tries' = 0
     \/ /\ ~Attached /\ tries <= PollTries
        /\ tries' = tries + 1 /\ UNCHANGED pc
     \/ /\ ~Attached /\ tries > PollTries
        /\ Goto("reinsert") /\ tries' = 0
  /\ UNCHANGED <<list, toggle, usb_ctl_val, chipVars, deviceVars, disturbed, keycode, history>>

PresentPrints ==
  /\ pc = "present"
  /\ \/ /\ Attached \/ tries = PollTries
        /\ Goto("poll") /\ tries' = 0
     \/ /\ ~Attached /\ tries < PollTries
        /\ tries' = tries + 1 /\ UNCHANGED pc
  /\ UNCHANGED <<list, toggle, usb_ctl_val, chipVars, deviceVars, disturbed, keycode, history>>

Present ==
  /\ pc = "present"
  /\ \/ /\ Attached /\ Goto("poll") /\ tries' = 0
     \/ /\ ~Attached /\ tries < PollTries
        /\ tries' = tries + 1 /\ UNCHANGED pc
     \/ /\ ~Attached /\ tries = PollTries
        /\ Goto("reinsert") /\ tries' = 0
  /\ UNCHANGED <<list, toggle, usb_ctl_val, chipVars, deviceVars, disturbed, keycode, history>>

Program ==
  \/ UsbSoftReset \/ Look \/ Insert
  \/ Submit \/ Check \/ Sleep \/ ReadMsg \/ ClearMsg \/ Control
  \/ RetryMsg \/ RetryClear \/ RetryWait \/ RetryControl \/ WriteEndpoint
  \/ StartPoll \/ Show \/ Present

-----------------------------------------------------------------------------
(* The chip. *)

(* Only an active list runs: one that has ended is passed over.             *)
Start ==
  /\ ptr /\ run = NoRun
  /\ ptr' = FALSE
  /\ run' = IF ctl \in {"active", "retry"} THEN [list |-> list, toggle |-> toggle] ELSE NoRun
  /\ UNCHANGED <<pc, hostVars, ctl, cell, msg, flag, deviceVars, disturbed, keycode, history>>

Report(outcome) ==
  /\ run' = NoRun /\ ctl' = outcome
  /\ msg' = "done" /\ flag' = TRUE

(* A list of the setup is answered by a keyboard that has the address it is *)
(* sent to.                                                                 *)
AnswersSetup ==
  /\ run.list \in SetAddress .. ReportDesc
  /\ device = IF run.list = SetAddress THEN "default" ELSE "addressed"

(* A poll is answered by a keyboard that is configured. *)
AnswersPoll == run.list = Poll /\ device = "addressed" /\ conf >= SetConfig

FinishSetup ==
  /\ AnswersSetup
  /\ Report("done")
  /\ device' = "addressed"
  /\ conf' = IF run.list > conf THEN run.list ELSE conf
  /\ parity' = IF run.list = SetConfig THEN 0 ELSE parity
  /\ UNCHANGED <<pc, hostVars, cell, ptr, held, pending, disturbed, keycode, history>>

(* Nobody answers, or a keyboard that is not configured refuses. *)
Fail ==
  /\ run # NoRun /\ ~AnswersSetup /\ ~AnswersPoll
  /\ Report("error")
  /\ UNCHANGED <<pc, hostVars, cell, ptr, deviceVars, disturbed, keycode, history>>

(* The keyboard would answer, but not one of the chip's attempts gets       *)
(* through.                                                                 *)
Disturb ==
  /\ disturbed < Disturbances /\ disturbed' = disturbed + 1
  /\ AnswersSetup \/ AnswersPoll
  /\ Report("error")
  /\ UNCHANGED <<pc, hostVars, cell, ptr, deviceVars, keycode, history>>

(* One attempt fails: there is a message, but the list stays for the next   *)
(* frame ("retries occurred", main.c:191).                                  *)
Repeat ==
  /\ disturbed < Disturbances /\ disturbed' = disturbed + 1
  /\ AnswersSetup \/ AnswersPoll
  /\ Report("retry") /\ ptr' = TRUE /\ repeated' = TRUE
  /\ UNCHANGED <<pc, hostVars, cell, deviceVars, keycode, answered>>

(* The first poll after power-up (toggle 1) asks for DATA0. *)
InStep == parity = 1 - run.toggle

FinishPoll ==
  /\ AnswersPoll /\ pending /\ InStep
  /\ Report("done")
  /\ cell' = held /\ answered' = TRUE
  /\ pending' = FALSE /\ parity' = 1 - parity
  /\ UNCHANGED <<pc, hostVars, ptr, device, conf, held, disturbed, keycode, repeated>>

(* Nothing to report, or a report that counts as sent before: the poll      *)
(* stays in the pointer for the next frame.                                 *)
Nak ==
  /\ AnswersPoll /\ ~pending
  /\ run' = NoRun /\ ptr' = TRUE
  /\ UNCHANGED <<pc, hostVars, ctl, cell, msg, flag, deviceVars, disturbed, keycode, history>>

Discard ==
  /\ AnswersPoll /\ pending /\ ~InStep
  /\ run' = NoRun /\ ptr' = TRUE
  /\ pending' = FALSE /\ parity' = 1 - parity
  /\ UNCHANGED <<pc, hostVars, ctl, cell, msg, flag, device, conf, held, disturbed, keycode, history>>

Finish == FinishSetup \/ Fail \/ Disturb \/ Repeat \/ FinishPoll \/ Nak \/ Discard

-----------------------------------------------------------------------------
(* The keyboard and its user. *)

Pull ==
  /\ Attached
  /\ device' = "absent" /\ conf' = 0 /\ parity' = 0 /\ pending' = FALSE
  /\ UNCHANGED <<pc, hostVars, chipVars, held, disturbed, keycode, history>>

Put ==
  /\ ~Attached
  /\ device' = "powered"
  /\ UNCHANGED <<pc, hostVars, chipVars, conf, parity, held, pending, disturbed, keycode, history>>

Type ==
  /\ \E key \in Keys \cup {NoKey} : key # held /\ held' = key
  /\ pending' = (conf >= SetConfig)
  /\ UNCHANGED <<pc, hostVars, chipVars, device, conf, parity, disturbed, keycode, history>>

Next ==
  \/ Program \/ Again \/ Refused \/ InitAck \/ ResetAck
  \/ Start \/ Finish
  \/ Pull \/ Put \/ Type

(* The program and the chip go on.  The chip accepts a reset in the end,    *)
(* and a frame is a thousand steps of the program, so that a list does not  *)
(* end between the look for its message and its second start every time.    *)
Fairness ==
  /\ WF_vars(Program) /\ WF_vars(Again) /\ WF_vars(Start) /\ WF_vars(Finish)
  /\ SF_vars(InitAck) /\ SF_vars(ResetAck) /\ SF_vars(Again /\ ~flag)

Spec == Init /\ [][Next]_vars /\ Fairness

-----------------------------------------------------------------------------
(* Correctness. *)

TypeOK ==
  /\ pc \in Resetting \cup Looking \cup Listing \cup Polling
  /\ list \in SetAddress .. Poll /\ toggle \in 0 .. 1
  /\ tries \in 0 .. FirstTries \cup 0 .. PollTries
  /\ usb_ctl_val \in {"none", "done"}
  /\ ctl \in {"active", "retry", "done", "error"} /\ cell \in Keys \cup {NoKey, Link}
  /\ ptr \in BOOLEAN /\ run \in [list : 0 .. Poll, toggle : 0 .. 1]
  /\ msg \in {"none", "done"} /\ flag \in BOOLEAN
  /\ device \in {"absent", "powered", "default", "addressed"}
  /\ conf \in 0 .. ReportDesc /\ parity \in 0 .. 1
  /\ held \in Keys \cup {NoKey} /\ pending \in BOOLEAN
  /\ disturbed \in 0 .. Disturbances
  /\ keycode \in Keys \cup {NoKey, Link} /\ answered \in BOOLEAN /\ repeated \in BOOLEAN

(* When a new list is written, or the chip is pointed elsewhere             *)
(* (main.c:349), it is through with the last list, also when that was       *)
(* started twice (main.c:181) or repeated: no words change under a running  *)
(* list, and none is lost. And there is no message left that would pass for *)
(* the new list's, unless the chip repeated a list: a program that was at   *)
(* main.c:190 just then goes on with the last message unread.               *)
MemoryIsFree ==
  pc \in {"endpoint", "submit"} =>
    run = NoRun /\ ~ptr /\ (~repeated => ~flag /\ msg = "none")

(* A keyboard that was reset is only polled once it has answered every list *)
(* of the setup, whatever failed, was started twice, or was pulled and put  *)
(* back on the way (main.c:177 to 463).                                     *)
ReadyWhenPolled ==
  InPoll /\ device \in {"default", "addressed"} =>
    device = "addressed" /\ conf = ReportDesc

(* Until a keyboard has sent its first report, the word the program shows   *)
(* the game holds no key: the lists of the setup wipe out what the last     *)
(* keyboard left at 0x051e (main.c:520).                                    *)
NoOldKey ==
  ~answered /\ pc \in Written \cup Polling => cell \notin Keys

(* A keyboard gets the nine requests in the order of the USB standard, none *)
(* before the one before it was answered, although each list is written to  *)
(* the same place and may run twice (main.c:177 to 463).                    *)
RequestsInOrder == [][conf' > conf => conf' = conf + 1]_vars

(* The program can have read the message away between its two accesses at   *)
(* usb.c:533 and then waits for ever.                                       *)
MessageLost ==
  /\ run = NoRun /\ ~ptr /\ msg = "none"
  /\ pc = "readmsg" \/ (pc = "clearmsg" /\ usb_ctl_val = "none")

(* A list that failed in steps 4 to 9 is never sent again (main.c:221).     *)
GivenUp ==
  /\ list \in SetAddress + 1 .. ReportDesc /\ ctl = "error"
  /\ pc \in {"retrymsg", "retrycontrol"} /\ run = NoRun /\ ~ptr

(* The message of the last attempt was read before it was waited for        *)
(* (usb.c:557).                                                             *)
WaitsInVain == pc = "retrywait" /\ run = NoRun /\ ~ptr /\ ~flag

(* The setup of a keyboard that stays ends in the polling, also when lists  *)
(* were sent twice and the keyboard refused the second, or messages came    *)
(* early. Only a bad line can keep it from that: a failure after its        *)
(* address was set, or a list the chip repeated, which makes two messages   *)
(* of which the program waits for one that it took away itself.             *)
SetupEnds ==
  pc = "hotplug" ~>
    \/ InPoll \/ ~Attached
    \/ GivenUp /\ disturbed > 0
    \/ (WaitsInVain \/ MessageLost) /\ repeated

(* A keyboard pulled while it is polled is noticed, unless it is put back   *)
(* at once, and the program waits for the next one (main.c:527); only a     *)
(* message lost at usb.c:533 can keep it from that.                         *)
RemovalNoticed ==
  InPoll /\ ~Attached ~> (pc = "reinsert" \/ ~InPoll \/ Attached \/ MessageLost)

(* What the keyboard has to report is fetched or discarded, even when the   *)
(* polls are out of step with its data toggle (main.c:471 flips it after    *)
(* failures too, and main.c:490 starts a poll again that may have ended).   *)
(* And it does not stay out of step: a keyboard that is not pulled again    *)
(* and again does not have its reports discarded for ever with none shown.  *)
ReportsFetched ==
  /\ InPoll /\ pending ~> (~pending \/ MessageLost)
  /\ []<><<Discard>>_vars => ([]<><<FinishPoll>>_vars \/ []<>~Attached)

(* main.c:531 is headed "USB hot plug routine": whenever the keyboard is    *)
(* pulled, the program comes to look for one again.  It does not when that  *)
(* happens during steps 4 to 9, whose retries never look (main.c:221).      *)
HotPlug ==
  ~Attached ~> (Attached \/ pc \in Looking \/ pc \in {"hotplug", "reinsert"})

=============================================================================
