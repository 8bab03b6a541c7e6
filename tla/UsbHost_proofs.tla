---------------------------- MODULE UsbHost_proofs -----------------------------
(***************************************************************************)
(* The keyboard program's safety properties hold for any numbers of looks, *)
(* disturbances and keys.  The invariant says, for each place of the       *)
(* program, what the chip can be doing with the list in its memory, which  *)
(* messages can be under way, and how far a keyboard that was reset can    *)
(* have come.                                                              *)
(***************************************************************************)
EXTENDS UsbHost, TLAPS

Quiet == run = NoRun /\ ~ptr
Clean == Quiet /\ ~flag /\ msg = "none"

(* The chip has the list in memory to run, or to run once more. *)
Active == ctl \in {"active", "retry"}

Setup    == list \in SetAddress .. ReportDesc
Retrying == {"retrymsg", "retryclear", "retrywait", "retrycontrol"}
Reading  == {"readmsg", "clearmsg", "control"} \cup Retrying
Starting == {"init", "reset", "look", "insert"}

Places ==
  /\ pc \in Starting => list = SetAddress /\ Clean
  /\ pc \in {"endpoint", "submit", "control"} \cup Retrying => Setup
  /\ pc \in Polling => list = Poll
  /\ pc = "hotplug" => list \in {SetAddress, Poll}
  /\ pc \in {"endpoint", "submit"} => Quiet /\ (~repeated => Clean)
  /\ run # NoRun => run.list = list

(* A list that the program has started once is active until the chip is     *)
(* through with it.                                                         *)
Lists ==
  Setup =>
    /\ pc \in {"check"} \cup Reading =>
         /\ Active <=> ~Quiet
         /\ run # NoRun => ~ptr
    /\ pc \in {"again", "sleep"} => (Active => ~Quiet)

(* Unless it repeats a list, the chip leaves one message, when it is quiet. *)
Messages ==
  Setup /\ ~repeated =>
    /\ pc \in Written => ctl # "retry"
    /\ pc = "check" /\ ctl = "active" => ~flag /\ msg = "none"
    /\ pc \in Reading => Quiet
    /\ pc \in Reading \ {"readmsg"} => ~flag
    /\ pc \in {"control"} \cup Retrying => msg = "none"
    /\ pc \notin {"retryclear", "retrywait"}
    /\ flag \/ pc = "readmsg" => msg = "done"
    /\ pc = "clearmsg" => usb_ctl_val = "done"

(* A keyboard that was reset has answered the lists before this one. *)
Progress ==
  /\ device \in {"absent", "powered", "default"} => conf = 0
  /\ pc \in {"look", "insert"} => device # "addressed"
  /\ pc \in Listing /\ Setup =>
       /\ device = "default" => list = SetAddress /\ (pc \in Written => ctl # "done")
       /\ device = "addressed" => conf \in {list - 1, list}
       /\ device = "addressed" /\ pc \in {"endpoint", "submit"} => conf = list - 1
       /\ device = "addressed" /\ pc \in Written /\ ctl = "done" => conf = list
  /\ InPoll => device # "default" /\ (device = "addressed" => conf = ReportDesc)

Inv == TypeOK /\ Places /\ Lists /\ Messages /\ Progress /\ NoOldKey

USE DEF SetAddress, ConfigDesc, SetConfig, ClassRequest, ReportDesc, Poll, Resetting, Looking,
        Listing, Written, Polling, Reading, Retrying, Starting, Setup, InPoll, Attached, Goto,
        hostVars, chipVars, deviceVars, history, Quiet, Clean, Active

LEMMA NoRunList == NoRun.list = 0
  BY DEF NoRun

-----------------------------------------------------------------------------
(* The types, with the Booleans apart. *)

Booleans ==
  /\ ptr \in BOOLEAN /\ flag \in BOOLEAN /\ pending \in BOOLEAN
  /\ answered \in BOOLEAN /\ repeated \in BOOLEAN

Values ==
  /\ pc \in Resetting \cup Looking \cup Listing \cup Polling
  /\ list \in SetAddress .. Poll /\ toggle \in 0 .. 1
  /\ tries \in 0 .. FirstTries \cup 0 .. PollTries
  /\ usb_ctl_val \in {"none", "done"}
  /\ ctl \in {"active", "retry", "done", "error"} /\ cell \in Keys \cup {NoKey, Link}
  /\ run \in [list : 0 .. Poll, toggle : 0 .. 1]
  /\ msg \in {"none", "done"}
  /\ device \in {"absent", "powered", "default", "addressed"}
  /\ conf \in 0 .. ReportDesc /\ parity \in 0 .. 1
  /\ held \in Keys \cup {NoKey}
  /\ disturbed \in 0 .. Disturbances
  /\ keycode \in Keys \cup {NoKey, Link}

LEMMA Types == TypeOK <=> Booleans /\ Values
  BY DEF TypeOK, Booleans, Values

LEMMA BooleansStep ==
  ASSUME Booleans, [Next]_vars
  PROVE  Booleans'
<1>1. CASE UsbSoftReset
  BY <1>1, NoRunList DEF UsbSoftReset, Booleans
<1>2. CASE Look
  BY <1>2 DEF Look, Booleans
<1>3. CASE Insert
  BY <1>3 DEF Insert, Booleans
<1>4. CASE Submit
  BY <1>4 DEF Submit, WriteList, Booleans
<1>5. CASE Check
  BY <1>5 DEF Check, Booleans
<1>6. CASE Sleep
  BY <1>6 DEF Sleep, Booleans
<1>7. CASE ReadMsg
  BY <1>7 DEF ReadMsg, Booleans
<1>8. CASE ClearMsg
  BY <1>8 DEF ClearMsg, Booleans
<1>9. CASE Control
  BY <1>9 DEF Control, Proceed, Booleans
<1>10. CASE RetryMsg
  BY <1>10 DEF RetryMsg, Booleans
<1>11. CASE RetryClear
  BY <1>11 DEF RetryClear, Booleans
<1>12. CASE RetryWait
  BY <1>12 DEF RetryWait, Booleans
<1>13. CASE RetryControl
  BY <1>13 DEF RetryControl, Proceed, Booleans
<1>14. CASE WriteEndpoint
  BY <1>14 DEF WriteEndpoint, Booleans
<1>15. CASE StartPoll
  BY <1>15 DEF StartPoll, WriteList, Booleans
<1>16. CASE Show
  BY <1>16 DEF Show, Booleans
<1>17. CASE Present
  BY <1>17 DEF Present, Booleans
<1>18. CASE Again
  BY <1>18 DEF Again, WriteList, Booleans
<1>19. CASE Refused
  BY <1>19 DEF Refused, Booleans
<1>20. CASE InitAck
  BY <1>20 DEF InitAck, Booleans
<1>21. CASE ResetAck
  BY <1>21 DEF ResetAck, Booleans
<1>22. CASE Start
  BY <1>22, NoRunList DEF Start, Booleans
<1>23. CASE FinishSetup
  BY <1>23, NoRunList DEF FinishSetup, AnswersSetup, Report, Booleans
<1>24. CASE Fail
  BY <1>24, NoRunList DEF Fail, AnswersSetup, AnswersPoll, Report, Booleans
<1>25. CASE Disturb
  BY <1>25, NoRunList DEF Disturb, AnswersSetup, AnswersPoll, Report, Booleans
<1>26. CASE Repeat
  BY <1>26, NoRunList DEF Repeat, AnswersSetup, AnswersPoll, Report, Booleans
<1>27. CASE FinishPoll
  BY <1>27, NoRunList DEF FinishPoll, AnswersPoll, Report, Booleans
<1>28. CASE Nak
  BY <1>28, NoRunList DEF Nak, AnswersPoll, Booleans
<1>29. CASE Discard
  BY <1>29, NoRunList DEF Discard, AnswersPoll, Booleans
<1>30. CASE Pull
  BY <1>30 DEF Pull, Booleans
<1>31. CASE Put
  BY <1>31 DEF Put, Booleans
<1>32. CASE Type
  BY <1>32 DEF Type, Booleans
<1>33. CASE UNCHANGED vars
  BY <1>33 DEF vars, Booleans
<1>34. QED
  BY <1>1, <1>2, <1>3, <1>4, <1>5, <1>6, <1>7, <1>8, <1>9, <1>10, <1>11, <1>12,
     <1>13, <1>14, <1>15, <1>16, <1>17, <1>18, <1>19, <1>20, <1>21, <1>22, <1>23,
     <1>24, <1>25, <1>26, <1>27, <1>28, <1>29, <1>30, <1>31, <1>32, <1>33 DEF Next,
     Program, Finish

LEMMA ValuesStep ==
  ASSUME Values, Places, [Next]_vars
  PROVE  Values'
<1>1. CASE UsbSoftReset
  BY <1>1, NoRunList, UsbAssumption DEF UsbSoftReset, Values, Places, NoRun
<1>2. CASE Look
  BY <1>2, UsbAssumption DEF Look, Values, Places
<1>3. CASE Insert
  BY <1>3 DEF Insert, Values, Places
<1>4. CASE Submit
  BY <1>4, UsbAssumption DEF Submit, WriteList, WordAt051e, Values, Places
<1>5. CASE Check
  BY <1>5 DEF Check, Values, Places
<1>6. CASE Sleep
  BY <1>6 DEF Sleep, Values, Places
<1>7. CASE ReadMsg
  BY <1>7 DEF ReadMsg, Values, Places
<1>8. CASE ClearMsg
  BY <1>8 DEF ClearMsg, Values, Places
<1>9. CASE Control
  BY <1>9 DEF Control, Proceed, Values, Places
<1>10. CASE RetryMsg
  BY <1>10 DEF RetryMsg, Values, Places
<1>11. CASE RetryClear
  BY <1>11 DEF RetryClear, Values, Places
<1>12. CASE RetryWait
  BY <1>12 DEF RetryWait, Values, Places
<1>13. CASE RetryControl
  BY <1>13 DEF RetryControl, Proceed, Values, Places
<1>14. CASE WriteEndpoint
  BY <1>14 DEF WriteEndpoint, Values, Places
<1>15. CASE StartPoll
  BY <1>15, UsbAssumption DEF StartPoll, WriteList, WordAt051e, Values, Places
<1>16. CASE Show
  BY <1>16 DEF Show, Values, Places
<1>17. CASE Present
  BY <1>17, UsbAssumption DEF Present, Values, Places
<1>18. CASE Again
  BY <1>18, UsbAssumption DEF Again, WriteList, WordAt051e, Values, Places
<1>19. CASE Refused
  BY <1>19 DEF Refused, Values, Places
<1>20. CASE InitAck
  BY <1>20 DEF InitAck, Values, Places
<1>21. CASE ResetAck
  BY <1>21 DEF ResetAck, Values, Places
<1>22. CASE Start
  BY <1>22, NoRunList DEF Start, Values, Places, NoRun
<1>23. CASE FinishSetup
  BY <1>23, NoRunList DEF FinishSetup, AnswersSetup, Report, Values, Places, NoRun
<1>24. CASE Fail
  BY <1>24, NoRunList DEF Fail, AnswersSetup, AnswersPoll, Report, Values, Places,
     NoRun
<1>25. CASE Disturb
  BY <1>25, NoRunList, UsbAssumption DEF Disturb, AnswersSetup, AnswersPoll, Report,
     Values, Places, NoRun
<1>26. CASE Repeat
  BY <1>26, NoRunList, UsbAssumption DEF Repeat, AnswersSetup, AnswersPoll, Report,
     Values, Places, NoRun
<1>27. CASE FinishPoll
  BY <1>27, NoRunList DEF FinishPoll, AnswersPoll, Report, Values, Places, NoRun
<1>28. CASE Nak
  BY <1>28, NoRunList DEF Nak, AnswersPoll, Values, Places, NoRun
<1>29. CASE Discard
  BY <1>29, NoRunList DEF Discard, AnswersPoll, Values, Places, NoRun
<1>30. CASE Pull
  BY <1>30 DEF Pull, Values, Places
<1>31. CASE Put
  BY <1>31 DEF Put, Values, Places
<1>32. CASE Type
  BY <1>32 DEF Type, Values, Places
<1>33. CASE UNCHANGED vars
  BY <1>33 DEF vars, Values, Places, NoRun
<1>34. QED
  BY <1>1, <1>2, <1>3, <1>4, <1>5, <1>6, <1>7, <1>8, <1>9, <1>10, <1>11, <1>12,
     <1>13, <1>14, <1>15, <1>16, <1>17, <1>18, <1>19, <1>20, <1>21, <1>22, <1>23,
     <1>24, <1>25, <1>26, <1>27, <1>28, <1>29, <1>30, <1>31, <1>32, <1>33 DEF Next,
     Program, Finish

-----------------------------------------------------------------------------
(* Where the program is, and what the chip does there. *)

LEMMA PlacesStep ==
  ASSUME TypeOK, Places, Lists, Messages, [Next]_vars
  PROVE  Places'
<1>1. CASE UsbSoftReset
  BY <1>1, NoRunList DEF UsbSoftReset, TypeOK, Places, Lists, Messages
<1>2. CASE Look
  BY <1>2 DEF Look, TypeOK, Places, Lists, Messages
<1>3. CASE Insert
  BY <1>3 DEF Insert, TypeOK, Places, Lists, Messages
<1>4. CASE Submit
  BY <1>4 DEF Submit, WriteList, TypeOK, Places, Lists, Messages
<1>5. CASE Check
  BY <1>5 DEF Check, TypeOK, Places, Lists, Messages
<1>6. CASE Sleep
  BY <1>6 DEF Sleep, TypeOK, Places, Lists, Messages
<1>7. CASE ReadMsg
  BY <1>7 DEF ReadMsg, TypeOK, Places, Lists, Messages
<1>8. CASE ClearMsg
  BY <1>8 DEF ClearMsg, TypeOK, Places, Lists, Messages
<1>9. CASE Control
  BY <1>9 DEF Control, Proceed, TypeOK, Places, Lists, Messages
<1>10. CASE RetryMsg
  BY <1>10 DEF RetryMsg, TypeOK, Places, Lists, Messages
<1>11. CASE RetryClear
  BY <1>11 DEF RetryClear, TypeOK, Places, Lists, Messages
<1>12. CASE RetryWait
  BY <1>12 DEF RetryWait, TypeOK, Places, Lists, Messages
<1>13. CASE RetryControl
  BY <1>13 DEF RetryControl, Proceed, TypeOK, Places, Lists, Messages
<1>14. CASE WriteEndpoint
  BY <1>14 DEF WriteEndpoint, TypeOK, Places, Lists, Messages
<1>15. CASE StartPoll
  BY <1>15 DEF StartPoll, WriteList, TypeOK, Places, Lists, Messages
<1>16. CASE Show
  BY <1>16 DEF Show, TypeOK, Places, Lists, Messages
<1>17. CASE Present
  BY <1>17 DEF Present, TypeOK, Places, Lists, Messages
<1>18. CASE Again
  BY <1>18 DEF Again, WriteList, TypeOK, Places, Lists, Messages
<1>19. CASE Refused
  BY <1>19 DEF Refused, TypeOK, Places, Lists, Messages
<1>20. CASE InitAck
  BY <1>20 DEF InitAck, TypeOK, Places, Lists, Messages
<1>21. CASE ResetAck
  BY <1>21 DEF ResetAck, TypeOK, Places, Lists, Messages
<1>22. CASE Start
  BY <1>22, NoRunList DEF Start, TypeOK, Places, Lists, Messages
<1>23. CASE FinishSetup
  BY <1>23, NoRunList DEF FinishSetup, AnswersSetup, Report, TypeOK, Places, Lists,
     Messages
<1>24. CASE Fail
  BY <1>24, NoRunList DEF Fail, AnswersSetup, AnswersPoll, Report, TypeOK, Places,
     Lists, Messages
<1>25. CASE Disturb
  BY <1>25, NoRunList DEF Disturb, AnswersSetup, AnswersPoll, Report, TypeOK,
     Places, Lists, Messages
<1>26. CASE Repeat
  BY <1>26, NoRunList DEF Repeat, AnswersSetup, AnswersPoll, Report, TypeOK, Places,
     Lists, Messages
<1>27. CASE FinishPoll
  BY <1>27, NoRunList DEF FinishPoll, AnswersPoll, Report, TypeOK, Places, Lists,
     Messages
<1>28. CASE Nak
  BY <1>28, NoRunList DEF Nak, AnswersPoll, TypeOK, Places, Lists, Messages
<1>29. CASE Discard
  BY <1>29, NoRunList DEF Discard, AnswersPoll, TypeOK, Places, Lists, Messages
<1>30. CASE Pull
  BY <1>30 DEF Pull, TypeOK, Places, Lists, Messages
<1>31. CASE Put
  BY <1>31 DEF Put, TypeOK, Places, Lists, Messages
<1>32. CASE Type
  BY <1>32 DEF Type, TypeOK, Places, Lists, Messages
<1>33. CASE UNCHANGED vars
  BY <1>33 DEF vars, TypeOK, Places, Lists, Messages
<1>34. QED
  BY <1>1, <1>2, <1>3, <1>4, <1>5, <1>6, <1>7, <1>8, <1>9, <1>10, <1>11, <1>12,
     <1>13, <1>14, <1>15, <1>16, <1>17, <1>18, <1>19, <1>20, <1>21, <1>22, <1>23,
     <1>24, <1>25, <1>26, <1>27, <1>28, <1>29, <1>30, <1>31, <1>32, <1>33 DEF Next,
     Program, Finish

LEMMA ListsStep ==
  ASSUME TypeOK, Places, Lists, [Next]_vars
  PROVE  Lists'
<1>1. CASE UsbSoftReset
  BY <1>1, NoRunList DEF UsbSoftReset, TypeOK, Places, Lists
<1>2. CASE Look
  BY <1>2 DEF Look, TypeOK, Places, Lists
<1>3. CASE Insert
  BY <1>3 DEF Insert, TypeOK, Places, Lists
<1>4. CASE Submit
  BY <1>4 DEF Submit, WriteList, TypeOK, Places, Lists
<1>5. CASE Check
  BY <1>5 DEF Check, TypeOK, Places, Lists
<1>6. CASE Sleep
  BY <1>6 DEF Sleep, TypeOK, Places, Lists
<1>7. CASE ReadMsg
  BY <1>7 DEF ReadMsg, TypeOK, Places, Lists
<1>8. CASE ClearMsg
  BY <1>8 DEF ClearMsg, TypeOK, Places, Lists
<1>9. CASE Control
  BY <1>9 DEF Control, Proceed, TypeOK, Places, Lists
<1>10. CASE RetryMsg
  BY <1>10 DEF RetryMsg, TypeOK, Places, Lists
<1>11. CASE RetryClear
  BY <1>11 DEF RetryClear, TypeOK, Places, Lists
<1>12. CASE RetryWait
  BY <1>12 DEF RetryWait, TypeOK, Places, Lists
<1>13. CASE RetryControl
  BY <1>13 DEF RetryControl, Proceed, TypeOK, Places, Lists
<1>14. CASE WriteEndpoint
  BY <1>14 DEF WriteEndpoint, TypeOK, Places, Lists
<1>15. CASE StartPoll
  BY <1>15 DEF StartPoll, WriteList, TypeOK, Places, Lists
<1>16. CASE Show
  BY <1>16 DEF Show, TypeOK, Places, Lists
<1>17. CASE Present
  BY <1>17 DEF Present, TypeOK, Places, Lists
<1>18. CASE Again
  BY <1>18 DEF Again, WriteList, TypeOK, Places, Lists
<1>19. CASE Refused
  BY <1>19 DEF Refused, TypeOK, Places, Lists
<1>20. CASE InitAck
  BY <1>20 DEF InitAck, TypeOK, Places, Lists
<1>21. CASE ResetAck
  BY <1>21 DEF ResetAck, TypeOK, Places, Lists
<1>22. CASE Start
  BY <1>22, NoRunList DEF Start, TypeOK, Places, Lists
<1>23. CASE FinishSetup
  BY <1>23, NoRunList DEF FinishSetup, AnswersSetup, Report, TypeOK, Places, Lists
<1>24. CASE Fail
  BY <1>24, NoRunList DEF Fail, AnswersSetup, AnswersPoll, Report, TypeOK, Places,
     Lists
<1>25. CASE Disturb
  BY <1>25, NoRunList DEF Disturb, AnswersSetup, AnswersPoll, Report, TypeOK,
     Places, Lists
<1>26. CASE Repeat
  BY <1>26, NoRunList DEF Repeat, AnswersSetup, AnswersPoll, Report, TypeOK, Places,
     Lists
<1>27. CASE FinishPoll
  BY <1>27, NoRunList DEF FinishPoll, AnswersPoll, Report, TypeOK, Places, Lists
<1>28. CASE Nak
  BY <1>28, NoRunList DEF Nak, AnswersPoll, TypeOK, Places, Lists
<1>29. CASE Discard
  BY <1>29, NoRunList DEF Discard, AnswersPoll, TypeOK, Places, Lists
<1>30. CASE Pull
  BY <1>30 DEF Pull, TypeOK, Places, Lists
<1>31. CASE Put
  BY <1>31 DEF Put, TypeOK, Places, Lists
<1>32. CASE Type
  BY <1>32 DEF Type, TypeOK, Places, Lists
<1>33. CASE UNCHANGED vars
  BY <1>33 DEF vars, TypeOK, Places, Lists
<1>34. QED
  BY <1>1, <1>2, <1>3, <1>4, <1>5, <1>6, <1>7, <1>8, <1>9, <1>10, <1>11, <1>12,
     <1>13, <1>14, <1>15, <1>16, <1>17, <1>18, <1>19, <1>20, <1>21, <1>22, <1>23,
     <1>24, <1>25, <1>26, <1>27, <1>28, <1>29, <1>30, <1>31, <1>32, <1>33 DEF Next,
     Program, Finish

LEMMA MessagesStep ==
  ASSUME TypeOK, Places, Lists, Messages, [Next]_vars
  PROVE  Messages'
<1>1. CASE UsbSoftReset
  BY <1>1, NoRunList DEF UsbSoftReset, TypeOK, Places, Lists, Messages
<1>2. CASE Look
  BY <1>2 DEF Look, TypeOK, Places, Lists, Messages
<1>3. CASE Insert
  BY <1>3 DEF Insert, TypeOK, Places, Lists, Messages
<1>4. CASE Submit
  BY <1>4 DEF Submit, WriteList, TypeOK, Places, Lists, Messages
<1>5. CASE Check
  BY <1>5 DEF Check, TypeOK, Places, Lists, Messages
<1>6. CASE Sleep
  BY <1>6 DEF Sleep, TypeOK, Places, Lists, Messages
<1>7. CASE ReadMsg
  BY <1>7 DEF ReadMsg, TypeOK, Places, Lists, Messages
<1>8. CASE ClearMsg
  BY <1>8 DEF ClearMsg, TypeOK, Places, Lists, Messages
<1>9. CASE Control
  BY <1>9 DEF Control, Proceed, TypeOK, Places, Lists, Messages
<1>10. CASE RetryMsg
  BY <1>10 DEF RetryMsg, TypeOK, Places, Lists, Messages
<1>11. CASE RetryClear
  BY <1>11 DEF RetryClear, TypeOK, Places, Lists, Messages
<1>12. CASE RetryWait
  BY <1>12 DEF RetryWait, TypeOK, Places, Lists, Messages
<1>13. CASE RetryControl
  BY <1>13 DEF RetryControl, Proceed, TypeOK, Places, Lists, Messages
<1>14. CASE WriteEndpoint
  BY <1>14 DEF WriteEndpoint, TypeOK, Places, Lists, Messages
<1>15. CASE StartPoll
  BY <1>15 DEF StartPoll, WriteList, TypeOK, Places, Lists, Messages
<1>16. CASE Show
  BY <1>16 DEF Show, TypeOK, Places, Lists, Messages
<1>17. CASE Present
  BY <1>17 DEF Present, TypeOK, Places, Lists, Messages
<1>18. CASE Again
  BY <1>18 DEF Again, WriteList, TypeOK, Places, Lists, Messages
<1>19. CASE Refused
  BY <1>19 DEF Refused, TypeOK, Places, Lists, Messages
<1>20. CASE InitAck
  BY <1>20 DEF InitAck, TypeOK, Places, Lists, Messages
<1>21. CASE ResetAck
  BY <1>21 DEF ResetAck, TypeOK, Places, Lists, Messages
<1>22. CASE Start
  BY <1>22, NoRunList DEF Start, TypeOK, Places, Lists, Messages
<1>23. CASE FinishSetup
  BY <1>23, NoRunList DEF FinishSetup, AnswersSetup, Report, TypeOK, Places, Lists,
     Messages
<1>24. CASE Fail
  BY <1>24, NoRunList DEF Fail, AnswersSetup, AnswersPoll, Report, TypeOK, Places,
     Lists, Messages
<1>25. CASE Disturb
  BY <1>25, NoRunList DEF Disturb, AnswersSetup, AnswersPoll, Report, TypeOK,
     Places, Lists, Messages
<1>26. CASE Repeat
  BY <1>26, NoRunList DEF Repeat, AnswersSetup, AnswersPoll, Report, TypeOK, Places,
     Lists, Messages
<1>27. CASE FinishPoll
  BY <1>27, NoRunList DEF FinishPoll, AnswersPoll, Report, TypeOK, Places, Lists,
     Messages
<1>28. CASE Nak
  BY <1>28, NoRunList DEF Nak, AnswersPoll, TypeOK, Places, Lists, Messages
<1>29. CASE Discard
  BY <1>29, NoRunList DEF Discard, AnswersPoll, TypeOK, Places, Lists, Messages
<1>30. CASE Pull
  BY <1>30 DEF Pull, TypeOK, Places, Lists, Messages
<1>31. CASE Put
  BY <1>31 DEF Put, TypeOK, Places, Lists, Messages
<1>32. CASE Type
  BY <1>32 DEF Type, TypeOK, Places, Lists, Messages
<1>33. CASE UNCHANGED vars
  BY <1>33 DEF vars, TypeOK, Places, Lists, Messages
<1>34. QED
  BY <1>1, <1>2, <1>3, <1>4, <1>5, <1>6, <1>7, <1>8, <1>9, <1>10, <1>11, <1>12,
     <1>13, <1>14, <1>15, <1>16, <1>17, <1>18, <1>19, <1>20, <1>21, <1>22, <1>23,
     <1>24, <1>25, <1>26, <1>27, <1>28, <1>29, <1>30, <1>31, <1>32, <1>33 DEF Next,
     Program, Finish

-----------------------------------------------------------------------------
(* How far the keyboard is, and the word at 0x051e. *)

LEMMA ProgressStep ==
  ASSUME TypeOK, Places, Lists, Progress, [Next]_vars
  PROVE  Progress'
<1>1. CASE UsbSoftReset
  BY <1>1, NoRunList DEF UsbSoftReset, TypeOK, Places, Lists, Progress
<1>2. CASE Look
  BY <1>2 DEF Look, TypeOK, Places, Lists, Progress
<1>3. CASE Insert
  BY <1>3 DEF Insert, TypeOK, Places, Lists, Progress
<1>4. CASE Submit
  BY <1>4 DEF Submit, WriteList, TypeOK, Places, Lists, Progress
<1>5. CASE Check
  BY <1>5 DEF Check, TypeOK, Places, Lists, Progress
<1>6. CASE Sleep
  BY <1>6 DEF Sleep, TypeOK, Places, Lists, Progress
<1>7. CASE ReadMsg
  BY <1>7 DEF ReadMsg, TypeOK, Places, Lists, Progress
<1>8. CASE ClearMsg
  BY <1>8 DEF ClearMsg, TypeOK, Places, Lists, Progress
<1>9. CASE Control
  BY <1>9 DEF Control, Proceed, TypeOK, Places, Lists, Progress
<1>10. CASE RetryMsg
  BY <1>10 DEF RetryMsg, TypeOK, Places, Lists, Progress
<1>11. CASE RetryClear
  BY <1>11 DEF RetryClear, TypeOK, Places, Lists, Progress
<1>12. CASE RetryWait
  BY <1>12 DEF RetryWait, TypeOK, Places, Lists, Progress
<1>13. CASE RetryControl
  BY <1>13 DEF RetryControl, Proceed, TypeOK, Places, Lists, Progress
<1>14. CASE WriteEndpoint
  BY <1>14 DEF WriteEndpoint, TypeOK, Places, Lists, Progress
<1>15. CASE StartPoll
  BY <1>15 DEF StartPoll, WriteList, TypeOK, Places, Lists, Progress
<1>16. CASE Show
  BY <1>16 DEF Show, TypeOK, Places, Lists, Progress
<1>17. CASE Present
  BY <1>17 DEF Present, TypeOK, Places, Lists, Progress
<1>18. CASE Again
  BY <1>18 DEF Again, WriteList, TypeOK, Places, Lists, Progress
<1>19. CASE Refused
  BY <1>19 DEF Refused, TypeOK, Places, Lists, Progress
<1>20. CASE InitAck
  BY <1>20 DEF InitAck, TypeOK, Places, Lists, Progress
<1>21. CASE ResetAck
  BY <1>21 DEF ResetAck, TypeOK, Places, Lists, Progress
<1>22. CASE Start
  BY <1>22, NoRunList DEF Start, TypeOK, Places, Lists, Progress
<1>23. CASE FinishSetup
  BY <1>23, NoRunList DEF FinishSetup, AnswersSetup, Report, TypeOK, Places, Lists,
     Progress
<1>24. CASE Fail
  BY <1>24, NoRunList DEF Fail, AnswersSetup, AnswersPoll, Report, TypeOK, Places,
     Lists, Progress
<1>25. CASE Disturb
  BY <1>25, NoRunList DEF Disturb, AnswersSetup, AnswersPoll, Report, TypeOK,
     Places, Lists, Progress
<1>26. CASE Repeat
  BY <1>26, NoRunList DEF Repeat, AnswersSetup, AnswersPoll, Report, TypeOK, Places,
     Lists, Progress
<1>27. CASE FinishPoll
  BY <1>27, NoRunList DEF FinishPoll, AnswersPoll, Report, TypeOK, Places, Lists,
     Progress
<1>28. CASE Nak
  BY <1>28, NoRunList DEF Nak, AnswersPoll, TypeOK, Places, Lists, Progress
<1>29. CASE Discard
  BY <1>29, NoRunList DEF Discard, AnswersPoll, TypeOK, Places, Lists, Progress
<1>30. CASE Pull
  BY <1>30 DEF Pull, TypeOK, Places, Lists, Progress
<1>31. CASE Put
  BY <1>31 DEF Put, TypeOK, Places, Lists, Progress
<1>32. CASE Type
  BY <1>32 DEF Type, TypeOK, Places, Lists, Progress
<1>33. CASE UNCHANGED vars
  BY <1>33 DEF vars, TypeOK, Places, Lists, Progress
<1>34. QED
  BY <1>1, <1>2, <1>3, <1>4, <1>5, <1>6, <1>7, <1>8, <1>9, <1>10, <1>11, <1>12,
     <1>13, <1>14, <1>15, <1>16, <1>17, <1>18, <1>19, <1>20, <1>21, <1>22, <1>23,
     <1>24, <1>25, <1>26, <1>27, <1>28, <1>29, <1>30, <1>31, <1>32, <1>33 DEF Next,
     Program, Finish

LEMMA WordStep ==
  ASSUME TypeOK, Places, NoOldKey, [Next]_vars
  PROVE  NoOldKey'
<1>1. CASE UsbSoftReset
  BY <1>1, NoRunList, UsbAssumption DEF UsbSoftReset, TypeOK, Places, NoOldKey
<1>2. CASE Look
  BY <1>2, UsbAssumption DEF Look, TypeOK, Places, NoOldKey
<1>3. CASE Insert
  BY <1>3 DEF Insert, TypeOK, Places, NoOldKey
<1>4. CASE Submit
  BY <1>4, UsbAssumption DEF Submit, WriteList, WordAt051e, TypeOK, Places, NoOldKey
<1>5. CASE Check
  BY <1>5 DEF Check, TypeOK, Places, NoOldKey
<1>6. CASE Sleep
  BY <1>6 DEF Sleep, TypeOK, Places, NoOldKey
<1>7. CASE ReadMsg
  BY <1>7 DEF ReadMsg, TypeOK, Places, NoOldKey
<1>8. CASE ClearMsg
  BY <1>8 DEF ClearMsg, TypeOK, Places, NoOldKey
<1>9. CASE Control
  BY <1>9 DEF Control, Proceed, TypeOK, Places, NoOldKey
<1>10. CASE RetryMsg
  BY <1>10 DEF RetryMsg, TypeOK, Places, NoOldKey
<1>11. CASE RetryClear
  BY <1>11 DEF RetryClear, TypeOK, Places, NoOldKey
<1>12. CASE RetryWait
  BY <1>12 DEF RetryWait, TypeOK, Places, NoOldKey
<1>13. CASE RetryControl
  BY <1>13 DEF RetryControl, Proceed, TypeOK, Places, NoOldKey
<1>14. CASE WriteEndpoint
  BY <1>14 DEF WriteEndpoint, TypeOK, Places, NoOldKey
<1>15. CASE StartPoll
  BY <1>15, UsbAssumption DEF StartPoll, WriteList, WordAt051e, TypeOK, Places,
     NoOldKey
<1>16. CASE Show
  BY <1>16 DEF Show, TypeOK, Places, NoOldKey
<1>17. CASE Present
  BY <1>17, UsbAssumption DEF Present, TypeOK, Places, NoOldKey
<1>18. CASE Again
  BY <1>18, UsbAssumption DEF Again, WriteList, WordAt051e, TypeOK, Places, NoOldKey
<1>19. CASE Refused
  BY <1>19 DEF Refused, TypeOK, Places, NoOldKey
<1>20. CASE InitAck
  BY <1>20 DEF InitAck, TypeOK, Places, NoOldKey
<1>21. CASE ResetAck
  BY <1>21 DEF ResetAck, TypeOK, Places, NoOldKey
<1>22. CASE Start
  BY <1>22, NoRunList DEF Start, TypeOK, Places, NoOldKey
<1>23. CASE FinishSetup
  BY <1>23, NoRunList DEF FinishSetup, AnswersSetup, Report, TypeOK, Places,
     NoOldKey
<1>24. CASE Fail
  BY <1>24, NoRunList DEF Fail, AnswersSetup, AnswersPoll, Report, TypeOK, Places,
     NoOldKey
<1>25. CASE Disturb
  BY <1>25, NoRunList, UsbAssumption DEF Disturb, AnswersSetup, AnswersPoll, Report,
     TypeOK, Places, NoOldKey
<1>26. CASE Repeat
  BY <1>26, NoRunList, UsbAssumption DEF Repeat, AnswersSetup, AnswersPoll, Report,
     TypeOK, Places, NoOldKey
<1>27. CASE FinishPoll
  BY <1>27, NoRunList DEF FinishPoll, AnswersPoll, Report, TypeOK, Places, NoOldKey
<1>28. CASE Nak
  BY <1>28, NoRunList DEF Nak, AnswersPoll, TypeOK, Places, NoOldKey
<1>29. CASE Discard
  BY <1>29, NoRunList DEF Discard, AnswersPoll, TypeOK, Places, NoOldKey
<1>30. CASE Pull
  BY <1>30 DEF Pull, TypeOK, Places, NoOldKey
<1>31. CASE Put
  BY <1>31 DEF Put, TypeOK, Places, NoOldKey
<1>32. CASE Type
  BY <1>32 DEF Type, TypeOK, Places, NoOldKey
<1>33. CASE UNCHANGED vars
  BY <1>33 DEF vars, TypeOK, Places, NoOldKey
<1>34. QED
  BY <1>1, <1>2, <1>3, <1>4, <1>5, <1>6, <1>7, <1>8, <1>9, <1>10, <1>11, <1>12,
     <1>13, <1>14, <1>15, <1>16, <1>17, <1>18, <1>19, <1>20, <1>21, <1>22, <1>23,
     <1>24, <1>25, <1>26, <1>27, <1>28, <1>29, <1>30, <1>31, <1>32, <1>33 DEF Next,
     Program, Finish

-----------------------------------------------------------------------------
(* Together. *)

LEMMA InvInit == Init => Inv
<1> SUFFICES ASSUME Init
             PROVE  Inv
  OBVIOUS
<1>1. Booleans
  BY DEF Init, Booleans
<1>2. Values
  BY UsbAssumption DEF Init, Values, NoRun
<1>3. Places /\ Lists /\ Messages /\ Progress /\ NoOldKey
  BY UsbAssumption DEF Init, Places, Lists, Messages, Progress, NoOldKey
<1>4. QED
  BY <1>1, <1>2, <1>3, Types DEF Inv

LEMMA InvStep == Inv /\ [Next]_vars => Inv'
<1> SUFFICES ASSUME Inv, [Next]_vars
             PROVE  Inv'
  OBVIOUS
<1>1. TypeOK /\ Places /\ Lists /\ Messages /\ Progress /\ NoOldKey
  BY DEF Inv
<1>2. Booleans' /\ Values'
  BY <1>1, Types, BooleansStep, ValuesStep
<1>3. TypeOK'
  BY <1>2 DEF TypeOK, Booleans, Values
<1>4. Places' /\ Lists' /\ Messages' /\ Progress' /\ NoOldKey'
  BY <1>1, PlacesStep, ListsStep, MessagesStep, ProgressStep, WordStep
<1>5. QED
  BY <1>3, <1>4 DEF Inv

THEOREM InvHolds == Spec => []Inv
  BY InvInit, InvStep, PTL DEF Spec

(* The variables keep their types; above all, neither count of looks runs   *)
(* past its end (main.c:138, main.c:529), and list never runs past the poll *)
(* (main.c:463).                                                            *)
THEOREM TypeCorrect == Spec => []TypeOK
<1>1. Inv => TypeOK
  BY DEF Inv
<1>2. QED
  BY <1>1, InvHolds, PTL

(* No list is written over one the chip still runs, and without repetitions *)
(* no message is left for it, although the program starts lists twice       *)
(* (main.c:181).                                                            *)
THEOREM MemoryIsFreeHolds == Spec => []MemoryIsFree
<1>1. Inv => MemoryIsFree
  BY DEF Inv, Places, MemoryIsFree
<1>2. QED
  BY <1>1, InvHolds, PTL

(* The program only polls a keyboard that answered the whole setup          *)
(* (main.c:177 to 463).                                                     *)
THEOREM ReadyWhenPolledHolds == Spec => []ReadyWhenPolled
<1>1. Inv => ReadyWhenPolled
  BY DEF Inv, Progress, ReadyWhenPolled
<1>2. QED
  BY <1>1, InvHolds, PTL

(* The game is not shown a key of the keyboard before (main.c:520). *)
THEOREM NoOldKeyHolds == Spec => []NoOldKey
<1>1. Inv => NoOldKey
  BY DEF Inv
<1>2. QED
  BY <1>1, InvHolds, PTL

(* The setup does not wait for a message that the program took away. *)
NothingLost == Setup /\ ~repeated => ~MessageLost /\ ~WaitsInVain

(* That never happens unless the chip repeats a list: of a list that runs   *)
(* once there is one message, which usb.c:533 reads, and usb.c:557 finds    *)
(* none to wait for.                                                        *)
THEOREM NothingLostHolds == Spec => []NothingLost
<1>1. Inv => NothingLost
  BY DEF Inv, Messages, NothingLost, MessageLost, WaitsInVain
<1>2. QED
  BY <1>1, InvHolds, PTL

LEMMA OrderStep == Inv /\ [Next]_vars => (conf' > conf => conf' = conf + 1)
<1> SUFFICES ASSUME Inv, [Next]_vars, conf' > conf
             PROVE  conf' = conf + 1
  OBVIOUS
<1>1. conf \in Int /\ ~(conf > conf) /\ ~(0 > conf)
  BY DEF Inv, TypeOK
<1>2. FinishSetup
  BY <1>1 DEF Next, Program, Finish, vars, UsbSoftReset, Look, Insert, Submit,
     Check,
     Sleep, ReadMsg, ClearMsg, Control, RetryMsg, RetryClear, RetryWait, RetryControl,
     WriteEndpoint,
     StartPoll, Show, Present, Again, Refused, InitAck, ResetAck, Start, Fail, Disturb,
     Repeat, FinishPoll, Nak, Discard, Pull, Put, Type
<1>3. run # NoRun /\ run.list = list /\ Setup
  BY <1>2, NoRunList DEF FinishSetup, AnswersSetup, Inv, Places
<1>4. conf >= list - 1
  BY <1>2, <1>3 DEF FinishSetup, AnswersSetup, Inv, TypeOK, Places, Progress
<1>5. QED
  BY <1>1, <1>2, <1>3, <1>4 DEF FinishSetup, Inv, TypeOK

(* The keyboard gets the requests of the setup in their order, whatever is  *)
(* sent twice (main.c:177 to 463).                                          *)
THEOREM RequestsInOrderHolds == Spec => RequestsInOrder
  BY InvHolds, OrderStep, PTL DEF Spec, RequestsInOrder

================================================================================
