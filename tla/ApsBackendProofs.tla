-------------------------- MODULE ApsBackendProofs --------------------------
(***************************************************************************)
(* Proofs about the CUPS backend, for every transport, option and bound.   *)
(* The parts of the inductive invariant come first, each with its step     *)
(* lemma, and the theorems that follow from it; then the way of the blocks *)
(* to the printer; then what the backend learns from the printer and does  *)
(* to it, where each theorem names the options it needs.                   *)
(***************************************************************************)
EXTENDS ApsBackend, Flattening, TLAPS

USE ConstantsAssumption DEF ConstantsAssumption

-----------------------------------------------------------------------------
(* Control: which library calls each state function of main() makes.       *)
CallsOf(p) ==
  CASE p = "setup"   -> {"start", "configure", "cfgSync", "setHost", "exited"}
    [] p = "wait"    -> {"poll", "pollSync", "pollRead", "neopWrite", "neopRead", "polled"}
    [] p = "wait2"   -> {"poll", "pollSync", "pollRead", "neopWrite", "neopRead", "polled"}
    [] p = "print"   -> {"header", "body", "nextHeader", "rawRead", "write", "printSync"}
    [] p = "waitUsb" -> {"usbQuery", "usbRead"}
    [] p = "finish"  -> {"poll", "pollSync", "pollRead", "neopWrite", "neopRead",
                         "configure", "cfgSync", "setHost"}
    [] p = "done"    -> {"close", "destroy", "exited"}
    [] p = "recover" -> {"poll", "pollSync", "pollRead", "neopWrite", "neopRead",
                         "reset", "resetSync", "resetClose", "close", "destroy", "exited"}

ControlInv ==
  /\ phase \in Phases
  /\ errnum \in Errors \cup {"OK"}
  /\ expired \in BOOLEAN
  /\ pc \in CallsOf(phase)

(* What a state function that succeeds or fails does to the control.       *)
LEMMA SucceedControl == ControlInv /\ phase \notin {"done", "recover"} /\ Succeed => ControlInv'
<1> SUFFICES ASSUME ControlInv, phase \notin {"done", "recover"}, Succeed PROVE ControlInv'
  OBVIOUS
<1> USE DEF ControlInv, Phases, Succeed, Following, Entry, CallsOf
<1>1. CASE phase = "setup"
  BY <1>1
<1>2. CASE phase = "wait"
  BY <1>2
<1>3. CASE phase = "print"
  BY <1>3
<1>4. CASE phase = "wait2"
  BY <1>4
<1>5. CASE phase = "waitUsb"
  BY <1>5
<1>6. CASE phase = "finish"
  BY <1>6
<1> QED BY <1>1, <1>2, <1>3, <1>4, <1>5, <1>6

LEMMA FailControl == ASSUME ControlInv, NEW e \in Errors, Fail(e) PROVE ControlInv'
  BY DEF ControlInv, Phases, Fail, CallsOf, Errors, Timeouts

(* The calls that come after a success, a failure and a poll.              *)
LEMMA SucceedPc == ASSUME ControlInv, phase \notin {"done", "recover"}, Succeed
                   PROVE  /\ pc' \in {"poll", "header", "usbQuery", "close"}
                          /\ pc' = "header" <=> phase = "wait"
                          /\ phase' \notin {"setup", "recover"}
                          /\ phase = "setup" <=> phase' = "wait"
                          /\ phase = "wait" <=> phase' = "print"
                          /\ phase = "print" <=> phase' = "wait2"
                          /\ phase = "wait2" <=> phase' = "waitUsb"
                          /\ phase = "waitUsb" <=> phase' = "finish"
                          /\ phase = "finish" <=> phase' = "done"
<1> USE DEF ControlInv, Phases, Succeed, Following, Entry
<1>1. CASE phase = "setup"
  BY <1>1
<1>2. CASE phase = "wait"
  BY <1>2
<1>3. CASE phase = "print"
  BY <1>3
<1>4. CASE phase = "wait2"
  BY <1>4
<1>5. CASE phase = "waitUsb"
  BY <1>5
<1>6. CASE phase = "finish"
  BY <1>6
<1> QED BY <1>1, <1>2, <1>3, <1>4, <1>5, <1>6

LEMMA FailPc == ASSUME NEW e, Fail(e) PROVE pc' \in {"poll", "close"} /\ phase' = "recover"
  BY DEF Fail

LEMMA AfterPollPc == ASSUME phase \in {"wait", "wait2", "finish", "recover"}
                     PROVE  /\ AfterPoll[phase] \in {"polled", "configure", "reset"}
                            /\ AfterPoll[phase] = "configure" <=> phase = "finish"
                            /\ AfterPoll[phase] = "reset" <=> phase = "recover"
  BY DEF AfterPoll

LEMMA PollFailsPc == ASSUME NEW e, PollFails(e)
                     PROVE  pc' \in {"poll", "close", "reset"} /\ phase' = "recover"
  BY FailPc DEF PollFails, Goto

(* Each call leaves main() in a state function that makes the next one.    *)
LEMMA ControlStep == ControlInv /\ [Next]_vars => ControlInv'
<1> SUFFICES ASSUME ControlInv, [Next]_vars PROVE ControlInv'
  OBVIOUS
<1> USE DEF ControlInv, Phases, CallsOf, Errors, Timeouts, host, life, line, printer, outside, status, ctl, Quiet, Writes, Reads
<1>1. CASE Open
  BY <1>1 DEF Open, Quit, Goto
<1>2. CASE Configure
  <2>1. phase \notin {"done", "recover"}
    BY <1>2 DEF Configure
  <2>2. ASSUME NEW e \in WriteErrors PROVE e \in Errors
    BY DEF WriteErrors
  <2> QED BY <1>2, <2>1, <2>2, SucceedControl, FailControl DEF Configure, Goto
<1>3. CASE ConfigureSync
  BY <1>3 DEF ConfigureSync, Goto, Fail, Timeouts, Errors, WriteErrors
<1>4. CASE SetHost
  <2>1. phase \notin {"done", "recover"}
    BY <1>4 DEF SetHost
  <2>2. ASSUME NEW e \in WriteErrors PROVE e \in Errors
    BY DEF WriteErrors
  <2> QED BY <1>4, <2>1, <2>2, SucceedControl, FailControl DEF SetHost, Target
<1>5. CASE PollSerial
  BY <1>5 DEF PollSerial, Goto, PollFails, Fail, Timeouts, Errors, WriteErrors
<1>6. CASE PollSync
  BY <1>6 DEF PollSync, Goto, PollFails, Fail, Timeouts, Errors, WriteErrors
<1>7. CASE PollOther
  BY <1>7 DEF PollOther, Goto, PollFails, Fail, Timeouts, Errors, WriteErrors
<1>8. CASE PollRead
  BY <1>8 DEF PollRead, Goto, PollFails, Fail, Timeouts, Errors, AfterStatus, AfterPoll
<1>9. CASE PollUsb
  BY <1>9 DEF PollUsb, Goto, PollFails, Fail, Timeouts, Errors, AfterStatus, AfterPoll
<1>10. CASE NeopWrite
  BY <1>10 DEF NeopWrite, Goto, AfterPoll
<1>11. CASE NeopRead
  BY <1>11 DEF NeopRead, Goto, AfterPoll
<1>12. CASE Wait
  <2>1. phase \notin {"done", "recover"}
    BY <1>12 DEF Wait
  <2>2. ASSUME NEW e \in WriteErrors PROVE e \in Errors
    BY DEF WriteErrors
  <2> QED BY <1>12, <2>1, <2>2, SucceedControl, FailControl DEF Wait, Goto
<1>13. CASE FirstHeader
  BY <1>13 DEF FirstHeader, Goto, Fail, PipeHasBlock, PipeAtEnd, Timeouts, Errors
<1>14. CASE ReadBlock
  BY <1>14 DEF ReadBlock, Goto, Fail, Timeouts, Errors
<1>15. CASE NextHeader
  BY <1>15 DEF NextHeader, Goto, PipeHasBlock, PipeAtEnd
<1>16. CASE RawRead
  BY <1>16 DEF RawRead, Goto, PipeHasBlock, PipeAtEnd
<1>17. CASE WriteBlocks
  BY <1>17 DEF WriteBlocks, WriteFailure, Goto, Fail, Timeouts, Errors
<1>18. CASE PrintSync
  <2>1. phase \notin {"done", "recover"}
    BY <1>18 DEF PrintSync
  <2>2. ASSUME NEW e \in WriteErrors PROVE e \in Errors
    BY DEF WriteErrors
  <2> QED BY <1>18, <2>1, <2>2, SucceedControl, FailControl DEF PrintSync, WriteFailure, Errors, Timeouts
<1>19. CASE WaitUsbQuery
  <2>1. phase \notin {"done", "recover"}
    BY <1>19 DEF WaitUsbQuery
  <2>2. ASSUME NEW e \in WriteErrors PROVE e \in Errors
    BY DEF WriteErrors
  <2> QED BY <1>19, <2>1, <2>2, SucceedControl, FailControl DEF WaitUsbQuery, Goto
<1>20. CASE WaitUsbAnswer
  <2>1. phase \notin {"done", "recover"}
    BY <1>20 DEF WaitUsbAnswer
  <2>2. ASSUME NEW e \in WriteErrors PROVE e \in Errors
    BY DEF WriteErrors
  <2> QED BY <1>20, <2>1, <2>2, SucceedControl, FailControl DEF WaitUsbAnswer
<1>21. CASE ResetSerial
  BY <1>21 DEF ResetSerial, Goto, Quit
<1>22. CASE ResetSync
  BY <1>22 DEF ResetSync, Goto, Quit
<1>23. CASE ResetOther
  BY <1>23 DEF ResetOther, Goto, Quit
<1>24. CASE ResetClose
  BY <1>24 DEF ResetClose, Goto, Quit
<1>25. CASE Close
  BY <1>25 DEF Close, Goto
<1>26. CASE Destroy
  BY <1>26 DEF Destroy, Goto, Quit
<1>27. CASE NextJob
  BY <1>27 DEF NextJob
<1>28. CASE DeadlinePasses
  BY <1>28 DEF DeadlinePasses
<1>29. CASE Sigterm
  BY <1>29 DEF Sigterm, Signal
<1>30. CASE InterruptPipe
  BY <1>30 DEF InterruptPipe, Signal, Fail, Goto, Timeouts, Errors
<1>31. CASE InterruptPort
  BY <1>31 DEF InterruptPort, Signal, PollFails, Fail, Goto, Timeouts, Errors, AfterPoll
<1>32. CASE FilterWrites
  BY <1>32 DEF FilterWrites
<1>33. CASE FilterEnds
  BY <1>33 DEF FilterEnds
<1>34. CASE Transmit
  BY <1>34 DEF Transmit
<1>35. CASE PrintBlock
  BY <1>35 DEF PrintBlock
<1>36. CASE AnswerNeop
  BY <1>36 DEF AnswerNeop
<1>37. CASE AnswerInOrder
  BY <1>37 DEF AnswerInOrder
<1>38. CASE AnswerRealTime
  BY <1>38 DEF AnswerRealTime
<1>39. CASE PaperOut
  BY <1>39 DEF PaperOut
<1>40. CASE PaperIn
  BY <1>40 DEF PaperIn
<1>41. CASE UNCHANGED vars
  BY <1>41 DEF vars
<1> QED
  BY <1>1, <1>2, <1>3, <1>4, <1>5, <1>6, <1>7, <1>8, <1>9, <1>10, <1>11, <1>12, <1>13, <1>14, <1>15, <1>16, <1>17, <1>18, <1>19, <1>20,
     <1>21, <1>22, <1>23, <1>24, <1>25, <1>26, <1>27, <1>28, <1>29, <1>30, <1>31, <1>32, <1>33, <1>34, <1>35, <1>36, <1>37, <1>38, <1>39, <1>40, <1>41
  DEF Next, Backend, Filter, Printer, Terminated

-----------------------------------------------------------------------------
(* Types and the progress of the blocks through the process.               *)
BlockInv ==
  /\ fpos <= Records /\ got <= fpos /\ sent <= got
  /\ pc = "body" => got < fpos

ProcessType ==
  /\ ready \in BOOLEAN /\ genuine \in BOOLEAN
  /\ got \in Nat /\ sent \in Nat /\ fpos \in Nat
  /\ port \in {"none", "open", "closed", "freed"}
  /\ exitCode \in {"none", "zero", "one"}
  /\ paper \in BOOLEAN /\ stops \in 0 .. MaxStops
  /\ cancel \in BOOLEAN /\ eof \in BOOLEAN
  /\ jobs \in 1 .. MaxJobs /\ tainted \in BOOLEAN

LineType ==
  /\ hostSet \in Settings /\ prSet \in Settings
  /\ outq \in Seq(Message) /\ pbuf \in Seq(Message) /\ inq \in Seq(Byte)
  /\ rt \in 0 .. PrinterCap
  /\ printed \in Seq(0 .. Records) /\ lost \subseteq 0 .. Records

(* No block is sent before it was read, nor read before it was written.    *)
LEMMA BlockStep == ProcessType /\ ControlInv /\ BlockInv /\ [Next]_vars => BlockInv'
<1> SUFFICES ASSUME ProcessType, ControlInv, BlockInv, [Next]_vars PROVE BlockInv'
  OBVIOUS
<1> USE DEF ProcessType, BlockInv, host, life, line, printer, outside, status, ctl, Quiet, Writes, Reads
<1>1. CASE Open
  BY <1>1 DEF Open, Quit, Goto
<1>2. CASE Configure
  <2>1. pc' # "body"
    BY <1>2, SucceedPc, FailPc, AfterPollPc, PollFailsPc
    DEF Configure, Goto, ControlInv, CallsOf, Phases
  <2> QED BY <1>2, <2>1 DEF Configure
<1>3. CASE ConfigureSync
  BY <1>3 DEF ConfigureSync, Goto, Fail, Timeouts, Errors, WriteErrors
<1>4. CASE SetHost
  <2>1. pc' # "body"
    BY <1>4, SucceedPc, FailPc, AfterPollPc, PollFailsPc
    DEF SetHost, Target, Goto, ControlInv, CallsOf, Phases
  <2> QED BY <1>4, <2>1 DEF SetHost
<1>5. CASE PollSerial
  BY <1>5 DEF PollSerial, Goto, PollFails, Fail, Timeouts, Errors, WriteErrors
<1>6. CASE PollSync
  BY <1>6 DEF PollSync, Goto, PollFails, Fail, Timeouts, Errors, WriteErrors
<1>7. CASE PollOther
  BY <1>7 DEF PollOther, Goto, PollFails, Fail, Timeouts, Errors, WriteErrors
<1>8. CASE PollRead
  <2>1. pc' # "body"
    BY <1>8, SucceedPc, FailPc, AfterPollPc, PollFailsPc
    DEF PollRead, AfterStatus, Goto, ControlInv, CallsOf, Phases
  <2> QED BY <1>8, <2>1 DEF PollRead
<1>9. CASE PollUsb
  <2>1. pc' # "body"
    BY <1>9, SucceedPc, FailPc, AfterPollPc, PollFailsPc
    DEF PollUsb, AfterStatus, Goto, ControlInv, CallsOf, Phases
  <2> QED BY <1>9, <2>1 DEF PollUsb
<1>10. CASE NeopWrite
  <2>1. pc' # "body"
    BY <1>10, SucceedPc, FailPc, AfterPollPc, PollFailsPc
    DEF NeopWrite, Goto, ControlInv, CallsOf, Phases
  <2> QED BY <1>10, <2>1 DEF NeopWrite
<1>11. CASE NeopRead
  <2>1. pc' # "body"
    BY <1>11, SucceedPc, FailPc, AfterPollPc, PollFailsPc
    DEF NeopRead, Goto, ControlInv, CallsOf, Phases
  <2> QED BY <1>11, <2>1 DEF NeopRead
<1>12. CASE Wait
  <2>1. pc' # "body"
    BY <1>12, SucceedPc, FailPc, AfterPollPc, PollFailsPc
    DEF Wait, Goto, ControlInv, CallsOf, Phases
  <2> QED BY <1>12, <2>1 DEF Wait
<1>13. CASE FirstHeader
  BY <1>13 DEF FirstHeader, Goto, Fail, PipeHasBlock, PipeAtEnd, Timeouts, Errors
<1>14. CASE ReadBlock
  BY <1>14 DEF ReadBlock, Goto
<1>15. CASE NextHeader
  BY <1>15 DEF NextHeader, Goto, PipeHasBlock, PipeAtEnd
<1>16. CASE RawRead
  BY <1>16 DEF RawRead, Goto, PipeHasBlock, PipeAtEnd
<1>17. CASE WriteBlocks
  BY <1>17 DEF WriteBlocks, WriteFailure, Goto, Fail, Timeouts, Errors
<1>18. CASE PrintSync
  <2>1. pc' # "body"
    BY <1>18, SucceedPc, FailPc, AfterPollPc, PollFailsPc
    DEF PrintSync, WriteFailure, Goto, ControlInv, CallsOf, Phases
  <2> QED BY <1>18, <2>1 DEF PrintSync
<1>19. CASE WaitUsbQuery
  <2>1. pc' # "body"
    BY <1>19, SucceedPc, FailPc, AfterPollPc, PollFailsPc
    DEF WaitUsbQuery, Goto, ControlInv, CallsOf, Phases
  <2> QED BY <1>19, <2>1 DEF WaitUsbQuery
<1>20. CASE WaitUsbAnswer
  <2>1. pc' # "body"
    BY <1>20, SucceedPc, FailPc, AfterPollPc, PollFailsPc
    DEF WaitUsbAnswer, Goto, ControlInv, CallsOf, Phases
  <2> QED BY <1>20, <2>1 DEF WaitUsbAnswer
<1>21. CASE ResetSerial
  BY <1>21 DEF ResetSerial, Goto, Quit
<1>22. CASE ResetSync
  BY <1>22 DEF ResetSync, Goto, Quit
<1>23. CASE ResetOther
  BY <1>23 DEF ResetOther, Goto, Quit
<1>24. CASE ResetClose
  BY <1>24 DEF ResetClose, Goto, Quit
<1>25. CASE Close
  BY <1>25 DEF Close, Goto
<1>26. CASE Destroy
  BY <1>26 DEF Destroy, Goto, Quit
<1>27. CASE NextJob
  BY <1>27 DEF NextJob
<1>28. CASE DeadlinePasses
  BY <1>28 DEF DeadlinePasses
<1>29. CASE Sigterm
  BY <1>29 DEF Sigterm, Signal
<1>30. CASE InterruptPipe
  BY <1>30 DEF InterruptPipe, Signal, Fail, Goto, Timeouts, Errors
<1>31. CASE InterruptPort
  <2>1. pc' # "body"
    BY <1>31, SucceedPc, FailPc, AfterPollPc, PollFailsPc
    DEF InterruptPort, Signal, Goto, ControlInv, CallsOf, Phases
  <2> QED BY <1>31, <2>1 DEF InterruptPort, Signal
<1>32. CASE FilterWrites
  BY <1>32 DEF FilterWrites
<1>33. CASE FilterEnds
  BY <1>33 DEF FilterEnds
<1>34. CASE Transmit
  BY <1>34 DEF Transmit
<1>35. CASE PrintBlock
  BY <1>35 DEF PrintBlock
<1>36. CASE AnswerNeop
  BY <1>36 DEF AnswerNeop
<1>37. CASE AnswerInOrder
  BY <1>37 DEF AnswerInOrder
<1>38. CASE AnswerRealTime
  BY <1>38 DEF AnswerRealTime
<1>39. CASE PaperOut
  BY <1>39 DEF PaperOut
<1>40. CASE PaperIn
  BY <1>40 DEF PaperIn
<1>41. CASE UNCHANGED vars
  BY <1>41 DEF vars
<1> QED
  BY <1>1, <1>2, <1>3, <1>4, <1>5, <1>6, <1>7, <1>8, <1>9, <1>10, <1>11, <1>12, <1>13, <1>14, <1>15, <1>16, <1>17, <1>18, <1>19, <1>20,
     <1>21, <1>22, <1>23, <1>24, <1>25, <1>26, <1>27, <1>28, <1>29, <1>30, <1>31, <1>32, <1>33, <1>34, <1>35, <1>36, <1>37, <1>38, <1>39, <1>40, <1>41
  DEF Next, Backend, Filter, Printer, Terminated

(* The variables of the processes keep their types.                        *)
LEMMA ProcessTypeStep == ProcessType /\ ControlInv /\ LineType /\ [Next]_vars => ProcessType'
<1> SUFFICES ASSUME ProcessType, ControlInv, LineType, [Next]_vars PROVE ProcessType'
  OBVIOUS
<1> USE DEF ProcessType, host, life, line, printer, outside, status, ctl, Quiet, Writes, Reads
<1>1. CASE Open
  BY <1>1 DEF Open, Quit, Quit
<1>2. CASE Configure
  BY <1>2 DEF Configure
<1>3. CASE ConfigureSync
  BY <1>3 DEF ConfigureSync
<1>4. CASE SetHost
  BY <1>4 DEF SetHost, Target
<1>5. CASE PollSerial
  BY <1>5 DEF PollSerial
<1>6. CASE PollSync
  BY <1>6 DEF PollSync
<1>7. CASE PollOther
  BY <1>7 DEF PollOther
<1>8. CASE PollRead
  <2>1. genuine' \in BOOLEAN
    BY <1>8 DEF PollRead, Genuine
  <2>2. ready' \in BOOLEAN
    <3>1. CASE UNCHANGED status
      BY <3>1
    <3>2. CASE Len(inq) >= StatusLen /\ ready' \in Decoded(SubSeq(inq, 1, StatusLen))
      <4>1. SubSeq(inq, 1, StatusLen) \in Seq(Byte) /\ Len(SubSeq(inq, 1, StatusLen)) = StatusLen
        BY <3>2 DEF LineType
      <4>2. SubSeq(inq, 1, StatusLen)[1] \in Byte
        BY <4>1
      <4> QED BY <3>2, <4>2 DEF Decoded, Byte
    <3> QED BY <1>8, <3>1, <3>2 DEF PollRead
  <2> QED BY <1>8, <2>1, <2>2 DEF PollRead
<1>9. CASE PollUsb
  BY <1>9 DEF PollUsb, Reported
<1>10. CASE NeopWrite
  BY <1>10 DEF NeopWrite
<1>11. CASE NeopRead
  BY <1>11 DEF NeopRead
<1>12. CASE Wait
  BY <1>12 DEF Wait
<1>13. CASE FirstHeader
  BY <1>13 DEF FirstHeader, PipeHasBlock, PipeAtEnd
<1>14. CASE ReadBlock
  BY <1>14 DEF ReadBlock
<1>15. CASE NextHeader
  BY <1>15 DEF NextHeader, PipeHasBlock, PipeAtEnd
<1>16. CASE RawRead
  BY <1>16 DEF RawRead, PipeHasBlock, PipeAtEnd
<1>17. CASE WriteBlocks
  BY <1>17 DEF WriteBlocks, WriteFailure
<1>18. CASE PrintSync
  BY <1>18 DEF PrintSync
<1>19. CASE WaitUsbQuery
  BY <1>19 DEF WaitUsbQuery
<1>20. CASE WaitUsbAnswer
  BY <1>20 DEF WaitUsbAnswer
<1>21. CASE ResetSerial
  BY <1>21 DEF ResetSerial, Goto, Quit
<1>22. CASE ResetSync
  BY <1>22 DEF ResetSync, Goto, Quit
<1>23. CASE ResetOther
  BY <1>23 DEF ResetOther, Goto, Quit
<1>24. CASE ResetClose
  BY <1>24 DEF ResetClose, Goto, Quit
<1>25. CASE Close
  BY <1>25 DEF Close, Goto
<1>26. CASE Destroy
  BY <1>26 DEF Destroy, Goto, Quit
<1>27. CASE NextJob
  <2>1. jobs' \in 1 .. MaxJobs
    BY <1>27 DEF NextJob
  <2>2. UNCHANGED <<stops, paper>> /\ tainted' \in BOOLEAN
    BY <1>27 DEF NextJob
  <2> QED BY <1>27, <2>1, <2>2 DEF NextJob
<1>28. CASE DeadlinePasses
  BY <1>28 DEF DeadlinePasses
<1>29. CASE Sigterm
  BY <1>29 DEF Sigterm, Signal
<1>30. CASE InterruptPipe
  BY <1>30 DEF InterruptPipe, Signal, Fail, Goto, Timeouts, Errors
<1>31. CASE InterruptPort
  BY <1>31 DEF InterruptPort, Signal, PollFails, Fail, Goto, Timeouts, Errors, AfterPoll
<1>32. CASE FilterWrites
  BY <1>32 DEF FilterWrites
<1>33. CASE FilterEnds
  BY <1>33 DEF FilterEnds
<1>34. CASE Transmit
  BY <1>34 DEF Transmit
<1>35. CASE PrintBlock
  BY <1>35 DEF PrintBlock
<1>36. CASE AnswerNeop
  BY <1>36 DEF AnswerNeop
<1>37. CASE AnswerInOrder
  BY <1>37 DEF AnswerInOrder
<1>38. CASE AnswerRealTime
  BY <1>38 DEF AnswerRealTime
<1>39. CASE PaperOut
  <2>1. stops' \in 0 .. MaxStops
    BY <1>39 DEF PaperOut
  <2> QED BY <1>39, <2>1 DEF PaperOut
<1>40. CASE PaperIn
  BY <1>40 DEF PaperIn
<1>41. CASE UNCHANGED vars
  BY <1>41 DEF vars
<1> QED
  BY <1>1, <1>2, <1>3, <1>4, <1>5, <1>6, <1>7, <1>8, <1>9, <1>10, <1>11, <1>12, <1>13, <1>14, <1>15, <1>16, <1>17, <1>18, <1>19, <1>20,
     <1>21, <1>22, <1>23, <1>24, <1>25, <1>26, <1>27, <1>28, <1>29, <1>30, <1>31, <1>32, <1>33, <1>34, <1>35, <1>36, <1>37, <1>38, <1>39, <1>40, <1>41
  DEF Next, Backend, Filter, Printer, Terminated

(* The types of messages and answers, and what the helpers do to them.     *)
LEMMA CfgType == ASSUME NEW s \in Settings PROVE Cfg(s) \in Message
  BY DEF Cfg, Message, Settings

LEMMA QueryType == ASSUME NEW k \in {"neop", "status", "reset"} PROVE Query(k) \in Message
  BY DEF Query, Message, Settings

LEMMA DataInType == ASSUME NEW q \in Seq(Message) PROVE DataIn(q) \subseteq 0 .. Records
<1> SUFFICES ASSUME NEW i \in DOMAIN q PROVE q[i].rec \in 0 .. Records
  BY DEF DataIn
<1>1. q[i] \in Message
  OBVIOUS
<1> QED BY <1>1 DEF Message

LEMMA EmptyType == <<>> \in Seq(Message) /\ <<>> \in Seq(Byte)
  OBVIOUS

LEMMA WriteType == ASSUME LineType, NEW m \in Message, Write(m)
                   PROVE  outq' \in Seq(Message) /\ pbuf' \in Seq(Message)
<1>1. outq \in Seq(Message) /\ pbuf \in Seq(Message)
  BY DEF LineType
<1>2. CASE PortType = "serial"
  BY <1>1, <1>2 DEF Write, Takes
<1>3. CASE PortType # "serial"
  BY <1>1, <1>3 DEF Write, Takes
<1> QED BY <1>2, <1>3

LEMMA DropType == ASSUME LineType, Len(inq) >= StatusLen
                  PROVE  SubSeq(inq, StatusLen + 1, Len(inq)) \in Seq(Byte)
  BY DEF LineType

LEMMA StatusType == ASSUME NEW r \in Reported PROVE StatusBytes(r) \in Seq(Byte)
<1>1. r \in BOOLEAN
  BY DEF Reported
<1>2. \A i \in 1 .. StatusLen : [kind |-> "status", ready |-> r, pos |-> i] \in Byte
  BY <1>1 DEF Byte
<1> QED BY <1>2 DEF StatusBytes

LEMMA RestType == ASSUME NEW r \in BOOLEAN, NEW k \in 2 .. StatusLen
                  PROVE  SubSeq(StatusBytes(r), k, StatusLen) \in Seq(Byte)
<1>1. \A i \in 1 .. StatusLen : [kind |-> "status", ready |-> r, pos |-> i] \in Byte
  BY DEF Byte
<1>2. StatusBytes(r) \in Seq(Byte) /\ Len(StatusBytes(r)) = StatusLen
  BY <1>1 DEF StatusBytes
<1> QED BY <1>2

LEMMA PrinterResetType ==
  ASSUME LineType, PrinterReset
  PROVE  /\ prSet' \in Settings /\ pbuf' \in Seq(Message) /\ rt' \in 0 .. PrinterCap
         /\ lost' \subseteq 0 .. Records
<1>1. lost' \subseteq 0 .. Records
  BY DataInType DEF PrinterReset, LineType
<1> QED BY <1>1 DEF PrinterReset, Settings

(* The messages and answers in transit keep their types.                   *)
LEMMA LineTypeStep == ProcessType /\ BlockInv /\ LineType /\ [Next]_vars => LineType'
<1> SUFFICES ASSUME ProcessType, BlockInv, LineType, [Next]_vars PROVE LineType'
  OBVIOUS
<1> USE DEF LineType, host, life, line, printer, outside, status, ctl, Quiet, Writes, Reads
<1>1. CASE Open
  <2>1. inq' \in Seq(Byte)
    BY <1>1, EmptyType DEF Open
  <2> QED BY <1>1, <2>1 DEF Open, Settings
<1>2. CASE Configure
  <2>1. Target \in Settings
    BY DEF Target, Settings
  <2> QED BY <1>2, <2>1, CfgType, WriteType DEF Configure, WriteFails
<1>3. CASE ConfigureSync
  BY <1>3 DEF ConfigureSync
<1>4. CASE SetHost
  <2>1. Target \in Settings
    BY DEF Target, Settings
  <2> QED BY <1>4, <2>1 DEF SetHost
<1>5. CASE PollSerial
  <2>0. <<Query("status")>> \in Seq(Message)
    BY QueryType
  <2>1. outq' \in Seq(Message)
    BY <1>5, <2>0, EmptyType DEF PollSerial
  <2>2. inq' \in Seq(Byte)
    BY <1>5, EmptyType, RestType DEF PollSerial, Discard, Flush
  <2>3. lost' \subseteq 0 .. Records
    BY <1>5, DataInType DEF PollSerial, Discard, Flush
  <2>4. rt' = rt \/ (rt > 0 /\ rt' = rt - 1)
    BY <1>5 DEF PollSerial, Discard
  <2>5. rt' \in 0 .. PrinterCap
    BY <2>4
  <2> QED BY <1>5, <2>1, <2>2, <2>3, <2>5 DEF PollSerial
<1>6. CASE PollSync
  BY <1>6 DEF PollSync
<1>7. CASE PollOther
  BY <1>7 DEF PollOther
<1>8. CASE PollRead
  <2>1. inq' \in Seq(Byte)
    BY <1>8, DropType, EmptyType DEF PollRead
  <2> QED BY <1>8, <2>1 DEF PollRead
<1>9. CASE PollUsb
  BY <1>9 DEF PollUsb, AfterStatus
<1>10. CASE NeopWrite
  BY <1>10, QueryType, WriteType DEF NeopWrite, WriteFails
<1>11. CASE NeopRead
  <2>1. inq # <<>> => Tail(inq) \in Seq(Byte)
    OBVIOUS
  <2> QED BY <1>11, <2>1 DEF NeopRead
<1>12. CASE Wait
  BY <1>12 DEF Wait
<1>13. CASE FirstHeader
  BY <1>13 DEF FirstHeader, PipeHasBlock, PipeAtEnd
<1>14. CASE ReadBlock
  BY <1>14 DEF ReadBlock
<1>15. CASE NextHeader
  BY <1>15 DEF NextHeader, PipeHasBlock, PipeAtEnd
<1>16. CASE RawRead
  BY <1>16 DEF RawRead, PipeHasBlock, PipeAtEnd
<1>17. CASE WriteBlocks
  <2>1. sent < got => Data(sent + 1) \in Message
    BY DEF Data, Message, Settings, BlockInv, ProcessType
  <2> QED BY <1>17, <2>1, WriteType DEF WriteBlocks
<1>18. CASE PrintSync
  BY <1>18 DEF PrintSync
<1>19. CASE WaitUsbQuery
  BY <1>19, QueryType, WriteType DEF WaitUsbQuery, WriteFails
<1>20. CASE WaitUsbAnswer
  <2>1. inq' \in Seq(Byte)
    BY <1>20, DropType, EmptyType DEF WaitUsbAnswer
  <2> QED BY <1>20, <2>1 DEF WaitUsbAnswer
<1>21. CASE ResetSerial
  <2>0. <<Query("reset")>> \in Seq(Message)
    BY QueryType
  <2>1. outq' \in Seq(Message) /\ inq' \in Seq(Byte)
    BY <1>21, <2>0, EmptyType DEF ResetSerial, Flush
  <2>2. lost' \subseteq 0 .. Records
    BY <1>21, DataInType DEF ResetSerial, Flush
  <2> QED BY <1>21, <2>1, <2>2 DEF ResetSerial
<1>22. CASE ResetSync
  BY <1>22 DEF ResetSync, Quit
<1>23. CASE ResetOther
  <2>1. CASE PrinterReset
    BY <1>23, <2>1, PrinterResetType, EmptyType DEF ResetOther
  <2>2. CASE UNCHANGED <<prSet, pbuf, rt, lost>>
    BY <1>23, <2>2, EmptyType DEF ResetOther
  <2> QED BY <1>23, <2>1, <2>2 DEF ResetOther
<1>24. CASE ResetClose
  BY <1>24 DEF ResetClose, Quit
<1>25. CASE Close
  BY <1>25 DEF Close
<1>26. CASE Destroy
  BY <1>26 DEF Destroy, Quit
<1>27. CASE NextJob
  BY <1>27 DEF NextJob
<1>28. CASE DeadlinePasses
  BY <1>28 DEF DeadlinePasses
<1>29. CASE Sigterm
  BY <1>29 DEF Sigterm, Signal
<1>30. CASE InterruptPipe
  BY <1>30 DEF InterruptPipe, Signal
<1>31. CASE InterruptPort
  BY <1>31 DEF InterruptPort, Signal
<1>32. CASE FilterWrites
  BY <1>32 DEF FilterWrites
<1>33. CASE FilterEnds
  BY <1>33 DEF FilterEnds
<1>34. CASE Transmit
  <2>1. Head(outq) \in Message /\ outq' \in Seq(Message)
    BY <1>34 DEF Transmit
  <2>2. <<Head(outq)>> \in Seq(Message)
    BY <2>1
  <2>3. lost' \subseteq 0 .. Records
    BY <1>34, <2>2, DataInType, PrinterResetType DEF Transmit
  <2>4. prSet' \in Settings /\ pbuf' \in Seq(Message) /\ rt' \in 0 .. PrinterCap
    <3>1. CASE PrinterReset
      BY <3>1, PrinterResetType
    <3>2. CASE ~PrinterReset
      <4>1. prSet' \in Settings
        BY <1>34, <2>1, <3>2 DEF Transmit, Message
      <4>0. Append(pbuf, Head(outq)) \in Seq(Message)
        BY <2>1
      <4>2. pbuf' \in Seq(Message)
        BY <1>34, <4>0, <3>2 DEF Transmit
      <4>3. rt' \in 0 .. PrinterCap
        BY <1>34, <3>2 DEF Transmit
      <4> QED BY <4>1, <4>2, <4>3
    <3> QED BY <3>1, <3>2
  <2> QED BY <1>34, <2>1, <2>3, <2>4 DEF Transmit
<1>35. CASE PrintBlock
  <2>1. Head(pbuf) \in Message /\ pbuf' \in Seq(Message)
    BY <1>35 DEF PrintBlock
  <2>2. Head(pbuf).rec \in 0 .. Records
    BY <2>1 DEF Message
  <2> QED BY <1>35, <2>1, <2>2 DEF PrintBlock
<1>36. CASE AnswerNeop
  <2>1. <<NeopByte>> \in Seq(Byte)
    BY DEF NeopByte, Byte
  <2> QED BY <1>36, <2>1 DEF AnswerNeop, Answer
<1>37. CASE AnswerInOrder
  <2>1. \A r \in Reported : StatusBytes(r) \in Seq(Byte)
    BY StatusType
  <2>2. inq' \in Seq(Byte)
    BY <1>37, <2>1 DEF AnswerInOrder, Answer
  <2> QED BY <1>37, <2>2 DEF AnswerInOrder
<1>38. CASE AnswerRealTime
  <2>1. \A r \in Reported : StatusBytes(r) \in Seq(Byte)
    BY StatusType
  <2>2. inq' \in Seq(Byte)
    BY <1>38, <2>1 DEF AnswerRealTime, Answer
  <2> QED BY <1>38, <2>2 DEF AnswerRealTime
<1>39. CASE PaperOut
  BY <1>39 DEF PaperOut
<1>40. CASE PaperIn
  BY <1>40 DEF PaperIn
<1>41. CASE UNCHANGED vars
  BY <1>41 DEF vars
<1> QED
  BY <1>1, <1>2, <1>3, <1>4, <1>5, <1>6, <1>7, <1>8, <1>9, <1>10, <1>11, <1>12, <1>13, <1>14, <1>15, <1>16, <1>17, <1>18, <1>19, <1>20,
     <1>21, <1>22, <1>23, <1>24, <1>25, <1>26, <1>27, <1>28, <1>29, <1>30, <1>31, <1>32, <1>33, <1>34, <1>35, <1>36, <1>37, <1>38, <1>39, <1>40, <1>41
  DEF Next, Backend, Filter, Printer, Terminated

-----------------------------------------------------------------------------
(* The port is open until main() closes it, and freed only by its last step. *)
PortInv ==
  /\ PortLifecycle
  /\ exitCode = "none" \/ pc = "exited"

(* Every call but those of close and destroy leaves the port as it is.     *)
LEMMA PortStep == ControlInv /\ PortInv /\ [Next]_vars => PortInv'
<1> SUFFICES ASSUME ControlInv, PortInv, [Next]_vars PROVE PortInv'
  OBVIOUS
<1> USE DEF PortInv, PortLifecycle, NeedsPort, Steps, host, life, line, printer, outside, status, ctl, Quiet, Writes, Reads
<1>1. CASE Open
  BY <1>1 DEF Open, Quit, Goto
<1>2. CASE Configure
  <2>1. pc \in NeedsPort /\ pc' \in {"poll", "pollSync", "pollRead", "neopWrite", "neopRead", "polled",
                                  "header", "body", "rawRead", "write", "printSync", "usbQuery", "usbRead",
                                  "cfgSync", "setHost", "configure", "reset", "close"}
    BY <1>2, SucceedPc, FailPc, AfterPollPc, PollFailsPc
    DEF Configure, Goto, ControlInv, CallsOf, Phases, NeedsPort, Steps
  <2>2. UNCHANGED <<port, exitCode>>
    BY <1>2 DEF Configure
  <2> QED BY <2>1, <2>2
<1>3. CASE ConfigureSync
  <2>1. pc \in NeedsPort /\ pc' \in {"poll", "pollSync", "pollRead", "neopWrite", "neopRead", "polled",
                                  "header", "body", "rawRead", "write", "printSync", "usbQuery", "usbRead",
                                  "cfgSync", "setHost", "configure", "reset", "close"}
    BY <1>3, SucceedPc, FailPc, AfterPollPc, PollFailsPc
    DEF ConfigureSync, Goto, ControlInv, CallsOf, Phases, NeedsPort, Steps
  <2>2. UNCHANGED <<port, exitCode>>
    BY <1>3 DEF ConfigureSync
  <2> QED BY <2>1, <2>2
<1>4. CASE SetHost
  <2>1. pc \in NeedsPort /\ pc' \in {"poll", "pollSync", "pollRead", "neopWrite", "neopRead", "polled",
                                  "header", "body", "rawRead", "write", "printSync", "usbQuery", "usbRead",
                                  "cfgSync", "setHost", "configure", "reset", "close"}
    BY <1>4, SucceedPc, FailPc, AfterPollPc, PollFailsPc
    DEF SetHost, Target, Goto, ControlInv, CallsOf, Phases, NeedsPort, Steps
  <2>2. UNCHANGED <<port, exitCode>>
    BY <1>4 DEF SetHost
  <2> QED BY <2>1, <2>2
<1>5. CASE PollSerial
  <2>1. pc \in NeedsPort /\ pc' \in {"poll", "pollSync", "pollRead", "neopWrite", "neopRead", "polled",
                                  "header", "body", "rawRead", "write", "printSync", "usbQuery", "usbRead",
                                  "cfgSync", "setHost", "configure", "reset", "close"}
    BY <1>5, SucceedPc, FailPc, AfterPollPc, PollFailsPc
    DEF PollSerial, Goto, ControlInv, CallsOf, Phases, NeedsPort, Steps
  <2>2. UNCHANGED <<port, exitCode>>
    BY <1>5 DEF PollSerial
  <2> QED BY <2>1, <2>2
<1>6. CASE PollSync
  <2>1. pc \in NeedsPort /\ pc' \in {"poll", "pollSync", "pollRead", "neopWrite", "neopRead", "polled",
                                  "header", "body", "rawRead", "write", "printSync", "usbQuery", "usbRead",
                                  "cfgSync", "setHost", "configure", "reset", "close"}
    BY <1>6, SucceedPc, FailPc, AfterPollPc, PollFailsPc
    DEF PollSync, Goto, ControlInv, CallsOf, Phases, NeedsPort, Steps
  <2>2. UNCHANGED <<port, exitCode>>
    BY <1>6 DEF PollSync
  <2> QED BY <2>1, <2>2
<1>7. CASE PollOther
  <2>1. pc \in NeedsPort /\ pc' \in {"poll", "pollSync", "pollRead", "neopWrite", "neopRead", "polled",
                                  "header", "body", "rawRead", "write", "printSync", "usbQuery", "usbRead",
                                  "cfgSync", "setHost", "configure", "reset", "close"}
    BY <1>7, SucceedPc, FailPc, AfterPollPc, PollFailsPc
    DEF PollOther, Goto, ControlInv, CallsOf, Phases, NeedsPort, Steps
  <2>2. UNCHANGED <<port, exitCode>>
    BY <1>7 DEF PollOther
  <2> QED BY <2>1, <2>2
<1>8. CASE PollRead
  <2>1. pc \in NeedsPort /\ pc' \in {"poll", "pollSync", "pollRead", "neopWrite", "neopRead", "polled",
                                  "header", "body", "rawRead", "write", "printSync", "usbQuery", "usbRead",
                                  "cfgSync", "setHost", "configure", "reset", "close"}
    BY <1>8, SucceedPc, FailPc, AfterPollPc, PollFailsPc
    DEF PollRead, AfterStatus, Goto, ControlInv, CallsOf, Phases, NeedsPort, Steps
  <2>2. UNCHANGED <<port, exitCode>>
    BY <1>8 DEF PollRead
  <2> QED BY <2>1, <2>2
<1>9. CASE PollUsb
  <2>1. pc \in NeedsPort /\ pc' \in {"poll", "pollSync", "pollRead", "neopWrite", "neopRead", "polled",
                                  "header", "body", "rawRead", "write", "printSync", "usbQuery", "usbRead",
                                  "cfgSync", "setHost", "configure", "reset", "close"}
    BY <1>9, SucceedPc, FailPc, AfterPollPc, PollFailsPc
    DEF PollUsb, AfterStatus, Goto, ControlInv, CallsOf, Phases, NeedsPort, Steps
  <2>2. UNCHANGED <<port, exitCode>>
    BY <1>9 DEF PollUsb
  <2> QED BY <2>1, <2>2
<1>10. CASE NeopWrite
  <2>1. pc \in NeedsPort /\ pc' \in {"poll", "pollSync", "pollRead", "neopWrite", "neopRead", "polled",
                                  "header", "body", "rawRead", "write", "printSync", "usbQuery", "usbRead",
                                  "cfgSync", "setHost", "configure", "reset", "close"}
    BY <1>10, SucceedPc, FailPc, AfterPollPc, PollFailsPc
    DEF NeopWrite, Goto, ControlInv, CallsOf, Phases, NeedsPort, Steps
  <2>2. UNCHANGED <<port, exitCode>>
    BY <1>10 DEF NeopWrite
  <2> QED BY <2>1, <2>2
<1>11. CASE NeopRead
  <2>1. pc \in NeedsPort /\ pc' \in {"poll", "pollSync", "pollRead", "neopWrite", "neopRead", "polled",
                                  "header", "body", "rawRead", "write", "printSync", "usbQuery", "usbRead",
                                  "cfgSync", "setHost", "configure", "reset", "close"}
    BY <1>11, SucceedPc, FailPc, AfterPollPc, PollFailsPc
    DEF NeopRead, Goto, ControlInv, CallsOf, Phases, NeedsPort, Steps
  <2>2. UNCHANGED <<port, exitCode>>
    BY <1>11 DEF NeopRead
  <2> QED BY <2>1, <2>2
<1>12. CASE Wait
  <2>1. pc \in NeedsPort /\ pc' \in {"poll", "pollSync", "pollRead", "neopWrite", "neopRead", "polled",
                                  "header", "body", "rawRead", "write", "printSync", "usbQuery", "usbRead",
                                  "cfgSync", "setHost", "configure", "reset", "close"}
    BY <1>12, SucceedPc, FailPc, AfterPollPc, PollFailsPc
    DEF Wait, Goto, ControlInv, CallsOf, Phases, NeedsPort, Steps
  <2>2. UNCHANGED <<port, exitCode>>
    BY <1>12 DEF Wait
  <2> QED BY <2>1, <2>2
<1>13. CASE FirstHeader
  <2>1. pc \in NeedsPort /\ pc' \in {"poll", "pollSync", "pollRead", "neopWrite", "neopRead", "polled",
                                  "header", "body", "rawRead", "write", "printSync", "usbQuery", "usbRead",
                                  "cfgSync", "setHost", "configure", "reset", "close"}
    BY <1>13, SucceedPc, FailPc, AfterPollPc, PollFailsPc
    DEF FirstHeader, PipeHasBlock, PipeAtEnd, Goto, ControlInv, CallsOf, Phases, NeedsPort, Steps
  <2>2. UNCHANGED <<port, exitCode>>
    BY <1>13 DEF FirstHeader
  <2> QED BY <2>1, <2>2
<1>14. CASE ReadBlock
  BY <1>14 DEF ReadBlock, Goto
<1>15. CASE NextHeader
  BY <1>15 DEF NextHeader, Goto, PipeHasBlock, PipeAtEnd
<1>16. CASE RawRead
  BY <1>16 DEF RawRead, Goto, PipeHasBlock, PipeAtEnd
<1>17. CASE WriteBlocks
  <2>1. pc \in NeedsPort /\ pc' \in {"poll", "pollSync", "pollRead", "neopWrite", "neopRead", "polled",
                                  "header", "body", "rawRead", "write", "printSync", "usbQuery", "usbRead",
                                  "cfgSync", "setHost", "configure", "reset", "close"}
    BY <1>17, SucceedPc, FailPc, AfterPollPc, PollFailsPc
    DEF WriteBlocks, WriteFailure, Goto, ControlInv, CallsOf, Phases, NeedsPort, Steps
  <2>2. UNCHANGED <<port, exitCode>>
    BY <1>17 DEF WriteBlocks
  <2> QED BY <2>1, <2>2
<1>18. CASE PrintSync
  <2>1. pc \in NeedsPort /\ pc' \in {"poll", "pollSync", "pollRead", "neopWrite", "neopRead", "polled",
                                  "header", "body", "rawRead", "write", "printSync", "usbQuery", "usbRead",
                                  "cfgSync", "setHost", "configure", "reset", "close"}
    BY <1>18, SucceedPc, FailPc, AfterPollPc, PollFailsPc
    DEF PrintSync, WriteFailure, Goto, ControlInv, CallsOf, Phases, NeedsPort, Steps
  <2>2. UNCHANGED <<port, exitCode>>
    BY <1>18 DEF PrintSync
  <2> QED BY <2>1, <2>2
<1>19. CASE WaitUsbQuery
  <2>1. pc \in NeedsPort /\ pc' \in {"poll", "pollSync", "pollRead", "neopWrite", "neopRead", "polled",
                                  "header", "body", "rawRead", "write", "printSync", "usbQuery", "usbRead",
                                  "cfgSync", "setHost", "configure", "reset", "close"}
    BY <1>19, SucceedPc, FailPc, AfterPollPc, PollFailsPc
    DEF WaitUsbQuery, Goto, ControlInv, CallsOf, Phases, NeedsPort, Steps
  <2>2. UNCHANGED <<port, exitCode>>
    BY <1>19 DEF WaitUsbQuery
  <2> QED BY <2>1, <2>2
<1>20. CASE WaitUsbAnswer
  <2>1. pc \in NeedsPort /\ pc' \in {"poll", "pollSync", "pollRead", "neopWrite", "neopRead", "polled",
                                  "header", "body", "rawRead", "write", "printSync", "usbQuery", "usbRead",
                                  "cfgSync", "setHost", "configure", "reset", "close"}
    BY <1>20, SucceedPc, FailPc, AfterPollPc, PollFailsPc
    DEF WaitUsbAnswer, Goto, ControlInv, CallsOf, Phases, NeedsPort, Steps
  <2>2. UNCHANGED <<port, exitCode>>
    BY <1>20 DEF WaitUsbAnswer
  <2> QED BY <2>1, <2>2
<1>21. CASE ResetSerial
  BY <1>21 DEF ResetSerial, Goto, Quit
<1>22. CASE ResetSync
  BY <1>22 DEF ResetSync, Goto, Quit
<1>23. CASE ResetOther
  BY <1>23 DEF ResetOther, Goto, Quit
<1>24. CASE ResetClose
  BY <1>24 DEF ResetClose, Goto, Quit
<1>25. CASE Close
  BY <1>25 DEF Close, Goto
<1>26. CASE Destroy
  BY <1>26 DEF Destroy, Goto, Quit
<1>27. CASE NextJob
  BY <1>27 DEF NextJob
<1>28. CASE DeadlinePasses
  BY <1>28 DEF DeadlinePasses
<1>29. CASE Sigterm
  BY <1>29 DEF Sigterm, Signal
<1>30. CASE InterruptPipe
  BY <1>30 DEF InterruptPipe, Signal, Fail, Goto, Timeouts, Errors
<1>31. CASE InterruptPort
  <2>1. pc \in NeedsPort /\ pc' \in {"poll", "pollSync", "pollRead", "neopWrite", "neopRead", "polled",
                                  "header", "body", "rawRead", "write", "printSync", "usbQuery", "usbRead",
                                  "cfgSync", "setHost", "configure", "reset", "close"}
    BY <1>31, SucceedPc, FailPc, AfterPollPc, PollFailsPc
    DEF InterruptPort, Signal, Goto, ControlInv, CallsOf, Phases, NeedsPort, Steps
  <2>2. UNCHANGED <<port, exitCode>>
    BY <1>31 DEF InterruptPort
  <2> QED BY <2>1, <2>2
<1>32. CASE FilterWrites
  BY <1>32 DEF FilterWrites
<1>33. CASE FilterEnds
  BY <1>33 DEF FilterEnds
<1>34. CASE Transmit
  BY <1>34 DEF Transmit
<1>35. CASE PrintBlock
  BY <1>35 DEF PrintBlock
<1>36. CASE AnswerNeop
  BY <1>36 DEF AnswerNeop
<1>37. CASE AnswerInOrder
  BY <1>37 DEF AnswerInOrder
<1>38. CASE AnswerRealTime
  BY <1>38 DEF AnswerRealTime
<1>39. CASE PaperOut
  BY <1>39 DEF PaperOut
<1>40. CASE PaperIn
  BY <1>40 DEF PaperIn
<1>41. CASE UNCHANGED vars
  BY <1>41 DEF vars
<1> QED
  BY <1>1, <1>2, <1>3, <1>4, <1>5, <1>6, <1>7, <1>8, <1>9, <1>10, <1>11, <1>12, <1>13, <1>14, <1>15, <1>16, <1>17, <1>18, <1>19, <1>20,
     <1>21, <1>22, <1>23, <1>24, <1>25, <1>26, <1>27, <1>28, <1>29, <1>30, <1>31, <1>32, <1>33, <1>34, <1>35, <1>36, <1>37, <1>38, <1>39, <1>40, <1>41
  DEF Next, Backend, Filter, Printer, Terminated

-----------------------------------------------------------------------------
(* What state_print still has to read and to write.                        *)
WholeInv ==
  /\ pc \in {"body", "nextHeader"} => ~RawJob
  /\ pc = "rawRead" => RawJob
  /\ phase \in {"setup", "wait"} \cup AfterPrint \/ pc \in {"header", "rawRead", "printSync"} =>
       sent = got
  /\ (pc = "write" /\ ~RawJob) \/ pc = "printSync" \/ phase \in AfterPrint =>
       cancel \/ (eof /\ got = fpos)

(* state_print ends when the pipe does, or by a cancel, with nothing       *)
(* unsent.                                                                 *)
LEMMA WholeStep == ControlInv /\ BlockInv /\ ProcessType /\ WholeInv /\ [Next]_vars => WholeInv'
<1> SUFFICES ASSUME ControlInv, BlockInv, ProcessType, WholeInv, [Next]_vars PROVE WholeInv'
  OBVIOUS
<1> USE DEF WholeInv, AfterPrint, ProcessType, BlockInv, ControlInv, CallsOf, Phases, host, life, line, printer, outside, status, ctl, Quiet, Writes, Reads
<1>1. CASE Open
  BY <1>1 DEF Open, Quit, Goto
<1>2. CASE Configure
  <2>1. pc' \notin {"body", "nextHeader", "rawRead", "write", "printSync"} 
       /\ (phase' \in AfterPrint => phase \in AfterPrint)
       /\ (phase' \in {"setup", "wait"} \/ pc' = "header" => phase \in {"setup", "wait"})
    BY <1>2, SucceedPc, FailPc, AfterPollPc, PollFailsPc
    DEF Configure, Goto, ControlInv, CallsOf, Phases
  <2>2. UNCHANGED <<sent, got, fpos, eof, cancel>>
    BY <1>2 DEF Configure
  <2> QED BY <2>1, <2>2
<1>3. CASE ConfigureSync
  <2>1. pc' \notin {"body", "nextHeader", "rawRead", "write", "printSync"} 
       /\ (phase' \in AfterPrint => phase \in AfterPrint)
       /\ (phase' \in {"setup", "wait"} \/ pc' = "header" => phase \in {"setup", "wait"})
    BY <1>3, SucceedPc, FailPc, AfterPollPc, PollFailsPc
    DEF ConfigureSync, Goto, ControlInv, CallsOf, Phases
  <2>2. UNCHANGED <<sent, got, fpos, eof, cancel>>
    BY <1>3 DEF ConfigureSync
  <2> QED BY <2>1, <2>2
<1>4. CASE SetHost
  <2>1. pc' \notin {"body", "nextHeader", "rawRead", "write", "printSync"} 
       /\ (phase' \in AfterPrint => phase \in AfterPrint)
       /\ (phase' \in {"setup", "wait"} \/ pc' = "header" => phase \in {"setup", "wait"})
    BY <1>4, SucceedPc, FailPc, AfterPollPc, PollFailsPc
    DEF SetHost, Target, Goto, ControlInv, CallsOf, Phases
  <2>2. UNCHANGED <<sent, got, fpos, eof, cancel>>
    BY <1>4 DEF SetHost
  <2> QED BY <2>1, <2>2
<1>5. CASE PollSerial
  <2>1. pc' \notin {"body", "nextHeader", "rawRead", "write", "printSync"} 
       /\ (phase' \in AfterPrint => phase \in AfterPrint)
       /\ (phase' \in {"setup", "wait"} \/ pc' = "header" => phase \in {"setup", "wait"})
    BY <1>5, SucceedPc, FailPc, AfterPollPc, PollFailsPc
    DEF PollSerial, Goto, ControlInv, CallsOf, Phases
  <2>2. UNCHANGED <<sent, got, fpos, eof, cancel>>
    BY <1>5 DEF PollSerial
  <2> QED BY <2>1, <2>2
<1>6. CASE PollSync
  <2>1. pc' \notin {"body", "nextHeader", "rawRead", "write", "printSync"} 
       /\ (phase' \in AfterPrint => phase \in AfterPrint)
       /\ (phase' \in {"setup", "wait"} \/ pc' = "header" => phase \in {"setup", "wait"})
    BY <1>6, SucceedPc, FailPc, AfterPollPc, PollFailsPc
    DEF PollSync, Goto, ControlInv, CallsOf, Phases
  <2>2. UNCHANGED <<sent, got, fpos, eof, cancel>>
    BY <1>6 DEF PollSync
  <2> QED BY <2>1, <2>2
<1>7. CASE PollOther
  <2>1. pc' \notin {"body", "nextHeader", "rawRead", "write", "printSync"} 
       /\ (phase' \in AfterPrint => phase \in AfterPrint)
       /\ (phase' \in {"setup", "wait"} \/ pc' = "header" => phase \in {"setup", "wait"})
    BY <1>7, SucceedPc, FailPc, AfterPollPc, PollFailsPc
    DEF PollOther, Goto, ControlInv, CallsOf, Phases
  <2>2. UNCHANGED <<sent, got, fpos, eof, cancel>>
    BY <1>7 DEF PollOther
  <2> QED BY <2>1, <2>2
<1>8. CASE PollRead
  <2>1. pc' \notin {"body", "nextHeader", "rawRead", "write", "printSync"} 
       /\ (phase' \in AfterPrint => phase \in AfterPrint)
       /\ (phase' \in {"setup", "wait"} \/ pc' = "header" => phase \in {"setup", "wait"})
    BY <1>8, SucceedPc, FailPc, AfterPollPc, PollFailsPc
    DEF PollRead, AfterStatus, Goto, ControlInv, CallsOf, Phases
  <2>2. UNCHANGED <<sent, got, fpos, eof, cancel>>
    BY <1>8 DEF PollRead
  <2> QED BY <2>1, <2>2
<1>9. CASE PollUsb
  <2>1. pc' \notin {"body", "nextHeader", "rawRead", "write", "printSync"} 
       /\ (phase' \in AfterPrint => phase \in AfterPrint)
       /\ (phase' \in {"setup", "wait"} \/ pc' = "header" => phase \in {"setup", "wait"})
    BY <1>9, SucceedPc, FailPc, AfterPollPc, PollFailsPc
    DEF PollUsb, AfterStatus, Goto, ControlInv, CallsOf, Phases
  <2>2. UNCHANGED <<sent, got, fpos, eof, cancel>>
    BY <1>9 DEF PollUsb
  <2> QED BY <2>1, <2>2
<1>10. CASE NeopWrite
  <2>1. pc' \notin {"body", "nextHeader", "rawRead", "write", "printSync"} 
       /\ (phase' \in AfterPrint => phase \in AfterPrint)
       /\ (phase' \in {"setup", "wait"} \/ pc' = "header" => phase \in {"setup", "wait"})
    BY <1>10, SucceedPc, FailPc, AfterPollPc, PollFailsPc
    DEF NeopWrite, Goto, ControlInv, CallsOf, Phases
  <2>2. UNCHANGED <<sent, got, fpos, eof, cancel>>
    BY <1>10 DEF NeopWrite
  <2> QED BY <2>1, <2>2
<1>11. CASE NeopRead
  <2>1. pc' \notin {"body", "nextHeader", "rawRead", "write", "printSync"} 
       /\ (phase' \in AfterPrint => phase \in AfterPrint)
       /\ (phase' \in {"setup", "wait"} \/ pc' = "header" => phase \in {"setup", "wait"})
    BY <1>11, SucceedPc, FailPc, AfterPollPc, PollFailsPc
    DEF NeopRead, Goto, ControlInv, CallsOf, Phases
  <2>2. UNCHANGED <<sent, got, fpos, eof, cancel>>
    BY <1>11 DEF NeopRead
  <2> QED BY <2>1, <2>2
<1>12. CASE Wait
  <2>1. pc' \notin {"body", "nextHeader", "rawRead", "write", "printSync"} 
       /\ (phase' \in AfterPrint => phase \in AfterPrint)
       /\ (phase' \in {"setup", "wait"} \/ pc' = "header" => phase \in {"setup", "wait"})
    BY <1>12, SucceedPc, FailPc, AfterPollPc, PollFailsPc
    DEF Wait, Goto, ControlInv, CallsOf, Phases
  <2>2. UNCHANGED <<sent, got, fpos, eof, cancel>>
    BY <1>12 DEF Wait
  <2> QED BY <2>1, <2>2
<1>13. CASE FirstHeader
  BY <1>13 DEF FirstHeader, Goto, Fail, PipeHasBlock, PipeAtEnd, Timeouts, Errors
<1>14. CASE ReadBlock
  BY <1>14 DEF ReadBlock, Goto, Fail, Timeouts, Errors
<1>15. CASE NextHeader
  BY <1>15 DEF NextHeader, Goto, PipeHasBlock, PipeAtEnd
<1>16. CASE RawRead
  BY <1>16 DEF RawRead, Goto, PipeHasBlock, PipeAtEnd
<1>17. CASE WriteBlocks
  BY <1>17 DEF WriteBlocks, WriteFailure, Goto, Fail, Timeouts, Errors
<1>18. CASE PrintSync
  <2>1. pc' \notin {"body", "nextHeader", "rawRead", "write", "printSync"}
    BY <1>18, SucceedPc, FailPc DEF PrintSync, WriteFailure, ControlInv, CallsOf, Phases
  <2> QED BY <1>18, <2>1 DEF PrintSync
<1>19. CASE WaitUsbQuery
  <2>1. pc' \notin {"body", "nextHeader", "rawRead", "write", "printSync"} 
       /\ (phase' \in AfterPrint => phase \in AfterPrint)
       /\ (phase' \in {"setup", "wait"} \/ pc' = "header" => phase \in {"setup", "wait"})
    BY <1>19, SucceedPc, FailPc, AfterPollPc, PollFailsPc
    DEF WaitUsbQuery, Goto, ControlInv, CallsOf, Phases
  <2>2. UNCHANGED <<sent, got, fpos, eof, cancel>>
    BY <1>19 DEF WaitUsbQuery
  <2> QED BY <2>1, <2>2
<1>20. CASE WaitUsbAnswer
  <2>1. pc' \notin {"body", "nextHeader", "rawRead", "write", "printSync"} 
       /\ (phase' \in AfterPrint => phase \in AfterPrint)
       /\ (phase' \in {"setup", "wait"} \/ pc' = "header" => phase \in {"setup", "wait"})
    BY <1>20, SucceedPc, FailPc, AfterPollPc, PollFailsPc
    DEF WaitUsbAnswer, Goto, ControlInv, CallsOf, Phases
  <2>2. UNCHANGED <<sent, got, fpos, eof, cancel>>
    BY <1>20 DEF WaitUsbAnswer
  <2> QED BY <2>1, <2>2
<1>21. CASE ResetSerial
  BY <1>21 DEF ResetSerial, Goto, Quit
<1>22. CASE ResetSync
  BY <1>22 DEF ResetSync, Goto, Quit
<1>23. CASE ResetOther
  BY <1>23 DEF ResetOther, Goto, Quit
<1>24. CASE ResetClose
  BY <1>24 DEF ResetClose, Goto, Quit
<1>25. CASE Close
  BY <1>25 DEF Close, Goto
<1>26. CASE Destroy
  BY <1>26 DEF Destroy, Goto, Quit
<1>27. CASE NextJob
  BY <1>27 DEF NextJob
<1>28. CASE DeadlinePasses
  BY <1>28 DEF DeadlinePasses
<1>29. CASE Sigterm
  BY <1>29 DEF Sigterm, Signal
<1>30. CASE InterruptPipe
  BY <1>30 DEF InterruptPipe, Signal, Fail, Goto, Timeouts, Errors
<1>31. CASE InterruptPort
  <2>1. pc' \notin {"body", "nextHeader", "rawRead", "write", "printSync"} 
       /\ (phase' \in AfterPrint => phase \in AfterPrint)
       /\ (phase' \in {"setup", "wait"} \/ pc' = "header" => phase \in {"setup", "wait"})
    BY <1>31, FailPc, AfterPollPc, PollFailsPc
    DEF InterruptPort, Goto, ControlInv, CallsOf, Phases
  <2>2. UNCHANGED <<sent, got>> /\ cancel'
    BY <1>31 DEF InterruptPort, Signal
  <2> QED BY <2>1, <2>2
<1>32. CASE FilterWrites
  BY <1>32 DEF FilterWrites
<1>33. CASE FilterEnds
  BY <1>33 DEF FilterEnds
<1>34. CASE Transmit
  BY <1>34 DEF Transmit
<1>35. CASE PrintBlock
  BY <1>35 DEF PrintBlock
<1>36. CASE AnswerNeop
  BY <1>36 DEF AnswerNeop
<1>37. CASE AnswerInOrder
  BY <1>37 DEF AnswerInOrder
<1>38. CASE AnswerRealTime
  BY <1>38 DEF AnswerRealTime
<1>39. CASE PaperOut
  BY <1>39 DEF PaperOut
<1>40. CASE PaperIn
  BY <1>40 DEF PaperIn
<1>41. CASE UNCHANGED vars
  BY <1>41 DEF vars
<1> QED
  BY <1>1, <1>2, <1>3, <1>4, <1>5, <1>6, <1>7, <1>8, <1>9, <1>10, <1>11, <1>12, <1>13, <1>14, <1>15, <1>16, <1>17, <1>18, <1>19, <1>20,
     <1>21, <1>22, <1>23, <1>24, <1>25, <1>26, <1>27, <1>28, <1>29, <1>30, <1>31, <1>32, <1>33, <1>34, <1>35, <1>36, <1>37, <1>38, <1>39, <1>40, <1>41
  DEF Next, Backend, Filter, Printer, Terminated

-----------------------------------------------------------------------------
(* The serial settings of the two sides, while no earlier job has failed   *)
(* and this one has not.  A change of setting is the last message of the   *)
(* kernel buffer until it is transmitted, and the host side follows only   *)
(* when the buffer is empty.                                               *)
NoControl(q) == \A i \in 1 .. Len(q) : q[i].kind \notin {"cfg", "reset"}

Before == IF phase = "setup" THEN "default" ELSE PrSetting

ChangePending ==
  \/ outq = <<>> /\ prSet = Target
  \/ /\ outq # <<>> /\ outq[Len(outq)] = Cfg(Target)
     /\ prSet = Before
     /\ \A i \in 1 .. Len(outq) - 1 : outq[i].kind \notin {"cfg", "reset"}

Printing == \/ phase \in {"wait", "print", "wait2", "waitUsb"}
            \/ phase = "finish" /\ pc \notin {"cfgSync", "setHost"}

Fresh == PortType = "serial" /\ ~tainted /\ phase # "recover"

SettingInv ==
  Fresh =>
    /\ Printing => hostSet = PrSetting /\ prSet = PrSetting /\ NoControl(outq)
    /\ phase = "setup" /\ pc \in {"start", "configure", "exited"} => outq = <<>> /\ prSet = "default"
    /\ phase = "setup" /\ pc = "configure" => hostSet = "default"
    /\ phase = "done" => outq = <<>> /\ prSet = "default" /\ hostSet = "default"
    /\ pc = "cfgSync" => hostSet = Before /\ ChangePending
    /\ pc = "setHost" => outq = <<>> /\ prSet = Target

LEMMA LenNonEmpty == ASSUME NEW q \in Seq(Message), q # <<>> PROVE Len(q) = 1 \/ Len(q) > 1
<1>1. Len(q) \in Nat \ {0}
  BY EmptySeq, Zenon
<1>2. \A k \in Nat \ {0} : k = 1 \/ k > 1
  OBVIOUS
<1> QED BY <1>1, <1>2, Zenon

LEMMA LenOne == ASSUME NEW q \in Seq(Message), Len(q) = 1
                PROVE  Head(q) = q[1] /\ Tail(q) = <<>>
<1>1. Tail(q) \in Seq(Message) /\ Len(Tail(q)) = 0
  OBVIOUS
<1>2. Tail(q) = <<>>
  BY <1>1, EmptySeq, Zenon
<1>3. Head(q) = q[1]
  OBVIOUS
<1> QED BY <1>2, <1>3

LEMMA NoControlAppend ==
  ASSUME NEW q \in Seq(Message), NEW m \in Message, NoControl(q), m.kind \notin {"cfg", "reset"}
  PROVE  NoControl(Append(q, m))
  BY DEF NoControl

LEMMA NoControlTail ==
  ASSUME NEW q \in Seq(Message), q # <<>>, NoControl(q)
  PROVE  NoControl(Tail(q)) /\ Head(q).kind \notin {"cfg", "reset"}
  BY DEF NoControl

LEMMA NoControlQuery == NoControl(<<>>) /\ NoControl(<<Query("status")>>)
  BY DEF NoControl, Query

(* Both sides change their setting together, the host last.                *)
LEMMA SettingStep == ControlInv /\ ProcessType /\ BlockInv /\ LineType /\ SettingInv /\ [Next]_vars => SettingInv'
<1> SUFFICES ASSUME ControlInv, ProcessType, BlockInv, LineType, SettingInv, [Next]_vars PROVE SettingInv'
  OBVIOUS
<1> USE DEF LineType, SettingInv, Fresh, host, life, line, printer, outside, status, ctl, Quiet, Writes, Reads
<1>1. CASE Open
  <2>1. phase = "setup" /\ UNCHANGED <<phase, outq, prSet, tainted>> /\ pc' \in {"configure", "exited"}
    BY <1>1 DEF Open, Goto, Quit, ControlInv, CallsOf, Phases
  <2>2. pc' = "configure" => hostSet' = "default"
    BY <1>1 DEF Open, Quit
  <2> QED BY <1>1, <2>1, <2>2 DEF Open, Printing
<1>2. CASE Configure
  <2>1. CASE Fresh /\ Write(Cfg(Target)) /\ Goto("cfgSync")
    <3>1. phase \in {"setup", "finish"} /\ UNCHANGED <<phase, hostSet, prSet, tainted>> /\ pc' = "cfgSync"
      BY <1>2, <2>1 DEF Configure, Goto, ControlInv, CallsOf, Phases
    <3>2. Target \in Settings /\ Target' = Target /\ Before' = Before /\ Cfg(Target) \in Message
      BY <3>1, CfgType DEF Target, Before, Settings
    <3>3. outq' = Append(outq, Cfg(Target)) /\ NoControl(outq) /\ hostSet = Before /\ prSet = Before
      BY <1>2, <2>1, <3>1, NoControlQuery DEF Configure, Write, Takes, Printing, Before
    <3>4. outq' # <<>> /\ outq'[Len(outq')] = Cfg(Target)
      BY <3>2, <3>3
    <3>5. \A i \in 1 .. Len(outq') - 1 : outq'[i].kind \notin {"cfg", "reset"}
      BY <3>2, <3>3 DEF NoControl
    <3>6. Cfg(Target)' = Cfg(Target)
      BY <3>2 DEF Cfg
    <3>7. ChangePending'
      BY <3>1, <3>2, <3>3, <3>4, <3>5, <3>6 DEF ChangePending
    <3> QED BY <3>1, <3>2, <3>3, <3>7 DEF Printing
  <2>2. CASE phase' = "recover" \/ PortType # "serial"
    BY <2>2
  <2>3. Fresh' => Fresh
    BY <1>2, SucceedPc, FailPc DEF Configure, Goto, ControlInv, CallsOf, Phases
  <2> QED BY <1>2, <2>1, <2>2, <2>3, FailPc DEF Configure
<1>3. CASE ConfigureSync
  <2>1. CASE outq = <<>> /\ Goto("setHost")
    <3>1. UNCHANGED <<outq, prSet, hostSet, phase, tainted>> /\ pc = "cfgSync" /\ pc' = "setHost"
      BY <1>3, <2>1 DEF ConfigureSync, Goto
    <3>2. Fresh => prSet = Target
      BY <2>1, <3>1 DEF ChangePending
    <3>3. Target' = Target
      BY <3>1 DEF Target
    <3>4. phase \in {"setup", "finish"}
      BY <3>1 DEF ControlInv, CallsOf, Phases
    <3> QED BY <2>1, <3>1, <3>2, <3>3, <3>4 DEF Printing
  <2>2. CASE phase' = "recover"
    BY <2>2
  <2> QED BY <1>3, <2>1, <2>2, FailPc DEF ConfigureSync
<1>4. CASE SetHost
  <2>1. CASE hostSet' = Target /\ Succeed
    <3>1. phase \in {"setup", "finish"} /\ UNCHANGED <<outq, prSet, tainted>> /\ pc = "setHost"
      BY <1>4 DEF SetHost, ControlInv, CallsOf, Phases
    <3>2. pc' \in {"poll", "close"} /\ phase' = (IF phase = "setup" THEN "wait" ELSE "done")
      BY <2>1, <3>1 DEF Succeed, Following, Entry
    <3>3. Fresh => outq' = <<>> /\ hostSet' = Target /\ prSet' = Target
      BY <2>1, <3>1
    <3> QED BY <3>1, <3>2, <3>3, NoControlQuery DEF Target, Printing
  <2>2. CASE phase' = "recover"
    BY <2>2
  <2> QED BY <1>4, <2>1, <2>2, FailPc DEF SetHost
<1>5. CASE PollSerial
  <2>1. CASE outq' = <<Query("status")>> /\ Goto("pollSync")
    <3>1. phase \in {"wait", "wait2", "finish", "recover"} /\ UNCHANGED <<hostSet, prSet, tainted, phase>>
          /\ pc' = "pollSync" /\ pc = "poll"
      BY <1>5, <2>1 DEF PollSerial, Goto, ControlInv, CallsOf, Phases
    <3> QED BY <2>1, <3>1, NoControlQuery DEF Printing
  <2>2. CASE phase' = "recover"
    BY <2>2
  <2> QED BY <1>5, <2>1, <2>2, PollFailsPc DEF PollSerial, Discard, Flush
<1>6. CASE PollSync
  <2>1. UNCHANGED <<hostSet, outq, prSet, tainted>>
    BY <1>6 DEF PollSync
  <2>2. pc \notin {"start", "cfgSync", "setHost"} /\ pc' \notin {"start", "cfgSync", "setHost"}
        /\ (pc' = "configure" => phase' # "setup") /\ phase' # "setup" /\ phase # "setup"
    BY <1>6, SucceedPc, FailPc, AfterPollPc, PollFailsPc DEF PollSync, Goto, ControlInv, CallsOf, Phases
  <2>3. phase' # "recover" => phase # "recover" /\ (phase' = "done" <=> phase = "done")
    BY <1>6, SucceedPc, FailPc, AfterPollPc, PollFailsPc DEF PollSync, Goto, ControlInv, CallsOf, Phases
  <2>4. phase \in Phases /\ phase' \in Phases
    BY ControlStep DEF ControlInv
  <2> QED BY <2>1, <2>2, <2>3, <2>4 DEF Printing, Phases
<1>7. CASE PollOther
  <2>1. UNCHANGED <<hostSet, outq, prSet, tainted>>
    BY <1>7 DEF PollOther
  <2>2. pc \notin {"start", "cfgSync", "setHost"} /\ pc' \notin {"start", "cfgSync", "setHost"}
        /\ (pc' = "configure" => phase' # "setup") /\ phase' # "setup" /\ phase # "setup"
    BY <1>7, SucceedPc, FailPc, AfterPollPc, PollFailsPc DEF PollOther, Goto, ControlInv, CallsOf, Phases
  <2>3. phase' # "recover" => phase # "recover" /\ (phase' = "done" <=> phase = "done")
    BY <1>7, SucceedPc, FailPc, AfterPollPc, PollFailsPc DEF PollOther, Goto, ControlInv, CallsOf, Phases
  <2>4. phase \in Phases /\ phase' \in Phases
    BY ControlStep DEF ControlInv
  <2> QED BY <2>1, <2>2, <2>3, <2>4 DEF Printing, Phases
<1>8. CASE PollRead
  <2>1. UNCHANGED <<hostSet, outq, prSet, tainted>>
    BY <1>8 DEF PollRead
  <2>2. pc \notin {"start", "cfgSync", "setHost"} /\ pc' \notin {"start", "cfgSync", "setHost"}
        /\ (pc' = "configure" => phase' # "setup") /\ phase' # "setup" /\ phase # "setup"
    BY <1>8, SucceedPc, FailPc, AfterPollPc, PollFailsPc DEF PollRead, AfterStatus, Goto, ControlInv, CallsOf, Phases
  <2>3. phase' # "recover" => phase # "recover" /\ (phase' = "done" <=> phase = "done")
    BY <1>8, SucceedPc, FailPc, AfterPollPc, PollFailsPc DEF PollRead, AfterStatus, Goto, ControlInv, CallsOf, Phases
  <2>4. phase \in Phases /\ phase' \in Phases
    BY ControlStep DEF ControlInv
  <2> QED BY <2>1, <2>2, <2>3, <2>4 DEF Printing, Phases
<1>9. CASE PollUsb
  <2>1. UNCHANGED <<hostSet, outq, prSet, tainted>>
    BY <1>9 DEF PollUsb
  <2>2. pc \notin {"start", "cfgSync", "setHost"} /\ pc' \notin {"start", "cfgSync", "setHost"}
        /\ (pc' = "configure" => phase' # "setup") /\ phase' # "setup" /\ phase # "setup"
    BY <1>9, SucceedPc, FailPc, AfterPollPc, PollFailsPc DEF PollUsb, AfterStatus, Goto, ControlInv, CallsOf, Phases
  <2>3. phase' # "recover" => phase # "recover" /\ (phase' = "done" <=> phase = "done")
    BY <1>9, SucceedPc, FailPc, AfterPollPc, PollFailsPc DEF PollUsb, AfterStatus, Goto, ControlInv, CallsOf, Phases
  <2>4. phase \in Phases /\ phase' \in Phases
    BY ControlStep DEF ControlInv
  <2> QED BY <2>1, <2>2, <2>3, <2>4 DEF Printing, Phases
<1>10. CASE NeopWrite
  <2>1. phase \in {"wait", "wait2", "finish", "recover"} /\ UNCHANGED <<hostSet, prSet, tainted, phase>>
        /\ pc = "neopWrite" /\ pc' \in {"neopRead", "polled", "configure", "reset"}
    BY <1>10, AfterPollPc DEF NeopWrite, Goto, ControlInv, CallsOf, Phases
  <2>2. outq' = outq \/ outq' = Append(outq, Query("neop"))
    BY <1>10 DEF NeopWrite, WriteFails, Write, Takes
  <2>3. Query("neop") \in Message /\ Query("neop").kind = "neop"
    BY QueryType DEF Query
  <2>4. NoControl(outq) => NoControl(outq')
    BY <2>2, <2>3, NoControlAppend
  <2> QED BY <2>1, <2>4 DEF Printing
<1>11. CASE NeopRead
  <2>1. UNCHANGED <<hostSet, outq, prSet, tainted>>
    BY <1>11 DEF NeopRead
  <2>2. pc \notin {"start", "cfgSync", "setHost"} /\ pc' \notin {"start", "cfgSync", "setHost"}
        /\ (pc' = "configure" => phase' # "setup") /\ phase' # "setup" /\ phase # "setup"
    BY <1>11, SucceedPc, FailPc, AfterPollPc, PollFailsPc DEF NeopRead, Goto, ControlInv, CallsOf, Phases
  <2>3. phase' # "recover" => phase # "recover" /\ (phase' = "done" <=> phase = "done")
    BY <1>11, SucceedPc, FailPc, AfterPollPc, PollFailsPc DEF NeopRead, Goto, ControlInv, CallsOf, Phases
  <2>4. phase \in Phases /\ phase' \in Phases
    BY ControlStep DEF ControlInv
  <2> QED BY <2>1, <2>2, <2>3, <2>4 DEF Printing, Phases
<1>12. CASE Wait
  <2>1. UNCHANGED <<hostSet, outq, prSet, tainted>>
    BY <1>12 DEF Wait
  <2>2. pc \notin {"start", "cfgSync", "setHost"} /\ pc' \notin {"start", "cfgSync", "setHost"}
        /\ (pc' = "configure" => phase' # "setup") /\ phase' # "setup" /\ phase # "setup"
    BY <1>12, SucceedPc, FailPc, AfterPollPc, PollFailsPc DEF Wait, Goto, ControlInv, CallsOf, Phases
  <2>3. phase' # "recover" => phase # "recover" /\ (phase' = "done" <=> phase = "done")
    BY <1>12, SucceedPc, FailPc, AfterPollPc, PollFailsPc DEF Wait, Goto, ControlInv, CallsOf, Phases
  <2>4. phase \in Phases /\ phase' \in Phases
    BY ControlStep DEF ControlInv
  <2> QED BY <2>1, <2>2, <2>3, <2>4 DEF Printing, Phases
<1>13. CASE FirstHeader
  <2>1. UNCHANGED <<hostSet, outq, prSet, tainted>>
    BY <1>13 DEF FirstHeader
  <2>2. pc \notin {"start", "cfgSync", "setHost"} /\ pc' \notin {"start", "cfgSync", "setHost"}
        /\ (pc' = "configure" => phase' # "setup") /\ phase' # "setup" /\ phase # "setup"
    BY <1>13, SucceedPc, FailPc, AfterPollPc, PollFailsPc DEF FirstHeader, PipeHasBlock, PipeAtEnd, Goto, ControlInv, CallsOf, Phases
  <2>3. phase' # "recover" => phase # "recover" /\ (phase' = "done" <=> phase = "done")
    BY <1>13, SucceedPc, FailPc, AfterPollPc, PollFailsPc DEF FirstHeader, PipeHasBlock, PipeAtEnd, Goto, ControlInv, CallsOf, Phases
  <2>4. phase \in Phases /\ phase' \in Phases
    BY ControlStep DEF ControlInv
  <2> QED BY <2>1, <2>2, <2>3, <2>4 DEF Printing, Phases
<1>14. CASE ReadBlock
  <2>1. UNCHANGED <<hostSet, outq, prSet, tainted>>
    BY <1>14 DEF ReadBlock
  <2>2. pc \notin {"start", "cfgSync", "setHost"} /\ pc' \notin {"start", "cfgSync", "setHost"}
        /\ (pc' = "configure" => phase' # "setup") /\ phase' # "setup" /\ phase # "setup"
    BY <1>14, SucceedPc, FailPc, AfterPollPc, PollFailsPc DEF ReadBlock, Goto, ControlInv, CallsOf, Phases
  <2>3. phase' # "recover" => phase # "recover" /\ (phase' = "done" <=> phase = "done")
    BY <1>14, SucceedPc, FailPc, AfterPollPc, PollFailsPc DEF ReadBlock, Goto, ControlInv, CallsOf, Phases
  <2>4. phase \in Phases /\ phase' \in Phases
    BY ControlStep DEF ControlInv
  <2> QED BY <2>1, <2>2, <2>3, <2>4 DEF Printing, Phases
<1>15. CASE NextHeader
  <2>1. UNCHANGED <<hostSet, outq, prSet, tainted>>
    BY <1>15 DEF NextHeader
  <2>2. pc \notin {"start", "cfgSync", "setHost"} /\ pc' \notin {"start", "cfgSync", "setHost"}
        /\ (pc' = "configure" => phase' # "setup") /\ phase' # "setup" /\ phase # "setup"
    BY <1>15, SucceedPc, FailPc, AfterPollPc, PollFailsPc DEF NextHeader, PipeHasBlock, PipeAtEnd, Goto, ControlInv, CallsOf, Phases
  <2>3. phase' # "recover" => phase # "recover" /\ (phase' = "done" <=> phase = "done")
    BY <1>15, SucceedPc, FailPc, AfterPollPc, PollFailsPc DEF NextHeader, PipeHasBlock, PipeAtEnd, Goto, ControlInv, CallsOf, Phases
  <2>4. phase \in Phases /\ phase' \in Phases
    BY ControlStep DEF ControlInv
  <2> QED BY <2>1, <2>2, <2>3, <2>4 DEF Printing, Phases
<1>16. CASE RawRead
  <2>1. UNCHANGED <<hostSet, outq, prSet, tainted>>
    BY <1>16 DEF RawRead
  <2>2. pc \notin {"start", "cfgSync", "setHost"} /\ pc' \notin {"start", "cfgSync", "setHost"}
        /\ (pc' = "configure" => phase' # "setup") /\ phase' # "setup" /\ phase # "setup"
    BY <1>16, SucceedPc, FailPc, AfterPollPc, PollFailsPc DEF RawRead, PipeHasBlock, PipeAtEnd, Goto, ControlInv, CallsOf, Phases
  <2>3. phase' # "recover" => phase # "recover" /\ (phase' = "done" <=> phase = "done")
    BY <1>16, SucceedPc, FailPc, AfterPollPc, PollFailsPc DEF RawRead, PipeHasBlock, PipeAtEnd, Goto, ControlInv, CallsOf, Phases
  <2>4. phase \in Phases /\ phase' \in Phases
    BY ControlStep DEF ControlInv
  <2> QED BY <2>1, <2>2, <2>3, <2>4 DEF Printing, Phases
<1>17. CASE WriteBlocks
  <2>1. CASE phase' = "recover"
    BY <2>1
  <2>2. CASE phase' # "recover"
    <3>1. phase = "print" /\ phase' = "print" /\ UNCHANGED <<hostSet, prSet, tainted>>
          /\ pc = "write" /\ pc' \in {"write", "rawRead", "printSync"}
      BY <1>17, <2>2 DEF WriteBlocks, WriteFailure, Fail, Goto, ControlInv, CallsOf, Phases
    <3>2. outq' = outq \/ (sent < got /\ outq' = Append(outq, Data(sent + 1)))
      BY <1>17 DEF WriteBlocks, Write, Takes
    <3>3. sent < got => Data(sent + 1) \in Message /\ Data(sent + 1).kind = "data"
      BY DEF Data, Message, Settings, BlockInv, ProcessType
    <3>4. NoControl(outq) => NoControl(outq')
      BY <3>2, <3>3, NoControlAppend
    <3> QED BY <3>1, <3>4 DEF Printing
  <2> QED BY <2>1, <2>2
<1>18. CASE PrintSync
  <2>1. UNCHANGED <<hostSet, outq, prSet, tainted>>
    BY <1>18 DEF PrintSync
  <2>2. pc \notin {"start", "cfgSync", "setHost"} /\ pc' \notin {"start", "cfgSync", "setHost"}
        /\ (pc' = "configure" => phase' # "setup") /\ phase' # "setup" /\ phase # "setup"
    BY <1>18, SucceedPc, FailPc, AfterPollPc, PollFailsPc DEF PrintSync, WriteFailure, Goto, ControlInv, CallsOf, Phases
  <2>3. phase' # "recover" => phase # "recover" /\ (phase' = "done" <=> phase = "done")
    BY <1>18, SucceedPc, FailPc, AfterPollPc, PollFailsPc DEF PrintSync, WriteFailure, Goto, ControlInv, CallsOf, Phases
  <2>4. phase \in Phases /\ phase' \in Phases
    BY ControlStep DEF ControlInv
  <2> QED BY <2>1, <2>2, <2>3, <2>4 DEF Printing, Phases
<1>19. CASE WaitUsbQuery
  <2>1. CASE Succeed /\ PortType = "serial"
    <3>1. phase = "waitUsb" /\ phase' = "finish" /\ pc' = "poll" /\ UNCHANGED <<hostSet, prSet, tainted, outq>>
      BY <1>19, <2>1 DEF WaitUsbQuery, Succeed, Following, Entry, ControlInv, CallsOf, Phases
    <3> QED BY <3>1 DEF Printing
  <2>2. CASE PortType # "serial"
    BY <2>2
  <2> QED BY <1>19, <2>1, <2>2 DEF WaitUsbQuery
<1>20. CASE WaitUsbAnswer
  <2>1. UNCHANGED <<hostSet, outq, prSet, tainted>>
    BY <1>20 DEF WaitUsbAnswer
  <2>2. pc \notin {"start", "cfgSync", "setHost"} /\ pc' \notin {"start", "cfgSync", "setHost"}
        /\ (pc' = "configure" => phase' # "setup") /\ phase' # "setup" /\ phase # "setup"
    BY <1>20, SucceedPc, FailPc, AfterPollPc, PollFailsPc DEF WaitUsbAnswer, Goto, ControlInv, CallsOf, Phases
  <2>3. phase' # "recover" => phase # "recover" /\ (phase' = "done" <=> phase = "done")
    BY <1>20, SucceedPc, FailPc, AfterPollPc, PollFailsPc DEF WaitUsbAnswer, Goto, ControlInv, CallsOf, Phases
  <2>4. phase \in Phases /\ phase' \in Phases
    BY ControlStep DEF ControlInv
  <2> QED BY <2>1, <2>2, <2>3, <2>4 DEF Printing, Phases
<1>21. CASE ResetSerial
  <2>1. phase = "recover" /\ UNCHANGED phase
    BY <1>21 DEF ResetSerial, Goto, Quit, ControlInv, CallsOf, Phases
  <2> QED BY <2>1
<1>22. CASE ResetSync
  <2>1. phase = "recover" /\ UNCHANGED phase
    BY <1>22 DEF ResetSync, Goto, Quit, ControlInv, CallsOf, Phases
  <2> QED BY <2>1
<1>23. CASE ResetOther
  <2>1. phase = "recover" /\ UNCHANGED phase
    BY <1>23 DEF ResetOther, Goto, Quit, ControlInv, CallsOf, Phases
  <2> QED BY <2>1
<1>24. CASE ResetClose
  <2>1. phase = "recover" /\ UNCHANGED phase
    BY <1>24 DEF ResetClose, Goto, Quit, ControlInv, CallsOf, Phases
  <2> QED BY <2>1
<1>25. CASE Close
  <2>1. UNCHANGED <<hostSet, outq, prSet, tainted, phase>>
    BY <1>25 DEF Close, Goto, Quit
  <2>2. phase \in {"done", "recover"} /\ pc' \notin {"cfgSync", "setHost"}
    BY <1>25 DEF Close, Goto, Quit, ControlInv, CallsOf, Phases
  <2> QED BY <2>1, <2>2 DEF Printing
<1>26. CASE Destroy
  <2>1. UNCHANGED <<hostSet, outq, prSet, tainted, phase>>
    BY <1>26 DEF Destroy, Goto, Quit
  <2>2. phase \in {"done", "recover"} /\ pc' \notin {"cfgSync", "setHost"}
    BY <1>26 DEF Destroy, Goto, Quit, ControlInv, CallsOf, Phases
  <2> QED BY <2>1, <2>2 DEF Printing
<1>27. CASE NextJob
  <2>1. Fresh' => ~tainted /\ phase = "done"
    BY <1>27 DEF NextJob
  <2>2. Fresh' /\ PortType = "serial" => outq' = <<>> /\ prSet' = "default"
    BY <1>27, <2>1 DEF NextJob
  <2> QED BY <1>27, <2>2 DEF NextJob, Printing
<1>28. CASE DeadlinePasses
  <2>1. UNCHANGED <<pc, phase, hostSet, outq, prSet, tainted>>
    BY <1>28 DEF DeadlinePasses
  <2> QED BY <2>1 DEF Printing, ChangePending, Before, Target, Cfg
<1>29. CASE Sigterm
  <2>1. UNCHANGED <<pc, phase, hostSet, outq, prSet, tainted>>
    BY <1>29 DEF Sigterm, Signal
  <2> QED BY <2>1 DEF Printing, ChangePending, Before, Target, Cfg
<1>30. CASE InterruptPipe
  <2>1. UNCHANGED <<hostSet, outq, prSet, tainted>>
    BY <1>30 DEF InterruptPipe
  <2>2. phase' = "recover" \/ (phase' = phase /\ phase \notin {"setup", "done"} /\ pc \notin {"cfgSync", "setHost"}
                                /\ pc' \notin {"cfgSync", "setHost"})
    BY <1>30, FailPc, PollFailsPc, AfterPollPc DEF InterruptPipe, Signal, Goto, ControlInv, CallsOf, Phases
  <2> QED BY <2>1, <2>2 DEF Printing
<1>31. CASE InterruptPort
  <2>1. UNCHANGED <<hostSet, outq, prSet, tainted>>
    BY <1>31 DEF InterruptPort
  <2>2. phase' = "recover" \/ (phase' = phase /\ phase \notin {"setup", "done"} /\ pc \notin {"cfgSync", "setHost"}
                                /\ pc' \notin {"cfgSync", "setHost"})
    BY <1>31, FailPc, PollFailsPc, AfterPollPc DEF InterruptPort, Signal, Goto, ControlInv, CallsOf, Phases
  <2> QED BY <2>1, <2>2 DEF Printing
<1>32. CASE FilterWrites
  <2>1. UNCHANGED <<pc, phase, hostSet, outq, prSet, tainted>>
    BY <1>32 DEF FilterWrites
  <2> QED BY <2>1 DEF Printing, ChangePending, Before, Target, Cfg
<1>33. CASE FilterEnds
  <2>1. UNCHANGED <<pc, phase, hostSet, outq, prSet, tainted>>
    BY <1>33 DEF FilterEnds
  <2> QED BY <2>1 DEF Printing, ChangePending, Before, Target, Cfg
<1>34. CASE Transmit
  <2>1. UNCHANGED <<pc, phase, hostSet, tainted>> /\ outq # <<>> /\ outq' = Tail(outq) /\ PortType = "serial"
    BY <1>34 DEF Transmit
  <2>2. Target' = Target /\ Before' = Before
    BY <2>1 DEF Target, Before
  <2>3. Head(outq).kind \notin {"cfg", "reset"} => prSet' = prSet
    BY <1>34 DEF Transmit
  <2>4. CASE Fresh /\ Printing
    <3>1. NoControl(Tail(outq)) /\ Head(outq).kind \notin {"cfg", "reset"}
      BY <2>1, <2>4, NoControlTail
    <3>2. UNCHANGED <<prSet, hostSet>> /\ NoControl(outq')
      BY <2>1, <2>3, <3>1
    <3> QED BY <2>1, <2>4, <3>2 DEF Printing, ControlInv, CallsOf, Phases
  <2>5. CASE Fresh /\ pc = "cfgSync"
    <3>1. /\ outq[Len(outq)] = Cfg(Target) /\ prSet = Before /\ hostSet = Before
          /\ \A i \in 1 .. Len(outq) - 1 : outq[i].kind \notin {"cfg", "reset"}
      BY <2>1, <2>5 DEF ChangePending
    <3>2. CASE Len(outq) = 1
      <4>0. Head(outq) = outq[1] /\ Tail(outq) = <<>>
        BY <2>1, <3>2, LenOne
      <4>1. Head(outq) = Cfg(Target) /\ outq' = <<>>
        BY <2>1, <3>1, <3>2, <4>0
      <4>2. Head(outq).kind = "cfg" /\ Head(outq).set = Target
        BY <4>1 DEF Cfg
      <4>3. prSet' = Target
        BY <1>34, <3>1, <4>2 DEF Transmit
      <4> QED BY <2>1, <2>2, <2>5, <3>1, <4>1, <4>3 DEF ChangePending, Printing, ControlInv, CallsOf, Phases
    <3>3. CASE Len(outq) > 1
      <4>1. Head(outq).kind \notin {"cfg", "reset"} /\ prSet' = prSet
        BY <2>1, <2>3, <3>1, <3>3
      <4>0. Len(outq') = Len(outq) - 1 /\ \A i \in 1 .. Len(outq') : outq'[i] = outq[i + 1]
        BY <2>1
      <4>2. outq' # <<>> /\ outq'[Len(outq')] = Cfg(Target)
        BY <3>1, <3>3, <4>0
      <4>3. \A i \in 1 .. Len(outq') - 1 : outq'[i].kind \notin {"cfg", "reset"}
        BY <2>1, <3>1, <3>3
      <4>4. Cfg(Target)' = Cfg(Target)
        BY <2>2 DEF Cfg
      <4>5. ChangePending'
        BY <2>2, <3>1, <4>1, <4>2, <4>3, <4>4 DEF ChangePending
      <4> QED BY <2>1, <2>2, <2>5, <3>1, <4>5 DEF Printing, ControlInv, CallsOf, Phases
    <3>4. Len(outq) = 1 \/ Len(outq) > 1
      BY <2>1, LenNonEmpty
    <3> QED BY <3>2, <3>3, <3>4
  <2>6. CASE ~Fresh
    BY <2>1, <2>6
  <2>7. CASE Fresh /\ ~Printing /\ pc # "cfgSync"
    <3>1. phase = "setup" /\ pc = "exited"
      BY <2>1, <2>7 DEF Printing, ControlInv, CallsOf, Phases
    <3> QED BY <2>1, <3>1 DEF Printing
  <2> QED BY <2>4, <2>5, <2>6, <2>7
<1>35. CASE PrintBlock
  <2>1. UNCHANGED <<pc, phase, hostSet, outq, prSet, tainted>>
    BY <1>35 DEF PrintBlock
  <2> QED BY <2>1 DEF Printing, ChangePending, Before, Target, Cfg
<1>36. CASE AnswerNeop
  <2>1. UNCHANGED <<pc, phase, hostSet, outq, prSet, tainted>>
    BY <1>36 DEF AnswerNeop
  <2> QED BY <2>1 DEF Printing, ChangePending, Before, Target, Cfg
<1>37. CASE AnswerInOrder
  <2>1. UNCHANGED <<pc, phase, hostSet, outq, prSet, tainted>>
    BY <1>37 DEF AnswerInOrder
  <2> QED BY <2>1 DEF Printing, ChangePending, Before, Target, Cfg
<1>38. CASE AnswerRealTime
  <2>1. UNCHANGED <<pc, phase, hostSet, outq, prSet, tainted>>
    BY <1>38 DEF AnswerRealTime
  <2> QED BY <2>1 DEF Printing, ChangePending, Before, Target, Cfg
<1>39. CASE PaperOut
  <2>1. UNCHANGED <<pc, phase, hostSet, outq, prSet, tainted>>
    BY <1>39 DEF PaperOut
  <2> QED BY <2>1 DEF Printing, ChangePending, Before, Target, Cfg
<1>40. CASE PaperIn
  <2>1. UNCHANGED <<pc, phase, hostSet, outq, prSet, tainted>>
    BY <1>40 DEF PaperIn
  <2> QED BY <2>1 DEF Printing, ChangePending, Before, Target, Cfg
<1>41. CASE UNCHANGED vars
  BY <1>41 DEF vars, Printing, ChangePending, Before, Target, Cfg
<1> QED
  BY <1>1, <1>2, <1>3, <1>4, <1>5, <1>6, <1>7, <1>8, <1>9, <1>10, <1>11, <1>12, <1>13, <1>14, <1>15, <1>16, <1>17, <1>18, <1>19, <1>20,
     <1>21, <1>22, <1>23, <1>24, <1>25, <1>26, <1>27, <1>28, <1>29, <1>30, <1>31, <1>32, <1>33, <1>34, <1>35, <1>36, <1>37, <1>38, <1>39, <1>40, <1>41
  DEF Next, Backend, Filter, Printer, Terminated

-----------------------------------------------------------------------------
(* No block is in the kernel buffer outside state_print, so that the       *)
(* flushes of the status polls drop none, and in state_print the line      *)
(* works because the settings agree.                                       *)
NoData(q) == \A i \in 1 .. Len(q) : q[i].kind # "data"

LossInv ==
  /\ PortType # "serial" => outq = <<>>
  /\ ~tainted /\ phase # "recover" => lost = {} /\ (phase # "print" => NoData(outq))

LEMMA NoDataIn == ASSUME NEW q \in Seq(Message), NoData(q) PROVE DataIn(q) = {}
  BY DEF NoData, DataIn

LEMMA NoDataQuery == NoData(<<>>) /\ NoData(<<Query("status")>>)
  BY DEF NoData, Query

LEMMA NoDataAppend ==
  ASSUME NEW q \in Seq(Message), NEW m \in Message, NoData(q), m.kind # "data"
  PROVE  NoData(Append(q, m))
  BY DEF NoData

LEMMA NoDataTail ==
  ASSUME NEW q \in Seq(Message), q # <<>>, NoData(q)
  PROVE  NoData(Tail(q)) /\ NoData(<<Head(q)>>)
  BY DEF NoData

(* Nothing is flushed or garbled while no job failed.                      *)
LEMMA LossStep == ControlInv /\ LineType /\ BlockInv /\ ProcessType /\ SettingInv /\ LossInv /\ [Next]_vars => LossInv'
<1> SUFFICES ASSUME ControlInv, LineType, BlockInv, ProcessType, SettingInv, LossInv, [Next]_vars PROVE LossInv'
  OBVIOUS
<1> USE DEF LossInv, LineType, host, life, line, printer, outside, status, ctl, Quiet, Writes, Reads
<1>1. CASE Open
  <2>1. UNCHANGED <<outq, lost, tainted>>
    BY <1>1 DEF Open
  <2>2. (phase' # "recover" => phase # "recover") /\ (phase' # "print" => phase # "print" \/ phase' = "recover")
    BY <1>1, SucceedPc, FailPc, PollFailsPc DEF Open, Quit, Goto, ControlInv, CallsOf, Phases
  <2> QED BY <2>1, <2>2
<1>2. CASE Configure
  <2>1. UNCHANGED <<lost, tainted>> /\ phase \in {"setup", "finish"}
        /\ (phase' = "recover" \/ phase' \notin {"print", "recover"})
    BY <1>2, SucceedPc, FailPc DEF Configure, Writes, Goto, ControlInv, CallsOf, Phases
  <2>2. outq' = outq \/ (PortType = "serial" /\ outq' = Append(outq, Cfg(Target)))
    BY <1>2 DEF Configure, WriteFails, Write, Takes
  <2>3. Cfg(Target) \in Message /\ Cfg(Target).kind # "data"
    BY CfgType DEF Cfg, Target, Settings
  <2>4. NoData(outq) => NoData(outq')
    BY <2>2, <2>3, NoDataAppend
  <2> QED BY <2>1, <2>2, <2>4
<1>3. CASE ConfigureSync
  <2>1. UNCHANGED <<outq, lost, tainted>>
    BY <1>3 DEF ConfigureSync
  <2>2. (phase' # "recover" => phase # "recover") /\ (phase' # "print" => phase # "print" \/ phase' = "recover")
    BY <1>3, SucceedPc, FailPc, PollFailsPc DEF ConfigureSync, Goto, ControlInv, CallsOf, Phases
  <2> QED BY <2>1, <2>2
<1>4. CASE SetHost
  <2>1. UNCHANGED <<outq, lost, tainted>>
    BY <1>4 DEF SetHost
  <2>2. (phase' # "recover" => phase # "recover") /\ (phase' # "print" => phase # "print" \/ phase' = "recover")
    BY <1>4, SucceedPc, FailPc, PollFailsPc DEF SetHost, Target, Goto, ControlInv, CallsOf, Phases
  <2> QED BY <2>1, <2>2
<1>5. CASE PollSerial
  <2>1. UNCHANGED tainted /\ phase \in {"wait", "wait2", "finish", "recover"} /\ PortType = "serial"
        /\ (phase' = "recover" \/ phase' = phase)
    BY <1>5, PollFailsPc DEF PollSerial, Goto, ControlInv, CallsOf, Phases
  <2>2. outq' = outq \/ outq' = <<>> \/ outq' = <<Query("status")>>
    BY <1>5 DEF PollSerial
  <2>3. lost' = lost \/ lost' = lost \cup DataIn(outq)
    BY <1>5 DEF PollSerial, Discard, Flush
  <2> QED BY <2>1, <2>2, <2>3, NoDataIn, NoDataQuery
<1>6. CASE PollSync
  <2>1. UNCHANGED <<outq, lost, tainted>>
    BY <1>6 DEF PollSync
  <2>2. (phase' # "recover" => phase # "recover") /\ (phase' # "print" => phase # "print" \/ phase' = "recover")
    BY <1>6, SucceedPc, FailPc, PollFailsPc DEF PollSync, Goto, ControlInv, CallsOf, Phases
  <2> QED BY <2>1, <2>2
<1>7. CASE PollOther
  <2>1. UNCHANGED <<outq, lost, tainted>>
    BY <1>7 DEF PollOther
  <2>2. (phase' # "recover" => phase # "recover") /\ (phase' # "print" => phase # "print" \/ phase' = "recover")
    BY <1>7, SucceedPc, FailPc, PollFailsPc DEF PollOther, Goto, ControlInv, CallsOf, Phases
  <2> QED BY <2>1, <2>2
<1>8. CASE PollRead
  <2>1. UNCHANGED <<outq, lost, tainted>>
    BY <1>8 DEF PollRead
  <2>2. (phase' # "recover" => phase # "recover") /\ (phase' # "print" => phase # "print" \/ phase' = "recover")
    BY <1>8, SucceedPc, FailPc, PollFailsPc DEF PollRead, AfterStatus, Goto, ControlInv, CallsOf, Phases
  <2> QED BY <2>1, <2>2
<1>9. CASE PollUsb
  <2>1. UNCHANGED <<outq, lost, tainted>>
    BY <1>9 DEF PollUsb
  <2>2. (phase' # "recover" => phase # "recover") /\ (phase' # "print" => phase # "print" \/ phase' = "recover")
    BY <1>9, SucceedPc, FailPc, PollFailsPc DEF PollUsb, AfterStatus, Goto, ControlInv, CallsOf, Phases
  <2> QED BY <2>1, <2>2
<1>10. CASE NeopWrite
  <2>1. UNCHANGED <<lost, tainted, phase>> /\ phase # "print"
    BY <1>10 DEF NeopWrite, Goto, ControlInv, CallsOf, Phases
  <2>2. outq' = outq \/ (PortType = "serial" /\ outq' = Append(outq, Query("neop")))
    BY <1>10 DEF NeopWrite, WriteFails, Write, Takes
  <2>3. Query("neop") \in Message /\ Query("neop").kind # "data"
    BY QueryType DEF Query
  <2>4. NoData(outq) => NoData(outq')
    BY <2>2, <2>3, NoDataAppend
  <2> QED BY <2>1, <2>2, <2>4
<1>11. CASE NeopRead
  <2>1. UNCHANGED <<outq, lost, tainted>>
    BY <1>11 DEF NeopRead
  <2>2. (phase' # "recover" => phase # "recover") /\ (phase' # "print" => phase # "print" \/ phase' = "recover")
    BY <1>11, SucceedPc, FailPc, PollFailsPc DEF NeopRead, Goto, ControlInv, CallsOf, Phases
  <2> QED BY <2>1, <2>2
<1>12. CASE Wait
  <2>1. UNCHANGED <<outq, lost, tainted>>
    BY <1>12 DEF Wait
  <2>2. (phase' # "recover" => phase # "recover") /\ phase # "print"
    BY <1>12, SucceedPc, FailPc, PollFailsPc DEF Wait, Goto, ControlInv, CallsOf, Phases
  <2> QED BY <2>1, <2>2
<1>13. CASE FirstHeader
  <2>1. UNCHANGED <<outq, lost, tainted>>
    BY <1>13 DEF FirstHeader
  <2>2. (phase' # "recover" => phase # "recover") /\ (phase' # "print" => phase # "print" \/ phase' = "recover")
    BY <1>13, SucceedPc, FailPc, PollFailsPc DEF FirstHeader, PipeHasBlock, PipeAtEnd, Goto, ControlInv, CallsOf, Phases
  <2> QED BY <2>1, <2>2
<1>14. CASE ReadBlock
  <2>1. UNCHANGED <<outq, lost, tainted>>
    BY <1>14 DEF ReadBlock
  <2>2. (phase' # "recover" => phase # "recover") /\ (phase' # "print" => phase # "print" \/ phase' = "recover")
    BY <1>14, SucceedPc, FailPc, PollFailsPc DEF ReadBlock, Goto, ControlInv, CallsOf, Phases
  <2> QED BY <2>1, <2>2
<1>15. CASE NextHeader
  <2>1. UNCHANGED <<outq, lost, tainted>>
    BY <1>15 DEF NextHeader
  <2>2. (phase' # "recover" => phase # "recover") /\ (phase' # "print" => phase # "print" \/ phase' = "recover")
    BY <1>15, SucceedPc, FailPc, PollFailsPc DEF NextHeader, PipeHasBlock, PipeAtEnd, Goto, ControlInv, CallsOf, Phases
  <2> QED BY <2>1, <2>2
<1>16. CASE RawRead
  <2>1. UNCHANGED <<outq, lost, tainted>>
    BY <1>16 DEF RawRead
  <2>2. (phase' # "recover" => phase # "recover") /\ (phase' # "print" => phase # "print" \/ phase' = "recover")
    BY <1>16, SucceedPc, FailPc, PollFailsPc DEF RawRead, PipeHasBlock, PipeAtEnd, Goto, ControlInv, CallsOf, Phases
  <2> QED BY <2>1, <2>2
<1>17. CASE WriteBlocks
  <2>1. UNCHANGED <<lost, tainted>> /\ phase = "print" /\ phase' \in {"print", "recover"}
    BY <1>17 DEF WriteBlocks, WriteFailure, Fail, Goto, ControlInv, CallsOf, Phases
  <2>2. PortType # "serial" => outq' = outq
    BY <1>17 DEF WriteBlocks, Write, Takes
  <2> QED BY <2>1, <2>2
<1>18. CASE PrintSync
  <2>1. UNCHANGED <<outq, lost, tainted>> /\ phase = "print" /\ (phase' = "recover" \/ outq = <<>>)
    BY <1>18, FailPc DEF PrintSync, WriteFailure, ControlInv, CallsOf, Phases
  <2> QED BY <2>1, NoDataQuery
<1>19. CASE WaitUsbQuery
  <2>1. UNCHANGED <<lost, tainted>> /\ phase = "waitUsb" /\ (phase' = "recover" \/ phase' \notin {"print", "recover"})
    BY <1>19, SucceedPc, FailPc DEF WaitUsbQuery, Goto, ControlInv, CallsOf, Phases
  <2>2. outq' = outq
    BY <1>19 DEF WaitUsbQuery, WriteFails, Write, Takes
  <2> QED BY <2>1, <2>2
<1>20. CASE WaitUsbAnswer
  <2>1. UNCHANGED <<outq, lost, tainted>>
    BY <1>20 DEF WaitUsbAnswer
  <2>2. (phase' # "recover" => phase # "recover") /\ (phase' # "print" => phase # "print" \/ phase' = "recover")
    BY <1>20, SucceedPc, FailPc, PollFailsPc DEF WaitUsbAnswer, Goto, ControlInv, CallsOf, Phases
  <2> QED BY <2>1, <2>2
<1>21. CASE ResetSerial
  <2>1. phase' = "recover" /\ PortType = "serial"
    BY <1>21 DEF ResetSerial, Goto, Quit, ControlInv, CallsOf, Phases
  <2> QED BY <2>1
<1>22. CASE ResetSync
  <2>1. UNCHANGED <<outq, lost, tainted>>
    BY <1>22 DEF ResetSync
  <2>2. (phase' # "recover" => phase # "recover") /\ (phase' # "print" => phase # "print" \/ phase' = "recover")
    BY <1>22, SucceedPc, FailPc, PollFailsPc DEF ResetSync, Quit, Goto, ControlInv, CallsOf, Phases
  <2> QED BY <2>1, <2>2
<1>23. CASE ResetOther
  <2>1. phase' = "recover" /\ UNCHANGED outq
    BY <1>23 DEF ResetOther, Goto, Quit, ControlInv, CallsOf, Phases
  <2> QED BY <2>1
<1>24. CASE ResetClose
  <2>1. UNCHANGED <<outq, lost, tainted>>
    BY <1>24 DEF ResetClose
  <2>2. (phase' # "recover" => phase # "recover") /\ (phase' # "print" => phase # "print" \/ phase' = "recover")
    BY <1>24, SucceedPc, FailPc, PollFailsPc DEF ResetClose, Quit, Goto, ControlInv, CallsOf, Phases
  <2> QED BY <2>1, <2>2
<1>25. CASE Close
  <2>1. UNCHANGED <<outq, lost, tainted>>
    BY <1>25 DEF Close
  <2>2. (phase' # "recover" => phase # "recover") /\ (phase' # "print" => phase # "print" \/ phase' = "recover")
    BY <1>25, SucceedPc, FailPc, PollFailsPc DEF Close, Goto, ControlInv, CallsOf, Phases
  <2> QED BY <2>1, <2>2
<1>26. CASE Destroy
  <2>1. UNCHANGED <<outq, lost, tainted>>
    BY <1>26 DEF Destroy
  <2>2. (phase' # "recover" => phase # "recover") /\ (phase' # "print" => phase # "print" \/ phase' = "recover")
    BY <1>26, SucceedPc, FailPc, PollFailsPc DEF Destroy, Quit, Goto, ControlInv, CallsOf, Phases
  <2> QED BY <2>1, <2>2
<1>27. CASE NextJob
  <2>1. UNCHANGED outq /\ lost' = {} /\ (~tainted' => ~tainted /\ phase = "done")
    BY <1>27 DEF NextJob
  <2> QED BY <2>1
<1>28. CASE DeadlinePasses
  <2>1. UNCHANGED <<outq, lost, tainted>>
    BY <1>28 DEF DeadlinePasses
  <2>2. (phase' # "recover" => phase # "recover") /\ (phase' # "print" => phase # "print" \/ phase' = "recover")
    BY <1>28, SucceedPc, FailPc, PollFailsPc DEF DeadlinePasses, Goto, ControlInv, CallsOf, Phases
  <2> QED BY <2>1, <2>2
<1>29. CASE Sigterm
  <2>1. UNCHANGED <<outq, lost, tainted>>
    BY <1>29 DEF Sigterm, Signal
  <2>2. (phase' # "recover" => phase # "recover") /\ (phase' # "print" => phase # "print" \/ phase' = "recover")
    BY <1>29, SucceedPc, FailPc, PollFailsPc DEF Sigterm, Signal, Goto, ControlInv, CallsOf, Phases
  <2> QED BY <2>1, <2>2
<1>30. CASE InterruptPipe
  <2>1. UNCHANGED <<outq, lost, tainted>>
    BY <1>30 DEF InterruptPipe, Signal
  <2>2. (phase' # "recover" => phase # "recover") /\ (phase' # "print" => phase # "print" \/ phase' = "recover")
    BY <1>30, SucceedPc, FailPc, PollFailsPc DEF InterruptPipe, Signal, Goto, ControlInv, CallsOf, Phases
  <2> QED BY <2>1, <2>2
<1>31. CASE InterruptPort
  <2>1. UNCHANGED <<outq, lost, tainted>>
    BY <1>31 DEF InterruptPort, Signal
  <2>2. (phase' # "recover" => phase # "recover") /\ (phase' # "print" => phase # "print" \/ phase' = "recover")
    BY <1>31, SucceedPc, FailPc, PollFailsPc DEF InterruptPort, Signal, Goto, ControlInv, CallsOf, Phases
  <2> QED BY <2>1, <2>2
<1>32. CASE FilterWrites
  <2>1. UNCHANGED <<outq, lost, tainted>>
    BY <1>32 DEF FilterWrites
  <2>2. (phase' # "recover" => phase # "recover") /\ (phase' # "print" => phase # "print" \/ phase' = "recover")
    BY <1>32, SucceedPc, FailPc, PollFailsPc DEF FilterWrites, Goto, ControlInv, CallsOf, Phases
  <2> QED BY <2>1, <2>2
<1>33. CASE FilterEnds
  <2>1. UNCHANGED <<outq, lost, tainted>>
    BY <1>33 DEF FilterEnds
  <2>2. (phase' # "recover" => phase # "recover") /\ (phase' # "print" => phase # "print" \/ phase' = "recover")
    BY <1>33, SucceedPc, FailPc, PollFailsPc DEF FilterEnds, Goto, ControlInv, CallsOf, Phases
  <2> QED BY <2>1, <2>2
<1>34. CASE Transmit
  <2>1. UNCHANGED <<pc, phase, hostSet, tainted>> /\ outq # <<>> /\ outq' = Tail(outq) /\ PortType = "serial"
    BY <1>34 DEF Transmit
  <2>2. CASE ~tainted /\ phase # "recover"
    <3>1. hostSet = prSet /\ Head(outq).kind # "reset"
      <4>1. CASE Printing
        BY <2>1, <2>2, <4>1, NoControlTail DEF SettingInv, Fresh, LineType
      <4>2. CASE pc = "cfgSync"
        <5>1. /\ outq[Len(outq)] = Cfg(Target) /\ prSet = hostSet
              /\ \A i \in 1 .. Len(outq) - 1 : outq[i].kind \notin {"cfg", "reset"}
          BY <2>1, <2>2, <4>2 DEF SettingInv, Fresh, ChangePending
        <5>2. CASE Len(outq) = 1
          BY <5>1, <5>2 DEF Cfg, LineType
        <5>3. CASE Len(outq) > 1
          BY <5>1, <5>3 DEF LineType
        <5> QED BY <2>1, <5>1, <5>2, <5>3, LenNonEmpty DEF LineType
      <4>3. CASE ~Printing /\ pc # "cfgSync" /\ phase # "setup"
        BY <2>1, <2>2, <4>3 DEF SettingInv, Fresh, Printing, ControlInv, CallsOf, Phases
      <4>4. CASE phase = "setup" /\ pc # "cfgSync" /\ pc # "exited"
        BY <2>1, <2>2, <4>4 DEF SettingInv, Fresh, ControlInv, CallsOf
      <4>5. CASE phase = "setup" /\ pc = "exited"
        BY <2>1, <2>2, <4>5 DEF SettingInv, Fresh
      <4> QED BY <4>1, <4>2, <4>3, <4>4, <4>5
    <3>2. lost' = lost
      BY <1>34, <3>1 DEF Transmit
    <3> QED BY <2>1, <2>2, <3>2, NoDataTail DEF LineType
  <2> QED BY <2>1, <2>2
<1>35. CASE PrintBlock
  <2>1. UNCHANGED <<outq, lost, tainted>>
    BY <1>35 DEF PrintBlock
  <2>2. (phase' # "recover" => phase # "recover") /\ (phase' # "print" => phase # "print" \/ phase' = "recover")
    BY <1>35, SucceedPc, FailPc, PollFailsPc DEF PrintBlock, Goto, ControlInv, CallsOf, Phases
  <2> QED BY <2>1, <2>2
<1>36. CASE AnswerNeop
  <2>1. UNCHANGED <<outq, lost, tainted>>
    BY <1>36 DEF AnswerNeop
  <2>2. (phase' # "recover" => phase # "recover") /\ (phase' # "print" => phase # "print" \/ phase' = "recover")
    BY <1>36, SucceedPc, FailPc, PollFailsPc DEF AnswerNeop, Goto, ControlInv, CallsOf, Phases
  <2> QED BY <2>1, <2>2
<1>37. CASE AnswerInOrder
  <2>1. UNCHANGED <<outq, lost, tainted>>
    BY <1>37 DEF AnswerInOrder
  <2>2. (phase' # "recover" => phase # "recover") /\ (phase' # "print" => phase # "print" \/ phase' = "recover")
    BY <1>37, SucceedPc, FailPc, PollFailsPc DEF AnswerInOrder, Goto, ControlInv, CallsOf, Phases
  <2> QED BY <2>1, <2>2
<1>38. CASE AnswerRealTime
  <2>1. UNCHANGED <<outq, lost, tainted>>
    BY <1>38 DEF AnswerRealTime
  <2>2. (phase' # "recover" => phase # "recover") /\ (phase' # "print" => phase # "print" \/ phase' = "recover")
    BY <1>38, SucceedPc, FailPc, PollFailsPc DEF AnswerRealTime, Goto, ControlInv, CallsOf, Phases
  <2> QED BY <2>1, <2>2
<1>39. CASE PaperOut
  <2>1. UNCHANGED <<outq, lost, tainted>>
    BY <1>39 DEF PaperOut
  <2>2. (phase' # "recover" => phase # "recover") /\ (phase' # "print" => phase # "print" \/ phase' = "recover")
    BY <1>39, SucceedPc, FailPc, PollFailsPc DEF PaperOut, Goto, ControlInv, CallsOf, Phases
  <2> QED BY <2>1, <2>2
<1>40. CASE PaperIn
  <2>1. UNCHANGED <<outq, lost, tainted>>
    BY <1>40 DEF PaperIn
  <2>2. (phase' # "recover" => phase # "recover") /\ (phase' # "print" => phase # "print" \/ phase' = "recover")
    BY <1>40, SucceedPc, FailPc, PollFailsPc DEF PaperIn, Goto, ControlInv, CallsOf, Phases
  <2> QED BY <2>1, <2>2
<1>41. CASE UNCHANGED vars
  BY <1>41 DEF vars
<1> QED
  BY <1>1, <1>2, <1>3, <1>4, <1>5, <1>6, <1>7, <1>8, <1>9, <1>10, <1>11, <1>12, <1>13, <1>14, <1>15, <1>16, <1>17, <1>18, <1>19, <1>20,
     <1>21, <1>22, <1>23, <1>24, <1>25, <1>26, <1>27, <1>28, <1>29, <1>30, <1>31, <1>32, <1>33, <1>34, <1>35, <1>36, <1>37, <1>38, <1>39, <1>40, <1>41
  DEF Next, Backend, Filter, Printer, Terminated

-----------------------------------------------------------------------------
(* The theorems.                                                           *)

IInv ==
  /\ ControlInv /\ ProcessType /\ BlockInv /\ LineType
  /\ PortInv /\ WholeInv /\ SettingInv /\ LossInv

LEMMA InitInv == Init => IInv
<1> SUFFICES ASSUME Init PROVE IInv
  OBVIOUS
<1> USE DEF Init
<1>1. ControlInv
  BY DEF ControlInv, Phases, CallsOf
<1>2. ProcessType /\ BlockInv
  <2>1. jobs \in 1 .. MaxJobs /\ stops \in 0 .. MaxStops /\ Records \in Nat
    OBVIOUS
  <2>2. BlockInv
    BY <2>1 DEF BlockInv
  <2> QED BY <2>1, <2>2 DEF ProcessType
<1>3. LineType
  <2>1. <<>> \in Seq(0 .. Records)
    OBVIOUS
  <2> QED BY <2>1, EmptyType DEF LineType, Settings
<1>4. PortInv /\ WholeInv
  BY DEF PortInv, PortLifecycle, NeedsPort, Steps, WholeInv, AfterPrint
<1>5. SettingInv /\ LossInv
  BY NoDataQuery DEF SettingInv, Printing, LossInv
<1> QED BY <1>1, <1>2, <1>3, <1>4, <1>5 DEF IInv

LEMMA InvStep == IInv /\ [Next]_vars => IInv'
  BY ControlStep, BlockStep, ProcessTypeStep, LineTypeStep, PortStep, WholeStep, SettingStep, LossStep
  DEF IInv

LEMMA Inductive == Spec => []IInv
  BY InitInv, InvStep, PTL DEF Spec

(* Every variable keeps its type: no call finds main() in a state function *)
(* that does not make it, and no block is read or written that is not there. *)
THEOREM TypeCorrect == Spec => []TypeOK
<1>1. IInv => TypeOK
  <2> SUFFICES ASSUME IInv PROVE TypeOK
    OBVIOUS
  <2>1. pc \in Steps
    BY DEF IInv, ControlInv, CallsOf, Phases, Steps
  <2>2. got \in 0 .. Records /\ sent \in 0 .. Records /\ fpos \in 0 .. Records
    BY DEF IInv, ProcessType, BlockInv
  <2> QED BY <2>1, <2>2 DEF IInv, TypeOK, ControlInv, ProcessType, LineType
<1> QED BY <1>1, Inductive, PTL

(* The port is open at every library call, and freed exactly once, last.   *)
THEOREM PortUsedOpen == Spec => []PortLifecycle
<1>1. IInv => PortLifecycle
  BY DEF IInv, PortInv
<1> QED BY <1>1, Inductive, PTL

(* A job that was not cancelled is read to its end and written whole.      *)
THEOREM JobSentWhole == Spec => []WholeJob
<1>1. IInv => WholeJob
  BY DEF IInv, WholeInv, WholeJob
<1> QED BY <1>1, Inductive, PTL

(* The two sides of a serial line use the printing setting while the job   *)
(* is printed, if no earlier job failed.                                   *)
THEOREM SettingsInForce == Spec => []SettingsAgree
<1>1. IInv => SettingsAgree
  BY DEF IInv, SettingInv, Fresh, Printing, SettingsAgree
<1> QED BY <1>1, Inductive, PTL

(* A job that succeeds leaves both sides of a serial line at the defaults, *)
(* where the next job starts.                                              *)
THEOREM DefaultsRestored == Spec => []SettingsRestored
<1>1. IInv => SettingsRestored
  BY DEF IInv, SettingInv, Fresh, SettingsRestored
<1> QED BY <1>1, Inductive, PTL

(* No block of a job that was printed is flushed away or sent at the wrong *)
(* setting, whatever the polls, the deadlines and the signals.             *)
THEOREM NoBlockLost == Spec => []NothingLost
<1>1. IInv => NothingLost
  BY DEF IInv, LossInv, NothingLost, AfterPrint
<1> QED BY <1>1, Inductive, PTL

-----------------------------------------------------------------------------
(* The blocks on their way to the printer, in the first job that CUPS      *)
(* starts: printed, in the printer, in the kernel buffer.                  *)
Stream == printed \o DataSeq(pbuf) \o DataSeq(outq)

StreamInv ==
  jobs = 1 =>
    /\ ~tainted
    /\ phase # "recover" => Stream = [i \in 1 .. sent |-> i]

Part(m) == IF m.kind = "data" THEN <<m.rec>> ELSE <<>>

HIDE ConstantsAssumption DEF ConstantsAssumption

LEMMA PartType == ASSUME NEW m \in Message PROVE Part(m) \in Seq(0 .. Records)
<1>1. m.rec \in 0 .. Records
  BY DEF Message
<1>2. <<m.rec>> \in Seq(0 .. Records) /\ <<>> \in Seq(0 .. Records)
  BY <1>1
<1> QED BY <1>2, Zenon DEF Part

LEMMA DataParts ==
  ASSUME NEW q \in Seq(Message)
  PROVE  [i \in DOMAIN q |-> Part(q[i])] \in Seq(Seq(0 .. Records))
<1>1. Len(q) \in Nat /\ DOMAIN q = 1 .. Len(q) /\ \A i \in 1 .. Len(q) : q[i] \in Message
  OBVIOUS
<1>2. \A m \in Message : Part(m) \in Seq(0 .. Records)
  BY PartType
<1> QED BY <1>1, <1>2

LEMMA DataSeqType == ASSUME NEW q \in Seq(Message) PROVE DataSeq(q) \in Seq(0 .. Records)
  BY DataParts, FlattenType DEF DataSeq, Part

LEMMA DataSeqAppend ==
  ASSUME NEW q \in Seq(Message), NEW m \in Message
  PROVE  DataSeq(Append(q, m)) = DataSeq(q) \o Part(m)
<1> DEFINE d == [i \in DOMAIN q |-> Part(q[i])]
           t == Append(q, m)
<1>1. d \in Seq(Seq(0 .. Records)) /\ Part(m) \in Seq(0 .. Records)
  BY DataParts, PartType
<1>2. [i \in DOMAIN t |-> Part(t[i])] = Append(d, Part(m))
  <2>1. /\ Len(q) \in Nat /\ DOMAIN q = 1 .. Len(q) /\ DOMAIN t = 1 .. Len(q) + 1
        /\ t[Len(q) + 1] = m /\ \A i \in 1 .. Len(q) : t[i] = q[i]
    OBVIOUS
  <2> HIDE DEF t
  <2>2. Append(d, Part(m)) = [i \in 1 .. Len(q) + 1 |-> IF i = Len(q) + 1 THEN Part(m) ELSE d[i]]
    BY <2>1
  <2> QED BY <2>1, <2>2
<1>3. FlattenSeq(Append(d, Part(m))) = FlattenSeq(d) \o Part(m)
  <2> HIDE DEF d
  <2> QED BY <1>1, FlattenAppend
<1>4. DataSeq(q) = FlattenSeq(d) /\ DataSeq(t) = FlattenSeq([i \in DOMAIN t |-> Part(t[i])])
  BY DEF DataSeq, Part
<1> HIDE DEF d, t
<1>5. DataSeq(t) = DataSeq(q) \o Part(m)
  BY <1>2, <1>3, <1>4
<1> QED BY <1>5 DEF t

LEMMA DataSeqEmpty == DataSeq(<<>>) = <<>>
<1>1. [i \in DOMAIN <<>> |-> Part(<<>>[i])] = <<>>
  OBVIOUS
<1> QED BY <1>1, FlattenEmpty DEF DataSeq, Part

LEMMA DataSeqTail ==
  ASSUME NEW q \in Seq(Message), q # <<>>
  PROVE  DataSeq(q) = Part(Head(q)) \o DataSeq(Tail(q))
<1> DEFINE d == [i \in DOMAIN q |-> Part(q[i])]
           t == Tail(q)
<1>1. d \in Seq(Seq(0 .. Records)) /\ d # <<>> /\ Head(d) = Part(Head(q))
  <2>1. Len(q) \in Nat \ {0} /\ DOMAIN q = 1 .. Len(q) /\ DOMAIN d = 1 .. Len(q)
    OBVIOUS
  <2>2. d \in Seq(Seq(0 .. Records))
    BY DataParts
  <2> QED BY <2>1, <2>2
<1>2. [i \in DOMAIN t |-> Part(t[i])] = Tail(d)
  <2> DEFINE e == [i \in DOMAIN t |-> Part(t[i])]
  <2>1. /\ Len(q) \in Nat \ {0} /\ Len(t) = Len(q) - 1 /\ t \in Seq(Message)
        /\ DOMAIN q = 1 .. Len(q) /\ DOMAIN t = 1 .. Len(q) - 1
        /\ \A i \in 1 .. Len(q) - 1 : t[i] = q[i + 1]
    OBVIOUS
  <2>2. Len(d) = Len(q) /\ \A i \in 1 .. Len(q) - 1 : d[i + 1] = Part(q[i + 1])
    BY <2>1
  <2>3. e \in Seq(Seq(0 .. Records)) /\ Len(e) = Len(q) - 1
    <3>1. \A r \in Seq(Message) : [i \in DOMAIN r |-> Part(r[i])] \in Seq(Seq(0 .. Records))
      BY DataParts
    <3> HIDE DEF t
    <3>2. e \in Seq(Seq(0 .. Records))
      BY <2>1, <3>1
    <3>3. DOMAIN e = 1 .. Len(q) - 1
      BY <2>1
    <3> HIDE DEF e
    <3> QED BY <2>1, <3>2, <3>3
  <2>4. \A i \in 1 .. Len(q) - 1 : e[i] = d[i + 1]
    BY <2>1, <2>2
  <2> HIDE DEF d, e, t
  <2>5. Tail(d) \in Seq(Seq(0 .. Records)) /\ Len(Tail(d)) = Len(d) - 1
        /\ \A i \in 1 .. Len(Tail(d)) : Tail(d)[i] = d[i + 1]
    BY <1>1, HeadTailProperties
  <2>6. e = Tail(d)
    <3>1. PICK f : f = Tail(d)
      OBVIOUS
    <3>2. f \in Seq(Seq(0 .. Records)) /\ Len(f) = Len(e) /\ \A i \in 1 .. Len(e) : f[i] = e[i]
      BY <2>2, <2>3, <2>4, <2>5, <3>1
    <3> QED BY <2>3, <3>1, <3>2, SeqEqual
  <2> QED BY <2>6 DEF e
<1>3. FlattenSeq(d) = Head(d) \o FlattenSeq(Tail(d))
  <2> HIDE DEF d
  <2> QED BY <1>1, FlattenHead
<1>4. DataSeq(q) = FlattenSeq(d) /\ DataSeq(t) = FlattenSeq([i \in DOMAIN t |-> Part(t[i])])
  BY DEF DataSeq, Part
<1> HIDE DEF d, t
<1>5. DataSeq(q) = Part(Head(q)) \o DataSeq(t)
  BY <1>1, <1>2, <1>3, <1>4
<1> QED BY <1>5 DEF t

(* A queue that loses no block by being dropped holds none.                *)
LEMMA NoneDropped ==
  ASSUME NEW q \in Seq(Message), DataIn(q) = {}
  PROVE  DataSeq(q) = <<>>
<1> DEFINE d == [i \in DOMAIN q |-> Part(q[i])]
<1>1. d \in Seq(Seq(0 .. Records)) /\ DataSeq(q) = FlattenSeq(d)
  BY DataParts DEF DataSeq, Part
<1>2. \A i \in 1 .. Len(d) : d[i] = <<>>
  <2>1. Len(d) = Len(q) /\ DOMAIN q = 1 .. Len(q)
    BY <1>1
  <2>2. \A i \in 1 .. Len(q) : q[i].kind # "data"
    BY <2>1 DEF DataIn
  <2> QED BY <2>1, <2>2 DEF Part
<1> HIDE DEF d
<1> QED BY <1>1, <1>2, FlattenNothing

(* A message that is not a block does not change what is on its way.       *)
LEMMA StreamWrite ==
  ASSUME LineType, NEW m \in Message, m.kind # "data", UNCHANGED printed,
         Write(m) \/ UNCHANGED <<outq, pbuf>>
  PROVE  Stream' = Stream
<1>1. /\ printed \in Seq(0 .. Records) /\ outq \in Seq(Message) /\ pbuf \in Seq(Message)
      /\ DataSeq(outq) \in Seq(0 .. Records) /\ DataSeq(pbuf) \in Seq(0 .. Records)
  BY DataSeqType DEF LineType
<1>2. (outq' = outq \/ outq' = Append(outq, m)) /\ (pbuf' = pbuf \/ pbuf' = Append(pbuf, m))
  BY DEF Write, Takes
<1>3. ASSUME NEW q \in Seq(Message) PROVE DataSeq(Append(q, m)) = DataSeq(q)
  <2>1. DataSeq(Append(q, m)) = DataSeq(q) \o <<>>
    BY DataSeqAppend, Zenon DEF Part
  <2>2. \A a \in Seq(0 .. Records) : a \o <<>> = a
    OBVIOUS
  <2> QED BY <2>1, <2>2, DataSeqType, Zenon
<1>4. DataSeq(outq') = DataSeq(outq) /\ DataSeq(pbuf') = DataSeq(pbuf)
  BY <1>1, <1>2, <1>3
<1> QED BY <1>4 DEF Stream

(* A block that is written comes last.                                     *)
LEMMA StreamData ==
  ASSUME LineType, NEW r \in 0 .. Records, UNCHANGED printed, Write(Data(r)),
         PortType # "serial" => outq = <<>>
  PROVE  Stream' = Append(Stream, r)
<1>1. /\ printed \in Seq(0 .. Records) /\ outq \in Seq(Message) /\ pbuf \in Seq(Message)
      /\ DataSeq(outq) \in Seq(0 .. Records) /\ DataSeq(pbuf) \in Seq(0 .. Records)
  BY DataSeqType DEF LineType
<1>2. \A q \in Seq(Message) : DataSeq(Append(q, Data(r))) = DataSeq(q) \o <<r>>
  <2>1. Data(r) \in Message /\ Part(Data(r)) = <<r>>
    BY DEF Data, Message, Settings, Part
  <2> QED BY <2>1, DataSeqAppend
<1>3. /\ \A a, b, c \in Seq(0 .. Records) : (a \o b) \o (c \o <<r>>) = Append((a \o b) \o c, r)
      /\ \A a, b \in Seq(0 .. Records) : (a \o (b \o <<r>>)) \o <<>> = Append((a \o b) \o <<>>, r)
  BY RegroupLast, Zenon
<1>4. CASE PortType = "serial"
  <2>1. outq' = Append(outq, Data(r)) /\ pbuf' = pbuf
    BY <1>4 DEF Write, Takes
  <2>2. DataSeq(outq') = DataSeq(outq) \o <<r>>
    BY <1>1, <1>2, <2>1, Zenon
  <2>3. Stream' = (printed \o DataSeq(pbuf)) \o (DataSeq(outq) \o <<r>>)
    BY <2>1, <2>2, Zenon DEF Stream
  <2> QED BY <1>1, <1>3, <2>3, Zenon DEF Stream
<1>5. CASE PortType # "serial"
  <2>1. pbuf' = Append(pbuf, Data(r)) /\ outq' = outq /\ outq = <<>>
    BY <1>5 DEF Write, Takes
  <2>2. DataSeq(pbuf') = DataSeq(pbuf) \o <<r>>
    BY <1>1, <1>2, <2>1, Zenon
  <2>3. DataSeq(outq) = <<>> /\ DataSeq(outq') = <<>>
    BY <2>1, DataSeqEmpty, Zenon
  <2>4. Stream' = (printed \o (DataSeq(pbuf) \o <<r>>)) \o <<>>
    BY <2>2, <2>3, Zenon DEF Stream
  <2> QED BY <1>1, <1>3, <2>3, <2>4, Zenon DEF Stream
<1> QED BY <1>4, <1>5

(* The printer takes what comes first.                                     *)
LEMMA StreamMove ==
  ASSUME LineType
  PROVE  /\ outq # <<>> =>
              printed \o DataSeq(Append(pbuf, Head(outq))) \o DataSeq(Tail(outq)) = Stream
         /\ outq # <<>> /\ Head(outq).kind # "data" =>
              DataSeq(Tail(outq)) = DataSeq(outq)
         /\ pbuf # <<>> /\ Head(pbuf).kind # "data" =>
              DataSeq(Tail(pbuf)) = DataSeq(pbuf)
         /\ pbuf # <<>> /\ Head(pbuf).kind = "data" =>
              Append(printed, Head(pbuf).rec) \o DataSeq(Tail(pbuf)) = printed \o DataSeq(pbuf)
<1>1. /\ printed \in Seq(0 .. Records) /\ outq \in Seq(Message) /\ pbuf \in Seq(Message)
      /\ DataSeq(outq) \in Seq(0 .. Records) /\ DataSeq(pbuf) \in Seq(0 .. Records)
  BY DataSeqType DEF LineType
<1>2. \A q \in Seq(Message) :
        q # <<>> => /\ Head(q) \in Message /\ Tail(q) \in Seq(Message)
                    /\ Part(Head(q)) \in Seq(0 .. Records)
                    /\ DataSeq(Tail(q)) \in Seq(0 .. Records)
                    /\ DataSeq(q) = Part(Head(q)) \o DataSeq(Tail(q))
  <2> SUFFICES ASSUME NEW q \in Seq(Message), q # <<>>
               PROVE  /\ Head(q) \in Message /\ Tail(q) \in Seq(Message)
                      /\ Part(Head(q)) \in Seq(0 .. Records)
                      /\ DataSeq(Tail(q)) \in Seq(0 .. Records)
                      /\ DataSeq(q) = Part(Head(q)) \o DataSeq(Tail(q))
    OBVIOUS
  <2>1. Head(q) \in Message /\ Tail(q) \in Seq(Message)
    OBVIOUS
  <2> QED BY <2>1, PartType, DataSeqType, DataSeqTail
<1>3. /\ \A a, b, c \in Seq(0 .. Records) : (a \o b) \o c = a \o (b \o c)
      /\ \A a, b \in Seq(0 .. Records) : a \o b \in Seq(0 .. Records)
  BY Regroup, Zenon
<1>4. ASSUME outq # <<>>
      PROVE  printed \o DataSeq(Append(pbuf, Head(outq))) \o DataSeq(Tail(outq)) = Stream
  <2>1. DataSeq(Append(pbuf, Head(outq))) = DataSeq(pbuf) \o Part(Head(outq))
    BY <1>1, <1>2, <1>4, DataSeqAppend, Zenon
  <2> DEFINE a == printed
             b == DataSeq(pbuf)
             c == Part(Head(outq))
             d == DataSeq(Tail(outq))
  <2>2. c \in Seq(0 .. Records) /\ d \in Seq(0 .. Records) /\ DataSeq(outq) = c \o d
    BY <1>1, <1>2, <1>4, Zenon
  <2>3. a \in Seq(0 .. Records) /\ b \in Seq(0 .. Records)
    BY <1>1
  <2> HIDE DEF a, b, c, d
  <2>4. (a \o b) \o c = a \o (b \o c)
    BY <1>3, <2>2, <2>3
  <2>7. a \o b \in Seq(0 .. Records)
    BY <1>3, <2>3, Zenon
  <2>5. ((a \o b) \o c) \o d = (a \o b) \o (c \o d)
    BY <1>3, <2>2, <2>7, Zenon
  <2>6. (a \o (b \o c)) \o d = (a \o b) \o (c \o d)
    BY <2>4, <2>5, Zenon
  <2> QED BY <2>1, <2>2, <2>6, Zenon DEF Stream, a, b, c, d
<1>5. \A q \in Seq(Message) : q # <<>> /\ Head(q).kind # "data" => DataSeq(Tail(q)) = DataSeq(q)
  <2>1. \A a \in Seq(0 .. Records) : <<>> \o a = a
    OBVIOUS
  <2> QED BY <1>2, <2>1 DEF Part
<1>6. ASSUME pbuf # <<>>, Head(pbuf).kind = "data"
      PROVE  Append(printed, Head(pbuf).rec) \o DataSeq(Tail(pbuf)) = printed \o DataSeq(pbuf)
  <2>1. Part(Head(pbuf)) = <<Head(pbuf).rec>> /\ Head(pbuf).rec \in 0 .. Records
    BY <1>1, <1>2, <1>6 DEF Part, Message
  <2>2. Append(printed, Head(pbuf).rec) = printed \o <<Head(pbuf).rec>>
    BY <1>1, <2>1
  <2>3. DataSeq(pbuf) = <<Head(pbuf).rec>> \o DataSeq(Tail(pbuf))
    BY <1>1, <1>2, <1>6, <2>1, Zenon
  <2>4. <<Head(pbuf).rec>> \in Seq(0 .. Records) /\ DataSeq(Tail(pbuf)) \in Seq(0 .. Records)
    BY <1>1, <1>2, <1>6, <2>1
  <2>5. (printed \o <<Head(pbuf).rec>>) \o DataSeq(Tail(pbuf))
          = printed \o (<<Head(pbuf).rec>> \o DataSeq(Tail(pbuf)))
    BY <1>1, <1>3, <2>4
  <2> QED BY <2>2, <2>3, <2>5, Zenon
<1> QED BY <1>1, <1>4, <1>5, <1>6

USE ConstantsAssumption DEF ConstantsAssumption

(* Nothing overtakes, repeats or drops a block while the job goes on: what *)
(* a flush, a reset or a wrong setting drops would be in lost.             *)
LEMMA StreamStep == IInv /\ StreamInv /\ [Next]_vars => StreamInv'
<1> SUFFICES ASSUME IInv, StreamInv, [Next]_vars, jobs' = 1
             PROVE  ~tainted' /\ (phase' # "recover" => Stream' = [i \in 1 .. sent' |-> i])
  BY DEF StreamInv
<1> USE DEF Goto, Quiet, Writes, Reads, life, line, printer, outside, ctl, status, host
<1>1. /\ ControlInv /\ LineType /\ outq \in Seq(Message) /\ pbuf \in Seq(Message)
      /\ sent \in 0 .. Records /\ got \in 0 .. Records
      /\ PortType # "serial" => outq = <<>>
  BY DEF IInv, LineType, LossInv, BlockInv, ProcessType
<1>2. ~tainted' /\ phase' # "recover" => lost' = {}
  BY InvStep DEF IInv, LossInv
<1>3. jobs = 1 => ~tainted /\ (phase # "recover" => Stream = [i \in 1 .. sent |-> i])
  BY DEF StreamInv
<1>4. ASSUME UNCHANGED <<jobs, tainted, sent, printed>>, phase' = "recover" \/ phase # "recover",
             Stream' = Stream
      PROVE  ~tainted' /\ (phase' # "recover" => Stream' = [i \in 1 .. sent' |-> i])
  BY <1>3, <1>4
<1>5. UNCHANGED <<outq, pbuf, printed>> => Stream' = Stream
  BY DEF Stream
<1>6. CASE Open \/ ConfigureSync \/ SetHost \/ PollSync \/ PollOther \/ PollRead \/ PollUsb
  <2>1. phase' = "recover" \/ phase # "recover"
    BY <1>1, <1>6, FailPc, PollFailsPc, AfterPollPc
    DEF Open, ConfigureSync, SetHost, PollSync, PollOther, PollRead, PollUsb, AfterStatus, ControlInv, CallsOf, Phases
  <2> QED BY <1>4, <1>5, <1>6, <2>1
          DEF Open, ConfigureSync, SetHost, PollSync, PollOther, PollRead, PollUsb
<1>7. CASE NeopRead \/ Wait \/ FirstHeader \/ ReadBlock \/ NextHeader \/ RawRead \/ PrintSync \/ WaitUsbAnswer
  <2>1. phase' = "recover" \/ phase # "recover"
    BY <1>1, <1>7
    DEF NeopRead, Wait, FirstHeader, ReadBlock, NextHeader, RawRead, PrintSync, WaitUsbAnswer, ControlInv, CallsOf, Phases
  <2> QED BY <1>4, <1>5, <1>7, <2>1
          DEF NeopRead, Wait, FirstHeader, ReadBlock, NextHeader, RawRead, PrintSync, WaitUsbAnswer
<1>8. CASE Configure \/ NeopWrite \/ WaitUsbQuery
  <2>1. phase' = "recover" \/ phase # "recover"
    BY <1>1, <1>8, FailPc DEF Configure, NeopWrite, WaitUsbQuery, ControlInv, CallsOf, Phases
  <2>2. PICK m \in Message : m.kind # "data" /\ (Write(m) \/ UNCHANGED <<outq, pbuf>>)
    <3>1. CASE Configure
      <4>1. Cfg(Target) \in Message /\ Cfg(Target).kind # "data"
        BY CfgType DEF Cfg, Target, Settings
      <4> QED BY <3>1, <4>1 DEF Configure, WriteFails
    <3>2. CASE NeopWrite
      <4>1. Query("neop") \in Message /\ Query("neop").kind # "data"
        BY QueryType DEF Query
      <4> QED BY <3>2, <4>1 DEF NeopWrite, WriteFails
    <3>3. CASE WaitUsbQuery
      <4>1. Query("status") \in Message /\ Query("status").kind # "data"
        BY QueryType DEF Query
      <4> QED BY <3>3, <4>1 DEF WaitUsbQuery, WriteFails
    <3> QED BY <1>8, <3>1, <3>2, <3>3
  <2>3. UNCHANGED <<jobs, tainted, sent, printed>>
    BY <1>8 DEF Configure, NeopWrite, WaitUsbQuery
  <2>4. Stream' = Stream
    BY <1>1, <2>2, <2>3, StreamWrite
  <2> QED BY <1>4, <2>1, <2>3, <2>4
<1>9. CASE PollSerial
  <2>1. UNCHANGED <<jobs, tainted, sent, printed, pbuf>> /\ (phase' = "recover" \/ phase # "recover")
    BY <1>1, <1>9, FailPc, PollFailsPc DEF PollSerial, ControlInv, CallsOf, Phases
  <2>2. ASSUME phase' # "recover" PROVE Stream' = Stream
    <3>1. outq' = <<Query("status")>> /\ lost' = lost \cup DataIn(outq)
      BY <1>9, <2>2, PollFailsPc DEF PollSerial, Discard, Flush
    <3>2. DataIn(outq) = {}
      BY <1>2, <1>3, <2>1, <2>2, <3>1
    <3>3. DataSeq(outq) = <<>>
      BY <1>1, <3>2, NoneDropped
    <3>4. DataSeq(outq') = <<>>
      <4>1. Query("status") \in Message /\ Query("status").kind # "data"
        BY QueryType DEF Query
      <4>2. outq' \in Seq(Message) /\ DataIn(outq') = {}
        BY <3>1, <4>1 DEF DataIn
      <4> QED BY <4>2, NoneDropped
    <3> QED BY <2>1, <3>3, <3>4 DEF Stream
  <2> QED BY <1>3, <2>1, <2>2
<1>10. CASE WriteBlocks
  <2>1. UNCHANGED <<jobs, tainted, printed>> /\ phase # "recover"
    BY <1>1, <1>10 DEF WriteBlocks, ControlInv, CallsOf, Phases
  <2>2. CASE sent < got /\ sent' = sent + 1 /\ Write(Data(sent + 1))
    <3>1. sent + 1 \in 0 .. Records
      BY <1>1, <2>2
    <3>2. Stream' = Append(Stream, sent + 1)
      BY <1>1, <2>1, <2>2, <3>1, StreamData
    <3>3. Append([i \in 1 .. sent |-> i], sent + 1) = [i \in 1 .. sent + 1 |-> i]
      BY <1>1
    <3> QED BY <1>3, <2>1, <2>2, <3>2, <3>3
  <2>3. CASE UNCHANGED <<sent, outq, pbuf>>
    BY <1>3, <1>5, <2>1, <2>3
  <2> QED BY <1>10, <2>2, <2>3 DEF WriteBlocks
<1>11. CASE ResetSerial \/ ResetSync \/ ResetOther \/ ResetClose
  <2>1. UNCHANGED <<jobs, tainted>> /\ phase' = "recover"
    BY <1>1, <1>11 DEF ResetSerial, ResetSync, ResetOther, ResetClose, Quit, ControlInv, CallsOf, Phases
  <2> QED BY <1>3, <2>1
<1>12. CASE Close \/ Destroy
  <2>1. phase' = "recover" \/ phase # "recover"
    BY <1>12 DEF Close, Destroy, Quit
  <2> QED BY <1>4, <1>5, <1>12, <2>1 DEF Close, Destroy, Quit
<1>13. CASE NextJob
  <2>1. jobs' = jobs + 1 /\ jobs \in 1 .. MaxJobs
    BY <1>13 DEF NextJob, IInv, ProcessType
  <2> QED BY <2>1
<1>14. CASE DeadlinePasses \/ Sigterm \/ InterruptPipe \/ InterruptPort
  <2>1. phase' = "recover" \/ phase # "recover"
    BY <1>1, <1>14, FailPc, PollFailsPc, AfterPollPc
    DEF DeadlinePasses, Sigterm, InterruptPipe, InterruptPort, ControlInv, CallsOf, Phases
  <2> QED BY <1>4, <1>5, <1>14, <2>1 DEF DeadlinePasses, Sigterm, InterruptPipe, InterruptPort
<1>15. CASE Filter \/ PaperOut \/ PaperIn
  BY <1>4, <1>5, <1>15 DEF Filter, FilterWrites, FilterEnds, PaperOut, PaperIn
<1>16. CASE Transmit
  <2>1. UNCHANGED <<jobs, tainted, sent, printed, phase>> /\ outq # <<>> /\ outq' = Tail(outq)
        /\ Head(outq) \in Message
    BY <1>1, <1>16 DEF Transmit
  <2>2. ASSUME phase' # "recover" PROVE Stream' = Stream
    <3>1. lost' = {}
      BY <1>2, <1>3, <2>1, <2>2
    <3>2. CASE UNCHANGED pbuf /\ Head(outq).kind # "data"
      BY <1>1, <2>1, <3>2, StreamMove DEF Stream
    <3>3. CASE UNCHANGED pbuf /\ lost' = lost \cup DataIn(<<Head(outq)>>)
      <4>1. 1 \in DOMAIN <<Head(outq)>> /\ <<Head(outq)>>[1] = Head(outq)
        OBVIOUS
      <4>2. Head(outq).kind # "data"
        BY <3>1, <3>3, <4>1 DEF DataIn
      <4> QED BY <3>2, <3>3, <4>2
    <3>4. CASE PrinterReset /\ Head(outq).kind = "reset"
      <4>1. DataIn(pbuf) = {} /\ pbuf' = <<>>
        BY <3>1, <3>4 DEF PrinterReset
      <4>2. DataSeq(pbuf) = <<>> /\ DataSeq(pbuf') = <<>>
        BY <1>1, <4>1, NoneDropped, DataSeqEmpty
      <4>3. DataSeq(outq') = DataSeq(outq)
        BY <1>1, <2>1, <3>4, StreamMove
      <4> QED BY <2>1, <4>2, <4>3 DEF Stream
    <3>5. CASE pbuf' = Append(pbuf, Head(outq))
      BY <1>1, <2>1, <3>5, StreamMove DEF Stream
    <3> QED BY <1>16, <3>2, <3>3, <3>4, <3>5 DEF Transmit
  <2> QED BY <1>3, <2>1, <2>2
<1>17. CASE PrintBlock
  <2>1. UNCHANGED <<jobs, tainted, sent, phase, outq>>
    BY <1>17 DEF PrintBlock
  <2>2. printed' \o DataSeq(pbuf') = printed \o DataSeq(pbuf)
    BY <1>1, <1>17, StreamMove DEF PrintBlock
  <2> QED BY <1>3, <2>1, <2>2 DEF Stream
<1>18. CASE AnswerNeop \/ AnswerInOrder \/ AnswerRealTime
  <2>1. UNCHANGED <<jobs, tainted, sent, phase, outq, printed>>
        /\ (pbuf' = pbuf \/ (pbuf # <<>> /\ Head(pbuf).kind # "data" /\ pbuf' = Tail(pbuf)))
    BY <1>18 DEF AnswerNeop, AnswerInOrder, AnswerRealTime
  <2>2. DataSeq(pbuf') = DataSeq(pbuf)
    BY <1>1, <2>1, StreamMove
  <2> QED BY <1>3, <2>1, <2>2 DEF Stream
<1>19. CASE UNCHANGED vars
  BY <1>4, <1>5, <1>19 DEF vars
<1> QED
  BY <1>6, <1>7, <1>8, <1>9, <1>10, <1>11, <1>12, <1>13, <1>14, <1>15, <1>16, <1>17, <1>18, <1>19
  DEF Next, Backend, Printer, Terminated

(* Once state_print of a first job is over the printer has, or is about to *)
(* get, exactly the blocks that were read from the filter, in order and    *)
(* once each.                                                              *)
THEOREM BlocksDelivered == Spec => []Delivered
<1>1. Init => StreamInv
  <2>1. [i \in 1 .. 0 |-> i] = <<>> /\ (<<>> \o <<>>) \o <<>> = <<>>
    OBVIOUS
  <2> QED BY <2>1, DataSeqEmpty DEF Init, StreamInv, Stream
<1>2. IInv /\ StreamInv => Delivered
  <2> SUFFICES ASSUME IInv, StreamInv, jobs = 1, phase \in AfterPrint
               PROVE  Stream = [i \in 1 .. got |-> i]
    BY DEF Delivered, Stream
  <2>1. sent = got /\ phase # "recover"
    BY DEF IInv, WholeInv, AfterPrint
  <2> QED BY <2>1 DEF StreamInv
<1> QED BY <1>1, <1>2, StreamStep, Inductive, PTL DEF Spec

-----------------------------------------------------------------------------
(* Status answers.  Without the NEOP sensor, the answers that wait for the *)
(* host are whole status answers, one after the other.                     *)

Whole(q) ==
  \E n \in Nat :
    /\ Len(q) = n * StatusLen
    /\ \A k \in 0 .. n - 1, j \in 1 .. StatusLen :
         q[k * StatusLen + j].kind = "status" /\ q[k * StatusLen + j].pos = j

NoNeop(q) == \A i \in 1 .. Len(q) : q[i].kind # "neop"

AnswerInv ==
  /\ Whole(inq) /\ NoNeop(outq) /\ NoNeop(pbuf)
  /\ pc \notin {"neopWrite", "neopRead"}

(* The rows of a table of n rows, each of s places, lie inside the table.  *)
LEMMA RowInside ==
  ASSUME NEW s \in Nat, NEW n \in Nat, NEW k \in Nat, k < n
  PROVE  k * s \in Nat /\ k * s + s <= n * s /\ (k + 1) * s = k * s + s
<1>1. PICK d \in Nat : n = k + 1 + d
  <2>1. n - k - 1 \in Nat /\ n = k + 1 + (n - k - 1)
    OBVIOUS
  <2> QED BY <2>1
<1>2. n * s = k * s + s + d * s
  BY <1>1
<1>3. k * s \in Nat /\ d * s \in Nat
  OBVIOUS
<1> QED BY <1>2, <1>3

LEMMA WholeEmpty == Whole(<<>>)
<1>1. Len(<<>>) = 0 * StatusLen /\ 0 .. 0 - 1 = {}
  OBVIOUS
<1> QED BY <1>1 DEF Whole

LEMMA WholeDrop ==
  ASSUME NEW q \in Seq(Byte), Whole(q), Len(q) >= StatusLen
  PROVE  /\ Whole(SubSeq(q, StatusLen + 1, Len(q)))
         /\ \A j \in 1 .. StatusLen : q[j].kind = "status" /\ q[j].pos = j
<1> DEFINE t == SubSeq(q, StatusLen + 1, Len(q))
<1>1. PICK n \in Nat :
        /\ Len(q) = n * StatusLen
        /\ \A k \in 0 .. n - 1, j \in 1 .. StatusLen :
             q[k * StatusLen + j].kind = "status" /\ q[k * StatusLen + j].pos = j
  BY DEF Whole
<1>2. n # 0
  BY <1>1
<1>3. Len(t) = Len(q) - StatusLen /\ \A i \in 1 .. Len(t) : t[i] = q[StatusLen + i]
  OBVIOUS
<1>4. n - 1 \in Nat /\ Len(t) = (n - 1) * StatusLen
  BY <1>1, <1>2, <1>3
<1>5. ASSUME NEW k \in 0 .. (n - 1) - 1, NEW j \in 1 .. StatusLen
      PROVE  t[k * StatusLen + j].kind = "status" /\ t[k * StatusLen + j].pos = j
  <2>1. k + 1 \in 0 .. n - 1
    BY <1>2
  <2>2. k * StatusLen \in Nat /\ k * StatusLen + StatusLen <= (n - 1) * StatusLen
        /\ (k + 1) * StatusLen = k * StatusLen + StatusLen
    BY <1>4, RowInside
  <2>3. k * StatusLen + j \in 1 .. Len(t)
    BY <1>4, <2>2
  <2>4. t[k * StatusLen + j] = q[(k + 1) * StatusLen + j]
    BY <1>3, <2>2, <2>3
  <2>5. /\ q[(k + 1) * StatusLen + j].kind = "status"
        /\ q[(k + 1) * StatusLen + j].pos = j
    BY <1>1, <2>1
  <2> HIDE DEF t
  <2> QED BY <2>4, <2>5
<1>6. \A j \in 1 .. StatusLen : q[j].kind = "status" /\ q[j].pos = j
  <2> SUFFICES ASSUME NEW j \in 1 .. StatusLen
               PROVE  q[j].kind = "status" /\ q[j].pos = j
    OBVIOUS
  <2>1. 0 \in 0 .. n - 1 /\ 0 * StatusLen + j = j
    BY <1>2
  <2>2. q[0 * StatusLen + j].kind = "status" /\ q[0 * StatusLen + j].pos = j
    BY <1>1, <2>1
  <2> QED BY <2>1, <2>2
<1> QED BY <1>4, <1>5, <1>6 DEF Whole

LEMMA WholeAnswered ==
  ASSUME NEW q \in Seq(Byte), Whole(q), NEW r \in Reported
  PROVE  Whole(q \o StatusBytes(r))
<1> DEFINE t == q \o StatusBytes(r)
<1>1. PICK n \in Nat :
        /\ Len(q) = n * StatusLen
        /\ \A k \in 0 .. n - 1, j \in 1 .. StatusLen :
             q[k * StatusLen + j].kind = "status" /\ q[k * StatusLen + j].pos = j
  BY DEF Whole
<1>2. /\ StatusBytes(r) \in Seq(Byte) /\ Len(StatusBytes(r)) = StatusLen
      /\ \A j \in 1 .. StatusLen : StatusBytes(r)[j].kind = "status" /\ StatusBytes(r)[j].pos = j
  BY StatusType DEF StatusBytes
<1>3. /\ Len(t) = Len(q) + StatusLen
      /\ \A i \in 1 .. Len(q) : t[i] = q[i]
      /\ \A j \in 1 .. StatusLen : t[Len(q) + j] = StatusBytes(r)[j]
  BY <1>2
<1>4. n + 1 \in Nat /\ Len(t) = (n + 1) * StatusLen
  BY <1>1, <1>3
<1>5. ASSUME NEW k \in 0 .. (n + 1) - 1, NEW j \in 1 .. StatusLen
      PROVE  t[k * StatusLen + j].kind = "status" /\ t[k * StatusLen + j].pos = j
  <2>1. CASE k = n
    <3>1. t[k * StatusLen + j] = StatusBytes(r)[j]
      BY <1>1, <1>3, <2>1
    <3> HIDE DEF t
    <3> QED BY <1>2, <3>1
  <2>2. CASE k # n
    <3>1. k \in 0 .. n - 1
      BY <2>2
    <3>2. k * StatusLen \in Nat /\ k * StatusLen + StatusLen <= n * StatusLen
      BY <3>1, RowInside
    <3>3. k * StatusLen + j \in 1 .. Len(q)
      BY <1>1, <3>2
    <3>4. t[k * StatusLen + j] = q[k * StatusLen + j]
      BY <1>3, <3>3
    <3>5. /\ q[k * StatusLen + j].kind = "status"
          /\ q[k * StatusLen + j].pos = j
      BY <1>1, <3>1
    <3> HIDE DEF t
    <3> QED BY <3>4, <3>5
  <2> QED BY <2>1, <2>2
<1> QED BY <1>4, <1>5 DEF Whole

LEMMA NoNeopOne ==
  /\ NoNeop(<<>>)
  /\ NoNeop(<<Query("status")>>) /\ NoNeop(<<Query("reset")>>)
  BY DEF NoNeop, Query

LEMMA NoNeopAppend ==
  ASSUME NEW q \in Seq(Message), NEW m \in Message, NoNeop(q), m.kind # "neop"
  PROVE  NoNeop(Append(q, m))
  BY DEF NoNeop

LEMMA NoNeopTail ==
  ASSUME NEW q \in Seq(Message), q # <<>>, NoNeop(q)
  PROVE  NoNeop(Tail(q)) /\ Head(q).kind # "neop"
  BY DEF NoNeop

LEMMA NoNeopWrite ==
  ASSUME LineType, NEW m \in Message, m.kind # "neop", NoNeop(outq), NoNeop(pbuf),
         Write(m) \/ UNCHANGED <<outq, pbuf>>
  PROVE  NoNeop(outq') /\ NoNeop(pbuf')
<1>1. outq \in Seq(Message) /\ pbuf \in Seq(Message)
  BY DEF LineType
<1>2. (outq' = outq \/ outq' = Append(outq, m)) /\ (pbuf' = pbuf \/ pbuf' = Append(pbuf, m))
  BY DEF Write, Takes
<1> QED BY <1>1, <1>2, NoNeopAppend

(* Without the sensor there is no query of it and no answer to one; only   *)
(* the flush of a serial port cuts an answer.                              *)
InStep == ~CheckNeop /\ PortType # "serial"

LEMMA AnswerStep == InStep /\ IInv /\ AnswerInv /\ [Next]_vars => AnswerInv'
<1> SUFFICES ASSUME ~CheckNeop, PortType # "serial", IInv, AnswerInv, [Next]_vars
             PROVE  AnswerInv'
  BY DEF InStep
<1> USE DEF Goto, Quiet, Writes, Reads, life, line, printer, outside, ctl, status, host
<1>1. ControlInv /\ LineType /\ outq \in Seq(Message) /\ pbuf \in Seq(Message) /\ inq \in Seq(Byte)
  BY DEF IInv, LineType
<1>2. /\ Whole(inq) /\ NoNeop(outq) /\ NoNeop(pbuf)
      /\ pc \notin {"neopWrite", "neopRead"}
  BY DEF AnswerInv
<1>3. pc \in {"poll", "pollRead"} /\ AfterStatus => pc' \notin {"neopWrite", "neopRead"}
  BY <1>1, AfterPollPc DEF AfterStatus, ControlInv, CallsOf, Phases
<1> SUFFICES /\ Whole(inq') /\ NoNeop(outq') /\ NoNeop(pbuf')
             /\ pc' \notin {"neopWrite", "neopRead"}
  BY DEF AnswerInv
<1>4. CASE Open \/ Close \/ Destroy \/ NextJob
  BY <1>2, <1>4, WholeEmpty DEF Open, Close, Destroy, NextJob, Quit
<1>5. CASE Configure
  <2>1. Cfg(Target) \in Message /\ Cfg(Target).kind # "neop"
    BY CfgType DEF Cfg, Target, Settings
  <2>2. Write(Cfg(Target)) \/ UNCHANGED <<outq, pbuf>>
    BY <1>5 DEF Configure, WriteFails
  <2>3. UNCHANGED inq /\ pc' \notin {"neopWrite", "neopRead"}
    BY <1>1, <1>5, SucceedPc, FailPc DEF Configure, ControlInv, CallsOf
  <2> QED BY <1>1, <1>2, <2>1, <2>2, <2>3, NoNeopWrite
<1>6. CASE ConfigureSync \/ SetHost \/ PollSync \/ PollOther
  BY <1>1, <1>2, <1>6, SucceedPc, FailPc, PollFailsPc
  DEF ConfigureSync, SetHost, PollSync, PollOther, ControlInv, CallsOf
<1>7. CASE PollSerial
  BY <1>7 DEF PollSerial
<1>8. CASE PollRead
  <2>1. inq' \in {inq, <<>>} \/ (Len(inq) >= StatusLen /\ inq' = SubSeq(inq, StatusLen + 1, Len(inq)))
    BY <1>8 DEF PollRead
  <2>2. pc' \notin {"neopWrite", "neopRead"}
    BY <1>3, <1>8, PollFailsPc DEF PollRead
  <2> QED BY <1>1, <1>2, <1>8, <2>1, <2>2, WholeEmpty, WholeDrop DEF PollRead
<1>9. CASE PollUsb
  BY <1>2, <1>3, <1>9, PollFailsPc DEF PollUsb
<1>10. CASE NeopWrite \/ NeopRead
  BY <1>2, <1>10 DEF NeopWrite, NeopRead
<1>11. CASE Wait \/ PrintSync
  BY <1>1, <1>2, <1>11, SucceedPc, FailPc DEF Wait, PrintSync, WriteFailure, ControlInv, CallsOf
<1>12. CASE FirstHeader \/ ReadBlock \/ NextHeader \/ RawRead
  BY <1>2, <1>12, FailPc DEF FirstHeader, ReadBlock, NextHeader, RawRead
<1>13. CASE WriteBlocks
  <2>1. sent < got => Data(sent + 1) \in Message /\ Data(sent + 1).kind # "neop"
    BY DEF IInv, BlockInv, ProcessType, Data, Message, Settings
  <2>2. (sent < got /\ Write(Data(sent + 1))) \/ UNCHANGED <<outq, pbuf>>
    BY <1>13 DEF WriteBlocks
  <2>3. UNCHANGED inq /\ pc' \notin {"neopWrite", "neopRead"}
    BY <1>13, FailPc DEF WriteBlocks, WriteFailure
  <2> QED BY <1>1, <1>2, <2>1, <2>2, <2>3, NoNeopWrite
<1>14. CASE WaitUsbQuery
  <2>1. Query("status") \in Message /\ Query("status").kind # "neop"
    BY QueryType DEF Query
  <2>2. Write(Query("status")) \/ UNCHANGED <<outq, pbuf>>
    BY <1>14 DEF WaitUsbQuery, WriteFails
  <2>3. UNCHANGED inq /\ pc' \notin {"neopWrite", "neopRead"}
    BY <1>1, <1>14, SucceedPc, FailPc DEF WaitUsbQuery, ControlInv, CallsOf
  <2> QED BY <1>1, <1>2, <2>1, <2>2, <2>3, NoNeopWrite
<1>15. CASE WaitUsbAnswer
  <2>1. pc' \notin {"neopWrite", "neopRead"}
    BY <1>1, <1>15, SucceedPc, FailPc DEF WaitUsbAnswer, ControlInv, CallsOf
  <2> QED BY <1>1, <1>2, <1>15, <2>1, WholeEmpty, WholeDrop DEF WaitUsbAnswer
<1>16. CASE ResetSerial \/ ResetSync \/ ResetOther \/ ResetClose
  BY <1>2, <1>16, WholeEmpty, NoNeopOne
  DEF ResetSerial, ResetSync, ResetOther, ResetClose, PrinterReset, Quit, Flush
<1>17. CASE DeadlinePasses \/ Sigterm \/ Filter \/ PaperOut \/ PaperIn
  BY <1>2, <1>17 DEF DeadlinePasses, Sigterm, Filter, FilterWrites, FilterEnds, PaperOut, PaperIn
<1>18. CASE InterruptPipe \/ InterruptPort
  BY <1>2, <1>18, FailPc, PollFailsPc DEF InterruptPipe, InterruptPort
<1>19. CASE Transmit
  <2>1. outq' = Tail(outq) /\ outq # <<>> /\ UNCHANGED <<inq, pc>>
    BY <1>19 DEF Transmit
  <2>2. pbuf' \in {pbuf, <<>>, Append(pbuf, Head(outq))}
    BY <1>19 DEF Transmit, PrinterReset
  <2>3. Head(outq) \in Message /\ Head(outq).kind # "neop" /\ NoNeop(Tail(outq))
    BY <1>1, <1>2, <2>1, NoNeopTail
  <2> QED BY <1>1, <1>2, <2>1, <2>2, <2>3, NoNeopOne, NoNeopAppend
<1>20. CASE PrintBlock \/ AnswerNeop
  BY <1>1, <1>2, <1>20, NoNeopTail DEF PrintBlock, AnswerNeop
<1>21. CASE AnswerInOrder \/ AnswerRealTime
  <2>1. pbuf' = pbuf \/ (pbuf # <<>> /\ pbuf' = Tail(pbuf))
    BY <1>21 DEF AnswerInOrder, AnswerRealTime
  <2>2. Whole(inq')
    BY <1>1, <1>2, <1>21, WholeAnswered DEF AnswerInOrder, AnswerRealTime, Answer
  <2> QED BY <1>1, <1>2, <1>21, <2>1, <2>2, NoNeopTail DEF AnswerInOrder, AnswerRealTime
<1>22. CASE UNCHANGED vars
  BY <1>2, <1>22 DEF vars
<1> QED
  BY <1>4, <1>5, <1>6, <1>7, <1>8, <1>9, <1>10, <1>11, <1>12, <1>13, <1>14, <1>15, <1>16, <1>17,
     <1>18, <1>19, <1>20, <1>21, <1>22 DEF Next, Backend, Printer, Terminated

(* The printer is taken for ready only because it said so.                 *)
ReadyInv == (phase = "print" => ready) /\ (ready => genuine)

LEMMA DecodedGenuine ==
  ASSUME NEW q \in Seq(Byte), Len(q) >= StatusLen, StatusLen = 1 \/ Whole(q),
         TRUE \in Decoded(SubSeq(q, 1, StatusLen))
  PROVE  Genuine(SubSeq(q, 1, StatusLen))
<1> DEFINE bs == SubSeq(q, 1, StatusLen)
<1>1. Len(bs) = StatusLen /\ \A i \in 1 .. StatusLen : bs[i] = q[i] /\ q[i] \in Byte
  OBVIOUS
<1>2. DOMAIN bs = 1 .. StatusLen
  OBVIOUS
<1>3. CASE Whole(q)
  BY <1>1, <1>2, <1>3, WholeDrop DEF Genuine
<1>4. CASE StatusLen = 1
  <2>1. bs[1].kind \in {"status", "neop"} /\ bs[1].pos = 1
    BY <1>1, <1>4 DEF Byte
  <2>2. bs[1].kind # "neop" \/ Genuine(bs)
    BY DEF Decoded
  <2>3. DOMAIN bs = {1}
    BY <1>2, <1>4
  <2> QED BY <2>1, <2>2, <2>3 DEF Genuine
<1> QED BY <1>3, <1>4

(* state_print is entered from state_wait only, with the flag of its poll; *)
(* nothing but a poll and the start of a job changes the flag.             *)
LEMMA FlagKept ==
  ASSUME ControlInv, [Next]_vars, ~PollSerial, ~PollOther, ~PollRead, ~PollUsb, ~NextJob
  PROVE  /\ UNCHANGED status
         /\ phase' = "print" => phase = "print" \/ (phase = "wait" /\ ready)
<1> USE DEF Goto, Quiet, Writes, Reads, life, line, printer, outside, ctl, status, host,
            ControlInv, CallsOf, Phases
<1>1. CASE Open \/ Close \/ Destroy
  BY <1>1 DEF Open, Close, Destroy, Quit
<1>2. CASE Configure \/ ConfigureSync \/ SetHost
  BY <1>2, SucceedPc, FailPc DEF Configure, ConfigureSync, SetHost
<1>3. CASE PollSync \/ NeopWrite \/ NeopRead
  BY <1>3, PollFailsPc DEF PollSync, NeopWrite, NeopRead
<1>4. CASE Wait
  BY <1>4, SucceedPc, FailPc DEF Wait
<1>5. CASE FirstHeader \/ ReadBlock \/ NextHeader \/ RawRead
  BY <1>5, FailPc DEF FirstHeader, ReadBlock, NextHeader, RawRead
<1>6. CASE WriteBlocks \/ PrintSync
  BY <1>6, SucceedPc, FailPc DEF WriteBlocks, PrintSync, WriteFailure
<1>7. CASE WaitUsbQuery \/ WaitUsbAnswer
  BY <1>7, SucceedPc, FailPc DEF WaitUsbQuery, WaitUsbAnswer
<1>8. CASE ResetSerial \/ ResetSync \/ ResetOther \/ ResetClose
  BY <1>8 DEF ResetSerial, ResetSync, ResetOther, ResetClose, Quit
<1>9. CASE DeadlinePasses \/ Sigterm \/ Filter \/ PaperOut \/ PaperIn
  BY <1>9 DEF DeadlinePasses, Sigterm, Filter, FilterWrites, FilterEnds, PaperOut, PaperIn
<1>10. CASE InterruptPipe \/ InterruptPort
  BY <1>10, FailPc, PollFailsPc DEF InterruptPipe, InterruptPort
<1>11. CASE Printer
  BY <1>11 DEF Printer, Transmit, PrintBlock, AnswerNeop, AnswerInOrder, AnswerRealTime
<1>12. CASE UNCHANGED vars
  BY <1>12 DEF vars
<1> QED
  BY <1>1, <1>2, <1>3, <1>4, <1>5, <1>6, <1>7, <1>8, <1>9, <1>10, <1>11, <1>12
  DEF Next, Backend, Terminated

LEMMA ReadyStep ==
  (StatusLen = 1 \/ Whole(inq)) /\ IInv /\ ReadyInv /\ [Next]_vars => ReadyInv'
<1> SUFFICES ASSUME StatusLen = 1 \/ Whole(inq), IInv, ReadyInv, [Next]_vars PROVE ReadyInv'
  OBVIOUS
<1> USE DEF ReadyInv
<1>1. ControlInv /\ inq \in Seq(Byte)
  BY DEF IInv, LineType
<1>2. CASE PollSerial \/ PollOther \/ PollRead \/ PollUsb
  <2>1. phase' # "print"
    BY <1>1, <1>2, PollFailsPc
    DEF PollSerial, PollOther, PollRead, PollUsb, AfterStatus, Goto, ControlInv, CallsOf, Phases
  <2>2. CASE PollSerial \/ PollOther
    BY <2>1, <2>2 DEF PollSerial, PollOther
  <2>3. CASE PollUsb
    BY <2>1, <2>3 DEF PollUsb
  <2>4. CASE PollRead
    <3>1. \/ UNCHANGED <<ready, genuine>>
          \/ /\ Len(inq) >= StatusLen
             /\ ready' \in Decoded(SubSeq(inq, 1, StatusLen))
             /\ genuine' = Genuine(SubSeq(inq, 1, StatusLen))
      BY <2>4 DEF PollRead, status
    <3>2. ASSUME Len(inq) >= StatusLen, ready', ready' \in Decoded(SubSeq(inq, 1, StatusLen))
          PROVE  Genuine(SubSeq(inq, 1, StatusLen))
      <4>1. Decoded(SubSeq(inq, 1, StatusLen)) \subseteq BOOLEAN
        <5>1. SubSeq(inq, 1, StatusLen)[1] = inq[1] /\ inq[1] \in Byte
          BY <1>1, <3>2
        <5>2. SubSeq(inq, 1, StatusLen)[1].ready \in BOOLEAN
          BY <5>1 DEF Byte
        <5> QED BY <5>2 DEF Decoded
      <4>2. ready' = TRUE
        BY <3>2, <4>1
      <4> QED BY <1>1, <3>2, <4>2, DecodedGenuine
    <3> QED BY <2>1, <3>1, <3>2
  <2> QED BY <1>2, <2>2, <2>3, <2>4
<1>3. CASE NextJob
  BY <1>3 DEF NextJob
<1>4. CASE ~(PollSerial \/ PollOther \/ PollRead \/ PollUsb) /\ ~NextJob
  BY <1>1, <1>4, FlagKept DEF status
<1> QED BY <1>2, <1>3, <1>4

(* state_print runs only after a status answer of the printer that said    *)
(* ready.  It needs that the answers stay in step with the reads: they     *)
(* have one byte, or nothing cuts or shifts them, neither a late answer of *)
(* the NEOP sensor nor the flush of a serial port.                         *)
THEOREM PrintsWhenTold == StatusLen = 1 \/ InStep => (Spec => []PrintsOnlyWhenReady)
<1> SUFFICES ASSUME StatusLen = 1 \/ InStep PROVE Spec => []PrintsOnlyWhenReady
  OBVIOUS
<1> DEFINE J == ReadyInv /\ (InStep => AnswerInv)
<1>1. Init => J
  <2>1. Init => ReadyInv
    BY DEF Init, ReadyInv
  <2>2. Init => AnswerInv
    BY WholeEmpty, NoNeopOne DEF Init, AnswerInv
  <2> QED BY <2>1, <2>2
<1>2. IInv /\ J /\ [Next]_vars => J'
  <2> SUFFICES ASSUME IInv, J, [Next]_vars PROVE J'
    OBVIOUS
  <2>1. ReadyInv'
    BY ReadyStep DEF AnswerInv
  <2>2. InStep => AnswerInv'
    BY AnswerStep
  <2> QED BY <2>1, <2>2
<1>3. J => PrintsOnlyWhenReady
  BY DEF ReadyInv, PrintsOnlyWhenReady
<1> QED BY <1>1, <1>2, <1>3, Inductive, PTL DEF Spec

-----------------------------------------------------------------------------
(* The wait for the data of a USB printer.  One job, no NEOP sensor: the   *)
(* answer that state_wait_usb reads is the one to its own query, which     *)
(* comes after all blocks in the data pipe.                                *)

OnlyData(q) == \A i \in 1 .. Len(q) : q[i].kind = "data"

(* The query is the last message in the printer, and blocks come before.   *)
QueryLast(q) ==
  /\ q # <<>> /\ q[Len(q)].kind = "status"
  /\ \A i \in 1 .. Len(q) - 1 : q[i].kind = "data"

UsbInv ==
  /\ jobs = 1 /\ rt = 0
  /\ phase # "recover" =>
       /\ pc # "usbRead" /\ phase \notin {"finish", "done"} => inq = <<>> /\ OnlyData(pbuf)
       /\ pc = "usbRead" => pbuf = <<>> \/ (inq = <<>> /\ QueryLast(pbuf))
       /\ phase \in {"finish", "done"} => pbuf = <<>>

LEMMA OnlyDataAppend ==
  ASSUME NEW q \in Seq(Message), NEW m \in Message, OnlyData(q)
  PROVE  /\ m.kind = "data" => OnlyData(Append(q, m))
         /\ m.kind = "status" => QueryLast(Append(q, m))
<1> DEFINE t == Append(q, m)
<1>1. /\ t \in Seq(Message) /\ Len(t) = Len(q) + 1 /\ Len(q) \in Nat /\ t[Len(t)] = m
      /\ \A i \in 1 .. Len(q) : t[i] = q[i]
  OBVIOUS
<1>2. t # <<>>
  BY <1>1
<1> HIDE DEF t
<1>3. m.kind = "data" => OnlyData(t)
  BY <1>1 DEF OnlyData
<1>4. m.kind = "status" => QueryLast(t)
  BY <1>1, <1>2 DEF OnlyData, QueryLast
<1> QED BY <1>3, <1>4 DEF t

LEMMA OnlyDataTail ==
  ASSUME NEW q \in Seq(Message), q # <<>>
  PROVE  /\ OnlyData(q) => OnlyData(Tail(q)) /\ Head(q).kind = "data"
         /\ QueryLast(q) /\ Head(q).kind = "data" => QueryLast(Tail(q))
         /\ QueryLast(q) /\ Head(q).kind # "data" => Tail(q) = <<>> /\ Head(q).kind = "status"
<1>1. OnlyData(q) => OnlyData(Tail(q)) /\ Head(q).kind = "data"
  BY DEF OnlyData
<1>2. CASE Len(q) = 1
  <2>1. Head(q) = q[Len(q)] /\ Tail(q) = <<>>
    <3>1. Head(q) = q[1] /\ Tail(q) \in Seq(Message) /\ Len(Tail(q)) = 0
      BY <1>2
    <3> QED BY <1>2, <3>1, EmptySeq
  <2>2. QueryLast(q) => Head(q).kind = "status"
    BY <2>1 DEF QueryLast
  <2> QED BY <1>1, <2>1, <2>2
<1>3. CASE Len(q) > 1
  <2>1. /\ Tail(q) # <<>> /\ Len(Tail(q)) = Len(q) - 1 /\ Head(q) = q[1]
        /\ \A i \in 1 .. Len(q) - 1 : Tail(q)[i] = q[i + 1]
    BY <1>3
  <2> QED BY <1>1, <1>3, <2>1 DEF QueryLast
<1> QED BY <1>2, <1>3, LenNonEmpty

(* The data pipe carries blocks, then the query, then nothing.             *)
LEMMA UsbStep ==
  PortType = "usb" /\ ~CheckNeop /\ MaxJobs = 1 /\ IInv /\ AnswerInv /\ UsbInv /\ [Next]_vars => UsbInv'
<1> SUFFICES ASSUME PortType = "usb", ~CheckNeop, MaxJobs = 1, IInv, AnswerInv, UsbInv, [Next]_vars
             PROVE  UsbInv'
  OBVIOUS
<1> USE DEF Goto, Quiet, Writes, Reads, life, line, printer, outside, ctl, host
<1>1. ControlInv /\ pbuf \in Seq(Message) /\ inq \in Seq(Byte) /\ outq = <<>>
  BY DEF IInv, LineType, LossInv
<1>2. pc \notin {"neopWrite", "neopRead"} /\ NoNeop(pbuf)
  BY DEF AnswerInv
<1>3. pc = "usbRead" => phase = "waitUsb"
  BY <1>1 DEF ControlInv, CallsOf, Phases
<1>4. CASE Open \/ Close \/ Destroy \/ NextJob
  BY <1>1, <1>4 DEF UsbInv, Open, Close, Destroy, NextJob, Quit, ControlInv, CallsOf, Phases
<1>5. CASE Configure
  <2>1. UNCHANGED <<inq, pbuf, rt, jobs>> /\ Succeed /\ phase \in {"setup", "finish"} /\ pc # "usbRead"
    BY <1>1, <1>5 DEF Configure, ControlInv, CallsOf, Phases
  <2>2. pc' # "usbRead" /\ phase' # "recover" /\ (phase' \in {"finish", "done"} => phase = "finish")
    BY <1>1, <2>1, SucceedPc
  <2>3. phase' \notin {"finish", "done"} => phase = "setup"
    BY <1>1, <2>1, SucceedPc
  <2> QED BY <2>1, <2>2, <2>3 DEF UsbInv
<1>6. CASE ConfigureSync \/ SetHost
  <2>1. UNCHANGED <<inq, pbuf, rt, jobs>> /\ phase \in {"setup", "finish"} /\ pc # "usbRead"
    BY <1>1, <1>6 DEF ConfigureSync, SetHost, ControlInv, CallsOf, Phases
  <2>2. phase' = "recover" \/ (Succeed /\ phase' # "recover") \/ (pc' # "usbRead" /\ phase' = phase)
    BY <1>1, <1>6, FailPc, SucceedPc DEF ConfigureSync, SetHost, ControlInv, CallsOf
  <2>3. CASE Succeed
    BY <1>1, <2>1, <2>3, SucceedPc DEF UsbInv
  <2> QED BY <2>1, <2>2, <2>3 DEF UsbInv
<1>7. CASE PollSerial \/ PollSync \/ PollOther \/ PollRead \/ PollUsb
  <2>1. UNCHANGED <<pbuf, jobs, rt>> /\ (phase' = phase \/ phase' = "recover") /\ phase \in {"wait", "wait2", "finish", "recover"}
    BY <1>1, <1>7, PollFailsPc
    DEF PollSerial, PollSync, PollOther, PollRead, PollUsb, AfterStatus, ControlInv, CallsOf, Phases
  <2>2. pc' # "usbRead"
    BY <1>1, <1>7, PollFailsPc, AfterPollPc
    DEF PollSerial, PollSync, PollOther, PollRead, PollUsb, AfterStatus, ControlInv, CallsOf, Phases
  <2>3. phase \in {"wait", "wait2"} /\ phase' = phase /\ inq = <<>> => inq' = <<>>
    BY <1>7 DEF PollSerial, PollSync, PollOther, PollRead, PollUsb
  <2> QED BY <1>3, <2>1, <2>2, <2>3 DEF UsbInv
<1>8. CASE NeopWrite \/ NeopRead
  BY <1>2, <1>8 DEF NeopWrite, NeopRead
<1>9. CASE Wait \/ PrintSync
  <2>1. UNCHANGED <<inq, pbuf, rt, jobs>> /\ phase \in {"wait", "wait2", "print"} /\ pc # "usbRead"
    BY <1>1, <1>9 DEF Wait, PrintSync, ControlInv, CallsOf, Phases
  <2>2. phase' = "recover" \/ Succeed \/ (pc' # "usbRead" /\ phase' = phase)
    BY <1>9, FailPc DEF Wait, PrintSync, WriteFailure
  <2>3. CASE Succeed
    BY <1>1, <2>1, <2>3, SucceedPc DEF UsbInv
  <2> QED BY <2>1, <2>2, <2>3 DEF UsbInv
<1>10. CASE FirstHeader \/ ReadBlock \/ NextHeader \/ RawRead
  <2>1. UNCHANGED <<inq, pbuf, rt, jobs>> /\ phase = "print" /\ pc # "usbRead"
    BY <1>1, <1>10 DEF FirstHeader, ReadBlock, NextHeader, RawRead, ControlInv, CallsOf, Phases
  <2>2. phase' = "recover" \/ (pc' # "usbRead" /\ phase' = phase)
    BY <1>10, FailPc DEF FirstHeader, ReadBlock, NextHeader, RawRead
  <2> QED BY <2>1, <2>2 DEF UsbInv
<1>11. CASE WriteBlocks
  <2>1. UNCHANGED <<inq, rt, jobs>> /\ phase = "print" /\ pc # "usbRead"
    BY <1>1, <1>11 DEF WriteBlocks, ControlInv, CallsOf, Phases
  <2>2. phase' = "recover" \/ (pc' # "usbRead" /\ phase' = phase)
    BY <1>11, FailPc DEF WriteBlocks, WriteFailure
  <2>3. pbuf' = pbuf \/ (sent < got /\ pbuf' = Append(pbuf, Data(sent + 1)))
    BY <1>11 DEF WriteBlocks, Write, Takes
  <2>4. sent < got => Data(sent + 1) \in Message /\ Data(sent + 1).kind = "data"
    BY DEF IInv, BlockInv, ProcessType, Data, Message, Settings
  <2> QED BY <1>1, <2>1, <2>2, <2>3, <2>4, OnlyDataAppend DEF UsbInv
<1>12. CASE WaitUsbQuery
  <2>1. UNCHANGED <<inq, rt, jobs>> /\ phase = "waitUsb" /\ pc # "usbRead"
    BY <1>1, <1>12 DEF WaitUsbQuery, ControlInv, CallsOf, Phases
  <2>2. phase' = "recover" \/ (phase' = phase /\ pc' = "usbRead" /\ pbuf' = Append(pbuf, Query("status")))
    BY <1>12, FailPc DEF WaitUsbQuery, Write, Takes
  <2>3. Query("status") \in Message /\ Query("status").kind = "status"
    BY QueryType DEF Query
  <2>4. QueryLast(Append(pbuf, Query("status"))) \/ phase' = "recover"
    BY <1>1, <2>1, <2>3, OnlyDataAppend DEF UsbInv
  <2> QED BY <2>1, <2>2, <2>4 DEF UsbInv
<1>13. CASE WaitUsbAnswer
  <2>1. UNCHANGED <<pbuf, rt, jobs>> /\ phase = "waitUsb" /\ pc = "usbRead"
    BY <1>1, <1>13 DEF WaitUsbAnswer, ControlInv, CallsOf, Phases
  <2>2. phase' = "recover" \/ (Len(inq) >= StatusLen /\ Succeed)
    BY <1>13, FailPc DEF WaitUsbAnswer
  <2>3. Len(inq) >= StatusLen => pbuf = <<>>
    BY <2>1 DEF UsbInv
  <2>4. Succeed => phase' = "finish" /\ pc' # "usbRead"
    BY <1>1, <2>1, SucceedPc
  <2> QED BY <2>1, <2>2, <2>3, <2>4 DEF UsbInv
<1>14. CASE ResetSerial \/ ResetSync \/ ResetOther \/ ResetClose
  BY <1>1, <1>14 DEF UsbInv, ResetSerial, ResetSync, ResetOther, ResetClose, PrinterReset, Quit, ControlInv, CallsOf, Phases
<1>15. CASE DeadlinePasses \/ Sigterm \/ Filter \/ PaperOut \/ PaperIn
  BY <1>15 DEF UsbInv, DeadlinePasses, Sigterm, Filter, FilterWrites, FilterEnds, PaperOut, PaperIn
<1>16. CASE InterruptPipe \/ InterruptPort
  <2>1. UNCHANGED <<inq, pbuf, rt, jobs>>
    BY <1>16 DEF InterruptPipe, InterruptPort
  <2>2. phase' = "recover" \/ (pc # "usbRead" /\ pc' # "usbRead" /\ phase' = phase)
    BY <1>16, FailPc DEF InterruptPipe, InterruptPort
  <2> QED BY <2>1, <2>2 DEF UsbInv
<1>17. CASE Transmit \/ AnswerRealTime
  BY <1>1, <1>17 DEF UsbInv, Transmit, AnswerRealTime
<1>18. CASE PrintBlock
  <2>1. pbuf # <<>> /\ Head(pbuf).kind = "data" /\ pbuf' = Tail(pbuf)
    BY <1>18 DEF PrintBlock
  <2>2. UNCHANGED <<inq, rt, jobs, phase, pc>>
    BY <1>18 DEF PrintBlock
  <2> QED BY <1>1, <2>1, <2>2, OnlyDataTail DEF UsbInv
<1>19. CASE AnswerNeop
  BY <1>1, <1>2, <1>19, NoNeopTail DEF AnswerNeop
<1>20. CASE AnswerInOrder
  <2>1. pbuf # <<>> /\ Head(pbuf).kind = "status" /\ pbuf' = Tail(pbuf) /\ UNCHANGED <<rt, jobs, phase, pc>>
    BY <1>20 DEF AnswerInOrder
  <2>2. phase # "recover" => pc = "usbRead" /\ Tail(pbuf) = <<>>
    BY <1>1, <2>1, OnlyDataTail DEF UsbInv
  <2> QED BY <1>3, <2>1, <2>2 DEF UsbInv
<1>21. CASE UNCHANGED vars
  BY <1>21 DEF UsbInv, vars
<1> QED
  BY <1>4, <1>5, <1>6, <1>7, <1>8, <1>9, <1>10, <1>11, <1>12, <1>13, <1>14, <1>15, <1>16, <1>17,
     <1>18, <1>19, <1>20, <1>21 DEF Next, Backend, Printer, Terminated

(* When state_wait_usb has succeeded, no block is left in the printer, in  *)
(* a first job without the NEOP sensor.  (With it, the run usb_neop finds  *)
(* its late answer taken for the answer to the query.)                     *)
THEOREM UsbBuffersEmpty == ~CheckNeop /\ MaxJobs = 1 => (Spec => []BuffersEmpty)
<1> SUFFICES ASSUME ~CheckNeop, MaxJobs = 1 PROVE Spec => []BuffersEmpty
  OBVIOUS
<1> DEFINE J == PortType = "usb" => AnswerInv /\ UsbInv
<1>1. Init => J
  BY WholeEmpty, NoNeopOne DEF Init, AnswerInv, UsbInv, OnlyData
<1>2. IInv /\ J /\ [Next]_vars => J'
  BY AnswerStep, UsbStep DEF InStep
<1>3. J => BuffersEmpty
  BY DEF UsbInv, BuffersEmpty, HasData
<1> QED BY <1>1, <1>2, <1>3, Inductive, PTL DEF Spec

=============================================================================
