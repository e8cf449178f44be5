------------------------ MODULE ParallelPortProofs --------------------------
(***************************************************************************)
(* Proofs about the parallel transport, for calls of any number and size.  *)
(* The inductive invariant is the conjunction of the parts below; each has *)
(* its own step lemma, which cites the parts it depends on.                *)
(***************************************************************************)
EXTENDS ParallelPort, TLAPS

ByteWrite == {"wReady", "wData", "wStrobe", "wTaken", "wRelease", "wDone", "wNext"}
ByteRead  == {"rReady", "rAsk", "rAnswer", "rData", "rDrop", "rConfirm", "rEnd", "rNext"}

(* The parts of TypeOK.                                                    *)
PcType ==
  /\ pc \in {"idle", "wReady", "wData", "wStrobe", "wTaken", "wRelease", "wDone", "wNext",
             "wIrq", "select", "blocked", "interrupted", "wKernel", "sync", "clear",
             "rDir", "rReady", "rAsk", "rAnswer", "rData", "rDrop", "rConfirm", "rEnd",
             "rNext", "rOut", "recover", "idleSignals", "initOn", "initOff"}
  /\ call \in {"open", "write", "read", "sync", "flush", "reset"}
  /\ errnum \in {"OK", "IO_ERROR", "WRITE_TIMEOUT", "WRITE_FAILED", "READ_TIMEOUT"}
  /\ mode \in {"POLL", "IRQ"} /\ dir \in {"out", "in"}
NumberType ==
  /\ left \in 0 .. Size /\ calls \in 0 .. MaxCalls
  /\ irq_left \in Nat /\ irqc \in Nat /\ foreign \in Nat /\ unacked \in Nat /\ wire \in Nat /\ buf \in Nat
  /\ sent \in Nat /\ written \subseteq 1 .. sent
  /\ received \in Seq(Nat) /\ given \in Seq(Nat) /\ got \in Seq(Nat)
FlagType ==
  /\ again \in BOOLEAN /\ par_timeout \in BOOLEAN /\ armed \in BOOLEAN
  /\ strobe \in BOOLEAN /\ autofd \in BOOLEAN /\ init \in BOOLEAN /\ edge \in BOOLEAN
  /\ busy \in BOOLEAN /\ ack \in BOOLEAN /\ held \in BOOLEAN /\ offering \in BOOLEAN
  /\ clean \in BOOLEAN /\ faulted \in BOOLEAN

(* Which call is running at which step, and that a loop over the bytes is  *)
(* entered only while some are left.                                       *)
CallInv ==
  /\ pc \in ByteWrite \union {"wIrq", "wKernel"} => call = "write"
  /\ pc \in ByteRead \union {"rDir", "rOut"} => call = "read"
  /\ pc = "sync" => call \in {"sync", "read", "flush"}
  /\ pc = "clear" => call = "flush"
  /\ pc \in {"idleSignals", "initOn", "initOff"} => call = "reset"
  /\ pc = "recover" => call \in {"write", "read"}
  /\ pc \in ByteWrite \union ByteRead \union {"rDir"} => left > 0
  /\ pc \in {"sync", "select", "blocked"} /\ call = "read" => left > 0
  /\ pc \in {"select", "blocked"} => call \in {"write", "sync", "read", "flush"}
  /\ pc \notin {"idle", "recover", "rOut"} => errnum = "OK"
  /\ pc = "recover" => errnum # "OK"
  /\ pc \in ByteWrite \ {"wReady", "wData"} => sent > 0

(* When a control signal is asserted, the data lines are turned around and *)
(* the timer runs.                                                         *)
SignalInv ==
  /\ edge => strobe
  /\ armed => pc \notin {"idle", "clear", "rDir", "idleSignals", "initOn", "initOff"}
  /\ ~faulted =>
       /\ strobe => pc \in {"wTaken", "wRelease", "rEnd", "rNext", "recover"}
       /\ autofd => pc \in {"rAnswer", "rData", "rDrop", "recover"}
       /\ init => pc = "initOff"
       /\ dir = "in" => pc \in ByteRead \union {"rOut"} \/ (pc = "recover" /\ call = "read")
       /\ pc \in ByteRead => dir = "in"

(* Every byte of interrupt mode that is not acknowledged, and every        *)
(* interrupt not seen yet, is waited for or was not for a counted byte.    *)
SyncInv == unacked + irqc <= irq_left + foreign /\ Synchronised

(* During a reset the printer has forgotten everything.                    *)
ResetInv ==
  pc = "initOff" =>
    /\ init
    /\ ~busy /\ ~ack /\ ~held /\ ~offering
    /\ received = <<>> /\ given = <<>> /\ got = <<>> /\ written = {}

(* Where the printer stands in the handshake: only between STROBE or       *)
(* AUTOFEED and the wait at the end of a byte does it hold or offer one.   *)
Shaking == {"wTaken", "wRelease", "wDone", "rAnswer", "rData", "rDrop", "rConfirm", "rEnd"}
PrinterInv ==
  Orderly =>
    /\ held => busy
    /\ pc \in {"wData", "wStrobe"} => ~busy
    /\ pc = "wTaken" /\ edge => ~busy
    /\ edge /\ call = "read" => offering
    /\ errnum = "OK" =>
         /\ pc \notin Shaking => ~ack /\ ~offering /\ ~held
         /\ pc \in {"wTaken", "wRelease", "wDone"} => ~offering
         /\ pc \in {"rAnswer", "rData", "rDrop", "rConfirm", "rEnd"} =>
              ~held /\ (ack <=> offering)
         /\ pc \in {"rData", "rDrop", "rConfirm"} => offering
         /\ pc = "rEnd" => (offering => edge)

(* The bytes taken lie below the one in hand until that one is taken.      *)
TakenInv ==
  Orderly =>
    /\ \A i \in 1 .. Len(received) : received[i] <= sent
    /\ Increasing(received)
    /\ written \subseteq Range(received)
    /\ pc = "wStrobe" \/ (edge /\ call = "write") =>
         /\ wire = sent /\ sent > 0 /\ dir = "out"
         /\ \A i \in 1 .. Len(received) : received[i] < sent
    /\ (pc = "wTaken" /\ ~edge) \/ pc \in {"wRelease", "wDone", "wNext"} =>
         sent \in Range(received)

(* The bytes confirmed are those read, except around the confirmation.     *)
GivenInv ==
  /\ \A i \in 1 .. Len(given) : given[i] = i
  /\ Orderly =>
       /\ \A i \in 1 .. Len(got) : got[i] = i
       /\ pc \in {"rDrop", "rConfirm"} => buf = Len(given) + 1
       /\ pc = "rEnd" /\ offering => buf = Len(given) + 1
       /\ (pc = "rEnd" /\ ~offering) \/ pc = "rNext" => buf = Len(given) /\ Len(given) = Len(got) + 1
       /\ errnum = "OK" /\ ~(pc = "rEnd" /\ ~offering) /\ pc # "rNext" => Len(got) = Len(given)

IInv == TypeOK /\ CallInv /\ SignalInv /\ SyncInv /\ ResetInv /\ PrinterInv /\ TakenInv /\ GivenInv

USE ConstantsAssumption DEF ConstantsAssumption
USE DEF host, timer, signals, data, count, printer, client

(* A wait loop sets only again.                                            *)
LEMMA AwaitFlags ==
  ASSUME FlagType, NEW signal, NEW next, Await(signal, next)
  PROVE  FlagType'
<1>1. again' \in BOOLEAN
  BY DEF Await
<1>2. UNCHANGED <<par_timeout, armed, strobe, autofd, init, edge, busy, ack, held, offering, clean, faulted>>
  BY DEF Await
<1> QED BY <1>1, <1>2 DEF FlagType

(* par_control_idle that fails half way.                                   *)
LEMMA PartlyFlags ==
  ASSUME FlagType, IdlePartly
  PROVE  /\ strobe' \in BOOLEAN /\ autofd' \in BOOLEAN /\ init' \in BOOLEAN /\ edge' \in BOOLEAN
         /\ (edge => strobe) => (edge' => strobe')
<1>1. CASE UNCHANGED <<strobe, autofd, init, edge>>
  BY <1>1 DEF FlagType
<1>2. CASE Drive(strobe, autofd, FALSE)
  BY <1>2 DEF FlagType, Drive
<1>3. CASE Drive(FALSE, autofd, FALSE)
  BY <1>3 DEF FlagType, Drive
<1> QED BY <1>1, <1>2, <1>3 DEF IdlePartly

(* TypeOK, one part after the other.                                       *)
LEMMA PcStep ==
  ASSUME TypeOK, [Next]_vars
  PROVE  PcType'
<1> USE DEF TypeOK, PcType
<1>1. CASE Client
  <2>1. CASE CallWrite
    BY <2>1 DEF CallWrite, Begin, StartTimer
  <2>2. CASE CallRead
    BY <2>2 DEF CallRead, Begin, StartTimer
  <2>3. CASE CallSync
    BY <2>3 DEF CallSync, Begin, StartTimer
  <2>4. CASE CallFlush
    BY <2>4 DEF CallFlush, Begin, StartTimer
  <2>5. CASE CallReset
    BY <2>5 DEF CallReset, Begin
  <2>6. CASE SetMode
    BY <2>6 DEF SetMode
  <2> QED BY <1>1, <2>1, <2>2, <2>3, <2>4, <2>5, <2>6 DEF Client
<1>2. CASE Host
  <2>1. CASE WaitReady
    BY <2>1 DEF WaitReady, Await, Late
  <2>2. CASE WriteData
    BY <2>2 DEF WriteData, Goto
  <2>3. CASE AssertStrobe
    BY <2>3 DEF AssertStrobe, Strobe, Drive, Goto
  <2>4. CASE WaitTaken
    BY <2>4 DEF WaitTaken, Await, Late
  <2>5. CASE ReleaseStrobe
    BY <2>5 DEF ReleaseStrobe, Strobe, Drive, Goto
  <2>6. CASE WaitDone
    BY <2>6 DEF WaitDone, Await, Late
  <2>7. CASE NextByte
    BY <2>7 DEF NextByte, StopTimer
  <2>8. CASE EnterSelect
    BY <2>8 DEF EnterSelect, Goto
  <2>9. CASE SelectFails
    BY <2>9 DEF SelectFails, Returns, StopTimer
  <2>10. CASE CountIrq
    BY <2>10 DEF CountIrq, Seen, Goto
  <2>11. CASE WaitIrq
    BY <2>11 DEF WaitIrq, Goto
  <2>12. CASE KernelWrite
    BY <2>12 DEF KernelWrite, KernelTakes, StopTimer
  <2>13. CASE KernelWriteLate
    BY <2>13 DEF KernelWriteLate, KernelTakes, Returns, StopTimer
  <2>14. CASE KernelWriteFails
    BY <2>14 DEF KernelWriteFails, Returns, StopTimer
  <2>15. CASE SyncWaits
    BY <2>15 DEF SyncWaits, Goto
  <2>16. CASE SyncEnds
    BY <2>16 DEF SyncEnds, StopTimer, Goto
  <2>17. CASE ClearIrq
    BY <2>17 DEF ClearIrq, Goto
  <2>18. CASE TurnIn
    BY <2>18 DEF TurnIn, StartTimer, Goto
  <2>19. CASE WaitIdle
    BY <2>19 DEF WaitIdle, Await, Late
  <2>20. CASE AskByte
    BY <2>20 DEF AskByte, Autofeed, Drive, Goto
  <2>21. CASE WaitAnswer
    BY <2>21 DEF WaitAnswer, Await, Late
  <2>22. CASE ReadData
    BY <2>22 DEF ReadData, Goto
  <2>23. CASE DropAsk
    BY <2>23 DEF DropAsk, Autofeed, Drive, Goto
  <2>24. CASE Confirm
    BY <2>24 DEF Confirm, Strobe, Drive, Goto
  <2>25. CASE WaitEnd
    BY <2>25 DEF WaitEnd, Await, Late
  <2>26. CASE NextAnswer
    BY <2>26 DEF NextAnswer, Drive
  <2>27. CASE TurnOut
    BY <2>27 DEF TurnOut, StopTimer, Goto
  <2>28. CASE Recover
    BY <2>28 DEF Recover, Drive, AfterRecovery, StopTimer
  <2>29. CASE IdleSignals
    BY <2>29 DEF IdleSignals, Drive, Goto
  <2>30. CASE AssertInit
    BY <2>30 DEF AssertInit, Drive, Goto
  <2>31. CASE ReleaseInit
    BY <2>31 DEF ReleaseInit, Drive, Goto
  <2> QED BY <1>2, <2>1, <2>2, <2>3, <2>4, <2>5, <2>6, <2>7, <2>8, <2>9, <2>10, <2>11,
     <2>12, <2>13, <2>14, <2>15, <2>16, <2>17, <2>18, <2>19, <2>20, <2>21, <2>22, <2>23,
     <2>24, <2>25, <2>26, <2>27, <2>28, <2>29, <2>30, <2>31 DEF Host
<1>3. CASE Fault
  <2>1. CASE FaultInByte
    BY <2>1 DEF FaultInByte
  <2>2. CASE FaultInCall
    BY <2>2 DEF FaultInCall, Returns, StopTimer
  <2>3. CASE FaultInRestore
    <3>1. CASE pc = "recover" /\ IdlePartly /\ AfterRecovery
      BY <3>1 DEF AfterRecovery, TypeOK, PcType
    <3>2. CASE Returns("IO_ERROR") /\ UNCHANGED <<data, count, printer, client>>
      BY <3>2 DEF Returns
    <3> QED BY <2>3, <3>1, <3>2 DEF FaultInRestore
  <2> QED BY <1>3, <2>1, <2>2, <2>3 DEF Fault
<1>4. CASE Printer
  <2>1. CASE TakeByte
    BY <2>1 DEF TakeByte
  <2>2. CASE Acknowledge
    BY <2>2 DEF Acknowledge, StrayIrq
  <2>3. CASE EndPulse
    BY <2>3 DEF EndPulse
  <2>4. CASE NotBusy
    BY <2>4 DEF NotBusy
  <2>5. CASE Offer
    BY <2>5 DEF Offer, StrayIrq
  <2>6. CASE Accepted
    BY <2>6 DEF Accepted
  <2>7. CASE AcknowledgeIrq
    BY <2>7 DEF AcknowledgeIrq
  <2> QED BY <1>4, <2>1, <2>2, <2>3, <2>4, <2>5, <2>6, <2>7 DEF Printer
<1>5. CASE Alarm
  BY <1>5 DEF Alarm, Interrupted, Goto
<1>6. CASE Sigterm
  BY <1>6 DEF Sigterm, Interrupted, Goto
<1>7. CASE UNCHANGED vars
  BY <1>7 DEF vars
<1> QED BY <1>1, <1>2, <1>3, <1>4, <1>5, <1>6, <1>7 DEF Next

(* TypeOK: numbers and sequences; a loop counts down while bytes are left. *)
LEMMA NumberStep ==
  ASSUME TypeOK, CallInv, SyncInv, [Next]_vars
  PROVE  NumberType'
<1> USE DEF TypeOK, CallInv, NumberType, ByteWrite, ByteRead
<1>1. CASE Client
  <2>1. CASE CallWrite
    BY <2>1 DEF CallWrite, Begin, StartTimer
  <2>2. CASE CallRead
    BY <2>2 DEF CallRead, Begin, StartTimer
  <2>3. CASE CallSync
    BY <2>3 DEF CallSync, Begin, StartTimer
  <2>4. CASE CallFlush
    BY <2>4 DEF CallFlush, Begin, StartTimer
  <2>5. CASE CallReset
    BY <2>5 DEF CallReset, Begin
  <2>6. CASE SetMode
    BY <2>6 DEF SetMode
  <2> QED BY <1>1, <2>1, <2>2, <2>3, <2>4, <2>5, <2>6 DEF Client
<1>2. CASE Host
  <2>1. CASE WaitReady
    BY <2>1 DEF WaitReady, Await, Late
  <2>2. CASE WriteData
    BY <2>2 DEF WriteData, Goto
  <2>3. CASE AssertStrobe
    BY <2>3 DEF AssertStrobe, Strobe, Drive, Goto
  <2>4. CASE WaitTaken
    BY <2>4 DEF WaitTaken, Await, Late
  <2>5. CASE ReleaseStrobe
    BY <2>5 DEF ReleaseStrobe, Strobe, Drive, Goto
  <2>6. CASE WaitDone
    BY <2>6 DEF WaitDone, Await, Late
  <2>7. CASE NextByte
    BY <2>7 DEF NextByte, StopTimer
  <2>8. CASE EnterSelect
    BY <2>8 DEF EnterSelect, Goto
  <2>9. CASE SelectFails
    BY <2>9 DEF SelectFails, Returns, StopTimer
  <2>10. CASE CountIrq
    <3>1. irqc <= irq_left + foreign
      BY DEF SyncInv
    <3> QED BY <2>10, <3>1 DEF CountIrq, Seen, Forgiven, Goto
  <2>11. CASE WaitIrq
    BY <2>11 DEF WaitIrq, Goto
  <2>12. CASE KernelWrite
    BY <2>12 DEF KernelWrite, KernelTakes, StopTimer
  <2>13. CASE KernelWriteLate
    BY <2>13 DEF KernelWriteLate, KernelTakes, Returns, StopTimer
  <2>14. CASE KernelWriteFails
    BY <2>14 DEF KernelWriteFails, Returns, StopTimer
  <2>15. CASE SyncWaits
    BY <2>15 DEF SyncWaits, Goto
  <2>16. CASE SyncEnds
    BY <2>16 DEF SyncEnds, StopTimer, Goto
  <2>17. CASE ClearIrq
    BY <2>17 DEF ClearIrq, Goto
  <2>18. CASE TurnIn
    BY <2>18 DEF TurnIn, StartTimer, Goto
  <2>19. CASE WaitIdle
    BY <2>19 DEF WaitIdle, Await, Late
  <2>20. CASE AskByte
    BY <2>20 DEF AskByte, Autofeed, Drive, Goto
  <2>21. CASE WaitAnswer
    BY <2>21 DEF WaitAnswer, Await, Late
  <2>22. CASE ReadData
    BY <2>22 DEF ReadData, Goto
  <2>23. CASE DropAsk
    BY <2>23 DEF DropAsk, Autofeed, Drive, Goto
  <2>24. CASE Confirm
    BY <2>24 DEF Confirm, Strobe, Drive, Goto
  <2>25. CASE WaitEnd
    BY <2>25 DEF WaitEnd, Await, Late
  <2>26. CASE NextAnswer
    BY <2>26 DEF NextAnswer, Drive
  <2>27. CASE TurnOut
    BY <2>27 DEF TurnOut, StopTimer, Goto
  <2>28. CASE Recover
    BY <2>28 DEF Recover, Drive, AfterRecovery, StopTimer
  <2>29. CASE IdleSignals
    BY <2>29 DEF IdleSignals, Drive, Goto
  <2>30. CASE AssertInit
    BY <2>30 DEF AssertInit, Drive, Goto
  <2>31. CASE ReleaseInit
    BY <2>31 DEF ReleaseInit, Drive, Goto
  <2> QED BY <1>2, <2>1, <2>2, <2>3, <2>4, <2>5, <2>6, <2>7, <2>8, <2>9, <2>10, <2>11,
     <2>12, <2>13, <2>14, <2>15, <2>16, <2>17, <2>18, <2>19, <2>20, <2>21, <2>22, <2>23,
     <2>24, <2>25, <2>26, <2>27, <2>28, <2>29, <2>30, <2>31 DEF Host
<1>3. CASE Fault
  <2>1. CASE FaultInByte
    BY <2>1 DEF FaultInByte
  <2>2. CASE FaultInCall
    BY <2>2 DEF FaultInCall, Returns, StopTimer
  <2>3. CASE FaultInRestore
    <3>1. left' \in {0, left}
      BY <2>3 DEF FaultInRestore, AfterRecovery, Returns
    <3>2. UNCHANGED <<data, count, printer, client>>
      BY <2>3 DEF FaultInRestore, AfterRecovery
    <3> QED BY <3>1, <3>2
  <2> QED BY <1>3, <2>1, <2>2, <2>3 DEF Fault
<1>4. CASE Printer
  <2>1. CASE TakeByte
    BY <2>1 DEF TakeByte
  <2>2. CASE Acknowledge
    BY <2>2 DEF Acknowledge, StrayIrq
  <2>3. CASE EndPulse
    BY <2>3 DEF EndPulse
  <2>4. CASE NotBusy
    BY <2>4 DEF NotBusy
  <2>5. CASE Offer
    BY <2>5 DEF Offer, StrayIrq
  <2>6. CASE Accepted
    BY <2>6 DEF Accepted
  <2>7. CASE AcknowledgeIrq
    BY <2>7 DEF AcknowledgeIrq
  <2> QED BY <1>4, <2>1, <2>2, <2>3, <2>4, <2>5, <2>6, <2>7 DEF Printer
<1>5. CASE Alarm
  BY <1>5 DEF Alarm, Interrupted, Goto
<1>6. CASE Sigterm
  BY <1>6 DEF Sigterm, Interrupted, Goto
<1>7. CASE UNCHANGED vars
  BY <1>7 DEF vars
<1> QED BY <1>1, <1>2, <1>3, <1>4, <1>5, <1>6, <1>7 DEF Next

(* TypeOK: flags and signals.                                             *)
LEMMA FlagStep ==
  ASSUME FlagType, [Next]_vars
  PROVE  FlagType'
<1> USE DEF FlagType
<1>1. CASE Client
  <2>1. CASE CallWrite
    BY <2>1 DEF CallWrite, Begin, StartTimer
  <2>2. CASE CallRead
    <3>1. armed' \in BOOLEAN
      BY <2>2 DEF FlagType, CallRead, Begin, StartTimer
    <3>2. again' \in BOOLEAN
      BY <2>2 DEF FlagType, CallRead, Begin, StartTimer
    <3>3. par_timeout' \in BOOLEAN
      BY <2>2 DEF FlagType, CallRead, Begin, StartTimer
    <3>4. clean' \in BOOLEAN
      BY <2>2 DEF FlagType, CallRead, Begin, StartTimer
    <3>5. UNCHANGED <<strobe, autofd, init, edge, busy, ack, held, offering, faulted>>
      BY <2>2 DEF CallRead, Begin, StartTimer
    <3> QED BY <3>1, <3>2, <3>3, <3>4, <3>5 DEF FlagType
  <2>3. CASE CallSync
    BY <2>3 DEF CallSync, Begin, StartTimer
  <2>4. CASE CallFlush
    BY <2>4 DEF CallFlush, Begin, StartTimer
  <2>5. CASE CallReset
    BY <2>5 DEF CallReset, Begin
  <2>6. CASE SetMode
    BY <2>6 DEF SetMode
  <2> QED BY <1>1, <2>1, <2>2, <2>3, <2>4, <2>5, <2>6 DEF Client
<1>2. CASE Host
  <2>1. CASE WaitReady
    BY <2>1, AwaitFlags DEF WaitReady
  <2>2. CASE WriteData
    BY <2>2 DEF WriteData, Goto
  <2>3. CASE AssertStrobe
    BY <2>3 DEF AssertStrobe, Strobe, Drive, Goto
  <2>4. CASE WaitTaken
    BY <2>4, AwaitFlags DEF WaitTaken
  <2>5. CASE ReleaseStrobe
    BY <2>5 DEF ReleaseStrobe, Strobe, Drive, Goto
  <2>6. CASE WaitDone
    BY <2>6, AwaitFlags DEF WaitDone
  <2>7. CASE NextByte
    <3>1. armed' \in BOOLEAN
      BY <2>7 DEF FlagType, NextByte, StopTimer
    <3>2. UNCHANGED <<again, par_timeout, strobe, autofd, init, edge, busy, ack, held, offering, clean, faulted>>
      BY <2>7 DEF NextByte, StopTimer
    <3> QED BY <3>1, <3>2 DEF FlagType
  <2>8. CASE EnterSelect
    BY <2>8 DEF EnterSelect, Goto
  <2>9. CASE SelectFails
    BY <2>9 DEF SelectFails, Returns, StopTimer
  <2>10. CASE CountIrq
    BY <2>10 DEF CountIrq, Seen, Goto
  <2>11. CASE WaitIrq
    BY <2>11 DEF WaitIrq, Goto
  <2>12. CASE KernelWrite
    <3>1. armed' \in BOOLEAN
      BY <2>12 DEF FlagType, KernelWrite, KernelTakes, StopTimer
    <3>2. UNCHANGED <<again, par_timeout, strobe, autofd, init, edge, busy, ack, held, offering, clean, faulted>>
      BY <2>12 DEF KernelWrite, KernelTakes, StopTimer
    <3> QED BY <3>1, <3>2 DEF FlagType
  <2>13. CASE KernelWriteLate
    BY <2>13 DEF KernelWriteLate, KernelTakes, Returns, StopTimer
  <2>14. CASE KernelWriteFails
    BY <2>14 DEF KernelWriteFails, Returns, StopTimer
  <2>15. CASE SyncWaits
    BY <2>15 DEF SyncWaits, Goto
  <2>16. CASE SyncEnds
    <3>1. armed' \in BOOLEAN
      BY <2>16 DEF FlagType, SyncEnds, StopTimer, Goto
    <3>2. UNCHANGED <<again, par_timeout, strobe, autofd, init, edge, busy, ack, held, offering, clean, faulted>>
      BY <2>16 DEF SyncEnds, StopTimer, Goto
    <3> QED BY <3>1, <3>2 DEF FlagType
  <2>17. CASE ClearIrq
    BY <2>17 DEF ClearIrq, Goto
  <2>18. CASE TurnIn
    BY <2>18 DEF TurnIn, StartTimer, Goto
  <2>19. CASE WaitIdle
    BY <2>19, AwaitFlags DEF WaitIdle
  <2>20. CASE AskByte
    BY <2>20 DEF AskByte, Autofeed, Drive, Goto
  <2>21. CASE WaitAnswer
    BY <2>21, AwaitFlags DEF WaitAnswer
  <2>22. CASE ReadData
    BY <2>22 DEF ReadData, Goto
  <2>23. CASE DropAsk
    BY <2>23 DEF DropAsk, Autofeed, Drive, Goto
  <2>24. CASE Confirm
    BY <2>24 DEF Confirm, Strobe, Drive, Goto
  <2>25. CASE WaitEnd
    BY <2>25, AwaitFlags DEF WaitEnd
  <2>26. CASE NextAnswer
    BY <2>26 DEF NextAnswer, Drive
  <2>27. CASE TurnOut
    <3>1. armed' \in BOOLEAN
      BY <2>27 DEF FlagType, TurnOut, StopTimer, Goto
    <3>2. UNCHANGED <<again, par_timeout, strobe, autofd, init, edge, busy, ack, held, offering, clean, faulted>>
      BY <2>27 DEF TurnOut, StopTimer, Goto
    <3> QED BY <3>1, <3>2 DEF FlagType
  <2>28. CASE Recover
    BY <2>28 DEF Recover, Drive, AfterRecovery, StopTimer
  <2>29. CASE IdleSignals
    BY <2>29 DEF IdleSignals, Drive, Goto
  <2>30. CASE AssertInit
    BY <2>30 DEF AssertInit, Drive, Goto
  <2>31. CASE ReleaseInit
    BY <2>31 DEF ReleaseInit, Drive, Goto
  <2> QED BY <1>2, <2>1, <2>2, <2>3, <2>4, <2>5, <2>6, <2>7, <2>8, <2>9, <2>10, <2>11,
     <2>12, <2>13, <2>14, <2>15, <2>16, <2>17, <2>18, <2>19, <2>20, <2>21, <2>22, <2>23,
     <2>24, <2>25, <2>26, <2>27, <2>28, <2>29, <2>30, <2>31 DEF Host
<1>3. CASE Fault
  <2>1. CASE FaultInByte
    <3>1. again' \in BOOLEAN
      BY <2>1 DEF FlagType, FaultInByte
    <3>2. UNCHANGED <<par_timeout, armed, strobe, autofd, init, edge, busy, ack, held, offering, clean, faulted>>
      BY <2>1 DEF FaultInByte
    <3> QED BY <3>1, <3>2 DEF FlagType
  <2>2. CASE FaultInCall
    BY <2>2 DEF FaultInCall, Returns, StopTimer
  <2>3. CASE FaultInRestore
    <3>1. CASE pc = "recover" /\ IdlePartly /\ AfterRecovery
      <4>1. armed' \in BOOLEAN /\ UNCHANGED <<again, par_timeout, busy, ack, held, offering, clean>>
        BY <3>1 DEF FlagType, AfterRecovery, StopTimer
      <4>2. strobe' \in BOOLEAN /\ autofd' \in BOOLEAN /\ init' \in BOOLEAN /\ edge' \in BOOLEAN
        BY <3>1, PartlyFlags
      <4> QED BY <2>3, <4>1, <4>2 DEF FlagType, FaultInRestore
    <3>2. CASE pc = "idleSignals" /\ IdlePartly /\ Returns("IO_ERROR") /\ UNCHANGED <<data, count, printer, client>>
      <4>1. armed' = FALSE /\ again' = FALSE /\ UNCHANGED <<par_timeout, busy, ack, held, offering, clean>>
        BY <3>2 DEF Returns, StopTimer
      <4>2. strobe' \in BOOLEAN /\ autofd' \in BOOLEAN /\ init' \in BOOLEAN /\ edge' \in BOOLEAN
        BY <3>2, PartlyFlags
      <4> QED BY <2>3, <4>1, <4>2 DEF FlagType, FaultInRestore
    <3>3. CASE Returns("IO_ERROR") /\ UNCHANGED <<signals, data, count, printer, client>>
      BY <2>3, <3>3 DEF FlagType, FaultInRestore, Returns, StopTimer
    <3> QED BY <2>3, <3>1, <3>2, <3>3 DEF FaultInRestore
  <2> QED BY <1>3, <2>1, <2>2, <2>3 DEF Fault
<1>4. CASE Printer
  <2>1. CASE TakeByte
    BY <2>1 DEF TakeByte
  <2>2. CASE Acknowledge
    BY <2>2 DEF Acknowledge, StrayIrq
  <2>3. CASE EndPulse
    BY <2>3 DEF EndPulse
  <2>4. CASE NotBusy
    BY <2>4 DEF NotBusy
  <2>5. CASE Offer
    BY <2>5 DEF Offer, StrayIrq
  <2>6. CASE Accepted
    BY <2>6 DEF Accepted
  <2>7. CASE AcknowledgeIrq
    BY <2>7 DEF AcknowledgeIrq
  <2> QED BY <1>4, <2>1, <2>2, <2>3, <2>4, <2>5, <2>6, <2>7 DEF Printer
<1>5. CASE Alarm
  BY <1>5 DEF Alarm, Interrupted, Goto
<1>6. CASE Sigterm
  BY <1>6 DEF Sigterm, Interrupted, Goto
<1>7. CASE UNCHANGED vars
  BY <1>7 DEF vars
<1> QED BY <1>1, <1>2, <1>3, <1>4, <1>5, <1>6, <1>7 DEF Next

LEMMA TypeStep == ASSUME TypeOK, CallInv, SyncInv, [Next]_vars PROVE TypeOK'
<1>1. PcType'
  BY PcStep
<1>2. NumberType'
  BY NumberStep
<1>3. FlagType'
  BY FlagStep DEF TypeOK, FlagType
<1> QED BY <1>1, <1>2, <1>3 DEF TypeOK, PcType, NumberType, FlagType

(* CallInv: the program counter follows the call.                          *)
LEMMA CallStep ==
  ASSUME TypeOK, CallInv, [Next]_vars
  PROVE  CallInv'
<1> USE DEF TypeOK, CallInv, ByteWrite, ByteRead
<1>1. CASE Client
  <2>1. CASE CallWrite
    BY <2>1 DEF CallWrite, Begin, StartTimer
  <2>2. CASE CallRead
    BY <2>2 DEF CallRead, Begin, StartTimer
  <2>3. CASE CallSync
    BY <2>3 DEF CallSync, Begin, StartTimer
  <2>4. CASE CallFlush
    BY <2>4 DEF CallFlush, Begin, StartTimer
  <2>5. CASE CallReset
    BY <2>5 DEF CallReset, Begin
  <2>6. CASE SetMode
    BY <2>6 DEF SetMode
  <2> QED BY <1>1, <2>1, <2>2, <2>3, <2>4, <2>5, <2>6 DEF Client
<1>2. CASE Host
  <2>1. CASE WaitReady
    BY <2>1 DEF WaitReady, Await, Late
  <2>2. CASE WriteData
    BY <2>2 DEF WriteData, Goto
  <2>3. CASE AssertStrobe
    BY <2>3 DEF AssertStrobe, Strobe, Drive, Goto
  <2>4. CASE WaitTaken
    BY <2>4 DEF WaitTaken, Await, Late
  <2>5. CASE ReleaseStrobe
    BY <2>5 DEF ReleaseStrobe, Strobe, Drive, Goto
  <2>6. CASE WaitDone
    BY <2>6 DEF WaitDone, Await, Late
  <2>7. CASE NextByte
    BY <2>7 DEF NextByte, StopTimer
  <2>8. CASE EnterSelect
    BY <2>8 DEF EnterSelect, Goto
  <2>9. CASE SelectFails
    BY <2>9 DEF SelectFails, Returns, StopTimer
  <2>10. CASE CountIrq
    BY <2>10 DEF CountIrq, Seen, Goto
  <2>11. CASE WaitIrq
    BY <2>11 DEF WaitIrq, Goto
  <2>12. CASE KernelWrite
    BY <2>12 DEF KernelWrite, KernelTakes, StopTimer
  <2>13. CASE KernelWriteLate
    BY <2>13 DEF KernelWriteLate, KernelTakes, Returns, StopTimer
  <2>14. CASE KernelWriteFails
    BY <2>14 DEF KernelWriteFails, Returns, StopTimer
  <2>15. CASE SyncWaits
    BY <2>15 DEF SyncWaits, Goto
  <2>16. CASE SyncEnds
    BY <2>16 DEF SyncEnds, StopTimer, Goto
  <2>17. CASE ClearIrq
    BY <2>17 DEF ClearIrq, Goto
  <2>18. CASE TurnIn
    BY <2>18 DEF TurnIn, StartTimer, Goto
  <2>19. CASE WaitIdle
    BY <2>19 DEF WaitIdle, Await, Late
  <2>20. CASE AskByte
    BY <2>20 DEF AskByte, Autofeed, Drive, Goto
  <2>21. CASE WaitAnswer
    BY <2>21 DEF WaitAnswer, Await, Late
  <2>22. CASE ReadData
    BY <2>22 DEF ReadData, Goto
  <2>23. CASE DropAsk
    BY <2>23 DEF DropAsk, Autofeed, Drive, Goto
  <2>24. CASE Confirm
    BY <2>24 DEF Confirm, Strobe, Drive, Goto
  <2>25. CASE WaitEnd
    BY <2>25 DEF WaitEnd, Await, Late
  <2>26. CASE NextAnswer
    BY <2>26 DEF NextAnswer, Drive
  <2>27. CASE TurnOut
    BY <2>27 DEF TurnOut, StopTimer, Goto
  <2>28. CASE Recover
    BY <2>28 DEF Recover, Drive, AfterRecovery, StopTimer
  <2>29. CASE IdleSignals
    BY <2>29 DEF IdleSignals, Drive, Goto
  <2>30. CASE AssertInit
    BY <2>30 DEF AssertInit, Drive, Goto
  <2>31. CASE ReleaseInit
    BY <2>31 DEF ReleaseInit, Drive, Goto
  <2> QED BY <1>2, <2>1, <2>2, <2>3, <2>4, <2>5, <2>6, <2>7, <2>8, <2>9, <2>10, <2>11,
     <2>12, <2>13, <2>14, <2>15, <2>16, <2>17, <2>18, <2>19, <2>20, <2>21, <2>22, <2>23,
     <2>24, <2>25, <2>26, <2>27, <2>28, <2>29, <2>30, <2>31 DEF Host
<1>3. CASE Fault
  <2>1. CASE FaultInByte
    BY <2>1 DEF FaultInByte
  <2>2. CASE FaultInCall
    BY <2>2 DEF FaultInCall, Returns, StopTimer
  <2>3. CASE FaultInRestore
    BY <2>3 DEF FaultInRestore, IdlePartly, Drive, AfterRecovery, StopTimer, Returns
  <2> QED BY <1>3, <2>1, <2>2, <2>3 DEF Fault
<1>4. CASE Printer
  <2>1. CASE TakeByte
    BY <2>1 DEF TakeByte
  <2>2. CASE Acknowledge
    BY <2>2 DEF Acknowledge, StrayIrq
  <2>3. CASE EndPulse
    BY <2>3 DEF EndPulse
  <2>4. CASE NotBusy
    BY <2>4 DEF NotBusy
  <2>5. CASE Offer
    BY <2>5 DEF Offer, StrayIrq
  <2>6. CASE Accepted
    BY <2>6 DEF Accepted
  <2>7. CASE AcknowledgeIrq
    BY <2>7 DEF AcknowledgeIrq
  <2> QED BY <1>4, <2>1, <2>2, <2>3, <2>4, <2>5, <2>6, <2>7 DEF Printer
<1>5. CASE Alarm
  BY <1>5 DEF Alarm, Interrupted, Goto
<1>6. CASE Sigterm
  BY <1>6 DEF Sigterm, Interrupted, Goto
<1>7. CASE UNCHANGED vars
  BY <1>7 DEF vars
<1> QED BY <1>1, <1>2, <1>3, <1>4, <1>5, <1>6, <1>7 DEF Next

(* SignalInv: every exit restores what the call has changed.               *)
LEMMA SignalStep ==
  ASSUME TypeOK, CallInv, SignalInv, [Next]_vars
  PROVE  SignalInv'
<1> USE DEF TypeOK, CallInv, SignalInv, ByteWrite, ByteRead
<1>1. CASE Client
  <2>1. CASE CallWrite
    BY <2>1 DEF CallWrite, Begin, StartTimer
  <2>2. CASE CallRead
    BY <2>2 DEF CallRead, Begin, StartTimer
  <2>3. CASE CallSync
    BY <2>3 DEF CallSync, Begin, StartTimer
  <2>4. CASE CallFlush
    BY <2>4 DEF CallFlush, Begin, StartTimer
  <2>5. CASE CallReset
    BY <2>5 DEF CallReset, Begin
  <2>6. CASE SetMode
    BY <2>6 DEF SetMode
  <2> QED BY <1>1, <2>1, <2>2, <2>3, <2>4, <2>5, <2>6 DEF Client
<1>2. CASE Host
  <2>1. CASE WaitReady
    BY <2>1 DEF WaitReady, Await, Late
  <2>2. CASE WriteData
    BY <2>2 DEF WriteData, Goto
  <2>3. CASE AssertStrobe
    BY <2>3 DEF AssertStrobe, Strobe, Drive, Goto
  <2>4. CASE WaitTaken
    BY <2>4 DEF WaitTaken, Await, Late
  <2>5. CASE ReleaseStrobe
    BY <2>5 DEF ReleaseStrobe, Strobe, Drive, Goto
  <2>6. CASE WaitDone
    BY <2>6 DEF WaitDone, Await, Late
  <2>7. CASE NextByte
    BY <2>7 DEF NextByte, StopTimer
  <2>8. CASE EnterSelect
    BY <2>8 DEF EnterSelect, Goto
  <2>9. CASE SelectFails
    BY <2>9 DEF SelectFails, Returns, StopTimer
  <2>10. CASE CountIrq
    BY <2>10 DEF CountIrq, Seen, Goto
  <2>11. CASE WaitIrq
    BY <2>11 DEF WaitIrq, Goto
  <2>12. CASE KernelWrite
    BY <2>12 DEF KernelWrite, KernelTakes, StopTimer
  <2>13. CASE KernelWriteLate
    BY <2>13 DEF KernelWriteLate, KernelTakes, Returns, StopTimer
  <2>14. CASE KernelWriteFails
    BY <2>14 DEF KernelWriteFails, Returns, StopTimer
  <2>15. CASE SyncWaits
    BY <2>15 DEF SyncWaits, Goto
  <2>16. CASE SyncEnds
    BY <2>16 DEF SyncEnds, StopTimer, Goto
  <2>17. CASE ClearIrq
    BY <2>17 DEF ClearIrq, Goto
  <2>18. CASE TurnIn
    BY <2>18 DEF TurnIn, StartTimer, Goto
  <2>19. CASE WaitIdle
    BY <2>19 DEF WaitIdle, Await, Late
  <2>20. CASE AskByte
    BY <2>20 DEF AskByte, Autofeed, Drive, Goto
  <2>21. CASE WaitAnswer
    BY <2>21 DEF WaitAnswer, Await, Late
  <2>22. CASE ReadData
    BY <2>22 DEF ReadData, Goto
  <2>23. CASE DropAsk
    BY <2>23 DEF DropAsk, Autofeed, Drive, Goto
  <2>24. CASE Confirm
    BY <2>24 DEF Confirm, Strobe, Drive, Goto
  <2>25. CASE WaitEnd
    BY <2>25 DEF WaitEnd, Await, Late
  <2>26. CASE NextAnswer
    BY <2>26 DEF NextAnswer, Drive
  <2>27. CASE TurnOut
    BY <2>27 DEF TurnOut, StopTimer, Goto
  <2>28. CASE Recover
    BY <2>28 DEF Recover, Drive, AfterRecovery, StopTimer
  <2>29. CASE IdleSignals
    BY <2>29 DEF IdleSignals, Drive, Goto
  <2>30. CASE AssertInit
    BY <2>30 DEF AssertInit, Drive, Goto
  <2>31. CASE ReleaseInit
    BY <2>31 DEF ReleaseInit, Drive, Goto
  <2> QED BY <1>2, <2>1, <2>2, <2>3, <2>4, <2>5, <2>6, <2>7, <2>8, <2>9, <2>10, <2>11,
     <2>12, <2>13, <2>14, <2>15, <2>16, <2>17, <2>18, <2>19, <2>20, <2>21, <2>22, <2>23,
     <2>24, <2>25, <2>26, <2>27, <2>28, <2>29, <2>30, <2>31 DEF Host
<1>3. CASE Fault
  <2>1. CASE FaultInByte
    BY <2>1 DEF FaultInByte
  <2>2. CASE FaultInCall
    BY <2>2 DEF FaultInCall, Returns, StopTimer
  <2>3. CASE FaultInRestore
    <3>1. CASE pc = "recover" /\ IdlePartly /\ AfterRecovery
      <4>1. armed' => pc' \notin {"idle", "clear", "rDir", "idleSignals", "initOn", "initOff"}
        BY <3>1 DEF AfterRecovery, StopTimer
      <4>2. edge' => strobe'
        BY <3>1, PartlyFlags DEF FlagType
      <4> QED BY <2>3, <4>1, <4>2 DEF FaultInRestore
    <3>2. CASE pc = "idleSignals" /\ IdlePartly /\ Returns("IO_ERROR")
      <4>1. ~armed'
        BY <3>2 DEF Returns, StopTimer
      <4>2. edge' => strobe'
        BY <3>2, PartlyFlags DEF FlagType
      <4> QED BY <2>3, <4>1, <4>2 DEF FaultInRestore
    <3>3. CASE pc \in {"rOut", "initOff"} /\ Returns("IO_ERROR") /\ UNCHANGED signals
      BY <2>3, <3>3 DEF FaultInRestore, Returns, StopTimer
    <3> QED BY <2>3, <3>1, <3>2, <3>3 DEF FaultInRestore
  <2> QED BY <1>3, <2>1, <2>2, <2>3 DEF Fault
<1>4. CASE Printer
  <2>1. CASE TakeByte
    BY <2>1 DEF TakeByte
  <2>2. CASE Acknowledge
    BY <2>2 DEF Acknowledge, StrayIrq
  <2>3. CASE EndPulse
    BY <2>3 DEF EndPulse
  <2>4. CASE NotBusy
    BY <2>4 DEF NotBusy
  <2>5. CASE Offer
    BY <2>5 DEF Offer, StrayIrq
  <2>6. CASE Accepted
    BY <2>6 DEF Accepted
  <2>7. CASE AcknowledgeIrq
    BY <2>7 DEF AcknowledgeIrq
  <2> QED BY <1>4, <2>1, <2>2, <2>3, <2>4, <2>5, <2>6, <2>7 DEF Printer
<1>5. CASE Alarm
  BY <1>5 DEF Alarm, Interrupted, Goto
<1>6. CASE Sigterm
  BY <1>6 DEF Sigterm, Interrupted, Goto
<1>7. CASE UNCHANGED vars
  BY <1>7 DEF vars
<1> QED BY <1>1, <1>2, <1>3, <1>4, <1>5, <1>6, <1>7 DEF Next

(* SyncInv: the sum of what is waited for and of foreign interrupts.       *)
LEMMA SyncStep ==
  ASSUME TypeOK, CallInv, SyncInv, [Next]_vars
  PROVE  SyncInv'
<1> USE DEF TypeOK, CallInv, SyncInv, Synchronised, ByteWrite, ByteRead
<1>1. CASE Client
  <2>1. CASE CallWrite
    BY <2>1 DEF CallWrite, Begin, StartTimer
  <2>2. CASE CallRead
    BY <2>2 DEF CallRead, Begin, StartTimer
  <2>3. CASE CallSync
    BY <2>3 DEF CallSync, Begin, StartTimer
  <2>4. CASE CallFlush
    BY <2>4 DEF CallFlush, Begin, StartTimer
  <2>5. CASE CallReset
    BY <2>5 DEF CallReset, Begin
  <2>6. CASE SetMode
    BY <2>6 DEF SetMode
  <2> QED BY <1>1, <2>1, <2>2, <2>3, <2>4, <2>5, <2>6 DEF Client
<1>2. CASE Host
  <2>1. CASE WaitReady
    BY <2>1 DEF WaitReady, Await, Late
  <2>2. CASE WriteData
    BY <2>2 DEF WriteData, Goto
  <2>3. CASE AssertStrobe
    BY <2>3 DEF AssertStrobe, Strobe, Drive, Goto
  <2>4. CASE WaitTaken
    BY <2>4 DEF WaitTaken, Await, Late
  <2>5. CASE ReleaseStrobe
    BY <2>5 DEF ReleaseStrobe, Strobe, Drive, Goto
  <2>6. CASE WaitDone
    BY <2>6 DEF WaitDone, Await, Late
  <2>7. CASE NextByte
    BY <2>7 DEF NextByte, StopTimer
  <2>8. CASE EnterSelect
    BY <2>8 DEF EnterSelect, Goto
  <2>9. CASE SelectFails
    BY <2>9 DEF SelectFails, Returns, StopTimer
  <2>10. CASE CountIrq
    BY <2>10 DEF CountIrq, Seen, Forgiven, Goto
  <2>11. CASE WaitIrq
    BY <2>11 DEF WaitIrq, Goto
  <2>12. CASE KernelWrite
    BY <2>12 DEF KernelWrite, KernelTakes, StopTimer
  <2>13. CASE KernelWriteLate
    BY <2>13 DEF KernelWriteLate, KernelTakes, Returns, StopTimer
  <2>14. CASE KernelWriteFails
    BY <2>14 DEF KernelWriteFails, Returns, StopTimer
  <2>15. CASE SyncWaits
    BY <2>15 DEF SyncWaits, Goto
  <2>16. CASE SyncEnds
    BY <2>16 DEF SyncEnds, StopTimer, Goto
  <2>17. CASE ClearIrq
    BY <2>17 DEF ClearIrq, Goto
  <2>18. CASE TurnIn
    BY <2>18 DEF TurnIn, StartTimer, Goto
  <2>19. CASE WaitIdle
    BY <2>19 DEF WaitIdle, Await, Late
  <2>20. CASE AskByte
    BY <2>20 DEF AskByte, Autofeed, Drive, Goto
  <2>21. CASE WaitAnswer
    BY <2>21 DEF WaitAnswer, Await, Late
  <2>22. CASE ReadData
    BY <2>22 DEF ReadData, Goto
  <2>23. CASE DropAsk
    BY <2>23 DEF DropAsk, Autofeed, Drive, Goto
  <2>24. CASE Confirm
    BY <2>24 DEF Confirm, Strobe, Drive, Goto
  <2>25. CASE WaitEnd
    BY <2>25 DEF WaitEnd, Await, Late
  <2>26. CASE NextAnswer
    BY <2>26 DEF NextAnswer, Drive
  <2>27. CASE TurnOut
    BY <2>27 DEF TurnOut, StopTimer, Goto
  <2>28. CASE Recover
    BY <2>28 DEF Recover, Drive, AfterRecovery, StopTimer
  <2>29. CASE IdleSignals
    BY <2>29 DEF IdleSignals, Drive, Goto
  <2>30. CASE AssertInit
    BY <2>30 DEF AssertInit, Drive, Goto
  <2>31. CASE ReleaseInit
    BY <2>31 DEF ReleaseInit, Drive, Goto
  <2> QED BY <1>2, <2>1, <2>2, <2>3, <2>4, <2>5, <2>6, <2>7, <2>8, <2>9, <2>10, <2>11,
     <2>12, <2>13, <2>14, <2>15, <2>16, <2>17, <2>18, <2>19, <2>20, <2>21, <2>22, <2>23,
     <2>24, <2>25, <2>26, <2>27, <2>28, <2>29, <2>30, <2>31 DEF Host
<1>3. CASE Fault
  <2>1. CASE FaultInByte
    BY <2>1 DEF FaultInByte
  <2>2. CASE FaultInCall
    BY <2>2 DEF FaultInCall, Returns, StopTimer
  <2>3. CASE FaultInRestore
    BY <2>3 DEF FaultInRestore, IdlePartly, Drive, AfterRecovery, StopTimer, Returns
  <2> QED BY <1>3, <2>1, <2>2, <2>3 DEF Fault
<1>4. CASE Printer
  <2>1. CASE TakeByte
    BY <2>1 DEF TakeByte
  <2>2. CASE Acknowledge
    BY <2>2 DEF Acknowledge, StrayIrq
  <2>3. CASE EndPulse
    BY <2>3 DEF EndPulse
  <2>4. CASE NotBusy
    BY <2>4 DEF NotBusy
  <2>5. CASE Offer
    BY <2>5 DEF Offer, StrayIrq
  <2>6. CASE Accepted
    BY <2>6 DEF Accepted
  <2>7. CASE AcknowledgeIrq
    BY <2>7 DEF AcknowledgeIrq
  <2> QED BY <1>4, <2>1, <2>2, <2>3, <2>4, <2>5, <2>6, <2>7 DEF Printer
<1>5. CASE Alarm
  BY <1>5 DEF Alarm, Interrupted, Goto
<1>6. CASE Sigterm
  BY <1>6 DEF Sigterm, Interrupted, Goto
<1>7. CASE UNCHANGED vars
  BY <1>7 DEF vars
<1> QED BY <1>1, <1>2, <1>3, <1>4, <1>5, <1>6, <1>7 DEF Next

(* ResetInv: a printer under INIT does nothing.                            *)
LEMMA ResetStep ==
  ASSUME TypeOK, CallInv, ResetInv, [Next]_vars
  PROVE  ResetInv'
<1> USE DEF TypeOK, CallInv, ResetInv, ByteWrite, ByteRead
<1>1. CASE Client
  <2>1. CASE CallWrite
    BY <2>1 DEF CallWrite, Begin, StartTimer
  <2>2. CASE CallRead
    BY <2>2 DEF CallRead, Begin, StartTimer
  <2>3. CASE CallSync
    BY <2>3 DEF CallSync, Begin, StartTimer
  <2>4. CASE CallFlush
    BY <2>4 DEF CallFlush, Begin, StartTimer
  <2>5. CASE CallReset
    BY <2>5 DEF CallReset, Begin
  <2>6. CASE SetMode
    BY <2>6 DEF SetMode
  <2> QED BY <1>1, <2>1, <2>2, <2>3, <2>4, <2>5, <2>6 DEF Client
<1>2. CASE Host
  <2>1. CASE WaitReady
    BY <2>1 DEF WaitReady, Await, Late
  <2>2. CASE WriteData
    BY <2>2 DEF WriteData, Goto
  <2>3. CASE AssertStrobe
    BY <2>3 DEF AssertStrobe, Strobe, Drive, Goto
  <2>4. CASE WaitTaken
    BY <2>4 DEF WaitTaken, Await, Late
  <2>5. CASE ReleaseStrobe
    BY <2>5 DEF ReleaseStrobe, Strobe, Drive, Goto
  <2>6. CASE WaitDone
    BY <2>6 DEF WaitDone, Await, Late
  <2>7. CASE NextByte
    BY <2>7 DEF NextByte, StopTimer
  <2>8. CASE EnterSelect
    BY <2>8 DEF EnterSelect, Goto
  <2>9. CASE SelectFails
    BY <2>9 DEF SelectFails, Returns, StopTimer
  <2>10. CASE CountIrq
    BY <2>10 DEF CountIrq, Seen, Goto
  <2>11. CASE WaitIrq
    BY <2>11 DEF WaitIrq, Goto
  <2>12. CASE KernelWrite
    BY <2>12 DEF KernelWrite, KernelTakes, StopTimer
  <2>13. CASE KernelWriteLate
    BY <2>13 DEF KernelWriteLate, KernelTakes, Returns, StopTimer
  <2>14. CASE KernelWriteFails
    BY <2>14 DEF KernelWriteFails, Returns, StopTimer
  <2>15. CASE SyncWaits
    BY <2>15 DEF SyncWaits, Goto
  <2>16. CASE SyncEnds
    BY <2>16 DEF SyncEnds, StopTimer, Goto
  <2>17. CASE ClearIrq
    BY <2>17 DEF ClearIrq, Goto
  <2>18. CASE TurnIn
    BY <2>18 DEF TurnIn, StartTimer, Goto
  <2>19. CASE WaitIdle
    BY <2>19 DEF WaitIdle, Await, Late
  <2>20. CASE AskByte
    BY <2>20 DEF AskByte, Autofeed, Drive, Goto
  <2>21. CASE WaitAnswer
    BY <2>21 DEF WaitAnswer, Await, Late
  <2>22. CASE ReadData
    BY <2>22 DEF ReadData, Goto
  <2>23. CASE DropAsk
    BY <2>23 DEF DropAsk, Autofeed, Drive, Goto
  <2>24. CASE Confirm
    BY <2>24 DEF Confirm, Strobe, Drive, Goto
  <2>25. CASE WaitEnd
    BY <2>25 DEF WaitEnd, Await, Late
  <2>26. CASE NextAnswer
    BY <2>26 DEF NextAnswer, Drive
  <2>27. CASE TurnOut
    BY <2>27 DEF TurnOut, StopTimer, Goto
  <2>28. CASE Recover
    BY <2>28 DEF Recover, Drive, AfterRecovery, StopTimer
  <2>29. CASE IdleSignals
    BY <2>29 DEF IdleSignals, Drive, Goto
  <2>30. CASE AssertInit
    BY <2>30 DEF AssertInit, Drive, Goto
  <2>31. CASE ReleaseInit
    BY <2>31 DEF ReleaseInit, Drive, Goto
  <2> QED BY <1>2, <2>1, <2>2, <2>3, <2>4, <2>5, <2>6, <2>7, <2>8, <2>9, <2>10, <2>11,
     <2>12, <2>13, <2>14, <2>15, <2>16, <2>17, <2>18, <2>19, <2>20, <2>21, <2>22, <2>23,
     <2>24, <2>25, <2>26, <2>27, <2>28, <2>29, <2>30, <2>31 DEF Host
<1>3. CASE Fault
  <2>1. CASE FaultInByte
    BY <2>1 DEF FaultInByte
  <2>2. CASE FaultInCall
    BY <2>2 DEF FaultInCall, Returns, StopTimer
  <2>3. CASE FaultInRestore
    BY <2>3 DEF FaultInRestore, IdlePartly, Drive, AfterRecovery, StopTimer, Returns
  <2> QED BY <1>3, <2>1, <2>2, <2>3 DEF Fault
<1>4. CASE Printer
  <2>1. CASE TakeByte
    BY <2>1 DEF TakeByte
  <2>2. CASE Acknowledge
    BY <2>2 DEF Acknowledge, StrayIrq
  <2>3. CASE EndPulse
    BY <2>3 DEF EndPulse
  <2>4. CASE NotBusy
    BY <2>4 DEF NotBusy
  <2>5. CASE Offer
    BY <2>5 DEF Offer, StrayIrq
  <2>6. CASE Accepted
    BY <2>6 DEF Accepted
  <2>7. CASE AcknowledgeIrq
    BY <2>7 DEF AcknowledgeIrq
  <2> QED BY <1>4, <2>1, <2>2, <2>3, <2>4, <2>5, <2>6, <2>7 DEF Printer
<1>5. CASE Alarm
  BY <1>5 DEF Alarm, Interrupted, Goto
<1>6. CASE Sigterm
  BY <1>6 DEF Sigterm, Interrupted, Goto
<1>7. CASE UNCHANGED vars
  BY <1>7 DEF vars
<1> QED BY <1>1, <1>2, <1>3, <1>4, <1>5, <1>6, <1>7 DEF Next

(* PrinterInv: host and printer shake hands in turn.                       *)
LEMMA PrinterStep ==
  ASSUME TypeOK, CallInv, SignalInv, ResetInv, PrinterInv, [Next]_vars
  PROVE  PrinterInv'
<1> USE DEF TypeOK, CallInv, SignalInv, ResetInv, PrinterInv, Orderly, Shaking, ByteWrite, ByteRead
<1>1. CASE Client
  <2>1. CASE CallWrite
    BY <2>1 DEF CallWrite, Begin, StartTimer
  <2>2. CASE CallRead
    BY <2>2 DEF CallRead, Begin, StartTimer
  <2>3. CASE CallSync
    BY <2>3 DEF CallSync, Begin, StartTimer
  <2>4. CASE CallFlush
    BY <2>4 DEF CallFlush, Begin, StartTimer
  <2>5. CASE CallReset
    BY <2>5 DEF CallReset, Begin
  <2>6. CASE SetMode
    BY <2>6 DEF SetMode
  <2> QED BY <1>1, <2>1, <2>2, <2>3, <2>4, <2>5, <2>6 DEF Client
<1>2. CASE Host
  <2>1. CASE WaitReady
    BY <2>1 DEF WaitReady, Await, Late
  <2>2. CASE WriteData
    BY <2>2 DEF WriteData, Goto
  <2>3. CASE AssertStrobe
    BY <2>3 DEF AssertStrobe, Strobe, Drive, Goto
  <2>4. CASE WaitTaken
    BY <2>4 DEF WaitTaken, Await, Late
  <2>5. CASE ReleaseStrobe
    BY <2>5 DEF ReleaseStrobe, Strobe, Drive, Goto
  <2>6. CASE WaitDone
    BY <2>6 DEF WaitDone, Await, Late
  <2>7. CASE NextByte
    BY <2>7 DEF NextByte, StopTimer
  <2>8. CASE EnterSelect
    BY <2>8 DEF EnterSelect, Goto
  <2>9. CASE SelectFails
    BY <2>9 DEF SelectFails, Returns, StopTimer
  <2>10. CASE CountIrq
    BY <2>10 DEF CountIrq, Seen, Goto
  <2>11. CASE WaitIrq
    BY <2>11 DEF WaitIrq, Goto
  <2>12. CASE KernelWrite
    BY <2>12 DEF KernelWrite, KernelTakes, StopTimer
  <2>13. CASE KernelWriteLate
    BY <2>13 DEF KernelWriteLate, KernelTakes, Returns, StopTimer
  <2>14. CASE KernelWriteFails
    BY <2>14 DEF KernelWriteFails, Returns, StopTimer
  <2>15. CASE SyncWaits
    BY <2>15 DEF SyncWaits, Goto
  <2>16. CASE SyncEnds
    BY <2>16 DEF SyncEnds, StopTimer, Goto
  <2>17. CASE ClearIrq
    BY <2>17 DEF ClearIrq, Goto
  <2>18. CASE TurnIn
    BY <2>18 DEF TurnIn, StartTimer, Goto
  <2>19. CASE WaitIdle
    BY <2>19 DEF WaitIdle, Await, Late
  <2>20. CASE AskByte
    BY <2>20 DEF AskByte, Autofeed, Drive, Goto
  <2>21. CASE WaitAnswer
    BY <2>21 DEF WaitAnswer, Await, Late
  <2>22. CASE ReadData
    BY <2>22 DEF ReadData, Goto
  <2>23. CASE DropAsk
    BY <2>23 DEF DropAsk, Autofeed, Drive, Goto
  <2>24. CASE Confirm
    BY <2>24 DEF Confirm, Strobe, Drive, Goto
  <2>25. CASE WaitEnd
    BY <2>25 DEF WaitEnd, Await, Late
  <2>26. CASE NextAnswer
    BY <2>26 DEF NextAnswer, Drive
  <2>27. CASE TurnOut
    BY <2>27 DEF TurnOut, StopTimer, Goto
  <2>28. CASE Recover
    BY <2>28 DEF Recover, Drive, AfterRecovery, StopTimer
  <2>29. CASE IdleSignals
    BY <2>29 DEF IdleSignals, Drive, Goto
  <2>30. CASE AssertInit
    BY <2>30 DEF AssertInit, Drive, Goto
  <2>31. CASE ReleaseInit
    BY <2>31 DEF ReleaseInit, Drive, Goto
  <2> QED BY <1>2, <2>1, <2>2, <2>3, <2>4, <2>5, <2>6, <2>7, <2>8, <2>9, <2>10, <2>11,
     <2>12, <2>13, <2>14, <2>15, <2>16, <2>17, <2>18, <2>19, <2>20, <2>21, <2>22, <2>23,
     <2>24, <2>25, <2>26, <2>27, <2>28, <2>29, <2>30, <2>31 DEF Host
<1>3. CASE Fault
  <2>1. CASE FaultInByte
    BY <2>1 DEF FaultInByte
  <2>2. CASE FaultInCall
    BY <2>2 DEF FaultInCall, Returns, StopTimer
  <2>3. CASE FaultInRestore
    BY <2>3 DEF FaultInRestore, IdlePartly, Drive, AfterRecovery, StopTimer, Returns
  <2> QED BY <1>3, <2>1, <2>2, <2>3 DEF Fault
<1>4. CASE Printer
  <2>1. CASE TakeByte
    BY <2>1 DEF TakeByte
  <2>2. CASE Acknowledge
    BY <2>2 DEF Acknowledge, StrayIrq
  <2>3. CASE EndPulse
    BY <2>3 DEF EndPulse
  <2>4. CASE NotBusy
    BY <2>4 DEF NotBusy
  <2>5. CASE Offer
    BY <2>5 DEF Offer, StrayIrq
  <2>6. CASE Accepted
    BY <2>6 DEF Accepted
  <2>7. CASE AcknowledgeIrq
    BY <2>7 DEF AcknowledgeIrq
  <2> QED BY <1>4, <2>1, <2>2, <2>3, <2>4, <2>5, <2>6, <2>7 DEF Printer
<1>5. CASE Alarm
  BY <1>5 DEF Alarm, Interrupted, Goto
<1>6. CASE Sigterm
  BY <1>6 DEF Sigterm, Interrupted, Goto
<1>7. CASE UNCHANGED vars
  BY <1>7 DEF vars
<1> QED BY <1>1, <1>2, <1>3, <1>4, <1>5, <1>6, <1>7 DEF Next

(* GivenInv: a byte is read while it is offered, and confirmed once.       *)
LEMMA GivenStep ==
  ASSUME TypeOK, CallInv, SignalInv, ResetInv, PrinterInv, GivenInv, [Next]_vars
  PROVE  GivenInv'
<1> USE DEF TypeOK, CallInv, SignalInv, ResetInv, PrinterInv, GivenInv, Orderly, Shaking, ByteWrite, ByteRead
<1>1. CASE Client
  <2>1. CASE CallWrite
    BY <2>1 DEF CallWrite, Begin, StartTimer
  <2>2. CASE CallRead
    BY <2>2 DEF CallRead, Begin, StartTimer
  <2>3. CASE CallSync
    BY <2>3 DEF CallSync, Begin, StartTimer
  <2>4. CASE CallFlush
    BY <2>4 DEF CallFlush, Begin, StartTimer
  <2>5. CASE CallReset
    BY <2>5 DEF CallReset, Begin
  <2>6. CASE SetMode
    BY <2>6 DEF SetMode
  <2> QED BY <1>1, <2>1, <2>2, <2>3, <2>4, <2>5, <2>6 DEF Client
<1>2. CASE Host
  <2>1. CASE WaitReady
    BY <2>1 DEF WaitReady, Await, Late
  <2>2. CASE WriteData
    BY <2>2 DEF WriteData, Goto
  <2>3. CASE AssertStrobe
    BY <2>3 DEF AssertStrobe, Strobe, Drive, Goto
  <2>4. CASE WaitTaken
    BY <2>4 DEF WaitTaken, Await, Late
  <2>5. CASE ReleaseStrobe
    BY <2>5 DEF ReleaseStrobe, Strobe, Drive, Goto
  <2>6. CASE WaitDone
    BY <2>6 DEF WaitDone, Await, Late
  <2>7. CASE NextByte
    BY <2>7 DEF NextByte, StopTimer
  <2>8. CASE EnterSelect
    BY <2>8 DEF EnterSelect, Goto
  <2>9. CASE SelectFails
    BY <2>9 DEF SelectFails, Returns, StopTimer
  <2>10. CASE CountIrq
    BY <2>10 DEF CountIrq, Seen, Goto
  <2>11. CASE WaitIrq
    BY <2>11 DEF WaitIrq, Goto
  <2>12. CASE KernelWrite
    BY <2>12 DEF KernelWrite, KernelTakes, StopTimer
  <2>13. CASE KernelWriteLate
    BY <2>13 DEF KernelWriteLate, KernelTakes, Returns, StopTimer
  <2>14. CASE KernelWriteFails
    BY <2>14 DEF KernelWriteFails, Returns, StopTimer
  <2>15. CASE SyncWaits
    BY <2>15 DEF SyncWaits, Goto
  <2>16. CASE SyncEnds
    BY <2>16 DEF SyncEnds, StopTimer, Goto
  <2>17. CASE ClearIrq
    BY <2>17 DEF ClearIrq, Goto
  <2>18. CASE TurnIn
    BY <2>18 DEF TurnIn, StartTimer, Goto
  <2>19. CASE WaitIdle
    BY <2>19 DEF WaitIdle, Await, Late
  <2>20. CASE AskByte
    BY <2>20 DEF AskByte, Autofeed, Drive, Goto
  <2>21. CASE WaitAnswer
    BY <2>21 DEF WaitAnswer, Await, Late
  <2>22. CASE ReadData
    BY <2>22 DEF ReadData, Goto
  <2>23. CASE DropAsk
    BY <2>23 DEF DropAsk, Autofeed, Drive, Goto
  <2>24. CASE Confirm
    BY <2>24 DEF Confirm, Strobe, Drive, Goto
  <2>25. CASE WaitEnd
    BY <2>25 DEF WaitEnd, Await, Late
  <2>26. CASE NextAnswer
    BY <2>26 DEF NextAnswer, Drive
  <2>27. CASE TurnOut
    BY <2>27 DEF TurnOut, StopTimer, Goto
  <2>28. CASE Recover
    BY <2>28 DEF Recover, Drive, AfterRecovery, StopTimer
  <2>29. CASE IdleSignals
    BY <2>29 DEF IdleSignals, Drive, Goto
  <2>30. CASE AssertInit
    BY <2>30 DEF AssertInit, Drive, Goto
  <2>31. CASE ReleaseInit
    BY <2>31 DEF ReleaseInit, Drive, Goto
  <2> QED BY <1>2, <2>1, <2>2, <2>3, <2>4, <2>5, <2>6, <2>7, <2>8, <2>9, <2>10, <2>11,
     <2>12, <2>13, <2>14, <2>15, <2>16, <2>17, <2>18, <2>19, <2>20, <2>21, <2>22, <2>23,
     <2>24, <2>25, <2>26, <2>27, <2>28, <2>29, <2>30, <2>31 DEF Host
<1>3. CASE Fault
  <2>1. CASE FaultInByte
    BY <2>1 DEF FaultInByte
  <2>2. CASE FaultInCall
    BY <2>2 DEF FaultInCall, Returns, StopTimer
  <2>3. CASE FaultInRestore
    BY <2>3 DEF FaultInRestore, IdlePartly, Drive, AfterRecovery, StopTimer, Returns
  <2> QED BY <1>3, <2>1, <2>2, <2>3 DEF Fault
<1>4. CASE Printer
  <2>1. CASE TakeByte
    BY <2>1 DEF TakeByte
  <2>2. CASE Acknowledge
    BY <2>2 DEF Acknowledge, StrayIrq
  <2>3. CASE EndPulse
    BY <2>3 DEF EndPulse
  <2>4. CASE NotBusy
    BY <2>4 DEF NotBusy
  <2>5. CASE Offer
    BY <2>5 DEF Offer, StrayIrq
  <2>6. CASE Accepted
    BY <2>6 DEF Accepted
  <2>7. CASE AcknowledgeIrq
    BY <2>7 DEF AcknowledgeIrq
  <2> QED BY <1>4, <2>1, <2>2, <2>3, <2>4, <2>5, <2>6, <2>7 DEF Printer
<1>5. CASE Alarm
  BY <1>5 DEF Alarm, Interrupted, Goto
<1>6. CASE Sigterm
  BY <1>6 DEF Sigterm, Interrupted, Goto
<1>7. CASE UNCHANGED vars
  BY <1>7 DEF vars
<1> QED BY <1>1, <1>2, <1>3, <1>4, <1>5, <1>6, <1>7 DEF Next

(* What the kernel hands over are larger numbers than those before.        *)
LEMMA KernelAppends ==
  ASSUME TypeOK, NEW n \in Nat, KernelTakes(n),
         Increasing(received), \A i \in 1 .. Len(received) : received[i] <= sent
  PROVE  /\ Increasing(received')
         /\ \A i \in 1 .. Len(received') : received'[i] <= sent'
         /\ Range(received) \union (sent + 1 .. sent + n) \subseteq Range(received')
<1> DEFINE s == received
           b == sent
           t == received'
           u == [i \in 1 .. n |-> b + i]
<1>0. t = s \o u /\ sent' = b + n /\ s \in Seq(Nat) /\ b \in Nat
  BY DEF KernelTakes, TypeOK
<1>a. Increasing(s) /\ \A i \in 1 .. Len(s) : s[i] <= b
  OBVIOUS
<1> HIDE DEF s, b, t
<1>1. u \in Seq(Nat) /\ Len(u) = n
  BY <1>0
<1>2. t \in Seq(Nat) /\ Len(t) = Len(s) + n /\ DOMAIN t = 1 .. Len(s) + n
  BY <1>0, <1>1
<1>3. \A i \in 1 .. Len(s) : t[i] = s[i]
  BY <1>0, <1>1
<1>4. \A i \in Len(s) + 1 .. Len(s) + n : t[i] = b + (i - Len(s))
  BY <1>0, <1>1
<1> HIDE DEF u
<1>5. \A i \in 1 .. Len(s) + n : i \in 1 .. Len(s) \/ i \in Len(s) + 1 .. Len(s) + n
  BY <1>0
<1>6. \A i \in 1 .. Len(t) : t[i] <= b + n
  BY <1>0, <1>a, <1>2, <1>3, <1>4, <1>5
<1>7. Increasing(t)
  <2> SUFFICES ASSUME NEW j \in 1 .. Len(t)
               PROVE  t[j] > 0 /\ \A i \in 1 .. j - 1 : t[i] < t[j]
    BY DEF Increasing
  <2>1. CASE j \in 1 .. Len(s)
    BY <2>1, <1>0, <1>a, <1>3 DEF Increasing
  <2>2. CASE j \in Len(s) + 1 .. Len(s) + n
    <3>1. t[j] = b + (j - Len(s))
      BY <2>2, <1>4
    <3>2. ASSUME NEW i \in 1 .. j - 1 PROVE t[i] < t[j]
      <4>1. CASE i \in 1 .. Len(s)
        BY <4>1, <3>1, <2>2, <1>0, <1>a, <1>3
      <4>2. CASE i \in Len(s) + 1 .. Len(s) + n
        <5>1. t[i] = b + (i - Len(s))
          BY <4>2, <1>4
        <5> QED BY <5>1, <3>1, <2>2, <4>2, <1>0
      <4> QED BY <4>1, <4>2, <2>2, <1>0
    <3> QED BY <3>1, <3>2, <2>2, <1>0
  <2> QED BY <2>1, <2>2, <1>2, <1>5
<1>8. ASSUME NEW x \in Range(s) PROVE x \in Range(t)
  <2>1. PICK i \in 1 .. Len(s) : x = s[i]
    BY <1>0, <1>8 DEF Range
  <2>2. t[i] = x /\ i \in 1 .. Len(s) + n
    BY <2>1, <1>0, <1>3
  <2> QED BY <2>2, <1>2 DEF Range
<1>9. ASSUME NEW x \in b + 1 .. b + n PROVE x \in Range(t)
  <2>0. Len(s) + (x - b) \in Len(s) + 1 .. Len(s) + n
    BY <1>0
  <2>1. PICK i \in Len(s) + 1 .. Len(s) + n : i = Len(s) + (x - b)
    BY <2>0
  <2>2. t[i] = b + (i - Len(s))
    BY <1>4
  <2>3. b + (i - Len(s)) = x /\ i \in 1 .. Len(s) + n
    BY <2>1, <1>0
  <2> QED BY <2>2, <2>3, <1>2 DEF Range
<1> QED BY <1>0, <1>6, <1>7, <1>8, <1>9 DEF s, b, t

(* An ascending sequence stays one when a larger number follows.           *)
LEMMA AppendedOne ==
  ASSUME NEW s \in Seq(Nat), NEW x \in Nat, NEW t, t = Append(s, x),
         Increasing(s), x > 0, \A i \in 1 .. Len(s) : s[i] < x
  PROVE  /\ Increasing(t)
         /\ \A i \in 1 .. Len(t) : t[i] <= x
         /\ Range(s) \union {x} \subseteq Range(t)
<1>1. t \in Seq(Nat) /\ Len(t) = Len(s) + 1 /\ t[Len(s) + 1] = x
  OBVIOUS
<1>2. \A i \in 1 .. Len(s) : t[i] = s[i]
  OBVIOUS
<1>3. Increasing(t)
  BY <1>1, <1>2 DEF Increasing
<1>4. \A i \in 1 .. Len(t) : t[i] <= x
  BY <1>1, <1>2
<1>5. Range(s) \union {x} \subseteq Range(t)
  BY <1>1, <1>2 DEF Range
<1> QED BY <1>3, <1>4, <1>5

(* TakenInv: a byte is taken while STROBE offers it, and taken once.       *)
LEMMA TakenStep ==
  ASSUME TypeOK, CallInv, SignalInv, ResetInv, PrinterInv, TakenInv, [Next]_vars
  PROVE  TakenInv'
<1> USE DEF TypeOK, CallInv, SignalInv, ResetInv, PrinterInv, TakenInv, Orderly, Shaking, ByteWrite, ByteRead
<1>1. CASE Client
  <2>1. CASE CallWrite
    BY <2>1 DEF CallWrite, Begin, StartTimer
  <2>2. CASE CallRead
    BY <2>2 DEF CallRead, Begin, StartTimer
  <2>3. CASE CallSync
    BY <2>3 DEF CallSync, Begin, StartTimer
  <2>4. CASE CallFlush
    BY <2>4 DEF CallFlush, Begin, StartTimer
  <2>5. CASE CallReset
    BY <2>5 DEF CallReset, Begin
  <2>6. CASE SetMode
    BY <2>6 DEF SetMode
  <2> QED BY <1>1, <2>1, <2>2, <2>3, <2>4, <2>5, <2>6 DEF Client
<1>2. CASE Host
  <2>1. CASE WaitReady
    BY <2>1 DEF WaitReady, Await, Late
  <2>2. CASE WriteData
    BY <2>2 DEF WriteData, Goto
  <2>3. CASE AssertStrobe
    BY <2>3 DEF AssertStrobe, Strobe, Drive, Goto
  <2>4. CASE WaitTaken
    BY <2>4 DEF WaitTaken, Await, Late
  <2>5. CASE ReleaseStrobe
    BY <2>5 DEF ReleaseStrobe, Strobe, Drive, Goto
  <2>6. CASE WaitDone
    BY <2>6 DEF WaitDone, Await, Late
  <2>7. CASE NextByte
    BY <2>7 DEF NextByte, StopTimer
  <2>8. CASE EnterSelect
    BY <2>8 DEF EnterSelect, Goto
  <2>9. CASE SelectFails
    BY <2>9 DEF SelectFails, Returns, StopTimer
  <2>10. CASE CountIrq
    BY <2>10 DEF CountIrq, Seen, Goto
  <2>11. CASE WaitIrq
    BY <2>11 DEF WaitIrq, Goto
  <2>12. CASE KernelWrite
    <3>1. PICK n \in 0 .. left : KernelTakes(n) /\ written' \subseteq written \union (sent + 1 .. sent + n)
      BY <2>12 DEF KernelWrite
    <3> HAVE Orderly'
    <3>2. Orderly
      BY <3>1 DEF KernelTakes, Orderly
    <3>3. /\ Increasing(received')
          /\ \A i \in 1 .. Len(received') : received'[i] <= sent'
          /\ Range(received) \union (sent + 1 .. sent + n) \subseteq Range(received')
      <4>1. n \in Nat
        BY DEF TypeOK
      <4>2. Increasing(received) /\ \A i \in 1 .. Len(received) : received[i] <= sent
        BY <3>2 DEF TakenInv
      <4> QED BY <3>1, <4>1, <4>2, KernelAppends
    <3>4. written' \subseteq Range(received')
      BY <3>1, <3>2, <3>3 DEF TakenInv
    <3>5. ~edge'
      BY <2>12, <3>1, <3>2 DEF KernelWrite, KernelTakes, SignalInv, Orderly
    <3>6. pc' \in {"idle", "wIrq"}
      BY <2>12 DEF KernelWrite, Returns
    <3> QED BY <3>3, <3>4, <3>5, <3>6
  <2>13. CASE KernelWriteLate
    <3>1. PICK n \in 0 .. left : KernelTakes(n) /\ written' \subseteq written \union (sent + 1 .. sent + n)
      BY <2>13 DEF KernelWriteLate
    <3> HAVE Orderly'
    <3>2. Orderly
      BY <3>1 DEF KernelTakes, Orderly
    <3>3. /\ Increasing(received')
          /\ \A i \in 1 .. Len(received') : received'[i] <= sent'
          /\ Range(received) \union (sent + 1 .. sent + n) \subseteq Range(received')
      <4>1. n \in Nat
        BY DEF TypeOK
      <4>2. Increasing(received) /\ \A i \in 1 .. Len(received) : received[i] <= sent
        BY <3>2 DEF TakenInv
      <4> QED BY <3>1, <4>1, <4>2, KernelAppends
    <3>4. written' \subseteq Range(received')
      BY <3>1, <3>2, <3>3 DEF TakenInv
    <3>5. ~edge'
      BY <2>13, <3>1, <3>2 DEF KernelWriteLate, KernelTakes, SignalInv, Orderly
    <3>6. pc' \in {"idle", "wIrq"}
      BY <2>13 DEF KernelWriteLate, Returns
    <3> QED BY <3>3, <3>4, <3>5, <3>6
  <2>14. CASE KernelWriteFails
    BY <2>14 DEF KernelWriteFails, Returns, StopTimer
  <2>15. CASE SyncWaits
    BY <2>15 DEF SyncWaits, Goto
  <2>16. CASE SyncEnds
    BY <2>16 DEF SyncEnds, StopTimer, Goto
  <2>17. CASE ClearIrq
    BY <2>17 DEF ClearIrq, Goto
  <2>18. CASE TurnIn
    BY <2>18 DEF TurnIn, StartTimer, Goto
  <2>19. CASE WaitIdle
    BY <2>19 DEF WaitIdle, Await, Late
  <2>20. CASE AskByte
    BY <2>20 DEF AskByte, Autofeed, Drive, Goto
  <2>21. CASE WaitAnswer
    BY <2>21 DEF WaitAnswer, Await, Late
  <2>22. CASE ReadData
    BY <2>22 DEF ReadData, Goto
  <2>23. CASE DropAsk
    BY <2>23 DEF DropAsk, Autofeed, Drive, Goto
  <2>24. CASE Confirm
    BY <2>24 DEF Confirm, Strobe, Drive, Goto
  <2>25. CASE WaitEnd
    BY <2>25 DEF WaitEnd, Await, Late
  <2>26. CASE NextAnswer
    BY <2>26 DEF NextAnswer, Drive
  <2>27. CASE TurnOut
    BY <2>27 DEF TurnOut, StopTimer, Goto
  <2>28. CASE Recover
    BY <2>28 DEF Recover, Drive, AfterRecovery, StopTimer
  <2>29. CASE IdleSignals
    BY <2>29 DEF IdleSignals, Drive, Goto
  <2>30. CASE AssertInit
    BY <2>30 DEF AssertInit, Drive, Goto, Increasing, Range
  <2>31. CASE ReleaseInit
    BY <2>31 DEF ReleaseInit, Drive, Goto, Increasing, Range
  <2> QED BY <1>2, <2>1, <2>2, <2>3, <2>4, <2>5, <2>6, <2>7, <2>8, <2>9, <2>10, <2>11,
     <2>12, <2>13, <2>14, <2>15, <2>16, <2>17, <2>18, <2>19, <2>20, <2>21, <2>22, <2>23,
     <2>24, <2>25, <2>26, <2>27, <2>28, <2>29, <2>30, <2>31 DEF Host
<1>3. CASE Fault
  <2>1. CASE FaultInByte
    BY <2>1 DEF FaultInByte
  <2>2. CASE FaultInCall
    BY <2>2 DEF FaultInCall, Returns, StopTimer
  <2>3. CASE FaultInRestore
    BY <2>3 DEF FaultInRestore, IdlePartly, Drive, AfterRecovery, StopTimer, Returns
  <2> QED BY <1>3, <2>1, <2>2, <2>3 DEF Fault
<1>4. CASE Printer
  <2>1. CASE TakeByte
    <3> HAVE Orderly'
    <3>1. Orderly /\ edge /\ ~offering /\ call = "write" /\ call' = "write" /\ edge' = FALSE /\ pc' = pc
      BY <2>1 DEF TakeByte, Orderly, PrinterInv, CallInv, SignalInv, ByteWrite, ByteRead
    <3>2. /\ wire = sent /\ sent > 0 /\ dir = "out"
          /\ \A i \in 1 .. Len(received) : received[i] < sent
          /\ Increasing(received) /\ written \subseteq Range(received)
      BY <3>1 DEF TakenInv
    <3>3. received' = Append(received, sent) /\ UNCHANGED <<sent, written>>
      BY <2>1, <3>2 DEF TakeByte
    <3>4. /\ Increasing(received')
          /\ \A i \in 1 .. Len(received') : received'[i] <= sent
          /\ Range(received) \union {sent} \subseteq Range(received')
      <4>1. received \in Seq(Nat) /\ sent \in Nat
        BY DEF TypeOK
      <4> QED BY <4>1, <3>2, <3>3, AppendedOne
    <3>5. pc # "wStrobe"
      BY <3>1 DEF SignalInv, Orderly
    <3> QED BY <3>1, <3>2, <3>3, <3>4, <3>5 DEF TakenInv
  <2>2. CASE Acknowledge
    BY <2>2 DEF Acknowledge, StrayIrq
  <2>3. CASE EndPulse
    BY <2>3 DEF EndPulse
  <2>4. CASE NotBusy
    BY <2>4 DEF NotBusy
  <2>5. CASE Offer
    BY <2>5 DEF Offer, StrayIrq
  <2>6. CASE Accepted
    BY <2>6 DEF Accepted
  <2>7. CASE AcknowledgeIrq
    BY <2>7 DEF AcknowledgeIrq
  <2> QED BY <1>4, <2>1, <2>2, <2>3, <2>4, <2>5, <2>6, <2>7 DEF Printer
<1>5. CASE Alarm
  BY <1>5 DEF Alarm, Interrupted, Goto
<1>6. CASE Sigterm
  BY <1>6 DEF Sigterm, Interrupted, Goto
<1>7. CASE UNCHANGED vars
  BY <1>7 DEF vars
<1> QED BY <1>1, <1>2, <1>3, <1>4, <1>5, <1>6, <1>7 DEF Next

LEMMA InitInv == Init => IInv
<1> SUFFICES ASSUME Init PROVE IInv
  OBVIOUS
<1>1. PcType /\ NumberType /\ FlagType
  <2>1. PcType
    BY DEF Init, PcType
  <2>2. NumberType
    BY DEF Init, NumberType
  <2>3. FlagType
    BY DEF Init, FlagType
  <2> QED BY <2>1, <2>2, <2>3
<1>2. CallInv /\ SignalInv /\ ResetInv
  BY DEF Init, CallInv, SignalInv, ResetInv, ByteWrite, ByteRead
<1>3. SyncInv
  BY DEF Init, SyncInv, Synchronised
<1>4. PrinterInv
  BY DEF Init, PrinterInv, Shaking
<1>5. TakenInv /\ GivenInv
  BY DEF Init, TakenInv, GivenInv, Increasing, Range
<1> QED BY <1>1, <1>2, <1>3, <1>4, <1>5 DEF IInv, TypeOK, PcType, NumberType, FlagType

LEMMA Inductive == Spec => []IInv
<1>1. IInv /\ [Next]_vars => IInv'
  BY TypeStep, CallStep, SignalStep, SyncStep, ResetStep, PrinterStep, TakenStep, GivenStep DEF IInv
<1> QED BY InitInv, <1>1, PTL DEF Spec

(* Every variable of the transport keeps its type; irq_left is never       *)
(* negative, whatever the kernel counts.                                   *)
THEOREM TypeCorrect == Spec => []TypeOK
<1>1. IInv => TypeOK
  BY DEF IInv
<1> QED BY Inductive, <1>1, PTL

(* Every end of a call leaves the port quiet.                              *)
THEOREM SignalsReleased == Spec => []Quiescent
<1>1. IInv => Quiescent
  BY DEF IInv, TypeOK, SignalInv, Quiescent, ByteRead
<1> QED BY Inductive, <1>1, PTL

(* When par_sync returns without error, as many bytes are outstanding at   *)
(* most as interrupts of other bytes were mistaken for theirs; none where  *)
(* none was read, written in polling mode or given up since the count was  *)
(* last cleared.                                                           *)
THEOREM SyncComplete == Spec => []Synchronised
<1>1. IInv => Synchronised
  BY DEF IInv, SyncInv
<1> QED BY Inductive, <1>1, PTL

(* Host and printer do not drive the data lines together.                  *)
THEOREM DataLinesShared == Spec => []OneDriver
<1>1. IInv => OneDriver
  BY DEF IInv, CallInv, SignalInv, PrinterInv, OneDriver, Orderly, Shaking, ByteRead, TypeOK
<1> QED BY Inductive, <1>1, PTL

(* Bytes counted as written were taken, each once and in order.            *)
THEOREM BytesWrittenOnce == Spec => []WrittenOnce
<1>1. IInv => WrittenOnce
  BY DEF IInv, TakenInv, WrittenOnce
<1> QED BY Inductive, <1>1, PTL

(* Bytes read were given, each once and in order, none skipped.            *)
THEOREM BytesReadOnce == Spec => []ReadOnce
<1>1. ASSUME IInv, Orderly PROVE Increasing(got)
  <2>1. got \in Seq(Nat) /\ \A i \in 1 .. Len(got) : got[i] = i
    BY <1>1 DEF IInv, TypeOK, GivenInv
  <2> QED BY <2>1 DEF Increasing
<1>2. ASSUME IInv, Orderly, errnum = "OK", pc = "idle" PROVE got = given
  <2>1. got \in Seq(Nat) /\ given \in Seq(Nat)
    BY <1>2 DEF IInv, TypeOK
  <2>2. /\ Len(got) = Len(given)
        /\ \A i \in 1 .. Len(got) : got[i] = i
        /\ \A i \in 1 .. Len(given) : given[i] = i
    BY <1>2 DEF IInv, GivenInv
  <2> QED BY <2>1, <2>2
<1>3. IInv => ReadOnce
  BY <1>1, <1>2 DEF ReadOnce
<1> QED BY Inductive, <1>3, PTL

=============================================================================
