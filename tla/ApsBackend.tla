----------------------------- MODULE ApsBackend -----------------------------
(***************************************************************************)
(* The CUPS backend of the APS driver (src/src/cups/aps.c): the process    *)
(* that reads the blocks rastertoaps or texttoaps wrote to its standard    *)
(* input and drives the printer through the libaps port functions.         *)
(*                                                                         *)
(* main() runs the chain setup, wait, print, wait, flush USB, finish; each *)
(* state function returns APS_OK or a negative code, and a timeout code    *)
(* makes main() poll the printer once more and reset it.  Variable phase   *)
(* is the state function main() is in ("recover" after a failure, "done"   *)
(* after state_finish succeeded), pc the next library call inside it.  A   *)
(* library call that blocks is a step of its own, so the printer, the      *)
(* filter and the SIGTERM of a cancelled job interleave with the calls.    *)
(*                                                                         *)
(* The printer and the line to it are external: they are modelled from how *)
(* aps.c uses them (commands are taken in order, except the real-time      *)
(* status query, which is answered at any time; answers are a byte         *)
(* stream).  Error codes other than the two timeouts that main() tells     *)
(* apart are one value, IO_ERROR.                                          *)
(***************************************************************************)
EXTENDS Naturals, Sequences, SequencesExt

CONSTANTS
  PortType,    \* the transport of the port: "serial", "parallel", "usb", "ethernet"
  Records,     \* number of blocks the filter writes for a job
  RawJob,      \* TRUE if the first size header of the job is -1 (texttoaps)
  CheckNeop,   \* option checkneop
  HasTimeout,  \* TRUE if option prtimeout is not 0
  IrqMode,     \* TRUE if a parallel port waits for interrupts (option parmode)
  StatusLen,   \* bytes of a status answer: 1 (MRS, HRS), 3 (KCP), 4 (HSP)
  PrSetting,   \* serial setting used for printing (prbaudrate, prhandshake)
  KernelCap,   \* bound: messages in the kernel output buffer of a serial port
  PrinterCap,  \* bound: messages in the printer's input buffer
  InputCap,    \* bound: answer bytes waiting for the host
  PipeCap,     \* bound: blocks in the pipe from the filter
  MaxJobs,     \* bound: backend processes run one after the other
  MaxStops     \* bound: times the printer runs out of paper

Settings == {"default", "printing"}

ASSUME ConstantsAssumption ==
  /\ PortType \in {"serial", "parallel", "usb", "ethernet"}
  /\ RawJob \in BOOLEAN /\ CheckNeop \in BOOLEAN
  /\ HasTimeout \in BOOLEAN /\ IrqMode \in BOOLEAN
  /\ Records \in Nat \ {0} /\ StatusLen \in Nat \ {0}
  /\ PrSetting \in Settings
  /\ KernelCap \in Nat \ {0} /\ PrinterCap \in Nat \ {0}
  /\ InputCap \in Nat /\ InputCap >= StatusLen /\ PipeCap \in Nat \ {0}
  /\ MaxJobs \in Nat \ {0} /\ MaxStops \in Nat

VARIABLES
  pc,         \* next library call of the backend
  phase,      \* state function main() is in
  errnum,     \* errnum of main()
  expired,    \* now>timeout in state_wait
  ready,      \* printer_ready
  got,        \* blocks read from the pipe
  sent,       \* blocks handed to the transport
  port,       \* the port structure: "none", "open", "closed", "freed"
  exitCode,   \* exit status of the process, "none" while it runs
  cancel,     \* cancel_flag
  hostSet,    \* serial setting of the host side of the line
  outq,       \* written by the host, not yet on the line (serial only)
  inq,        \* answer bytes not yet read by the host
  prSet,      \* serial setting of the printer
  pbuf,       \* input buffer of the printer
  rt,         \* real-time status queries the printer has not answered
  printed,    \* blocks the printer has printed
  paper,      \* the printer can print (paper loaded, head down, on line)
  stops,      \* times it stopped being able to
  fpos,       \* blocks the filter has written to the pipe
  eof,        \* the filter has closed the pipe
  jobs,       \* backend processes started so far
  lost,       \* history: blocks dropped on their way to the printer
  genuine,    \* history: the last decoded status bytes were a status answer
  tainted     \* history: an earlier job ended without state_finish

vars == <<pc, phase, errnum, expired, ready, got, sent, port, exitCode, cancel,
          hostSet, outq, inq, prSet, pbuf, rt, printed, paper, stops, fpos,
          eof, jobs, lost, genuine, tainted>>

host    == <<got, sent>>
life    == <<port, exitCode, jobs, tainted>>
line    == <<hostSet, outq, inq>>
printer == <<prSet, pbuf, rt, printed>>
outside == <<paper, stops, fpos, eof, cancel>>
status  == <<ready, genuine>>

-----------------------------------------------------------------------------
(* Operators whose name ends in _bug are deliberate faults: none is used   *)
(* by the specification, each replaces the operator of the same name to    *)
(* show that a property notices the fault.                                 *)

-----------------------------------------------------------------------------
(* Messages and answers.                                                   *)

Timeouts == {"WRITE_TIMEOUT", "READ_TIMEOUT"}
Errors   == Timeouts \cup {"IO_ERROR"}

Message == [kind : {"cfg", "data", "neop", "status", "reset"},
            set  : Settings,
            rec  : 0 .. Records]

Cfg(s)   == [kind |-> "cfg",  set |-> s, rec |-> 0]
Data(r)  == [kind |-> "data", set |-> "default", rec |-> r]
Query(k) == [kind |-> k, set |-> "default", rec |-> 0]

Byte == [kind : {"status", "neop"}, ready : BOOLEAN, pos : 1 .. StatusLen]

StatusBytes(r) == [i \in 1 .. StatusLen |-> [kind |-> "status", ready |-> r, pos |-> i]]
NeopByte       == [kind |-> "neop", ready |-> FALSE, pos |-> 1]

(* The blocks among the messages of queue q.                               *)
DataIn(q) == {q[i].rec : i \in {j \in DOMAIN q : q[j].kind = "data"}}

-----------------------------------------------------------------------------
(* main(): a state function succeeds, fails, or the process ends.          *)

Following_bug == [setup |-> "wait", wait |-> "print", print |-> "wait2",
                  wait2 |-> "finish", waitUsb |-> "finish", finish |-> "done"]

Following == [setup |-> "wait", wait |-> "print", print |-> "wait2",
              wait2 |-> "waitUsb", waitUsb |-> "finish", finish |-> "done"]

Entry == [wait |-> "poll", print |-> "header", wait2 |-> "poll",
          waitUsb |-> "usbQuery", finish |-> "poll", done |-> "close"]

Goto(l) == pc' = l /\ UNCHANGED <<phase, errnum, expired>>

Succeed ==
  /\ phase' = Following[phase]
  /\ pc' = Entry[Following[phase]]
  /\ expired' = FALSE
  /\ UNCHANGED errnum

Fail(e) ==
  /\ errnum' = e
  /\ phase' = "recover"
  /\ pc' = IF e \in Timeouts THEN "poll" ELSE "close"
  /\ UNCHANGED expired

(* error(): a message on stderr, then exit(1); the kernel closes the port. *)
Quit ==
  /\ exitCode' = "one"
  /\ pc' = "exited"
  /\ UNCHANGED <<phase, errnum, expired>>

(* aps_write of one message: into the kernel buffer of a serial port, or   *)
(* straight into the printer's input buffer.                               *)
Takes == IF PortType = "serial" THEN Len(outq) < KernelCap ELSE Len(pbuf) < PrinterCap

Write(m) ==
  /\ Takes
  /\ IF PortType = "serial" THEN outq' = Append(outq, m) /\ UNCHANGED pbuf
                            ELSE pbuf' = Append(pbuf, m) /\ UNCHANGED outq

(* aps_write that returns an error: the message may have gone all the same. *)
WriteFails(m) == UNCHANGED <<outq, pbuf>> \/ Write(m)

(* tcflush(TCIOFLUSH): both directions of the serial port are dropped.     *)
Flush ==
  /\ inq' = <<>>
  /\ lost' = lost \cup DataIn(outq)

(* Frames: a call that only moves control, one that also writes a message, *)
(* one that also reads answers.                                            *)
Quiet  == UNCHANGED <<host, status, outside, life, line, printer, lost>>
Writes == UNCHANGED <<host, status, outside, life, hostSet, inq, prSet, rt, printed, lost>>
Reads  == UNCHANGED <<host, outside, life, hostSet, outq, printer, lost>>

(* What a write and a sync of the serial transport fail with.              *)
WriteErrors == {"WRITE_TIMEOUT", "IO_ERROR"}

-----------------------------------------------------------------------------
(* main(): create and open the port.                                       *)
Open ==
  /\ pc = "start"
  /\ \/ /\ port' = "open"
        /\ hostSet' = "default"
        /\ inq' = IF PortType \in {"serial", "ethernet"} THEN <<>> ELSE inq
        /\ Goto("configure")
        /\ UNCHANGED exitCode
     \/ Quit /\ UNCHANGED <<port, hostSet, inq>>
  /\ UNCHANGED <<host, status, outside, jobs, tainted, outq, printer, lost>>

-----------------------------------------------------------------------------
Target_bug == PrSetting

(* setup_printer and setup_defaults: they differ in the setting they apply. *)
(* There may be no command for the setting; then nothing is written.       *)
Target == IF phase = "setup" THEN PrSetting ELSE "default"

Configure ==
  /\ pc = "configure"
  /\ \/ PortType = "serial" /\ Write(Cfg(Target)) /\ Goto("cfgSync")
     \/ /\ PortType = "serial" /\ WriteFails(Cfg(Target))
        /\ \E e \in WriteErrors : Fail(e)
     \/ /\ PortType = "parallel"
        /\ Fail("IO_ERROR") /\ UNCHANGED <<outq, pbuf>>
     \/ /\ PortType # "serial"
        /\ Succeed /\ UNCHANGED <<outq, pbuf>>
  /\ Writes

ConfigureSync_bug == pc = "cfgSync" /\ Goto("setHost") /\ Quiet

(* aps_sync: returns once the kernel buffer is empty.                      *)
ConfigureSync ==
  /\ pc = "cfgSync"
  /\ \/ outq = <<>> /\ Goto("setHost")
     \/ \E e \in WriteErrors : Fail(e)
  /\ Quiet

(* aps_serial_set_baudrate, then aps_serial_set_handshake.                 *)
SetHost ==
  /\ pc = "setHost"
  /\ \/ hostSet' = Target /\ Succeed
     \/ hostSet' \in {hostSet, Target} /\ Fail("IO_ERROR")
  /\ UNCHANGED <<host, status, outside, life, outq, inq, printer, lost>>

-----------------------------------------------------------------------------
(* poll_status: query the status, decode it, optionally query the NEOP     *)
(* (near end of paper) sensor.  Where it returns to: state_wait looks at   *)
(* the flag, state_finish restores the defaults, main() resets the printer. *)
AfterPoll == [wait |-> "polled", wait2 |-> "polled", finish |-> "configure", recover |-> "reset"]

PollFails(e) == IF phase = "recover" THEN Goto("reset") ELSE Fail(e)

AfterStatus == Goto(IF CheckNeop THEN "neopWrite" ELSE AfterPoll[phase])

(* aps_decode_status: the flags mean something only if the bytes are one   *)
(* status answer; a NEOP byte in the first place decodes as off line.      *)
Genuine(bs) == \A i \in DOMAIN bs : bs[i].kind = "status" /\ bs[i].pos = i
Decoded_bug(bs) == {~bs[1].ready}

Decoded(bs) == IF Genuine(bs) THEN {bs[1].ready}
               ELSE IF bs[1].kind = "neop" THEN {FALSE} ELSE BOOLEAN

(* aps_write_rt on a serial port, up to the wait for its transmission: the *)
(* pending input and output are flushed first.  The flush may cut an       *)
(* answer to an earlier query in two: its second half comes after it.      *)
Discard ==
  \/ Flush /\ UNCHANGED rt
  \/ /\ rt > 0 /\ rt' = rt - 1
     /\ \E r \in BOOLEAN, k \in 2 .. StatusLen : inq' = SubSeq(StatusBytes(r), k, StatusLen)
     /\ lost' = lost \cup DataIn(outq)

PollSerial ==
  /\ pc = "poll" /\ PortType = "serial"
  /\ ready' = FALSE
  /\ \/ Discard /\ outq' = <<Query("status")>> /\ Goto("pollSync")
     \/ /\ \/ UNCHANGED <<inq, outq, rt, lost>>
           \/ Discard /\ outq' \in {<<>>, <<Query("status")>>}
        /\ \E e \in WriteErrors : PollFails(e)
  /\ UNCHANGED <<host, outside, life, hostSet, prSet, pbuf, printed, genuine>>

PollSync ==
  /\ pc = "pollSync"
  /\ \/ outq = <<>> /\ Goto("pollRead")
     \/ \E e \in WriteErrors : PollFails(e)
  /\ Quiet

(* Parallel and Ethernet ports have no write_rt: aps_write_rt is aps_write. *)
PollOther ==
  /\ pc = "poll" /\ PortType \in {"parallel", "ethernet"}
  /\ ready' = FALSE
  /\ \/ rt < PrinterCap /\ rt' = rt + 1 /\ Goto("pollRead")
     \/ /\ rt' \in {rt, rt + 1} /\ rt' <= PrinterCap
        /\ \E e \in WriteErrors : PollFails(e)
  /\ UNCHANGED <<host, outside, life, line, prSet, pbuf, printed, lost, genuine>>

(* aps_read of the answer: it succeeds, times out with the bytes it got,   *)
(* or fails.  printer_ready is computed at the end of poll_status, but     *)
(* nothing reads it in between.                                            *)
PollRead ==
  /\ pc = "pollRead"
  /\ \/ /\ Len(inq) >= StatusLen
        /\ LET answer == SubSeq(inq, 1, StatusLen) IN
             ready' \in Decoded(answer) /\ genuine' = Genuine(answer)
        /\ inq' = SubSeq(inq, StatusLen + 1, Len(inq))
        /\ AfterStatus
     \/ /\ Len(inq) < StatusLen
        /\ inq' = <<>> /\ PollFails("READ_TIMEOUT") /\ UNCHANGED status
     \/ PollFails("IO_ERROR") /\ UNCHANGED <<inq, status>>
  /\ Reads

(* USB: the status is a control request, outside the data pipes.  The      *)
(* printer reports itself ready if it can print, unless it is printing.    *)
HasData(q) == \E i \in DOMAIN q : q[i].kind = "data"
Reported   == IF ~paper THEN {FALSE} ELSE IF HasData(pbuf) THEN BOOLEAN ELSE {TRUE}

PollUsb ==
  /\ pc = "poll" /\ PortType = "usb"
  /\ \/ ready' \in Reported /\ genuine' = TRUE /\ AfterStatus
     \/ ready' = FALSE /\ UNCHANGED genuine /\ PollFails("IO_ERROR")
  /\ Reads /\ UNCHANGED inq

(* poll_neop_status: whatever fails here is not fatal.                     *)
NeopWrite ==
  /\ pc = "neopWrite"
  /\ \/ Write(Query("neop")) /\ Goto("neopRead")
     \/ WriteFails(Query("neop")) /\ Goto(AfterPoll[phase])
  /\ Writes

NeopRead ==
  /\ pc = "neopRead"
  /\ \/ inq # <<>> /\ inq' = Tail(inq)
     \/ UNCHANGED inq
  /\ Goto(AfterPoll[phase])
  /\ Reads /\ UNCHANGED status

-----------------------------------------------------------------------------
Wait_bug ==
  /\ pc = "polled" /\ IF ready THEN Succeed ELSE Goto("poll")
  /\ Quiet

WaitTimed_bug ==
  /\ pc = "polled" /\ IF HasTimeout /\ ready THEN Succeed ELSE Goto("poll")
  /\ Quiet

(* state_wait: after each poll, the time is looked at first, the flag of   *)
(* the poll only if there is time left.                                    *)
Wait ==
  /\ pc = "polled"
  /\ \/ HasTimeout /\ expired /\ Fail("READ_TIMEOUT")
     \/ ~(HasTimeout /\ expired) /\ ready /\ Succeed
     \/ ~(HasTimeout /\ expired) /\ ~ready /\ Goto("poll")
  /\ Quiet

(* time() passes the deadline computed when state_wait was entered.        *)
DeadlinePasses ==
  /\ phase \in {"wait", "wait2"} /\ pc # "exited" /\ HasTimeout
  /\ ~expired /\ expired' = TRUE
  /\ UNCHANGED <<pc, phase, errnum>> /\ Quiet

-----------------------------------------------------------------------------
(* state_print.  Block mode collects the blocks of the job until the filter *)
(* closes the pipe or the job is cancelled, then writes them all; raw mode *)
(* (write_raw) copies until end of file and never looks at cancel_flag.    *)
PipeHasBlock_bug == got <= fpos
PipeAtEnd_bug    == got = fpos

PipeHasBlock == got < fpos
PipeAtEnd    == got = fpos /\ eof

(* The first size header: without one there is nothing to print.           *)
FirstHeader ==
  /\ pc = "header"
  /\ \/ PipeHasBlock /\ Goto(IF RawJob THEN "rawRead" ELSE "body")
     \/ PipeAtEnd /\ Fail("IO_ERROR")
  /\ Quiet

(* while (!cancel_flag): read the block whose size is known.  It fails on  *)
(* a short read, and before the first block if there is no memory.         *)
ReadBlock ==
  /\ pc = "body"
  /\ \/ ~cancel /\ got' = got + 1 /\ Goto("nextHeader")
     \/ cancel /\ UNCHANGED got /\ Goto("write")
     \/ (~cancel \/ got = 0) /\ UNCHANGED got /\ Fail("IO_ERROR")
  /\ UNCHANGED <<sent, status, outside, life, line, printer, lost>>

NextHeader ==
  /\ pc = "nextHeader"
  /\ \/ PipeHasBlock /\ Goto("body")
     \/ PipeAtEnd /\ Goto("write")
  /\ Quiet

RawRead ==
  /\ pc = "rawRead"
  /\ \/ PipeHasBlock /\ got' = got + 1 /\ Goto("write")
     \/ PipeAtEnd /\ UNCHANGED got /\ Goto("printSync")
  /\ UNCHANGED <<sent, status, outside, life, line, printer, lost>>

WriteFailure_bug == Goto(IF RawJob THEN "rawRead" ELSE "printSync")

(* aps_write takes the blocks one after the other.  Its timeout is         *)
(* prtimeout: 0 waits for ever.                                            *)
WriteFailure == (HasTimeout /\ Fail("WRITE_TIMEOUT")) \/ Fail("IO_ERROR")

WriteBlocks ==
  /\ pc = "write"
  /\ \/ /\ sent < got /\ sent' = sent + 1
        /\ Write(Data(sent + 1))
        /\ UNCHANGED <<pc, phase, errnum, expired>>
     \/ /\ sent = got
        /\ Goto(IF RawJob THEN "rawRead" ELSE "printSync")
        /\ UNCHANGED <<sent, outq, pbuf>>
     \/ WriteFailure /\ UNCHANGED <<sent, outq, pbuf>>
  /\ UNCHANGED <<got, status, outside, life, hostSet, inq, prSet, rt, printed, lost>>

PrintSync_bug == pc = "printSync" /\ Succeed /\ Quiet

PrintSync ==
  /\ pc = "printSync"
  /\ \/ outq = <<>> /\ Succeed
     \/ PortType \in {"serial", "parallel"} /\ WriteFailure
  /\ Quiet

-----------------------------------------------------------------------------
(* state_wait_usb: a status query in the data pipe, and its answer.        *)
WaitUsbQuery ==
  /\ pc = "usbQuery"
  /\ \/ PortType # "usb" /\ Succeed /\ UNCHANGED <<outq, pbuf>>
     \/ PortType = "usb" /\ Write(Query("status")) /\ Goto("usbRead")
     \/ /\ PortType = "usb" /\ WriteFails(Query("status"))
        /\ \E e \in WriteErrors : Fail(e)
  /\ Writes

WaitUsbAnswer ==
  /\ pc = "usbRead"
  /\ \/ Len(inq) >= StatusLen /\ inq' = SubSeq(inq, StatusLen + 1, Len(inq)) /\ Succeed
     \/ Len(inq) < StatusLen /\ inq' = <<>> /\ Fail("READ_TIMEOUT")
     \/ UNCHANGED inq /\ Fail("IO_ERROR")
  /\ Reads /\ UNCHANGED status

-----------------------------------------------------------------------------
(* reset_printer, after a timeout.                                         *)

(* What a reset does to the printer: it forgets its input, the queries it  *)
(* has not answered and the serial setting of the job.                     *)
PrinterReset ==
  /\ prSet' = "default" /\ pbuf' = <<>> /\ rt' = 0
  /\ lost' = lost \cup DataIn(pbuf)

(* ESC @ through aps_write_rt, up to the wait for its transmission.        *)
ResetSerial ==
  /\ pc = "reset" /\ PortType = "serial"
  /\ \/ Flush /\ outq' = <<Query("reset")>> /\ Goto("resetSync") /\ UNCHANGED exitCode
     \/ Quit /\ UNCHANGED <<inq, outq, lost>>
  /\ UNCHANGED <<host, status, outside, port, jobs, tainted, hostSet, printer>>

ResetSync ==
  /\ pc = "resetSync"
  /\ \/ outq = <<>> /\ Goto("resetClose") /\ UNCHANGED exitCode
     \/ Quit
  /\ UNCHANGED <<host, status, outside, port, jobs, tainted, line, printer, lost>>

(* The nInit pulse of a parallel port; a USB request whose result is       *)
(* ignored, so that it may not have worked; nothing on an Ethernet port,   *)
(* which has no case in the switch of reset_printer.                       *)
ResetOther ==
  /\ pc = "reset"
  /\ \/ /\ PortType = "parallel" /\ PrinterReset
        /\ Goto("resetClose") /\ UNCHANGED <<exitCode, inq>>
     \/ /\ PortType = "parallel" /\ Quit
        /\ UNCHANGED <<prSet, pbuf, rt, lost, inq>>
     \/ /\ PortType = "usb" /\ PrinterReset /\ inq' = <<>>
        /\ Goto("resetClose") /\ UNCHANGED exitCode
     \/ /\ PortType \in {"usb", "ethernet"}
        /\ Goto("resetClose") /\ UNCHANGED <<exitCode, prSet, pbuf, rt, lost, inq>>
  /\ UNCHANGED <<host, status, outside, port, jobs, tainted, hostSet, outq, printed>>

(* The port is closed while the printer restarts.                          *)
ResetClose ==
  /\ pc = "resetClose"
  /\ \/ port' = "closed" /\ Goto("close") /\ UNCHANGED exitCode
     \/ Quit /\ UNCHANGED port
  /\ UNCHANGED <<host, status, outside, jobs, tainted, line, printer, lost>>

-----------------------------------------------------------------------------
Close_bug ==
  /\ pc = "close" /\ port' = "freed" /\ Goto("destroy")
  /\ UNCHANGED <<host, status, outside, exitCode, jobs, tainted, line, printer, lost>>

(* main(): close the port, ignoring errors, and destroy it.                *)
Close ==
  /\ pc = "close"
  /\ port' \in {"closed", port}
  /\ Goto("destroy")
  /\ UNCHANGED <<host, status, outside, exitCode, jobs, tainted, line, printer, lost>>

(* aps_destroy_port closes a port that is still open, then frees it.       *)
Destroy ==
  /\ pc = "destroy"
  /\ \/ port' = "freed" /\ exitCode' = "zero" /\ Goto("exited")
     \/ port = "open" /\ Quit /\ UNCHANGED port
  /\ UNCHANGED <<host, status, outside, jobs, tainted, line, printer, lost>>

(* CUPS starts the backend again for the next job.                         *)
NextJob ==
  /\ pc = "exited" /\ jobs < MaxJobs
  /\ jobs' = jobs + 1
  /\ tainted' = (tainted \/ phase # "done")
  /\ pc' = "start" /\ phase' = "setup" /\ errnum' = "OK" /\ expired' = FALSE
  /\ port' = "none" /\ exitCode' = "none" /\ cancel' = FALSE
  /\ got' = 0 /\ sent' = 0 /\ fpos' = 0 /\ eof' = FALSE
  /\ printed' = <<>> /\ lost' = {}
  /\ ready' = FALSE /\ genuine' = TRUE
  /\ UNCHANGED <<line, prSet, pbuf, rt, paper, stops>>

-----------------------------------------------------------------------------
(* SIGTERM of a cancelled job: the handler sets cancel_flag.  A call that  *)
(* is blocked in select, read or tcdrain is interrupted as well; what the  *)
(* library makes of EINTR depends on the call.                             *)

Signal ==
  /\ ~cancel /\ pc \notin {"start", "exited"}
  /\ cancel' = TRUE
  /\ UNCHANGED <<paper, stops, fpos, eof>>

Sigterm ==
  /\ Signal
  /\ UNCHANGED <<pc, phase, errnum, expired, host, status, life, line, printer, lost>>

(* read() of the input pipe: state_print fails before the first block,     *)
(* takes EINTR for the end of the input after it.                          *)
InterruptPipe ==
  /\ got = fpos /\ ~eof
  /\ Signal
  /\ \/ pc = "header" /\ Fail("IO_ERROR")
     \/ pc = "nextHeader" /\ Goto("write")
     \/ pc = "rawRead" /\ Goto("printSync")
  /\ UNCHANGED <<host, status, life, line, printer, lost>>

(* serial_sync takes every EINTR for its own alarm; the select() calls of  *)
(* the serial and Ethernet transports report a failure.                    *)
InterruptPort ==
  /\ PortType \in {"serial", "ethernet"}
  /\ Signal
  /\ \/ pc \in {"cfgSync", "printSync"} /\ outq # <<>> /\ Fail("WRITE_TIMEOUT")
     \/ pc = "pollSync" /\ outq # <<>> /\ PollFails("WRITE_TIMEOUT")
     \/ pc = "pollRead" /\ Len(inq) < StatusLen /\ PollFails("IO_ERROR")
     \/ pc = "neopRead" /\ inq = <<>> /\ Goto(AfterPoll[phase])
     \/ pc = "write" /\ sent < got /\ Fail("IO_ERROR")
  /\ UNCHANGED <<host, status, life, line, printer, lost>>

-----------------------------------------------------------------------------
(* The filter at the other end of the pipe.                                *)

FilterWrites ==
  /\ pc # "exited" /\ ~eof
  /\ fpos < Records /\ fpos - got < PipeCap
  /\ fpos' = fpos + 1
  /\ UNCHANGED <<pc, phase, errnum, expired, host, status, life, line, printer,
                 paper, stops, eof, cancel, lost>>

(* It closes the pipe at the end of the job, or earlier when it is         *)
(* cancelled or fails.                                                     *)
FilterEnds ==
  /\ pc # "exited" /\ ~eof
  /\ eof' = TRUE
  /\ UNCHANGED <<pc, phase, errnum, expired, host, status, life, line, printer,
                 paper, stops, fpos, cancel, lost>>

-----------------------------------------------------------------------------
(* The printer.                                                            *)

ctl == <<pc, phase, errnum, expired, host, status, life>>

(* The line of a serial port: what is sent at another setting than the     *)
(* printer's is garbage, which the printer drops.  A serial setting is in  *)
(* force as soon as its command is received, a status query needs no room. *)
Transmit ==
  /\ PortType = "serial" /\ outq # <<>>
  /\ outq' = Tail(outq)
  /\ LET m == Head(outq) IN
     \/ /\ hostSet # prSet
        /\ lost' = lost \cup DataIn(<<m>>)
        /\ UNCHANGED <<prSet, pbuf, rt>>
     \/ /\ hostSet = prSet /\ m.kind = "cfg"
        /\ prSet' = m.set
        /\ UNCHANGED <<pbuf, rt, lost>>
     \/ /\ hostSet = prSet /\ m.kind = "reset"
        /\ PrinterReset
     \/ /\ hostSet = prSet /\ m.kind = "status"
        /\ rt' = IF rt < PrinterCap THEN rt + 1 ELSE rt
        /\ UNCHANGED <<prSet, pbuf, lost>>
     \/ /\ hostSet = prSet /\ m.kind \in {"data", "neop"}
        /\ Len(pbuf) < PrinterCap /\ pbuf' = Append(pbuf, m)
        /\ UNCHANGED <<prSet, rt, lost>>
  /\ UNCHANGED <<ctl, outside, hostSet, inq, printed>>

(* The printer answers only while the host has room for the answer.        *)
Room(n) == Len(inq) + n <= InputCap

Answer(bs) == inq' = inq \o bs

PrintBlock ==
  /\ pbuf # <<>> /\ Head(pbuf).kind = "data"
  /\ paper
  /\ printed' = Append(printed, Head(pbuf).rec)
  /\ pbuf' = Tail(pbuf)
  /\ UNCHANGED <<ctl, outside, line, prSet, rt, lost>>

AnswerNeop ==
  /\ pbuf # <<>> /\ Head(pbuf).kind = "neop"
  /\ Room(1) /\ Answer(<<NeopByte>>)
  /\ pbuf' = Tail(pbuf)
  /\ UNCHANGED <<ctl, outside, hostSet, outq, prSet, rt, printed, lost>>

(* ESC v through the data pipe of a USB printer waits for its turn.        *)
AnswerInOrder ==
  /\ pbuf # <<>> /\ Head(pbuf).kind = "status"
  /\ Room(StatusLen) /\ \E r \in Reported : Answer(StatusBytes(r))
  /\ pbuf' = Tail(pbuf)
  /\ UNCHANGED <<ctl, outside, hostSet, outq, prSet, rt, printed, lost>>

AnswerRealTime ==
  /\ rt > 0
  /\ Room(StatusLen) /\ \E r \in Reported : Answer(StatusBytes(r))
  /\ rt' = rt - 1
  /\ UNCHANGED <<ctl, outside, hostSet, outq, prSet, pbuf, printed, lost>>

PaperOut ==
  /\ paper /\ stops < MaxStops
  /\ paper' = FALSE /\ stops' = stops + 1
  /\ UNCHANGED <<ctl, line, printer, fpos, eof, cancel, lost>>

PaperIn ==
  /\ ~paper
  /\ paper' = TRUE
  /\ UNCHANGED <<ctl, line, printer, stops, fpos, eof, cancel, lost>>

-----------------------------------------------------------------------------
Init ==
  /\ pc = "start" /\ phase = "setup" /\ errnum = "OK" /\ expired = FALSE
  /\ ready = FALSE /\ got = 0 /\ sent = 0
  /\ port = "none" /\ exitCode = "none" /\ cancel = FALSE
  /\ hostSet = "default" /\ outq = <<>> /\ inq = <<>>
  /\ prSet = "default" /\ pbuf = <<>> /\ rt = 0 /\ printed = <<>>
  /\ paper \in BOOLEAN /\ stops = 0
  /\ fpos = 0 /\ eof = FALSE /\ jobs = 1
  /\ lost = {} /\ genuine = TRUE /\ tainted = FALSE

Backend ==
  \/ Open \/ Configure \/ ConfigureSync \/ SetHost
  \/ PollSerial \/ PollSync \/ PollOther \/ PollRead \/ PollUsb
  \/ NeopWrite \/ NeopRead \/ Wait
  \/ FirstHeader \/ ReadBlock \/ NextHeader \/ RawRead \/ WriteBlocks \/ PrintSync
  \/ WaitUsbQuery \/ WaitUsbAnswer
  \/ ResetSerial \/ ResetSync \/ ResetOther \/ ResetClose
  \/ Close \/ Destroy

Filter  == FilterWrites \/ FilterEnds
Printer == Transmit \/ PrintBlock \/ AnswerNeop \/ AnswerInOrder \/ AnswerRealTime

(* The last job is over; the printer may still be printing it.             *)
Terminated == pc = "exited" /\ jobs = MaxJobs /\ UNCHANGED vars

Next ==
  \/ Backend \/ NextJob \/ Terminated
  \/ DeadlinePasses
  \/ Sigterm \/ InterruptPipe \/ InterruptPort
  \/ Filter \/ Printer
  \/ PaperOut \/ PaperIn

Spec == Init /\ [][Next]_vars

(* A library call may never return, and then it does not fail either:      *)
(* - state_print writes without a timeout if prtimeout is 0, and waits for *)
(*   room;                                                                 *)
(* - tcdrain() waits for the line: serial_sync starts one alarm before it, *)
(*   which is lost if it comes first;                                      *)
(* - the same alarm guards select() in the interrupt mode of a parallel    *)
(*   port;                                                                 *)
(* - read() of a terminal or a socket that was hung up returns 0 for ever, *)
(*   and the loops of serial_read and ethernet_read go on.                 *)
Blocked ==
  \/ ~HasTimeout /\ pc = "write" /\ sent < got /\ ~Takes
  \/ /\ PortType = "serial" /\ outq # <<>>
     /\ pc \in {"cfgSync", "pollSync", "printSync", "resetSync"}
  \/ /\ PortType = "parallel" /\ IrqMode
     /\ pc \in {"poll", "pollRead", "neopWrite", "neopRead", "write", "printSync"}
  \/ /\ PortType \in {"serial", "ethernet"}
     /\ \/ pc = "pollRead" /\ Len(inq) < StatusLen
        \/ pc = "neopRead" /\ inq = <<>>

(* The process is scheduled and its calls return unless they are blocked,  *)
(* time passes, the filter ends.                                           *)
HostFairness ==
  WF_vars(Backend /\ ~Blocked) /\ WF_vars(DeadlinePasses) /\ WF_vars(Filter)

(* In addition, the line and the printer work and paper is loaded again.   *)
PrinterFairness ==
  /\ WF_vars(Transmit) /\ WF_vars(PrintBlock)
  /\ WF_vars(AnswerNeop) /\ WF_vars(AnswerInOrder) /\ WF_vars(AnswerRealTime)
  /\ WF_vars(PaperIn)

HostSpec == Spec /\ HostFairness
FairSpec == Spec /\ HostFairness /\ PrinterFairness

-----------------------------------------------------------------------------
(* Properties.                                                             *)

Steps == {"start", "configure", "cfgSync", "setHost", "poll", "pollSync",
          "pollRead", "neopWrite", "neopRead", "polled", "header", "body",
          "nextHeader", "rawRead", "write", "printSync", "usbQuery", "usbRead",
          "reset", "resetSync", "resetClose", "close", "destroy", "exited"}

Phases == {"setup", "wait", "print", "wait2", "waitUsb", "finish", "done", "recover"}

TypeOK ==
  /\ pc \in Steps /\ phase \in Phases /\ errnum \in Errors \cup {"OK"}
  /\ expired \in BOOLEAN /\ ready \in BOOLEAN /\ genuine \in BOOLEAN
  /\ got \in 0 .. Records /\ sent \in 0 .. Records /\ fpos \in 0 .. Records
  /\ port \in {"none", "open", "closed", "freed"}
  /\ exitCode \in {"none", "zero", "one"}
  /\ hostSet \in Settings /\ prSet \in Settings
  /\ outq \in Seq(Message) /\ pbuf \in Seq(Message) /\ inq \in Seq(Byte)
  /\ rt \in 0 .. PrinterCap
  /\ printed \in Seq(0 .. Records) /\ lost \subseteq 0 .. Records
  /\ paper \in BOOLEAN /\ stops \in 0 .. MaxStops
  /\ cancel \in BOOLEAN /\ eof \in BOOLEAN
  /\ jobs \in 1 .. MaxJobs /\ tainted \in BOOLEAN

AfterPrint == {"wait2", "waitUsb", "finish", "done"}

(* No block of a job that state_print has printed was dropped: neither by  *)
(* the flush that every later poll of a serial port starts with, nor by a  *)
(* change of the serial setting while it was in the kernel's buffer.       *)
NothingLost == ~tainted /\ phase \in AfterPrint => lost = {}

(* Once state_print is over, the printer has, in order and once each,      *)
(* exactly the blocks that were read from the filter (a second job finds   *)
(* blocks of the first one before its own).                                *)
DataSeq(q) ==
  FlattenSeq([i \in DOMAIN q |-> IF q[i].kind = "data" THEN <<q[i].rec>> ELSE <<>>])
Delivered ==
  jobs = 1 /\ phase \in AfterPrint =>
    printed \o DataSeq(pbuf) \o DataSeq(outq) = [i \in 1 .. got |-> i]

(* A job that was not cancelled is sent whole: everything that the filter  *)
(* wrote until it closed the pipe.                                         *)
WholeJob == phase \in AfterPrint /\ ~cancel => eof /\ got = fpos /\ sent = got

(* While it waits for the printer and prints, the backend and the printer  *)
(* use the same serial setting, the one chosen for printing.               *)
SettingsAgree ==
  ~tainted /\ PortType = "serial" /\ phase \in {"wait", "print", "wait2", "waitUsb"} =>
    hostSet = PrSetting /\ prSet = PrSetting

(* A job that succeeded leaves both sides at the default setting, so that  *)
(* the next one finds the printer.                                         *)
SettingsRestored ==
  ~tainted /\ PortType = "serial" /\ (phase = "done" \/ (phase = "setup" /\ pc = "configure")) =>
    hostSet = "default" /\ prSet = "default"

(* The port is open at every library call that needs it; exit(0) is after  *)
(* the port was closed and freed, and nothing follows the free.            *)
NeedsPort == Steps \ {"start", "close", "destroy", "exited"}
PortLifecycle ==
  /\ pc \in NeedsPort => port = "open"
  /\ exitCode = "zero" => port = "freed"
  /\ port = "freed" => pc = "exited"

(* state_wait: "Wait until printer is ready to print" (cups/aps.c:733).    *)
(* state_print starts, and goes on, only if what poll_status decoded last  *)
(* was one status answer of the printer, and said ready.  It is so while   *)
(* an answer has one byte.  Longer ones get out of step with the reads     *)
(* when an answer of the NEOP sensor is late or its read is cut short:     *)
(* then the flags are decoded from parts of two answers.                   *)
PrintsOnlyWhenReady == phase = "print" => ready /\ genuine

(* state_wait_usb returns 0 when "communication buffers are empty now"     *)
(* (cups/aps.c:839): no block is waiting in the printer.                   *)
BuffersEmpty == PortType = "usb" /\ phase \in {"finish", "done"} => ~HasData(pbuf)

(* Every backend process ends.  With a printing timeout it does so         *)
(* whatever the printer does (HostSpec), without one if the printer works  *)
(* and gets its paper back (FairSpec), in both cases as far as its calls   *)
(* are not Blocked: no combination of polls, timeouts, resets and late     *)
(* answers keeps it in a loop.                                             *)
Terminates == pc = "start" ~> pc = "exited"

=============================================================================
