---------------------------- MODULE ParallelPort ----------------------------
(***************************************************************************)
(* The parallel transport of libaps (src/src/aps/parallel.c): bytes are    *)
(* handed over by a handshake on the signals of the port, by the program   *)
(* itself in polling mode, by the kernel in interrupt mode, where the      *)
(* program counts the interrupts that acknowledge its bytes.               *)
(*                                                                         *)
(* A client calls the functions of the transport one after the other with  *)
(* any result of the one before.  Each ioctl is a step: the printer and    *)
(* SIGALRM of the operation timer act between two of them.                 *)
(*                                                                         *)
(* External: the kernel driver (ppdev) and the printer.  The printer takes *)
(* a byte when it notices STROBE and is BUSY with it until it has pulsed   *)
(* ACK ("the fact that BUSY deasserts also indicates that write operation  *)
(* is over", parallel.c:373).  It answers AUTOFD with a byte and ACK, until*)
(* STROBE confirms the byte.  The kernel hands over what write() accepted  *)
(* and counts an interrupt for each of these bytes; it may count the other *)
(* pulses of ACK too.                                                      *)
(***************************************************************************)
EXTENDS Integers, Sequences, SequencesExt

CONSTANTS
  Size,      \* bound: bytes of one call
  MaxCalls   \* bound: calls of the client, one of n bytes counting as n

ASSUME ConstantsAssumption == Size \in Nat \ {0} /\ MaxCalls \in Nat

VARIABLES
  pc,           \* next step of the call, "idle" between calls
  call,         \* the function called
  left,         \* size: bytes still to be written or read
  again,        \* in a wait loop: the status was read before
  errnum,       \* result of the last call, "OK" while it runs without error
  mode,         \* p->set.par.mode: "POLL" or "IRQ"
  irq_left,     \* p->set.par.irq_left: interrupts still to come
  buf,          \* the byte par_read_byte has read last
  par_timeout,  \* set by the handler of SIGALRM
  armed,        \* the timer is running
  strobe, autofd, init,  \* control signals, TRUE if asserted
  dir,          \* direction of the data lines: "out", "in"
  wire,         \* byte in the data register
  edge,         \* STROBE is asserted and the printer has not noticed yet
  busy, ack,    \* status signals, TRUE if asserted
  held,         \* the printer has taken a byte and not acknowledged it
  offering,     \* the printer has put a byte on the data lines
  irqc,         \* interrupt count of the kernel
  unacked,      \* bytes handed over by the kernel and not acknowledged
  calls,        \* calls made, counted like that
  sent,         \* bytes put on the data lines or passed to write()
  written,      \* those that were counted as written
  received,     \* history: bytes the printer has taken
  given,        \* history: bytes the printer has seen confirmed
  got,          \* history: bytes par_read has counted as read; these four
                \*   are about the time since the last reset
  clean,        \* history: no earlier call failed since the last reset
  faulted,      \* history: an ioctl that restores the port has failed
  foreign       \* history: acknowledgements, counted by the kernel or still
                \*   to come, that are not for a byte counted in irq_left

host    == <<pc, call, left, again, errnum>>
timer   == <<par_timeout, armed>>
signals == <<strobe, autofd, init, edge>>
data    == <<dir, wire, sent, written, buf, got>>
count   == <<irq_left, irqc, foreign>>
printer == <<busy, ack, held, offering, unacked, received, given>>
client  == <<mode, calls, clean>>

vars == <<host, timer, signals, data, count, printer, client, faulted>>

-----------------------------------------------------------------------------
(* Operators whose name ends in _bug are deliberate faults: none is used   *)
(* by the specification, each replaces the operator of the same name to    *)
(* show that a property notices the fault.                                 *)

StartTimer == par_timeout' = FALSE /\ armed' \in BOOLEAN
StopTimer  == armed' = FALSE /\ UNCHANGED par_timeout

Goto(l) == pc' = l /\ UNCHANGED <<call, left, again, errnum>>

Returns(e) ==
  /\ pc' = "idle" /\ errnum' = e /\ again' = FALSE /\ left' = 0
  /\ StopTimer
  /\ UNCHANGED call

(* A wait loop: the status is read once before the loop; in the loop the   *)
(* timeout is looked at after the status was read again.                   *)
Late == IF call = "write" THEN "WRITE_TIMEOUT" ELSE "READ_TIMEOUT"

Await_bug(signal, next) ==
  /\ IF signal THEN pc' = next /\ again' = FALSE ELSE again' = TRUE /\ UNCHANGED pc
  /\ UNCHANGED <<call, left, errnum, timer, signals, data, count, printer, client, faulted>>

Await(signal, next) ==
  /\ \/ /\ again /\ par_timeout
        /\ errnum' = Late /\ pc' = "recover" /\ again' = FALSE /\ left' = 0
     \/ /\ ~(again /\ par_timeout) /\ signal
        /\ pc' = next /\ again' = FALSE /\ UNCHANGED <<left, errnum>>
     \/ /\ ~(again /\ par_timeout) /\ ~signal
        /\ again' = TRUE /\ UNCHANGED <<pc, left, errnum>>
  /\ UNCHANGED <<call, timer, signals, data, count, printer, client, faulted>>

(* PPFCONTROL.                                                             *)
Drive(s, a, i) ==
  /\ strobe' = s /\ autofd' = a /\ init' = i
  /\ edge' = (s /\ (edge \/ ~strobe))

Strobe(s, next) ==
  /\ Drive(s, autofd, init) /\ Goto(next)
  /\ UNCHANGED <<timer, data, count, printer, client, faulted>>

Autofeed(a, next) ==
  /\ Drive(strobe, a, init) /\ Goto(next)
  /\ UNCHANGED <<timer, data, count, printer, client, faulted>>

-----------------------------------------------------------------------------
(* The client.                                                             *)

Begin(f, n, first) ==
  /\ pc = "idle"
  /\ call' = f /\ left' = n /\ pc' = first
  /\ errnum' = "OK" /\ again' = FALSE
  /\ calls' = calls + (IF n = 0 THEN 1 ELSE n) /\ calls' <= MaxCalls
  /\ clean' = (clean /\ errnum = "OK")
  /\ UNCHANGED <<signals, data, count, printer, mode, faulted>>

CallWrite ==
  /\ \E n \in 1 .. Size : Begin("write", n, IF mode = "POLL" THEN "wReady" ELSE "wIrq")
  /\ StartTimer

(* par_read waits for its output first: par_sync, nothing in polling mode. *)
CallRead ==
  /\ \E n \in 1 .. Size : Begin("read", n, IF mode = "POLL" THEN "rDir" ELSE "sync")
  /\ IF mode = "POLL" THEN UNCHANGED timer ELSE StartTimer

CallSync ==
  /\ mode = "IRQ" /\ Begin("sync", 0, "sync")
  /\ StartTimer

CallFlush ==
  /\ Begin("flush", 0, IF mode = "POLL" THEN "clear" ELSE "sync")
  /\ IF mode = "POLL" THEN UNCHANGED timer ELSE StartTimer

CallReset == Begin("reset", 0, "idleSignals") /\ UNCHANGED timer

(* par_set_mode, before and after a job (setup_printer, setup_defaults).   *)
SetMode ==
  /\ pc = "idle" /\ calls < MaxCalls
  /\ mode' \in {"POLL", "IRQ"} \ {mode} /\ calls' = calls + 1
  /\ UNCHANGED <<host, timer, signals, data, count, printer, clean, faulted>>

Client == CallWrite \/ CallRead \/ CallSync \/ CallFlush \/ CallReset \/ SetMode

-----------------------------------------------------------------------------
(* par_write, polling mode: par_write_byte for every byte.                 *)

WaitReady == pc = "wReady" /\ Await(~busy, "wData")

(* PPWDATA; the byte gets out unless the lines are turned around.          *)
WriteData ==
  /\ pc = "wData"
  /\ sent' = sent + 1
  /\ wire' = IF dir = "out" THEN sent + 1 ELSE wire
  /\ Goto("wStrobe")
  /\ UNCHANGED <<timer, signals, dir, written, buf, got, count, printer, client, faulted>>

AssertStrobe == pc = "wStrobe" /\ Strobe(TRUE, "wTaken")

WaitTaken_bug == pc = "wTaken" /\ Await(TRUE, "wRelease")

WaitTaken == pc = "wTaken" /\ Await(busy, "wRelease")

ReleaseStrobe == pc = "wRelease" /\ Strobe(FALSE, "wDone")

WaitDone == pc = "wDone" /\ Await(~ack /\ ~busy, "wNext")

NextByte ==
  /\ pc = "wNext"
  /\ written' = written \union {sent}
  /\ left' = left - 1
  /\ IF left = 1 THEN pc' = "idle" /\ StopTimer ELSE pc' = "wReady" /\ UNCHANGED timer
  /\ UNCHANGED <<call, again, errnum, signals, dir, wire, sent, buf, got, count, printer,
                 client, faulted>>

-----------------------------------------------------------------------------
(* par_wait_irq: nothing if no interrupt is due, else select() until the   *)
(* kernel has counted one.  A signal handler that runs before select() is  *)
(* entered does not interrupt it.                                          *)

EnterSelect ==
  /\ pc = "select" /\ Goto("blocked")
  /\ UNCHANGED <<timer, signals, data, count, printer, client, faulted>>

SelectFails ==
  /\ pc = "interrupted"
  /\ Returns(IF par_timeout THEN "WRITE_TIMEOUT" ELSE "IO_ERROR")
  /\ UNCHANGED <<signals, data, count, printer, client, faulted>>

Seen_bug == 0

Seen == IF irq_left < irqc THEN 0 ELSE irq_left - irqc

(* What it takes beyond irq_left is not held against later bytes.          *)
Forgiven == IF irq_left < irqc THEN irqc - irq_left ELSE 0

CountIrq_bug ==
  /\ pc = "blocked" /\ irqc > 0
  /\ irq_left' = irq_left - irqc /\ irqc' = 0 /\ foreign' = foreign - Forgiven
  /\ Goto(IF call = "write" THEN "wKernel" ELSE "sync")
  /\ UNCHANGED <<timer, signals, data, printer, client, faulted>>

CountIrq ==
  /\ pc = "blocked" /\ irqc > 0
  /\ irq_left' = Seen /\ irqc' = 0 /\ foreign' = foreign - Forgiven
  /\ Goto(IF call = "write" THEN "wKernel" ELSE "sync")
  /\ UNCHANGED <<timer, signals, data, printer, client, faulted>>

(* par_write, interrupt mode: the kernel takes some of the bytes.          *)
WaitIrq ==
  /\ pc = "wIrq"
  /\ Goto(IF irq_left = 0 THEN "wKernel" ELSE "select")
  /\ UNCHANGED <<timer, signals, data, count, printer, client, faulted>>

KernelTakes(n) ==
  /\ sent' = sent + n /\ unacked' = unacked + n
  /\ received' = received \o [i \in 1 .. n |-> sent + i]
  /\ UNCHANGED <<signals, dir, wire, buf, got, irqc, busy, ack, held, offering, given,
                 client, faulted>>

KernelWrite ==
  /\ pc = "wKernel" /\ ~par_timeout
  /\ \E n \in 0 .. left :
       /\ KernelTakes(n)
       /\ left' = left - n /\ irq_left' = irq_left + n
       /\ written' = written \union (sent + 1 .. sent + n)
       /\ IF left = n THEN pc' = "idle" /\ StopTimer ELSE pc' = "wIrq" /\ UNCHANGED timer
       /\ UNCHANGED <<call, again, errnum, foreign>>

(* The timeout is looked at before the result of write().                  *)
KernelWriteLate ==
  /\ pc = "wKernel" /\ par_timeout
  /\ \E n \in 0 .. left : KernelTakes(n) /\ foreign' = foreign + n
  /\ Returns("WRITE_TIMEOUT")
  /\ UNCHANGED <<written, irq_left>>

KernelWriteFails ==
  /\ pc = "wKernel" /\ ~par_timeout
  /\ Returns("WRITE_FAILED")
  /\ UNCHANGED <<signals, data, count, printer, client, faulted>>

(* par_sync: one interrupt after the other, until none is due.             *)
SyncWaits ==
  /\ pc = "sync" /\ irq_left > 0
  /\ Goto("select")
  /\ UNCHANGED <<timer, signals, data, count, printer, client, faulted>>

SyncEnds ==
  /\ pc = "sync" /\ irq_left = 0
  /\ StopTimer
  /\ Goto(CASE call = "sync" -> "idle" [] call = "read" -> "rDir" [] OTHER -> "clear")
  /\ UNCHANGED <<signals, data, count, printer, client, faulted>>

(* par_clear_irq, at the end of par_flush.                                 *)
ClearIrq ==
  /\ pc = "clear"
  /\ irqc' = 0 /\ irq_left' = 0 /\ foreign' = unacked
  /\ Goto("idle")
  /\ UNCHANGED <<timer, signals, data, printer, client, faulted>>

-----------------------------------------------------------------------------
(* par_read: turn the data lines around, par_read_byte for every byte,     *)
(* turn them back.                                                         *)

TurnIn ==
  /\ pc = "rDir"
  /\ dir' = "in" /\ StartTimer
  /\ Goto("rReady")
  /\ UNCHANGED <<signals, wire, sent, written, buf, got, count, printer, client, faulted>>

WaitIdle == pc = "rReady" /\ Await(~busy, "rAsk")

AskByte == pc = "rAsk" /\ Autofeed(TRUE, "rAnswer")

WaitAnswer_bug == pc = "rAnswer" /\ Await(TRUE, "rData")

WaitAnswer == pc = "rAnswer" /\ Await(ack, "rData")

(* PPRDATA; 0 stands for what is on the lines when nobody drives them.     *)
ReadData ==
  /\ pc = "rData"
  /\ buf' = IF offering THEN Len(given) + 1 ELSE 0
  /\ Goto("rDrop")
  /\ UNCHANGED <<timer, signals, dir, wire, sent, written, got, count, printer, client, faulted>>

DropAsk == pc = "rDrop" /\ Autofeed(FALSE, "rConfirm")

Confirm == pc = "rConfirm" /\ Strobe(TRUE, "rEnd")

WaitEnd_bug == pc = "rEnd" /\ Await(TRUE, "rNext")

WaitEnd == pc = "rEnd" /\ Await(~ack, "rNext")

NextAnswer ==
  /\ pc = "rNext"
  /\ Drive(FALSE, autofd, init)
  /\ got' = Append(got, buf)
  /\ left' = left - 1 /\ pc' = IF left = 1 THEN "rOut" ELSE "rReady"
  /\ UNCHANGED <<call, again, errnum, timer, dir, wire, sent, written, buf, count, printer,
                 client, faulted>>

TurnOut ==
  /\ pc = "rOut"
  /\ dir' = "out" /\ StopTimer
  /\ Goto("idle")
  /\ UNCHANGED <<signals, wire, sent, written, buf, got, count, printer, client, faulted>>

-----------------------------------------------------------------------------
(* An error in par_write_byte or par_read_byte: par_control_idle, then the *)
(* end of the call.                                                        *)
AfterRecovery ==
  /\ IF call = "read" THEN pc' = "rOut" /\ UNCHANGED timer ELSE pc' = "idle" /\ StopTimer
  /\ UNCHANGED <<call, left, again, errnum, data, count, printer, client>>

Recover_bug == pc = "recover" /\ AfterRecovery /\ UNCHANGED <<signals, faulted>>

Recover ==
  /\ pc = "recover"
  /\ Drive(FALSE, FALSE, FALSE)
  /\ AfterRecovery /\ UNCHANGED faulted

(* par_reset: idle signals, INIT for 100 ms, which makes the printer       *)
(* forget what it holds.  irq_left is not touched.                         *)
IdleSignals ==
  /\ pc = "idleSignals"
  /\ Drive(FALSE, FALSE, FALSE) /\ Goto("initOn")
  /\ UNCHANGED <<timer, data, count, printer, client, faulted>>

AssertInit ==
  /\ pc = "initOn"
  /\ Drive(strobe, autofd, TRUE) /\ Goto("initOff")
  /\ busy' = FALSE /\ ack' = FALSE /\ held' = FALSE /\ offering' = FALSE /\ unacked' = 0
  /\ received' = <<>> /\ given' = <<>> /\ got' = <<>> /\ written' = {}
  /\ UNCHANGED <<timer, dir, wire, sent, buf, count, client, faulted>>

ReleaseInit ==
  /\ pc = "initOff"
  /\ Drive(strobe, autofd, FALSE) /\ Goto("idle")
  /\ clean' = TRUE
  /\ UNCHANGED <<timer, data, count, printer, mode, calls, faulted>>

(* An ioctl fails: in the handshake of a byte the signals are restored,    *)
(* elsewhere the call returns at once.                                     *)
FaultInByte ==
  /\ pc \in {"wReady", "wData", "wStrobe", "wTaken", "wRelease", "wDone", "rReady", "rAsk",
             "rAnswer", "rData", "rDrop", "rConfirm", "rEnd", "rNext"}
  /\ errnum' = "IO_ERROR" /\ pc' = "recover" /\ again' = FALSE /\ left' = 0
  /\ UNCHANGED <<call, timer, signals, data, count, printer, client, faulted>>

FaultInCall ==
  /\ \/ pc \in {"rDir", "clear", "initOn"}
     \/ pc = "blocked" /\ irqc > 0
  /\ Returns("IO_ERROR")
  /\ UNCHANGED <<signals, data, count, printer, client, faulted>>

(* The ioctl that fails is one that puts the port back; par_control_idle   *)
(* stops at the first of its three.                                        *)
IdlePartly ==
  \/ UNCHANGED <<strobe, autofd, init, edge>>
  \/ Drive(strobe, autofd, FALSE)
  \/ Drive(FALSE, autofd, FALSE)

FaultInRestore ==
  /\ faulted' = TRUE
  /\ \/ pc = "recover" /\ IdlePartly /\ AfterRecovery
     \/ /\ pc = "idleSignals" /\ IdlePartly /\ Returns("IO_ERROR")
        /\ UNCHANGED <<data, count, printer, client>>
     \/ /\ pc \in {"rOut", "initOff"} /\ Returns("IO_ERROR")
        /\ UNCHANGED <<signals, data, count, printer, client>>

Host ==
  \/ WaitReady \/ WriteData \/ AssertStrobe \/ WaitTaken \/ ReleaseStrobe \/ WaitDone \/ NextByte
  \/ EnterSelect \/ SelectFails \/ CountIrq
  \/ WaitIrq \/ KernelWrite \/ KernelWriteLate \/ KernelWriteFails
  \/ SyncWaits \/ SyncEnds \/ ClearIrq
  \/ TurnIn \/ WaitIdle \/ AskByte \/ WaitAnswer \/ ReadData \/ DropAsk \/ Confirm \/ WaitEnd
  \/ NextAnswer \/ TurnOut
  \/ Recover \/ IdleSignals \/ AssertInit \/ ReleaseInit

Fault == FaultInByte \/ FaultInCall \/ FaultInRestore

-----------------------------------------------------------------------------
(* Signals.                                                                *)
Interrupted == IF pc = "blocked" THEN Goto("interrupted") ELSE UNCHANGED host

Alarm ==
  /\ armed
  /\ armed' = FALSE /\ par_timeout' = TRUE
  /\ Interrupted
  /\ UNCHANGED <<signals, data, count, printer, client, faulted>>

(* SIGTERM, where it has an effect on the transport.                       *)
Sigterm ==
  /\ pc = "blocked" /\ Interrupted
  /\ UNCHANGED <<timer, signals, data, count, printer, client, faulted>>

-----------------------------------------------------------------------------
(* The printer.                                                            *)

(* An ACK pulse of its own may be counted as an interrupt by the kernel.   *)
StrayIrq ==
  /\ \/ irqc' = irqc + 1 /\ foreign' = foreign + 1
     \/ UNCHANGED <<irqc, foreign>>
  /\ UNCHANGED irq_left

TakeByte ==
  /\ edge /\ ~busy /\ ~offering /\ ~init
  /\ edge' = FALSE
  /\ received' = Append(received, IF dir = "out" THEN wire ELSE 0)
  /\ busy' = TRUE /\ held' = TRUE
  /\ UNCHANGED <<host, timer, strobe, autofd, init, data, count, ack, offering, unacked, given,
                 client, faulted>>

Acknowledge ==
  /\ held
  /\ held' = FALSE /\ ack' = TRUE
  /\ StrayIrq
  /\ UNCHANGED <<host, timer, signals, data, busy, offering, unacked, received, given, client,
                 faulted>>

EndPulse ==
  /\ ack /\ ~offering
  /\ ack' = FALSE
  /\ UNCHANGED <<host, timer, signals, data, count, busy, held, offering, unacked, received, given,
                 client, faulted>>

NotBusy ==
  /\ busy /\ ~held
  /\ busy' = FALSE
  /\ UNCHANGED <<host, timer, signals, data, count, ack, held, offering, unacked, received, given,
                 client, faulted>>

Offer ==
  /\ autofd /\ ~busy /\ ~ack /\ ~offering /\ ~init
  /\ offering' = TRUE /\ ack' = TRUE
  /\ StrayIrq
  /\ UNCHANGED <<host, timer, signals, data, busy, held, unacked, received, given, client,
                 faulted>>

Accepted ==
  /\ offering /\ strobe /\ ~autofd
  /\ given' = Append(given, Len(given) + 1)
  /\ offering' = FALSE /\ ack' = FALSE /\ edge' = FALSE
  /\ UNCHANGED <<host, timer, strobe, autofd, init, data, count, busy, held, unacked, received,
                 client, faulted>>

AcknowledgeIrq ==
  /\ unacked > 0
  /\ unacked' = unacked - 1 /\ irqc' = irqc + 1
  /\ UNCHANGED <<host, timer, signals, data, irq_left, foreign, busy, ack, held, offering,
                 received, given, client, faulted>>

Printer ==
  TakeByte \/ Acknowledge \/ EndPulse \/ NotBusy \/ Offer \/ Accepted \/ AcknowledgeIrq

-----------------------------------------------------------------------------
(* par_open has cleared the interrupt count; the printer may be starting.  *)
Init ==
  /\ pc = "idle" /\ call = "open" /\ left = 0 /\ again = FALSE /\ errnum = "OK"
  /\ mode \in {"POLL", "IRQ"} /\ irq_left = 0 /\ irqc = 0 /\ foreign = 0
  /\ par_timeout = FALSE /\ armed = FALSE
  /\ strobe = FALSE /\ autofd = FALSE /\ init = FALSE /\ edge = FALSE
  /\ dir = "out" /\ wire = 0 /\ sent = 0 /\ written = {} /\ buf = 0 /\ got = <<>>
  /\ busy \in BOOLEAN /\ ack = FALSE /\ held = FALSE /\ offering = FALSE /\ unacked = 0
  /\ received = <<>> /\ given = <<>>
  /\ calls = 0 /\ clean = TRUE /\ faulted = FALSE

Next == Client \/ Host \/ Fault \/ Alarm \/ Sigterm \/ Printer

Spec == Init /\ [][Next]_vars

(* The process runs whenever it can and the timer goes off; nothing is     *)
(* assumed of the printer, nor that an ioctl fails.                        *)
FairSpec == Spec /\ WF_vars(Host) /\ WF_vars(Alarm)

-----------------------------------------------------------------------------
(* Types: in particular the interrupt count is never negative.             *)
TypeOK ==
  /\ pc \in {"idle", "wReady", "wData", "wStrobe", "wTaken", "wRelease", "wDone", "wNext",
             "wIrq", "select", "blocked", "interrupted", "wKernel", "sync", "clear",
             "rDir", "rReady", "rAsk", "rAnswer", "rData", "rDrop", "rConfirm", "rEnd",
             "rNext", "rOut", "recover", "idleSignals", "initOn", "initOff"}
  /\ call \in {"open", "write", "read", "sync", "flush", "reset"}
  /\ left \in 0 .. Size /\ calls \in 0 .. MaxCalls
  /\ errnum \in {"OK", "IO_ERROR", "WRITE_TIMEOUT", "WRITE_FAILED", "READ_TIMEOUT"}
  /\ mode \in {"POLL", "IRQ"} /\ dir \in {"out", "in"}
  /\ irq_left \in Nat /\ irqc \in Nat /\ unacked \in Nat /\ wire \in Nat /\ buf \in Nat
  /\ sent \in Nat /\ written \subseteq 1 .. sent
  /\ received \in Seq(Nat) /\ given \in Seq(Nat) /\ got \in Seq(Nat)
  /\ again \in BOOLEAN /\ par_timeout \in BOOLEAN /\ armed \in BOOLEAN
  /\ strobe \in BOOLEAN /\ autofd \in BOOLEAN /\ init \in BOOLEAN /\ edge \in BOOLEAN
  /\ busy \in BOOLEAN /\ ack \in BOOLEAN /\ held \in BOOLEAN /\ offering \in BOOLEAN
  /\ clean \in BOOLEAN /\ faulted \in BOOLEAN /\ foreign \in Nat

Increasing(s) == \A j \in 1 .. Len(s) : s[j] > 0 /\ \A i \in 1 .. j - 1 : s[i] < s[j]

(* What goes on is accounted for: no call before this one was abandoned,   *)
(* or par_reset has put an end to it.                                      *)
Orderly == clean /\ ~faulted

(* Every byte that par_write counts as written was taken by the printer,   *)
(* and no byte was taken twice or before an earlier one, also in a call    *)
(* that times out.                                                         *)
WrittenOnce == Orderly => Increasing(received) /\ written \subseteq Range(received)

(* par_read never returns a byte twice, out of order, or one the printer   *)
(* did not send; if the call ends well, none was skipped.                  *)
ReadOnce ==
  Orderly => Increasing(got) /\ (errnum = "OK" /\ pc = "idle" => got = given)

(* However a call ends, the control signals are released, the data lines   *)
(* are those of the host again and the timer is off.                       *)
Quiescent ==
  pc = "idle" /\ ~faulted => ~strobe /\ ~autofd /\ ~init /\ dir = "out" /\ ~armed

(* Host and printer never drive the data lines together, unless a call     *)
(* was abandoned.                                                          *)
OneDriver == Orderly /\ errnum = "OK" => (offering => dir = "in")

(* When par_sync returns without error, and when par_read turns the lines  *)
(* around, no more bytes of interrupt mode are without acknowledgement than*)
(* there were interrupts for other bytes: those read, those written in     *)
(* polling mode, those of a write that timed out or that a flush forgot.   *)
(* "Block until all data pending in output buffer are transmitted"         *)
(* (parallel.c:932) holds only where there were none: par_sync takes such  *)
(* an interrupt for that of a byte.                                        *)
Synchronised ==
  \/ pc = "idle" /\ call = "sync" /\ errnum = "OK"
  \/ pc = "rDir" /\ mode = "IRQ"
  => unacked <= foreign

(* In polling mode a call with a timeout returns, whatever the printer     *)
(* does.                                                                   *)
CallReturns == armed /\ mode = "POLL" ~> pc = "idle"

(* "Wait until a parallel port IRQ is detected or timeout"                 *)
(* (parallel.c:180): a wait whose timer is running ends.  It does not if   *)
(* SIGALRM comes between par_start_timer and select().                     *)
IrqWaitEnds == armed /\ pc = "select" ~> pc \notin {"select", "blocked"}

=============================================================================
