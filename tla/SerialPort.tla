----------------------------- MODULE SerialPort -----------------------------
(***************************************************************************)
(* The serial transport (src/src/aps/serial.c).  Each operation is the     *)
(* relation between the states before and after a call that returns e; the *)
(* port class (module LibAps) sets what all transports have in common.     *)
(*                                                                         *)
(* External: the terminal driver.  It keeps the speed and the flow control *)
(* of a line, one command on its way out, and what the printer has sent.   *)
(* A command that is sent in part is not answered, and counts as not sent. *)
(***************************************************************************)
EXTENDS PortTable

VARIABLES
  baudrate,    \* set.serial.baudrate
  handshake,   \* set.serial.handshake
  flow,        \* flow control of the line
  asked,       \* history: the handshake the client has asked for last
  loose        \* history: serial_write_rt failed and no setting came after it

settings   == <<baudrate, handshake, asked>>
serialVars == <<settings, speed, flow, loose>>

Streams == SerialDevices \union EthernetDevices   \* what read() and write() work on

-----------------------------------------------------------------------------
SetLine(d, b, f) == speed' = [speed EXCEPT ![d] = b] /\ flow' = [flow EXCEPT ![d] = f]

(* The settings of the structure are put in force.  After open() an error  *)
(* leaves the descriptor behind, and the line with some of them.           *)
serial_open(p, e) ==
  /\ UNCHANGED <<settings, queues, timeouts, misclosed>>
  /\ \/ e \in {"IO_ERROR", "OPEN_FAILED"} /\ UNCHANGED <<speed, flow, loose, fds>>
     \/ /\ dev[p] # NoDevice
        /\ \E h \in Handles :
             /\ Lowest(h) /\ Takes(p, h)
             /\ \/ /\ e = "OK" /\ SetLine(dev[p], baudrate[p], handshake[p])
                   /\ loose' = [loose EXCEPT ![p] = FALSE] /\ UNCHANGED orphans
                \/ /\ e = "IO_ERROR" /\ orphans' = orphans \union {h}
                   /\ UNCHANGED <<flow, loose>>
                   /\ speed' \in {speed, [speed EXCEPT ![dev[p]] = baudrate[p]]}

serial_close(p, e) ==
  /\ CloseDescriptor(p, e)
  /\ UNCHANGED <<serialVars, timeouts>>

serial_set_baudrate(p, b, e) ==
  /\ \/ /\ e = "OK" /\ Reached(p) \in SerialDevices
        /\ speed' = [speed EXCEPT ![Reached(p)] = b]
        /\ baudrate' = [baudrate EXCEPT ![p] = b]
     \/ e = "IO_ERROR" /\ UNCHANGED <<speed, baudrate>>
  /\ UNCHANGED <<handshake, asked, flow, loose, fds, queues, timeouts>>

serial_set_handshake(p, f, e) ==
  /\ \/ /\ e = "OK" /\ Reached(p) \in SerialDevices
        /\ flow' = [flow EXCEPT ![Reached(p)] = f]
        /\ handshake' = [handshake EXCEPT ![p] = f]
        /\ asked' = [asked EXCEPT ![p] = f]
        /\ loose' = [loose EXCEPT ![p] = FALSE]
     \/ e = "IO_ERROR" /\ UNCHANGED <<flow, handshake, asked, loose>>
  /\ UNCHANGED <<baudrate, speed, fds, queues, timeouts>>

-----------------------------------------------------------------------------
(* write() in a loop around select(): waits for room.                      *)
WriteStream(p, c, e) ==
  /\ \/ /\ e = "OK" /\ Reached(p) \in Streams /\ outq[Reached(p)] = <<>>
        /\ outq' = [outq EXCEPT ![Reached(p)] = <<c>>]
     \/ /\ e = "WRITE_TIMEOUT" /\ write_timeout[p] # 0 /\ Reached(p) \in Streams
        /\ outq[Reached(p)] # <<>> /\ UNCHANGED outq
     \/ e = "WRITE_FAILED" /\ UNCHANGED outq
  /\ UNCHANGED <<inq, todo>>

(* read() in a loop around select(): waits for the bytes.                  *)
ReadStream(p, n, e) ==
  LET d == Reached(p)  s == IF d \in Streams THEN inq[d] ELSE <<>> IN
  /\ d \in Streams \/ e = "READ_FAILED"
  /\ \E k \in 0 .. Len(s) :
       /\ ReadsFrom(s, n, k, e, read_timeout[p])
       /\ inq' = IF k = 0 THEN inq ELSE [inq EXCEPT ![d] = SubSeq(s, k + 1, Len(s))]
  /\ UNCHANGED <<outq, todo>>

serial_write(p, c, e) == WriteStream(p, c, e) /\ UNCHANGED <<serialVars, fds, timeouts>>

serial_read(p, n, e) == ReadStream(p, n, e) /\ UNCHANGED <<serialVars, fds, timeouts>>

(* tcdrain() under a timer.                                                *)
serial_sync(p, e) ==
  /\ \/ e = "OK" /\ Reached(p) \in Streams /\ Sends(Reached(p))
     \/ /\ e = "WRITE_TIMEOUT" /\ write_timeout[p] # 0 /\ Reached(p) \in Streams
        /\ outq[Reached(p)] # <<>> /\ UNCHANGED <<outq, todo>>
     \/ e = "SYNC_FAILED" /\ UNCHANGED <<outq, todo>>
  /\ UNCHANGED <<serialVars, inq, fds, timeouts>>

(* tcflush(TCIOFLUSH).                                                     *)
serial_flush(p, e) ==
  /\ \/ e = "OK" /\ Reached(p) \in SerialDevices /\ Hangup(Reached(p))
     \/ e = "FLUSH_FAILED" /\ UNCHANGED queues
  /\ UNCHANGED <<serialVars, fds, timeouts>>

(* serial_write_rt: flush, flow control off, write, sync, flow control on. *)
(* serial_set_handshake stores NONE in the structure; it is put back.      *)
Restored_bug(p) == handshake' = [handshake EXCEPT ![p] = "NONE"]

Restored(p) == UNCHANGED handshake

FlowOff(p) ==
  /\ flow' = [flow EXCEPT ![Reached(p)] = "NONE"]
  /\ loose' = [loose EXCEPT ![p] = TRUE]

FlowOn(p) ==
  /\ flow' = [flow EXCEPT ![Reached(p)] = handshake'[p]]
  /\ loose' = [loose EXCEPT ![p] = FALSE]

serial_write_rt(p, c, e) ==
  LET d == Reached(p) IN
  /\ UNCHANGED <<baudrate, asked, speed, fds, timeouts>>
  /\ \/ e = "FLUSH_FAILED" /\ UNCHANGED <<handshake, flow, loose, queues>>
     \/ /\ e = "IO_ERROR" /\ d \in SerialDevices /\ Hangup(d)
        /\ UNCHANGED <<handshake, flow, loose>>
     \/ /\ e = "WRITE_FAILED" /\ d \in SerialDevices /\ Hangup(d)
        /\ Restored(p) /\ FlowOff(p)
     \/ /\ e \in {"WRITE_TIMEOUT", "SYNC_FAILED"} /\ d \in SerialDevices
        /\ e = "WRITE_TIMEOUT" => write_timeout[p] # 0
        /\ inq' = [inq EXCEPT ![d] = <<>>] /\ outq' = [outq EXCEPT ![d] = <<c>>]
        /\ UNCHANGED todo
        /\ Restored(p) /\ FlowOff(p)
     \/ /\ e \in {"OK", "IO_ERROR"} /\ d \in SerialDevices
        /\ Receives(d, c)
        /\ inq' = [inq EXCEPT ![d] = <<>>] /\ outq' = [outq EXCEPT ![d] = <<>>]
        /\ Restored(p) /\ IF e = "OK" THEN FlowOn(p) ELSE FlowOff(p)

=============================================================================
