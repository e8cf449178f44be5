------------------------------ MODULE PortTable ------------------------------
(***************************************************************************)
(* What the transports of libaps share: the port structures of the process *)
(* (aps_port_t, src/src/aps/aps-private.h), its descriptors, and the way   *)
(* between a device and the printer behind it.  The actions are in the     *)
(* modules that extend this one.                                           *)
(*                                                                         *)
(* External: the kernel's descriptor table, its queues, and the printers.  *)
(* A printer answers a command after any time; what it will answer is      *)
(* settled when it receives the command.  An answer is a sequence of bytes *)
(* of which only the kind is told: "st" of a status, "hw" and "sw" of a    *)
(* handshake setting, "nul", "noise", and the identity of a model, which   *)
(* stands for its characters and is followed by "nul".                     *)
(***************************************************************************)
EXTENDS Naturals, Sequences, Models

CONSTANTS
  Ports,            \* names of the port structures a client may hold
  SerialDevices, ParallelDevices, UsbDevices, EthernetDevices,
  MaxHandle,        \* bound: the last descriptor the process may have
  MaxBaud,          \* bound: the fastest setting, APS_B115200 in the code
  MaxPending,       \* bound: bytes that a printer owes, or that wait
  Printers          \* external: what may stand behind a device: its identity, and
                    \*   the speed and the flow control it is set to

Devices == SerialDevices \union ParallelDevices \union UsbDevices \union EthernetDevices
NoDevice == "none"
Closed   == "closed"
Absent   == "absent"

ASSUME DevicesAssumption == NoDevice \notin Devices /\ Closed \notin Devices
ASSUME KindsAssumption ==
  /\ SerialDevices \intersect ParallelDevices = {} /\ SerialDevices \intersect UsbDevices = {}
  /\ SerialDevices \intersect EthernetDevices = {} /\ ParallelDevices \intersect UsbDevices = {}
  /\ ParallelDevices \intersect EthernetDevices = {} /\ UsbDevices \intersect EthernetDevices = {}
ASSUME PrintersAssumption ==
  \A x \in Printers : x.speed \in 0 .. MaxBaud /\ x.flow \in {"RTSCTS", "XONXOFF"}
ASSUME BoundsAssumption == MaxHandle \in Nat /\ MaxBaud \in Nat /\ MaxPending \in Nat \ {0}

Handles  == 3 .. MaxHandle
Bauds    == 0 .. MaxBaud
Flows    == {"NONE", "RTSCTS", "XONXOFF"}
Transports == {"serial", "parallel", "usb", "ethernet"}
Kinds    == {"free", "blank", "destroyed"} \union Transports

VARIABLES
  kind,          \* p->port.type; "free" if not allocated, "blank" if no type was set,
                 \*   "destroyed" while aps_destroy_port is about to free it
  dev,           \* the device the structure names: set.*.device, node, busnum/devaddr
  is_open,       \* p->port.is_open
  handle,        \* set.serial.fd, set.par.fd, set.ethernet.sockfd, set.usb.hdev
  read_timeout, write_timeout,  \* 0: none
  got,           \* the bytes the last call has read
  files,         \* external: the device behind each descriptor of the process
  orphans,       \* history: descriptors that a failed open has left open
  misclosed,     \* history: open ports whose descriptor a failed close() has released
  inq,           \* bytes of the printer that wait to be read
  outq,          \* commands in the kernel's buffer
  todo,          \* answers the printer owes, byte after byte
  printer,       \* external: the printer behind each device, never changes
  speed          \* external: the speed of a serial line

ports    == <<kind, dev>>
fds      == <<handle, files, orphans, misclosed>>
queues   == <<inq, outq, todo>>
timeouts == <<read_timeout, write_timeout>>

-----------------------------------------------------------------------------
(* The device a call reaches through the descriptor in the port structure. *)
Reached(p) == files[handle[p]]

Lowest(h) == h \in Handles /\ files[h] = Closed /\ \A g \in Handles : g < h => files[g] # Closed

Takes(p, h) ==
  /\ handle' = [handle EXCEPT ![p] = h]
  /\ files' = [files EXCEPT ![h] = dev[p]]

(* The last descriptor of a device is closed: the kernel's buffers go.     *)
Hangup(d) ==
  /\ inq' = [inq EXCEPT ![d] = <<>>]
  /\ outq' = [outq EXCEPT ![d] = <<>>]
  /\ UNCHANGED todo

(* close(): Linux releases the descriptor whatever close() returns.        *)
CloseDescriptor(p, e) ==
  /\ files' = [files EXCEPT ![handle[p]] = Closed]
  /\ UNCHANGED <<handle, orphans>>
  /\ \/ e = "OK" /\ Reached(p) # Closed /\ UNCHANGED misclosed
     \/ e = "CLOSE_FAILED" /\ misclosed' = misclosed \union {p}
  /\ IF Reached(p) \in SerialDevices \union EthernetDevices
        /\ \A g \in Handles \ {handle[p]} : files[g] # Reached(p)
     THEN Hangup(Reached(p))
     ELSE UNCHANGED queues

-----------------------------------------------------------------------------
(* What printer d may answer to command c, received at the given speed.    *)
RightSpeed(d) == d \in SerialDevices => speed[d] = printer[d].speed

FlowByte(d) == IF printer[d].flow = "XONXOFF" THEN "sw" ELSE "hw"

(* A printer without parameters in its memory does not answer the query    *)
(* for them, or answers 0 (the comment of detect_serial_handshake).        *)
Answers(d, c) ==
  LET id == printer[d].id  type == TypeOf(id) IN
  IF id = Absent THEN {<<>>}
  ELSE IF ~RightSpeed(d) THEN {<<>>, <<"noise">>}
  ELSE
  CASE c = "status" /\ type = "KCP" -> {<<"st", "st", "st">>}
    [] c = "status" /\ type \notin {"KCP", "HSP"} -> {<<"st">>}
    [] c = "GS status" /\ type = "HSP" -> {<<"nul">>, <<"st">>}
    [] c = "identity" /\ type # "HSP" -> {<<id, "nul">>}
    [] c = "GS identity" /\ type = "HSP" -> {<<id, "nul">>}
    [] c = "MRS setting" /\ type = "MRS" -> {<<>>, <<"nul">>, <<FlowByte(d)>>}
    [] c = "HRS setting" /\ type \in {"HRS", "KCP"} -> {<<FlowByte(d)>>}
    [] OTHER -> {<<>>}

(* The printer receives command c through device d.                        *)
Receives(d, c) ==
  \E a \in Answers(d, c) :
    Len(todo[d] \o a) <= MaxPending /\ todo' = [todo EXCEPT ![d] = @ \o a]

(* The kernel sends the command it holds.                                  *)
Sends(d) ==
  IF outq[d] = <<>> THEN UNCHANGED <<outq, todo>>
  ELSE Receives(d, Head(outq[d])) /\ outq' = [outq EXCEPT ![d] = <<>>]

(* Reading n bytes from the sequence s: all of them, or with an error a    *)
(* part that the caller never sees.                                        *)
ReadsFrom(s, n, k, e, timeout) ==
  \/ e = "OK" /\ Len(s) >= n /\ k = n /\ got' = SubSeq(s, 1, n)
  \/ e = "READ_TIMEOUT" /\ timeout # 0 /\ Len(s) < n /\ k = Len(s) /\ got' = <<>>
  \/ e = "READ_FAILED" /\ k < n /\ got' = <<>>

=============================================================================
