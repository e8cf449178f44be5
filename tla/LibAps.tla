------------------------------- MODULE LibAps -------------------------------
(***************************************************************************)
(* The port class of libaps (src/src/aps/aps.c) over its four transports.  *)
(* A call is an action with its return value as the parameter e; a call    *)
(* that waits is not taken before it can return.  One client, without      *)
(* threads, holds up to as many ports as Ports has names.                  *)
(*                                                                         *)
(* The parallel transport is seen from outside here: module ParallelPort   *)
(* has its steps.  It has no buffers, so that reading takes the bytes from *)
(* the printer and a flush leaves them there.                              *)
(***************************************************************************)
EXTENDS EthernetPort, UsbPort, Uri, Integers

CONSTANTS
  DefBaud,      \* SERIAL_DEFBAUDRATE, 9600 in the code
  Commands,     \* what the client writes
  Uris          \* the URIs it creates ports from

ASSUME DefBaudAssumption == DefBaud \in Bauds

VARIABLE mode      \* set.par.mode

world == <<fds, queues, timeouts, serialVars, usbVars, link, mode>>
vars  == <<ports, is_open, got, printer, world>>

OnlySerial   == UNCHANGED <<usbVars, link, mode>>
OnlyParallel == UNCHANGED <<serialVars, usbVars, link>>
OnlyUsb      == UNCHANGED <<serialVars, link, mode>>
OnlyEthernet == UNCHANGED <<usbVars, mode>>

-----------------------------------------------------------------------------
(* The parallel transport.                                                 *)

par_open(p, e) ==
  /\ UNCHANGED <<queues, timeouts, misclosed, mode>>
  /\ \/ e = "OPEN_FAILED" /\ UNCHANGED <<handle, files, orphans>>
     \/ /\ dev[p] # NoDevice
        /\ \E h \in Handles :
             /\ Lowest(h) /\ Takes(p, h)
             /\ \/ e = "OK" /\ UNCHANGED orphans
                \/ e = "IO_ERROR" /\ orphans' = orphans \union {h}

par_close(p, e) ==
  /\ \/ e = "IO_ERROR" /\ UNCHANGED <<fds, queues>>
     \/ CloseDescriptor(p, e)
  /\ UNCHANGED <<timeouts, mode>>

(* A call may fail after the printer has taken the last byte.              *)
par_write(p, c, e) ==
  /\ \/ e = "OK" /\ Reached(p) \in ParallelDevices /\ Receives(Reached(p), c)
     \/ /\ e \in {"WRITE_FAILED", "IO_ERROR"} \/ (e = "WRITE_TIMEOUT" /\ write_timeout[p] # 0)
        /\ UNCHANGED todo \/ (Reached(p) \in ParallelDevices /\ Receives(Reached(p), c))
  /\ UNCHANGED <<inq, outq, fds, timeouts, mode>>

par_read(p, n, e) ==
  LET d == Reached(p)  s == IF d \in ParallelDevices THEN inq[d] ELSE <<>> IN
  /\ d \in ParallelDevices \/ e = "IO_ERROR"
  /\ \E k \in 0 .. Len(s) :
       /\ \/ e # "READ_FAILED" /\ ReadsFrom(s, n, k, e, read_timeout[p])
          \/ e = "IO_ERROR" /\ k < n /\ got' = <<>>
       /\ inq' = IF k = 0 THEN inq ELSE [inq EXCEPT ![d] = SubSeq(s, k + 1, Len(s))]
  /\ UNCHANGED <<outq, todo, fds, timeouts, mode>>

par_sync(p, e) ==
  /\ e \in {"OK", "WRITE_TIMEOUT", "IO_ERROR"} /\ (e # "OK" => mode[p] = "IRQ")
  /\ UNCHANGED <<fds, queues, timeouts, mode>>

par_flush(p, e) ==
  /\ e \in {"OK", "WRITE_TIMEOUT", "IO_ERROR"} /\ (e = "WRITE_TIMEOUT" => mode[p] = "IRQ")
  /\ UNCHANGED <<fds, queues, timeouts, mode>>

(* nInit makes the printer forget its commands and answers.                *)
par_reset(p, e) ==
  /\ \/ /\ e \in {"OK", "IO_ERROR"} /\ Reached(p) \in ParallelDevices
        /\ inq' = [inq EXCEPT ![Reached(p)] = <<>>]
        /\ todo' = [todo EXCEPT ![Reached(p)] = <<>>]
     \/ e = "IO_ERROR" /\ UNCHANGED <<inq, todo>>
  /\ UNCHANGED <<outq, fds, timeouts, mode>>

par_set_mode(p, m, e) ==
  /\ \/ e = "OK" /\ m \in {"POLL", "IRQ"} /\ mode' = [mode EXCEPT ![p] = m]
     \/ e = "INVALID_PARALLEL_MODE" /\ m \notin {"POLL", "IRQ"} /\ UNCHANGED mode
  /\ UNCHANGED <<fds, queues, timeouts>>

-----------------------------------------------------------------------------
(* Dispatch through the function pointers of the port class.               *)

open_(p, e) ==
  \/ kind[p] = "serial"   /\ serial_open(p, e)   /\ OnlySerial
  \/ kind[p] = "parallel" /\ par_open(p, e)      /\ OnlyParallel
  \/ kind[p] = "usb"      /\ usb_open(p, e)      /\ OnlyUsb
  \/ kind[p] = "ethernet" /\ ethernet_open(p, e) /\ OnlyEthernet

close(p, e) ==
  \/ kind[p] = "serial"   /\ serial_close(p, e)   /\ OnlySerial
  \/ kind[p] = "parallel" /\ par_close(p, e)      /\ OnlyParallel
  \/ kind[p] = "usb"      /\ usb_close(p, e)      /\ OnlyUsb
  \/ kind[p] = "ethernet" /\ ethernet_close(p, e) /\ OnlyEthernet

write(p, c, e) ==
  \/ kind[p] = "serial"   /\ serial_write(p, c, e)   /\ OnlySerial
  \/ kind[p] = "parallel" /\ par_write(p, c, e)      /\ OnlyParallel
  \/ kind[p] = "usb"      /\ usb_write(p, c, e)      /\ OnlyUsb
  \/ kind[p] = "ethernet" /\ ethernet_write(p, c, e) /\ OnlyEthernet

write_rt(p, c, e) ==
  IF kind[p] = "serial" THEN serial_write_rt(p, c, e) /\ OnlySerial ELSE write(p, c, e)

read(p, n, e) ==
  \/ kind[p] = "serial"   /\ serial_read(p, n, e)   /\ OnlySerial
  \/ kind[p] = "parallel" /\ par_read(p, n, e)      /\ OnlyParallel
  \/ kind[p] = "usb"      /\ usb_read(p, n, e)      /\ OnlyUsb
  \/ kind[p] = "ethernet" /\ ethernet_read(p, n, e) /\ OnlyEthernet

sync(p, e) ==
  \/ kind[p] = "serial"   /\ serial_sync(p, e) /\ OnlySerial
  \/ kind[p] = "parallel" /\ par_sync(p, e)    /\ OnlyParallel
  \/ kind[p] = "usb"      /\ usb_sync(e)       /\ OnlyUsb
  \/ kind[p] = "ethernet" /\ ethernet_sync(e)  /\ OnlyEthernet

flush(p, e) ==
  \/ kind[p] = "serial"   /\ serial_flush(p, e) /\ OnlySerial
  \/ kind[p] = "parallel" /\ par_flush(p, e)    /\ OnlyParallel
  \/ kind[p] = "usb"      /\ usb_flush(p, e)    /\ OnlyUsb
  \/ kind[p] = "ethernet" /\ ethernet_flush(e)  /\ OnlyEthernet

-----------------------------------------------------------------------------
(* Creating and destroying ports.  build_port clears the structure.        *)

Builds(p, k, d) ==
  /\ kind[p] = "free"
  /\ kind' = [kind EXCEPT ![p] = k] /\ dev' = [dev EXCEPT ![p] = d]
  /\ got' = <<>>
  /\ UNCHANGED <<is_open, printer, fds, queues, timeouts, speed, flow, loose, usbBus,
                 was_kernel_driver_attached, read_buf, link>>

SetsUp(p, b, f) ==
  /\ baudrate' = [baudrate EXCEPT ![p] = b]
  /\ handshake' = [handshake EXCEPT ![p] = f]
  /\ asked' = [asked EXCEPT ![p] = f]

Named(d, e) == IF e = "OK" THEN d ELSE NoDevice

aps_create_serial_port(p, d, e) ==
  /\ e \in {"OK", "NAME_TOO_LONG"}
  /\ Builds(p, "serial", Named(d, e))
  /\ IF e = "OK" THEN SetsUp(p, DefBaud, "RTSCTS") ELSE UNCHANGED settings
  /\ UNCHANGED <<usbList, pdev, mode>>

aps_create_parallel_port(p, d, e) ==
  /\ e \in {"OK", "NAME_TOO_LONG"}
  /\ Builds(p, "parallel", Named(d, e))
  /\ UNCHANGED <<settings, usbList, pdev, mode>>

aps_create_ethernet_port(p, d, e) ==
  /\ e \in {"OK", "NAME_TOO_LONG"}
  /\ Builds(p, "ethernet", Named(d, e))
  /\ UNCHANGED <<settings, usbList, pdev, mode>>

(* usb_create and usb_create_from_address do nothing any more.             *)
aps_create_usb_port(p, e) ==
  /\ e \in {"OPEN_FAILED", "USB_DEVICE_NOT_FOUND"}
  /\ Builds(p, "usb", NoDevice) /\ init_libusb
  /\ UNCHANGED <<settings, pdev, mode>>

(* The words of a URI for settings, and back.                              *)
BaudWords == <<"1200", "2400", "4800", "9600", "19200", "38400", "57600", "115200">>
FlowWords == [f \in Flows |-> CASE f = "NONE" -> "none" [] f = "RTSCTS" -> "rtscts" [] OTHER -> "xonxoff"]
ModeWords == [m \in {"POLL", "IRQ"} |-> IF m = "POLL" THEN "poll" ELSE "irq"]

ASSUME RatesAssumption == MaxBaud < Len(BaudWords)

baudrate_to_string(b) == BaudWords[b + 1]
handshake_to_string(f) == FlowWords[f]
mode_to_string(m) == ModeWords[m]

string_to_baudrate(w)  == {b \in Bauds : BaudWords[b + 1] = w}
string_to_handshake(w) == {f \in Flows : FlowWords[f] = w}
string_to_mode(w)      == {m \in {"POLL", "IRQ"} : ModeWords[m] = w}

serial_get_uri(d, b, f) ==
  <<"aps", ":", d, "?", "type", "=", "serial", "+", "baudrate", "=", baudrate_to_string(b), "+",
    "handshake", "=", handshake_to_string(f)>>

par_get_uri(d, m) ==
  <<"aps", ":", d, "?", "type", "=", "parallel", "+", "mode", "=", mode_to_string(m)>>

UsbUri == <<"aps", ":", "/dev/bus/usb", "?", "type", "=", "usb", "+", "vid", "=", "0", "+", "pid", "=", "0">>

(* An error of string_to_baudrate taken for a baud rate.                   *)
BaudOf_bug(b) ==
  IF b = "" THEN DefBaud ELSE IF string_to_baudrate(b) = {} THEN -1
  ELSE CHOOSE x \in string_to_baudrate(b) : TRUE

BaudOf(b) ==
  IF b = "" \/ string_to_baudrate(b) = {} THEN DefBaud
  ELSE CHOOSE x \in string_to_baudrate(b) : TRUE

FlowOf(f) ==
  IF f = "" \/ string_to_handshake(f) = {} THEN "RTSCTS"
  ELSE CHOOSE x \in string_to_handshake(f) : TRUE

(* serial_create_from_uri: an unknown word stops where it is met, and the  *)
(* defaults stay for what comes behind it.                                 *)
serial_create_from_uri(p, su, e) ==
  LET b == uri_get_opt(su, "baudrate")   NoBaud == b # "" /\ string_to_baudrate(b) = {}
      f == uri_get_opt(su, "handshake")  NoFlow == f # "" /\ string_to_handshake(f) = {}
  IN /\ e = IF NoBaud THEN "INVALID_BAUDRATE" ELSE IF NoFlow THEN "INVALID_HANDSHAKE" ELSE "OK"
     /\ SetsUp(p, BaudOf(b), IF NoBaud THEN "RTSCTS" ELSE FlowOf(f))

par_create_from_uri(p, su, e) ==
  LET m == uri_get_opt(su, "mode")  ms == string_to_mode(m) IN
  \/ e = "INVALID_PARALLEL_MODE" /\ m # "" /\ ms = {} /\ UNCHANGED mode
  \/ e = "OK" /\ m = "" /\ UNCHANGED mode
  \/ e = "OK" /\ ms # {} /\ \E x \in ms : mode' = [mode EXCEPT ![p] = x]

(* usb_custom, then usb_create_from_uri: whatever vid and pid say, the     *)
(* first device of the list with the numbers in the code is taken.  If     *)
(* there is none the list is dropped, also for other printers of APS.      *)
usb_create_from_uri(p, su, d, e) ==
  LET count == IF libusb_ctx THEN devcnt ELSE 1
      list  == Pid12 \intersect IF libusb_ctx THEN listed ELSE plugged
      named == uri_get_opt(su, "vid") # "" /\ uri_get_opt(su, "pid") # ""
  IN \/ e = "USB_DEVICE_NOT_FOUND" /\ count = 0 /\ d = NoDevice /\ UNCHANGED <<usbList, pdev>>
     \/ /\ e = "INVALID_URI" /\ count # 0 /\ ~named /\ d = NoDevice
        /\ init_libusb /\ UNCHANGED pdev
     \/ e = "OK" /\ count # 0 /\ named /\ d \in list /\ init_libusb /\ UNCHANGED pdev
     \/ /\ e = "USB_DEVICE_NOT_FOUND" /\ count # 0 /\ named /\ d = NoDevice
        /\ LeaveFreed \/ ((list = {} \/ devs = "freed") /\ DropList)

Parsed == [u \in Uris |-> uri_split(u)]

(* A client names the device of a URI after its type.                      *)
ASSUME UrisAssumption ==
  \A u \in Uris :
    LET su == Parsed[u] IN
    su.valid =>
      /\ uri_get_opt(su, "type") = "serial" => uri_get_device(su) \in SerialDevices
      /\ uri_get_opt(su, "type") = "parallel" => uri_get_device(su) \in ParallelDevices
      /\ uri_get_opt(su, "type") = "ethernet" => uri_get_device(su) \in EthernetDevices

aps_create_port(p, u, e) ==
  LET su   == Parsed[u]
      type == IF su.valid THEN uri_get_opt(su, "type") ELSE ""
      d    == IF su.valid THEN uri_get_device(su) ELSE NoDevice
  IN \/ /\ type \notin Transports
        /\ e = IF type = "" THEN "INVALID_URI" ELSE "INVALID_PORT_TYPE"
        /\ Builds(p, "blank", NoDevice) /\ UNCHANGED <<settings, usbList, pdev, mode>>
     \/ /\ type = "serial"
        /\ Builds(p, "serial", d) /\ serial_create_from_uri(p, su, e)
        /\ UNCHANGED <<usbList, pdev, mode>>
     \/ /\ type = "parallel"
        /\ Builds(p, "parallel", d) /\ par_create_from_uri(p, su, e)
        /\ UNCHANGED <<settings, usbList, pdev>>
     \/ /\ type = "usb"
        /\ \E x \in UsbDevices \union {NoDevice} :
             Builds(p, "usb", x) /\ usb_create_from_uri(p, su, x, e)
        /\ UNCHANGED <<settings, mode>>
     \/ /\ type = "ethernet" /\ e = "OK"
        /\ Builds(p, "ethernet", d) /\ UNCHANGED <<settings, usbList, pdev, mode>>
     \/ /\ type \in {"serial", "parallel", "ethernet"} /\ e = "NAME_TOO_LONG"
        /\ Builds(p, type, NoDevice) /\ UNCHANGED <<settings, usbList, pdev, mode>>

(* usb_list_ports: the port of an APS printer, without its address.  It    *)
(* returns "NONE" where the code counts no port.                           *)
ListResults == {"OK", "NONE", "USB_DEVICE_NOT_FOUND"}

usb_list_ports(p, e) ==
  /\ kind[p] = "free" /\ got' = <<>>
  /\ \/ /\ e = "OK" /\ init_libusb /\ devcnt' # 0 /\ listed' # {}
        /\ kind' = [kind EXCEPT ![p] = "usb"] /\ pdev' = [pdev EXCEPT ![p] = Fetched]
     \/ /\ e = "NONE" /\ init_libusb /\ (devcnt' = 0 \/ listed' = {} \/ devs' = "freed")
        /\ UNCHANGED <<kind, pdev>>
     \/ /\ e = "USB_DEVICE_NOT_FOUND" /\ (libusb_ctx => devcnt # 0) /\ ForgetList
        /\ UNCHANGED kind
  /\ UNCHANGED <<dev, is_open, printer, fds, queues, timeouts, serialVars, usbBus,
                 was_kernel_driver_attached, read_buf, link, mode>>

Frees(p) ==
  /\ kind[p] = "destroyed"
  /\ kind' = [kind EXCEPT ![p] = "free"] /\ dev' = [dev EXCEPT ![p] = NoDevice]
  /\ handle' = [handle EXCEPT ![p] = 0]
  /\ read_timeout' = [read_timeout EXCEPT ![p] = 0]
  /\ write_timeout' = [write_timeout EXCEPT ![p] = 0]
  /\ SetsUp(p, 0, "NONE")
  /\ loose' = [loose EXCEPT ![p] = FALSE]
  /\ pdev' = [pdev EXCEPT ![p] = "null"]
  /\ was_kernel_driver_attached' = [was_kernel_driver_attached EXCEPT ![p] = FALSE]
  /\ read_buf' = [read_buf EXCEPT ![p] = <<>>]
  /\ mode' = [mode EXCEPT ![p] = "POLL"]
  /\ got' = <<>>
  /\ UNCHANGED <<is_open, printer, files, orphans, misclosed, queues, speed, flow, usbList,
                 usbBus, link>>

-----------------------------------------------------------------------------
(* The calls.                                                              *)

(* A client may go on with a port whose close() has failed, as             *)
(* aps_destroy_port does, but not when its descriptor is in use again.     *)
InUse(p) == kind[p] \in Transports /\ (p \in misclosed => Reached(p) = Closed)

NotOpen(p, e) == ~is_open[p] /\ e = "PORT_NOT_OPEN" /\ UNCHANGED world
WrongType(p, k, e) == is_open[p] /\ kind[p] # k /\ e = "INVALID_PORT_TYPE" /\ UNCHANGED world

Keeps == got' = <<>> /\ UNCHANGED <<ports, is_open, printer>>

aps_open(p, e) ==
  /\ InUse(p) /\ got' = <<>> /\ UNCHANGED <<ports, printer>>
  /\ \/ is_open[p] /\ e = "PORT_ALREADY_OPEN" /\ UNCHANGED <<is_open, world>>
     \/ ~is_open[p] /\ open_(p, e) /\ is_open' = [is_open EXCEPT ![p] = (e = "OK")]

Shuts_bug(p, e) == close(p, e) /\ UNCHANGED is_open

Shuts(p, e) == close(p, e) /\ is_open' = [is_open EXCEPT ![p] = (e # "OK")]

aps_close(p, e) ==
  /\ InUse(p) /\ got' = <<>> /\ UNCHANGED <<ports, printer>>
  /\ \/ NotOpen(p, e) /\ UNCHANGED is_open
     \/ is_open[p] /\ Shuts(p, e)

(* aps_destroy_port: an open port is closed first, and kept if that fails. *)
aps_destroy_port(p, e) ==
  /\ (InUse(p) \/ kind[p] = "blank") /\ got' = <<>> /\ UNCHANGED <<dev, printer>>
  /\ \/ ~is_open[p] /\ e = "OK" /\ UNCHANGED <<is_open, world>>
     \/ is_open[p] /\ Shuts(p, e)
  /\ kind' = IF e = "OK" THEN [kind EXCEPT ![p] = "destroyed"] ELSE kind

aps_write(p, c, e) ==
  InUse(p) /\ Keeps /\ (NotOpen(p, e) \/ (is_open[p] /\ write(p, c, e)))

aps_write_rt(p, c, e) ==
  InUse(p) /\ Keeps /\ (NotOpen(p, e) \/ (is_open[p] /\ write_rt(p, c, e)))

(* aps_gets is a loop of calls that read one byte.                         *)
aps_read(p, n, e) ==
  /\ InUse(p) /\ UNCHANGED <<ports, is_open, printer>>
  /\ \/ NotOpen(p, e) /\ got' = <<>>
     \/ is_open[p] /\ read(p, n, e)

aps_sync(p, e) == InUse(p) /\ Keeps /\ (NotOpen(p, e) \/ (is_open[p] /\ sync(p, e)))

aps_flush(p, e) == InUse(p) /\ Keeps /\ (NotOpen(p, e) \/ (is_open[p] /\ flush(p, e)))

aps_serial_set_baudrate(p, b, e) ==
  /\ InUse(p) /\ Keeps
  /\ \/ NotOpen(p, e) \/ WrongType(p, "serial", e)
     \/ is_open[p] /\ kind[p] = "serial" /\ serial_set_baudrate(p, b, e) /\ OnlySerial

aps_serial_set_handshake(p, f, e) ==
  /\ InUse(p) /\ Keeps
  /\ \/ NotOpen(p, e) \/ WrongType(p, "serial", e)
     \/ is_open[p] /\ kind[p] = "serial" /\ serial_set_handshake(p, f, e) /\ OnlySerial

aps_serial_get_baudrate(p)  == IF kind[p] = "serial" THEN baudrate[p] ELSE "INVALID_PORT_TYPE"
aps_serial_get_handshake(p) == IF kind[p] = "serial" THEN handshake[p] ELSE "INVALID_PORT_TYPE"

aps_parallel_reset(p, e) ==
  /\ InUse(p) /\ Keeps
  /\ \/ NotOpen(p, e) \/ WrongType(p, "parallel", e)
     \/ is_open[p] /\ kind[p] = "parallel" /\ par_reset(p, e) /\ OnlyParallel

(* Also for a port that is not open.                                       *)
aps_parallel_set_mode(p, m, e) ==
  /\ InUse(p) /\ Keeps
  /\ \/ kind[p] # "parallel" /\ e = "INVALID_PORT_TYPE" /\ UNCHANGED world
     \/ kind[p] = "parallel" /\ par_set_mode(p, m, e) /\ OnlyParallel

aps_usb_control(p, e) ==
  /\ InUse(p) /\ Keeps
  /\ \/ NotOpen(p, e) \/ WrongType(p, "usb", e)
     \/ is_open[p] /\ kind[p] = "usb" /\ usb_control(p, e) /\ OnlyUsb

aps_usb_kill(p, e) ==
  /\ InUse(p) /\ got' = <<>> /\ UNCHANGED <<ports, printer>>
  /\ \/ (NotOpen(p, e) \/ WrongType(p, "usb", e)) /\ UNCHANGED is_open
     \/ /\ is_open[p] /\ kind[p] = "usb" /\ e = "OK" /\ usb_kill(p) /\ OnlyUsb
        /\ is_open' = [is_open EXCEPT ![p] = FALSE]

aps_set_write_timeout(p, ms, e) ==
  /\ InUse(p) /\ Keeps
  /\ \/ ms < 0 /\ e = "INVALID_TIMEOUT" /\ UNCHANGED write_timeout
     \/ ms >= 0 /\ e = "OK" /\ write_timeout' = [write_timeout EXCEPT ![p] = ms]
  /\ UNCHANGED <<fds, queues, read_timeout, serialVars, usbVars, link, mode>>

aps_set_read_timeout(p, ms, e) ==
  /\ InUse(p) /\ Keeps
  /\ \/ ms < 0 /\ e = "INVALID_TIMEOUT" /\ UNCHANGED read_timeout
     \/ ms >= 0 /\ e = "OK" /\ read_timeout' = [read_timeout EXCEPT ![p] = ms]
  /\ UNCHANGED <<fds, queues, write_timeout, serialVars, usbVars, link, mode>>

-----------------------------------------------------------------------------
(* The client: any call at any time on any port it holds.  A device is     *)
(* opened through one port at a time; USB devices are not under that rule, *)
(* because only one port can claim them.                                   *)

(* aps_destroy_port ends before the next call.                             *)
Between == \A p \in Ports : kind[p] # "destroyed"

Alone(p) == dev[p] \in UsbDevices \/ \A q \in Ports : is_open[q] => dev[q] # dev[p]

(* What each call may return.                                              *)
CreateErrors == {"OK", "NAME_TOO_LONG", "OPEN_FAILED", "USB_DEVICE_NOT_FOUND", "INVALID_URI",
                 "INVALID_PORT_TYPE", "INVALID_BAUDRATE", "INVALID_HANDSHAKE", "INVALID_PARALLEL_MODE"}
OpenErrors   == {"OK", "PORT_ALREADY_OPEN", "OPEN_FAILED", "IO_ERROR", "USB_DEVICE_NOT_FOUND",
                 "ETHERNET_ERROR", "OPEN_TIMEOUT"}
CloseErrors  == {"OK", "PORT_NOT_OPEN", "IO_ERROR", "CLOSE_FAILED"}
WriteErrors  == {"OK", "PORT_NOT_OPEN", "IO_ERROR", "WRITE_FAILED", "WRITE_TIMEOUT",
                 "SYNC_FAILED", "FLUSH_FAILED"}
ReadErrors   == {"OK", "PORT_NOT_OPEN", "IO_ERROR", "READ_FAILED", "READ_TIMEOUT"}
DrainErrors  == {"OK", "PORT_NOT_OPEN", "IO_ERROR", "WRITE_TIMEOUT", "SYNC_FAILED", "FLUSH_FAILED"}
SetErrors    == {"OK", "PORT_NOT_OPEN", "IO_ERROR", "INVALID_PORT_TYPE", "INVALID_PARALLEL_MODE",
                 "INVALID_TIMEOUT"}

Create(p) ==
  /\ Between
  /\ \/ \E e \in CreateErrors :
          \/ \E d \in SerialDevices : aps_create_serial_port(p, d, e)
          \/ \E d \in ParallelDevices : aps_create_parallel_port(p, d, e)
          \/ \E d \in EthernetDevices : aps_create_ethernet_port(p, d, e)
          \/ aps_create_usb_port(p, e)
          \/ \E u \in Uris : aps_create_port(p, u, e)
     \/ \E e \in ListResults : usb_list_ports(p, e)

Open(p)    == Between /\ (is_open[p] \/ Alone(p)) /\ \E e \in OpenErrors : aps_open(p, e)
Shut(p)    == Between /\ \E e \in CloseErrors : aps_close(p, e)
Destroy(p) == Between /\ \E e \in CloseErrors : aps_destroy_port(p, e)

Write(p)   == Between /\ \E e \in WriteErrors, c \in Commands : aps_write(p, c, e)
WriteRt(p) == Between /\ \E e \in WriteErrors, c \in Commands : aps_write_rt(p, c, e)
Read(p)    == Between /\ \E e \in ReadErrors, n \in 1 .. MaxPending : aps_read(p, n, e)
Sync(p)    == Between /\ \E e \in DrainErrors : aps_sync(p, e)
Flush(p)   == Between /\ \E e \in DrainErrors : aps_flush(p, e)

SetSerial(p) ==
  /\ Between
  /\ \E e \in SetErrors :
       \/ \E b \in Bauds : aps_serial_set_baudrate(p, b, e)
       \/ \E f \in Flows : aps_serial_set_handshake(p, f, e)

SetParallel(p) ==
  /\ Between
  /\ \E e \in SetErrors :
       \/ aps_parallel_reset(p, e)
       \/ \E m \in {"POLL", "IRQ", "ECP"} : aps_parallel_set_mode(p, m, e)

Control(p) == Between /\ \E e \in SetErrors : aps_usb_control(p, e)
Kill(p)    == Between /\ \E e \in SetErrors : aps_usb_kill(p, e)

SetTimeouts(p) ==
  /\ Between
  /\ \E e \in SetErrors, ms \in {-1, 0, 1} :
       aps_set_write_timeout(p, ms, e) \/ aps_set_read_timeout(p, ms, e)

-----------------------------------------------------------------------------
(* The environment: the kernel sends what it holds, a printer answers,     *)
(* closes its connection or is unplugged.                                  *)

Listening(d) ==
  \/ d \in ParallelDevices \union UsbDevices
  \/ (d \in EthernetDevices => link[d] = "up") /\ \E h \in Handles : files[h] = d

Transmit(d) ==
  /\ outq[d] # <<>>
  /\ IF d \in EthernetDevices /\ link[d] = "down"
     THEN outq' = [outq EXCEPT ![d] = <<>>] /\ UNCHANGED todo
     ELSE Sends(d)
  /\ UNCHANGED <<ports, is_open, got, printer, fds, inq, timeouts, serialVars, usbVars, link, mode>>

Arriving(d) == IF RightSpeed(d) THEN Head(todo[d]) ELSE "noise"

Answer(d) ==
  /\ todo[d] # <<>> /\ todo' = [todo EXCEPT ![d] = Tail(@)]
  /\ IF Listening(d)
     THEN Len(inq[d]) < MaxPending /\ inq' = [inq EXCEPT ![d] = Append(@, Arriving(d))]
     ELSE UNCHANGED inq
  /\ UNCHANGED <<ports, is_open, got, printer, fds, outq, timeouts, serialVars, usbVars, link, mode>>

HangsUp(d) ==
  /\ PrinterHangsUp(d)
  /\ UNCHANGED <<ports, is_open, got, printer, fds, queues, timeouts, serialVars, usbVars, mode>>

Leaves(d) ==
  /\ Unplug(d)
  /\ UNCHANGED <<ports, is_open, got, printer, fds, queues, timeouts, serialVars, link, mode>>

Environment ==
  \/ \E d \in SerialDevices \union EthernetDevices : Transmit(d)
  \/ \E d \in Devices : Answer(d)
  \/ \E d \in EthernetDevices : HangsUp(d)
  \/ \E d \in UsbDevices : Leaves(d)

-----------------------------------------------------------------------------
Init ==
  /\ kind = [p \in Ports |-> "free"] /\ dev = [p \in Ports |-> NoDevice]
  /\ is_open = [p \in Ports |-> FALSE] /\ handle = [p \in Ports |-> 0]
  /\ read_timeout = [p \in Ports |-> 0] /\ write_timeout = [p \in Ports |-> 0]
  /\ got = <<>>
  /\ files = [h \in Handles |-> Closed] /\ orphans = {} /\ misclosed = {}
  /\ inq = [d \in Devices |-> <<>>] /\ outq = inq /\ todo = inq
  /\ printer \in [Devices -> Printers]
  /\ baudrate = [p \in Ports |-> 0] /\ handshake = [p \in Ports |-> "NONE"] /\ asked = handshake
  /\ speed = [d \in SerialDevices |-> 0] /\ flow = [d \in SerialDevices |-> "NONE"]
  /\ loose = [p \in Ports |-> FALSE]
  /\ libusb_ctx = FALSE /\ devs = "null" /\ devcnt = 0 /\ listed = {}
  /\ pdev = [p \in Ports |-> "null"] /\ was_kernel_driver_attached = [p \in Ports |-> FALSE]
  /\ read_buf = [p \in Ports |-> <<>>]
  /\ plugged \in SUBSET UsbDevices /\ driver \in SUBSET plugged
  /\ claim = [d \in UsbDevices |-> 0] /\ found = {} /\ abandoned = {}
  /\ link = [d \in EthernetDevices |-> "up"]
  /\ mode = [p \in Ports |-> "POLL"]

Calls(p) ==
  \/ Create(p) \/ Open(p) \/ Shut(p) \/ Destroy(p) \/ Frees(p)
  \/ Write(p) \/ WriteRt(p) \/ Read(p) \/ Sync(p) \/ Flush(p)
  \/ SetSerial(p) \/ SetParallel(p) \/ Control(p) \/ Kill(p) \/ SetTimeouts(p)

Next == (\E p \in Ports : Calls(p)) \/ Environment

Spec == Init /\ [][Next]_vars

-----------------------------------------------------------------------------
(* Correctness.                                                            *)

Bytes == {"st", "nul", "noise", "hw", "sw"} \union {x.id : x \in Printers}
Streaming(p) ==
  is_open[p] /\ p \notin misclosed /\ (kind[p] = "usb" => Working(p))

PortTypes ==
  /\ kind \in [Ports -> Kinds] /\ dev \in [Ports -> Devices \union {NoDevice}]
  /\ is_open \in [Ports -> BOOLEAN] /\ handle \in [Ports -> Handles \union {0}]
  /\ files \in [Handles -> Devices \union {Closed}]
  /\ orphans \subseteq Handles /\ misclosed \subseteq Ports

QueueTypes ==
  /\ got \in Seq(Bytes) /\ read_buf \in [Ports -> Seq(Bytes)]
  /\ inq \in [Devices -> Seq(Bytes)] /\ outq \in [Devices -> Seq(Commands)]
  /\ todo \in [Devices -> Seq(Bytes)]
  /\ printer \in [Devices -> Printers]

SettingTypes ==
  /\ read_timeout \in [Ports -> {0, 1}] /\ write_timeout \in [Ports -> {0, 1}]
  /\ baudrate \in [Ports -> Bauds] /\ handshake \in [Ports -> Flows] /\ asked \in [Ports -> Flows]
  /\ speed \in [SerialDevices -> Bauds] /\ flow \in [SerialDevices -> Flows]
  /\ loose \in [Ports -> BOOLEAN]
  /\ link \in [EthernetDevices -> {"up", "down"}]
  /\ mode \in [Ports -> {"POLL", "IRQ"}]

UsbTypes ==
  /\ libusb_ctx \in BOOLEAN /\ devs \in {"null", "list", "freed"} /\ devcnt \in {0, 1}
  /\ listed \subseteq UsbDevices
  /\ pdev \in [Ports -> {"null", "dev", "freed"}] /\ was_kernel_driver_attached \in [Ports -> BOOLEAN]
  /\ plugged \subseteq UsbDevices /\ driver \subseteq UsbDevices
  /\ claim \in [UsbDevices -> Handles \union {0}]
  /\ found \subseteq UsbDevices /\ abandoned \subseteq UsbDevices

(* Every variable has its type (port structures, descriptors, queues,      *)
(* lines, the libusb globals of usb.c).                                    *)
TypeOK == PortTypes /\ QueueTypes /\ SettingTypes /\ UsbTypes

(* The descriptor in an open port is its own and leads to its device, and  *)
(* no descriptor of the process is open without a port, except those that  *)
(* the error paths of serial_open, par_open and ethernet_open leave.       *)
HandlesAccounted ==
  LET Holders == {p \in Ports : is_open[p] /\ p \notin misclosed} IN
  /\ \A p \in Holders : /\ handle[p] \in Handles \ orphans
                        /\ files[handle[p]] = dev[p]
                        /\ \A r \in Holders : handle[r] = handle[p] => r = p
  /\ \A h \in Handles : files[h] # Closed => h \in orphans \/ \E p \in Holders : handle[p] = h

(* The settings in the structure of a serial port in use are the ones      *)
(* asked for, whatever calls have failed half way, and its line has them,  *)
(* with one exception: after a serial_write_rt that failed once it had     *)
(* turned the handshake off the line has none, until the next call that    *)
(* sets it or opens the port, while the structure still tells the other.   *)
SettingsKept ==
  \A p \in Ports :
    is_open[p] /\ kind[p] = "serial" /\ p \notin misclosed =>
      /\ handshake[p] = asked[p]
      /\ speed[dev[p]] = baudrate[p]
      /\ flow[dev[p]] = IF loose[p] THEN "NONE" ELSE handshake[p]

(* An interface that nobody uses any more has its kernel driver back if it *)
(* had one before (usb_open, usb_close), unless an error or usb_kill came  *)
(* in between.                                                             *)
DriverBack ==
  \A d \in UsbDevices \ abandoned : claim[d] = 0 /\ d \in found => d \in driver

(* The bytes from a printer: see module PortContract.  The buffer of a USB *)
(* port comes before what the printer still holds.                         *)
Stream(p) ==
  IF ~is_open[p] \/ p \in misclosed THEN <<>>
  ELSE read_buf[p] \o (IF Streaming(p) THEN inq[dev[p]] ELSE <<>>)

Promise == INSTANCE PortContract WITH
  st <- [p \in Ports |-> IF kind[p] = "free" THEN "none" ELSE IF is_open[p] THEN "open" ELSE "closed"],
  q  <- [p \in Ports |-> Stream(p)]

Contract == Promise!Spec

=============================================================================
