------------------------------- MODULE UsbPort -------------------------------
(***************************************************************************)
(* The USB transport (src/src/aps/usb.c) on libusb.                        *)
(*                                                                         *)
(* External: libusb, the kernel and the bus.  The list of devices is a     *)
(* snapshot; a device that was unplugged never comes back, and none is     *)
(* plugged in.  An interface has one claim at a time, and only without a   *)
(* kernel driver.  A handle holds a descriptor; closing it gives up the    *)
(* claim.                                                                  *)
(*                                                                         *)
(* The code may walk a list it has freed.  What is found there is taken to *)
(* be what was there before, or nothing.  libusb_exit(NULL) may take the   *)
(* context from under the handles of other ports: their calls may fail     *)
(* from then on, as they may at any time.  The process does not crash.     *)
(***************************************************************************)
EXTENDS PortTable

CONSTANT Pid12   \* the USB devices with vendor 6868 and product 12

ASSUME Pid12Assumption == Pid12 \subseteq UsbDevices

VARIABLES
  libusb_ctx,   \* the context exists
  devs,         \* the list of devices: "null", "list", or "freed" if dangling
  devcnt,       \* its length, 0 or not
  listed,       \* the devices of APS in it
  pdev,         \* set.usb.pdev: "null", "dev", or "freed" if dangling
  was_kernel_driver_attached,
  read_buf,     \* the bytes from read_pos to read_len
  plugged,      \* external: the USB devices of the list that are still there
  driver,       \* external: devices with a kernel driver attached
  claim,        \* external: the handle that has claimed each interface, or 0
  found,        \* history: devices that had a driver before their last open
  abandoned     \* history: devices whose driver an error, usb_kill or an exit
                \*   from usb_open after detaching it has left detached

usbList == <<libusb_ctx, devs, devcnt, listed>>
usbBus  == <<plugged, driver, claim, found, abandoned>>
usbPort == <<pdev, was_kernel_driver_attached, read_buf>>
usbVars == <<usbList, usbBus, usbPort>>

-----------------------------------------------------------------------------
(* usb_custom: the first USB port of the process makes context and list.   *)
init_libusb ==
  IF libusb_ctx THEN UNCHANGED usbList
  ELSE libusb_ctx' = TRUE /\ devs' = "list" /\ devcnt' = 1 /\ listed' = plugged

(* libusb_free_device_list and libusb_exit: the devices of the list are    *)
(* gone, but the ports keep what points to them.                           *)
Dangles == pdev' = [p \in Ports |-> IF pdev[p] = "null" THEN "null" ELSE "freed"]

Fetched == IF devs' = "list" THEN "dev" ELSE "freed"

(* The context stays, so that init_libusb makes no other list.             *)
DropList == libusb_ctx' = TRUE /\ devs' = "null" /\ devcnt' = 0 /\ listed' = {} /\ Dangles

(* A descriptor cannot be read: the list stays set after it was freed.     *)
LeaveFreed ==
  /\ libusb_ctx' = TRUE /\ devs' = "freed" /\ devcnt' = 1
  /\ listed' = (IF libusb_ctx THEN listed ELSE plugged) /\ Dangles

(* The same in usb_list_ports, which forgets the context as well.          *)
ForgetList == libusb_ctx' = FALSE /\ devs' = "null" /\ devcnt' = 0 /\ listed' = {} /\ Dangles

(* The list has the device with the address in the structure.              *)
Listed(p) == devcnt # 0 /\ dev[p] \in listed

(* The flag is set from the result of libusb_detach_kernel_driver.         *)
Detaches_bug(p, d) ==
  /\ was_kernel_driver_attached' = [was_kernel_driver_attached EXCEPT ![p] = FALSE]
  /\ driver' = driver \ {d}
  /\ found' = IF d \in driver THEN found \union {d} ELSE found \ {d}

(* The kernel driver of an interface is detached before it is claimed.     *)
Detaches(p, d) ==
  /\ was_kernel_driver_attached' = [was_kernel_driver_attached EXCEPT ![p] = d \in driver]
  /\ driver' = driver \ {d}
  /\ found' = IF d \in driver THEN found \union {d} ELSE found \ {d}

(* usb_open.  Every error but the first frees the list.                    *)
usb_open(p, e) ==
  LET d == dev[p] IN
  /\ UNCHANGED <<queues, timeouts, orphans, misclosed, read_buf, plugged>>
  /\ \/ /\ e = "USB_DEVICE_NOT_FOUND"
        /\ UNCHANGED <<handle, files, driver, claim, found, abandoned,
                       was_kernel_driver_attached>>
        /\ IF devcnt = 0 THEN UNCHANGED <<usbList, pdev>> ELSE DropList \/ LeaveFreed
     \/ /\ e = "IO_ERROR" /\ Listed(p) /\ d \in plugged /\ DropList
        /\ UNCHANGED <<handle, files, claim>>
        /\ \/ UNCHANGED <<driver, found, abandoned, was_kernel_driver_attached>>
           \/ /\ UNCHANGED <<driver, found, abandoned>>
              /\ was_kernel_driver_attached' =
                   [was_kernel_driver_attached EXCEPT ![p] = d \in driver]
           \/ d \in driver /\ Detaches(p, d) /\ abandoned' = abandoned \union {d}
     \/ /\ e = "OK" /\ Listed(p) /\ d \in plugged /\ claim[d] = 0
        /\ UNCHANGED <<usbList, abandoned>>
        /\ Detaches(p, d)
        /\ \E h \in Handles : Lowest(h) /\ Takes(p, h) /\ claim' = [claim EXCEPT ![d] = h]
        /\ pdev' = [pdev EXCEPT ![p] = Fetched]

(* usb_close stops at the first error: an interface that was released is   *)
(* not claimed again, so that no later close can succeed.                  *)
usb_close(p, e) ==
  LET d == dev[p] IN
  /\ UNCHANGED <<queues, timeouts, orphans, misclosed, usbPort, usbList, plugged, found>>
  /\ \/ e = "IO_ERROR" /\ UNCHANGED <<handle, files, driver, claim, abandoned>>
     \/ /\ e = "IO_ERROR" /\ claim[d] = handle[p] /\ was_kernel_driver_attached[p]
        /\ claim' = [claim EXCEPT ![d] = 0] /\ abandoned' = abandoned \union {d}
        /\ UNCHANGED <<handle, files, driver>>
     \/ /\ e = "OK" /\ claim[d] = handle[p] /\ d \in plugged
        /\ claim' = [claim EXCEPT ![d] = 0]
        /\ driver' = IF was_kernel_driver_attached[p] THEN driver \union {d} ELSE driver
        /\ files' = [files EXCEPT ![handle[p]] = Closed]
        /\ handle' = [handle EXCEPT ![p] = 0]
        /\ UNCHANGED abandoned

usb_kill(p) ==
  LET d == dev[p] IN
  /\ files' = [files EXCEPT ![handle[p]] = Closed]
  /\ handle' = [handle EXCEPT ![p] = 0]
  /\ claim' = IF claim[d] = handle[p] THEN [claim EXCEPT ![d] = 0] ELSE claim
  /\ abandoned' = abandoned \union {d}
  /\ UNCHANGED <<queues, timeouts, orphans, misclosed, usbPort, usbList, plugged, driver, found>>

-----------------------------------------------------------------------------
Working(p) == dev[p] \in plugged /\ claim[dev[p]] = handle[p]

usb_control(p, e) ==
  /\ e = "OK" => Working(p)
  /\ e \in {"OK", "IO_ERROR"}
  /\ UNCHANGED <<usbVars, fds, queues, timeouts>>

(* Bulk transfers until an empty one ends the data; if that one fails the  *)
(* printer has the command all the same.                                   *)
usb_write(p, c, e) ==
  /\ e \in {"OK", "WRITE_FAILED"} \/ (e = "WRITE_TIMEOUT" /\ write_timeout[p] # 0)
  /\ \/ Working(p) /\ Receives(dev[p], c)
     \/ e # "OK" /\ UNCHANGED todo
  /\ UNCHANGED <<usbVars, inq, outq, fds, timeouts>>

(* What is left in the buffer, then transfers of any size; a transfer that *)
(* fails may have taken bytes from the printer, which are lost.            *)
usb_read_bug(p, n, e) ==
  LET d == dev[p]  s == inq[d] IN
  /\ e # "READ_FAILED" => Working(p)
  /\ \E k, m \in 0 .. Len(s) :
       /\ ReadsFrom(s, n, k, e, read_timeout[p]) /\ k <= m
       /\ read_buf' = [read_buf EXCEPT ![p] = IF e = "OK" THEN SubSeq(s, k + 1, m) ELSE <<>>]
       /\ inq' = [inq EXCEPT ![d] = SubSeq(s, m + 1, Len(s))]
  /\ UNCHANGED <<usbList, usbBus, pdev, was_kernel_driver_attached, outq, todo, fds, timeouts>>

usb_read(p, n, e) ==
  LET d == dev[p]  b == Len(read_buf[p])  s == read_buf[p] \o inq[d] IN
  /\ e # "READ_FAILED" /\ n > b => Working(p)
  /\ e # "OK" => n > b
  /\ \E k \in 0 .. Len(s), m \in b .. Len(s) :
       /\ k <= m /\ (n <= b \/ ~Working(p) => m = b)
       /\ ReadsFrom(s, n, k, e, read_timeout[p])
       /\ read_buf' = [read_buf EXCEPT ![p] = IF e = "OK" THEN SubSeq(s, k + 1, m) ELSE <<>>]
       /\ inq' = [inq EXCEPT ![d] = SubSeq(s, m + 1, Len(s))]
  /\ UNCHANGED <<usbList, usbBus, pdev, was_kernel_driver_attached, outq, todo, fds, timeouts>>

usb_sync(e) == e = "OK" /\ UNCHANGED <<usbVars, fds, queues, timeouts>>

(* Reads until a read fails, which discards what the printer has sent, or  *)
(* the first part of it.                                                   *)
usb_flush(p, e) ==
  LET s == inq[dev[p]] IN
  /\ e = "OK"
  /\ read_buf' = [read_buf EXCEPT ![p] = <<>>]
  /\ \/ Working(p) /\ \E k \in 0 .. Len(s) :
                       inq' = [inq EXCEPT ![dev[p]] = SubSeq(s, k + 1, Len(s))]
     \/ ~Working(p) /\ UNCHANGED inq
  /\ UNCHANGED <<usbList, usbBus, pdev, was_kernel_driver_attached, outq, todo, fds, timeouts>>

(* usb_get_uri: the URI needs the descriptor of a device, but does not     *)
(* tell which.  That of a device that was freed is read all the same.      *)
usb_get_uri(p) == IF pdev[p] = "null" THEN {"INVALID_URI"} ELSE {"OK", "INVALID_URI"}

(* External: a device leaves, and with it its driver and claim.            *)
Unplug(d) ==
  /\ d \in plugged
  /\ plugged' = plugged \ {d} /\ driver' = driver \ {d} /\ abandoned' = abandoned \union {d}
  /\ claim' = [claim EXCEPT ![d] = 0]
  /\ UNCHANGED <<found, usbList, usbPort>>

=============================================================================
