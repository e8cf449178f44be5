---------------------------- MODULE LibApsProofs ----------------------------
(***************************************************************************)
(* Proofs about libaps, for any ports, devices, printers, commands and     *)
(* URIs.  A step does one of few things to the descriptors: the lemma      *)
(* HandleStep says so once, and the parts of the invariant about ports and *)
(* descriptors follow from it without another look at the calls.           *)
(***************************************************************************)
EXTENDS LibAps, SequenceTheorems, TLAPS

(* The device of a port is of the port's transport.                        *)
Fits(k, d) ==
  /\ k = "serial" => d \in SerialDevices \union {NoDevice}
  /\ k = "parallel" => d \in ParallelDevices \union {NoDevice}
  /\ k = "usb" => d \in UsbDevices \union {NoDevice}
  /\ k = "ethernet" => d \in EthernetDevices \union {NoDevice}
  /\ k \in {"free", "blank"} => d = NoDevice

PortInv ==
  \A p \in Ports :
    /\ Fits(kind[p], dev[p])
    /\ is_open[p] => kind[p] \in Transports /\ dev[p] # NoDevice
    /\ p \in misclosed => is_open[p] /\ kind[p] # "usb"

(* Two open ports have different devices, but for USB.                     *)
AloneInv ==
  \A p, r \in Ports :
    is_open[p] /\ is_open[r] /\ dev[p] = dev[r] => p = r \/ dev[p] \in UsbDevices

(* A descriptor that was left behind stays open.                           *)
OrphanInv == \A h \in orphans : files[h] # Closed

-----------------------------------------------------------------------------
(* What a step may do to ports and descriptors.                            *)

Same == UNCHANGED <<kind, dev, is_open, handle, files, orphans, misclosed>>

Built(p) ==
  /\ kind[p] = "free"
  /\ \E k \in Kinds \ {"free", "destroyed"}, d \in Devices \union {NoDevice} :
       Fits(k, d) /\ kind' = [kind EXCEPT ![p] = k] /\ dev' = [dev EXCEPT ![p] = d]
  /\ UNCHANGED <<is_open, handle, files, orphans, misclosed>>

Opened(p, h) ==
  /\ ~is_open[p] /\ kind[p] \in Transports /\ dev[p] # NoDevice /\ Alone(p) /\ Lowest(h)
  /\ is_open' = [is_open EXCEPT ![p] = TRUE]
  /\ handle' = [handle EXCEPT ![p] = h] /\ files' = [files EXCEPT ![h] = dev[p]]
  /\ UNCHANGED <<kind, dev, orphans, misclosed>>

Leaked(p, h) ==
  /\ ~is_open[p] /\ dev[p] # NoDevice /\ Lowest(h)
  /\ handle' \in {[handle EXCEPT ![p] = h], [handle EXCEPT ![p] = 0]}
  /\ files' = [files EXCEPT ![h] = dev[p]] /\ orphans' = orphans \union {h}
  /\ UNCHANGED <<kind, dev, is_open, misclosed>>

Released(p) ==
  /\ is_open[p] /\ p \notin misclosed
  /\ kind' \in {kind, [kind EXCEPT ![p] = "destroyed"]}
  /\ is_open' = [is_open EXCEPT ![p] = FALSE]
  /\ handle' \in {handle, [handle EXCEPT ![p] = 0]}
  /\ files' = [files EXCEPT ![handle[p]] = Closed]
  /\ UNCHANGED <<dev, orphans, misclosed>>

Misclosed(p) ==
  /\ is_open[p] /\ kind[p] # "usb" /\ (p \in misclosed => files[handle[p]] = Closed)
  /\ files' = [files EXCEPT ![handle[p]] = Closed]
  /\ misclosed' = misclosed \union {p}
  /\ UNCHANGED <<kind, dev, is_open, handle, orphans>>

Retired(p) ==
  /\ ~is_open[p] /\ kind' = [kind EXCEPT ![p] = "destroyed"]
  /\ UNCHANGED <<dev, is_open, handle, files, orphans, misclosed>>

Freed(p) ==
  /\ kind[p] = "destroyed"
  /\ kind' = [kind EXCEPT ![p] = "free"] /\ dev' = [dev EXCEPT ![p] = NoDevice]
  /\ handle' = [handle EXCEPT ![p] = 0]
  /\ UNCHANGED <<is_open, files, orphans, misclosed>>

Lives(p) ==
  \/ Built(p) \/ Released(p) \/ Misclosed(p) \/ Retired(p) \/ Freed(p)
  \/ \E h \in Handles : Opened(p, h) \/ Leaked(p, h)

Data(p) ==
  \/ Write(p) \/ WriteRt(p) \/ Read(p) \/ Sync(p) \/ Flush(p)
  \/ SetSerial(p) \/ SetParallel(p) \/ Control(p) \/ SetTimeouts(p)

-----------------------------------------------------------------------------
USE DevicesAssumption, KindsAssumption, PrintersAssumption, BoundsAssumption, DefBaudAssumption
  DEF Devices, NoDevice, Closed
USE DEF vars, world, ports, fds, queues, timeouts, serialVars, settings, usbVars, usbList,
        usbBus, usbPort

(* The calls that move data or change settings.                            *)
LEMMA DataFrame ==
  ASSUME NEW p \in Ports, Data(p)
  PROVE  UNCHANGED <<kind, dev, is_open, handle, files, orphans, misclosed, printer, usbList, usbBus, pdev,
                     was_kernel_driver_attached>>
<1>1. CASE Write(p)
  BY <1>1 DEF Write, Between, aps_write, InUse, Reached, Keeps, NotOpen, write,
     serial_write, WriteStream, OnlySerial, par_write, OnlyParallel, usb_write, Working,
     OnlyUsb, ethernet_write, OnlyEthernet
<1>2. CASE WriteRt(p)
  BY <1>2 DEF WriteRt, Between, aps_write_rt, InUse, Reached, Keeps, NotOpen, write_rt,
     serial_write_rt, Hangup, Restored, FlowOff, FlowOn, OnlySerial, write, serial_write,
     WriteStream, par_write, OnlyParallel, usb_write, Working, OnlyUsb, ethernet_write,
     OnlyEthernet
<1>3. CASE Read(p)
  BY <1>3 DEF Read, Between, aps_read, InUse, Reached, NotOpen, read, serial_read,
     ReadStream, OnlySerial, par_read, OnlyParallel, usb_read, Working, OnlyUsb,
     ethernet_read, OnlyEthernet
<1>4. CASE Sync(p)
  BY <1>4 DEF Sync, Between, aps_sync, InUse, Reached, Keeps, NotOpen, sync, serial_sync,
     OnlySerial, par_sync, OnlyParallel, usb_sync, OnlyUsb, ethernet_sync, OnlyEthernet
<1>5. CASE Flush(p)
  BY <1>5 DEF Flush, Between, aps_flush, InUse, Reached, Keeps, NotOpen, flush,
     serial_flush, Hangup, OnlySerial, par_flush, OnlyParallel, usb_flush, Working,
     OnlyUsb, ethernet_flush, OnlyEthernet
<1>6. CASE SetSerial(p)
  BY <1>6 DEF SetSerial, Between, aps_serial_set_baudrate, InUse, Reached, Keeps, NotOpen,
     WrongType, serial_set_baudrate, OnlySerial, aps_serial_set_handshake,
     serial_set_handshake
<1>7. CASE SetParallel(p)
  BY <1>7 DEF SetParallel, Between, aps_parallel_reset, InUse, Reached, Keeps, NotOpen,
     WrongType, par_reset, OnlyParallel, aps_parallel_set_mode, par_set_mode
<1>8. CASE Control(p)
  BY <1>8 DEF Control, Between, aps_usb_control, InUse, Reached, Keeps, NotOpen, WrongType,
     usb_control, Working, OnlyUsb
<1>9. CASE SetTimeouts(p)
  BY <1>9 DEF SetTimeouts, Between, aps_set_write_timeout, InUse, Reached, Keeps,
     aps_set_read_timeout
<1> QED BY <1>1, <1>2, <1>3, <1>4, <1>5, <1>6, <1>7, <1>8, <1>9 DEF Data

LEMMA EnvironmentFrame ==
  ASSUME Environment
  PROVE  Same /\ UNCHANGED <<printer, got, read_buf, usbList, pdev, was_kernel_driver_attached>>
<1>1. ASSUME NEW d, Transmit(d) PROVE Same /\ UNCHANGED <<printer, got, read_buf, usbList, pdev, was_kernel_driver_attached>>
  BY <1>1 DEF Transmit, Same
<1>2. ASSUME NEW d, Answer(d) PROVE Same /\ UNCHANGED <<printer, got, read_buf, usbList, pdev, was_kernel_driver_attached>>
  BY <1>2 DEF Answer, Same
<1>3. ASSUME NEW d, HangsUp(d) PROVE Same /\ UNCHANGED <<printer, got, read_buf, usbList, pdev, was_kernel_driver_attached>>
  BY <1>3 DEF HangsUp, Same
<1>4. ASSUME NEW d, Leaves(d) PROVE Same /\ UNCHANGED <<printer, got, read_buf, usbList, pdev, was_kernel_driver_attached>>
  BY <1>4 DEF Leaves, Unplug, Same
<1> QED BY <1>1, <1>2, <1>3, <1>4 DEF Environment


-----------------------------------------------------------------------------
(* The calls that create, open, close and destroy.                         *)

LEMMA CreateStep ==
  ASSUME PortTypes, PortInv, NEW p \in Ports, Create(p)
  PROVE  (Same /\ kind[p] = "free") \/ Built(p)
<1> USE DEF PortTypes, Builds, Built, Fits, Kinds, Transports, Named
<1>1. ASSUME NEW e, NEW d \in SerialDevices, aps_create_serial_port(p, d, e) PROVE Built(p)
  BY <1>1 DEF aps_create_serial_port
<1>2. ASSUME NEW e, NEW d \in ParallelDevices, aps_create_parallel_port(p, d, e) PROVE Built(p)
  BY <1>2 DEF aps_create_parallel_port
<1>3. ASSUME NEW e, NEW d \in EthernetDevices, aps_create_ethernet_port(p, d, e) PROVE Built(p)
  BY <1>3 DEF aps_create_ethernet_port
<1>4. ASSUME NEW e, aps_create_usb_port(p, e) PROVE Built(p)
  BY <1>4 DEF aps_create_usb_port
<1>5. ASSUME NEW e, NEW u \in Uris, aps_create_port(p, u, e) PROVE Built(p)
  <2>1. CASE Builds(p, "blank", NoDevice)
    BY <2>1
  <2>2. CASE Builds(p, "usb", NoDevice)
    BY <2>2
  <2>3. ASSUME NEW x \in UsbDevices, Builds(p, "usb", x) PROVE Built(p)
    BY <2>3
  <2>4. ASSUME NEW t \in {"serial", "parallel", "ethernet"}, Builds(p, t, NoDevice) PROVE Built(p)
    BY <2>4
  <2>5. ASSUME NEW x \in SerialDevices, Builds(p, "serial", x) PROVE Built(p)
    BY <2>5
  <2>6. ASSUME NEW x \in ParallelDevices, Builds(p, "parallel", x) PROVE Built(p)
    BY <2>6
  <2>7. ASSUME NEW x \in EthernetDevices, Builds(p, "ethernet", x) PROVE Built(p)
    BY <2>7
  <2> HIDE DEF Builds, Built, Fits, PortTypes
  <2> QED BY <1>5, <2>1, <2>2, <2>3, <2>4, <2>5, <2>6, <2>7, UrisAssumption DEF aps_create_port
<1>6. ASSUME NEW e \in ListResults, usb_list_ports(p, e)
      PROVE  (Same /\ kind[p] = "free") \/ Built(p)
  <2>1. CASE e = "OK"
    BY <1>6, <2>1, dev = [dev EXCEPT ![p] = NoDevice] DEF usb_list_ports, PortInv
  <2>2. CASE e # "OK"
    BY <1>6, <2>2 DEF usb_list_ports, ListResults, Same, fds
  <2> QED BY <2>1, <2>2
<1> QED BY <1>1, <1>2, <1>3, <1>4, <1>5, <1>6 DEF Create

LEMMA OpenStep ==
  ASSUME PortTypes, UsbTypes, PortInv, NEW p \in Ports, Open(p)
  PROVE  Same \/ \E h \in Handles : Opened(p, h) \/ Leaked(p, h)
<1> USE DEF PortTypes, Same, Opened, Leaked, Takes
<1>1. PICK e \in OpenErrors : aps_open(p, e)
  BY DEF Open
<1>2. CASE is_open[p]
  BY <1>1, <1>2 DEF aps_open
<1>3. CASE ~is_open[p]
  <2>1. Alone(p) /\ kind[p] \in Transports /\ open_(p, e) /\ is_open' = [is_open EXCEPT ![p] = (e = "OK")]
        /\ UNCHANGED <<kind, dev>>
    BY <1>1, <1>3 DEF Open, aps_open, InUse
  <2>2. e # "OK" => is_open' = is_open
    BY <2>1, <1>3
  <2>3. CASE kind[p] = "serial" /\ serial_open(p, e)
    BY <1>3, <2>1, <2>2, <2>3 DEF serial_open
  <2>4. CASE kind[p] = "parallel" /\ par_open(p, e)
    BY <1>3, <2>1, <2>2, <2>4 DEF par_open
  <2>5. CASE kind[p] = "usb" /\ usb_open(p, e)
    <3>1. CASE e = "OK"
      <4>1. PICK h \in Handles : Lowest(h) /\ Takes(p, h)
        BY <2>5, <3>1 DEF usb_open
      <4>2. dev[p] # NoDevice /\ UNCHANGED <<orphans, misclosed>>
        BY <2>5, <3>1 DEF usb_open, Listed, UsbTypes
      <4> QED BY <1>3, <2>1, <3>1, <4>1, <4>2
    <3>2. CASE e # "OK"
      BY <2>1, <2>2, <2>5, <3>2 DEF usb_open
    <3> QED BY <3>1, <3>2
  <2>6. CASE kind[p] = "ethernet" /\ ethernet_open(p, e)
    BY <1>3, <2>1, <2>2, <2>6 DEF ethernet_open
  <2> QED BY <2>1, <2>3, <2>4, <2>5, <2>6 DEF open_
<1> QED BY <1>2, <1>3

(* aps_close and aps_destroy_port on an open port.                         *)
LEMMA ShutsStep ==
  ASSUME PortTypes, PortInv, NEW p \in Ports, NEW e, InUse(p), is_open[p], Shuts(p, e), UNCHANGED dev,
         kind' = kind \/ (e = "OK" /\ kind' = [kind EXCEPT ![p] = "destroyed"])
  PROVE  Same \/ Released(p) \/ Misclosed(p)
<1> USE DEF PortTypes, Same, Released, Misclosed, Reached
<1>1. is_open' = [is_open EXCEPT ![p] = (e # "OK")] /\ close(p, e)
      /\ (p \in misclosed => files[handle[p]] = Closed)
  BY DEF Shuts, InUse
<1>2. e # "OK" => is_open' = is_open /\ kind' = kind
  BY <1>1
<1>3. ASSUME CloseDescriptor(p, e), kind[p] # "usb" PROVE Released(p) \/ Misclosed(p)
  BY <1>1, <1>2, <1>3 DEF CloseDescriptor
<1>4. CASE kind[p] = "serial" /\ serial_close(p, e)
  BY <1>3, <1>4 DEF serial_close
<1>5. CASE kind[p] = "parallel" /\ par_close(p, e)
  BY <1>1, <1>2, <1>3, <1>5 DEF par_close
<1>6. CASE kind[p] = "usb" /\ usb_close(p, e)
  BY <1>1, <1>2, <1>6 DEF usb_close, PortInv
<1>7. CASE kind[p] = "ethernet" /\ ethernet_close(p, e)
  BY <1>3, <1>7 DEF ethernet_close
<1> QED BY <1>1, <1>4, <1>5, <1>6, <1>7 DEF close

LEMMA ShutStep ==
  ASSUME PortTypes, PortInv, NEW p \in Ports, Shut(p)
  PROVE  Same \/ Released(p) \/ Misclosed(p)
<1>1. PICK e : aps_close(p, e)
  BY DEF Shut
<1>2. CASE NotOpen(p, e) /\ UNCHANGED is_open
  BY <1>1, <1>2 DEF NotOpen, aps_close, Same
<1>3. CASE is_open[p] /\ Shuts(p, e)
  BY <1>1, <1>3, ShutsStep DEF aps_close
<1> QED BY <1>1, <1>2, <1>3 DEF aps_close

LEMMA DestroyStep ==
  ASSUME PortTypes, PortInv, NEW p \in Ports, Destroy(p)
  PROVE  Same \/ Released(p) \/ Misclosed(p) \/ Retired(p)
<1>1. PICK e : aps_destroy_port(p, e)
  BY DEF Destroy
<1>2. CASE ~is_open[p]
  BY <1>1, <1>2 DEF aps_destroy_port, Retired
<1>3. CASE is_open[p]
  <2>1. InUse(p) /\ Shuts(p, e) /\ UNCHANGED dev
    BY <1>1, <1>3 DEF aps_destroy_port, PortInv, Transports
  <2>2. kind' = kind \/ (e = "OK" /\ kind' = [kind EXCEPT ![p] = "destroyed"])
    BY <1>1 DEF aps_destroy_port
  <2> QED BY <1>3, <2>1, <2>2, ShutsStep
<1> QED BY <1>2, <1>3

LEMMA KillStep ==
  ASSUME PortTypes, PortInv, NEW p \in Ports, Kill(p)
  PROVE  Same \/ Released(p)
<1>1. PICK e \in SetErrors : aps_usb_kill(p, e)
  BY DEF Kill
<1>2. CASE (NotOpen(p, e) \/ WrongType(p, "usb", e)) /\ UNCHANGED is_open
  BY <1>1, <1>2 DEF aps_usb_kill, NotOpen, WrongType, Same
<1>3. CASE is_open[p] /\ kind[p] = "usb" /\ usb_kill(p) /\ is_open' = [is_open EXCEPT ![p] = FALSE]
  BY <1>1, <1>3 DEF aps_usb_kill, usb_kill, Released, PortInv
<1> QED BY <1>1, <1>2, <1>3 DEF aps_usb_kill

LEMMA FreesStep == ASSUME NEW p \in Ports, Frees(p) PROVE Freed(p)
  BY DEF Frees, Freed

LEMMA HandleStep ==
  ASSUME PortTypes, UsbTypes, PortInv, [Next]_vars
  PROVE  Same \/ \E p \in Ports : Lives(p)
<1>1. CASE Environment
  BY <1>1, EnvironmentFrame
<1>2. ASSUME NEW p \in Ports, Calls(p) PROVE Same \/ Lives(p)
  <2>1. CASE Data(p)
    BY <2>1, DataFrame DEF Same
  <2>2. CASE Create(p) \/ Open(p) \/ Shut(p) \/ Destroy(p) \/ Kill(p) \/ Frees(p)
    BY <2>2, CreateStep, OpenStep, ShutStep, DestroyStep, KillStep, FreesStep DEF Lives
  <2> QED BY <1>2, <2>1, <2>2 DEF Calls, Data
<1>3. CASE UNCHANGED vars
  BY <1>3 DEF Same
<1> QED BY <1>1, <1>2, <1>3 DEF Next

-----------------------------------------------------------------------------
(* The parts of the invariant about ports and descriptors.                 *)

LEMMA PortTypesStep ==
  ASSUME PortTypes, Same \/ \E p \in Ports : Lives(p)
  PROVE  PortTypes'
<1> USE DEF PortTypes, Kinds, Transports, Handles
<1>1. CASE Same
  BY <1>1 DEF Same
<1>2. ASSUME NEW p \in Ports, Lives(p) PROVE PortTypes'
  <2>1. CASE Built(p)
    BY <2>1 DEF Built
  <2>2. CASE Released(p)
    BY <2>2 DEF Released
  <2>3. CASE Misclosed(p)
    BY <2>3 DEF Misclosed
  <2>4. CASE Retired(p)
    BY <2>4 DEF Retired
  <2>5. CASE Freed(p)
    BY <2>5 DEF Freed
  <2>6. ASSUME NEW h \in Handles, Opened(p, h) PROVE PortTypes'
    BY <2>6 DEF Opened
  <2>7. ASSUME NEW h \in Handles, Leaked(p, h) PROVE PortTypes'
    BY <2>7 DEF Leaked
  <2> QED BY <1>2, <2>1, <2>2, <2>3, <2>4, <2>5, <2>6, <2>7 DEF Lives
<1> QED BY <1>1, <1>2

LEMMA PortInvStep ==
  ASSUME PortTypes, PortInv, Same \/ \E p \in Ports : Lives(p)
  PROVE  PortInv'
<1> USE DEF PortTypes, PortInv, Fits, Transports
<1>1. CASE Same
  BY <1>1 DEF Same
<1>2. ASSUME NEW p \in Ports, Lives(p) PROVE PortInv'
  <2>1. CASE Built(p)
    BY <2>1 DEF Built, Kinds
  <2>2. CASE Released(p)
    BY <2>2 DEF Released
  <2>3. CASE Misclosed(p)
    BY <2>3 DEF Misclosed
  <2>4. CASE Retired(p)
    BY <2>4 DEF Retired
  <2>5. CASE Freed(p)
    BY <2>5 DEF Freed
  <2>6. ASSUME NEW h \in Handles, Opened(p, h) PROVE PortInv'
    BY <2>6 DEF Opened
  <2>7. ASSUME NEW h \in Handles, Leaked(p, h) PROVE PortInv'
    BY <2>7 DEF Leaked
  <2> QED BY <1>2, <2>1, <2>2, <2>3, <2>4, <2>5, <2>6, <2>7 DEF Lives
<1> QED BY <1>1, <1>2

LEMMA AloneStep ==
  ASSUME PortTypes, PortInv, AloneInv, Same \/ \E p \in Ports : Lives(p)
  PROVE  AloneInv'
<1> USE DEF PortTypes, AloneInv
<1>1. CASE Same
  BY <1>1 DEF Same
<1>2. ASSUME NEW p \in Ports, Lives(p) PROVE AloneInv'
  <2>1. CASE Built(p)
    BY <2>1 DEF Built, PortInv, Transports
  <2>2. CASE Released(p)
    BY <2>2 DEF Released
  <2>3. CASE Misclosed(p)
    BY <2>3 DEF Misclosed
  <2>4. CASE Retired(p)
    BY <2>4 DEF Retired
  <2>5. CASE Freed(p)
    BY <2>5 DEF Freed, PortInv, Transports
  <2>6. ASSUME NEW h \in Handles, Opened(p, h) PROVE AloneInv'
    BY <2>6 DEF Opened, Alone
  <2>7. ASSUME NEW h \in Handles, Leaked(p, h) PROVE AloneInv'
    BY <2>7 DEF Leaked
  <2> QED BY <1>2, <2>1, <2>2, <2>3, <2>4, <2>5, <2>6, <2>7 DEF Lives
<1> QED BY <1>1, <1>2

LEMMA HandlesStep ==
  ASSUME PortTypes, PortInv, HandlesAccounted, OrphanInv, Same \/ \E p \in Ports : Lives(p)
  PROVE  HandlesAccounted' /\ OrphanInv'
<1> USE DEF PortTypes, HandlesAccounted, OrphanInv, Handles
<1>1. CASE Same
  BY <1>1 DEF Same
<1>2. ASSUME NEW p \in Ports, Lives(p) PROVE HandlesAccounted' /\ OrphanInv'
  <2>1. CASE Built(p)
    BY <2>1 DEF Built, PortInv, Transports
  <2>2. CASE Released(p)
    BY <2>2 DEF Released
  <2>3. CASE Misclosed(p)
    BY <2>3 DEF Misclosed
  <2>4. CASE Retired(p)
    BY <2>4 DEF Retired
  <2>5. CASE Freed(p)
    BY <2>5 DEF Freed, PortInv, Transports
  <2>6. ASSUME NEW h \in Handles, Opened(p, h) PROVE HandlesAccounted' /\ OrphanInv'
    BY <2>6 DEF Opened, Lowest, PortInv
  <2>7. ASSUME NEW h \in Handles, Leaked(p, h) PROVE HandlesAccounted' /\ OrphanInv'
    BY <2>7 DEF Leaked, Lowest, PortInv
  <2> QED BY <1>2, <2>1, <2>2, <2>3, <2>4, <2>5, <2>6, <2>7 DEF Lives
<1> QED BY <1>1, <1>2


-----------------------------------------------------------------------------
(* The USB list, and the kernel drivers.                                   *)

(* What init_libusb and the ways to lose the list leave behind.            *)
LEMMA ListTypes ==
  ASSUME UsbTypes,
         \/ UNCHANGED <<usbList, pdev>> \/ (init_libusb /\ UNCHANGED pdev)
         \/ DropList \/ LeaveFreed \/ ForgetList
  PROVE  /\ libusb_ctx' \in BOOLEAN /\ devs' \in {"null", "list", "freed"} /\ devcnt' \in {0, 1}
         /\ listed' \subseteq UsbDevices /\ pdev' \in [Ports -> {"null", "dev", "freed"}]
<1>1. ASSUME Dangles PROVE pdev' \in [Ports -> {"null", "dev", "freed"}]
  BY <1>1 DEF Dangles
<1> QED BY <1>1 DEF UsbTypes, init_libusb, DropList, LeaveFreed, ForgetList

(* An open port that has found a kernel driver puts it back.               *)
DriverInv ==
  \A p \in Ports :
    is_open[p] /\ kind[p] = "usb" /\ claim[dev[p]] = handle[p] =>
      (dev[p] \in found => was_kernel_driver_attached[p] \/ dev[p] \in abandoned)

(* A USB port that is open after the step was so before.                   *)
Kept(p) ==
  is_open'[p] /\ kind'[p] = "usb" =>
    /\ is_open[p] /\ kind[p] = "usb" /\ dev'[p] = dev[p] /\ handle'[p] = handle[p]
    /\ was_kernel_driver_attached'[p] = was_kernel_driver_attached[p]

OthersKept(p) == \A r \in Ports \ {p} : Kept(r)

(* What a step may do to the driver and the claim of an interface.         *)
BusSame == (\A p \in Ports : Kept(p)) /\ UNCHANGED <<driver, claim, found, abandoned>>

BusOpened(p) ==
  LET d == dev[p] IN
  /\ ~is_open[p] /\ kind[p] = "usb" /\ d \in UsbDevices /\ dev' = dev
  /\ \E h \in Handles : /\ Lowest(h) /\ handle' = [handle EXCEPT ![p] = h]
                        /\ claim' = [claim EXCEPT ![d] = h]
  /\ Detaches(p, d) /\ UNCHANGED abandoned /\ OthersKept(p)

BusFailed(p) ==
  LET d == dev[p] IN
  /\ Detaches(p, d) /\ abandoned' = abandoned \union {d} /\ ~is_open'[p] /\ OthersKept(p)
  /\ UNCHANGED claim

BusClosed(p) ==
  LET d == dev[p] IN
  /\ is_open[p] /\ kind[p] = "usb" /\ claim[d] = handle[p] /\ claim' = [claim EXCEPT ![d] = 0]
  /\ driver' = IF was_kernel_driver_attached[p] THEN driver \union {d} ELSE driver
  /\ ~is_open'[p] /\ OthersKept(p) /\ UNCHANGED <<abandoned, found>>

BusLost(d) ==
  /\ claim' \in {claim, [claim EXCEPT ![d] = 0]} /\ abandoned' = abandoned \union {d}
  /\ driver' \in {driver, driver \ {d}} /\ UNCHANGED found
  /\ \A p \in Ports : Kept(p)

BusStep ==
  \/ BusSame
  \/ \E d \in UsbDevices : BusLost(d)
  \/ \E p \in Ports : BusOpened(p) \/ BusFailed(p) \/ BusClosed(p)

LEMMA BusSteps ==
  ASSUME PortTypes, UsbTypes, PortInv, [Next]_vars
  PROVE  BusStep
<1> USE DEF BusStep
<1>1. CASE Environment
  <2>1. \A p \in Ports : Kept(p)
    BY <1>1, EnvironmentFrame DEF Kept, Same
  <2>2. ASSUME NEW d, Transmit(d) PROVE BusSame
    BY <2>1, <2>2 DEF Transmit, BusSame
  <2>3. ASSUME NEW d, Answer(d) PROVE BusSame
    BY <2>1, <2>3 DEF Answer, BusSame
  <2>4. ASSUME NEW d, HangsUp(d) PROVE BusSame
    BY <2>1, <2>4 DEF HangsUp, BusSame
  <2>5. ASSUME NEW d \in UsbDevices, Leaves(d) PROVE BusLost(d)
    BY <2>1, <2>5 DEF Leaves, Unplug, BusLost
  <2> QED BY <1>1, <2>2, <2>3, <2>4, <2>5 DEF Environment
<1>2. ASSUME NEW p \in Ports, Calls(p) PROVE BusStep
  <2>1. CASE Data(p)
    BY <2>1, DataFrame DEF BusSame, Kept
  <2>2. CASE Create(p)
    <3>1. UNCHANGED <<is_open, handle>> /\ ~is_open[p] /\ \A r \in Ports \ {p} : kind'[r] = kind[r] /\ dev'[r] = dev[r]
      BY <2>2, CreateStep DEF Same, Built, PortTypes, PortInv, Transports
    <3>2. UNCHANGED <<was_kernel_driver_attached, driver, claim, found, abandoned>>
      <4>1. ASSUME NEW k, NEW d, Builds(p, k, d)
            PROVE  UNCHANGED <<was_kernel_driver_attached, driver, claim, found, abandoned>>
        BY <4>1 DEF Builds
      <4>2. ASSUME NEW e, NEW u, aps_create_port(p, u, e) PROVE \E k, d : Builds(p, k, d)
        <5> HIDE DEF Builds
        <5> QED BY <4>2 DEF aps_create_port
      <4>3. ASSUME NEW e, NEW d,
                   \/ aps_create_serial_port(p, d, e) \/ aps_create_parallel_port(p, d, e)
                   \/ aps_create_ethernet_port(p, d, e) \/ aps_create_usb_port(p, e)
            PROVE  \E k, x : Builds(p, k, x)
        BY <4>3 DEF aps_create_serial_port, aps_create_parallel_port, aps_create_ethernet_port,
           aps_create_usb_port
      <4>4. CASE \E e \in ListResults : usb_list_ports(p, e)
        BY <4>4 DEF usb_list_ports
      <4> QED BY <2>2, <4>1, <4>2, <4>3, <4>4 DEF Create
    <3> QED BY <3>1, <3>2 DEF BusSame, Kept
  <2>3. CASE Frees(p)
    BY <2>3 DEF Frees, BusSame, Kept, PortTypes, UsbTypes, PortInv, Transports
  <2>4. CASE Kill(p)
    <3>1. PICK e \in SetErrors : aps_usb_kill(p, e)
      BY <2>4 DEF Kill
    <3>2. CASE (NotOpen(p, e) \/ WrongType(p, "usb", e)) /\ UNCHANGED is_open
      BY <3>1, <3>2 DEF aps_usb_kill, NotOpen, WrongType, BusSame, Kept
    <3>3. CASE is_open[p] /\ kind[p] = "usb" /\ usb_kill(p) /\ is_open' = [is_open EXCEPT ![p] = FALSE]
      <4>1. dev[p] \in UsbDevices
        BY <3>3 DEF PortInv, Fits
      <4>2. \A r \in Ports : Kept(r)
        BY <3>1, <3>3 DEF aps_usb_kill, usb_kill, Kept, PortTypes
      <4>3. BusLost(dev[p])
        BY <3>1, <3>3, <4>2 DEF aps_usb_kill, usb_kill, BusLost
      <4> QED BY <4>1, <4>3
    <3> QED BY <3>1, <3>2, <3>3 DEF aps_usb_kill
  <2>5. ASSUME NEW e, is_open[p], Shuts(p, e), UNCHANGED dev,
               kind' = kind \/ (e = "OK" /\ kind' = [kind EXCEPT ![p] = "destroyed"])
        PROVE  BusStep
    <3>1. is_open' = [is_open EXCEPT ![p] = (e # "OK")] /\ close(p, e)
      BY <2>5 DEF Shuts
    <3>2. CASE kind[p] = "usb" /\ usb_close(p, e)
      <4> DEFINE d == dev[p]
      <4>1. dev[p] \in UsbDevices
        BY <2>5, <3>2 DEF PortInv, Fits
      <4>2. OthersKept(p)
        BY <2>5, <3>1, <3>2 DEF OthersKept, Kept, usb_close, PortTypes
      <4>3. CASE e = "OK"
        BY <2>5, <3>1, <3>2, <4>2, <4>3 DEF BusClosed, usb_close, PortTypes
      <4>4. CASE e = "IO_ERROR"
        <5>1. kind' = kind /\ is_open' = is_open
          BY <2>5, <3>1, <4>4 DEF PortTypes
        <5>2. \A r \in Ports : Kept(r)
          BY <2>5, <3>2, <4>4, <5>1 DEF usb_close, Kept
        <5>3. CASE UNCHANGED <<driver, claim, abandoned>>
          BY <3>2, <5>2, <5>3 DEF usb_close, BusSame
        <5>4. CASE claim' = [claim EXCEPT ![d] = 0] /\ abandoned' = abandoned \union {d} /\ UNCHANGED driver
          BY <3>2, <4>1, <5>2, <5>4 DEF usb_close, BusLost
        <5> QED BY <3>2, <4>4, <5>3, <5>4 DEF usb_close
      <4> QED BY <3>2, <4>3, <4>4 DEF usb_close
    <3>3. CASE kind[p] # "usb"
      <4>1. UNCHANGED <<handle, usbVars>>
        BY <3>1, <3>3 DEF close, serial_close, par_close, ethernet_close, CloseDescriptor,
           OnlySerial, OnlyParallel, OnlyEthernet
      <4> QED BY <2>5, <3>1, <3>3, <4>1 DEF BusSame, Kept, PortTypes
    <3> QED BY <3>1, <3>2, <3>3 DEF close
  <2>6. CASE Shut(p)
    <3>1. PICK e : aps_close(p, e)
      BY <2>6 DEF Shut
    <3>2. CASE NotOpen(p, e) /\ UNCHANGED is_open
      BY <3>1, <3>2 DEF NotOpen, aps_close, BusSame, Kept
    <3> QED BY <2>5, <3>1, <3>2 DEF aps_close
  <2>7. CASE Destroy(p)
    <3>1. PICK e : aps_destroy_port(p, e)
      BY <2>7 DEF Destroy
    <3>2. CASE ~is_open[p]
      BY <3>1, <3>2 DEF aps_destroy_port, BusSame, Kept, PortTypes
    <3>3. kind' = kind \/ (e = "OK" /\ kind' = [kind EXCEPT ![p] = "destroyed"])
      BY <3>1 DEF aps_destroy_port
    <3> QED BY <2>5, <3>1, <3>2, <3>3 DEF aps_destroy_port
  <2>8. CASE Open(p)
    <3>1. PICK e \in OpenErrors : aps_open(p, e)
      BY <2>8 DEF Open
    <3>2. CASE is_open[p]
      BY <3>1, <3>2 DEF aps_open, BusSame, Kept
    <3>3. CASE ~is_open[p]
      <4>1. open_(p, e) /\ is_open' = [is_open EXCEPT ![p] = (e = "OK")] /\ UNCHANGED <<kind, dev>>
        BY <3>1, <3>3 DEF aps_open
      <4>2. CASE kind[p] # "usb"
        <5>1. UNCHANGED usbVars /\ \A r \in Ports \ {p} : handle'[r] = handle[r]
          BY <4>1, <4>2 DEF open_, serial_open, par_open, ethernet_open, Takes, OnlySerial, OnlyParallel,
             OnlyEthernet, PortTypes
        <5> QED BY <4>1, <4>2, <5>1 DEF BusSame, Kept, PortTypes
      <4>3. CASE kind[p] = "usb" /\ usb_open(p, e)
        <5>1. OthersKept(p)
          BY <4>1, <4>3 DEF usb_open, OthersKept, Kept, Detaches, Takes, PortTypes, UsbTypes
        <5>2. CASE e = "OK"
          <6>1. dev[p] \in UsbDevices
            BY <4>3, <5>2 DEF usb_open, Listed, UsbTypes
          <6>2. Detaches(p, dev[p]) /\ UNCHANGED abandoned
            BY <4>3, <5>2 DEF usb_open
          <6>3. \E h \in Handles : Lowest(h) /\ handle' = [handle EXCEPT ![p] = h]
                                   /\ claim' = [claim EXCEPT ![dev[p]] = h]
            BY <4>3, <5>2 DEF usb_open, Takes
          <6> QED BY <3>3, <4>1, <4>3, <5>1, <6>1, <6>2, <6>3 DEF BusOpened
        <5>3. CASE e # "OK"
          <6>1. ~is_open'[p] /\ UNCHANGED claim
            BY <4>1, <4>3, <5>3 DEF PortTypes, usb_open
          <6>2. CASE UNCHANGED <<driver, found, abandoned>>
            BY <5>1, <6>1, <6>2 DEF BusSame, Kept, OthersKept
          <6>3. CASE Detaches(p, dev[p]) /\ abandoned' = abandoned \union {dev[p]}
            BY <5>1, <6>1, <6>3 DEF BusFailed
          <6> QED BY <4>3, <5>3, <6>2, <6>3 DEF usb_open
        <5> QED BY <5>2, <5>3
      <4> QED BY <4>1, <4>2, <4>3 DEF open_
    <3> QED BY <3>2, <3>3
  <2> QED BY <1>2, <2>1, <2>2, <2>3, <2>4, <2>6, <2>7, <2>8 DEF Calls, Data
<1>3. CASE UNCHANGED vars
  BY <1>3 DEF BusSame, Kept
<1> QED BY <1>1, <1>2, <1>3 DEF Next

LEMMA DriverStep ==
  ASSUME PortTypes, UsbTypes, PortInv, HandlesAccounted, DriverInv, DriverBack, BusStep
  PROVE  DriverInv' /\ DriverBack'
<1> USE DEF PortTypes, UsbTypes, Kept, OthersKept
<1>0. \A p \in Ports : is_open[p] /\ kind[p] = "usb" =>
        dev[p] \in UsbDevices /\ handle[p] \in Handles /\ files[handle[p]] # Closed /\ handle[p] # 0
  BY DEF PortInv, Fits, HandlesAccounted, Handles
<1>1. CASE BusSame
  BY <1>1 DEF BusSame, DriverInv, DriverBack
<1>2. ASSUME NEW d \in UsbDevices, BusLost(d) PROVE DriverInv' /\ DriverBack'
  <2>1. DriverBack'
    BY <1>2 DEF BusLost, DriverBack
  <2>2. DriverInv'
    BY <1>0, <1>2 DEF BusLost, DriverInv
  <2> QED BY <2>1, <2>2
<1>3. ASSUME NEW p \in Ports, BusOpened(p) PROVE DriverInv' /\ DriverBack'
  <2>1. PICK h \in Handles : Lowest(h) /\ handle' = [handle EXCEPT ![p] = h] /\ claim' = [claim EXCEPT ![dev[p]] = h]
    BY <1>3 DEF BusOpened
  <2>2. h # 0 /\ files[h] = Closed
    BY <2>1 DEF Lowest, Handles
  <2>3. DriverBack'
    BY <1>3, <2>1, <2>2 DEF BusOpened, Detaches, DriverBack
  <2>4. DriverInv'
    <3> SUFFICES ASSUME NEW r \in Ports, is_open'[r], kind'[r] = "usb", claim'[dev'[r]] = handle'[r],
                        dev'[r] \in found'
                 PROVE  was_kernel_driver_attached'[r] \/ dev'[r] \in abandoned'
      BY DEF DriverInv
    <3>1. CASE r = p
      <4>1. dev' = dev /\ dev[p] \in UsbDevices /\ Detaches(p, dev[p])
        BY <1>3 DEF BusOpened
      <4>2. dev[p] \in found'
        BY <3>1, <4>1
      <4>3. dev[p] \in driver
        BY <4>1, <4>2 DEF Detaches
      <4>4. was_kernel_driver_attached'[p]
        BY <4>1, <4>3 DEF Detaches
      <4> QED BY <3>1, <4>4
    <3>2. CASE r # p
      <4>1. is_open[r] /\ kind[r] = "usb" /\ dev'[r] = dev[r] /\ handle'[r] = handle[r]
            /\ was_kernel_driver_attached'[r] = was_kernel_driver_attached[r]
        BY <1>3, <3>2 DEF BusOpened
      <4>2. dev[r] # dev[p] /\ claim[dev[r]] = handle[r]
        BY <1>0, <1>3, <2>1, <2>2, <4>1 DEF BusOpened
      <4>3. dev[r] \in found
        BY <1>3, <4>1, <4>2 DEF BusOpened, Detaches
      <4> QED BY <1>3, <4>1, <4>2, <4>3 DEF BusOpened, DriverInv
    <3> QED BY <3>1, <3>2
  <2> QED BY <2>3, <2>4
<1>4. ASSUME NEW p \in Ports, BusFailed(p) PROVE DriverInv' /\ DriverBack'
  BY <1>0, <1>4 DEF BusFailed, Detaches, DriverInv, DriverBack
<1>5. ASSUME NEW p \in Ports, BusClosed(p) PROVE DriverInv' /\ DriverBack'
  <2>1. DriverBack'
    BY <1>0, <1>5 DEF BusClosed, DriverInv, DriverBack
  <2>2. DriverInv'
    BY <1>0, <1>5 DEF BusClosed, DriverInv
  <2> QED BY <2>1, <2>2
<1> QED BY <1>1, <1>2, <1>3, <1>4, <1>5 DEF BusStep


-----------------------------------------------------------------------------
(* The settings of serial lines.                                           *)

AskedInv == handshake = asked

(* A descriptor that is used leads to the device of its port.              *)
LEMMA ReachedOwn ==
  ASSUME PortTypes, HandlesAccounted, NEW p \in Ports, is_open[p], InUse(p), Reached(p) \in Devices
  PROVE  p \notin misclosed /\ Reached(p) = dev[p]
  BY DEF HandlesAccounted, InUse, Reached

Settled(p) ==
  is_open[p] /\ kind[p] = "serial" /\ p \notin misclosed =>
    /\ handshake[p] = asked[p] /\ speed[dev[p]] = baudrate[p]
    /\ flow[dev[p]] = IF loose[p] THEN "NONE" ELSE handshake[p]

(* What a step may do to settings and lines on behalf of port p.           *)
Sets(p) ==
  /\ \A r \in Ports \ {p} : baudrate'[r] = baudrate[r] /\ handshake'[r] = handshake[r]
                            /\ asked'[r] = asked[r] /\ loose'[r] = loose[r]
  /\ \A d \in SerialDevices \ {dev[p]} : speed'[d] = speed[d] /\ flow'[d] = flow[d]
  /\ UNCHANGED <<speed, flow>> \/ is_open[p] \/ Alone(p)
  /\ AskedInv' /\ Settled(p)'

(* A serial port that is in use after the step was so before.              *)
Before(r) ==
  is_open'[r] /\ kind'[r] = "serial" /\ r \notin misclosed' =>
    is_open[r] /\ kind[r] = "serial" /\ dev'[r] = dev[r] /\ r \notin misclosed

LineStep ==
  \/ UNCHANGED serialVars /\ \A r \in Ports : Before(r)
  \/ \E p \in Ports : Sets(p) /\ \A r \in Ports \ {p} : Before(r)

LEMMA BeforeStep ==
  ASSUME PortTypes, PortInv, NEW p \in Ports, Same \/ Lives(p)
  PROVE  /\ \A r \in Ports \ {p} : Before(r)
         /\ Before(p) \/ \E h \in Handles : Opened(p, h)
<1> USE DEF PortTypes, Before
<1>1. CASE Same
  BY <1>1 DEF Same
<1>2. CASE Built(p)
  BY <1>2 DEF Built, PortInv, Transports
<1>3. CASE Released(p)
  BY <1>3 DEF Released
<1>4. CASE Misclosed(p)
  BY <1>4 DEF Misclosed
<1>5. CASE Retired(p)
  BY <1>5 DEF Retired
<1>6. CASE Freed(p)
  BY <1>6 DEF Freed
<1>7. ASSUME NEW h \in Handles, Opened(p, h) PROVE \A r \in Ports \ {p} : Before(r)
  BY <1>7 DEF Opened
<1>8. ASSUME NEW h \in Handles, Leaked(p, h) PROVE \A r \in Ports : Before(r)
  BY <1>8 DEF Leaked
<1> QED BY <1>1, <1>2, <1>3, <1>4, <1>5, <1>6, <1>7, <1>8 DEF Lives

LEMMA DataLines ==
  ASSUME PortTypes, SettingTypes, PortInv, HandlesAccounted, AskedInv, SettingsKept, NEW p \in Ports, Data(p)
  PROVE  LineStep
<1>1. Same
  BY DataFrame DEF Same
<1>a. \A r \in Ports : Before(r)
  BY <1>1 DEF Same, Before
<1>b. (UNCHANGED serialVars \/ Sets(p)) => LineStep
  BY <1>a DEF LineStep
<1> HIDE DEF serialVars
<1>2. CASE Write(p)
  <2>1. UNCHANGED serialVars
    BY <1>2 DEF serialVars, settings, Write, Between, aps_write, InUse, Keeps, NotOpen,
       write, serial_write, OnlySerial, par_write, OnlyParallel, usb_write, OnlyUsb,
       ethernet_write, OnlyEthernet
  <2> QED BY <2>1, <1>b
<1>3. CASE Read(p)
  <2>1. UNCHANGED serialVars
    BY <1>3 DEF serialVars, settings, Read, Between, aps_read, InUse, NotOpen, read,
       serial_read, OnlySerial, par_read, OnlyParallel, usb_read, OnlyUsb, ethernet_read,
       OnlyEthernet
  <2> QED BY <2>1, <1>b
<1>4. CASE Sync(p)
  <2>1. UNCHANGED serialVars
    BY <1>4 DEF serialVars, settings, Sync, Between, aps_sync, InUse, Keeps, NotOpen, sync,
       serial_sync, OnlySerial, par_sync, OnlyParallel, usb_sync, OnlyUsb, ethernet_sync,
       OnlyEthernet
  <2> QED BY <2>1, <1>b
<1>5. CASE Flush(p)
  <2>1. UNCHANGED serialVars
    BY <1>5 DEF serialVars, settings, Flush, Between, aps_flush, InUse, Keeps, NotOpen,
       flush, serial_flush, Hangup, OnlySerial, par_flush, OnlyParallel, usb_flush,
       OnlyUsb, ethernet_flush, OnlyEthernet
  <2> QED BY <2>1, <1>b
<1>6. CASE SetParallel(p)
  <2>1. UNCHANGED serialVars
    BY <1>6 DEF serialVars, settings, SetParallel, Between, aps_parallel_reset, InUse,
       Reached, Keeps, NotOpen, WrongType, par_reset, OnlyParallel, aps_parallel_set_mode,
       par_set_mode
  <2> QED BY <2>1, <1>b
<1>7. CASE Control(p)
  <2>1. UNCHANGED serialVars
    BY <1>7 DEF serialVars, settings, Control, Between, aps_usb_control, InUse, Reached,
       Keeps, NotOpen, WrongType, usb_control, Working, OnlyUsb
  <2> QED BY <2>1, <1>b
<1>8. CASE SetTimeouts(p)
  <2>1. UNCHANGED serialVars
    BY <1>8 DEF serialVars, settings, SetTimeouts, Between, aps_set_write_timeout, InUse,
       Reached, Keeps, aps_set_read_timeout
  <2> QED BY <2>1, <1>b
<1>c. ASSUME UNCHANGED <<baudrate, speed, flow, handshake, asked, loose>> PROVE LineStep
  BY <1>b, <1>c DEF serialVars, settings
<1>9. CASE SetSerial(p)
  <2>1. ASSUME NEW e, NEW b \in Bauds, aps_serial_set_baudrate(p, b, e) PROVE LineStep
    <3>1. CASE is_open[p] /\ kind[p] = "serial" /\ e = "OK" /\ serial_set_baudrate(p, b, e)
      <4>1. Reached(p) = dev[p] /\ dev[p] \in SerialDevices /\ p \notin misclosed
        BY <2>1, <3>1, ReachedOwn DEF aps_serial_set_baudrate, serial_set_baudrate
      <4>2. /\ speed' = [speed EXCEPT ![dev[p]] = b] /\ baudrate' = [baudrate EXCEPT ![p] = b]
            /\ UNCHANGED <<handshake, asked, flow, loose>>
        BY <3>1, <4>1 DEF serial_set_baudrate
      <4>3. Settled(p)'
        BY <1>1, <3>1, <4>1, <4>2 DEF Same, Settled, SettingsKept, SettingTypes
      <4> QED BY <1>b, <3>1, <4>2, <4>3 DEF Sets, AskedInv, SettingTypes
    <3>2. CASE UNCHANGED <<baudrate, speed, flow, handshake, asked, loose>>
      BY <1>c, <3>2
    <3> QED BY <2>1, <3>1, <3>2
            DEF aps_serial_set_baudrate, NotOpen, WrongType, serial_set_baudrate, world, serialVars, settings
  <2>2. ASSUME NEW e, NEW f \in Flows, aps_serial_set_handshake(p, f, e) PROVE LineStep
    <3>1. CASE is_open[p] /\ kind[p] = "serial" /\ e = "OK" /\ serial_set_handshake(p, f, e)
      <4>1. Reached(p) = dev[p] /\ dev[p] \in SerialDevices /\ p \notin misclosed
        BY <2>2, <3>1, ReachedOwn DEF aps_serial_set_handshake, serial_set_handshake
      <4>2. /\ flow' = [flow EXCEPT ![dev[p]] = f] /\ handshake' = [handshake EXCEPT ![p] = f]
            /\ asked' = [asked EXCEPT ![p] = f] /\ loose' = [loose EXCEPT ![p] = FALSE]
            /\ UNCHANGED <<baudrate, speed>>
        BY <3>1, <4>1 DEF serial_set_handshake
      <4>3. Settled(p)'
        BY <1>1, <3>1, <4>1, <4>2 DEF Same, Settled, SettingsKept, SettingTypes
      <4> QED BY <1>b, <3>1, <4>2, <4>3 DEF Sets, AskedInv, SettingTypes
    <3>2. CASE UNCHANGED <<baudrate, speed, flow, handshake, asked, loose>>
      BY <1>c, <3>2
    <3> QED BY <2>2, <3>1, <3>2
            DEF aps_serial_set_handshake, NotOpen, WrongType, serial_set_handshake, world, serialVars, settings
  <2> QED BY <1>9, <2>1, <2>2 DEF SetSerial
<1>10. CASE WriteRt(p)
  <2>1. PICK e \in WriteErrors, c \in Commands : aps_write_rt(p, c, e)
    BY <1>10 DEF WriteRt
  <2>2. CASE is_open[p] /\ kind[p] = "serial" /\ serial_write_rt(p, c, e)
    <3>1. CASE Reached(p) \in SerialDevices
      <4>1. Reached(p) = dev[p] /\ dev[p] \in SerialDevices /\ p \notin misclosed
        BY <2>1, <2>2, <3>1, ReachedOwn DEF aps_write_rt
      <4>2. UNCHANGED <<baudrate, asked, speed, handshake>>
        BY <2>2 DEF serial_write_rt, Restored
      <4>3. UNCHANGED <<flow, loose>> \/ FlowOff(p) \/ FlowOn(p)
        BY <2>2 DEF serial_write_rt
      <4>4. CASE UNCHANGED <<flow, loose>>
        BY <1>c, <4>2, <4>4
      <4>5. CASE FlowOff(p)
        <5>1. flow' = [flow EXCEPT ![dev[p]] = "NONE"] /\ loose' = [loose EXCEPT ![p] = TRUE]
          BY <4>1, <4>5 DEF FlowOff
        <5>2. Settled(p)'
          BY <1>1, <2>2, <4>1, <4>2, <5>1 DEF Same, Settled, SettingsKept, SettingTypes
        <5> QED BY <1>b, <2>2, <4>2, <5>1, <5>2 DEF Sets, AskedInv, SettingTypes
      <4>6. CASE FlowOn(p)
        <5>1. flow' = [flow EXCEPT ![dev[p]] = handshake[p]] /\ loose' = [loose EXCEPT ![p] = FALSE]
          BY <4>1, <4>2, <4>6 DEF FlowOn
        <5>2. Settled(p)'
          BY <1>1, <2>2, <4>1, <4>2, <5>1 DEF Same, Settled, SettingsKept, SettingTypes
        <5> QED BY <1>b, <2>2, <4>2, <5>1, <5>2 DEF Sets, AskedInv, SettingTypes
      <4> QED BY <4>3, <4>4, <4>5, <4>6
    <3>2. CASE Reached(p) \notin SerialDevices
      BY <1>c, <2>2, <3>2 DEF serial_write_rt
    <3> QED BY <3>1, <3>2
  <2>3. CASE kind[p] # "serial" /\ write(p, c, e)
    <3>1. UNCHANGED <<baudrate, speed, flow, handshake, asked, loose>>
      BY <2>3 DEF write, serialVars, settings, OnlyParallel, OnlyUsb, ethernet_write
    <3> QED BY <1>c, <3>1
  <2>4. CASE UNCHANGED world
    BY <1>c, <2>4 DEF world, serialVars, settings
  <2> QED BY <2>1, <2>2, <2>3, <2>4 DEF aps_write_rt, NotOpen, write_rt
<1> QED BY <1>2, <1>3, <1>4, <1>5, <1>6, <1>7, <1>8, <1>9, <1>10 DEF Data

LEMMA BuiltLines ==
  ASSUME PortTypes, SettingTypes, PortInv, AskedInv, NEW p \in Ports, NEW b, NEW f,
         (Same /\ kind[p] = "free") \/ Built(p) \/ Freed(p),
         SetsUp(p, b, f), UNCHANGED <<speed, flow>>,
         loose' = loose \/ loose' = [loose EXCEPT ![p] = FALSE]
  PROVE  Sets(p)
  BY DEF SetsUp, Sets, Same, Built, Freed, PortInv, Transports, PortTypes, SettingTypes, AskedInv, Settled

LEMMA LifeLines ==
  ASSUME PortTypes, SettingTypes, UsbTypes, PortInv, HandlesAccounted, AskedInv, SettingsKept, NEW p \in Ports,
         Create(p) \/ Open(p) \/ Shut(p) \/ Destroy(p) \/ Kill(p) \/ Frees(p)
  PROVE  LineStep
<1>a. ASSUME Same \/ Lives(p), Sets(p) PROVE LineStep
  BY <1>a, BeforeStep DEF LineStep
<1>b. ASSUME Same \/ Lives(p), \A h \in Handles : ~Opened(p, h), UNCHANGED serialVars PROVE LineStep
  BY <1>b, BeforeStep DEF LineStep
<1>1. CASE Create(p)
  <2>1. (Same \/ Lives(p)) /\ ((Same /\ kind[p] = "free") \/ Built(p)) /\ \A h \in Handles : ~Opened(p, h)
    BY <1>1, CreateStep DEF Lives, Built, Opened, Transports, Same, PortTypes
  <2>2. ASSUME NEW k, NEW d, NEW b, NEW f, Builds(p, k, d), SetsUp(p, b, f) PROVE LineStep
    BY <1>a, <2>1, <2>2, BuiltLines DEF Builds
  <2>3. ASSUME NEW k, NEW d, Builds(p, k, d), UNCHANGED settings PROVE LineStep
    BY <1>b, <2>1, <2>3 DEF Builds
  <2>4. ASSUME NEW e, NEW d, aps_create_serial_port(p, d, e) PROVE LineStep
    <3> HIDE DEF Builds, SetsUp, settings
    <3> QED BY <2>2, <2>3, <2>4 DEF aps_create_serial_port
  <2>5. ASSUME NEW e, NEW d,
               \/ aps_create_parallel_port(p, d, e) \/ aps_create_ethernet_port(p, d, e)
               \/ aps_create_usb_port(p, e)
        PROVE  LineStep
    BY <2>3, <2>5 DEF aps_create_parallel_port, aps_create_ethernet_port, aps_create_usb_port
  <2>6. ASSUME NEW e, NEW u, aps_create_port(p, u, e) PROVE LineStep
    <3>1. (\E k, d : Builds(p, k, d) /\ UNCHANGED settings)
          \/ \E d, su : Builds(p, "serial", d) /\ serial_create_from_uri(p, su, e)
      <4> HIDE DEF Builds, settings, serial_create_from_uri, par_create_from_uri
      <4> QED BY <2>6 DEF aps_create_port
    <3>2. ASSUME NEW su, serial_create_from_uri(p, su, e) PROVE \E b, f : SetsUp(p, b, f)
      BY <3>2 DEF serial_create_from_uri
    <3> QED BY <2>2, <2>3, <3>1, <3>2
  <2>7. CASE \E e \in ListResults : usb_list_ports(p, e)
    BY <1>b, <2>1, <2>7 DEF usb_list_ports
  <2> QED BY <1>1, <2>4, <2>5, <2>6, <2>7 DEF Create
<1>2. CASE Open(p)
  <2>0. Same \/ Lives(p)
    BY <1>2, OpenStep DEF Lives
  <2>1. PICK e \in OpenErrors : aps_open(p, e)
    BY <1>2 DEF Open
  <2>2. CASE is_open[p]
    <3>1. UNCHANGED serialVars
      BY <2>1, <2>2 DEF aps_open
    <3> QED BY <1>b, <2>0, <2>2, <3>1 DEF Opened
  <2>3. CASE ~is_open[p] /\ kind[p] # "serial" /\ open_(p, e)
    <3>1. UNCHANGED <<serialVars, kind>>
      BY <2>1, <2>3 DEF aps_open, open_, ethernet_open, OnlyParallel, OnlyUsb
    <3>2. Before(p)
      BY <2>3, <3>1 DEF Before
    <3> QED BY <2>0, <3>1, <3>2, BeforeStep DEF LineStep
  <2>4. CASE ~is_open[p] /\ kind[p] = "serial" /\ serial_open(p, e)
    <3>1. Alone(p) /\ UNCHANGED <<kind, dev>> /\ is_open' = [is_open EXCEPT ![p] = (e = "OK")]
      BY <1>2, <2>1, <2>4 DEF Open, aps_open
    <3>2. UNCHANGED settings
      BY <2>4 DEF serial_open
    <3>3. CASE e = "OK"
      <4>1. dev[p] \in SerialDevices /\ SetLine(dev[p], baudrate[p], handshake[p])
            /\ loose' = [loose EXCEPT ![p] = FALSE]
        BY <2>4, <3>3 DEF serial_open, PortInv, Fits
      <4>2. Sets(p)
        BY <3>1, <3>2, <4>1 DEF SetLine, Sets, Settled, AskedInv, SettingTypes, PortTypes
      <4> QED BY <1>a, <2>0, <4>2
    <3>4. CASE e # "OK"
      <4>1. ~is_open'[p]
        BY <3>1, <3>4 DEF PortTypes
      <4>2. UNCHANGED <<flow, loose>> /\ (speed' = speed \/ speed' = [speed EXCEPT ![dev[p]] = baudrate[p]])
        BY <2>4, <3>4 DEF serial_open
      <4>3. Sets(p)
        BY <3>1, <3>2, <4>1, <4>2 DEF Sets, Settled, AskedInv, SettingTypes
      <4> QED BY <1>a, <2>0, <4>3
    <3> QED BY <3>3, <3>4
  <2> QED BY <2>1, <2>2, <2>3, <2>4 DEF aps_open, open_
<1>3. ASSUME NEW e, Shuts(p, e) PROVE UNCHANGED serialVars
  BY <1>3 DEF Shuts, close, serial_close, OnlySerial, par_close, OnlyParallel, usb_close,
     OnlyUsb, ethernet_close, OnlyEthernet
<1>4. CASE Shut(p)
  <2>1. UNCHANGED serialVars
    BY <1>3, <1>4 DEF Shut, aps_close, NotOpen
  <2>2. (Same \/ Lives(p)) /\ \A h \in Handles : ~Opened(p, h)
    BY <1>4, ShutStep DEF Lives, Shut, aps_close, Opened, Same, Released, Misclosed, PortTypes
  <2> QED BY <1>b, <2>1, <2>2
<1>5. CASE Destroy(p)
  <2>1. UNCHANGED serialVars
    BY <1>3, <1>5 DEF Destroy, aps_destroy_port
  <2>2. (Same \/ Lives(p)) /\ \A h \in Handles : ~Opened(p, h)
    BY <1>5, DestroyStep DEF Lives, Opened, Same, Released, Misclosed, Retired, PortTypes
  <2> QED BY <1>b, <2>1, <2>2
<1>6. CASE Kill(p)
  <2>1. UNCHANGED serialVars
    BY <1>6 DEF Kill, aps_usb_kill, NotOpen, WrongType, OnlyUsb
  <2>2. (Same \/ Lives(p)) /\ \A h \in Handles : ~Opened(p, h)
    BY <1>6, KillStep DEF Lives, Opened, Same, Released, PortTypes
  <2> QED BY <1>b, <2>1, <2>2
<1>7. CASE Frees(p)
  <2>1. Lives(p)
    BY <1>7, FreesStep DEF Lives
  <2>2. Sets(p)
    BY <1>7, FreesStep, BuiltLines DEF Frees
  <2> QED BY <1>a, <2>1, <2>2
<1> QED BY <1>1, <1>2, <1>4, <1>5, <1>6, <1>7

LEMMA LineSteps ==
  ASSUME PortTypes, SettingTypes, UsbTypes, PortInv, HandlesAccounted, AskedInv, SettingsKept, [Next]_vars
  PROVE  LineStep
<1>1. CASE Environment
  <2>1. UNCHANGED serialVars
    BY <1>1 DEF Environment, Transmit, Answer, HangsUp, Leaves
  <2>2. \A r \in Ports : Before(r)
    BY <1>1, EnvironmentFrame DEF Same, Before
  <2> QED BY <2>1, <2>2 DEF LineStep
<1>2. ASSUME NEW p \in Ports, Calls(p) PROVE LineStep
  BY <1>2, DataLines, LifeLines DEF Calls, Data
<1>3. CASE UNCHANGED vars
  BY <1>3 DEF LineStep, Before
<1> QED BY <1>1, <1>2, <1>3 DEF Next

LEMMA SettingsStep ==
  ASSUME PortTypes, PortInv, AloneInv, AskedInv, SettingsKept, LineStep
  PROVE  AskedInv' /\ SettingsKept'
<1>1. CASE UNCHANGED serialVars /\ \A r \in Ports : Before(r)
  BY <1>1 DEF Before, SettingsKept, AskedInv
<1>2. ASSUME NEW p \in Ports, Sets(p), \A r \in Ports \ {p} : Before(r)
      PROVE  AskedInv' /\ SettingsKept'
  <2>1. AskedInv' /\ Settled(p)'
    BY <1>2 DEF Sets
  <2>2. ASSUME NEW r \in Ports \ {p}, is_open'[r], kind'[r] = "serial", r \notin misclosed'
        PROVE  Settled(r)'
    <3>1. is_open[r] /\ kind[r] = "serial" /\ dev'[r] = dev[r] /\ r \notin misclosed
      BY <1>2, <2>2 DEF Before
    <3>2. dev[r] \in SerialDevices
      BY <3>1 DEF PortInv, Fits
    <3>3. UNCHANGED <<speed, flow>> \/ dev[r] # dev[p]
      BY <1>2, <3>1, <3>2 DEF Sets, AloneInv, Alone
    <3> QED BY <1>2, <2>2, <3>1, <3>2, <3>3 DEF Sets, Settled, SettingsKept
  <2> QED BY <2>1, <2>2 DEF Settled, SettingsKept
<1> QED BY <1>1, <1>2 DEF LineStep


-----------------------------------------------------------------------------
(* The types.  First the queues.                                           *)

LEMMA Slices ==
  ASSUME NEW S, NEW s \in Seq(S), NEW i \in Nat, NEW j \in Nat, i <= Len(s), j <= Len(s), i <= j
  PROVE  SubSeq(s, i + 1, j) \in Seq(S) /\ SubSeq(s, 1, i) \in Seq(S)
<1>1. Len(s) \in Nat
  OBVIOUS
<1>2. i + 1 \in 1 .. Len(s) + 1 /\ j \in (i + 1) - 1 .. Len(s) /\ 1 \in 1 .. Len(s) + 1 /\ i \in 1 - 1 .. Len(s)
  BY <1>1
<1> QED BY <1>2, SubSeqProperties

LEMMA EmptyTyped == <<>> \in Seq(Bytes) /\ <<>> \in Seq(Commands)
  OBVIOUS

LEMMA AnswersTyped ==
  ASSUME QueueTypes, NEW d \in Devices, NEW c
  PROVE  Answers(d, c) \subseteq Seq(Bytes)
<1> DEFINE id == printer[d].id
<1>1. {id, "st", "nul", "noise", "hw", "sw"} \subseteq Bytes
  BY DEF QueueTypes, Bytes
<1>2. FlowByte(d) \in Bytes
  BY <1>1 DEF FlowByte
<1>3. ASSUME NEW x \in Bytes PROVE <<>> \in Seq(Bytes) /\ <<x>> \in Seq(Bytes)
  BY <1>3
<1>4. <<"st", "st", "st">> \in Seq(Bytes) /\ <<id, "nul">> \in Seq(Bytes)
  BY <1>1
<1> QED BY <1>1, <1>2, <1>3, <1>4 DEF Answers

LEMMA ReceivesTyped ==
  ASSUME QueueTypes, NEW d \in Devices, NEW c, Receives(d, c)
  PROVE  todo' \in [Devices -> Seq(Bytes)]
<1>1. PICK a \in Answers(d, c) : todo' = [todo EXCEPT ![d] = @ \o a]
  BY DEF Receives
<1>2. a \in Seq(Bytes) /\ todo[d] \in Seq(Bytes)
  BY <1>1, AnswersTyped DEF QueueTypes
<1>3. todo[d] \o a \in Seq(Bytes)
  BY <1>2
<1> QED BY <1>1, <1>3 DEF QueueTypes

LEMMA SendsTyped ==
  ASSUME QueueTypes, NEW d \in Devices, Sends(d)
  PROVE  todo' \in [Devices -> Seq(Bytes)] /\ outq' \in [Devices -> Seq(Commands)]
<1>1. CASE outq[d] = <<>>
  BY <1>1 DEF Sends, QueueTypes
<1>2. CASE outq[d] # <<>>
  <2>1. Receives(d, Head(outq[d])) /\ outq' = [outq EXCEPT ![d] = <<>>]
    BY <1>2 DEF Sends
  <2> QED BY <2>1, ReceivesTyped DEF QueueTypes
<1> QED BY <1>1, <1>2

LEMMA HangupTyped ==
  ASSUME QueueTypes, NEW d, Hangup(d)
  PROVE  inq' \in [Devices -> Seq(Bytes)] /\ outq' \in [Devices -> Seq(Commands)] /\ todo' \in [Devices -> Seq(Bytes)]
  BY EmptyTyped DEF Hangup, QueueTypes

LEMMA ReadTyped ==
  ASSUME NEW S, NEW s \in Seq(S), NEW n \in Nat, NEW k \in 0 .. Len(s), NEW e, NEW t, ReadsFrom(s, n, k, e, t)
  PROVE  got' \in Seq(S) /\ SubSeq(s, k + 1, Len(s)) \in Seq(S)
<1>1. Len(s) \in Nat /\ k \in Nat /\ k <= Len(s)
  OBVIOUS
<1>2. SubSeq(s, k + 1, Len(s)) \in Seq(S) /\ SubSeq(s, 1, k) \in Seq(S)
  BY <1>1, Slices
<1>3. <<>> \in Seq(S)
  OBVIOUS
<1> QED BY <1>2, <1>3 DEF ReadsFrom

LEMMA DataQueues ==
  ASSUME PortTypes, QueueTypes, PortInv, NEW p \in Ports, Data(p)
  PROVE  QueueTypes'
<1>0. printer' = printer
  BY DataFrame
<1>a. ASSUME UNCHANGED <<queues, read_buf>>, got' = <<>> PROVE QueueTypes'
  BY <1>0, <1>a DEF QueueTypes
<1>1. ASSUME NEW c \in Commands, NEW e, WriteStream(p, c, e), UNCHANGED read_buf, got' = <<>> PROVE QueueTypes'
  <2>1. <<c>> \in Seq(Commands)
    OBVIOUS
  <2>2. outq' \in [Devices -> Seq(Commands)]
    BY <1>1, <2>1 DEF WriteStream, QueueTypes
  <2> QED BY <1>0, <1>1, <2>2, EmptyTyped DEF WriteStream, QueueTypes
<1>2. ASSUME NEW c \in Commands, NEW e, aps_write(p, c, e) PROVE QueueTypes'
  <2>0. got' = <<>>
    BY <1>2 DEF aps_write, Keeps
  <2>1. CASE NotOpen(p, e)
    BY <1>a, <2>0, <2>1 DEF NotOpen
  <2>2. CASE is_open[p] /\ write(p, c, e)
    <3>1. CASE WriteStream(p, c, e) /\ UNCHANGED read_buf
      BY <1>1, <2>0, <3>1
    <3>2. CASE kind[p] = "parallel" /\ par_write(p, c, e) /\ OnlyParallel
      <4>1. todo' \in [Devices -> Seq(Bytes)]
        BY <3>2, ReceivesTyped DEF par_write, QueueTypes
      <4> QED BY <1>0, <2>0, <3>2, <4>1 DEF par_write, OnlyParallel, QueueTypes
    <3>3. CASE kind[p] = "usb" /\ usb_write(p, c, e)
      <4>1. dev[p] \in Devices
        BY <2>2, <3>3 DEF PortInv, PortTypes
      <4>2. todo' \in [Devices -> Seq(Bytes)]
        BY <3>3, <4>1, ReceivesTyped DEF usb_write, QueueTypes
      <4> QED BY <1>0, <2>0, <3>3, <4>2 DEF usb_write, QueueTypes
    <3> QED BY <2>2, <3>1, <3>2, <3>3 DEF write, serial_write, ethernet_write, OnlySerial, OnlyEthernet
  <2> QED BY <1>2, <2>1, <2>2 DEF aps_write
<1>3. CASE Write(p)
  BY <1>2, <1>3 DEF Write
<1>4. CASE WriteRt(p)
  <2>1. PICK e \in WriteErrors, c \in Commands : aps_write_rt(p, c, e)
    BY <1>4 DEF WriteRt
  <2>2. CASE is_open[p] /\ kind[p] = "serial" /\ serial_write_rt(p, c, e) /\ OnlySerial
    <3>1. todo' \in [Devices -> Seq(Bytes)]
      BY <2>2, ReceivesTyped DEF serial_write_rt, QueueTypes, Hangup
    <3>2. inq' \in [Devices -> Seq(Bytes)] /\ outq' \in [Devices -> Seq(Commands)]
      <4>1. <<c>> \in Seq(Commands)
        OBVIOUS
      <4>2. \/ UNCHANGED <<inq, outq>>
            \/ /\ inq' = [inq EXCEPT ![Reached(p)] = <<>>]
               /\ outq' = [outq EXCEPT ![Reached(p)] = <<>>] \/ outq' = [outq EXCEPT ![Reached(p)] = <<c>>]
        BY <2>2 DEF serial_write_rt, Hangup
      <4>3. inq' \in [Devices -> Seq(Bytes)]
        BY <4>2, EmptyTyped DEF QueueTypes
      <4>4. outq' \in [Devices -> Seq(Commands)]
        BY <4>1, <4>2, EmptyTyped DEF QueueTypes
      <4> QED BY <4>3, <4>4
    <3> QED BY <1>0, <2>1, <2>2, <3>1, <3>2 DEF aps_write_rt, Keeps, OnlySerial, QueueTypes
  <2>3. CASE kind[p] # "serial" \/ ~is_open[p]
    <3>1. aps_write(p, c, e)
      BY <2>1, <2>3 DEF aps_write_rt, aps_write, write_rt, NotOpen
    <3> QED BY <1>2, <3>1
  <2> QED BY <2>1, <2>2, <2>3 DEF aps_write_rt, write_rt, NotOpen
<1>5. CASE Read(p)
  <2>1. PICK e \in ReadErrors, n \in 1 .. MaxPending : aps_read(p, n, e)
    BY <1>5 DEF Read
  <2>0. n \in Nat
    BY <2>1
  <2>2. CASE NotOpen(p, e)
    BY <1>a, <2>1, <2>2 DEF NotOpen, aps_read
  <2>3. CASE ReadStream(p, n, e) /\ UNCHANGED read_buf
    <3> DEFINE d == Reached(p)  s == IF d \in Streams THEN inq[d] ELSE <<>>
    <3>1. s \in Seq(Bytes)
      BY DEF Streams, QueueTypes
    <3>2. PICK k \in 0 .. Len(s) :
             /\ ReadsFrom(s, n, k, e, read_timeout[p])
             /\ inq' = IF k = 0 THEN inq ELSE [inq EXCEPT ![d] = SubSeq(s, k + 1, Len(s))]
      BY <2>3 DEF ReadStream
    <3>3. got' \in Seq(Bytes) /\ SubSeq(s, k + 1, Len(s)) \in Seq(Bytes)
      <4> HIDE DEF s
      <4> QED BY <2>0, <3>1, <3>2, ReadTyped
    <3> QED BY <1>0, <2>3, <3>2, <3>3 DEF ReadStream, QueueTypes
  <2>4. CASE par_read(p, n, e) /\ UNCHANGED read_buf
    <3> DEFINE d == Reached(p)  s == IF d \in ParallelDevices THEN inq[d] ELSE <<>>
    <3>1. s \in Seq(Bytes)
      BY DEF QueueTypes
    <3>2. PICK k \in 0 .. Len(s) :
             /\ ReadsFrom(s, n, k, e, read_timeout[p]) \/ got' = <<>>
             /\ inq' = IF k = 0 THEN inq ELSE [inq EXCEPT ![d] = SubSeq(s, k + 1, Len(s))]
      BY <2>4 DEF par_read
    <3>3. SubSeq(s, k + 1, Len(s)) \in Seq(Bytes)
      BY <3>1, Slices
    <3>4. got' \in Seq(Bytes)
      <4> HIDE DEF s
      <4> QED BY <2>0, <3>1, <3>2, ReadTyped, EmptyTyped
    <3> QED BY <1>0, <2>4, <3>2, <3>3, <3>4 DEF par_read, QueueTypes
  <2>5. CASE is_open[p] /\ kind[p] = "usb" /\ usb_read(p, n, e)
    <3> DEFINE d == dev[p]  s == read_buf[p] \o inq[d]
    <3>1. dev[p] \in Devices
      BY <2>5 DEF PortInv, PortTypes
    <3>2. s \in Seq(Bytes)
      BY <3>1 DEF QueueTypes
    <3>3. PICK k \in 0 .. Len(s), m \in Len(read_buf[p]) .. Len(s) :
             /\ k <= m
             /\ ReadsFrom(s, n, k, e, read_timeout[p])
             /\ read_buf' = [read_buf EXCEPT ![p] = IF e = "OK" THEN SubSeq(s, k + 1, m) ELSE <<>>]
             /\ inq' = [inq EXCEPT ![d] = SubSeq(s, m + 1, Len(s))]
      BY <2>5 DEF usb_read
    <3>4. k \in Nat /\ m \in Nat /\ m <= Len(s) /\ Len(s) \in Nat
      BY <3>2, <3>3 DEF QueueTypes
    <3>5. SubSeq(s, k + 1, m) \in Seq(Bytes) /\ SubSeq(s, m + 1, Len(s)) \in Seq(Bytes)
      <4> HIDE DEF s
      <4>1. k <= Len(s) /\ k <= m
        BY <3>3, <3>4
      <4>2. SubSeq(s, k + 1, m) \in Seq(Bytes)
        BY <3>2, <3>4, <4>1, Slices
      <4>3. SubSeq(s, m + 1, Len(s)) \in Seq(Bytes)
        BY <3>2, <3>4, Slices
      <4> QED BY <4>2, <4>3
    <3>6. got' \in Seq(Bytes)
      <4> HIDE DEF s
      <4> QED BY <2>0, <3>2, <3>3, ReadTyped
    <3>7. UNCHANGED <<outq, todo>>
      BY <2>5 DEF usb_read
    <3> HIDE DEF s
    <3> QED BY <1>0, <3>3, <3>5, <3>6, <3>7, EmptyTyped DEF QueueTypes
  <2> QED BY <2>1, <2>2, <2>3, <2>4, <2>5
          DEF aps_read, read, serial_read, ethernet_read, OnlySerial, OnlyParallel, OnlyEthernet
<1>6. CASE Sync(p)
  <2>1. PICK e : aps_sync(p, e)
    BY <1>6 DEF Sync
  <2>2. got' = <<>>
    BY <2>1 DEF aps_sync, Keeps
  <2>3. CASE kind[p] = "serial" /\ serial_sync(p, e) /\ OnlySerial
    <3>1. todo' \in [Devices -> Seq(Bytes)] /\ outq' \in [Devices -> Seq(Commands)]
      BY <2>3, SendsTyped DEF serial_sync, Streams, QueueTypes
    <3> QED BY <1>0, <2>2, <2>3, <3>1 DEF serial_sync, OnlySerial, QueueTypes
  <2>4. CASE UNCHANGED <<queues, read_buf>>
    BY <1>a, <2>2, <2>4
  <2> QED BY <2>1, <2>3, <2>4
          DEF aps_sync, NotOpen, sync, par_sync, usb_sync, ethernet_sync, OnlyParallel, OnlyEthernet
<1>7. CASE Flush(p)
  <2>1. PICK e : aps_flush(p, e)
    BY <1>7 DEF Flush
  <2>2. got' = <<>>
    BY <2>1 DEF aps_flush, Keeps
  <2>3. CASE kind[p] = "serial" /\ serial_flush(p, e) /\ OnlySerial
    <3>1. UNCHANGED read_buf /\ (UNCHANGED queues \/ Hangup(Reached(p)))
      BY <2>3 DEF serial_flush, OnlySerial
    <3> QED BY <1>0, <2>2, <3>1, EmptyTyped, HangupTyped DEF QueueTypes
  <2>4. CASE is_open[p] /\ kind[p] = "usb" /\ usb_flush(p, e)
    <3> DEFINE d == dev[p]  s == inq[d]
    <3>1. d \in Devices
      BY <2>4 DEF PortInv, PortTypes
    <3>2. s \in Seq(Bytes)
      BY <3>1 DEF QueueTypes
    <3>3. read_buf' = [read_buf EXCEPT ![p] = <<>>] /\ UNCHANGED <<outq, todo>>
      BY <2>4 DEF usb_flush
    <3>4. CASE inq' = inq
      BY <1>0, <2>2, <3>3, <3>4, EmptyTyped DEF QueueTypes
    <3>5. ASSUME NEW k \in 0 .. Len(s), inq' = [inq EXCEPT ![d] = SubSeq(s, k + 1, Len(s))]
          PROVE  QueueTypes'
      <4>1. SubSeq(s, k + 1, Len(s)) \in Seq(Bytes)
        <5> HIDE DEF s
        <5> QED BY <3>2, Slices
      <4> HIDE DEF s
      <4> QED BY <1>0, <2>2, <3>3, <3>5, <4>1, EmptyTyped DEF QueueTypes
    <3> QED BY <2>4, <3>4, <3>5 DEF usb_flush
  <2>5. CASE UNCHANGED <<queues, read_buf>>
    BY <1>a, <2>2, <2>5
  <2> QED BY <2>1, <2>3, <2>4, <2>5
          DEF aps_flush, NotOpen, flush, par_flush, ethernet_flush, OnlyParallel, OnlyEthernet
<1>8. CASE SetSerial(p)
  <2>1. UNCHANGED <<queues, read_buf>> /\ got' = <<>>
    BY <1>8 DEF SetSerial, Between, aps_serial_set_baudrate, InUse, Reached, Keeps,
       NotOpen, WrongType, serial_set_baudrate, OnlySerial, aps_serial_set_handshake,
       serial_set_handshake
  <2> QED BY <1>a, <2>1
<1>9. CASE SetParallel(p)
  <2>1. read_buf' = read_buf /\ got' = <<>> /\ outq' = outq
    BY <1>9 DEF SetParallel, Between, aps_parallel_reset, InUse, Reached, Keeps, NotOpen,
       WrongType, par_reset, OnlyParallel, aps_parallel_set_mode, par_set_mode
  <2>2. inq' \in [Devices -> Seq(Bytes)] /\ todo' \in [Devices -> Seq(Bytes)]
    <3>1. UNCHANGED <<inq, todo>> \/ par_reset(p, "OK") \/ par_reset(p, "IO_ERROR")
      BY <1>9 DEF SetParallel, aps_parallel_reset, aps_parallel_set_mode, NotOpen, WrongType,
         par_reset, par_set_mode, OnlyParallel
    <3>2. /\ inq' = inq \/ inq' = [inq EXCEPT ![Reached(p)] = <<>>]
          /\ todo' = todo \/ todo' = [todo EXCEPT ![Reached(p)] = <<>>]
      BY <3>1 DEF par_reset
    <3>3. inq' \in [Devices -> Seq(Bytes)]
      BY <3>2, EmptyTyped DEF QueueTypes
    <3>4. todo' \in [Devices -> Seq(Bytes)]
      BY <3>2, EmptyTyped DEF QueueTypes
    <3> QED BY <3>3, <3>4
  <2> QED BY <1>0, <2>1, <2>2 DEF QueueTypes
<1>10. CASE Control(p)
  <2>1. UNCHANGED <<queues, read_buf>> /\ got' = <<>>
    BY <1>10 DEF Control, Between, aps_usb_control, InUse, Reached, Keeps, NotOpen,
       WrongType, usb_control, Working, OnlyUsb
  <2> QED BY <1>a, <2>1
<1>11. CASE SetTimeouts(p)
  <2>1. UNCHANGED <<queues, read_buf>> /\ got' = <<>>
    BY <1>11 DEF SetTimeouts, Between, aps_set_write_timeout, InUse, Reached, Keeps,
       aps_set_read_timeout
  <2> QED BY <1>a, <2>1
<1> QED BY <1>3, <1>4, <1>5, <1>6, <1>7, <1>8, <1>9, <1>10, <1>11 DEF Data

LEMMA BuildsOnly ==
  ASSUME NEW p, Create(p)
  PROVE  (\E e \in ListResults : usb_list_ports(p, e)) \/ \E k, d : Builds(p, k, d)
<1>2. ASSUME NEW e, NEW u, aps_create_port(p, u, e) PROVE \E k, d : Builds(p, k, d)
  <2> HIDE DEF Builds
  <2> QED BY <1>2 DEF aps_create_port
<1>3. ASSUME NEW e, NEW d,
             \/ aps_create_serial_port(p, d, e) \/ aps_create_parallel_port(p, d, e)
             \/ aps_create_ethernet_port(p, d, e) \/ aps_create_usb_port(p, e)
      PROVE  \E k, x : Builds(p, k, x)
  BY <1>3 DEF aps_create_serial_port, aps_create_parallel_port, aps_create_ethernet_port,
     aps_create_usb_port
<1> QED BY <1>2, <1>3 DEF Create

LEMMA LifeQueues ==
  ASSUME PortTypes, QueueTypes, NEW p \in Ports,
         Create(p) \/ Open(p) \/ Shut(p) \/ Destroy(p) \/ Kill(p) \/ Frees(p)
  PROVE  QueueTypes'
<1>0. Create(p) => (\E e \in ListResults : usb_list_ports(p, e)) \/ \E k, d : Builds(p, k, d)
  BY BuildsOnly
<1>1. UNCHANGED printer /\ got' = <<>>
  <2>1. CASE Create(p)
    BY <1>0, <2>1 DEF usb_list_ports, Builds
  <2> QED BY <2>1 DEF Open, aps_open, Shut, aps_close, Destroy, aps_destroy_port, Kill, aps_usb_kill, Frees
<1>2. CASE UNCHANGED <<queues, read_buf>>
  BY <1>1, <1>2 DEF QueueTypes
<1>3. CASE Create(p)
  BY <1>0, <1>2, <1>3 DEF usb_list_ports, Builds
<1>4. CASE Open(p)
  <2>1. PICK e : aps_open(p, e)
    BY <1>4 DEF Open
  <2>2. CASE kind[p] = "ethernet" /\ ethernet_open(p, e) /\ OnlyEthernet
    <3>1. UNCHANGED read_buf /\ (UNCHANGED queues \/ Hangup(dev[p]))
      BY <2>2 DEF ethernet_open, OnlyEthernet
    <3> QED BY <1>1, <3>1, EmptyTyped, HangupTyped DEF QueueTypes
  <2> QED BY <1>2, <2>1, <2>2 DEF aps_open, open_, serial_open, par_open, usb_open, OnlySerial, OnlyParallel
<1>5. ASSUME NEW e, Shuts(p, e) PROVE QueueTypes'
  <2>1. read_buf' = read_buf
    BY <1>5 DEF Shuts, close, serial_close, OnlySerial, par_close, OnlyParallel, usb_close,
       OnlyUsb, ethernet_close, OnlyEthernet
  <2>2. UNCHANGED queues \/ Hangup(Reached(p))
    BY <1>5 DEF Shuts, close, serial_close, CloseDescriptor, OnlySerial, par_close,
       OnlyParallel, usb_close, OnlyUsb, ethernet_close, OnlyEthernet
  <2> QED BY <1>1, <2>1, <2>2, EmptyTyped, HangupTyped DEF QueueTypes
<1>6. CASE Shut(p)
  BY <1>2, <1>5, <1>6 DEF Shut, aps_close, NotOpen
<1>7. CASE Destroy(p)
  BY <1>2, <1>5, <1>7 DEF Destroy, aps_destroy_port
<1>8. CASE Kill(p)
  BY <1>2, <1>8 DEF Kill, aps_usb_kill, usb_kill, NotOpen, WrongType
<1>9. CASE Frees(p)
  BY <1>1, <1>9 DEF Frees, QueueTypes
<1> QED BY <1>3, <1>4, <1>6, <1>7, <1>8, <1>9

LEMMA QueueTypesStep ==
  ASSUME PortTypes, QueueTypes, PortInv, [Next]_vars
  PROVE  QueueTypes'
<1>1. CASE Environment
  <2>1. UNCHANGED <<printer, got, read_buf>>
    BY <1>1, EnvironmentFrame
  <2>2. ASSUME NEW d \in SerialDevices \union EthernetDevices, Transmit(d) PROVE QueueTypes'
    <3>1. todo' \in [Devices -> Seq(Bytes)] /\ outq' \in [Devices -> Seq(Commands)]
      <4>1. CASE outq' = [outq EXCEPT ![d] = <<>>] /\ UNCHANGED todo
        BY <4>1, EmptyTyped DEF QueueTypes
      <4>2. CASE Sends(d)
        BY <4>2, SendsTyped
      <4> QED BY <2>2, <4>1, <4>2 DEF Transmit
    <3> QED BY <2>1, <2>2, <3>1 DEF Transmit, QueueTypes
  <2>3. ASSUME NEW d \in Devices, Answer(d) PROVE QueueTypes'
    <3>1. todo[d] \in Seq(Bytes) /\ todo[d] # <<>> /\ inq[d] \in Seq(Bytes)
      BY <2>3 DEF Answer, QueueTypes
    <3>2. Head(todo[d]) \in Bytes /\ Tail(todo[d]) \in Seq(Bytes)
      BY <3>1
    <3>3. Arriving(d) \in Bytes
      BY <3>2 DEF Arriving, Bytes
    <3>4. Append(inq[d], Arriving(d)) \in Seq(Bytes)
      BY <3>1, <3>3
    <3> QED BY <2>1, <2>3, <3>2, <3>4 DEF Answer, QueueTypes
  <2>4. ASSUME NEW d, HangsUp(d) PROVE QueueTypes'
    BY <2>1, <2>4 DEF HangsUp, QueueTypes
  <2>5. ASSUME NEW d, Leaves(d) PROVE QueueTypes'
    BY <2>1, <2>5 DEF Leaves, QueueTypes
  <2> QED BY <1>1, <2>2, <2>3, <2>4, <2>5 DEF Environment
<1>2. ASSUME NEW p \in Ports, Calls(p) PROVE QueueTypes'
  BY <1>2, DataQueues, LifeQueues DEF Calls, Data
<1>3. CASE UNCHANGED vars
  BY <1>3 DEF QueueTypes
<1> QED BY <1>1, <1>2, <1>3 DEF Next


-----------------------------------------------------------------------------
(* Then the settings and the USB globals.                                  *)

LEMMA WordsTyped ==
  /\ \A w : BaudOf(w) \in Bauds
  /\ \A w : FlowOf(w) \in Flows
  /\ "RTSCTS" \in Flows /\ "NONE" \in Flows /\ 0 \in Bauds
<1>1. "RTSCTS" \in Flows /\ "NONE" \in Flows /\ 0 \in Bauds
  BY DEF Flows, Bauds
<1>2. ASSUME NEW w PROVE BaudOf(w) \in Bauds
  <2>1. string_to_baudrate(w) \subseteq Bauds
    BY DEF string_to_baudrate
  <2>2. CASE w = "" \/ string_to_baudrate(w) = {}
    BY <2>2 DEF BaudOf
  <2>3. CASE ~(w = "" \/ string_to_baudrate(w) = {})
    <3>1. (CHOOSE x \in string_to_baudrate(w) : TRUE) \in string_to_baudrate(w)
      BY <2>3
    <3> QED BY <2>1, <2>3, <3>1 DEF BaudOf
  <2> QED BY <2>2, <2>3
<1>3. ASSUME NEW w PROVE FlowOf(w) \in Flows
  <2>1. string_to_handshake(w) \subseteq Flows
    BY DEF string_to_handshake
  <2>2. CASE w = "" \/ string_to_handshake(w) = {}
    BY <1>1, <2>2 DEF FlowOf
  <2>3. CASE ~(w = "" \/ string_to_handshake(w) = {})
    <3>1. (CHOOSE x \in string_to_handshake(w) : TRUE) \in string_to_handshake(w)
      BY <2>3
    <3> QED BY <2>1, <2>3, <3>1 DEF FlowOf
  <2> QED BY <2>2, <2>3
<1> QED BY <1>1, <1>2, <1>3

LEMMA DataSettings ==
  ASSUME SettingTypes, NEW p \in Ports, Data(p)
  PROVE  SettingTypes'
<1>a. ASSUME UNCHANGED <<timeouts, serialVars, link, mode>> PROVE SettingTypes'
  BY <1>a DEF SettingTypes
<1>1. CASE Write(p)
  <2>1. UNCHANGED <<timeouts, serialVars, link, mode>>
    BY <1>1 DEF Write, Between, aps_write, InUse, Keeps, NotOpen, write, serial_write,
       OnlySerial, par_write, OnlyParallel, usb_write, OnlyUsb, ethernet_write,
       OnlyEthernet
  <2> QED BY <1>a, <2>1
<1>2. CASE Read(p)
  <2>1. UNCHANGED <<timeouts, serialVars, link, mode>>
    BY <1>2 DEF Read, Between, aps_read, InUse, NotOpen, read, serial_read, OnlySerial,
       par_read, OnlyParallel, usb_read, OnlyUsb, ethernet_read, OnlyEthernet
  <2> QED BY <1>a, <2>1
<1>3. CASE Sync(p)
  <2>1. UNCHANGED <<timeouts, serialVars, link, mode>>
    BY <1>3 DEF Sync, Between, aps_sync, InUse, Keeps, NotOpen, sync, serial_sync,
       OnlySerial, par_sync, OnlyParallel, usb_sync, OnlyUsb, ethernet_sync, OnlyEthernet
  <2> QED BY <1>a, <2>1
<1>4. CASE Flush(p)
  <2>1. UNCHANGED <<timeouts, serialVars, link, mode>>
    BY <1>4 DEF Flush, Between, aps_flush, InUse, Keeps, NotOpen, flush, serial_flush,
       Hangup, OnlySerial, par_flush, OnlyParallel, usb_flush, OnlyUsb, ethernet_flush,
       OnlyEthernet
  <2> QED BY <1>a, <2>1
<1>5. CASE Control(p)
  <2>1. UNCHANGED <<timeouts, serialVars, link, mode>>
    BY <1>5 DEF Control, Between, aps_usb_control, InUse, Reached, Keeps, NotOpen,
       WrongType, usb_control, OnlyUsb
  <2> QED BY <1>a, <2>1
<1>6. CASE SetParallel(p)
  <2>1. UNCHANGED <<timeouts, serialVars, link>> /\ (mode' = mode \/ \E m \in {"POLL", "IRQ"} : mode' = [mode EXCEPT ![p] = m])
    BY <1>6 DEF SetParallel, aps_parallel_reset, aps_parallel_set_mode, NotOpen, WrongType,
         par_reset, par_set_mode, OnlyParallel
  <2> QED BY <2>1 DEF SettingTypes
<1>7. CASE SetTimeouts(p)
  <2>1. /\ UNCHANGED <<serialVars, link, mode>>
        /\ write_timeout' = write_timeout \/ \E ms \in {0, 1} : write_timeout' = [write_timeout EXCEPT ![p] = ms]
        /\ read_timeout' = read_timeout \/ \E ms \in {0, 1} : read_timeout' = [read_timeout EXCEPT ![p] = ms]
    BY <1>7 DEF SetTimeouts, aps_set_write_timeout, aps_set_read_timeout
  <2> QED BY <2>1 DEF SettingTypes
<1>8. CASE SetSerial(p)
  <2>1. ASSUME NEW e, NEW b \in Bauds, aps_serial_set_baudrate(p, b, e) PROVE SettingTypes'
    <3>1. /\ UNCHANGED <<timeouts, handshake, asked, flow, loose, link, mode>>
          /\ \/ UNCHANGED <<speed, baudrate>>
             \/ speed' = [speed EXCEPT ![Reached(p)] = b] /\ baudrate' = [baudrate EXCEPT ![p] = b]
      BY <2>1 DEF aps_serial_set_baudrate, NotOpen, WrongType, serial_set_baudrate, OnlySerial
    <3> QED BY <3>1 DEF SettingTypes
  <2>2. ASSUME NEW e, NEW f \in Flows, aps_serial_set_handshake(p, f, e) PROVE SettingTypes'
    <3>1. /\ UNCHANGED <<timeouts, baudrate, speed, link, mode>>
          /\ \/ UNCHANGED <<flow, handshake, asked, loose>>
             \/ /\ flow' = [flow EXCEPT ![Reached(p)] = f] /\ handshake' = [handshake EXCEPT ![p] = f]
                /\ asked' = [asked EXCEPT ![p] = f] /\ loose' = [loose EXCEPT ![p] = FALSE]
      BY <2>2 DEF aps_serial_set_handshake, NotOpen, WrongType, serial_set_handshake, OnlySerial
    <3>2. flow' \in [SerialDevices -> Flows] /\ handshake' \in [Ports -> Flows]
      BY <2>2, <3>1 DEF SettingTypes
    <3>3. asked' \in [Ports -> Flows]
      BY <2>2, <3>1 DEF SettingTypes
    <3>4. loose' \in [Ports -> BOOLEAN]
      BY <3>1 DEF SettingTypes
    <3> QED BY <3>1, <3>2, <3>3, <3>4 DEF SettingTypes
  <2> QED BY <1>8, <2>1, <2>2 DEF SetSerial
<1>9. CASE WriteRt(p)
  <2>1. PICK e \in WriteErrors, c \in Commands : aps_write_rt(p, c, e)
    BY <1>9 DEF WriteRt
  <2>2. CASE is_open[p] /\ kind[p] = "serial" /\ serial_write_rt(p, c, e) /\ OnlySerial
    <3>1. UNCHANGED <<timeouts, baudrate, asked, speed, handshake, link, mode>>
      BY <2>2 DEF serial_write_rt, Restored, OnlySerial
    <3>2. UNCHANGED <<flow, loose>> \/ FlowOff(p) \/ FlowOn(p)
      BY <2>2 DEF serial_write_rt
    <3>3. flow' \in [SerialDevices -> Flows] /\ loose' \in [Ports -> BOOLEAN]
      <4>1. handshake'[p] \in Flows /\ "NONE" \in Flows
        BY <3>1, WordsTyped DEF SettingTypes
      <4>2. flow' = flow \/ \E f \in Flows : flow' = [flow EXCEPT ![Reached(p)] = f]
        BY <3>2, <4>1 DEF FlowOff, FlowOn
      <4>3. loose' = loose \/ \E b \in BOOLEAN : loose' = [loose EXCEPT ![p] = b]
        BY <3>2 DEF FlowOff, FlowOn
      <4>4. flow' \in [SerialDevices -> Flows]
        BY <4>2 DEF SettingTypes
      <4>5. loose' \in [Ports -> BOOLEAN]
        BY <4>3 DEF SettingTypes
      <4> QED BY <4>4, <4>5
    <3> QED BY <3>1, <3>3 DEF SettingTypes
  <2>3. CASE UNCHANGED world
    BY <1>a, <2>3
  <2>4. CASE kind[p] # "serial" /\ write(p, c, e)
    <3>1. UNCHANGED <<timeouts, serialVars, link, mode>>
      BY <2>4 DEF write, serial_write, OnlySerial, par_write, OnlyParallel, usb_write,
         OnlyUsb, ethernet_write, OnlyEthernet
    <3> QED BY <1>a, <3>1
  <2> QED BY <2>1, <2>2, <2>3, <2>4 DEF aps_write_rt, write_rt, NotOpen
<1> QED BY <1>1, <1>2, <1>3, <1>4, <1>5, <1>6, <1>7, <1>8, <1>9 DEF Data

LEMMA LifeSettings ==
  ASSUME PortTypes, SettingTypes, NEW p \in Ports,
         Create(p) \/ Open(p) \/ Shut(p) \/ Destroy(p) \/ Kill(p) \/ Frees(p)
  PROVE  SettingTypes'
<1>a. ASSUME UNCHANGED <<timeouts, serialVars, link, mode>> PROVE SettingTypes'
  BY <1>a DEF SettingTypes
<1>1. ASSUME NEW b \in Bauds, NEW f \in Flows, SetsUp(p, b, f)
      PROVE  baudrate' \in [Ports -> Bauds] /\ handshake' \in [Ports -> Flows] /\ asked' \in [Ports -> Flows]
  BY <1>1 DEF SetsUp, SettingTypes
<1>2. CASE Create(p)
  <2>1. ASSUME NEW k, NEW d, Builds(p, k, d) PROVE UNCHANGED <<timeouts, speed, flow, loose, link>>
    BY <2>1 DEF Builds
  <2>2. ASSUME NEW k, NEW d, NEW b \in Bauds, NEW f \in Flows, Builds(p, k, d), SetsUp(p, b, f), UNCHANGED mode
        PROVE  SettingTypes'
    BY <1>1, <2>1, <2>2 DEF SettingTypes
  <2>3. ASSUME NEW k, NEW d, Builds(p, k, d), UNCHANGED settings,
               mode' = mode \/ \E m \in {"POLL", "IRQ"} : mode' = [mode EXCEPT ![p] = m]
        PROVE  SettingTypes'
    BY <2>1, <2>3 DEF SettingTypes
  <2> HIDE DEF Builds, SetsUp
  <2>4. ASSUME NEW e, NEW d, aps_create_serial_port(p, d, e) PROVE SettingTypes'
    BY <2>2, <2>3, <2>4, WordsTyped DEF aps_create_serial_port
  <2>5. ASSUME NEW e, NEW d,
               \/ aps_create_parallel_port(p, d, e) \/ aps_create_ethernet_port(p, d, e)
               \/ aps_create_usb_port(p, e)
        PROVE  SettingTypes'
    BY <2>3, <2>5 DEF aps_create_parallel_port, aps_create_ethernet_port, aps_create_usb_port
  <2>6. ASSUME NEW e, NEW u, aps_create_port(p, u, e) PROVE SettingTypes'
    <3>1. \/ \E k, d : Builds(p, k, d) /\ UNCHANGED settings
                       /\ (UNCHANGED mode \/ \E su : par_create_from_uri(p, su, e))
          \/ \E d, su : Builds(p, "serial", d) /\ serial_create_from_uri(p, su, e) /\ UNCHANGED mode
      <4> HIDE DEF settings, serial_create_from_uri, par_create_from_uri
      <4> QED BY <2>6 DEF aps_create_port
    <3>2. ASSUME NEW su, serial_create_from_uri(p, su, e) PROVE \E b \in Bauds, f \in Flows : SetsUp(p, b, f)
      BY <3>2, WordsTyped DEF serial_create_from_uri
    <3>3. ASSUME NEW su, par_create_from_uri(p, su, e)
          PROVE  mode' = mode \/ \E m \in {"POLL", "IRQ"} : mode' = [mode EXCEPT ![p] = m]
      BY <3>3 DEF par_create_from_uri, string_to_mode
    <3> QED BY <2>2, <2>3, <3>1, <3>2, <3>3
  <2>7. CASE \E e \in ListResults : usb_list_ports(p, e)
    BY <1>a, <2>7 DEF usb_list_ports
  <2> QED BY <1>2, <2>4, <2>5, <2>6, <2>7 DEF Create
<1>3. CASE Open(p)
  <2>1. PICK e : aps_open(p, e)
    BY <1>3 DEF Open
  <2>2. CASE UNCHANGED <<timeouts, serialVars, link, mode>>
    BY <1>a, <2>2
  <2>3. CASE serial_open(p, e) /\ OnlySerial
    <3>1. UNCHANGED <<timeouts, settings, link, mode>>
      BY <2>3 DEF serial_open, OnlySerial
    <3>2. speed' \in [SerialDevices -> Bauds] /\ flow' \in [SerialDevices -> Flows] /\ loose' \in [Ports -> BOOLEAN]
      BY <2>3 DEF serial_open, SetLine, SettingTypes
    <3> QED BY <3>1, <3>2 DEF SettingTypes
  <2>4. CASE ethernet_open(p, e) /\ OnlyEthernet
    <3>1. UNCHANGED <<read_timeout, serialVars, mode>>
      BY <2>4 DEF ethernet_open, OnlyEthernet
    <3>2. write_timeout' = write_timeout \/ write_timeout' = [write_timeout EXCEPT ![p] = 1]
      BY <2>4 DEF ethernet_open
    <3>3. link' = link \/ \E x \in {"up", "down"} : link' = [link EXCEPT ![dev[p]] = x]
      BY <2>4 DEF ethernet_open
    <3> QED BY <3>1, <3>2, <3>3 DEF SettingTypes
  <2> QED BY <2>1, <2>2, <2>3, <2>4 DEF aps_open, open_, par_open, usb_open, OnlyParallel, OnlyUsb
<1>4. ASSUME NEW e, Shuts(p, e) PROVE SettingTypes'
  <2>1. UNCHANGED <<timeouts, serialVars, link, mode>>
    BY <1>4 DEF Shuts, close, serial_close, OnlySerial, par_close, OnlyParallel, usb_close,
       OnlyUsb, ethernet_close, OnlyEthernet
  <2> QED BY <1>a, <2>1
<1>5. CASE Shut(p)
  BY <1>a, <1>4, <1>5 DEF Shut, aps_close, NotOpen
<1>6. CASE Destroy(p)
  BY <1>a, <1>4, <1>6 DEF Destroy, aps_destroy_port
<1>7. CASE Kill(p)
  BY <1>a, <1>7 DEF Kill, aps_usb_kill, usb_kill, NotOpen, WrongType, OnlyUsb
<1>8. CASE Frees(p)
  <2>1. baudrate' \in [Ports -> Bauds] /\ handshake' \in [Ports -> Flows] /\ asked' \in [Ports -> Flows]
    BY <1>1, <1>8, WordsTyped DEF Frees
  <2> QED BY <1>8, <2>1 DEF Frees, SettingTypes
<1> QED BY <1>2, <1>3, <1>5, <1>6, <1>7, <1>8

LEMMA SettingTypesStep ==
  ASSUME PortTypes, SettingTypes, [Next]_vars
  PROVE  SettingTypes'
<1>1. CASE Environment
  <2>1. ASSUME NEW d \in EthernetDevices, HangsUp(d) PROVE SettingTypes'
    BY <2>1 DEF HangsUp, PrinterHangsUp, SettingTypes
  <2>2. ASSUME NEW d, Transmit(d) \/ Answer(d) \/ Leaves(d) PROVE SettingTypes'
    BY <2>2 DEF Transmit, Answer, Leaves, SettingTypes
  <2> QED BY <1>1, <2>1, <2>2 DEF Environment
<1>2. ASSUME NEW p \in Ports, Calls(p) PROVE SettingTypes'
  BY <1>2, DataSettings, LifeSettings DEF Calls, Data
<1>3. CASE UNCHANGED vars
  BY <1>3 DEF SettingTypes
<1> QED BY <1>1, <1>2, <1>3 DEF Next

LEMMA UsbTypesStep ==
  ASSUME PortTypes, UsbTypes, PortInv, [Next]_vars
  PROVE  UsbTypes'
<1>1. CASE Environment
  <2>1. ASSUME NEW d \in UsbDevices, Leaves(d) PROVE UsbTypes'
    BY <2>1 DEF Leaves, Unplug, UsbTypes
  <2>2. ASSUME NEW d, Transmit(d) \/ Answer(d) \/ HangsUp(d) PROVE UsbTypes'
    BY <2>2 DEF Transmit, Answer, HangsUp, UsbTypes
  <2> QED BY <1>1, <2>1, <2>2 DEF Environment
<1>a. ASSUME UNCHANGED <<usbList, usbBus, pdev, was_kernel_driver_attached>> PROVE UsbTypes'
  BY <1>a DEF UsbTypes
<1>2. ASSUME NEW p \in Ports, Calls(p) PROVE UsbTypes'
  <2>1. CASE Data(p)
    BY <1>a, <2>1, DataFrame
  <2>2. CASE Create(p)
    <3> DEFINE Lists == \/ UNCHANGED <<usbList, pdev>> \/ (init_libusb /\ UNCHANGED pdev)
                        \/ DropList \/ LeaveFreed \/ ForgetList
    <3>0. ASSUME Lists, UNCHANGED <<usbBus, was_kernel_driver_attached>> PROVE UsbTypes'
      BY <3>0, ListTypes DEF UsbTypes
    <3>1. ASSUME NEW k, NEW d, Builds(p, k, d), Lists PROVE UsbTypes'
      <4>1. UNCHANGED <<usbBus, was_kernel_driver_attached>>
        BY <3>1 DEF Builds
      <4> QED BY <3>0, <3>1, <4>1
    <3>2. ASSUME NEW e, NEW u, aps_create_port(p, u, e) PROVE UsbTypes'
      <4>1. (\E k, d : Builds(p, k, d)) /\ (UNCHANGED <<usbList, pdev>> \/ \E su, x : usb_create_from_uri(p, su, x, e))
        <5> HIDE DEF Builds, usb_create_from_uri, usbList
        <5> QED BY <3>2 DEF aps_create_port
      <4>2. ASSUME NEW su, NEW x, usb_create_from_uri(p, su, x, e)
            PROVE  Lists
        <5> HIDE DEF init_libusb, DropList, LeaveFreed, usbList
        <5> QED BY <4>2 DEF usb_create_from_uri
      <4> QED BY <3>1, <4>1, <4>2
    <3>3. ASSUME NEW e, NEW d,
                 \/ aps_create_serial_port(p, d, e) \/ aps_create_parallel_port(p, d, e)
                 \/ aps_create_ethernet_port(p, d, e) \/ aps_create_usb_port(p, e)
          PROVE  UsbTypes'
      <4>1. (\E k, x : Builds(p, k, x)) /\ Lists
        <5> HIDE DEF Builds, init_libusb, usbList
        <5> QED BY <3>3 DEF aps_create_serial_port, aps_create_parallel_port, aps_create_ethernet_port,
                aps_create_usb_port
      <4> QED BY <3>1, <4>1
    <3>4. ASSUME NEW e, usb_list_ports(p, e) PROVE UsbTypes'
      <4>1. UNCHANGED <<usbBus, was_kernel_driver_attached>>
        BY <3>4 DEF usb_list_ports
      <4>2. CASE Lists
        BY <3>0, <4>1, <4>2
      <4>3. CASE init_libusb /\ pdev' = [pdev EXCEPT ![p] = Fetched]
        <5>1. /\ libusb_ctx' \in BOOLEAN /\ devs' \in {"null", "list", "freed"} /\ devcnt' \in {0, 1}
              /\ listed' \subseteq UsbDevices
          BY <4>3 DEF init_libusb, UsbTypes
        <5>2. Fetched \in {"null", "dev", "freed"}
          BY DEF Fetched
        <5>3. pdev' \in [Ports -> {"null", "dev", "freed"}]
          BY <4>3, <5>2 DEF UsbTypes
        <5> QED BY <4>1, <5>1, <5>3 DEF UsbTypes
      <4> QED
        <5> HIDE DEF init_libusb, DropList, LeaveFreed, ForgetList, usbList
        <5> QED BY <3>4, <4>2, <4>3 DEF usb_list_ports
    <3> QED BY <2>2, <3>2, <3>3, <3>4 DEF Create
  <2>3. CASE Open(p)
    <3>1. PICK e : aps_open(p, e)
      BY <2>3 DEF Open
    <3>2. CASE kind[p] # "usb" \/ is_open[p]
      <4>1. UNCHANGED usbVars
        BY <3>1, <3>2 DEF aps_open, open_, OnlySerial, OnlyParallel, OnlyEthernet
      <4> QED BY <1>a, <4>1
    <3>3. CASE kind[p] = "usb" /\ usb_open(p, e)
      <4>1. dev[p] \in UsbDevices \union {NoDevice}
        BY <3>3 DEF PortInv, Fits
      <4>2. UNCHANGED plugged
        BY <3>3 DEF usb_open
      <4>3. UNCHANGED <<driver, found>> \/ (Detaches(p, dev[p]) /\ dev[p] \in UsbDevices)
        BY <3>3, <4>1 DEF usb_open, Listed, UsbTypes
      <4>4. abandoned' = abandoned \/ (abandoned' = abandoned \union {dev[p]} /\ dev[p] \in UsbDevices)
        BY <3>3, <4>1 DEF usb_open, Listed, UsbTypes
      <4>5. claim' = claim \/ \E h \in Handles : claim' = [claim EXCEPT ![dev[p]] = h]
        BY <3>3 DEF usb_open
      <4>6. UNCHANGED was_kernel_driver_attached
            \/ was_kernel_driver_attached' = [was_kernel_driver_attached EXCEPT ![p] = dev[p] \in driver]
        BY <3>3 DEF usb_open, Detaches
      <4>7. \/ UNCHANGED <<usbList, pdev>> \/ DropList \/ LeaveFreed
            \/ UNCHANGED usbList /\ pdev' = [pdev EXCEPT ![p] = Fetched]
        <5> HIDE DEF DropList, LeaveFreed, usbList
        <5> QED BY <3>3 DEF usb_open
      <4>8. driver' \subseteq UsbDevices /\ found' \subseteq UsbDevices /\ abandoned' \subseteq UsbDevices
        BY <4>3, <4>4 DEF Detaches, UsbTypes
      <4>9. was_kernel_driver_attached' \in [Ports -> BOOLEAN]
        <5>1. (dev[p] \in driver) \in BOOLEAN
          OBVIOUS
        <5> QED BY <4>6, <5>1, Zenon DEF UsbTypes
      <4>10. claim' \in [UsbDevices -> Handles \union {0}]
        BY <4>5 DEF UsbTypes
      <4>11. /\ libusb_ctx' \in BOOLEAN /\ devs' \in {"null", "list", "freed"} /\ devcnt' \in {0, 1}
             /\ listed' \subseteq UsbDevices /\ pdev' \in [Ports -> {"null", "dev", "freed"}]
        <5>1. Fetched \in {"null", "dev", "freed"}
          BY DEF Fetched
        <5> QED BY <4>7, <5>1, ListTypes DEF UsbTypes
      <4> QED BY <4>2, <4>8, <4>9, <4>10, <4>11 DEF UsbTypes
    <3> QED BY <3>1, <3>2, <3>3 DEF aps_open, open_
  <2>4. ASSUME NEW e, is_open[p], Shuts(p, e) PROVE UsbTypes'
    <3>1. CASE kind[p] = "usb" /\ usb_close(p, e)
      <4>1. dev[p] \in UsbDevices
        BY <2>4, <3>1 DEF PortInv, Fits
      <4>2. UNCHANGED <<usbPort, usbList, plugged, found>>
        BY <3>1 DEF usb_close
      <4>3. claim' = claim \/ claim' = [claim EXCEPT ![dev[p]] = 0]
        BY <3>1 DEF usb_close
      <4>4. abandoned' \in {abandoned, abandoned \union {dev[p]}} /\ driver' \in {driver, driver \union {dev[p]}}
        BY <3>1 DEF usb_close
      <4> QED BY <4>1, <4>2, <4>3, <4>4 DEF UsbTypes
    <3>2. CASE kind[p] # "usb"
      <4>1. UNCHANGED usbVars
        BY <2>4, <3>2 DEF Shuts, close, OnlySerial, OnlyParallel, OnlyEthernet
      <4> QED BY <1>a, <4>1
    <3> QED BY <2>4, <3>1, <3>2 DEF Shuts, close
  <2>5. CASE Shut(p)
    BY <1>a, <2>4, <2>5 DEF Shut, aps_close, NotOpen
  <2>6. CASE Destroy(p)
    BY <1>a, <2>4, <2>6 DEF Destroy, aps_destroy_port
  <2>7. CASE Kill(p)
    <3>1. UNCHANGED <<usbVars>> \/ (usb_kill(p) /\ is_open[p] /\ kind[p] = "usb")
      BY <2>7 DEF Kill, aps_usb_kill, NotOpen, WrongType
    <3>2. CASE usb_kill(p) /\ is_open[p] /\ kind[p] = "usb"
      <4>1. dev[p] \in UsbDevices
        BY <3>2 DEF PortInv, Fits
      <4> QED BY <3>2, <4>1 DEF usb_kill, UsbTypes, PortTypes
    <3> QED BY <1>a, <3>1, <3>2
  <2>8. CASE Frees(p)
    BY <2>8 DEF Frees, UsbTypes
  <2> QED BY <1>2, <2>1, <2>2, <2>3, <2>5, <2>6, <2>7, <2>8 DEF Calls, Data
<1>3. CASE UNCHANGED vars
  BY <1>3 DEF UsbTypes
<1> QED BY <1>1, <1>2, <1>3 DEF Next

-----------------------------------------------------------------------------
(* The inductive invariant.                                                *)

IInv ==
  /\ TypeOK /\ PortInv /\ AloneInv /\ OrphanInv /\ HandlesAccounted
  /\ DriverInv /\ DriverBack /\ AskedInv /\ SettingsKept

LEMMA Initially == Init => IInv
<1> SUFFICES ASSUME Init PROVE IInv
  OBVIOUS
<1> USE DEF Init
<1>1. PortTypes
  BY DEF PortTypes, Kinds, Handles
<1>2. QueueTypes
  BY EmptyTyped DEF QueueTypes
<1>3. SettingTypes
  BY WordsTyped DEF SettingTypes
<1>4. UsbTypes
  BY DEF UsbTypes
<1>5. PortInv /\ AloneInv /\ OrphanInv
  BY DEF PortInv, Fits, AloneInv, OrphanInv
<1>6. HandlesAccounted /\ DriverInv /\ DriverBack /\ AskedInv /\ SettingsKept
  BY DEF HandlesAccounted, DriverInv, DriverBack, AskedInv, SettingsKept
<1> QED BY <1>1, <1>2, <1>3, <1>4, <1>5, <1>6 DEF IInv, TypeOK

LEMMA Inductive == IInv /\ [Next]_vars => IInv'
<1> SUFFICES ASSUME IInv, [Next]_vars PROVE IInv'
  OBVIOUS
<1> USE DEF IInv, TypeOK
<1> HIDE DEF vars
<1>1. Same \/ \E p \in Ports : Lives(p)
  BY HandleStep
<1>2. PortTypes' /\ PortInv' /\ AloneInv' /\ HandlesAccounted' /\ OrphanInv'
  BY <1>1, PortTypesStep, PortInvStep, AloneStep, HandlesStep
<1>3. QueueTypes' /\ SettingTypes' /\ UsbTypes'
  BY QueueTypesStep, SettingTypesStep, UsbTypesStep
<1>5. DriverInv' /\ DriverBack'
  BY BusSteps, DriverStep
<1>6. AskedInv' /\ SettingsKept'
  BY LineSteps, SettingsStep
<1> QED BY <1>2, <1>3, <1>5, <1>6

LEMMA Always == Spec => []IInv
<1> HIDE DEF vars
<1> QED BY Initially, Inductive, PTL DEF Spec

(* Every variable keeps its type, through every call and every error.      *)
THEOREM TypesHold == Spec => []TypeOK
<1>1. IInv => TypeOK
  BY DEF IInv
<1> QED BY Always, <1>1, PTL

(* The descriptor of an open port is its own, and no descriptor is lost    *)
(* except on the error paths of the three open operations that do not      *)
(* close it.                                                               *)
THEOREM NoHandleLost == Spec => []HandlesAccounted
<1>1. IInv => HandlesAccounted
  BY DEF IInv
<1> QED BY Always, <1>1, PTL

(* The settings of a serial port in use are the ones the client asked for  *)
(* last, and its line has them, except that it has no handshake after a    *)
(* serial_write_rt that failed half way, until the next setting or opening.*)
THEOREM LineHasSettings == Spec => []SettingsKept
<1>1. IInv => SettingsKept
  BY DEF IInv
<1> QED BY Always, <1>1, PTL

(* usb_close gives an interface back to the kernel driver usb_open took it *)
(* from.                                                                   *)
THEOREM DriverReturns == Spec => []DriverBack
<1>1. IInv => DriverBack
  BY DEF IInv
<1> QED BY Always, <1>1, PTL

=============================================================================
