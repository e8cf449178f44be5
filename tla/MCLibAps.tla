------------------------------- MODULE MCLibAps -------------------------------
(***************************************************************************)
(* Four clients of libaps for TLC.  One detects printers.  The others make *)
(* the calls of the class, each a share of them: ports that come and go,   *)
(* data through one port, and the settings of one port.  All calls at once *)
(* are more than TLC can visit.                                            *)
(***************************************************************************)
EXTENDS Detect, FiniteSets

CONSTANT MaxOrphans     \* bound: failures of open that leave a descriptor behind

VARIABLE client

mcVars == <<vars, detectVars, client>>

MCSlots == << [type |-> "serial", device |-> "s"], [type |-> "parallel", device |-> "l"],
              [type |-> "usb", device |-> NoDevice] >>

(* A printer whose identity begins with that of another model, one that    *)
(* speaks ESC/POS, one that answers in three bytes, one that is found at   *)
(* the second rate and tells its handshake, and no printer.                *)
Is(id, b, f) == [id |-> id, speed |-> b, flow |-> f]
MCPrinters == { Is("BPM224L", 0, "RTSCTS"), Is("_HSP3100FC", 1, "XONXOFF"), Is("KCP200", 1, "XONXOFF"),
                Is("LCB500", 0, "RTSCTS"), Is(Absent, 0, "RTSCTS") }

MCUris == { <<"aps", ":", "s", "?", "type", "=", "serial", "+", "baudrate", "=", "2400">>,
            <<"aps", ":", "s", "?", "type", "=", "serial", "+", "handshake", "=", "rtscts", "+",
              "baudrate", "=", "300">>,
            <<"aps", ":", "s", "?", "type", "=", "serial", "+", "handshake", "=", "odd">>,
            <<"aps", ":", "s", "?", "type", "=">>,
            <<"aps", ":", "l", "?", "type", "=", "parallel", "+", "mode", "=", "irq">>,
            <<"aps", ":", "l", "?", "type", "=", "parallel", "+", "mode", "=", "ecp">>,
            <<"aps", ":", "n", "?", "type", "=", "ethernet">>,
            <<"aps", ":", "n", "?", "type", "=", "token ring">>, UsbUri }

-----------------------------------------------------------------------------
Lifecycle(p) ==
  \/ Open(p) /\ Cardinality(orphans') <= MaxOrphans
  \/ Shut(p) \/ Destroy(p) \/ Frees(p)

(* Ports come and go, on all transports and two on USB.                    *)
Opens ==
  \/ Between /\ \/ aps_create_serial_port(1, "s", "OK")
                \/ aps_create_parallel_port(1, "l", "OK")
                \/ aps_create_ethernet_port(1, "n", "OK")
                \/ \E e \in CreateErrors : aps_create_port(1, UsbUri, e)
                \/ \E p \in {1, 2} :
                     \/ \E e \in ListResults : usb_list_ports(p, e)
                     \/ \E e \in CreateErrors : aps_create_usb_port(p, e)
  \/ Kill(1)
  \/ \E p \in {1, 2} : Lifecycle(p)
  \/ \E d \in UsbDevices : Leaves(d)

(* Data moves through one port that is never destroyed.                    *)
Transfers ==
  \/ Between /\ \/ aps_create_serial_port(1, "s", "OK")
                \/ aps_create_parallel_port(1, "l", "OK")
                \/ aps_create_ethernet_port(1, "n", "OK")
                \/ aps_create_port(1, UsbUri, "OK")
  \/ Open(1) /\ Cardinality(orphans') <= MaxOrphans
  \/ Shut(1) \/ Kill(1)
  \/ Between /\ \E e \in WriteErrors : aps_write(1, "identity", e) \/ aps_write_rt(1, "identity", e)
  \/ Read(1) \/ Sync(1) \/ Flush(1)
  \/ SetTimeouts(1)
  \/ \E d \in Devices : Answer(d)
  \/ \E d \in SerialDevices \union EthernetDevices : Transmit(d)
  \/ \E d \in EthernetDevices : HangsUp(d)
  \/ \E d \in UsbDevices : Leaves(d)

(* The settings of one port change; nothing the client writes is answered. *)
Settings ==
  \/ Create(1)
  \/ Lifecycle(1) /\ orphans' = {}
  \/ SetSerial(1) \/ SetParallel(1) \/ Control(1)
  \/ UNCHANGED read_timeout /\ SetTimeouts(1)
  \/ Between /\ \E e \in WriteErrors : aps_write_rt(1, "CAN", e)
  \/ \E d \in SerialDevices : Transmit(d)

(* Printers are detected, with no open that fails half way.                *)
Detection ==
  \/ Step /\ orphans' = {}
  \/ Decide
  \/ /\ UNCHANGED detectVars
     /\ (\E d \in Devices : Answer(d)) \/ \E d \in SerialDevices : Transmit(d)

-----------------------------------------------------------------------------
MCInit ==
  /\ DetectInit /\ client \in {"opens", "data", "settings", "detect"}
  /\ printer["u"].id = "KCP200" /\ printer["n"] = printer["u"]
  /\ IF client = "detect" THEN /\ printer["s"].id = Absent <=> printer["l"].id = "KCP200"
                               /\ printer["l"].id \in {"KCP200", Absent}
     ELSE printer["s"] = printer["u"] /\ printer["l"] = printer["u"]
  /\ client # "opens" => driver = {}
  /\ client \in {"data", "detect"} => plugged = UsbDevices
  /\ client = "settings" => plugged = {}

MCNext ==
  /\ UNCHANGED client
  /\ \/ client = "detect" /\ Detection
     \/ client = "opens" /\ Opens /\ UNCHANGED detectVars
     \/ client = "data" /\ Transfers /\ UNCHANGED detectVars
     \/ client = "settings" /\ Settings /\ UNCHANGED detectVars

MCSpec == MCInit /\ [][MCNext]_mcVars
=============================================================================
