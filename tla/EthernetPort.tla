---------------------------- MODULE EthernetPort ----------------------------
(***************************************************************************)
(* The Ethernet transport (src/src/aps/ethernet.c), built on the stream    *)
(* operations of module SerialPort, which it repeats line by line.         *)
(*                                                                         *)
(* External: the network.  A connection is "up", or "down" when it was     *)
(* refused after EINPROGRESS or closed by the printer.                     *)
(***************************************************************************)
EXTENDS SerialPort

VARIABLE link   \* the state of the connection to each Ethernet device

(* getaddrinfo, socket and connect.  When the connection is not made at    *)
(* once, the writability of the socket is taken for success, and a write   *)
(* timeout of 0 becomes 30 s for good.  No error path closes the socket.   *)
ethernet_open(p, e) ==
  LET d == dev[p] IN
  /\ UNCHANGED <<serialVars, misclosed, read_timeout>>
  /\ \/ e = "ETHERNET_ERROR" /\ UNCHANGED <<fds, queues, link, write_timeout>>
     \/ /\ d # NoDevice
        /\ \E h \in Handles :
             /\ Lowest(h)
             /\ \/ /\ e = "OK" /\ Takes(p, h) /\ UNCHANGED orphans
                   /\ \/ link' = [link EXCEPT ![d] = "up"] /\ UNCHANGED write_timeout
                      \/ /\ link' \in {[link EXCEPT ![d] = "up"], [link EXCEPT ![d] = "down"]}
                         /\ write_timeout' = [write_timeout EXCEPT ![p] = 1]
                   /\ Hangup(d)
                \/ /\ e \in {"ETHERNET_ERROR", "OPEN_FAILED", "OPEN_TIMEOUT"}
                   /\ handle' = [handle EXCEPT ![p] = 0]
                   /\ files' = [files EXCEPT ![h] = d] /\ orphans' = orphans \union {h}
                   /\ IF e = "ETHERNET_ERROR" THEN UNCHANGED write_timeout
                      ELSE write_timeout' = [write_timeout EXCEPT ![p] = 1]
                   /\ UNCHANGED <<queues, link>>

ethernet_close(p, e) ==
  /\ CloseDescriptor(p, e)
  /\ UNCHANGED <<serialVars, timeouts, link>>

ethernet_write(p, c, e) == WriteStream(p, c, e) /\ UNCHANGED <<serialVars, fds, timeouts, link>>

(* On a connection that is down read() returns 0 bytes, which the loop     *)
(* takes for progress: if the bytes do not suffice the call never ends.    *)
ethernet_read(p, n, e) ==
  /\ e = "READ_TIMEOUT" /\ Reached(p) \in EthernetDevices => link[Reached(p)] = "up"
  /\ ReadStream(p, n, e)
  /\ UNCHANGED <<serialVars, fds, timeouts, link>>

(* Nothing is waited for, and nothing is discarded.                        *)
ethernet_sync(e)  == e = "OK" /\ UNCHANGED <<serialVars, fds, queues, timeouts, link>>
ethernet_flush(e) == e = "OK" /\ UNCHANGED <<serialVars, fds, queues, timeouts, link>>

(* External: the printer closes the connection.                            *)
PrinterHangsUp(d) ==
  /\ link[d] = "up" /\ link' = [link EXCEPT ![d] = "down"]

=============================================================================
