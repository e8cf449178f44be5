------------------------ MODULE LibApsContractProofs ------------------------
(***************************************************************************)
(* Proof that libaps keeps its promise about the bytes of a printer, that  *)
(* is, that LibAps implements PortContract, for any ports and devices.     *)
(***************************************************************************)
EXTENDS LibApsProofs

(* Only a USB port has bytes in its buffer.                                *)
BufferInv == \A p \in Ports : kind[p] \notin {"usb", "destroyed"} => read_buf[p] = <<>>

State(p) == IF kind[p] = "free" THEN "none" ELSE IF is_open[p] THEN "open" ELSE "closed"

Still(p) == \A r \in Ports \ {p} : State(r)' = State(r) /\ Stream(r)' = Stream(r)

(* Bytes are lost from the front or from the end.                          *)
Cut(p) ==
  /\ got' = <<>> \/ got' = got
  /\ \E k \in 0 .. Len(Stream(p)) :
       \/ Stream(p)' = SubSeq(Stream(p), 1, k)
       \/ Stream(p)' = SubSeq(Stream(p), k + 1, Len(Stream(p)))

USE DevicesAssumption, KindsAssumption, PrintersAssumption, BoundsAssumption, DefBaudAssumption
  DEF Devices, NoDevice, Closed

-----------------------------------------------------------------------------
(* From the streams of the ports to the steps of the contract.             *)

LEMMA MapSame ==
  ASSUME \A r \in Ports : State(r)' = State(r) /\ Stream(r)' = Stream(r)
  PROVE  /\ got' = <<>> => Promise!Next
         /\ got' = got => UNCHANGED Promise!vars
  BY DEF Promise!Next, Promise!Other, Promise!vars, State

LEMMA MapOnly ==
  ASSUME NEW p \in Ports, Still(p)
  PROVE  Promise!Only(p)
  BY DEF Promise!Only, Still

LEMMA MapBecomes ==
  ASSUME NEW p \in Ports, Still(p), NEW from, NEW to, State(p) = from, State(p)' = to
  PROVE  Promise!Becomes(p, from, to)
<1>1. Promise!Only(p)
  BY MapOnly
<1> QED BY <1>1 DEF Promise!Becomes, Still, State

LEMMA MapLife ==
  ASSUME NEW p \in Ports, Still(p), got' = <<>>, Stream(p)' = Stream(p) \/ is_open[p] # is_open'[p],
         ~is_open'[p] => Stream(p)' = <<>>
  PROVE  /\ State(p) = "none" /\ State(p)' = "closed" /\ Stream(p)' = Stream(p) => Promise!Next
         /\ State(p) = "closed" /\ State(p)' = "open" => Promise!Next
         /\ State(p) = "open" /\ State(p)' = "closed" => Promise!Next
         /\ State(p) = "closed" /\ State(p)' = "none" /\ Stream(p)' = Stream(p) => Promise!Next
<1>1. CASE State(p) = "none" /\ State(p)' = "closed" /\ Stream(p)' = Stream(p)
  <2>1. Promise!Create(p)
    BY <1>1, MapBecomes DEF Promise!Create
  <2> QED BY <1>1, <2>1 DEF Promise!Next
<1>2. CASE State(p) = "closed" /\ State(p)' = "open"
  <2>1. Promise!Open(p)
    BY <1>2, MapBecomes DEF Promise!Open
  <2> QED BY <1>2, <2>1 DEF Promise!Next
<1>3. CASE State(p) = "open" /\ State(p)' = "closed"
  <2>1. Stream(p)' = <<>>
    BY <1>3 DEF State
  <2>2. Promise!Close(p)
    BY <1>3, <2>1, MapBecomes DEF Promise!Close
  <2> QED BY <1>3, <2>2 DEF Promise!Next
<1>4. CASE State(p) = "closed" /\ State(p)' = "none" /\ Stream(p)' = Stream(p)
  <2>1. Promise!Destroy(p)
    BY <1>4, MapBecomes DEF Promise!Destroy
  <2> QED BY <1>4, <2>1 DEF Promise!Next
<1> QED BY <1>1, <1>2, <1>3, <1>4

LEMMA MapOpen ==
  ASSUME NEW p \in Ports, Still(p), State(p) = "open", State(p)' = "open"
  PROVE  /\ Stream(p) = got' \o Stream(p)' => Promise!Next
         /\ Cut(p) => Promise!Next
         /\ /\ got' = got /\ Len(Stream(p)') >= Len(Stream(p))
            /\ SubSeq(Stream(p)', 1, Len(Stream(p))) = Stream(p)
            => Promise!Next
<1>1. /\ Promise!Only(p)
      /\ UNCHANGED [r \in Ports |-> IF kind[r] = "free" THEN "none" ELSE IF is_open[r] THEN "open" ELSE "closed"]
      /\ [r \in Ports |-> IF kind[r] = "free" THEN "none" ELSE IF is_open[r] THEN "open" ELSE "closed"][p] = "open"
  BY MapOnly DEF Still, State
<1>2. CASE Stream(p) = got' \o Stream(p)'
  <2>1. Promise!Read(p)
    BY <1>1, <1>2 DEF Promise!Read
  <2> QED BY <1>2, <2>1 DEF Promise!Next
<1>3. CASE Cut(p)
  <2>1. Promise!Lose(p)
    BY <1>1, <1>3 DEF Cut, Promise!Lose
  <2> QED BY <1>3, <2>1 DEF Promise!Next
<1>4. CASE /\ got' = got /\ Len(Stream(p)') >= Len(Stream(p))
           /\ SubSeq(Stream(p)', 1, Len(Stream(p))) = Stream(p)
  <2>1. Promise!Arrive(p)
    BY <1>1, <1>4 DEF Promise!Arrive
  <2> QED BY <1>4, <2>1 DEF Promise!Next
<1> QED BY <1>2, <1>3, <1>4

-----------------------------------------------------------------------------
(* The buffers.                                                            *)

LEMMA BufferStep ==
  ASSUME PortTypes, QueueTypes, PortInv, UsbTypes, BufferInv, [Next]_vars
  PROVE  BufferInv'
<1> USE DEF BufferInv, PortTypes, QueueTypes
<1>1. CASE Environment
  BY <1>1, EnvironmentFrame DEF Same
<1>2. ASSUME NEW p \in Ports, Calls(p) PROVE BufferInv'
  <2>1. CASE Data(p)
    <3>1. kind' = kind /\ (read_buf' = read_buf \/ (kind[p] = "usb" /\ \A r \in Ports \ {p} : read_buf'[r] = read_buf[r]))
      <4>1. kind' = kind
        BY <2>1, DataFrame
      <4>2. CASE Read(p)
        BY <4>1, <4>2 DEF usbVars, usbPort, world, Read, Between, aps_read, InUse, NotOpen,
           read, serial_read, OnlySerial, par_read, OnlyParallel, usb_read, OnlyUsb,
           ethernet_read, OnlyEthernet
      <4>3. CASE Flush(p)
        BY <4>1, <4>3 DEF usbVars, usbPort, world, Flush, Between, aps_flush, InUse, Keeps,
           NotOpen, flush, serial_flush, OnlySerial, par_flush, OnlyParallel, usb_flush,
           OnlyUsb, ethernet_flush, OnlyEthernet
      <4>4. CASE Write(p)
        BY <4>1, <4>4 DEF usbVars, usbPort, world, Write, Between, aps_write, InUse, Keeps,
           NotOpen, write, serial_write, OnlySerial, par_write, OnlyParallel, usb_write,
           OnlyUsb, ethernet_write, OnlyEthernet
      <4>5. CASE WriteRt(p)
        BY <4>1, <4>5 DEF usbVars, usbPort, world, WriteRt, Between, aps_write_rt, InUse,
           Keeps, NotOpen, write_rt, serial_write_rt, Hangup, Restored, FlowOff, FlowOn,
           OnlySerial, write, serial_write, par_write, OnlyParallel, usb_write, OnlyUsb,
           ethernet_write, OnlyEthernet
      <4>6. CASE Sync(p)
        BY <4>1, <4>6 DEF usbVars, usbPort, world, Sync, Between, aps_sync, InUse, Keeps,
           NotOpen, sync, serial_sync, OnlySerial, par_sync, OnlyParallel, usb_sync,
           OnlyUsb, ethernet_sync, OnlyEthernet
      <4>7. CASE SetSerial(p)
        BY <4>1, <4>7 DEF usbVars, usbPort, world, SetSerial, Between,
           aps_serial_set_baudrate, InUse, Keeps, NotOpen, WrongType, serial_set_baudrate,
           OnlySerial, aps_serial_set_handshake, serial_set_handshake
      <4>8. CASE SetParallel(p)
        BY <4>1, <4>8 DEF usbVars, usbPort, world, SetParallel, Between,
           aps_parallel_reset, InUse, Keeps, NotOpen, WrongType, par_reset, OnlyParallel,
           aps_parallel_set_mode, par_set_mode
      <4>9. CASE Control(p)
        BY <4>1, <4>9 DEF usbVars, usbPort, world, Control, Between, aps_usb_control,
           InUse, Reached, Keeps, NotOpen, WrongType, usb_control, OnlyUsb
      <4>10. CASE SetTimeouts(p)
        BY <4>1, <4>10 DEF usbVars, usbPort, SetTimeouts, Between, aps_set_write_timeout,
           InUse, Reached, Keeps, aps_set_read_timeout
      <4> QED BY <2>1, <4>2, <4>3, <4>4, <4>5, <4>6, <4>7, <4>8, <4>9, <4>10 DEF Data
    <3> QED BY <3>1
  <2>2. CASE Create(p)
    <3>1. Same \/ Built(p)
      BY <2>2, CreateStep
    <3>2. read_buf' = read_buf
      BY <2>2, BuildsOnly DEF Builds, usb_list_ports, usbPort
    <3> QED BY <3>1, <3>2 DEF Same, Built
  <2>3. CASE Open(p)
    <3>1. PICK e : aps_open(p, e)
      BY <2>3 DEF Open
    <3>2. kind' = kind
      BY <3>1 DEF aps_open, ports
    <3>3. read_buf' = read_buf
      <4>1. CASE is_open[p]
        BY <3>1, <4>1 DEF aps_open, world, usbVars, usbPort
      <4>2. CASE open_(p, e)
        BY <4>2 DEF open_, usb_open, usbVars, usbPort, OnlySerial, OnlyParallel, OnlyEthernet
      <4> QED BY <3>1, <4>1, <4>2 DEF aps_open
    <3> QED BY <3>2, <3>3
  <2>4. ASSUME NEW e, Shuts(p, e) PROVE read_buf' = read_buf
    BY <2>4 DEF usbVars, usbPort, Shuts, close, serial_close, OnlySerial, par_close,
       OnlyParallel, usb_close, OnlyUsb, ethernet_close, OnlyEthernet
  <2>5. CASE Shut(p)
    BY <2>4, <2>5 DEF Shut, aps_close, NotOpen, world, usbVars, usbPort, ports
  <2>6. CASE Destroy(p)
    BY <2>4, <2>6 DEF Destroy, aps_destroy_port, world, usbVars, usbPort
  <2>7. CASE Kill(p)
    BY <2>7 DEF Kill, aps_usb_kill, usb_kill, NotOpen, WrongType, world, usbVars, usbPort, ports
  <2>8. CASE Frees(p)
    BY <2>8 DEF Frees
  <2> QED BY <1>2, <2>1, <2>2, <2>3, <2>5, <2>6, <2>7, <2>8 DEF Calls, Data
<1>3. CASE UNCHANGED vars
  BY <1>3 DEF vars, world, usbVars, usbPort, ports
<1> QED BY <1>1, <1>2, <1>3 DEF Next


-----------------------------------------------------------------------------
(* Streams and devices.                                                    *)

LEMMA OpenPort ==
  ASSUME IInv, NEW p \in Ports, is_open[p]
  PROVE  /\ kind[p] \in Transports /\ Fits(kind[p], dev[p]) /\ dev[p] \in Devices
         /\ State(p) = "open"
         /\ p \notin misclosed => handle[p] \in Handles /\ files[handle[p]] = dev[p] /\ Reached(p) = dev[p]
         /\ kind[p] = "usb" => p \notin misclosed /\ dev[p] \in UsbDevices
  BY DEF IInv, TypeOK, PortTypes, PortInv, Fits, HandlesAccounted, State, Reached, Transports

LEMMA StreamsOnce ==
  ASSUME IInv, NEW p \in Ports, NEW r \in Ports, Streaming(p), Streaming(r), dev[p] = dev[r]
  PROVE  p = r
<1>1. is_open[p] /\ is_open[r] /\ p \notin misclosed /\ r \notin misclosed
  BY DEF Streaming
<1>2. CASE dev[p] \notin UsbDevices
  BY <1>1, <1>2 DEF IInv, AloneInv
<1>3. CASE dev[p] \in UsbDevices
  <2>1. kind[p] = "usb" /\ kind[r] = "usb"
    BY <1>1, <1>3, OpenPort DEF Fits, Transports
  <2>2. handle[p] = handle[r]
    BY <2>1 DEF Streaming, Working
  <2> QED BY <1>1, <2>2 DEF IInv, HandlesAccounted
<1> QED BY <1>2, <1>3

LEMMA OthersStill ==
  ASSUME IInv, NEW p \in Ports,
         UNCHANGED <<kind, dev, is_open, handle, misclosed, plugged, claim>>,
         \A r \in Ports \ {p} : read_buf'[r] = read_buf[r],
         \A d \in Devices : inq'[d] = inq[d] \/ (d = dev[p] /\ Streaming(p))
  PROVE  Still(p) /\ State(p)' = State(p)
<1>1. State(p)' = State(p)
  BY DEF State
<1>2. ASSUME NEW r \in Ports \ {p} PROVE Stream(r)' = Stream(r)
  <2>1. Streaming(r)' = Streaming(r)
    BY DEF Streaming, Working
  <2>2. CASE is_open[r] /\ Streaming(r)
    <3>1. dev[r] \in Devices
      BY <2>2, OpenPort
    <3>2. dev[r] # dev[p] \/ ~Streaming(p)
      BY <2>2, StreamsOnce
    <3>3. inq'[dev[r]] = inq[dev[r]]
      BY <3>1, <3>2
    <3> QED BY <1>2, <2>1, <2>2, <3>3 DEF Stream
  <2> QED BY <1>2, <2>1, <2>2 DEF Stream, Streaming
<1>3. ASSUME NEW r \in Ports \ {p} PROVE State(r)' = State(r)
  BY DEF State
<1> QED BY <1>1, <1>2, <1>3 DEF Still

LEMMA StreamTyped ==
  ASSUME IInv, NEW p \in Ports
  PROVE  Stream(p) \in Seq(Bytes) /\ Len(Stream(p)) \in Nat
<1>1. <<>> \in Seq(Bytes) /\ read_buf[p] \in Seq(Bytes)
  BY EmptyTyped DEF IInv, TypeOK, QueueTypes
<1>2. Stream(p) \in Seq(Bytes)
  <2>1. CASE ~is_open[p] \/ p \in misclosed
    BY <1>1, <2>1 DEF Stream
  <2>2. CASE is_open[p] /\ p \notin misclosed
    <3>1. inq[dev[p]] \in Seq(Bytes)
      BY <2>2, OpenPort DEF IInv, TypeOK, QueueTypes
    <3>2. (IF Streaming(p) THEN inq[dev[p]] ELSE <<>>) \in Seq(Bytes)
      BY <1>1, <3>1
    <3>3. read_buf[p] \o (IF Streaming(p) THEN inq[dev[p]] ELSE <<>>) \in Seq(Bytes)
      BY <1>1, <3>2, ConcatProperties
    <3> QED BY <2>2, <3>3 DEF Stream
  <2> QED BY <2>1, <2>2
<1> QED BY <1>2, LenProperties

(* A port that is not on USB reads from its device only.                   *)
LEMMA PlainStream ==
  ASSUME IInv, BufferInv, NEW p \in Ports, is_open[p], p \notin misclosed, kind[p] # "usb"
  PROVE  Stream(p) = inq[dev[p]] /\ inq[dev[p]] \in Seq(Bytes) /\ Streaming(p)
<1>1. read_buf[p] = <<>> /\ Streaming(p) /\ dev[p] \in Devices
  BY OpenPort DEF BufferInv, Streaming, Transports
<1>2. inq[dev[p]] \in Seq(Bytes)
  BY <1>1 DEF IInv, TypeOK, QueueTypes
<1>3. Stream(p) = <<>> \o inq[dev[p]]
  BY <1>1 DEF Stream, Streaming
<1> QED BY <1>1, <1>2, <1>3, ConcatEmptySeq

LEMMA EmptyCut ==
  ASSUME IInv, NEW p \in Ports, Stream(p)' = <<>>, got' = <<>>
  PROVE  Cut(p)
<1>1. SubSeq(Stream(p), 1, 0) = <<>>
  BY SubSeqEmpty
<1>2. 0 \in 0 .. Len(Stream(p))
  BY StreamTyped
<1> QED BY <1>1, <1>2 DEF Cut

(* What a call does to the bytes of its port.                              *)
Moves(p) ==
  /\ Still(p) /\ State(p)' = State(p)
  /\ \/ got' = <<>> /\ Stream(p)' = Stream(p)
     \/ is_open[p] /\ (Cut(p) \/ Stream(p) = got' \o Stream(p)')

LEMMA Calm ==
  ASSUME IInv, NEW p \in Ports,
         UNCHANGED <<kind, dev, is_open, handle, misclosed, plugged, claim, read_buf, inq>>, got' = <<>>
  PROVE  Moves(p)
<1>1. Still(p) /\ State(p)' = State(p)
  BY OthersStill
<1>2. Stream(p)' = Stream(p)
  BY DEF Stream, Streaming, Working
<1> QED BY <1>1, <1>2 DEF Moves

LEMMA Emptied ==
  ASSUME IInv, BufferInv, NEW p \in Ports, is_open[p], p \notin misclosed, kind[p] # "usb",
         UNCHANGED <<kind, dev, is_open, handle, misclosed, plugged, claim, read_buf>>, got' = <<>>,
         inq' = [inq EXCEPT ![dev[p]] = <<>>]
  PROVE  Moves(p)
<1>1. Streaming(p) /\ read_buf[p] = <<>> /\ dev[p] \in Devices
  BY PlainStream, OpenPort DEF BufferInv, Transports
<1>2. Still(p) /\ State(p)' = State(p)
  BY <1>1, OthersStill DEF IInv, TypeOK, QueueTypes
<1>3. inq'[dev[p]] = <<>>
  BY <1>1 DEF IInv, TypeOK, QueueTypes
<1>4. Streaming(p)'
  BY <1>1 DEF Streaming, Working
<1>5. Stream(p)' = <<>> \o <<>>
  BY <1>1, <1>3, <1>4 DEF Stream, Streaming
<1>6. Stream(p)' = <<>>
  BY <1>5, ConcatEmptySeq, EmptyTyped
<1> QED BY <1>2, <1>6, EmptyCut DEF Moves

LEMMA CutOnce ==
  ASSUME NEW S, NEW s \in Seq(S), NEW k \in Nat, k <= Len(s)
  PROVE  s = SubSeq(s, 1, k) \o SubSeq(s, k + 1, Len(s))
<1>1. Len(s) \in Nat /\ 1 \in 1 .. Len(s) + 1 /\ k \in 1 - 1 .. Len(s) /\ Len(s) \in k .. Len(s)
  BY LenProperties
<1>2. SubSeq(s, 1, k) \o SubSeq(s, k + 1, Len(s)) = SubSeq(s, 1, Len(s))
  BY <1>1, ConcatAdjacentSubSeq
<1> QED BY <1>2, SubSeqFull

LEMMA PlainRead ==
  ASSUME IInv, BufferInv, NEW p \in Ports, is_open[p], p \notin misclosed, kind[p] # "usb",
         UNCHANGED <<kind, dev, is_open, handle, misclosed, plugged, claim, read_buf>>,
         NEW k \in 0 .. Len(inq[dev[p]]),
         got' = <<>> \/ got' = SubSeq(inq[dev[p]], 1, k),
         inq' = IF k = 0 THEN inq
                ELSE [inq EXCEPT ![dev[p]] = SubSeq(inq[dev[p]], k + 1, Len(inq[dev[p]]))]
  PROVE  Moves(p)
<1> DEFINE s == inq[dev[p]]
<1>1. /\ Streaming(p) /\ read_buf[p] = <<>> /\ dev[p] \in Devices
      /\ s \in Seq(Bytes) /\ Len(s) \in Nat /\ Stream(p) = s
  BY PlainStream, OpenPort, LenProperties DEF BufferInv, Transports
<1>2. Still(p) /\ State(p)' = State(p)
  BY <1>1, OthersStill DEF IInv, TypeOK, QueueTypes
<1>3. k = 0 => SubSeq(s, k + 1, Len(s)) = s
  BY <1>1, SubSeqFull
<1>4. inq'[dev[p]] = SubSeq(s, k + 1, Len(s))
  BY <1>1, <1>3 DEF IInv, TypeOK, QueueTypes
<1>5. Streaming(p)'
  BY <1>1 DEF Streaming, Working
<1>6. k \in Nat /\ k <= Len(s) /\ Len(s) <= Len(s)
  BY <1>1
<1>7. SubSeq(s, k + 1, Len(s)) \in Seq(Bytes)
  BY <1>1, <1>6, Slices
<1>8. Stream(p)' = <<>> \o SubSeq(s, k + 1, Len(s))
  BY <1>1, <1>4, <1>5 DEF Stream, Streaming
<1>9. Stream(p)' = SubSeq(s, k + 1, Len(s))
  BY <1>7, <1>8, ConcatEmptySeq
<1>10. s = SubSeq(s, 1, k) \o SubSeq(s, k + 1, Len(s))
  <2> HIDE DEF s
  <2> QED BY <1>1, <1>6, CutOnce
<1>11. CASE got' = <<>>
  BY <1>1, <1>2, <1>9, <1>11 DEF Moves, Cut
<1>12. CASE got' = SubSeq(s, 1, k)
  BY <1>1, <1>2, <1>9, <1>10, <1>12 DEF Moves
<1> QED BY <1>11, <1>12


-----------------------------------------------------------------------------
(* Reading through the buffer of a USB port.                               *)

LEMMA Parts ==
  ASSUME NEW S, NEW t \in Seq(S), NEW u \in Seq(S)
  PROVE  SubSeq(t \o u, 1, Len(t)) = t /\ SubSeq(t \o u, Len(t) + 1, Len(t \o u)) = u
<1>1. Len(t) \in Nat /\ Len(u) \in Nat /\ t \o u \in Seq(S) /\ Len(t \o u) = Len(t) + Len(u)
  BY LenProperties, ConcatProperties
<1>2. SubSeq(t \o u, 1, Len(t)) = t
  <2>1. CASE t = <<>>
    BY <2>1, EmptySeq, SubSeqEmpty
  <2>2. CASE t # <<>>
    <3>1. 1 \in 1 .. Len(t) /\ Len(t) \in 1 .. Len(t)
      BY <1>1, <2>2, EmptySeq
    <3>2. SubSeq(t \o u, 1, Len(t)) = SubSeq(t, 1, Len(t))
      BY <3>1, SubSeqOfConcat1
    <3> QED BY <3>2, SubSeqFull
  <2> QED BY <2>1, <2>2
<1>3. SubSeq(t \o u, Len(t) + 1, Len(t \o u)) = u
  <2>1. CASE u = <<>>
    <3>1. Len(t \o u) < Len(t) + 1
      BY <1>1, <2>1, EmptySeq
    <3> QED BY <1>1, <2>1, <3>1, SubSeqEmpty
  <2>2. CASE u # <<>>
    <3>1. Len(t) + 1 \in Len(t) + 1 .. Len(t) + Len(u) /\ Len(t) + Len(u) \in Len(t) + 1 .. Len(t) + Len(u)
      BY <1>1, <2>2, EmptySeq
    <3>2. SubSeq(t \o u, Len(t) + 1, Len(t) + Len(u)) = SubSeq(u, Len(t) + 1 - Len(t), Len(t) + Len(u) - Len(t))
      BY <3>1, SubSeqOfConcat2
    <3>3. Len(t) + 1 - Len(t) = 1 /\ Len(t) + Len(u) - Len(t) = Len(u)
      BY <1>1
    <3> QED BY <1>1, <3>2, <3>3, SubSeqFull
  <2> QED BY <2>1, <2>2
<1> QED BY <1>2, <1>3

LEMMA CutTwice ==
  ASSUME NEW S, NEW s \in Seq(S), NEW k \in Nat, NEW m \in Nat, k <= m, m <= Len(s)
  PROVE  /\ s = SubSeq(s, 1, k) \o (SubSeq(s, k + 1, m) \o SubSeq(s, m + 1, Len(s)))
         /\ SubSeq(s, 1, k) \o SubSeq(s, k + 1, m) = SubSeq(s, 1, m)
<1>1. Len(s) \in Nat /\ 1 \in 1 .. Len(s) + 1 /\ k \in 1 - 1 .. Len(s) /\ m \in k .. Len(s) /\ Len(s) \in k .. Len(s)
      /\ k + 1 \in 1 .. Len(s) + 1 /\ m \in (k + 1) - 1 .. Len(s) /\ Len(s) \in m .. Len(s)
  BY LenProperties
<1>2. SubSeq(s, k + 1, m) \o SubSeq(s, m + 1, Len(s)) = SubSeq(s, k + 1, Len(s))
  BY <1>1, ConcatAdjacentSubSeq
<1>3. SubSeq(s, 1, k) \o SubSeq(s, k + 1, Len(s)) = SubSeq(s, 1, Len(s))
  BY <1>1, ConcatAdjacentSubSeq
<1>4. SubSeq(s, 1, k) \o SubSeq(s, k + 1, m) = SubSeq(s, 1, m)
  BY <1>1, ConcatAdjacentSubSeq
<1> QED BY <1>2, <1>3, <1>4, SubSeqFull

LEMMA UsbRead ==
  ASSUME IInv, NEW p \in Ports, is_open[p], kind[p] = "usb", NEW n \in Nat, NEW e, usb_read(p, n, e),
         UNCHANGED <<kind, dev, is_open, handle, misclosed, plugged, claim>>
  PROVE  Moves(p)
<1> DEFINE d == dev[p]  b == Len(read_buf[p])  s == read_buf[p] \o inq[d]
<1>1. d \in Devices /\ p \notin misclosed /\ (Streaming(p) <=> Working(p)) /\ (Streaming(p)' <=> Working(p))
  BY OpenPort DEF Streaming, Working
<1>2. /\ read_buf[p] \in Seq(Bytes) /\ inq[d] \in Seq(Bytes) /\ b \in Nat
      /\ s \in Seq(Bytes) /\ Len(s) \in Nat /\ b <= Len(s)
  <2>1. read_buf[p] \in Seq(Bytes) /\ inq[d] \in Seq(Bytes)
    BY <1>1 DEF IInv, TypeOK, QueueTypes
  <2>2. b \in Nat /\ Len(inq[d]) \in Nat
    BY <2>1, LenProperties
  <2>3. s \in Seq(Bytes) /\ Len(s) = b + Len(inq[d])
    BY <2>1, ConcatProperties
  <2> HIDE DEF s, b
  <2> QED BY <2>1, <2>2, <2>3
<1>3. PICK k \in 0 .. Len(s), m \in b .. Len(s) :
         /\ k <= m /\ (~Working(p) => m = b)
         /\ ReadsFrom(s, n, k, e, read_timeout[p])
         /\ read_buf' = [read_buf EXCEPT ![p] = IF e = "OK" THEN SubSeq(s, k + 1, m) ELSE <<>>]
         /\ inq' = [inq EXCEPT ![d] = SubSeq(s, m + 1, Len(s))]
  BY DEF usb_read
<1>4. (e = "OK" /\ got' = SubSeq(s, 1, k)) \/ (e # "OK" /\ got' = <<>>)
  BY <1>3 DEF ReadsFrom
<1>5. /\ read_buf'[p] = (IF e = "OK" THEN SubSeq(s, k + 1, m) ELSE <<>>)
      /\ \A r \in Ports \ {p} : read_buf'[r] = read_buf[r]
      /\ inq'[d] = SubSeq(s, m + 1, Len(s)) /\ \A x \in Devices \ {d} : inq'[x] = inq[x]
  BY <1>1, <1>3 DEF IInv, TypeOK, QueueTypes
<1>6. k \in Nat /\ m \in Nat /\ k <= m /\ m <= Len(s) /\ b <= m
  <2> HIDE DEF s, b
  <2> QED BY <1>2, <1>3
<1>7. /\ SubSeq(s, k + 1, m) \in Seq(Bytes) /\ SubSeq(s, m + 1, Len(s)) \in Seq(Bytes)
      /\ SubSeq(s, 1, k) \in Seq(Bytes) /\ k <= Len(s)
  <2> HIDE DEF s
  <2>1. k <= Len(s)
    BY <1>2, <1>6
  <2> QED BY <1>2, <1>6, <2>1, Slices
<1>8. SubSeq(s, 1, b) = read_buf[p] /\ SubSeq(s, b + 1, Len(s)) = inq[d]
  BY <1>2, Parts
<1>9. /\ s = SubSeq(s, 1, k) \o (SubSeq(s, k + 1, m) \o SubSeq(s, m + 1, Len(s)))
      /\ SubSeq(s, 1, k) \o SubSeq(s, k + 1, m) = SubSeq(s, 1, m)
  <2> HIDE DEF s
  <2>1. s \in Seq(Bytes) /\ k \in Nat /\ m \in Nat /\ k <= m /\ m <= Len(s)
    BY <1>2, <1>6
  <2>2. s = SubSeq(s, 1, k) \o (SubSeq(s, k + 1, m) \o SubSeq(s, m + 1, Len(s)))
    BY <2>1, CutTwice
  <2>3. SubSeq(s, 1, k) \o SubSeq(s, k + 1, m) = SubSeq(s, 1, m)
    BY <2>1, CutTwice
  <2> QED BY <2>2, <2>3
<1>10. Still(p) /\ State(p)' = State(p)
  <2>1. \A x \in Devices : inq'[x] = inq[x] \/ (x = d /\ Streaming(p))
    BY <1>1, <1>3, <1>5, <1>8
  <2> HIDE DEF s, b
  <2> QED BY <1>5, <2>1, OthersStill
<1> HIDE DEF s, b
<1>11. CASE Working(p)
  <2>1. Stream(p) = s /\ Stream(p)' = read_buf'[p] \o SubSeq(s, m + 1, Len(s))
    BY <1>1, <1>5, <1>11 DEF Stream, s
  <2>2. CASE e = "OK" /\ got' = SubSeq(s, 1, k)
    BY <1>5, <1>9, <1>10, <2>1, <2>2 DEF Moves
  <2>3. CASE e # "OK" /\ got' = <<>>
    <3>1. Stream(p)' = SubSeq(s, m + 1, Len(s))
      BY <1>5, <1>7, <2>1, <2>3, ConcatEmptySeq
    <3>2. m \in 0 .. Len(s)
      BY <1>6
    <3> QED BY <1>10, <2>1, <2>3, <3>1, <3>2 DEF Moves, Cut
  <2> QED BY <1>4, <2>2, <2>3
<1>12. CASE ~Working(p)
  <2>1. Stream(p) = read_buf[p]
    BY <1>1, <1>2, <1>12, ConcatEmptySeq DEF Stream
  <2>2. read_buf'[p] \in Seq(Bytes)
    BY <1>5, <1>7, EmptyTyped
  <2>3. Stream(p)' = read_buf'[p]
    BY <1>1, <1>12, <2>2, ConcatEmptySeq DEF Stream
  <2>4. CASE e = "OK" /\ got' = SubSeq(s, 1, k)
    BY <1>3, <1>5, <1>8, <1>9, <1>10, <1>12, <2>1, <2>3, <2>4 DEF Moves
  <2>5. CASE e # "OK" /\ got' = <<>>
    <3>1. Stream(p)' = <<>>
      BY <1>5, <2>3, <2>5
    <3> QED BY <1>10, <2>5, <3>1, EmptyCut DEF Moves
  <2> QED BY <1>4, <2>4, <2>5
<1> QED BY <1>11, <1>12

(* What is left of the second of two sequences is the back of both.        *)
LEMMA BackIs ==
  ASSUME NEW S, NEW t \in Seq(S), NEW u \in Seq(S), NEW k \in 0 .. Len(u)
  PROVE  \E i \in 0 .. Len(t \o u) : SubSeq(u, k + 1, Len(u)) = SubSeq(t \o u, i + 1, Len(t \o u))
<1> DEFINE f == SubSeq(u, 1, k)  b == SubSeq(u, k + 1, Len(u))
<1>1. k \in Nat /\ Len(u) \in Nat /\ k <= Len(u)
  BY LenProperties
<1>2. f \in Seq(S) /\ b \in Seq(S)
  BY <1>1, Slices
<1>a. u = f \o b
  BY <1>1, CutOnce
<1> HIDE DEF f, b
<1>3. t \o u = (t \o f) \o b
  <2>1. (t \o f) \o b = t \o (f \o b)
    BY <1>2, ConcatAssociative
  <2> QED BY <2>1, <1>a
<1>4. t \o f \in Seq(S) /\ Len(t \o f) \in Nat
  BY <1>2, ConcatProperties, LenProperties
<1>5. SubSeq(t \o u, Len(t \o f) + 1, Len(t \o u)) = b
  BY <1>2, <1>3, <1>4, Parts
<1>6. Len(t \o u) = Len(t \o f) + Len(b) /\ Len(b) \in Nat
  BY <1>2, <1>3, <1>4, ConcatProperties, LenProperties
<1>7. Len(t \o f) \in 0 .. Len(t \o u)
  BY <1>4, <1>6
<1> QED BY <1>5, <1>7 DEF b

LEMMA UsbFlush ==
  ASSUME IInv, NEW p \in Ports, is_open[p], kind[p] = "usb", NEW e, usb_flush(p, e), got' = <<>>,
         UNCHANGED <<kind, dev, is_open, handle, misclosed, plugged, claim>>
  PROVE  Moves(p)
<1> DEFINE d == dev[p]  t == read_buf[p]  u == inq[d]
<1>1. d \in Devices /\ p \notin misclosed /\ (Streaming(p) <=> Working(p)) /\ (Streaming(p)' <=> Working(p))
  BY OpenPort DEF Streaming, Working
<1>2. read_buf'[p] = <<>> /\ \A r \in Ports \ {p} : read_buf'[r] = read_buf[r]
  BY DEF usb_flush, IInv, TypeOK, QueueTypes
<1>3. t \in Seq(Bytes) /\ u \in Seq(Bytes)
  BY <1>1 DEF IInv, TypeOK, QueueTypes
<1>4. CASE ~Working(p)
  <2>1. inq' = inq
    BY <1>4 DEF usb_flush
  <2>2. Still(p) /\ State(p)' = State(p)
    BY <1>2, <2>1, OthersStill
  <2>3. Stream(p)' = <<>> \o <<>>
    BY <1>1, <1>2, <1>4 DEF Stream
  <2>4. Stream(p)' = <<>>
    BY <2>3, ConcatEmptySeq, EmptyTyped
  <2> QED BY <2>2, <2>4, EmptyCut DEF Moves
<1>5. ASSUME Working(p), NEW k \in 0 .. Len(u), inq' = [inq EXCEPT ![d] = SubSeq(u, k + 1, Len(u))]
      PROVE  Moves(p)
  <2>1. \A x \in Devices : inq'[x] = inq[x] \/ (x = d /\ Streaming(p))
    BY <1>1, <1>5 DEF IInv, TypeOK, QueueTypes
  <2>2. Still(p) /\ State(p)' = State(p)
    <3> HIDE DEF u
    <3> QED BY <1>2, <2>1, OthersStill
  <2>3. inq'[d] = SubSeq(u, k + 1, Len(u))
    BY <1>1, <1>5 DEF IInv, TypeOK, QueueTypes
  <2>4. Stream(p) = t \o u /\ Stream(p)' = <<>> \o SubSeq(u, k + 1, Len(u))
    BY <1>1, <1>2, <1>5, <2>3 DEF Stream
  <2> HIDE DEF t, u
  <2>5. SubSeq(u, k + 1, Len(u)) \in Seq(Bytes)
    <3>1. k \in Nat /\ Len(u) \in Nat /\ k <= Len(u)
      BY <1>3, LenProperties
    <3> QED BY <1>3, <3>1, Slices
  <2>6. Stream(p)' = SubSeq(u, k + 1, Len(u))
    BY <2>4, <2>5, ConcatEmptySeq
  <2>7. PICK i \in 0 .. Len(t \o u) : SubSeq(u, k + 1, Len(u)) = SubSeq(t \o u, i + 1, Len(t \o u))
    BY <1>3, BackIs
  <2> QED BY <2>2, <2>4, <2>6, <2>7 DEF Moves, Cut
<1>6. Working(p) => \E k \in 0 .. Len(u) : inq' = [inq EXCEPT ![d] = SubSeq(u, k + 1, Len(u))]
  BY DEF usb_flush
<1> QED BY <1>4, <1>5, <1>6


-----------------------------------------------------------------------------
(* The calls that move data.                                               *)

(* A descriptor that is used leads to the device of its port.              *)
LEMMA ReachedStream ==
  ASSUME IInv, NEW p \in Ports, is_open[p], InUse(p)
  PROVE  (p \notin misclosed /\ Reached(p) = dev[p]) \/ Reached(p) \notin Devices
  BY OpenPort DEF InUse

LEMMA StreamReadMoves ==
  ASSUME IInv, BufferInv, NEW p \in Ports, is_open[p], InUse(p), kind[p] # "usb", NEW n, NEW e, ReadStream(p, n, e),
         UNCHANGED <<kind, dev, is_open, handle, misclosed, plugged, claim, read_buf>>
  PROVE  Moves(p)
<1> DEFINE d == Reached(p)  s == IF d \in Streams THEN inq[d] ELSE <<>>
<1>1. PICK k \in 0 .. Len(s) :
        /\ ReadsFrom(s, n, k, e, read_timeout[p])
        /\ inq' = IF k = 0 THEN inq ELSE [inq EXCEPT ![d] = SubSeq(s, k + 1, Len(s))]
  BY DEF ReadStream
<1>2. got' = <<>> \/ (got' = SubSeq(s, 1, k) /\ e = "OK")
  BY <1>1 DEF ReadsFrom
<1>3. CASE d \in Streams
  <2>1. p \notin misclosed /\ d = dev[p] /\ s = inq[dev[p]]
    BY <1>3, ReachedStream DEF Streams
  <2> HIDE DEF d, s
  <2>2. k \in 0 .. Len(inq[dev[p]])
    BY <1>1, <2>1
  <2>3. got' = <<>> \/ got' = SubSeq(inq[dev[p]], 1, k)
    BY <1>2, <2>1
  <2>4. inq' = IF k = 0 THEN inq
               ELSE [inq EXCEPT ![dev[p]] = SubSeq(inq[dev[p]], k + 1, Len(inq[dev[p]]))]
    BY <1>1, <2>1
  <2> QED BY <2>1, <2>2, <2>3, <2>4, PlainRead
<1>4. CASE d \notin Streams
  <2>1. s = <<>> /\ e = "READ_FAILED"
    BY <1>4 DEF ReadStream
  <2>2. k = 0 /\ got' = <<>>
    BY <1>1, <1>2, <2>1, EmptySeq
  <2> QED BY <1>1, <2>2, Calm
<1> QED BY <1>3, <1>4

LEMMA ParReadMoves ==
  ASSUME IInv, BufferInv, NEW p \in Ports, is_open[p], InUse(p), kind[p] # "usb", NEW n, NEW e, par_read(p, n, e),
         UNCHANGED <<kind, dev, is_open, handle, misclosed, plugged, claim, read_buf>>
  PROVE  Moves(p)
<1> DEFINE d == Reached(p)  s == IF d \in ParallelDevices THEN inq[d] ELSE <<>>
<1>1. PICK k \in 0 .. Len(s) :
        /\ \/ e # "READ_FAILED" /\ ReadsFrom(s, n, k, e, read_timeout[p])
           \/ e = "IO_ERROR" /\ k < n /\ got' = <<>>
        /\ inq' = IF k = 0 THEN inq ELSE [inq EXCEPT ![d] = SubSeq(s, k + 1, Len(s))]
  BY DEF par_read
<1>2. got' = <<>> \/ (got' = SubSeq(s, 1, k) /\ e = "OK")
  BY <1>1 DEF ReadsFrom
<1>3. CASE d \in ParallelDevices
  <2>1. p \notin misclosed /\ d = dev[p] /\ s = inq[dev[p]]
    BY <1>3, ReachedStream
  <2> HIDE DEF d, s
  <2>2. k \in 0 .. Len(inq[dev[p]])
    BY <1>1, <2>1
  <2>3. got' = <<>> \/ got' = SubSeq(inq[dev[p]], 1, k)
    BY <1>2, <2>1
  <2>4. inq' = IF k = 0 THEN inq
               ELSE [inq EXCEPT ![dev[p]] = SubSeq(inq[dev[p]], k + 1, Len(inq[dev[p]]))]
    BY <1>1, <2>1
  <2> QED BY <2>1, <2>2, <2>3, <2>4, PlainRead
<1>4. CASE d \notin ParallelDevices
  <2>1. s = <<>> /\ e = "IO_ERROR"
    BY <1>4 DEF par_read
  <2>2. k = 0 /\ got' = <<>>
    BY <1>1, <1>2, <2>1, EmptySeq
  <2> QED BY <1>1, <2>2, Calm
<1> QED BY <1>3, <1>4

LEMMA HangupMoves ==
  ASSUME IInv, BufferInv, NEW p \in Ports, is_open[p], InUse(p), kind[p] # "usb", got' = <<>>,
         inq' = inq \/ (Reached(p) \in Devices /\ inq' = [inq EXCEPT ![Reached(p)] = <<>>]),
         UNCHANGED <<kind, dev, is_open, handle, misclosed, plugged, claim, read_buf>>
  PROVE  Moves(p)
<1>1. CASE inq' = inq
  BY <1>1, Calm
<1>2. CASE Reached(p) \in Devices /\ inq' = [inq EXCEPT ![Reached(p)] = <<>>]
  <2>1. p \notin misclosed /\ Reached(p) = dev[p]
    BY <1>2, ReachedStream
  <2> QED BY <1>2, <2>1, Emptied
<1> QED BY <1>1, <1>2

LEMMA DataMoves ==
  ASSUME IInv, BufferInv, NEW p \in Ports, Data(p)
  PROVE  Moves(p)
<1>1. UNCHANGED <<kind, dev, is_open, handle, misclosed, plugged, claim>>
  BY DataFrame DEF usbBus
<1>a. ASSUME UNCHANGED <<inq, read_buf>>, got' = <<>> PROVE Moves(p)
  BY <1>1, <1>a, Calm
<1>2. CASE Write(p)
  <2>1. UNCHANGED <<inq, read_buf>> /\ got' = <<>>
    BY <1>2 DEF world, queues, usbVars, usbPort, Write, Between, aps_write, InUse, Keeps,
       NotOpen, write, serial_write, WriteStream, OnlySerial, par_write, OnlyParallel,
       usb_write, OnlyUsb, ethernet_write, OnlyEthernet
  <2> QED BY <1>a, <2>1
<1>3. CASE WriteRt(p)
  <2>1. PICK e \in WriteErrors, c \in Commands : aps_write_rt(p, c, e)
    BY <1>3 DEF WriteRt
  <2>2. got' = <<>> /\ InUse(p)
    BY <2>1 DEF aps_write_rt, Keeps
  <2>3. CASE is_open[p] /\ kind[p] = "serial" /\ serial_write_rt(p, c, e) /\ OnlySerial
    <3>1. read_buf' = read_buf
      BY <2>3 DEF OnlySerial, usbVars, usbPort
    <3>2. inq' = inq \/ (Reached(p) \in Devices /\ inq' = [inq EXCEPT ![Reached(p)] = <<>>])
      BY <2>3 DEF serial_write_rt, Hangup, queues
    <3> QED BY <1>1, <2>2, <2>3, <3>1, <3>2, HangupMoves
  <2>4. CASE kind[p] # "serial" /\ write(p, c, e)
    <3>1. UNCHANGED <<inq, read_buf>>
      BY <2>4 DEF usbVars, usbPort, write, serial_write, WriteStream, OnlySerial,
         par_write, OnlyParallel, usb_write, OnlyUsb, ethernet_write, OnlyEthernet
    <3> QED BY <1>a, <2>2, <3>1
  <2>5. CASE UNCHANGED world
    <3>1. UNCHANGED <<inq, read_buf>>
      BY <2>5 DEF world, queues, usbVars, usbPort
    <3> QED BY <1>a, <2>2, <3>1
  <2> QED BY <2>1, <2>3, <2>4, <2>5 DEF aps_write_rt, NotOpen, write_rt
<1>4. CASE Read(p)
  <2>1. PICK e \in ReadErrors, n \in 1 .. MaxPending : aps_read(p, n, e)
    BY <1>4 DEF Read
  <2>2. InUse(p) /\ n \in Nat
    BY <2>1 DEF aps_read
  <2>3. CASE NotOpen(p, e) /\ got' = <<>>
    <3>1. UNCHANGED <<inq, read_buf>>
      BY <2>3 DEF NotOpen, world, queues, usbVars, usbPort
    <3> QED BY <1>a, <2>3, <3>1
  <2>4. CASE is_open[p] /\ read(p, n, e)
    <3>1. CASE kind[p] = "serial" /\ serial_read(p, n, e) /\ OnlySerial
      <4>1. ReadStream(p, n, e) /\ read_buf' = read_buf
        BY <3>1 DEF serial_read, OnlySerial, usbVars, usbPort
      <4> QED BY <1>1, <2>2, <2>4, <3>1, <4>1, StreamReadMoves
    <3>2. CASE kind[p] = "parallel" /\ par_read(p, n, e) /\ OnlyParallel
      <4>1. read_buf' = read_buf
        BY <3>2 DEF OnlyParallel, usbVars, usbPort
      <4> QED BY <1>1, <2>2, <2>4, <3>2, <4>1, ParReadMoves
    <3>3. CASE kind[p] = "usb" /\ usb_read(p, n, e)
      BY <1>1, <2>2, <2>4, <3>3, UsbRead
    <3>4. CASE kind[p] = "ethernet" /\ ethernet_read(p, n, e) /\ OnlyEthernet
      <4>1. ReadStream(p, n, e) /\ read_buf' = read_buf
        BY <3>4 DEF ethernet_read, OnlyEthernet, usbVars, usbPort
      <4> QED BY <1>1, <2>2, <2>4, <3>4, <4>1, StreamReadMoves
    <3> QED BY <2>4, <3>1, <3>2, <3>3, <3>4 DEF read
  <2> QED BY <2>1, <2>3, <2>4 DEF aps_read
<1>5. CASE Sync(p)
  <2>1. UNCHANGED <<inq, read_buf>> /\ got' = <<>>
    BY <1>5 DEF world, queues, usbVars, usbPort, Sync, Between, aps_sync, InUse, Keeps,
       NotOpen, sync, serial_sync, OnlySerial, par_sync, OnlyParallel, usb_sync, OnlyUsb,
       ethernet_sync, OnlyEthernet
  <2> QED BY <1>a, <2>1
<1>6. CASE Flush(p)
  <2>1. PICK e : aps_flush(p, e)
    BY <1>6 DEF Flush
  <2>2. got' = <<>> /\ InUse(p)
    BY <2>1 DEF aps_flush, Keeps
  <2>3. CASE is_open[p] /\ kind[p] = "serial" /\ serial_flush(p, e) /\ OnlySerial
    <3>1. read_buf' = read_buf
      BY <2>3 DEF OnlySerial, usbVars, usbPort
    <3>2. inq' = inq \/ (Reached(p) \in Devices /\ inq' = [inq EXCEPT ![Reached(p)] = <<>>])
      BY <2>3 DEF serial_flush, Hangup, queues
    <3> QED BY <1>1, <2>2, <2>3, <3>1, <3>2, HangupMoves
  <2>4. CASE is_open[p] /\ kind[p] = "usb" /\ usb_flush(p, e)
    BY <1>1, <2>2, <2>4, UsbFlush
  <2>5. CASE UNCHANGED <<inq, read_buf>>
    BY <1>a, <2>2, <2>5
  <2> QED BY <2>1, <2>3, <2>4, <2>5
          DEF aps_flush, NotOpen, flush, par_flush, ethernet_flush, OnlyParallel, OnlyEthernet,
              world, queues, usbVars, usbPort
<1>7. CASE SetSerial(p)
  <2>1. UNCHANGED <<inq, read_buf>> /\ got' = <<>>
    BY <1>7 DEF world, queues, usbVars, usbPort, SetSerial, Between,
       aps_serial_set_baudrate, InUse, Keeps, NotOpen, WrongType, serial_set_baudrate,
       OnlySerial, aps_serial_set_handshake, serial_set_handshake
  <2> QED BY <1>a, <2>1
<1>8. CASE SetParallel(p)
  <2>1. got' = <<>> /\ read_buf' = read_buf /\ InUse(p)
        /\ (inq' = inq \/ \E e : is_open[p] /\ kind[p] = "parallel" /\ par_reset(p, e))
    BY <1>8 DEF SetParallel, aps_parallel_reset, aps_parallel_set_mode, NotOpen, WrongType, Keeps,
         par_set_mode, OnlyParallel, world, queues, usbVars, usbPort
  <2>2. CASE inq' = inq
    BY <1>a, <2>1, <2>2
  <2>3. ASSUME NEW e, is_open[p], kind[p] = "parallel", par_reset(p, e) PROVE Moves(p)
    <3>1. inq' = inq \/ (Reached(p) \in Devices /\ inq' = [inq EXCEPT ![Reached(p)] = <<>>])
      BY <2>3 DEF par_reset
    <3> QED BY <1>1, <2>1, <2>3, <3>1, HangupMoves
  <2> QED BY <2>1, <2>2, <2>3
<1>9. CASE Control(p)
  <2>1. UNCHANGED <<inq, read_buf>> /\ got' = <<>>
    BY <1>9 DEF world, queues, usbVars, usbPort, Control, Between, aps_usb_control, InUse,
       Reached, Keeps, NotOpen, WrongType, usb_control, OnlyUsb
  <2> QED BY <1>a, <2>1
<1>10. CASE SetTimeouts(p)
  <2>1. UNCHANGED <<inq, read_buf>> /\ got' = <<>>
    BY <1>10 DEF queues, usbVars, usbPort, SetTimeouts, Between, aps_set_write_timeout,
       InUse, Reached, Keeps, aps_set_read_timeout
  <2> QED BY <1>a, <2>1
<1> QED BY <1>2, <1>3, <1>4, <1>5, <1>6, <1>7, <1>8, <1>9, <1>10 DEF Data

LEMMA MovesMap ==
  ASSUME IInv, NEW p \in Ports, Moves(p)
  PROVE  Promise!Next
<1>1. CASE got' = <<>> /\ Stream(p)' = Stream(p)
  BY <1>1, MapSame DEF Moves, Still
<1>2. CASE is_open[p] /\ (Cut(p) \/ Stream(p) = got' \o Stream(p)')
  <2>1. State(p) = "open"
    BY <1>2, OpenPort
  <2> QED BY <1>2, <2>1, MapOpen DEF Moves
<1> QED BY <1>1, <1>2 DEF Moves


-----------------------------------------------------------------------------
(* The calls that open, close, create and destroy ports.                   *)

(* A call on p that leaves the other ports and their devices alone.        *)
LEMMA RemoteStill ==
  ASSUME IInv, NEW p \in Ports,
         \A r \in Ports \ {p} :
           /\ kind'[r] = kind[r] /\ dev'[r] = dev[r] /\ is_open'[r] = is_open[r] /\ read_buf'[r] = read_buf[r]
           /\ r \in misclosed' <=> r \in misclosed,
         \A r \in Ports \ {p} : is_open[r] /\ r \notin misclosed =>
           inq'[dev[r]] = inq[dev[r]] /\ (kind[r] = "usb" => (Working(r)' <=> Working(r)))
  PROVE  Still(p)
<1>1. ASSUME NEW r \in Ports \ {p} PROVE State(r)' = State(r) /\ Stream(r)' = Stream(r)
  <2>1. State(r)' = State(r)
    BY DEF State
  <2>2. CASE is_open[r] /\ r \notin misclosed
    <3>1. Streaming(r)' <=> Streaming(r)
      BY <2>2 DEF Streaming
    <3> QED BY <2>1, <2>2, <3>1 DEF Stream
  <2>3. CASE ~(is_open[r] /\ r \notin misclosed)
    BY <2>1, <2>3 DEF Stream
  <2> QED BY <2>2, <2>3
<1> QED BY <1>1 DEF Still

(* A port that loses its device keeps what is in its buffer.               *)
LEMMA FrontIs ==
  ASSUME NEW S, NEW t \in Seq(S), NEW u \in Seq(S)
  PROVE  \E k \in 0 .. Len(t \o u) : t = SubSeq(t \o u, 1, k)
<1>1. Len(t) \in Nat /\ Len(u) \in Nat /\ Len(t \o u) = Len(t) + Len(u)
  BY LenProperties, ConcatProperties
<1>2. Len(t) \in 0 .. Len(t \o u)
  BY <1>1
<1>3. SubSeq(t \o u, 1, Len(t)) = t
  BY Parts
<1> QED BY <1>2, <1>3

LEMMA FrontCut ==
  ASSUME NEW p \in Ports, NEW t \in Seq(Bytes), NEW u \in Seq(Bytes),
         Stream(p) = t \o u, Stream(p)' = t, got' = <<>> \/ got' = got
  PROVE  Cut(p)
<1>1. PICK k \in 0 .. Len(t \o u) : t = SubSeq(t \o u, 1, k)
  BY FrontIs
<1>2. k \in 0 .. Len(Stream(p)) /\ Stream(p)' = SubSeq(Stream(p), 1, k)
  BY <1>1
<1> QED BY <1>2 DEF Cut

LEMMA CreateMap ==
  ASSUME IInv, NEW p \in Ports, Create(p)
  PROVE  Promise!Next
<1>1. Same \/ Built(p)
  BY CreateStep DEF IInv, TypeOK
<1>2. UNCHANGED <<inq, read_buf, plugged, claim>> /\ got' = <<>>
  BY BuildsOnly DEF Builds, usb_list_ports, queues, usbBus, usbPort
<1>3. CASE Built(p)
  <2>1. ~is_open[p] /\ ~is_open'[p] /\ State(p) = "none" /\ State(p)' = "closed"
    BY <1>3 DEF Built, IInv, TypeOK, PortTypes, PortInv, Transports, State
  <2>2. Still(p)
    BY <1>2, <1>3, RemoteStill DEF Built, Working, IInv, TypeOK, PortTypes
  <2>3. Stream(p) = <<>> /\ Stream(p)' = <<>>
    BY <2>1 DEF Stream
  <2> QED BY <1>2, <2>1, <2>2, <2>3, MapLife
<1>4. CASE Same
  BY <1>2, <1>4, Calm, MovesMap DEF Same
<1> QED BY <1>1, <1>3, <1>4

LEMMA FreesMap ==
  ASSUME IInv, NEW p \in Ports, Frees(p)
  PROVE  Promise!Next
<1>1. Freed(p)
  BY FreesStep
<1>2. UNCHANGED <<inq, plugged, claim>> /\ got' = <<>> /\ \A r \in Ports \ {p} : read_buf'[r] = read_buf[r]
  BY DEF Frees, queues, usbBus, IInv, TypeOK, QueueTypes
<1>3. ~is_open[p] /\ ~is_open'[p] /\ State(p) = "closed" /\ State(p)' = "none"
  BY <1>1 DEF Freed, IInv, TypeOK, PortTypes, PortInv, Transports, State
<1>4. Still(p)
  BY <1>1, <1>2, RemoteStill DEF Freed, Working, IInv, TypeOK, PortTypes
<1>5. Stream(p) = <<>> /\ Stream(p)' = <<>>
  BY <1>3 DEF Stream
<1> QED BY <1>2, <1>3, <1>4, <1>5, MapLife

LEMMA OpenMap ==
  ASSUME IInv, NEW p \in Ports, Open(p)
  PROVE  Promise!Next
<1>0. PICK e \in OpenErrors : aps_open(p, e)
  BY DEF Open
<1>a. got' = <<>> /\ UNCHANGED <<kind, dev>> /\ kind[p] \in Transports
  BY <1>0 DEF aps_open, ports, InUse
<1>1. CASE is_open[p]
  <2>1. UNCHANGED <<is_open, handle, misclosed, plugged, claim, read_buf, inq>>
    BY <1>0, <1>1 DEF aps_open, world, fds, queues, usbVars, usbBus, usbPort
  <2>2. Moves(p)
    BY <1>a, <2>1, Calm
  <2> QED BY <2>2, MovesMap
<1>2. CASE ~is_open[p]
  <2>1. open_(p, e) /\ is_open' = [is_open EXCEPT ![p] = (e = "OK")]
    BY <1>0, <1>2 DEF aps_open
  <2>2. misclosed' = misclosed /\ read_buf' = read_buf /\ plugged' = plugged
    BY <2>1 DEF open_, serial_open, par_open, usb_open, ethernet_open, OnlySerial, OnlyParallel, OnlyEthernet,
       usbVars, usbBus, usbPort
  <2>3. \A r \in Ports \ {p} : handle'[r] = handle[r] /\ is_open'[r] = is_open[r]
    <3>1. handle' = handle \/ \E h : handle' = [handle EXCEPT ![p] = h]
      <4>1. CASE kind[p] = "serial" /\ serial_open(p, e)
        BY <4>1 DEF serial_open, Takes, fds
      <4>2. CASE kind[p] = "parallel" /\ par_open(p, e)
        BY <4>2 DEF par_open, Takes
      <4>3. CASE kind[p] = "usb" /\ usb_open(p, e)
        BY <4>3 DEF usb_open, Takes
      <4>4. CASE kind[p] = "ethernet" /\ ethernet_open(p, e)
        BY <4>4 DEF ethernet_open, Takes, fds
      <4> QED BY <2>1, <4>1, <4>2, <4>3, <4>4 DEF open_
    <3> QED BY <2>1, <3>1 DEF IInv, TypeOK, PortTypes
  <2>4. \A r \in Ports \ {p} : is_open[r] /\ r \notin misclosed =>
          inq'[dev[r]] = inq[dev[r]] /\ (kind[r] = "usb" => (Working(r)' <=> Working(r)))
    <3> SUFFICES ASSUME NEW r \in Ports \ {p}, is_open[r], r \notin misclosed
                 PROVE  inq'[dev[r]] = inq[dev[r]] /\ (kind[r] = "usb" => (Working(r)' <=> Working(r)))
      OBVIOUS
    <3>1. CASE kind[p] = "serial" \/ kind[p] = "parallel"
      <4>1. UNCHANGED <<inq, claim>>
        BY <2>1, <3>1 DEF open_, serial_open, par_open, OnlySerial, OnlyParallel, queues, usbVars, usbBus
      <4> QED BY <1>a, <2>2, <2>3, <4>1 DEF Working
    <3>2. CASE kind[p] = "ethernet"
      <4>1. claim' = claim /\ (inq' = inq \/ inq' = [inq EXCEPT ![dev[p]] = <<>>])
        BY <2>1, <3>2 DEF open_, ethernet_open, OnlyEthernet, Hangup, queues, usbVars, usbBus
      <4>2. dev[p] \notin UsbDevices
        BY <3>2 DEF IInv, PortInv, Fits
      <4>3. dev[r] # dev[p]
        BY <1>2, <4>2 DEF Open, Alone
      <4>4. inq'[dev[r]] = inq[dev[r]]
        BY <4>1, <4>3, OpenPort DEF IInv, TypeOK, QueueTypes
      <4> QED BY <1>a, <2>2, <2>3, <4>1, <4>4 DEF Working
    <3>3. CASE kind[p] = "usb" /\ usb_open(p, e)
      <4>1. inq' = inq
        BY <3>3 DEF usb_open, queues
      <4>2. CASE claim' = claim
        BY <1>a, <2>2, <2>3, <4>1, <4>2 DEF Working
      <4>3. CASE claim[dev[p]] = 0 /\ \E h \in Handles : Lowest(h) /\ claim' = [claim EXCEPT ![dev[p]] = h]
        <5>1. PICK h \in Handles : Lowest(h) /\ claim' = [claim EXCEPT ![dev[p]] = h]
          BY <4>3
        <5>2. ASSUME kind[r] = "usb" PROVE Working(r)' <=> Working(r)
          <6>1. handle[r] \in Handles /\ files[handle[r]] = dev[r] /\ dev[r] \in UsbDevices
            BY <5>2, OpenPort
          <6>2. handle[r] # h /\ handle[r] # 0
            BY <5>1, <6>1 DEF Lowest, Handles
          <6>3. CASE dev[r] = dev[p]
            BY <1>a, <2>2, <2>3, <4>3, <5>1, <6>1, <6>2, <6>3 DEF Working, IInv, TypeOK, UsbTypes
          <6>4. CASE dev[r] # dev[p]
            BY <1>a, <2>2, <2>3, <5>1, <6>1, <6>4 DEF Working, IInv, TypeOK, UsbTypes
          <6> QED BY <6>3, <6>4
        <5> QED BY <4>1, <5>2
      <4> QED BY <3>3, <4>2, <4>3 DEF usb_open
    <3> QED BY <2>1, <3>1, <3>2, <3>3 DEF open_
  <2>5. Still(p)
    BY <1>a, <2>2, <2>3, <2>4, RemoteStill
  <2>6. State(p) = "closed" /\ Stream(p) = <<>>
    BY <1>a, <1>2 DEF State, Stream, Transports
  <2>7. CASE e = "OK"
    <3>1. is_open'[p] /\ State(p)' = "open"
      BY <1>a, <2>1, <2>7 DEF State, Transports, IInv, TypeOK, PortTypes
    <3> QED BY <1>a, <1>2, <2>5, <2>6, <3>1, MapLife
  <2>8. CASE e # "OK"
    <3>1. ~is_open'[p] /\ State(p)' = "closed" /\ Stream(p)' = <<>>
      BY <1>a, <2>1, <2>8 DEF State, Stream, Transports, IInv, TypeOK, PortTypes
    <3> QED BY <1>a, <2>5, <2>6, <3>1, MapSame DEF Still
  <2> QED BY <2>7, <2>8
<1> QED BY <1>1, <1>2

(* Closing a port, by aps_close or on the way to its destruction.          *)
LEMMA ShutsMap ==
  ASSUME IInv, BufferInv, NEW p \in Ports, NEW e, is_open[p], InUse(p), Shuts(p, e), UNCHANGED dev, got' = <<>>,
         kind' = kind \/ (e = "OK" /\ kind' = [kind EXCEPT ![p] = "destroyed"])
  PROVE  Promise!Next
<1>1. is_open' = [is_open EXCEPT ![p] = (e # "OK")] /\ close(p, e)
  BY DEF Shuts
<1>2. /\ State(p) = "open" /\ kind[p] \in Transports /\ dev[p] \in Devices
      /\ \A r \in Ports \ {p} : kind'[r] = kind[r] /\ is_open'[r] = is_open[r]
      /\ e = "OK" => State(p)' = "closed" /\ ~is_open'[p]
      /\ e # "OK" => State(p)' = "open" /\ is_open'[p] /\ kind' = kind
  BY <1>1, OpenPort DEF State, Transports, IInv, TypeOK, PortTypes
<1>3. read_buf' = read_buf /\ plugged' = plugged
  BY <1>1 DEF close, usb_close, OnlySerial, OnlyParallel, OnlyEthernet, usbVars, usbBus, usbPort
<1>a. ASSUME Still(p), e = "OK" PROVE Promise!Next
  <2>1. Stream(p)' = <<>>
    BY <1>2, <1>a DEF Stream
  <2> QED BY <1>2, <1>a, <2>1, MapLife
<1>b. ASSUME Still(p), e # "OK", Cut(p) PROVE Promise!Next
  BY <1>2, <1>b, MapOpen
<1>4. CASE kind[p] = "usb" /\ usb_close(p, e)
  <2>1. dev[p] \in UsbDevices /\ inq' = inq /\ misclosed' = misclosed /\ p \notin misclosed
    BY <1>4, OpenPort DEF usb_close, queues
  <2>2. \A r \in Ports \ {p} : handle'[r] = handle[r]
    BY <1>4 DEF usb_close, IInv, TypeOK, PortTypes
  <2>3. claim' = claim \/ (claim[dev[p]] = handle[p] /\ claim' = [claim EXCEPT ![dev[p]] = 0])
    BY <1>4 DEF usb_close
  <2>4. ASSUME NEW r \in Ports \ {p}, is_open[r], kind[r] = "usb" PROVE Working(r)' <=> Working(r)
    <3>1. handle[r] \in Handles /\ handle[r] # 0 /\ handle[r] # handle[p] /\ dev[r] \in UsbDevices
      BY <1>4, <2>1, <2>4, OpenPort DEF IInv, HandlesAccounted, Handles
    <3>2. CASE dev[r] = dev[p]
      BY <1>2, <1>3, <2>1, <2>2, <2>3, <3>1, <3>2 DEF Working, IInv, TypeOK, UsbTypes
    <3>3. CASE dev[r] # dev[p]
      BY <1>2, <1>3, <2>1, <2>2, <2>3, <3>1, <3>3 DEF Working, IInv, TypeOK, UsbTypes
    <3> QED BY <3>2, <3>3
  <2>5. Still(p)
    BY <1>2, <1>3, <2>1, <2>4, RemoteStill
  <2>6. CASE e = "OK"
    BY <1>a, <2>5, <2>6
  <2>7. CASE e # "OK"
    <3>1. handle' = handle
      BY <1>4, <2>7 DEF usb_close
    <3>2. Stream(p) = read_buf[p] \o (IF Streaming(p) THEN inq[dev[p]] ELSE <<>>)
      BY <2>1 DEF Stream
    <3>3. Stream(p)' = read_buf[p] \o (IF Streaming(p)' THEN inq[dev[p]] ELSE <<>>)
      BY <1>2, <1>3, <2>1, <2>7 DEF Stream
    <3>4. read_buf[p] \in Seq(Bytes) /\ inq[dev[p]] \in Seq(Bytes)
      BY <1>2 DEF IInv, TypeOK, QueueTypes
    <3>5. Streaming(p)' => Streaming(p)
      <4>1. claim'[dev[p]] = handle'[p] => claim[dev[p]] = handle[p]
        <5>1. handle[p] # 0
          BY <2>1, OpenPort DEF Handles
        <5> QED BY <2>1, <2>3, <3>1, <5>1 DEF IInv, TypeOK, UsbTypes
      <4> QED BY <1>2, <1>3, <1>4, <2>1, <2>7, <4>1 DEF Streaming, Working
    <3>6. CASE Streaming(p)' = Streaming(p)
      <4>1. Stream(p)' = Stream(p)
        BY <3>2, <3>3, <3>6
      <4> QED BY <1>2, <2>5, <2>7, <4>1, MapSame DEF Still
    <3>7. CASE Streaming(p) /\ ~Streaming(p)'
      <4>1. Stream(p) = read_buf[p] \o inq[dev[p]] /\ Stream(p)' = read_buf[p]
        BY <3>2, <3>3, <3>4, <3>7, ConcatEmptySeq
      <4>5. got' = <<>> \/ got' = got
        OBVIOUS
      <4>2. Cut(p)
        BY <3>4, <4>1, <4>5, FrontCut
      <4> QED BY <1>b, <2>5, <2>7, <4>2
    <3> QED BY <3>5, <3>6, <3>7 DEF Streaming
  <2> QED BY <2>6, <2>7
<1>5. CASE kind[p] # "usb"
  <2>1. UNCHANGED <<handle, claim>>
    BY <1>1, <1>5 DEF close, serial_close, par_close, ethernet_close, CloseDescriptor, OnlySerial, OnlyParallel,
       OnlyEthernet, usbVars, usbBus, fds
  <2>2. (e # "OK" /\ UNCHANGED <<misclosed, inq>>) \/ CloseDescriptor(p, e)
    BY <1>1, <1>5 DEF close, serial_close, par_close, ethernet_close, fds, queues
  <2>3. CASE e # "OK" /\ UNCHANGED <<misclosed, inq>>
    <3>1. Still(p) /\ Stream(p)' = Stream(p)
      <4>1. is_open' = is_open /\ kind' = kind
        BY <1>1, <1>2, <2>3 DEF IInv, TypeOK, PortTypes
      <4>2. Still(p)
        BY <1>3, <2>1, <2>3, <4>1, OthersStill
      <4> QED BY <1>3, <2>1, <2>3, <4>1, <4>2 DEF Stream, Streaming, Working
    <3> QED BY <1>2, <2>3, <3>1, MapSame DEF Still
  <2>4. CASE CloseDescriptor(p, e)
    <3>1. \A r \in Ports \ {p} : r \in misclosed' <=> r \in misclosed
      BY <2>4 DEF CloseDescriptor
    <3>2. inq' = inq \/ (Reached(p) \in Devices /\ inq' = [inq EXCEPT ![Reached(p)] = <<>>])
      BY <2>4 DEF CloseDescriptor, Hangup, queues
    <3>3. ASSUME NEW r \in Ports \ {p}, is_open[r], r \notin misclosed PROVE inq'[dev[r]] = inq[dev[r]]
      <4>1. CASE Reached(p) \in Devices
        <5>1. Reached(p) = dev[p]
          BY <4>1, ReachedStream
        <5>2. dev[r] # dev[p]
          BY <1>5, <3>3, OpenPort DEF IInv, AloneInv, Fits, Transports
        <5> QED BY <3>2, <3>3, <5>1, <5>2, OpenPort DEF IInv, TypeOK, QueueTypes
      <4>2. CASE Reached(p) \notin Devices
        BY <3>2, <4>2
      <4> QED BY <4>1, <4>2
    <3>4. ASSUME NEW r \in Ports \ {p} PROVE Working(r)' <=> Working(r)
      BY <1>3, <2>1 DEF Working
    <3>5. Still(p)
      BY <1>2, <1>3, <3>1, <3>3, <3>4, RemoteStill
    <3>6. CASE e = "OK"
      BY <1>a, <3>5, <3>6
    <3>7. CASE e # "OK"
      <4>1. p \in misclosed'
        BY <2>4, <3>7 DEF CloseDescriptor
      <4>2. Stream(p)' = <<>>
        BY <4>1 DEF Stream
      <4> QED BY <1>b, <3>5, <3>7, <4>2, EmptyCut
    <3> QED BY <3>6, <3>7
  <2> QED BY <2>2, <2>3, <2>4
<1> QED BY <1>1, <1>4, <1>5 DEF close


LEMMA ShutMap ==
  ASSUME IInv, BufferInv, NEW p \in Ports, Shut(p)
  PROVE  Promise!Next
<1>1. PICK e \in CloseErrors : aps_close(p, e)
  BY DEF Shut
<1>2. InUse(p) /\ got' = <<>> /\ kind' = kind /\ dev' = dev
  BY <1>1 DEF aps_close, ports
<1>3. CASE is_open[p] /\ Shuts(p, e)
  BY <1>2, <1>3, ShutsMap
<1>4. CASE NotOpen(p, e) /\ is_open' = is_open
  <2>1. UNCHANGED <<handle, misclosed, plugged, claim, read_buf, inq>>
    BY <1>4 DEF NotOpen, world, fds, queues, usbVars, usbBus, usbPort
  <2>2. Moves(p)
    BY <1>2, <1>4, <2>1, Calm
  <2> QED BY <2>2, MovesMap
<1> QED BY <1>1, <1>3, <1>4 DEF aps_close

LEMMA DestroyMap ==
  ASSUME IInv, BufferInv, NEW p \in Ports, Destroy(p)
  PROVE  Promise!Next
<1>1. PICK e \in CloseErrors : aps_destroy_port(p, e)
  BY DEF Destroy
<1>2. got' = <<>> /\ dev' = dev /\ (kind' = kind \/ (e = "OK" /\ kind' = [kind EXCEPT ![p] = "destroyed"]))
      /\ (InUse(p) \/ kind[p] = "blank")
  BY <1>1 DEF aps_destroy_port
<1>3. CASE is_open[p]
  <2>1. InUse(p) /\ Shuts(p, e)
    BY <1>1, <1>2, <1>3, OpenPort DEF aps_destroy_port, Transports
  <2> QED BY <1>2, <1>3, <2>1, ShutsMap
<1>4. CASE ~is_open[p]
  <2>1. UNCHANGED <<is_open, handle, misclosed, plugged, claim, read_buf, inq>>
    BY <1>1, <1>4 DEF aps_destroy_port, world, fds, queues, usbVars, usbBus, usbPort
  <2>2. \A r \in Ports \ {p} : kind'[r] = kind[r]
    BY <1>2 DEF IInv, TypeOK, PortTypes
  <2>3. Still(p)
    BY <1>2, <2>1, <2>2, RemoteStill DEF Working
  <2>4. State(p) = "closed" /\ State(p)' = "closed"
    BY <1>2, <1>4, <2>1 DEF InUse, Transports, State, IInv, TypeOK, PortTypes
  <2>5. Stream(p) = <<>> /\ Stream(p)' = <<>>
    BY <1>4, <2>1 DEF Stream
  <2> QED BY <1>2, <2>3, <2>4, <2>5, MapSame DEF Still
<1> QED BY <1>3, <1>4

LEMMA KillMap ==
  ASSUME IInv, NEW p \in Ports, Kill(p)
  PROVE  Promise!Next
<1>1. PICK e \in SetErrors : aps_usb_kill(p, e)
  BY DEF Kill
<1>2. InUse(p) /\ got' = <<>> /\ kind' = kind /\ dev' = dev
  BY <1>1 DEF aps_usb_kill, ports
<1>3. CASE (NotOpen(p, e) \/ WrongType(p, "usb", e)) /\ is_open' = is_open
  <2>1. UNCHANGED <<handle, misclosed, plugged, claim, read_buf, inq>>
    BY <1>3 DEF NotOpen, WrongType, world, fds, queues, usbVars, usbBus, usbPort
  <2>2. Moves(p)
    BY <1>2, <1>3, <2>1, Calm
  <2> QED BY <2>2, MovesMap
<1>4. CASE is_open[p] /\ kind[p] = "usb" /\ usb_kill(p) /\ is_open' = [is_open EXCEPT ![p] = FALSE]
  <2>1. /\ dev[p] \in UsbDevices /\ inq' = inq /\ misclosed' = misclosed /\ read_buf' = read_buf
        /\ plugged' = plugged
        /\ claim' = claim \/ (claim[dev[p]] = handle[p] /\ claim' = [claim EXCEPT ![dev[p]] = 0])
    BY <1>4, OpenPort DEF usb_kill, queues, usbPort
  <2>2. \A r \in Ports \ {p} : handle'[r] = handle[r] /\ is_open'[r] = is_open[r]
    BY <1>4 DEF usb_kill, IInv, TypeOK, PortTypes
  <2>3. ASSUME NEW r \in Ports \ {p}, is_open[r], kind[r] = "usb" PROVE Working(r)' <=> Working(r)
    <3>1. handle[r] \in Handles /\ handle[r] # 0 /\ handle[r] # handle[p] /\ dev[r] \in UsbDevices
      BY <1>4, <2>1, <2>3, OpenPort DEF IInv, HandlesAccounted, Handles
    <3>2. CASE dev[r] = dev[p]
      BY <1>2, <2>1, <2>2, <3>1, <3>2 DEF Working, IInv, TypeOK, UsbTypes
    <3>3. CASE dev[r] # dev[p]
      BY <1>2, <2>1, <2>2, <3>1, <3>3 DEF Working, IInv, TypeOK, UsbTypes
    <3> QED BY <3>2, <3>3
  <2>4. Still(p)
    BY <1>2, <2>1, <2>2, <2>3, RemoteStill
  <2>5. State(p) = "open" /\ ~is_open'[p] /\ State(p)' = "closed"
    BY <1>2, <1>4, OpenPort DEF State, Transports, IInv, TypeOK, PortTypes
  <2>6. Stream(p)' = <<>>
    BY <2>5 DEF Stream
  <2> QED BY <1>2, <1>4, <2>4, <2>5, <2>6, MapLife
<1> QED BY <1>1, <1>3, <1>4 DEF aps_usb_kill

-----------------------------------------------------------------------------
(* The environment.                                                        *)

(* More bytes behind those that were there.                                *)
Longer(s, t) == Len(t) >= Len(s) /\ SubSeq(t, 1, Len(s)) = s

LEMMA Lengthened ==
  ASSUME NEW S, NEW b \in Seq(S), NEW s \in Seq(S), NEW t \in Seq(S), NEW x,
         t = s \/ (x \in S /\ t = Append(s, x))
  PROVE  Longer(b \o s, b \o t)
<1>1. b \o s \in Seq(S) /\ Len(b \o s) = Len(b) + Len(s) /\ Len(b \o t) = Len(b) + Len(t)
      /\ Len(b) \in Nat /\ Len(s) \in Nat /\ Len(t) \in Nat
  BY LenProperties, ConcatProperties
<1>2. CASE t = s
  BY <1>1, <1>2, SubSeqFull DEF Longer
<1>3. CASE t = Append(s, x)
  <2>1. Len(t) = Len(s) + 1
    BY <1>3, AppendProperties
  <2>2. t = s \o <<x>> /\ <<x>> \in Seq(S)
    BY <1>3, <2>1, AppendIsConcat
  <2>3. b \o t = (b \o s) \o <<x>>
    BY <2>2, ConcatAssociative
  <2>4. SubSeq((b \o s) \o <<x>>, 1, Len(b \o s)) = b \o s
    BY <1>1, <2>2, Parts
  <2>5. Len(b \o t) >= Len(b \o s)
    BY <1>1, <2>1
  <2> QED BY <2>3, <2>4, <2>5 DEF Longer
<1> QED BY <1>2, <1>3

LEMMA AnswerMap ==
  ASSUME IInv, NEW d \in Devices, Answer(d)
  PROVE  Promise!Next \/ UNCHANGED Promise!vars
<1>1. /\ UNCHANGED <<kind, dev, is_open, handle, misclosed, plugged, claim, read_buf, got>>
      /\ inq' = inq \/ inq' = [inq EXCEPT ![d] = Append(@, Arriving(d))]
      /\ todo[d] # <<>>
  BY DEF Answer, ports, fds, usbVars, usbBus, usbPort
<1>2. ASSUME NEW p \in Ports PROVE State(p)' = State(p) /\ (Streaming(p)' <=> Streaming(p))
  BY <1>1 DEF State, Streaming, Working
<1>3. CASE \E p \in Ports : Streaming(p) /\ dev[p] = d
  <2>1. PICK p \in Ports : Streaming(p) /\ dev[p] = d
    BY <1>3
  <2>2. Still(p) /\ State(p)' = State(p)
    BY <1>1, <2>1, OthersStill DEF IInv, TypeOK, QueueTypes
  <2>3. is_open[p] /\ State(p) = "open" /\ p \notin misclosed
    BY <2>1, OpenPort DEF Streaming
  <2>4. Stream(p) = read_buf[p] \o inq[d] /\ Stream(p)' = read_buf[p] \o inq'[d]
    BY <1>1, <1>2, <2>1, <2>3 DEF Stream
  <2>5. read_buf[p] \in Seq(Bytes) /\ inq[d] \in Seq(Bytes) /\ inq'[d] \in Seq(Bytes)
    <3>1. QueueTypes'
      BY QueueTypesStep DEF IInv, TypeOK, Next, Environment
    <3> QED BY <3>1 DEF IInv, TypeOK, QueueTypes
  <2>6. inq'[d] = inq[d] \/ inq'[d] = Append(inq[d], Arriving(d))
    BY <1>1 DEF IInv, TypeOK, QueueTypes
  <2>a. Arriving(d) \in Bytes
    <3>1. Head(todo[d]) \in Bytes
      BY <1>1, HeadTailProperties DEF IInv, TypeOK, QueueTypes
    <3> QED BY <3>1 DEF Arriving, Bytes
  <2>7. Len(Stream(p)') >= Len(Stream(p)) /\ SubSeq(Stream(p)', 1, Len(Stream(p))) = Stream(p)
    <3>1. Longer(read_buf[p] \o inq[d], read_buf[p] \o inq'[d])
      BY <2>5, <2>6, <2>a, Lengthened
    <3> QED BY <2>4, <3>1 DEF Longer
  <2> QED BY <1>1, <2>2, <2>3, <2>7, MapOpen
<1>4. CASE ~\E p \in Ports : Streaming(p) /\ dev[p] = d
  <2>1. ASSUME NEW p \in Ports PROVE Stream(p)' = Stream(p)
    <3>1. CASE Streaming(p)
      <4>1. dev[p] # d
        BY <1>4, <3>1
      <4>2. inq'[dev[p]] = inq[dev[p]]
        BY <1>1, <3>1, <4>1, OpenPort DEF Streaming, IInv, TypeOK, QueueTypes
      <4> QED BY <1>1, <1>2, <3>1, <4>2 DEF Stream
    <3>2. CASE ~Streaming(p)
      BY <1>1, <1>2, <3>2 DEF Stream
    <3> QED BY <3>1, <3>2
  <2> QED BY <1>1, <1>2, <2>1, MapSame
<1> QED BY <1>3, <1>4

LEMMA LeavesMap ==
  ASSUME IInv, NEW d \in UsbDevices, Leaves(d)
  PROVE  Promise!Next \/ UNCHANGED Promise!vars
<1>1. /\ UNCHANGED <<kind, dev, is_open, handle, misclosed, read_buf, inq, got>>
      /\ plugged' = plugged \ {d} /\ claim' = [claim EXCEPT ![d] = 0]
  BY DEF Leaves, Unplug, ports, fds, queues, usbPort
<1>2. ASSUME NEW p \in Ports PROVE State(p)' = State(p)
  BY <1>1 DEF State
<1>3. ASSUME NEW p \in Ports, ~(Streaming(p) /\ dev[p] = d) PROVE Stream(p)' = Stream(p)
  <2>1. CASE is_open[p] /\ p \notin misclosed
    <3>1. Streaming(p)' <=> Streaming(p)
      <4>1. CASE dev[p] = d
        <5>1. kind[p] = "usb" /\ ~Streaming(p)'
          BY <1>1, <1>3, <2>1, <4>1 DEF Streaming, Working
        <5> QED BY <1>3, <4>1, <5>1
      <4>2. CASE dev[p] # d
        <5>1. kind[p] = "usb" => (Working(p)' <=> Working(p))
          BY <1>1, <2>1, <4>2, OpenPort DEF Working, IInv, TypeOK, UsbTypes
        <5> QED BY <1>1, <5>1 DEF Streaming
      <4> QED BY <4>1, <4>2
    <3> QED BY <1>1, <2>1, <3>1 DEF Stream
  <2>2. CASE ~(is_open[p] /\ p \notin misclosed)
    BY <1>1, <2>2 DEF Stream
  <2> QED BY <2>1, <2>2
<1>4. CASE \E p \in Ports : Streaming(p) /\ dev[p] = d
  <2>1. PICK p \in Ports : Streaming(p) /\ dev[p] = d
    BY <1>4
  <2>2. Still(p)
    BY <1>2, <1>3, <2>1, StreamsOnce DEF Still
  <2>3. is_open[p] /\ p \notin misclosed /\ State(p) = "open" /\ kind[p] = "usb"
    BY <2>1, OpenPort, KindsAssumption DEF Streaming, Fits, Transports
  <2>4. ~Streaming(p)'
    BY <1>1, <2>1, <2>3 DEF Streaming, Working
  <2>5. read_buf[p] \in Seq(Bytes) /\ inq[d] \in Seq(Bytes)
    BY DEF IInv, TypeOK, QueueTypes
  <2>6. Stream(p) = read_buf[p] \o inq[d]
    BY <2>1, <2>3 DEF Stream
  <2>7. Stream(p)' = read_buf[p] \o <<>>
    BY <1>1, <2>3, <2>4 DEF Stream
  <2>8. Stream(p)' = read_buf[p]
    BY <2>5, <2>7, ConcatEmptySeq
  <2>9. got' = <<>> \/ got' = got
    BY <1>1
  <2>10. Cut(p)
    BY <2>5, <2>6, <2>8, <2>9, FrontCut
  <2> QED BY <1>2, <2>2, <2>3, <2>10, MapOpen
<1>5. CASE ~\E p \in Ports : Streaming(p) /\ dev[p] = d
  BY <1>1, <1>2, <1>3, <1>5, MapSame
<1> QED BY <1>4, <1>5

LEMMA SilentMap ==
  ASSUME UNCHANGED <<kind, dev, is_open, handle, misclosed, plugged, claim, read_buf, inq, got>>
  PROVE  UNCHANGED Promise!vars
  BY MapSame DEF State, Stream, Streaming, Working

LEMMA EnvironmentMap ==
  ASSUME IInv, Environment
  PROVE  Promise!Next \/ UNCHANGED Promise!vars
<1>1. ASSUME NEW d, Transmit(d) PROVE UNCHANGED Promise!vars
  BY <1>1, SilentMap DEF Transmit, ports, fds, usbVars, usbBus, usbPort
<1>2. ASSUME NEW d, HangsUp(d) PROVE UNCHANGED Promise!vars
  BY <1>2, SilentMap DEF HangsUp, ports, fds, queues, usbVars, usbBus, usbPort
<1> QED BY <1>1, <1>2, AnswerMap, LeavesMap DEF Environment

-----------------------------------------------------------------------------
LEMMA EveryStepMaps ==
  ASSUME IInv, BufferInv, [Next]_vars
  PROVE  [Promise!Next]_(Promise!vars)
<1>1. ASSUME NEW p \in Ports, Calls(p) PROVE Promise!Next
  <2>1. CASE Data(p)
    BY <2>1, DataMoves, MovesMap
  <2>2. CASE Create(p) \/ Open(p) \/ Shut(p) \/ Destroy(p) \/ Kill(p) \/ Frees(p)
    BY <2>2, CreateMap, OpenMap, ShutMap, DestroyMap, KillMap, FreesMap
  <2> QED BY <1>1, <2>1, <2>2 DEF Calls, Data
<1>2. CASE UNCHANGED vars
  BY <1>2, SilentMap DEF vars, world, ports, fds, queues, usbVars, usbBus, usbPort
<1> QED BY <1>1, <1>2, EnvironmentMap DEF Next

LEMMA InitMaps == Init => Promise!Init /\ BufferInv
<1> SUFFICES ASSUME Init PROVE Promise!Init /\ BufferInv
  OBVIOUS
<1>1. BufferInv
  BY DEF Init, BufferInv
<1>2. \A p \in Ports : kind[p] = "free" /\ ~is_open[p] /\ Stream(p) = <<>>
  BY DEF Init, Stream
<1> QED BY <1>1, <1>2 DEF Promise!Init, Init

(* libaps keeps the promise of PortContract: on every port, with any other *)
(* ports in use and whatever fails, the reads return the bytes of the      *)
(* printer in their order, and bytes are lost at the ends only.            *)
THEOREM KeepsContract == Spec => Contract
<1> HIDE DEF vars
<1>1. Init => IInv /\ BufferInv /\ Promise!Init
  BY Initially, InitMaps
<1>2. IInv /\ BufferInv /\ [Next]_vars => (IInv /\ BufferInv)' /\ [Promise!Next]_(Promise!vars)
  <2>1. IInv => PortTypes /\ QueueTypes /\ PortInv /\ UsbTypes
    BY DEF IInv, TypeOK
  <2> QED BY <2>1, Inductive, BufferStep, EveryStepMaps
<1> QED BY <1>1, <1>2, PTL DEF Spec, Contract, Promise!Spec

=============================================================================
