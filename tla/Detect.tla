-------------------------------- MODULE Detect --------------------------------
(***************************************************************************)
(* Detection of printers (src/src/aps/detect.c): a client of libaps that   *)
(* knocks at every serial and parallel port and at the USB printers.       *)
(*                                                                         *)
(* The program is a tree of scripts.  A script is a sequence of calls; an  *)
(* error ends it, except for calls marked "try".  When the script is over  *)
(* Decide chooses the next one.  Memory never runs out.                    *)
(***************************************************************************)
EXTENDS LibAps

CONSTANTS
  Slots,         \* the transport and device of each port, in order of detection;
                 \*   the code has four of each transport
  MaxPrinters,   \* the size of the caller's array
  MaxIdentity    \* APS_IDENTITY_MAX

(* Each transport has a first port.                                        *)
ASSUME SlotsAssumption ==
  /\ Ports = 1 .. Len(Slots)
  /\ \A t \in {"serial", "parallel", "usb"} :
       \E p \in Ports : Slots[p].type = t /\ \A q \in 1 .. p - 1 : Slots[q].type # t
  /\ \A p \in Ports :
       \/ Slots[p].type = "serial" /\ Slots[p].device \in SerialDevices
       \/ Slots[p].type = "parallel" /\ Slots[p].device \in ParallelDevices
       \/ Slots[p].type = "usb"

(* The delimiter of a URI is no device.  An identity, of 11 characters at  *)
(* most, and the zero behind it fit APS_IDENTITY_MAX.                      *)
ASSUME NamesAssumption == \A p \in Ports : Slots[p].device # "?"

ASSUME SizesAssumption == MaxPrinters \in Nat /\ MaxIdentity \in Nat \ {0, 1}

ASSUME CommandsAssumption ==
  {"CAN", "NUL", "status", "identity", "GS status", "GS identity", "MRS setting", "HRS setting"}
    \subseteq Commands

VARIABLES
  stage,      \* "serial", "parallel", "usb" or "done"
  what,       \* the script at work
  cur,        \* the port it works on
  script,     \* the calls of the script that are left
  ok,         \* no call of it has failed
  baud,       \* the local variable baudrate
  text,       \* the bytes read since the last write
  model,      \* the local variable model
  printers,   \* the array of printers
  unflushed   \* history: ports of which a query could not be flushed

detectVars == <<stage, what, cur, script, ok, baud, text, model, printers, unflushed>>

-----------------------------------------------------------------------------
(* The scripts.                                                            *)

Model(status, identity) ==
  << <<"flush">>, <<"write", "CAN">>, <<"sync">>, <<"flush">>, <<"read timeout">>,
     <<"write", status>>, <<"sync">>, <<"read">>, <<"read timeout">>, <<"try read">>, <<"try read">>,
     <<"write", "CAN">>, <<"sync">>, <<"flush">>, <<"read timeout">>,
     <<"write", identity>>, <<"sync">>, <<"gets">> >>

Tune(b) == << <<"baud", b>>, <<"flow", "NONE">> >>

(* The query for the setting of the printer's interface.                   *)
Handshake_bug(m) ==
  LET Query(c) == << <<"flush">>, <<"read timeout">>, <<"write", c>>, <<"sync">>, <<"try read">> >> IN
  CASE aps_get_model_type(m) = "MRS" -> Query("MRS setting")
    [] aps_get_model_type(m) \in {"HRS", "KCP"} -> Query("HRS setting")
    [] OTHER -> <<>>

Handshake(m) ==
  LET Query(c, r) == << <<"flush">>, <<"read timeout">>, <<"write", c>>, <<"sync">>, <<r>> >> IN
  CASE aps_get_model_type(m) = "MRS" -> Query("MRS setting", "try read")
    [] aps_get_model_type(m) \in {"HRS", "KCP"} -> Query("HRS setting", "read")
    [] OTHER -> <<>>

(* What detect_serial_handshake makes of the answer (noise is any byte).   *)
FlowFrom(m, answer) ==
  IF aps_get_model_type(m) \in {"MRS", "HRS", "KCP"}
  THEN CASE answer = <<"sw">> -> {"XONXOFF"}
         [] answer = <<"hw">> -> {"RTSCTS"}
         [] answer = <<>> -> {"RTSCTS"}
         [] answer = <<"nul">> -> IF aps_get_model_type(m) = "MRS" THEN {"RTSCTS"} ELSE {"XONXOFF"}
         [] OTHER -> {"RTSCTS", "XONXOFF"}
  ELSE {"RTSCTS"}

SetFlow(m, f) ==
  (IF aps_get_model_type(m) = "MRS" THEN << <<"write", "CAN">> >> ELSE <<>>) \o << <<"flow", f>> >>

Script(w, p) ==
  LET t == Slots[p].type IN
  CASE w = "create" /\ t = "serial" ->
         << <<"create">>, <<"open">>, <<"baud", 0>>, <<"flow", "NONE">>, <<"write", "NUL">> >>
    [] w = "create" /\ t = "parallel" -> << <<"create">>, <<"mode">>, <<"open">>, <<"reset">> >>
    [] w = "create" /\ t = "usb" -> << <<"create">> >>
    [] w = "wake" -> IF t = "usb" /\ kind[p] # "free" THEN << <<"open">> >> ELSE <<>>
    [] w = "timeout" -> IF kind[p] # "free" THEN << <<"write timeout">> >> ELSE <<>>
    [] w = "release" -> IF kind[p] # "free"
                        THEN << <<"try flush">>, <<"try close">>, <<"try destroy">>, <<"free">> >>
                        ELSE <<>>

-----------------------------------------------------------------------------
(* The calls of a script.  No other port has the device when one is opened.*)
(* The one call of usb_list_ports is split over the ports it returns; that *)
(* there is none, or an error, does not stop detection.                    *)

Creates(p) ==
  CASE Slots[p].type = "serial"   -> aps_create_serial_port(p, Slots[p].device, "OK")
    [] Slots[p].type = "parallel" -> aps_create_parallel_port(p, Slots[p].device, "OK")
    [] Slots[p].type = "usb"      -> \E r \in ListResults : usb_list_ports(p, r)

Does(p, c, e) ==
  \/ c[1] = "create" /\ e = "OK" /\ Creates(p)
  \/ c[1] = "open" /\ Alone(p) /\ e \in OpenErrors /\ aps_open(p, e)
  \/ c[1] = "baud" /\ e \in SetErrors /\ aps_serial_set_baudrate(p, c[2], e)
  \/ c[1] = "flow" /\ e \in SetErrors /\ aps_serial_set_handshake(p, c[2], e)
  \/ c[1] = "mode" /\ e \in SetErrors /\ \E m \in {"POLL", "IRQ"} : aps_parallel_set_mode(p, m, e)
  \/ c[1] = "reset" /\ e \in SetErrors /\ aps_parallel_reset(p, e)
  \/ c[1] \in {"flush", "try flush"} /\ e \in DrainErrors /\ aps_flush(p, e)
  \/ c[1] = "sync" /\ e \in DrainErrors /\ aps_sync(p, e)
  \/ c[1] = "write" /\ e \in WriteErrors /\ aps_write(p, c[2], e)
  \/ c[1] \in {"read", "try read", "gets"} /\ e \in ReadErrors /\ aps_read(p, 1, e)
  \/ c[1] = "read timeout" /\ e \in SetErrors /\ aps_set_read_timeout(p, 1, e)
  \/ c[1] = "write timeout" /\ e \in SetErrors /\ aps_set_write_timeout(p, 1, e)
  \/ c[1] = "try close" /\ e \in CloseErrors /\ aps_close(p, e)
  \/ c[1] = "try destroy" /\ e \in CloseErrors /\ aps_destroy_port(p, e)
  \/ c[1] = "free" /\ e = "OK" /\ IF kind[p] = "destroyed" THEN Frees(p) ELSE UNCHANGED vars

Errors == OpenErrors \union CloseErrors \union WriteErrors \union ReadErrors \union DrainErrors
          \union SetErrors

Tried == {"try flush", "try close", "try destroy", "try read"}

(* aps_gets reads bytes until a zero or the end of the buffer.  Noise may  *)
(* be a zero.                                                              *)
Ending(b) == b \in {<<"nul">>, <<"noise">>}

Step ==
  /\ script # <<>>
  /\ \E e \in Errors :
       LET c == Head(script) IN
       /\ Does(cur, c, e)
       /\ text' = IF c[1] = "write" THEN <<>> ELSE text \o got'
       /\ ok' = (e = "OK" \/ c[1] \in Tried)
       /\ unflushed' = IF c[1] = "flush" /\ e # "OK" THEN unflushed \union {cur} ELSE unflushed
       /\ IF ~ok' THEN script' = <<>>
          ELSE \/ (c[1] = "gets" => Ending(got') \/ Len(text') >= MaxIdentity) /\ script' = Tail(script)
               \/ c[1] = "gets" /\ got' # <<"nul">> /\ Len(text') < MaxIdentity /\ script' = script
  /\ UNCHANGED <<stage, what, cur, baud, model, printers>>

-----------------------------------------------------------------------------
(* Which script is next.                                                   *)

Goto(w, s) ==
  /\ what' = w /\ script' = s /\ ok' = TRUE /\ text' = <<>>
  /\ UNCHANGED <<stage, cur>>

FirstPort(t) == CHOOSE p \in Ports : Slots[p].type = t /\ \A q \in 1 .. p - 1 : Slots[q].type # t

FollowingPart == [create |-> "wake", wake |-> "timeout", timeout |-> "release", release |-> "create"]
FollowingStage == [serial |-> "parallel", parallel |-> "usb", usb |-> "done"]

NextPort(w, n) ==
  LET more  == cur + 1 \in Ports /\ Slots[cur + 1].type = stage
               /\ (w = "timeout" => n < MaxPrinters)
      part  == IF more THEN w ELSE FollowingPart[w]
      group == IF ~more /\ w = "release" THEN FollowingStage[stage] ELSE stage
      port  == IF more THEN cur + 1 ELSE IF group = "done" THEN cur ELSE FirstPort(group)
  IN /\ stage' = group /\ cur' = port /\ ok' = TRUE /\ text' = <<>>
     /\ IF part = "timeout" /\ n >= MaxPrinters
        THEN what' = "release" /\ script' = Script("release", port)
        ELSE /\ what' = part
             /\ script' = IF group = "done" THEN <<>> ELSE Script(part, port)

Tunes(b) == baud' = b /\ Goto("tune", Tune(b)) /\ UNCHANGED <<model, printers>>

Queries(w) ==
  /\ Goto(w, IF w = "aps" THEN Model("status", "identity") ELSE Model("GS status", "GS identity"))
  /\ UNCHANGED <<baud, model, printers>>

Leave(w) == NextPort(w, Len(printers)) /\ UNCHANGED <<baud, model, printers>>

(* aps_get_port_uri returns a variable it never sets, so that a printer    *)
(* may be left out.                                                        *)
PortUri(p) ==
  IF Slots[p].type = "serial" THEN serial_get_uri(dev[p], baudrate[p], handshake[p])
  ELSE IF Slots[p].type = "parallel" THEN par_get_uri(dev[p], mode[p]) ELSE UsbUri

Report ==
  \/ /\ printers' = Append(printers, [port |-> cur, model |-> model', uri |-> PortUri(cur)])
     /\ NextPort("timeout", Len(printers) + 1)
  \/ UNCHANGED printers /\ NextPort("timeout", Len(printers))

(* detect_model has an identity: any string is one of some model.          *)
Recognise ==
  /\ model' = model_find_by_id(Head(text))[1]
  /\ UNCHANGED baud
  /\ IF stage = "serial" THEN Goto("handshake", Handshake(model')) /\ UNCHANGED printers
     ELSE Report

Decide ==
  /\ script = <<>> /\ stage # "done" /\ UNCHANGED <<vars, unflushed>>
  /\ \/ what \in {"create", "wake", "release"} /\ Leave(what)
     \/ what = "timeout" /\ (IF kind[cur] = "free" THEN Leave("timeout")
                             ELSE IF stage = "serial" THEN Tunes(MaxBaud) ELSE Queries("aps"))
     \/ what = "tune" /\ (IF ok THEN Queries("aps") ELSE Leave("timeout"))
     \/ what = "aps" /\ (IF ok THEN Recognise ELSE Queries("escpos"))
     \/ what = "escpos" /\ (IF ok THEN Recognise
                            ELSE IF stage = "serial" /\ baud > 0 THEN Tunes(baud - 1)
                            ELSE Leave("timeout"))
     \/ what = "handshake" /\ (IF ok THEN /\ \E f \in FlowFrom(model, text) : Goto("set", SetFlow(model, f))
                                          /\ UNCHANGED <<baud, model, printers>>
                               ELSE Leave("timeout"))
     \/ what = "set" /\ (IF ok THEN UNCHANGED <<baud, model>> /\ Report ELSE Leave("timeout"))

-----------------------------------------------------------------------------
DetectInit ==
  /\ Init
  /\ stage = "serial" /\ what = "create" /\ cur = FirstPort("serial")
  /\ script = Script("create", cur) /\ ok = TRUE /\ baud = MaxBaud
  /\ text = <<>> /\ model = "UNKNOWN" /\ printers = <<>> /\ unflushed = {}

DetectNext == Step \/ Decide \/ (Environment /\ UNCHANGED detectVars)

DetectSpec == DetectInit /\ [][DetectNext]_<<vars, detectVars>>

-----------------------------------------------------------------------------
(* A printer that detection reports is there: the model is its own, or not *)
(* known, and the URI, split again, names its port.  On a serial line the  *)
(* speed is the printer's when the model is known, whatever late answers   *)
(* and garbage of other speeds were read on the way (detect_model,         *)
(* serial_get_uri, uri_split).                                             *)
DetectedRight ==
  \A i \in 1 .. Len(printers) :
    LET r  == printers[i]
        su == uri_split(r.uri)
        d  == Slots[r.port].device
        x  == printer[d]
    IN /\ Slots[r.port].type # "usb" => uri_get_device(su) = d
       /\ uri_get_opt(su, "type") = Slots[r.port].type
       /\ r.model # "UNKNOWN" => r.model = OwnRow(x.id)[1]
       /\ r.model # "UNKNOWN" /\ d \in SerialDevices =>
            string_to_baudrate(uri_get_opt(su, "baudrate")) = {x.speed}

(* The handshake of printer r of the array is the one it is set to, if its *)
(* model can tell (detect_serial_handshake).                               *)
HandshakeRight(r) ==
  LET d == Slots[r.port].device
      x == printer[d]
  IN r.model # "UNKNOWN" /\ d \in SerialDevices /\ TypeOf(x.id) \in {"HRS", "KCP"} =>
       string_to_handshake(uri_get_opt(uri_split(r.uri), "handshake")) = {x.flow}

(* The handshake of a reported printer is right unless a flush of its line *)
(* has failed: a query for the identity left over from one rate may then   *)
(* be answered at the next, and the answers to the queries that follow are *)
(* each taken for the one after (detect_model, detect_serial_handshake).   *)
HandshakeAfterFlush ==
  \A i \in 1 .. Len(printers) : printers[i].port \notin unflushed => HandshakeRight(printers[i])

=============================================================================
