# A verification project for the APS printer driver

TLA+ models of the APS thermal printer driver for CUPS (libaps, the backend
`aps`, the filters `rastertoaps` and `texttoaps`), TLC runs that check them on
small instances, and TLAPS proofs of the properties that matter most for every
value of the constants.  Paths below are relative to the repository
(`src/cups/aps.c` is `src/src/cups/aps.c` in `PROJECT.json`).

## 1. The system

CUPS runs a filter and a backend for each job, connected by a pipe:

    raster or text --> rastertoaps / texttoaps --pipe--> aps --libaps--> printer

The filter turns pages into printer commands.  In raster jobs every command is
preceded by its size (`ticket.c`, `write_command`); a text job starts with size
-1 and continues as raw bytes.  The backend reads the job, drives the printer
through the port functions of libaps and reports the printer's state.  libaps
has one port class (`aps/aps.c`) with four transports behind it.

| Component | State it keeps | Operations | Hard because |
|---|---|---|---|
| backend `cups/aps.c` | state function it is in, `errnum`, `printer_ready`, `cancel_flag`, port, saved serial settings | setup, wait, print, wait, flush USB, finish, recover, SIGTERM | real-time queries overtake data, timeouts race late answers, host and printer change speed together, cancel anywhere |
| raster filter `cups/rastertoaps.c`, `ticket.c` | `blank_counter`, `shift_amount`, `dotlines_counter`, `rmtop_once`, `y` | read page, count/print blank lines, shift, print, cut, cancel | deferred work (blank lines, shifts) carried across batches, pages and the end of the job |
| text filter `cups/texttoaps.c`, `text.c`, `aps_fnt.c`, `utf8.c` | `state`, tag and QR buffers, the line of dots and `pix_pos` | copy, collect a tag, collect a QR code, draw, new line, cancel | many ways out of each state, buffers at their limits |
| port class `aps/aps.c` | port kind, open flag, timeouts, last error | create, open, close, destroy, write, write_rt, read, sync, flush, settings | a port half open or half closed after an error |
| serial `aps/serial.c` | fd, termios, baud rate and handshake in the port structure | the same, plus baud rate and handshake | flush drops data; structure and line may disagree after an error; alarm before `tcdrain` |
| parallel `aps/parallel.c` | fd, mode, `irq_left`, `par_timeout` | byte handshake both ways, interrupt-driven write, nInit reset | handshake with a busy printer, interrupt count, lost alarm |
| USB `aps/usb.c` | libusb handle, interface claim, detached kernel driver, read buffer; list of devices shared by all ports | search, open, close, kill, control, bulk | several resources per port, globals, and many error paths |
| Ethernet `aps/ethernet.c` | socket | connect, read, write | asynchronous connect, closed connection |
| URI, models, commands, options, compressor | none | pure functions | parsing and boundaries; rows of which one begins with another |
| detection `aps/detect.c` | the ports under test, the array of printers | create, wake, query, release every port | late and garbled answers at the wrong speed, errors in any call |
| `getstatus`, `testaps`, `testdetect`, `sample/` | none | straight-line programs | - |

Interactions: filter to backend through the pipe (its end is the end of the
job); backend to transport by calls that block, time out and are interrupted by
signals; transport to printer by a line with buffers at both ends; the printer's
answers come back as bytes with no framing.  CUPS sends SIGTERM to the filter
and to the backend when a job is cancelled.

What makes each correct:

* backend: no block of a job is dropped or repeated; both sides of a serial line
  always use the same setting and return to the default; printing starts only
  on a status that is an answer to the query; the port is used only while open;
  the process ends;
* raster filter: the paper is the page, line for line, at its place; a maximum
  ticket length is kept; a cancelled filter stops soon and leaves the printer
  as it found it;
* transports: every byte once and in order, or an error; a failure leaves the
  port in a state that close accepts;
* port class: an open port has its own descriptor on its own device, nothing is
  left open without a port, the settings of a line are those of the structure,
  and reading gives the printer's bytes as a stream;
* detection: it reports printers that are there, with the right model and
  settings, and uses the port class as it wants to be used;
* text filter: every character comes out once, replaced by what it stands for,
  and no buffer is written outside its bounds.

The hazards of the code, each at its line with the properties that cover it,
are in `PROJECT.json`.

## 2. Modules

| Module | Models |
|---|---|
| `ApsBackend` | `cups/aps.c`, with the calls of libaps it makes; the filter, the line and the printer as its environment |
| `ApsBackendProofs` | theorems about `ApsBackend` |
| `PrintedPage` | abstract: what a raster filter promises about the paper |
| `RasterToAps` | `cups/rastertoaps.c` and `cups/ticket.c` |
| `MCRasterToAps` | `RasterToAps` with the option value "Unlimited" (-1), which a .cfg cannot write |
| `RasterToApsProofs` | theorems about `RasterToAps`, among them that it implements `PrintedPage` |
| `ParallelPort` | `aps/parallel.c` from the port signals up: both byte handshakes, interrupt mode, timer, sync, flush, reset |
| `ParallelPortProofs` | theorems about `ParallelPort` |
| `PortContract` | abstract: what libaps promises about the bytes from a printer |
| `PortTable` | port structures, descriptors of the process, queues, printers |
| `SerialPort`, `EthernetPort`, `UsbPort` | `aps/serial.c`, `aps/ethernet.c`, `aps/usb.c`, call by call |
| `Uri`, `Models` | `aps/uri.c` and `aps/models.c` as operators |
| `LibAps` | `aps/aps.c` over the four transports (the parallel one seen from outside), and a client that may make any call |
| `Detect` | `aps/detect.c`, a client of `LibAps` |
| `MCLibAps` | four clients of `LibAps` for TLC |
| `LibApsProofs`, `LibApsContractProofs`, `DetectProofs` | theorems about `LibAps`, that it implements `PortContract`, and about `Detect` |
| `TextToAps`, `TextToApsProofs` | `cups/texttoaps.c` with `text.c`, `aps_fnt.c`, `utf8.c`; theorems about its buffers and its output |
| `Flattening` | lemmas: induction over numbers and sequences, and the `FlattenSeq` of the community modules, by which properties gather parts of sequences |

Operators whose name ends in `_bug` are deliberate faults.  No specification
uses them; substituted for the operator of the same name they show that a
property notices a plausible error in the code.

### 2.1 ApsBackend

`phase` is the state function `main()` is in and `pc` the next library call in
it.  A library call is one step, or two where it waits for the line inside
(`aps_sync` and the sync inside `aps_write_rt`).  Between two steps the printer,
the filter, the clock and SIGTERM may act.

| Code | Model |
|---|---|
| `main`: create, open, chain of states, recovery, close, destroy | `Open`, `Following`/`Succeed`, `Fail`, `ResetClose`, `Close`, `Destroy`, `Quit` (`error()`) |
| `setup_printer`, `setup_defaults` | `Configure`, `ConfigureSync`, `SetHost` with `Target` |
| `poll_status` and its three helpers | `PollSerial`, `PollSync`, `PollOther`, `PollUsb`, `PollRead`, `NeopWrite`, `NeopRead` |
| `aps_decode_status` | `Decoded`: right for a whole answer, "not ready" if a NEOP byte is in the first place (bit 5, on line, is 0 in both its values), anything for other misplaced bytes |
| `state_wait` | the polls, `Wait`, `DeadlinePasses` |
| `state_print`, `write_raw` | `FirstHeader`, `ReadBlock`, `NextHeader`, `RawRead`, `WriteBlocks`, `PrintSync` |
| `state_wait_usb` | `WaitUsbQuery`, `WaitUsbAnswer` |
| `state_finish` | a poll, then `Configure` and what follows it |
| `reset_printer` | `ResetSerial`, `ResetSync`, `ResetOther`, `ResetClose` |
| `cancel_handler` and EINTR | `Sigterm`, `InterruptPipe`, `InterruptPort` |
| `tcflush` in `serial_write_rt` | `Flush`: both directions are dropped, `lost` remembers the blocks |

Data: a block of the job is its number; a status answer is `StatusLen` bytes
that know their position and whether the printer was ready; a serial setting is
`default` or `printing`.  `lost`, `genuine` and `tainted` are history variables:
the blocks dropped, whether the last decoded bytes were one status answer, and
whether an earlier job failed (its printer may have been left at any setting).

External, modelled from how `aps.c` uses it: the printer takes commands in
order, answers a real-time query at any time and the others in their turn, stops
printing without paper, and forgets everything on a reset.  Further assumptions:

* the printer applies a serial setting when it receives the command and drops
  what arrives at another setting; a reset restores the default setting;
* an answer is put on the line in one piece (a read gets all of it or times
  out with the bytes of other answers);
* a real-time query is taken even if the printer's data buffer is full;
* the filter writes a block in one piece: a dotline with its size is far
  smaller than the atomic size of a pipe.  `ReadBlock` may still fail (a short
  read, no memory for the buffer);
* at most one SIGTERM per job; a command builder does not fail for the printer's
  own model type;
* the errors `main()` does not tell apart are one value, `IO_ERROR`, and any
  call may fail with it.

### 2.2 RasterToAps and PrintedPage

A dotline is the number of its leading blank bytes (`Width` if it is blank),
because that is all the filter looks at.  The paper, `image`, gets a line at the
position the printer's last shift command set plus the blank bytes that were
sent with it; `rows` is the history of dotlines taken from the input.  The two
loops of `process_page` (batches of ten, then single dotlines) are `ReadSize`;
`print_blank` is a loop of `PrintBlank` steps, so that a cancel can come between.

`PrintedPage` states the promise without counters, shifts or cuts: the paper
follows the input line by line and lags behind only by blank lines.
`RasterToAps` implements it (`PageSpec`) with the identity as refinement mapping
when `rmtop` is off.  With `rmtop` on, blank lines are dropped or moved by
design, and `DarkInOrder` is what remains.

### 2.3 ParallelPort

A client calls `par_write`, `par_read`, `par_sync`, `par_flush`, `par_reset` and
`par_set_mode` in any order.  Each ioctl is a step, named by `pc`; the printer,
SIGALRM and SIGTERM act between two of them.

| Code | Model |
|---|---|
| `par_write_byte` | `WaitReady`, `WriteData`, `AssertStrobe`, `WaitTaken`, `ReleaseStrobe`, `WaitDone` |
| `par_read_byte` | `WaitIdle`, `AskByte`, `WaitAnswer`, `ReadData`, `DropAsk`, `Confirm`, `WaitEnd`, `NextAnswer` |
| a wait loop: status, then in the loop status and `par_timeout` | `Await`, with `again` for "in the loop" |
| `par_wait_irq` | `EnterSelect`, `CountIrq`, `SelectFails` |
| interrupt mode of `par_write` | `WaitIrq`, `KernelWrite`, `KernelWriteLate`, `KernelWriteFails` |
| `par_sync`, `par_clear_irq` | `SyncWaits`, `SyncEnds`, `ClearIrq` |
| `par_control_idle` and the end of a failed call | `Recover`, `AfterRecovery`, `TurnOut` |
| `par_reset` | `IdleSignals`, `AssertInit`, `ReleaseInit` |
| any ioctl that fails | `FaultInByte`, `FaultInCall`, `FaultInRestore` |

Bytes are numbers, so that a lost or repeated one shows.  External: the printer
(takes a byte when it notices STROBE, stays BUSY until it has pulsed ACK, offers
a byte on AUTOFEED until STROBE confirms it; any speed, or never) and the ppdev
driver.  In interrupt mode the driver hands the bytes over itself and only the
count of their interrupts is modelled.  The kernel may count other ACK pulses
too (the code gives no hint whether it does): those of bytes read or written in
polling mode, of bytes whose count was given up, strays.  `foreign` is a history
variable with the number of such interrupts that are, or may come to be, in the
count; `par_wait_irq` clamps its counter at zero, which takes them out again
(`Forgiven`).

A printer that was left in the middle of a byte may pulse ACK late, and
`par_read_byte` then takes that for an answer.  `WrittenOnce`, `ReadOnce` and
`OneDriver` therefore speak of the time until a call fails (that call included)
and from the next `par_reset` on (`clean`), `Quiescent` of every end of a call.

### 2.4 LibAps and its transports

Three views of a port are modelled.  `ApsBackend` has the calls of one job in
time, with the line between host and printer; `ParallelPort` has the signals of
one transport; `LibAps` has all ports, calls and errors of the class, each call
one action with its return value `e`.  A call that waits is taken when it can
return.

| Code | Model |
|---|---|
| `aps_port_t`, descriptors | `PortTable`: `kind`, `dev`, `is_open`, `handle`, timeouts; `files` is the kernel's table |
| function pointers of the class | `open_`, `close`, `write`, ... choose by `kind` |
| `build_port`, the creation functions, `aps_create_port` with `uri_split` | `Builds`, `aps_create_*`, `serial_create_from_uri`, `par_create_from_uri`, `usb_create_from_uri` |
| `aps_open`, `aps_close`, `aps_destroy_port` | the same names; `Shuts` is the call of close they share; `destroyed` is the moment before `free()` |
| `aps_write`, `aps_write_rt`, `aps_read`, `aps_sync`, `aps_flush`, `aps_gets` | the same names; `aps_gets` is a sequence of reads of one byte |
| `serial_set_handshake`, `serial_write_rt` | `flow` is the line, `handshake` the structure, `asked` what the client asked for last |
| `usb.c`: context, list of devices, kernel driver, claim, read buffer | `libusb_ctx`, `devs`/`devcnt`/`listed`, `driver`, `claim`, `read_buf` |
| the ways out of `usb.c` that free the list | `DropList` (freed and forgotten), `LeaveFreed` (a descriptor that cannot be read: freed, but still set), `ForgetList` (`usb_list_ports`, which forgets the context too) |
| `pdev` of a port | `null`, `dev`, or `freed` once the list it points into is gone (`Dangles`) |

History variables: `orphans` are descriptors a failed open has left, `misclosed`
ports whose `close()` failed after Linux had released the descriptor, `loose`
ports on which `serial_write_rt` failed with the handshake off, `abandoned` USB
devices whose driver an error, `aps_usb_kill` or unplugging kept from coming
back.  The properties except the first two and the last; for a line that is
`loose`, `SettingsKept` says what it has: no handshake.

Reading freed memory is undefined: from `LeaveFreed` on, a search of the list may
end with any error, and creating a port with any device, found or not, and
`usb_get_uri` of a port whose device was freed may succeed or not.  That such a
program goes on at all is an assumption; that it is told from one that is right
is why `devs` and `pdev` have the value `freed`.  `libusb_exit(NULL)` also ends
the context under the handles that other ports hold: the model lets their
transfers fail at any time, and assumes that they do not crash.
`usb_create_from_uri` overwrites what the URI names with vendor 6868 and product
12 (`usb.c:343`), so that only those devices are found: `Pid12` is the set of
them among the devices with a vendor of APS.

The client may make any call on any port in any order, with two rules: a device
other than USB is opened through one port at a time (`Alone`; libusb sees to it
for USB, and no program of the repository opens a device twice), and a port
whose close failed is used again only while its descriptor number is not in use
(`InUse`; `aps_destroy_port` after a failed `aps_close` is such a use).

`PortContract` states the promise without descriptors, buffers or transports: a
port is none, closed or open; an open one has a stream of bytes; reading takes
the front, bytes arrive at the end, a call that fails, flushes or resets drops a
front or an end, and no call disturbs another port.  The refinement mapping
takes the stream to be the read buffer of the port (USB) followed by what the
device holds (`Stream`).

External, from how the code uses them: the kernel (lowest free descriptor,
terminal and socket queues, ppdev), libusb (a list is a snapshot; one claim per
interface; reading a descriptor may fail), and printers, which answer a query after any time, in order, and garbage or
nothing at the wrong speed; a call that fails may have delivered its command.  Further assumptions: memory does not run out,
`fcntl` does not fail, there are no empty IN packets, SIGPIPE on a closed socket
is left out, the setters get legal arguments (timeouts and parallel modes
excepted), device names fit their fields in detection.

### 2.5 Detect, Models and Uri

`detect.c` is a tree of sequences of calls of which the first error ends each.
A sequence is a *script*: `Step` makes its first call on the port `cur`, and
when it is over `Decide` chooses the next one, as the callers of the sequence
do.  `stage` and `what` are where the program is, `text` is what was read since
the last write.  `unflushed` is a history variable: the ports on which the flush
before a query has failed.  The assumptions on the constants are facts of the
code and of its tables: each transport has a first port, no device has the name
of the delimiter of a URI, the identities fit the buffer with the zero behind
them, and the commands of the two tables are commands.

| Code | Model |
|---|---|
| `detect_model` for APS and ESC/POS printers | `Model("status", "identity")`, `Model("GS status", "GS identity")`, `Recognise` |
| `detect_serial_handshake` | `Handshake`, `FlowFrom`, `SetFlow` |
| the loop over baud rates of `detect_serial` | `Tune`, `Tunes` |
| `detect_serial`, `detect_parallel`, `detect_usb`: create, wake, query, release | `Script`, `NextPort` |
| `aps_detect_printers` | the stages; `printers` is the caller's array |
| `aps_get_port_uri` | `PortUri` through `serial_get_uri` and `par_get_uri`; it returns a variable it never sets, so `Report` may leave a printer out |
| `model_find_by_id`, a comparison of prefixes | `Begins` says which identity begins with which other |

Bytes of an answer are told by kind; "noise" may be any byte.  What a printer
answers to which command, at its own speed and at another, is `Answers` of
`PortTable`.  An identity that was cut off is found in no row but the last.  A URI is the sequence of its words
(`uri_split` splits at the code's delimiters and limits `OPTS_MAX`, `URI_MAX`).

### 2.6 TextToAps

A character of the text is one step: `utf8_get_code`, the look at `cancel_flag`
and the case of the switch.  `state` is the variable of that name, with the five
states of the header of a QR code as `HEADER` and a count.  A character drawn
with the font goes to `line` and leaves it with `do_new_line`; everything else
goes to `out` directly.  That a NULL bitmap makes a new line is left out: a font
file that loads has none.

`TextKept` compares the output with a definition over the whole input that does
not know the filter's states: the text falls into units (a character, a tag, an
escape sequence), the end of each is found by looking ahead, and each unit
stands for something.  What the filter loses by its design is therefore stated
openly in `Meaning` and `UnitEnd`: the part of a tag before a second `<`, the
character that overflows the tag buffer, an escape sequence that is no QR code,
and a unit that the end of the text cuts off.

## 3. Runs

| Run | Instance | Shows |
|---|---|---|
| `serial` | two jobs of 2 blocks, 3-byte status, timeout on | type, `NothingLost`, `Delivered`, `WholeJob`, `SettingsAgree`, `SettingsRestored`, `PortLifecycle`; the second job starts with the first one's messages still in flight |
| `parallel` | one job of 2 blocks, polling mode, 1-byte status, NEOP query and timeout on; nothing assumed of the printer | `PrintsOnlyWhenReady`, `Terminates` |
| `usb` | raw job, 3-byte status, no NEOP query, no timeout; the printer works | `BuffersEmpty`, `WholeJob`, `Terminates` |
| `usb_neop` | the USB job with the NEOP query | disagreement, section 5 |
| `shifted` | Ethernet, one job, 3-byte status, NEOP query on | disagreement, section 5 |
| `raster` | 2 pages of 0 or 3 lines of 2 bytes, batches of 2, limit 2 | all properties of `RasterToAps` without rmtop, refinement of `PrintedPage` |
| `raster_ticket` | ticket mode, rmtop, unlimited, no shift command | `DarkInOrder`, `EndOfJob` |
| `parallel_port` | calls with three bytes together | `TypeOK`, `WrittenOnce`, `ReadOnce`, `Quiescent`, `OneDriver`, `Synchronised`, `CallReturns` |
| `parallel_alarm` | two bytes | disagreement, section 5 |
| `libaps` | one device of each transport, three ports, four clients; printers of five kinds | `TypeOK`, `HandlesAccounted`, `SettingsKept`, `DriverBack`, `DetectedRight`, `HandshakeAfterFlush`, refinement of `PortContract` (`Contract`) |
| `text` | six characters, tags of two, QR header of one digit, two characters on a line | `TextKept`, `BuffersSafe` |
| `text_comments` | four characters of the same | three disagreements, section 5 |

Bounds of `ApsBackend`: two blocks are the fewest for which one can be lost,
repeated or overtaken while another is not; buffers of two messages let a query
stand behind a block and be full; `InputCap` lets a stale byte or half an answer
precede the right one; the pipe holds one
block, so that the backend waits for the filter and the filter for it; the
printer runs out of paper once (`MaxStops`; the parallel one may only start
without paper).  Ethernet has no passing run: the theorems of section 4 hold
for it too (`PortType`).

`PrintsOnlyWhenReady` holds or not by the length of a status answer and the NEOP
query.  With answers of one byte (MRS, HRS) it holds whatever is late, because no
byte of the sensor decodes as ready, and without the query and the flush of the
serial port no answer gets out of step; both are theorems (`PrintsWhenTold`), the
first with the run `parallel`.  With longer answers and the query it is violated:
`shifted` shows it on an Ethernet port with answers of three bytes, in one job.
On a serial port TLC finds it violated as well, with answers of three bytes in a
job that follows a failed one (27 states: the flush of a poll has cut the answer
to its last query), and with answers of two bytes, which no printer of
`command.c` has, in the first job (37 states: two late bytes of the sensor).  In
one serial job with three bytes it is not violated within these bounds.  Bounds of `RasterToAps`: pages of three lines in
batches of two use both loops; two pages carry blank lines, shifts and
`rmtop_once` from one to the next; with a limit of two every line position can
be the one that is cut.  Bounds of `ParallelPort`: a call of n bytes counts as
n calls, so that three allow two bytes in one call (the loop), and a failed
call, a reset and a call after it.

Bounds of `LibAps` and `Detect`: every call at every moment on three ports is
more than TLC can visit, so that four clients share the calls.  `opens` opens,
closes, destroys and kills ports of all transports, two on the same USB device;
`data` moves bytes through one port of any transport, with timeouts, lost
connections and an unplugged device; `settings` makes the calls that change the
structure or the line, with every URI; `detect` runs `Detect` on a serial, a
parallel and a USB slot against printers of five kinds (one whose identity
begins with that of another model, one that speaks ESC/POS, one that answers in
three bytes, one that is found at the second speed and tells its handshake,
none).  The theorems have no such split.  One failed open may leave
a descriptor behind (`MaxOrphans`), of descriptors 3 and 4, so that the next
port meets a number that is taken; three bytes wait or are owed (`MaxPending`),
the length of the longest status; two speeds (`MaxBaud`) make a right and a
wrong one; an array of one printer (`MaxPrinters`) is full at once, and an
identity of three bytes (`MaxIdentity`) can be cut off.  Bounds of `TextToAps`:
six characters hold a tag that overflows with one character behind it, nested
tags, and a QR code whose buffer has to grow; a line of two characters is full
before its text is over.

Fairness.  `HostSpec`: the process makes its next step whenever it can and is not
`Blocked`, `time()` passes the deadline, and the filter goes on writing or ends.
`FairSpec` adds that the line transmits, the printer serves each of its queues,
and paper is loaded again.  Nothing is assumed of SIGTERM, of the paper running
out, or of which of its outcomes a call has.

A call that is `Blocked` may stay so for ever, and then it does not fail either:
a write of `state_print` without a timeout (`prtimeout` 0) while the printer has
no room; `tcdrain()` after the one alarm of `serial_sync` was lost; every call of
a parallel port in interrupt mode (`IrqMode`), where `parallel_alarm` shows that
`select()` may have lost its alarm; a read of a serial line or a socket that was
hung up, whose loop takes 0 bytes for progress.  Other calls end: `select()` has
a timeout, and in polling mode the wait loops look at the timer (`CallReturns`
of `ParallelPort`).  A call that is no longer blocked goes on, because the
printer has taken data or the line is drained.

`state_wait` has no other limit than the printer when `prtimeout` is 0, so that
`Terminates` is checked with a timeout under `HostSpec` (the parallel backend of
the run `parallel`, in polling mode) and without one under `FairSpec` (that of `usb`,
whose write waits until the printer has printed and makes room).  It does not
hold for a serial port or for interrupt mode, and is not claimed: the lost
alarms are in the code.  In `ParallelPort` the process runs whenever it can and a
running timer goes off; nothing is assumed of the printer, and no ioctl has to
fail.

Deadlock is checked in every run of `ApsBackend` and `RasterToAps`: the only
state without a step but stuttering is the end of the last job (`Terminated`).
It is not checked for `libaps`, where a client may stop, nor for
`ParallelPort`, where a client may stop calling and a
`select()` without a timeout may wait for an interrupt that never comes (after
`par_reset`, for instance, which does not clear `irq_left`).

## 4. Proofs

All theorems hold for every value of the constants under the `ASSUME` of the
module, and need no bound, but for the options that two theorems of
`ApsBackendProofs` name.

`ApsBackendProofs`.  None of the properties is inductive by itself.  The
invariant is

    IInv == ControlInv /\ ProcessType /\ BlockInv /\ LineType /\ PortInv
            /\ WholeInv /\ SettingInv /\ LossInv

* `ControlInv`: `pc` is a call of the state function `phase` (a table,
  `CallsOf`), and `errnum` matches the phase;
* `ProcessType`, `BlockInv`, `LineType`: the types, with `sent <= got <= fpos`
  and the guard of each read of the pipe (a block is read only where one is
  known to be there);
* `PortInv`: `port` as a function of `pc`;
* `WholeInv`: where the collection of blocks stopped without a cancel, the
  filter had closed the pipe;
* `SettingInv`: where host and printer stand between the command that changes
  the printer's setting and the call that changes the host's, including the
  fact that no other setting command is in the kernel's buffer;
* `LossInv`: from the end of `state_print` on, no block is in the kernel's
  buffer, so that the flush of the next poll drops none.

There is one lemma per conjunct, with one step per action, and six theorems:
`TypeCorrect`, `PortUsedOpen`, `JobSentWhole`, `SettingsInForce`,
`DefaultsRestored`, `NoBlockLost`.

`BlocksDelivered` follows the blocks of a first job.  Printed ones, those in the
printer and those in the kernel's buffer are at every moment the sequence
1 .. `sent` (`StreamInv`): a call puts a block behind all others, the line and
the printer only move one from a queue to the next, and an answer or a command
changes nothing.  The flushes are the hard steps; `LossInv` says that no block
is in the buffer they empty, and `~tainted` that no earlier job has left the
printer at its own setting.

Two theorems name options or bounds and add to the same invariant.
`PrintsWhenTold`:
`state_print` runs only after a status answer that said ready.  With answers of
one byte a byte of another kind never decodes as ready; with longer ones, the
bytes that wait are whole answers (`Whole`: a table of rows of `StatusLen`
bytes), as long as no NEOP answer shifts them.  The hypothesis is needed: for an
Ethernet port with 3-byte answers and the sensor on, TLC finds a printer taken
for ready from a shifted answer (`shifted`).  `UsbBuffersEmpty`: the data pipe carries
blocks, then the query of `state_wait_usb`, then nothing (`UsbInv`); it needs a
first job (`MaxJobs = 1`) without the sensor, since an answer left over by a
failed job is taken for the one to the query.

`RasterToApsProofs`.  The invariant ties the program counter to what the paper
still lacks: `rows` is `image` followed by exactly `blank_counter` blank lines,
minus those `print_blank` has already printed (`n`), and the printer's shift is
`shift_amount` unless that is still -1.  From it follow `LinesInOrder`,
`JobComplete`, `ShiftReset`, `TicketBounded`, `CancelBounded`, and
`Implements`: every step is a `Take`, `Copy` or `CatchUp` of `PrintedPage` or
leaves the page alone.  `DarkLinesInOrder` holds with `rmtop` too, where the
number of lines no longer agrees: the dark lines of `rows` and of `image` are the
same sequence, because the lines that are counted, printed late or dropped are
the blank ones.

`ParallelPortProofs`.  The invariant has a part for each partner:

* `CallInv`: which call is running at which step, and where bytes are left;
* `SignalInv`: at which steps a control signal is asserted, the data lines are
  turned around or the timer runs;
* `SyncInv`: `unacked + irqc <= irq_left + foreign`;
* `ResetInv`: a printer under INIT holds nothing and does nothing;
* `PrinterInv`: only between STROBE or AUTOFEED and the wait at the end of a
  byte does the printer hold or offer one, and what ACK means there;
* `TakenInv`: the byte in hand is larger than all bytes taken until it is taken;
* `GivenInv`: the bytes confirmed are those read, but for the one in hand.

The three last ones hold only while `Orderly`; `ResetInv` is what makes them
true again after a reset.  Theorems: `TypeCorrect`, `BytesWrittenOnce`,
`BytesReadOnce`, `SignalsReleased`, `DataLinesShared`, `SyncComplete`.

`LibApsProofs`.  The lemma the rest leans on, `HandleStep`, sorts every step by
what it does to descriptors: nothing, a port built, opened, closed or retired, a
descriptor leaked by a failed open or lost by a failed close, a structure
freed.  `BusStep` does the same for kernel drivers and claims, `LineStep` for
the settings of a serial line.  The invariant `IInv` has a part for each: types,
open ports and their descriptors, the line, the driver.
The strengthenings are `PortInv` (a misclosed port is still open, and not USB),
`AloneInv` (only USB devices are open in two ports at once), `OrphanInv` (a
descriptor left behind stays open), `DriverInv` (an open USB port that holds the
claim remembers the kernel driver it found) and `AskedInv` (the handshake in
force is the one asked for).  Theorems: `TypesHold`, `NoHandleLost`,
`LineHasSettings`, `DriverReturns`.

`LibApsContractProofs` shows `Spec => Contract`.  Two facts make the mapping
work: only USB ports have buffered bytes (`BufferInv`), and no two ports read
the same device (`StreamsOnce`, from the descriptors of `LibApsProofs` and the
claims of libusb), so that a call on one port moves no other stream.  Then every
call opens, closes, or moves one stream in one of the ways the contract allows.

`DetectProofs` shows that detection keeps to the rules of the client
(`DetectionIsClient`): a script is a sequence of legal calls, and only `free`
follows a destruction (`ScriptInv`).  The guarantees of the class hold in it
therefore (`DetectionInherits`), for any slots, printers and sizes.
`ArrayIsEnough` is its own: the array of the caller is not overrun (`RoomInv`).

`PrintersAreThere` is `DetectedRight`.  Its invariant, `DetectInv`, says

* where detection is (`StageInv`, `PlaceInv`: a script is the rest of the one
  that `what` names) and that the port of a slot has the slot's device
  (`DevInv`);
* that all bytes on the way to the host from a device are its own printer's or
  noise (`OwnInv`), and so is `text` (`TextInv`).  `CallMoves` says what each
  call may do to the three queues of a device, for every transport: nothing, drop
  some, take the first byte, put a command, send one;
* that an identity can have been read only at the printer's own speed
  (`SpeedInv`: after the first flush of `detect_model` a line of the wrong speed
  holds no byte of an identity) and what the model that is recognised is worth
  (`ModelInv`).

The rest is pure: `model_find_by_id` finds the row of a model's own identity,
among rows of which some begin with others, and `uri_split` takes a URI of
`serial_get_uri` or `par_get_uri` apart into what it was made of.

`HandshakesAreRight` is `HandshakeAfterFlush`: the flow control in the URI of a
printer that tells it is the printer's, unless a flush of its line has failed.
The handshake is one byte with no sign of what it answers, so the proof has to
know every byte that can be on the line when it is asked for:

* a printer answers in order, and after an identity and its zero it has nothing
  more to say (`Ordered`, `Told`): what was read, what can be read and what is
  still to come stand in one row, and once an identity with its zero has been
  read, the row has ended (`AllRead`);
* a line not probed yet was sent zeros only, and holds noise at most
  (`PartInv`, `FreshInv`);
* `QueryInv`: above the printer's speed the query for its identity is dropped by
  the flush that follows, before the speed can become right; at the printer's
  speed it is written once (`Early` before, `Told` after);
* `BaudInv`: the speed that is tried is the one in force, so that "right speed"
  is a comparison of `baud` with the printer's;
* `FlowInv`: the query for the handshake meets an empty line, `text` is its
  answer, and what is set is the printer's flow control.

`HandshakeAfterFlush` is not inductive without these, and without its hypothesis
it is false (section 5).

`TextToApsProofs`: `BuffersHold`.  The invariant adds that the QR buffer in use
has a positive size, so that doubling makes room.  `TextIsKept` is about the
whole input: `TextKept` cuts it into units by reference definitions that look
ahead (a tag ends at the next ">", at the next "<" or where it is too long),
while the filter sees one character at a time.  The invariant that joins them is

    Kept == KeptTypes /\ Parsed /\ OutputKept

* `Parsed`: either the filter is idle and all units are complete (`Whole`), or
  the last one is not (`OpenAt`), and `state`, `tag_buf` and `digits` say what
  has been read of it (`Unfinished`: the buffer holds the characters between its
  start and the end of the input);
* `OutputKept`: the bytes and lines put out are those of the complete units; the
  line being drawn is what fits of the text behind the last line feed, and
  `pix_pos` is its width in dots, or the line is full (`Drawing`).

One lemma says what a further character does to each reference definition: the
units that were complete stay so and stand for the same (`UnitEndKept`,
`MeaningKept`), and the last one goes on, ends with the character, or ends before
it, which is the way of a "<" inside a tag (`OpenMore`).  Then there is one step
per way through the handlers.  `KeptInv` asks for it only while memory lasts
(`nomem`).

`Flattening`.  `Delivered`, `DarkInOrder` and `TextKept` gather parts of
sequences with `FlattenSeq`, which is defined by a recursive function.  The
library's induction theorems take an operator as parameter, which the provers
cannot instantiate; but its theorem that `<` is well-founded on `Nat` is about
sets, and gives an induction over numbers and over sequences with a set in the
place of the operator (`NumberInduction`, `SequenceInduction`).  From it follow
that the recursive function exists and is unique, and what `FlattenSeq` is of an
empty sequence, of a longer one and of two sequences one behind the other.

Only model-checked: liveness (`Terminates`, `CallReturns`): fairness and ENABLED
are out of reach of the prover.  Every other property that a passing run checks
is also stated by a theorem; `UsbBuffersEmpty` is the one of `BuffersEmpty`.

## 5. Where the code and its documentation disagree

Runs that TLC must find violated.

* `usb_neop`: `state_wait_usb` says "communication buffers are empty now"
  (`cups/aps.c:839`), but a late answer to an abandoned NEOP query is taken for
  the answer it waits for.
* `shifted`: `state_wait` is to "Wait until printer is ready to print"
  (`cups/aps.c:733`), and a failure of the NEOP query "is not fatal"
  (`cups/aps.c:671`); but its late answers are read as the first bytes of the next
  status answer, whose own bytes are read as the one after, and a printer that
  never said ready is printed on.
* `parallel_alarm`: "Wait until a parallel port IRQ is detected or timeout"
  (`aps/parallel.c:180`); an alarm that goes off before `select()` is entered is
  lost, and the wait for a silent printer has no end.
* `text_comments`: "valid and send last line" (`cups/text.c:335`), but the line
  that is being drawn at the end of the text is freed (`LastLineSent`); "line
  text line is full, line will be wrapped." (`cups/aps_fnt.c:241`), but what does
  not fit is dropped, because `text_putc` starts a new line only for a missing
  bitmap (`Wrapped`); "WITHOUT Esc sentence interpretation"
  (`cups/texttoaps.c:249`), but escape sequences are taken out of the text
  (`Uninterpreted`).  The run checks that at least one of the
  three texts is true of every job, and the job that TLC finds breaks them all.
  `TextKept` is what the code does instead.

Properties that hold, and say what the code does in place of what a comment
says:

* `SettingsKept`: `serial_set_baudrate` and `serial_set_handshake` update the
  port structure, each under the comment "Port structure is not updated"
  (`aps/serial.c:512` and `aps/serial.c:591`).  And a `serial_write_rt` that fails
  in its write or its sync leaves the line without handshake, although the saving
  and restoring was added because "the printing gets broken" without
  (`aps/serial.c:703`); the structure keeps the handshake, and the next call that
  sets it repairs the line.
* `CutBound`: "full cut after maxlength dotlines" (`cups/rastertoaps.c:39`); every
  ticket but the first has one more, because `next_dotline` does not count the
  line that follows the cut.  (With the default `maxlengthmm` of -1 the sum is one
  less than `maxlength`, so the first ticket is one short and the others are
  exact.)
* `DarkInOrder`: "remove all blank dotline at the top of page"
  (`drv/aps_option.defs:792`); only the order of the dark lines is kept, because
  `blank_counter` is skipped but not cleared, and the blank lines of the top are
  printed before the second dark one.
* `Synchronised`: `par_sync` is to "Block until all data pending in output buffer
  are transmitted" (`aps/parallel.c:932`).  It waits until as many interrupts came
  as bytes were written, and an interrupt of another byte counts (a status that
  was read before, as every job of the backend does): with `foreign` of them, as
  many bytes may still be pending.  Only where there were none it keeps its word.

Observed while modelling, without a run of their own.

In the backend: a USB status answer left over
by a failed job is taken for the one `state_wait_usb` of the next job asks for;
`reset_printer` works "regardless of current state" (`cups/aps.c:105`) but has
no case for Ethernet and ignores the result of the USB one, and what a reset does
to a printer is not in the repository, so that no property is stated about it; `main` returns "1 if program failed" (`cups/aps.c:1019`),
yet 0 after a failed job.

In libaps:

* `APS_SERIAL` is 0, so that a port without a type reads as a serial one;
  `aps_open` without an open function and `aps_get_port_uri` return a variable
  that was never set.
* After a search for a USB device that failed, the list is dropped while the
  context stays: no USB port of the process works any more.
* Where a descriptor cannot be read, `usb_create_from_uri` (`usb.c:354`) and
  `usb_open` (`usb.c:631`) free the list and leave it set, so that the next call
  walks freed memory.  Ports keep pointers into a freed list in any case:
  detection asks for the URI of a USB port (`detect.c:585`) after the `aps_open`
  that dropped the list, and `usb_get_uri` reads the freed device.
* `usb_create_from_uri` ignores the vendor and product of the URI (`usb.c:343`):
  an APS printer with another product id is not found, and the list is dropped.
* `usb_list_ports` leaves bus number and address 0, so that the `aps_open` of
  detection never finds the device, drops the list, and no USB printer is ever
  reported.  `usb_close` keeps the read buffer: old bytes come before new ones
  after the port is opened again.  A close that fails when the driver is
  attached again can never succeed later.
* `serial_open`, `par_open` and `ethernet_open` leave the descriptor open when
  they fail after `open()` or `socket()`.
* Ethernet: SO_ERROR is not read after a connect; a write timeout of 0 becomes
  30 s for good; reading a closed connection never ends; flush does nothing.

In detection:

* `detect_serial_handshake` returns "handshake mode or error code"
  (`aps/detect.c:185`), but where the flush before a query has failed it may
  return the other mode: a query for the identity that was written at a wrong
  speed stays in the kernel, is answered at the right one, and every later
  answer is then taken for the next query's.  Without its hypothesis,
  `HandshakeAfterFlush` is violated by `libaps`.
* `detect_serial` zeroes `identity` a second time after the APS queries have
  found the printer, so that its `identity` in the array is empty; only printers
  found by ESC/POS queries have theirs.

In the text filter: with a font, tags and unknown tags go out before the line
they stand in; a sequence of three or four UTF-8 bytes is taken for one of two.

## 6. Not modelled

* The 4 MiB buffer of `state_print` is not bounded in the model (blocks are
  counted, not measured); the hazard is listed.
* The race of the timer with `tcdrain` in `serial_sync`: a sync may fail or not
  return at any time, but the timer is not state.  `ParallelPort` has its timer.
* The wording of state messages, debug output, page accounting and PPD data; the
  byte formats of the commands (`command.c`) and of PPD options.
* `prolog` and `epilog` settings (speed, intensity, feeds): they do not change
  the order or place of lines.
* The dots of a character, font files, the encoding of a QR code.
* `uri_join` and the functions that fill a URI structure: no program calls them.
  `compress.c`: it is in no Makefile.
* Illegal arguments of the setters, and a client that breaks `Alone` or `InUse`.
* `aps` without arguments (list of devices), test programs, samples, the JNI
  wrapper: straight-line clients of what is modelled.
* What happens on a port after a failed job, except in `serial`, where
  `tainted` excludes it from the properties: no code restores the printer then.
* What reading freed memory gives, beyond the choices of section 2.4; `libaps`
  has one USB device, so that its list is empty or has the one that is found.

## 7. Order of work and what is left

Done, in this order: `ApsBackend`; `PrintedPage` and `RasterToAps`;
`ParallelPort`; the transports with `LibAps` and `PortContract`; `Detect` with
`Uri` and `Models`; `TextToAps`.  Left:

1. `ParallelPort` shown to implement the parallel calls of `LibAps` while no
   call fails (now both are checked on their own).
2. `ApsBackend` on top of `LibAps`, with the filters composed through the pipe
   (block headers, raw mode).
3. A byte-level module of `state_print`'s buffer, and the timer of the serial
   transport.
