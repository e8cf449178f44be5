---------------------------- MODULE RasterToAps ----------------------------
(***************************************************************************)
(* The raster filter (src/src/cups/rastertoaps.c): it reads the dotlines   *)
(* of the CUPS pages on its standard input and writes the commands that    *)
(* print them on its standard output.                                      *)
(*                                                                         *)
(* Blank dotlines are counted and printed only when a line that is not     *)
(* blank follows.  With optprint a dotline is printed without its leading  *)
(* blank bytes, after a shift command that tells the printer how many      *)
(* there were.  A ticket that reaches the maximum length is cut.           *)
(*                                                                         *)
(* A dotline is its number of leading blank bytes, Width when it is blank. *)
(* The printer is external: a dotline command puts a line on the paper at  *)
(* the position the last shift command set, a cut ends the ticket.         *)
(***************************************************************************)
EXTENDS Integers, Sequences, SequencesExt

CONSTANTS
  Width,        \* nbytes: bytes of a dotline
  OptPrint,     \* option optprint
  CanShift,     \* the printer type has a shift command (MRS, HRS, KCP)
  Rmtop,        \* option rmtop
  PageMode,     \* option pagemode
  MaxLength,    \* option maxlength, in dotlines, -1 if unlimited
  MaxLengthMm,  \* option maxlengthmm, in dotlines, -1 if unlimited
  Batch,        \* dotlines read at once (10 in the code)
  Heights,      \* bound: heights of the pages that are tried
  MaxPages      \* bound: pages of a job

ASSUME ConstantsAssumption ==
  /\ Width \in Nat \ {0}
  /\ OptPrint \in BOOLEAN /\ CanShift \in BOOLEAN
  /\ Rmtop \in BOOLEAN /\ PageMode \in BOOLEAN
  /\ MaxLength \in Int /\ MaxLengthMm \in Int
  /\ Batch \in Nat \ {0} /\ Heights \subseteq Nat /\ MaxPages \in Nat

Blank == Width
Row   == 0 .. Width

VARIABLES
  pc,                \* next step of main(), process_page() or print_blank()
  cancel_flag,
  page,              \* pages read so far
  height,            \* cupsHeight of the page
  y,                 \* dotlines of the page read so far
  batch,             \* dotlines read and not yet processed
  rmtop_once,
  blank_counter,     \* blank dotlines not printed yet
  n,                 \* dotlines print_blank() still has to print
  shift_amount,      \* shift the filter believes the printer has
  dotlines_counter,  \* dotlines of the ticket, for the maximum length
  exitCode,          \* exit status, "none" while it runs
  prShift,           \* the printer's shift
  image,             \* the lines on the paper, cuts left out
  ticket,            \* lines on the paper since the last cut
  cuts,              \* cuts so far
  rows,              \* history: dotlines processed
  late               \* history: dotlines processed after the cancel

vars == <<pc, cancel_flag, page, height, y, batch, rmtop_once, blank_counter, n,
          shift_amount, dotlines_counter, exitCode, prShift, image, ticket, cuts,
          rows, late>>

input == <<page, height, y>>
paper == <<prShift, image, ticket, cuts>>
past  == <<rows, late>>

-----------------------------------------------------------------------------
(* Operators whose name ends in _bug are deliberate faults: none is used   *)
(* by the specification, each replaces the operator of the same name to    *)
(* show that a property notices the fault.                                 *)

(* next_dotline: counts the line that is about to be printed, or cuts the  *)
(* ticket before it.  A limit below 0 is never reached.                    *)
Limit == MaxLength + MaxLengthMm

MustCut == dotlines_counter = Limit

NextDotline_bug(line) ==
  /\ dotlines_counter' = IF MustCut THEN 0 ELSE dotlines_counter + 1
  /\ ticket' = ticket + 1 /\ UNCHANGED cuts
  /\ image' = Append(image, line)

NextDotline(line) ==
  /\ dotlines_counter' = IF MustCut THEN 0 ELSE dotlines_counter + 1
  /\ ticket' = IF MustCut THEN 1 ELSE ticket + 1
  /\ cuts' = IF MustCut THEN cuts + 1 ELSE cuts
  /\ image' = Append(image, line)

(* print_dotline: with optprint the leading blank bytes are not sent.      *)
Shifts == OptPrint /\ CanShift

Position_bug(s, row) == s
Position(s, row) == IF Shifts THEN s ELSE s + row

-----------------------------------------------------------------------------
(* main(): read the header of the next page.                               *)
ReadHeader ==
  /\ pc = "header"
  /\ \/ /\ page < MaxPages /\ ~cancel_flag
        /\ \E h \in Heights : height' = h
        /\ page' = page + 1 /\ y' = 0
        /\ rmtop_once' = Rmtop
        /\ pc' = "read"
     \/ pc' = "shift" /\ UNCHANGED <<input, rmtop_once>>
  /\ UNCHANGED <<cancel_flag, batch, blank_counter, n, shift_amount,
                 dotlines_counter, exitCode, paper, past>>

(* process_page: whole batches while the page has one more, then one       *)
(* dotline at a time; the cancel is looked at before each read.            *)
ReadSize == IF y \div Batch < height \div Batch THEN Batch ELSE 1

MorePixels_bug == y < height
MorePixels == y < height /\ ~cancel_flag

(* A short read ends the program: error() calls exit(1).                   *)
ReadPixels ==
  /\ pc = "read"
  /\ \/ /\ MorePixels
        /\ batch' \in [1 .. ReadSize -> Row]
        /\ y' = y + ReadSize
        /\ pc' = "row" /\ UNCHANGED exitCode
     \/ /\ MorePixels
        /\ exitCode' = "one" /\ pc' = "exited" /\ UNCHANGED <<batch, y>>
     \/ /\ ~MorePixels
        /\ pc' = "header" /\ UNCHANGED <<batch, y, exitCode>>
  /\ UNCHANGED <<cancel_flag, page, height, rmtop_once, blank_counter, n,
                 shift_amount, dotlines_counter, paper, past>>

(* The next dotline of the batch: a blank one is counted, one that is not  *)
(* has the queued blank dotlines printed first.                            *)
Consumed ==
  /\ rows' = Append(rows, Head(batch))
  /\ late' = IF cancel_flag THEN late + 1 ELSE late
  /\ batch' = Tail(batch)

CountBlank ==
  /\ pc = "row" /\ batch # <<>> /\ Head(batch) = Blank
  /\ blank_counter' = blank_counter + 1
  /\ Consumed
  /\ UNCHANGED <<pc, cancel_flag, input, rmtop_once, n, shift_amount,
                 dotlines_counter, exitCode, paper>>

StartRow_bug ==
  /\ pc = "row" /\ batch # <<>> /\ Head(batch) # Blank
  /\ pc' = "dotline" /\ UNCHANGED n
  /\ UNCHANGED <<cancel_flag, input, batch, rmtop_once, blank_counter,
                 shift_amount, dotlines_counter, exitCode, paper, past>>

StartRow ==
  /\ pc = "row" /\ batch # <<>> /\ Head(batch) # Blank
  /\ IF blank_counter # 0 /\ ~rmtop_once
     THEN pc' = "blanks" /\ n' = blank_counter
     ELSE pc' = "dotline" /\ UNCHANGED n
  /\ UNCHANGED <<cancel_flag, input, batch, rmtop_once, blank_counter,
                 shift_amount, dotlines_counter, exitCode, paper, past>>

EndBatch ==
  /\ pc = "row" /\ batch = <<>>
  /\ pc' = "read"
  /\ UNCHANGED <<cancel_flag, input, batch, rmtop_once, blank_counter, n,
                 shift_amount, dotlines_counter, exitCode, paper, past>>

(* print_blank, inside process_page and, in page mode, at the end of main. *)
PrintBlank_bug ==
  /\ pc \in {"blanks", "trailing"}
  /\ n' = n - 1
  /\ NextDotline(Blank)
  /\ UNCHANGED <<pc, cancel_flag, input, batch, rmtop_once, blank_counter,
                 shift_amount, exitCode, prShift, past>>

PrintBlank ==
  /\ pc \in {"blanks", "trailing"} /\ n > 0
  /\ n' = n - 1
  /\ NextDotline(Blank)
  /\ UNCHANGED <<pc, cancel_flag, input, batch, rmtop_once, blank_counter,
                 shift_amount, exitCode, prShift, past>>

BlanksDone ==
  /\ pc = "blanks" /\ n = 0
  /\ blank_counter' = 0
  /\ pc' = "dotline"
  /\ UNCHANGED <<cancel_flag, input, batch, rmtop_once, n, shift_amount,
                 dotlines_counter, exitCode, paper, past>>

(* The dotline itself, after a shift command if the shift changes.         *)
PrintDotline ==
  /\ pc = "dotline"
  /\ rmtop_once' = FALSE
  /\ shift_amount' = IF Shifts THEN Head(batch) ELSE shift_amount
  /\ prShift' = IF Shifts /\ shift_amount # Head(batch) THEN Head(batch) ELSE prShift
  /\ NextDotline(Position(prShift', Head(batch)))
  /\ Consumed
  /\ pc' = "row"
  /\ UNCHANGED <<cancel_flag, input, blank_counter, n, exitCode>>

-----------------------------------------------------------------------------
(* main(): after the last page, or after a cancel.                         *)
ResetShift_bug ==
  /\ pc = "shift"
  /\ prShift' = IF Shifts /\ shift_amount > 0 /\ ~cancel_flag THEN 0 ELSE prShift
  /\ pc' = "finish"
  /\ UNCHANGED <<cancel_flag, input, batch, rmtop_once, blank_counter, n, shift_amount,
                 dotlines_counter, exitCode, image, ticket, cuts, past>>

(* shift_dotline(0) does not update shift_amount.                          *)
ResetShift ==
  /\ pc = "shift"
  /\ prShift' = IF Shifts /\ shift_amount > 0 THEN 0 ELSE prShift
  /\ pc' = "finish"
  /\ UNCHANGED <<cancel_flag, input, batch, rmtop_once, blank_counter, n, shift_amount,
                 dotlines_counter, exitCode, image, ticket, cuts, past>>

TrailingBlanks_bug == 0
TrailingBlanksAlways_bug == blank_counter
TrailingBlanks == IF PageMode THEN blank_counter ELSE 0

Finish ==
  /\ pc = "finish"
  /\ IF cancel_flag
     THEN pc' = "end" /\ UNCHANGED n
     ELSE pc' = "trailing" /\ n' = TrailingBlanks
  /\ UNCHANGED <<cancel_flag, input, batch, rmtop_once, blank_counter, shift_amount,
                 dotlines_counter, exitCode, paper, past>>

(* write_epilog: its feeds and its final cut end the last ticket.          *)
WriteEpilog ==
  /\ pc = "trailing" /\ n = 0
  /\ pc' = "end"
  /\ UNCHANGED <<cancel_flag, input, batch, rmtop_once, blank_counter, n, shift_amount,
                 dotlines_counter, exitCode, paper, past>>

Exit ==
  /\ pc = "end"
  /\ exitCode' = "zero" /\ pc' = "exited"
  /\ UNCHANGED <<cancel_flag, input, batch, rmtop_once, blank_counter, n, shift_amount,
                 dotlines_counter, paper, past>>

(* SIGTERM of a cancelled job.                                             *)
Cancel ==
  /\ pc # "exited" /\ ~cancel_flag
  /\ cancel_flag' = TRUE
  /\ UNCHANGED <<pc, input, batch, rmtop_once, blank_counter, n, shift_amount,
                 dotlines_counter, exitCode, paper, past>>

Terminated == pc = "exited" /\ UNCHANGED vars

-----------------------------------------------------------------------------
(* With optprint the printer may start with any shift an earlier job left. *)
Init ==
  /\ pc = "header" /\ cancel_flag = FALSE
  /\ page = 0 /\ height = 0 /\ y = 0 /\ batch = <<>>
  /\ rmtop_once = FALSE /\ blank_counter = 0 /\ n = 0
  /\ shift_amount = -1 /\ dotlines_counter = 0 /\ exitCode = "none"
  /\ prShift \in (IF Shifts THEN 0 .. Width - 1 ELSE {0})
  /\ image = <<>> /\ ticket = 0 /\ cuts = 0
  /\ rows = <<>> /\ late = 0

Program ==
  \/ ReadHeader \/ ReadPixels \/ CountBlank \/ StartRow \/ EndBatch
  \/ PrintBlank \/ BlanksDone \/ PrintDotline
  \/ ResetShift \/ Finish \/ WriteEpilog \/ Exit

Next == Program \/ Cancel \/ Terminated

Spec == Init /\ [][Next]_vars

-----------------------------------------------------------------------------
(* Properties.                                                             *)

TypeOK ==
  /\ pc \in {"header", "read", "row", "blanks", "dotline", "shift", "finish",
             "trailing", "end", "exited"}
  /\ cancel_flag \in BOOLEAN /\ rmtop_once \in BOOLEAN
  /\ page \in Nat /\ height \in Nat /\ y \in Nat /\ batch \in Seq(Row)
  /\ blank_counter \in Nat /\ n \in Nat
  /\ shift_amount \in -1 .. Width /\ prShift \in Row
  /\ dotlines_counter \in Nat /\ ticket \in Nat /\ cuts \in Nat /\ late \in Nat
  /\ exitCode \in {"none", "zero", "one"}
  /\ image \in Seq(Row) /\ rows \in Seq(Row)

(* What is on the paper is, line for line and at its place, the dotlines   *)
(* processed so far, whatever shift commands were sent or saved; only      *)
(* blank dotlines are still to come.                                       *)
InOrder ==
  ~Rmtop =>
    /\ Len(image) <= Len(rows)
    /\ \A i \in 1 .. Len(image) : image[i] = rows[i]
    /\ \A i \in Len(image) + 1 .. Len(rows) : rows[i] = Blank

(* A job printed to its end has all its dotlines on the paper in page      *)
(* mode (those that rmtop moves apart), and ends with one that is not      *)
(* blank in ticket mode.                                                   *)
EndOfJob ==
  exitCode = "zero" /\ ~cancel_flag =>
    IF PageMode THEN ~Rmtop => image = rows
    ELSE image = <<>> \/ image[Len(image)] # Blank

(* Every step of the filter is one the abstract printed page allows.       *)
Page == INSTANCE PrintedPage
PageSpec == Page!Spec

(* Removing blank dotlines at the top of the pages never loses, repeats or *)
(* reorders a dotline that is not blank.  Where the blank ones go is       *)
(* another matter: those of the top come before the second dark dotline.   *)
Dark(s) == FlattenSeq([i \in DOMAIN s |-> IF s[i] = Blank THEN <<>> ELSE <<s[i]>>])
DarkInOrder == Dark(image) = Dark(rows)

(* A filter that ends, cancelled or not, leaves no shift in the printer.   *)
ShiftRestored == exitCode = "zero" /\ shift_amount # -1 => prShift = 0

(* No ticket grows longer than one line over the maximum length ("full cut *)
(* after maxlength dotlines" is one line too much to ask: cups/            *)
(* rastertoaps.c:39).                                                      *)
CutBound == Limit >= 0 => ticket <= Limit + 1

(* After a cancel at most one batch of dotlines is still processed.        *)
CancelSoon == late <= Batch

=============================================================================
