------------------------------ MODULE TextToAps ------------------------------
(***************************************************************************)
(* The text filter (src/src/cups/texttoaps.c with text.c, aps_fnt.c and    *)
(* utf8.c).  With a font it draws the text into lines of dots; without one *)
(* the printer's own font is used and the text is copied.  On the way it   *)
(* replaces tags, or makes QR codes of what escape sequences enclose.      *)
(*                                                                         *)
(* A byte of the input is one of Alphabet: "a" is any character without a  *)
(* meaning in the mode of the filter, "5" that digit, "lf" LF or CR, "high"*)
(* a byte from 0x80 on.  "wide" is a code from 0x80 on, whose low byte is  *)
(* no ASCII character.  A font file is well-formed and has no wide ones.   *)
(***************************************************************************)
EXTENDS Naturals, Sequences, FiniteSets, SequencesExt

CONSTANTS
  TAG_BUFSIZE,     \* 256 in the code
  QrSize,          \* first size of the buffer for QR codes, 1024 in the code
  HeaderDigits,    \* digits after ESC '.', 5 in the code
  LineWidth,       \* printer_width in dots
  CharWidth,       \* width of a character of the font
  charspacing,     \* dots between two characters
  MaxCodes         \* bound: characters of the input

ASSUME SizesAssumption ==
  /\ TAG_BUFSIZE \in Nat /\ QrSize \in Nat \ {0} /\ HeaderDigits \in Nat \ {0}
  /\ LineWidth \in Nat /\ CharWidth \in Nat \ {0} /\ charspacing \in Nat

VARIABLES
  process, font,   \* options: interpret tags, use a font
  pc,              \* "start", "read" or "done"
  cancel_flag,
  lead,            \* get_char has returned the first byte of two
  state,           \* "IDLE", "TAG", "HEADER" or "DATA"
  tag_buf,         \* as long as tag_index
  digits,          \* digits of a QR code read so far
  qrbuf,           \* "none", "live" or "freed"
  idx, size,       \* its fill and its size
  line, pix_pos,   \* the line being drawn
  out,             \* standard output
  codes,           \* history: the characters taken from the input
  nomem            \* history: memory has run out

options  == <<process, font>>
qrVars   == <<digits, qrbuf, idx, size>>
lineVars == <<line, pix_pos>>
vars     == <<options, pc, cancel_flag, lead, state, tag_buf, qrVars, lineVars, out, codes, nomem>>

Characters == {"a", "5", "lf"} \union (IF process THEN {"<", ">"} ELSE {"esc", "."})
Alphabet   == Characters \union {"high"}
Codes      == Characters \union {"wide"}

-----------------------------------------------------------------------------
(* Standard output is a sequence of bytes, lines of dots, QR codes and     *)
(* commands around them.                                                   *)
Item(k, text) == [kind |-> k, text |-> text]
Chars(text) == [i \in 1 .. Len(text) |-> Item("byte", <<text[i]>>)]
Puts(items) == out' = out \o items

(* A byte of a code, in the buffer for tags.                               *)
Low(c) == IF c = "wide" THEN "high" ELSE c

(* tag_to_char: the aliases stand with the numbers.  Space before and      *)
(* anything behind a number is ignored; 555 is too large.                  *)
IsCharacter(t) ==
  \E i \in 1 .. Len(t), k \in {1, 2} :
    /\ \A j \in 1 .. i - 1 : t[j] = "lf"
    /\ i + k - 1 <= Len(t) /\ \A j \in i .. i + k - 1 : t[j] = "5"
    /\ i + k > Len(t) \/ t[i + k] # "5"

-----------------------------------------------------------------------------
(* Drawing.  A character that does not fit is dropped; the position moves  *)
(* on by the spacing all the same.                                         *)
InFont(c) == c # "wide"
Full(pix) == CharWidth + pix >= LineWidth

do_new_line == Puts(<<Item("line", line)>>) /\ line' = <<>> /\ pix_pos' = 0

text_putc(c) ==
  \/ c = "lf" /\ do_new_line
  \/ /\ c # "lf" /\ UNCHANGED out
     /\ IF ~Full(pix_pos) /\ InFont(c)
        THEN line' = Append(line, c) /\ pix_pos' = pix_pos + CharWidth + charspacing
        ELSE UNCHANGED line /\ pix_pos' = pix_pos + charspacing

Prints(c) == IF font THEN text_putc(c) ELSE Puts(Chars(<<c>>)) /\ UNCHANGED lineVars

-----------------------------------------------------------------------------
(* process_and_write: tags.                                                *)

OpenTag(c) ==
  /\ state = "IDLE" /\ c = "<"
  /\ tag_buf' = <<>> /\ state' = "TAG" /\ UNCHANGED <<lineVars, out>>

Plain(c) == state = "IDLE" /\ c # "<" /\ Prints(c) /\ UNCHANGED <<state, tag_buf>>

CloseTag(c) ==
  /\ state = "TAG" /\ c = ">"
  /\ Puts(IF IsCharacter(tag_buf) THEN Chars(<<"tag">>)
          ELSE Chars(<<"<">> \o tag_buf \o <<">">>))
  /\ state' = "IDLE" /\ UNCHANGED <<tag_buf, lineVars>>

(* The characters of the tag are not reset.                                *)
Reopen_bug(c) ==
  /\ state = "TAG" /\ c = "<"
  /\ Puts(Chars(<<"<">>)) /\ UNCHANGED <<state, tag_buf, lineVars>>

(* What was collected is lost.                                             *)
Reopen(c) ==
  /\ state = "TAG" /\ c = "<"
  /\ Puts(Chars(<<"<">>)) /\ tag_buf' = <<>> /\ UNCHANGED <<state, lineVars>>

Collect(c) ==
  /\ state = "TAG" /\ c \notin {"<", ">"} /\ Len(tag_buf) # TAG_BUFSIZE
  /\ tag_buf' = Append(tag_buf, Low(c)) /\ UNCHANGED <<state, lineVars, out>>

(* The tag is too long; the character that shows it is lost.               *)
Overflow(c) ==
  /\ state = "TAG" /\ c \notin {"<", ">"} /\ Len(tag_buf) = TAG_BUFSIZE
  /\ Puts(Chars(<<"<">> \o tag_buf)) /\ state' = "IDLE" /\ UNCHANGED <<tag_buf, lineVars>>

process_and_write(c) ==
  /\ OpenTag(c) \/ Plain(c) \/ CloseTag(c) \/ Reopen(c) \/ Collect(c) \/ Overflow(c)
  /\ UNCHANGED <<qrVars, nomem>>

-----------------------------------------------------------------------------
(* noprocess_and_write: QR codes.  malloc and realloc may fail.            *)

Escape(c) ==
  /\ state = "IDLE" /\ c = "esc"
  /\ state' = "TAG" /\ tag_buf' = <<>> /\ UNCHANGED <<qrVars, lineVars, out>>

Copy(c) == state = "IDLE" /\ c # "esc" /\ Prints(c) /\ UNCHANGED <<state, tag_buf, qrVars>>

StartQr(c) ==
  /\ state = "TAG" /\ c = "."
  /\ \/ state' = "HEADER" /\ qrbuf' = "live" /\ UNCHANGED nomem
     \/ state' = "IDLE" /\ qrbuf' = "none" /\ nomem' = TRUE
  /\ size' = QrSize /\ idx' = 0 /\ digits' = 0
  /\ UNCHANGED <<tag_buf, lineVars, out>>

(* An escape sequence of the printer is dropped.                           *)
OtherEscape(c) ==
  /\ state = "TAG" /\ c # "."
  /\ state' = "IDLE" /\ UNCHANGED <<tag_buf, qrVars, lineVars, out>>

Digit(c) ==
  /\ state = "HEADER" /\ c = "5"
  /\ digits' = digits + 1 /\ state' = IF digits' = HeaderDigits THEN "DATA" ELSE "HEADER"
  /\ UNCHANGED <<tag_buf, qrbuf, idx, size, lineVars, out>>

(* The buffer stays behind.                                                *)
NoDigit(c) ==
  /\ state = "HEADER" /\ c # "5"
  /\ state' = "IDLE" /\ UNCHANGED <<tag_buf, qrVars, lineVars, out>>

Keep(c) ==
  /\ state = "DATA" /\ c # "esc"
  /\ size' = IF idx = size THEN 2 * size ELSE size
  /\ \/ idx' = idx + 1 /\ UNCHANGED <<state, qrbuf, nomem>>
     \/ idx = size /\ qrbuf' = "none" /\ state' = "IDLE" /\ nomem' = TRUE /\ UNCHANGED idx
  /\ UNCHANGED <<tag_buf, digits, lineVars, out>>

(* The next characters still go to the buffer.                             *)
PrintQr_bug(c) ==
  /\ state = "DATA" /\ c = "esc" /\ qrbuf' = "freed"
  /\ Puts(<<Item("qr", <<>>)>>) \/ UNCHANGED out
  /\ UNCHANGED <<state, tag_buf, digits, idx, size, lineVars>>

(* cmd_mrs_qrcode may refuse the data.                                     *)
PrintQr(c) ==
  /\ state = "DATA" /\ c = "esc" /\ qrbuf' = "freed" /\ state' = "IDLE"
  /\ Puts(<<Item("qr", <<>>)>>) \/ UNCHANGED out
  /\ UNCHANGED <<tag_buf, digits, idx, size, lineVars>>

noprocess_and_write(c) ==
  \/ (Escape(c) \/ Copy(c) \/ OtherEscape(c) \/ Digit(c) \/ NoDigit(c) \/ PrintQr(c)) /\ UNCHANGED nomem
  \/ StartQr(c) \/ Keep(c)

-----------------------------------------------------------------------------
(* main.                                                                   *)

Start ==
  /\ pc = "start"
  /\ Puts(<<Item("raw mode", <<>>), Item("prolog", <<>>)>>)
  /\ \/ pc' = "read"
     \/ font /\ pc' = "done"      \* the font cannot be loaded
  /\ UNCHANGED <<options, cancel_flag, lead, state, tag_buf, qrVars, lineVars, codes, nomem>>

Finish ==
  /\ pc' = "done"
  /\ IF cancel_flag THEN UNCHANGED out ELSE Puts(<<Item("epilog", <<>>)>>)
  /\ UNCHANGED <<options, cancel_flag, state, tag_buf, qrVars, lineVars, codes, nomem>>

Handle(c) ==
  IF cancel_flag THEN Finish
  ELSE /\ IF process THEN process_and_write(c) ELSE noprocess_and_write(c)
       /\ codes' = Append(codes, c)
       /\ UNCHANGED <<options, pc, cancel_flag>>

(* utf8_get_code: only a font asks for it.  A sequence is taken for one of *)
(* two bytes, whatever the second is, and may give any code; a byte below  *)
(* 0xC0 is a code of its own.                                              *)
FirstByte ==
  /\ UNCHANGED <<options, pc, cancel_flag, state, tag_buf, qrVars, lineVars, out, codes, nomem>>
  /\ lead' = TRUE

GetCode ==
  /\ pc = "read" /\ Len(codes) < MaxCodes
  /\ \/ ~font /\ (\E b \in Alphabet : Handle(b)) /\ UNCHANGED lead
     \/ font /\ ~lead /\ FirstByte
     \/ font /\ ~lead /\ (\E c \in Codes : Handle(c)) /\ UNCHANGED lead
     \/ font /\ lead /\ (\E c \in Codes : Handle(c)) /\ lead' = FALSE

(* The end of the input, or a read that fails or is interrupted.  What is  *)
(* held back then is never printed.                                        *)
EndOfInput == pc = "read" /\ Finish /\ UNCHANGED lead

Sigterm ==
  /\ pc # "done" /\ cancel_flag' = TRUE
  /\ UNCHANGED <<options, pc, lead, state, tag_buf, qrVars, lineVars, out, codes, nomem>>

Terminated == pc = "done" /\ UNCHANGED vars

Init ==
  /\ process \in BOOLEAN /\ font \in BOOLEAN
  /\ pc = "start" /\ cancel_flag = FALSE /\ lead = FALSE
  /\ state = "IDLE" /\ tag_buf = <<>>
  /\ digits = 0 /\ qrbuf = "none" /\ idx = 0 /\ size = 0
  /\ line = <<>> /\ pix_pos = 0
  /\ out = <<>> /\ codes = <<>> /\ nomem = FALSE

Next == Start \/ GetCode \/ EndOfInput \/ Sigterm \/ Terminated

Spec == Init /\ [][Next]_vars

-----------------------------------------------------------------------------
(* Correctness.  Reference definitions over the whole input: it falls into *)
(* units, and each stands for something.                                   *)

First(set) == CHOOSE i \in set : \A j \in set : i <= j

(* The last place of a unit that starts at i, 0 if the input ends in it.   *)
LastOf(set) == IF set = {} THEN 0 ELSE First(set)

TagEnd(i) == LastOf({j \in i + 1 .. Len(codes) :
                       codes[j] \in {"<", ">"} \/ j = i + TAG_BUFSIZE + 1})

QrEnd(i) ==
  LET odd == {j \in i + 2 .. i + 1 + HeaderDigits : j <= Len(codes) /\ codes[j] # "5"} IN
  IF odd # {} THEN First(odd)
  ELSE LastOf({j \in i + 2 + HeaderDigits .. Len(codes) : codes[j] = "esc"})

UnitEnd(i) ==
  CASE process /\ codes[i] = "<" ->
         IF TagEnd(i) # 0 /\ codes[TagEnd(i)] = "<" THEN TagEnd(i) - 1 ELSE TagEnd(i)
    [] ~process /\ codes[i] = "esc" ->
         IF i = Len(codes) THEN 0 ELSE IF codes[i + 1] = "." THEN QrEnd(i) ELSE i + 1
    [] OTHER -> i

(* The places reached from the first one, when what starts at i ends at    *)
(* end[i]; and where units start that are complete.                        *)
Reached(end) ==
  CHOOSE places \in SUBSET (DOMAIN end) : \A i \in DOMAIN end :
    i \in places <=> i = 1 \/ \E j \in places : j < i /\ end[j] = i - 1

Ends == [i \in 1 .. Len(codes) |-> UnitEnd(i)]

Starts == {i \in Reached(Ends) : UnitEnd(i) # 0}

IsText(i) == codes[i] # (IF process THEN "<" ELSE "esc")

(* What a unit puts out directly.                                          *)
Meaning(i) ==
  LET e == UnitEnd(i)  t == [j \in 1 .. e - i - 1 |-> Low(codes[i + j])] IN
  IF IsText(i) THEN IF font THEN <<>> ELSE <<codes[i]>>
  ELSE IF ~process THEN <<>>
  ELSE IF codes[e] = ">" THEN IF IsCharacter(t) THEN <<"tag">> ELSE <<"<">> \o t \o <<">">>
  ELSE IF TagEnd(i) = e THEN <<"<">> \o t ELSE <<"<">>

(* What a unit adds to the text that is drawn.                             *)
Drawn(i) == IF IsText(i) /\ font THEN <<codes[i]>> ELSE <<>>

Gather(parts, n) ==
  FlattenSeq([i \in 1 .. n |-> IF i \in DOMAIN parts THEN parts[i] ELSE <<>>])

Texts(items, k) ==
  FlattenSeq([i \in 1 .. Len(items) |-> IF items[i].kind = k THEN <<items[i].text>> ELSE <<>>])

(* The lines that text makes: its characters that the font has, as far as  *)
(* they fit in behind the dots of those before.                            *)
Dots(text, n) ==
  n * charspacing + CharWidth * Cardinality({i \in 1 .. n : InFont(text[i])})

Fitting(text) ==
  FlattenSeq([j \in 1 .. Len(text) |->
    IF InFont(text[j]) /\ Dots(text, j - 1) + CharWidth < LineWidth THEN <<text[j]>> ELSE <<>>])

LineFeeds(text, n) == Cardinality({i \in 1 .. n : text[i] = "lf"})

(* The characters of a text between its k-th line feed and the next.       *)
TextLine(text, k) ==
  FlattenSeq([i \in 1 .. Len(text) |->
    IF text[i] # "lf" /\ LineFeeds(text, i) = k THEN <<text[i]>> ELSE <<>>])

LinesOf(text) ==
  [k \in 1 .. LineFeeds(text, Len(text)) + 1 |-> Fitting(TextLine(text, k - 1))]

(* Everything that was read has come out once and in order, replaced by    *)
(* what its unit stands for: the bytes, and the lines of dots up to the    *)
(* one that is being drawn.  It is not promised how bytes and lines lie    *)
(* between each other: a tag overtakes the line that it stands in          *)
(* (process_and_write, noprocess_and_write, text_putc).                    *)
TextKept ==
  LET starts == Starts
      direct == [i \in starts |-> Meaning(i)]
      drawn  == [i \in starts |-> Drawn(i)]
  IN ~nomem => /\ FlattenSeq(Texts(out, "byte")) = Gather(direct, Len(codes))
               /\ Append(Texts(out, "line"), line) = LinesOf(Gather(drawn, Len(codes)))

(* Nothing is written outside the buffers for tags and QR codes, and none  *)
(* after free() (noprocess_and_write leaves its states in many places).    *)
BuffersSafe ==
  /\ Len(tag_buf) <= TAG_BUFSIZE
  /\ state \in {"HEADER", "DATA"} => ~process /\ qrbuf = "live" /\ idx <= size

-----------------------------------------------------------------------------
(* What comments of the code say of a job that ends normally, its text     *)
(* drawn and escape sequences on.                                          *)

(* text.c, on text_finish: "valid and send last line".                     *)
LastLineSent == line = <<>>

(* aps_fnt.c, on a full line: "line will be wrapped".                      *)
Wrapped ==
  LET drawn == [i \in Starts |-> Drawn(i)] IN
  FlattenSeq(Append(Texts(out, "line"), line)) =
    SelectSeq(Gather(drawn, Len(codes)), LAMBDA c : c # "lf" /\ InFont(c))

(* texttoaps.c, on noprocess_and_write: "WITHOUT Esc sentence              *)
(* interpretation".                                                        *)
Uninterpreted == Append(Texts(out, "line"), line) = LinesOf(codes)

(* At least one of these three comments is true of every job.  It is not   *)
(* so: text_free() drops the line that is being drawn, text_putc() drops   *)
(* what does not fit and noprocess_and_write() takes the escape sequences  *)
(* out, and one job can meet all three.                                    *)
CommentsKept ==
  pc = "done" /\ font /\ ~process /\ ~cancel_flag /\ ~nomem
    => LastLineSent \/ Wrapped \/ Uninterpreted

=============================================================================
