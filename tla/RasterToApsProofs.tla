-------------------------- MODULE RasterToApsProofs -------------------------
(***************************************************************************)
(* Proofs about the raster filter, for every width, batch size, limit and  *)
(* page.  The inductive invariant is the conjunction of the parts below;   *)
(* each has its own step lemma, which cites the parts it depends on.       *)
(***************************************************************************)
EXTENDS RasterToAps, Flattening, TLAPS

(* The batch is consumed only while its dotlines are processed, and        *)
(* print_blank and print_dotline run for one that is not blank.            *)
BatchInv ==
  /\ pc \notin {"row", "blanks", "dotline"} => batch = <<>>
  /\ pc \in {"blanks", "dotline"} => batch # <<>> /\ Head(batch) # Blank

(* shift_amount is the printer's shift once it is known, and until the     *)
(* reset at the end; a filter that never shifts leaves it alone.           *)
Ended == {"finish", "trailing", "end", "exited"}
ShiftInv ==
  /\ shift_amount # -1 => Shifts
  /\ shift_amount # -1 /\ pc \notin Ended => prShift = shift_amount
  /\ shift_amount # -1 /\ pc \in Ended /\ exitCode # "one" => prShift = 0
  /\ ~Shifts => prShift = 0
  /\ exitCode = "none" <=> pc # "exited"

(* The counter never passes the limit; it lags one line behind the ticket  *)
(* after the first cut, because the line after a cut is not counted.       *)
CutInv ==
  Limit >= 0 =>
    /\ dotlines_counter <= Limit
    /\ ticket = IF cuts = 0 THEN dotlines_counter ELSE dotlines_counter + 1

(* What is left of the batch counts against the cancel.                    *)
LateInv ==
  /\ Len(batch) <= Batch
  /\ ~cancel_flag => late = 0
  /\ cancel_flag => late + Len(batch) <= Batch

(* How far the paper is behind the dotlines processed, at each step.       *)
Behind == Len(rows) - Len(image)
QueueInv ==
  ~Rmtop =>
    /\ ~rmtop_once
    /\ pc \in {"header", "read", "row", "shift", "finish"} => Behind = blank_counter
    /\ pc = "blanks" => Behind = n
    /\ pc = "dotline" => Behind = 0 /\ blank_counter = 0
    /\ pc = "trailing" /\ PageMode => Behind = n
    /\ pc \in {"end", "exited"} /\ exitCode # "one" /\ ~cancel_flag /\ PageMode => Behind = 0

(* In ticket mode the paper ends with a dotline that is not blank, except  *)
(* while queued blank dotlines are printed before one.                     *)
LastInv ==
  ~PageMode =>
    /\ pc \notin {"blanks", "dotline"} => image = <<>> \/ image[Len(image)] # Blank
    /\ pc = "trailing" => n = 0

USE ConstantsAssumption DEF ConstantsAssumption

LEMMA ReadSizeBound == ASSUME NEW a \in Nat, NEW b \in Nat
                       PROVE  (IF a \div Batch < b \div Batch THEN Batch ELSE 1) \in 1 .. Batch
  OBVIOUS

LEMMA TypeInit == Init => TypeOK /\ BatchInv /\ ShiftInv /\ CutInv /\ LateInv /\ QueueInv /\ LastInv
<1> SUFFICES ASSUME Init PROVE TypeOK /\ BatchInv /\ ShiftInv /\ CutInv /\ LateInv /\ QueueInv /\ LastInv
  OBVIOUS
<1>1. TypeOK
  <2>1. prShift \in 0 .. Width
    BY DEF Init
  <2>2. <<>> \in Seq(Row) /\ -1 \in -1 .. Width
    OBVIOUS
  <2> QED BY <2>1, <2>2 DEF Init, TypeOK, Row
<1>2. BatchInv /\ ShiftInv
  BY DEF Init, BatchInv, ShiftInv, Ended
<1>3. CutInv /\ LateInv
  BY DEF Init, CutInv, LateInv, Limit
<1>4. QueueInv /\ LastInv
  BY DEF Init, QueueInv, LastInv, Behind
<1> QED BY <1>1, <1>2, <1>3, <1>4

LEMMA TypeStep == TypeOK /\ BatchInv /\ ShiftInv /\ [Next]_vars => TypeOK'
<1> SUFFICES ASSUME TypeOK, BatchInv, ShiftInv, [Next]_vars PROVE TypeOK'
  OBVIOUS
<1> USE DEF TypeOK, BatchInv, ShiftInv, Row, Blank, input, paper, past
<1>1. CASE ReadHeader
  BY <1>1 DEF ReadHeader
<1>2. CASE ReadPixels
  <2>1. ReadSize \in 1 .. Batch
    BY ReadSizeBound DEF ReadSize
  <2>2. ReadSize \in Nat
    BY <2>1
  <2>3. ASSUME NEW b \in [1 .. ReadSize -> Row] PROVE b \in Seq(Row)
    BY <2>2
  <2>4. batch' \in Seq(Row) /\ y' \in Nat
    <3>1. CASE batch' \in [1 .. ReadSize -> Row] /\ y' = y + ReadSize
      <4>1. y' \in Nat
        BY <3>1, <2>2
      <4>2. batch' \in Seq(Row)
        BY <3>1, <2>3 DEF Row
      <4> QED BY <4>1, <4>2
    <3>2. CASE UNCHANGED <<batch, y>>
      BY <3>2
    <3> QED BY <1>2, <3>1, <3>2 DEF ReadPixels
  <2> QED BY <1>2, <2>4 DEF ReadPixels
<1>3. CASE CountBlank
  BY <1>3 DEF CountBlank, Consumed
<1>4. CASE StartRow
  BY <1>4 DEF StartRow
<1>5. CASE EndBatch
  BY <1>5 DEF EndBatch
<1>6. CASE PrintBlank
  BY <1>6 DEF PrintBlank, NextDotline
<1>7. CASE BlanksDone
  BY <1>7 DEF BlanksDone
<1>8. CASE PrintDotline
  <2>1. Head(batch) \in Row /\ Tail(batch) \in Seq(Row)
    BY <1>8 DEF PrintDotline
  <2>2. prShift' \in Row /\ shift_amount' \in -1 .. Width
    BY <1>8, <2>1 DEF PrintDotline
  <2>3. Position(prShift', Head(batch)) \in Row
    BY <1>8, <2>1, <2>2 DEF PrintDotline, Position
  <2>4. image' \in Seq(Row) /\ rows' \in Seq(Row) /\ batch' \in Seq(Row) /\ late' \in Nat
    BY <1>8, <2>1, <2>3 DEF PrintDotline, NextDotline, Consumed
  <2>5. dotlines_counter' \in Nat /\ ticket' \in Nat /\ cuts' \in Nat
    BY <1>8 DEF PrintDotline, NextDotline
  <2> QED BY <1>8, <2>2, <2>4, <2>5 DEF PrintDotline
<1>9. CASE ResetShift
  BY <1>9 DEF ResetShift
<1>10. CASE Finish
  BY <1>10 DEF Finish, TrailingBlanks
<1>11. CASE WriteEpilog
  BY <1>11 DEF WriteEpilog
<1>12. CASE Exit
  BY <1>12 DEF Exit
<1>13. CASE Cancel
  BY <1>13 DEF Cancel
<1>14. CASE UNCHANGED vars
  BY <1>14 DEF vars
<1> QED
  BY <1>1, <1>2, <1>3, <1>4, <1>5, <1>6, <1>7, <1>8, <1>9, <1>10, <1>11, <1>12, <1>13, <1>14
  DEF Next, Program, Terminated

LEMMA BatchStep == TypeOK /\ BatchInv /\ [Next]_vars => BatchInv'
<1> SUFFICES ASSUME TypeOK, BatchInv, [Next]_vars PROVE BatchInv'
  OBVIOUS
<1> USE DEF TypeOK, BatchInv, input, paper, past
<1>1. CASE ReadHeader
  BY <1>1 DEF ReadHeader
<1>2. CASE ReadPixels
  BY <1>2 DEF ReadPixels
<1>3. CASE CountBlank
  BY <1>3 DEF CountBlank, Consumed
<1>4. CASE StartRow
  BY <1>4 DEF StartRow
<1>5. CASE EndBatch
  BY <1>5 DEF EndBatch
<1>6. CASE PrintBlank
  BY <1>6 DEF PrintBlank
<1>7. CASE BlanksDone
  BY <1>7 DEF BlanksDone
<1>8. CASE PrintDotline
  BY <1>8 DEF PrintDotline, Consumed
<1>9. CASE ResetShift
  BY <1>9 DEF ResetShift
<1>10. CASE Finish
  BY <1>10 DEF Finish, TrailingBlanks
<1>11. CASE WriteEpilog
  BY <1>11 DEF WriteEpilog
<1>12. CASE Exit
  BY <1>12 DEF Exit
<1>13. CASE Cancel
  BY <1>13 DEF Cancel
<1>14. CASE UNCHANGED vars
  BY <1>14 DEF vars
<1> QED
  BY <1>1, <1>2, <1>3, <1>4, <1>5, <1>6, <1>7, <1>8, <1>9, <1>10, <1>11, <1>12, <1>13, <1>14
  DEF Next, Program, Terminated

LEMMA ShiftStep == TypeOK /\ BatchInv /\ ShiftInv /\ [Next]_vars => ShiftInv'
<1> SUFFICES ASSUME TypeOK, BatchInv, ShiftInv, [Next]_vars PROVE ShiftInv'
  OBVIOUS
<1> USE DEF TypeOK, BatchInv, ShiftInv, Ended, Row, Blank, input, paper, past
<1>1. CASE ReadHeader
  BY <1>1 DEF ReadHeader
<1>2. CASE ReadPixels
  BY <1>2 DEF ReadPixels
<1>3. CASE CountBlank
  BY <1>3 DEF CountBlank, Consumed
<1>4. CASE StartRow
  BY <1>4 DEF StartRow
<1>5. CASE EndBatch
  BY <1>5 DEF EndBatch
<1>6. CASE PrintBlank
  BY <1>6 DEF PrintBlank
<1>7. CASE BlanksDone
  BY <1>7 DEF BlanksDone
<1>8. CASE PrintDotline
  BY <1>8 DEF PrintDotline, NextDotline, Consumed
<1>9. CASE ResetShift
  BY <1>9 DEF ResetShift
<1>10. CASE Finish
  BY <1>10 DEF Finish, TrailingBlanks
<1>11. CASE WriteEpilog
  BY <1>11 DEF WriteEpilog
<1>12. CASE Exit
  BY <1>12 DEF Exit
<1>13. CASE Cancel
  BY <1>13 DEF Cancel
<1>14. CASE UNCHANGED vars
  BY <1>14 DEF vars
<1> QED
  BY <1>1, <1>2, <1>3, <1>4, <1>5, <1>6, <1>7, <1>8, <1>9, <1>10, <1>11, <1>12, <1>13, <1>14
  DEF Next, Program, Terminated

LEMMA CutStep == TypeOK /\ CutInv /\ [Next]_vars => CutInv'
<1> SUFFICES ASSUME TypeOK, CutInv, [Next]_vars PROVE CutInv'
  OBVIOUS
<1> USE DEF TypeOK, CutInv, Limit, input, paper, past
<1>1. CASE ReadHeader
  BY <1>1 DEF ReadHeader
<1>2. CASE ReadPixels
  BY <1>2 DEF ReadPixels
<1>3. CASE CountBlank
  BY <1>3 DEF CountBlank, Consumed
<1>4. CASE StartRow
  BY <1>4 DEF StartRow
<1>5. CASE EndBatch
  BY <1>5 DEF EndBatch
<1>6. CASE PrintBlank
  BY <1>6 DEF PrintBlank, NextDotline, MustCut
<1>7. CASE BlanksDone
  BY <1>7 DEF BlanksDone
<1>8. CASE PrintDotline
  BY <1>8 DEF PrintDotline, NextDotline, MustCut
<1>9. CASE ResetShift
  BY <1>9 DEF ResetShift
<1>10. CASE Finish
  BY <1>10 DEF Finish, TrailingBlanks
<1>11. CASE WriteEpilog
  BY <1>11 DEF WriteEpilog
<1>12. CASE Exit
  BY <1>12 DEF Exit
<1>13. CASE Cancel
  BY <1>13 DEF Cancel
<1>14. CASE UNCHANGED vars
  BY <1>14 DEF vars
<1> QED
  BY <1>1, <1>2, <1>3, <1>4, <1>5, <1>6, <1>7, <1>8, <1>9, <1>10, <1>11, <1>12, <1>13, <1>14
  DEF Next, Program, Terminated

LEMMA LateStep == TypeOK /\ BatchInv /\ LateInv /\ [Next]_vars => LateInv'
<1> SUFFICES ASSUME TypeOK, BatchInv, LateInv, [Next]_vars PROVE LateInv'
  OBVIOUS
<1> USE DEF TypeOK, BatchInv, LateInv, input, paper, past
<1>1. CASE ReadHeader
  BY <1>1 DEF ReadHeader
<1>2. CASE ReadPixels
  <2>1. ReadSize \in 1 .. Batch
    BY ReadSizeBound DEF ReadSize
  <2>2. ASSUME NEW b \in [1 .. ReadSize -> Row] PROVE Len(b) = ReadSize
    BY <2>1
  <2>3. CASE batch' \in [1 .. ReadSize -> Row] /\ MorePixels
    <3>1. Len(batch') <= Batch
      BY <2>1, <2>2, <2>3
    <3> QED BY <1>2, <2>3, <3>1 DEF ReadPixels, MorePixels
  <2>4. CASE UNCHANGED batch
    BY <1>2, <2>4 DEF ReadPixels
  <2> QED BY <1>2, <2>3, <2>4 DEF ReadPixels
<1>3. CASE CountBlank
  BY <1>3 DEF CountBlank, Consumed
<1>4. CASE StartRow
  BY <1>4 DEF StartRow
<1>5. CASE EndBatch
  BY <1>5 DEF EndBatch
<1>6. CASE PrintBlank
  BY <1>6 DEF PrintBlank, NextDotline
<1>7. CASE BlanksDone
  BY <1>7 DEF BlanksDone
<1>8. CASE PrintDotline
  <2>1. Len(Tail(batch)) = Len(batch) - 1
    BY <1>8 DEF PrintDotline
  <2> QED BY <1>8, <2>1 DEF PrintDotline, Consumed
<1>9. CASE ResetShift
  BY <1>9 DEF ResetShift
<1>10. CASE Finish
  BY <1>10 DEF Finish, TrailingBlanks
<1>11. CASE WriteEpilog
  BY <1>11 DEF WriteEpilog
<1>12. CASE Exit
  BY <1>12 DEF Exit
<1>13. CASE Cancel
  BY <1>13 DEF Cancel
<1>14. CASE UNCHANGED vars
  BY <1>14 DEF vars
<1> QED
  BY <1>1, <1>2, <1>3, <1>4, <1>5, <1>6, <1>7, <1>8, <1>9, <1>10, <1>11, <1>12, <1>13, <1>14
  DEF Next, Program, Terminated

LEMMA QueueStep == TypeOK /\ ShiftInv /\ QueueInv /\ [Next]_vars => QueueInv'
<1> SUFFICES ASSUME TypeOK, ShiftInv, QueueInv, [Next]_vars PROVE QueueInv'
  OBVIOUS
<1> USE DEF TypeOK, ShiftInv, QueueInv, Ended, input, paper, past
<1>a. Behind \in Int
  BY DEF Behind
<1>b. UNCHANGED <<rows, image>> => Behind' = Behind
  BY DEF Behind
<1>1. CASE ReadHeader
  BY <1>a, <1>b, <1>1 DEF ReadHeader
<1>2. CASE ReadPixels
  BY <1>a, <1>b, <1>2 DEF ReadPixels
<1>3. CASE CountBlank
  <2>1. Head(batch) \in Row
    BY <1>3 DEF CountBlank
  <2>2. Behind' = Behind + 1
    BY <1>3, <2>1 DEF CountBlank, Consumed, Behind
  <2> QED BY <1>3, <1>a, <2>2 DEF CountBlank
<1>4. CASE StartRow
  BY <1>a, <1>b, <1>4 DEF StartRow
<1>5. CASE EndBatch
  BY <1>a, <1>b, <1>5 DEF EndBatch
<1>6. CASE PrintBlank
  <2>1. Behind' = Behind - 1
    BY <1>6 DEF PrintBlank, NextDotline, Behind, Blank, Row
  <2> QED BY <1>6, <1>a, <2>1 DEF PrintBlank
<1>7. CASE BlanksDone
  BY <1>a, <1>b, <1>7 DEF BlanksDone
<1>8. CASE PrintDotline
  <2>1. Behind' = Behind
    BY <1>8 DEF PrintDotline, NextDotline, Consumed, Behind
  <2> QED BY <1>8, <1>a, <2>1 DEF PrintDotline
<1>9. CASE ResetShift
  BY <1>a, <1>b, <1>9 DEF ResetShift
<1>10. CASE Finish
  BY <1>a, <1>b, <1>10 DEF Finish, TrailingBlanks
<1>11. CASE WriteEpilog
  BY <1>a, <1>b, <1>11 DEF WriteEpilog
<1>12. CASE Exit
  BY <1>a, <1>b, <1>12 DEF Exit
<1>13. CASE Cancel
  BY <1>a, <1>b, <1>13 DEF Cancel
<1>14. CASE UNCHANGED vars
  BY <1>a, <1>b, <1>14 DEF vars
<1> QED
  BY <1>1, <1>2, <1>3, <1>4, <1>5, <1>6, <1>7, <1>8, <1>9, <1>10, <1>11, <1>12, <1>13, <1>14
  DEF Next, Program, Terminated

LEMMA LastStep == TypeOK /\ BatchInv /\ ShiftInv /\ LastInv /\ [Next]_vars => LastInv'
<1> SUFFICES ASSUME TypeOK, BatchInv, ShiftInv, LastInv, [Next]_vars PROVE LastInv'
  OBVIOUS
<1> USE DEF TypeOK, BatchInv, ShiftInv, LastInv, Ended, Row, Blank, input, paper, past
<1>1. CASE ReadHeader
  BY <1>1 DEF ReadHeader
<1>2. CASE ReadPixels
  BY <1>2 DEF ReadPixels
<1>3. CASE CountBlank
  BY <1>3 DEF CountBlank, Consumed
<1>4. CASE StartRow
  BY <1>4 DEF StartRow
<1>5. CASE EndBatch
  BY <1>5 DEF EndBatch
<1>6. CASE PrintBlank
  BY <1>6 DEF PrintBlank
<1>7. CASE BlanksDone
  BY <1>7 DEF BlanksDone
<1>8. CASE PrintDotline
  <2>1. Head(batch) \in 0 .. Width - 1
    BY <1>8 DEF PrintDotline
  <2>2. Position(prShift', Head(batch)) = Head(batch)
    BY <1>8, <2>1 DEF PrintDotline, Position
  <2>3. image' = Append(image, Head(batch))
    BY <1>8, <2>2 DEF PrintDotline, NextDotline
  <2>4. image'[Len(image')] = Head(batch)
    BY <2>1, <2>3
  <2> QED BY <1>8, <2>1, <2>4 DEF PrintDotline
<1>9. CASE ResetShift
  BY <1>9 DEF ResetShift
<1>10. CASE Finish
  BY <1>10 DEF Finish, TrailingBlanks
<1>11. CASE WriteEpilog
  BY <1>11 DEF WriteEpilog
<1>12. CASE Exit
  BY <1>12 DEF Exit
<1>13. CASE Cancel
  BY <1>13 DEF Cancel
<1>14. CASE UNCHANGED vars
  BY <1>14 DEF vars
<1> QED
  BY <1>1, <1>2, <1>3, <1>4, <1>5, <1>6, <1>7, <1>8, <1>9, <1>10, <1>11, <1>12, <1>13, <1>14
  DEF Next, Program, Terminated

-----------------------------------------------------------------------------
(* The order of the lines on the paper.  The paper is a prefix of rows,    *)
(* and what it still lacks is blank.                                       *)

LEMMA OrderStep ==
  TypeOK /\ BatchInv /\ ShiftInv /\ QueueInv /\ LastInv /\ InOrder /\ [Next]_vars => InOrder'
<1> SUFFICES ASSUME TypeOK, BatchInv, ShiftInv, QueueInv, LastInv, InOrder, [Next]_vars, ~Rmtop
             PROVE  InOrder'
  BY DEF InOrder
<1> DEFINE m == Len(rows)
           k == Len(image)
<1>1. rows \in Seq(Row) /\ image \in Seq(Row) /\ m \in Nat /\ k \in Nat /\ Blank \in Row
  BY DEF TypeOK, Blank, Row
<1>2. CASE UNCHANGED <<rows, image>>
  BY <1>2 DEF InOrder
<1>3. CASE CountBlank
  <2>1. rows' = Append(rows, Blank) /\ image' = image
    BY <1>3 DEF CountBlank, Consumed, paper
  <2>2. Len(rows') = m + 1 /\ rows'[m + 1] = Blank
    BY <1>1, <2>1
  <2>3. \A i \in 1 .. m : rows'[i] = rows[i]
    BY <1>1, <2>1
  <2> QED BY <1>1, <2>1, <2>2, <2>3 DEF InOrder
<1>4. CASE PrintBlank
  <2>1. image' = Append(image, Blank) /\ rows' = rows
    BY <1>4 DEF PrintBlank, NextDotline, past
  <2>2. k < m
    <3>1. pc = "trailing" /\ ~PageMode => FALSE
      BY <1>4 DEF PrintBlank, LastInv
    <3> QED BY <1>1, <1>4, <3>1 DEF PrintBlank, QueueInv, Behind, TypeOK
  <2>3. Len(image') = k + 1 /\ image'[k + 1] = Blank
    BY <1>1, <2>1
  <2>4. \A i \in 1 .. k : image'[i] = image[i]
    BY <1>1, <2>1
  <2>5. rows[k + 1] = Blank
    BY <1>1, <2>2 DEF InOrder
  <2> QED BY <1>1, <2>1, <2>2, <2>3, <2>4, <2>5 DEF InOrder
<1>5. CASE PrintDotline
  <2>1. Head(batch) \in Row
    BY <1>5 DEF PrintDotline, TypeOK, BatchInv
  <2>2. Position(prShift', Head(batch)) = Head(batch)
    BY <1>5, <2>1 DEF PrintDotline, Position, ShiftInv, Ended, Row, TypeOK
  <2>3. image' = Append(image, Head(batch)) /\ rows' = Append(rows, Head(batch))
    BY <1>5, <2>2 DEF PrintDotline, NextDotline, Consumed
  <2>4. k = m
    BY <1>1, <1>5 DEF PrintDotline, QueueInv, Behind
  <2>5. Len(image') = k + 1 /\ image'[k + 1] = Head(batch)
    BY <1>1, <2>1, <2>3
  <2>6. Len(rows') = m + 1 /\ rows'[m + 1] = Head(batch)
    BY <1>1, <2>1, <2>3
  <2>7. \A i \in 1 .. k : image'[i] = image[i] /\ rows'[i] = rows[i]
    BY <1>1, <2>1, <2>3, <2>4
  <2> QED BY <1>1, <2>4, <2>5, <2>6, <2>7 DEF InOrder
<1> QED
  BY <1>2, <1>3, <1>4, <1>5
  DEF Next, Program, Terminated, vars, paper, past, ReadHeader, ReadPixels, StartRow,
      EndBatch, BlanksDone, ResetShift, Finish, WriteEpilog, Exit, Cancel

-----------------------------------------------------------------------------
(* The dotlines that are not blank, whether or not rmtop drops blank ones. *)

LEMMA DarkParts ==
  ASSUME NEW s \in Seq(Row)
  PROVE  [i \in DOMAIN s |-> IF s[i] = Blank THEN <<>> ELSE <<s[i]>>] \in Seq(Seq(Row))
<1>1. Len(s) \in Nat /\ DOMAIN s = 1 .. Len(s) /\ \A i \in 1 .. Len(s) : s[i] \in Row
  OBVIOUS
<1>2. \A r \in Row : (IF r = Blank THEN <<>> ELSE <<r>>) \in Seq(Row)
  OBVIOUS
<1> QED BY <1>1, <1>2

LEMMA DarkType == ASSUME NEW s \in Seq(Row) PROVE Dark(s) \in Seq(Row)
  BY DarkParts, FlattenType DEF Dark

LEMMA DarkAppend ==
  ASSUME NEW s \in Seq(Row), NEW r \in Row
  PROVE  Dark(Append(s, r)) = Dark(s) \o (IF r = Blank THEN <<>> ELSE <<r>>)
<1> DEFINE part(e) == IF e = Blank THEN <<>> ELSE <<e>>
           q == [i \in DOMAIN s |-> part(s[i])]
           t == Append(s, r)
<1>1. q \in Seq(Seq(Row)) /\ part(r) \in Seq(Row)
  BY DarkParts
<1>2. [i \in DOMAIN t |-> part(t[i])] = Append(q, part(r))
  <2>1. /\ Len(s) \in Nat /\ DOMAIN s = 1 .. Len(s) /\ DOMAIN t = 1 .. Len(s) + 1
        /\ t[Len(s) + 1] = r /\ \A i \in 1 .. Len(s) : t[i] = s[i]
    OBVIOUS
  <2> HIDE DEF t, part
  <2>2. Append(q, part(r)) = [i \in 1 .. Len(s) + 1 |-> IF i = Len(s) + 1 THEN part(r) ELSE q[i]]
    BY <2>1
  <2> QED BY <2>1, <2>2
<1>3. FlattenSeq(Append(q, part(r))) = FlattenSeq(q) \o part(r)
  <2> HIDE DEF q, part
  <2> QED BY <1>1, FlattenAppend
<1> QED BY <1>2, <1>3 DEF Dark

LEMMA DarkStep ==
  TypeOK /\ BatchInv /\ ShiftInv /\ DarkInOrder /\ [Next]_vars => DarkInOrder'
<1> SUFFICES ASSUME TypeOK, BatchInv, ShiftInv, DarkInOrder, [Next]_vars PROVE DarkInOrder'
  OBVIOUS
<1>1. CASE UNCHANGED <<rows, image>>
  BY <1>1 DEF DarkInOrder
<1>2. CASE CountBlank
  <2>1. rows' = Append(rows, Blank) /\ image' = image /\ rows \in Seq(Row) /\ Blank \in Row
    BY <1>2 DEF CountBlank, Consumed, paper, TypeOK, Blank, Row
  <2>2. Dark(Append(rows, Blank)) = Dark(rows) \o <<>>
    BY <2>1, DarkAppend
  <2> QED BY <2>1, <2>2, DarkType DEF DarkInOrder
<1>3. CASE PrintBlank
  <2>1. image' = Append(image, Blank) /\ rows' = rows /\ image \in Seq(Row) /\ Blank \in Row
    BY <1>3 DEF PrintBlank, NextDotline, past, TypeOK, Blank, Row
  <2>2. Dark(Append(image, Blank)) = Dark(image) \o <<>>
    BY <2>1, DarkAppend
  <2> QED BY <2>1, <2>2, DarkType DEF DarkInOrder
<1>4. CASE PrintDotline
  <2>1. Head(batch) \in Row \ {Blank}
    BY <1>4 DEF PrintDotline, TypeOK, BatchInv
  <2>2. Position(prShift', Head(batch)) = Head(batch)
    BY <1>4, <2>1 DEF PrintDotline, Position, ShiftInv, Ended, Row, TypeOK
  <2>3. image' = Append(image, Head(batch)) /\ rows' = Append(rows, Head(batch))
    BY <1>4, <2>2 DEF PrintDotline, NextDotline, Consumed
  <2>4. rows \in Seq(Row) /\ image \in Seq(Row)
    BY DEF TypeOK
  <2>5. Dark(Append(rows, Head(batch))) = Dark(rows) \o <<Head(batch)>>
    BY <2>1, <2>4, DarkAppend
  <2>6. Dark(Append(image, Head(batch))) = Dark(image) \o <<Head(batch)>>
    BY <2>1, <2>4, DarkAppend
  <2> QED BY <2>3, <2>5, <2>6 DEF DarkInOrder
<1> QED
  BY <1>1, <1>2, <1>3, <1>4
  DEF Next, Program, Terminated, vars, paper, past, ReadHeader, ReadPixels, StartRow,
      EndBatch, BlanksDone, ResetShift, Finish, WriteEpilog, Exit, Cancel

-----------------------------------------------------------------------------
(* The theorems.                                                           *)

IInv == TypeOK /\ BatchInv /\ ShiftInv /\ CutInv /\ LateInv /\ QueueInv /\ LastInv /\ InOrder
        /\ DarkInOrder

LEMMA Inductive == Spec => []IInv
<1>1. Init => IInv
  <2>1. Init => InOrder /\ DarkInOrder
    BY DEF Init, InOrder, DarkInOrder
  <2> QED BY <2>1, TypeInit DEF IInv
<1>2. IInv /\ [Next]_vars => IInv'
  BY TypeStep, BatchStep, ShiftStep, CutStep, LateStep, QueueStep, LastStep, OrderStep, DarkStep DEF IInv
<1> QED BY <1>1, <1>2, PTL DEF Spec

(* Every variable keeps its type, whatever the job and its cancellation.   *)
THEOREM TypeCorrect == Spec => []TypeOK
<1>1. IInv => TypeOK
  BY DEF IInv
<1> QED BY <1>1, Inductive, PTL

(* The paper shows the dotlines of the job in order, each at its place,    *)
(* however shifts are saved and blank dotlines queued; only blank ones are *)
(* still to come.                                                          *)
THEOREM LinesInOrder == Spec => []InOrder
<1>1. IInv => InOrder
  BY DEF IInv
<1> QED BY <1>1, Inductive, PTL

(* No dotline that is not blank is ever lost, repeated, moved or reordered,*)
(* not even when rmtop drops the blank ones at the top of the pages.       *)
THEOREM DarkLinesInOrder == Spec => []DarkInOrder
<1>1. IInv => DarkInOrder
  BY DEF IInv
<1> QED BY <1>1, Inductive, PTL

(* A job that was not cancelled ends with all its dotlines on the paper in *)
(* page mode without rmtop, and with one that is not blank in ticket mode. *)
THEOREM JobComplete == Spec => []EndOfJob
<1>1. IInv => EndOfJob
  <2> SUFFICES ASSUME IInv, exitCode = "zero", ~cancel_flag
               PROVE  IF PageMode THEN ~Rmtop => image = rows
                      ELSE image = <<>> \/ image[Len(image)] # Blank
    BY DEF EndOfJob
  <2>1. pc = "exited"
    BY DEF IInv, ShiftInv
  <2>2. CASE PageMode /\ ~Rmtop
    <3>1. image \in Seq(Row) /\ rows \in Seq(Row)
      BY DEF IInv, TypeOK
    <3>2. Len(rows) - Len(image) = 0
      BY <2>1, <2>2 DEF IInv, QueueInv, Behind
    <3>3. Len(rows) = Len(image)
      BY <3>1, <3>2
    <3>4. \A i \in 1 .. Len(image) : image[i] = rows[i]
      BY <2>2 DEF IInv, InOrder
    <3>5. image = rows
      BY <3>1, <3>3, <3>4
    <3> QED BY <2>2, <3>5
  <2>3. CASE ~PageMode
    BY <2>1, <2>3 DEF IInv, LastInv
  <2> QED BY <2>2, <2>3
<1> QED BY <1>1, Inductive, PTL

(* The filter never leaves a shift in the printer when it ends, not even   *)
(* when the job was cancelled.                                             *)
THEOREM ShiftReset == Spec => []ShiftRestored
<1>1. IInv => ShiftRestored
  BY DEF IInv, ShiftRestored, ShiftInv, Ended
<1> QED BY <1>1, Inductive, PTL

(* No ticket is more than one line longer than the maximum length.         *)
THEOREM TicketBounded == Spec => []CutBound
<1>1. IInv => CutBound
  BY DEF IInv, CutBound, CutInv, TypeOK, Limit
<1> QED BY <1>1, Inductive, PTL

(* A cancelled job goes on for one batch of dotlines at most.              *)
THEOREM CancelBounded == Spec => []CancelSoon
<1>1. IInv => CancelSoon
  BY DEF IInv, CancelSoon, LateInv, TypeOK
<1> QED BY <1>1, Inductive, PTL

(* The filter implements the abstract printed page when it does not remove *)
(* blank dotlines: each of its steps is a step of PrintedPage or none.     *)
THEOREM Implements == ~Rmtop => (Spec => PageSpec)
<1> SUFFICES ASSUME ~Rmtop PROVE Spec => PageSpec
  OBVIOUS
<1>1. Init => Page!Init
  BY DEF Init, Page!Init
<1>2. IInv /\ [Next]_vars => [Page!Next]_<<rows, image>>
  <2> SUFFICES ASSUME IInv, [Next]_vars PROVE [Page!Next]_<<rows, image>>
    OBVIOUS
  <2>0. rows \in Seq(Row) /\ image \in Seq(Row) /\ Blank \in Row
    BY DEF IInv, TypeOK, Blank, Row
  <2>1. CASE CountBlank
    <3>1. Page!Take
      BY <2>1 DEF CountBlank, Consumed, paper, Page!Take
    <3> QED BY <3>1 DEF Page!Next
  <2>2. CASE PrintBlank
    <3>1. image' = Append(image, Blank) /\ rows' = rows
      BY <2>2 DEF PrintBlank, NextDotline, past
    <3>2. Len(image) < Len(rows)
      <4>1. Len(rows') >= Len(image')
        BY OrderStep DEF IInv, InOrder
      <4> QED BY <2>0, <3>1, <4>1
    <3>3. rows[Len(image) + 1] = Blank
      BY <2>0, <3>2 DEF IInv, InOrder
    <3>4. Page!CatchUp
      BY <3>1, <3>2, <3>3 DEF Page!CatchUp
    <3> QED BY <3>4 DEF Page!Next
  <2>3. CASE PrintDotline
    <3>1. Head(batch) \in Row \ {Blank}
      BY <2>3 DEF PrintDotline, IInv, TypeOK, BatchInv
    <3>2. Position(prShift', Head(batch)) = Head(batch)
      BY <2>3, <3>1 DEF PrintDotline, Position, IInv, ShiftInv, Ended, Row, TypeOK
    <3>3. image' = Append(image, Head(batch)) /\ rows' = Append(rows, Head(batch))
      BY <2>3, <3>2 DEF PrintDotline, NextDotline, Consumed
    <3>4. Len(rows) = Len(image)
      <4>1. Len(rows) - Len(image) = 0
        BY <2>3 DEF PrintDotline, IInv, QueueInv, Behind
      <4> QED BY <2>0, <4>1
    <3>5. image = rows
      <4>1. \A i \in 1 .. Len(image) : image[i] = rows[i]
        BY DEF IInv, InOrder
      <4> QED BY <2>0, <3>4, <4>1
    <3>6. Page!Copy
      BY <3>1, <3>3, <3>5 DEF Page!Copy
    <3> QED BY <3>6 DEF Page!Next
  <2>4. CASE UNCHANGED <<rows, image>>
    BY <2>4
  <2> QED
    BY <2>1, <2>2, <2>3, <2>4
    DEF Next, Program, Terminated, vars, paper, past, ReadHeader, ReadPixels, StartRow,
        EndBatch, BlanksDone, ResetShift, Finish, WriteEpilog, Exit, Cancel
<1> QED BY <1>1, <1>2, Inductive, PTL DEF Spec, PageSpec, Page!Spec

=============================================================================
