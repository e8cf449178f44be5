----------------------------- MODULE DetectProofs -----------------------------
(***************************************************************************)
(* Proofs about a process that detects printers, for any slots, devices    *)
(* and printers.  It keeps the rules of the port class and the bounds of   *)
(* its caller's array, so that what is proved of libaps holds of it, the   *)
(* printers it reports are there, and their handshake is right.            *)
(*                                                                         *)
(* The parts: the database of models; URIs, split again; the calls of the  *)
(* scripts; what a call may do to the queues of a device; where detection  *)
(* is, and what the bytes read on the way are; the printers it reports;    *)
(* the order in which a printer answers; the queries of one line, from the *)
(* zero that wakes the printer to the handshake that is set.               *)
(***************************************************************************)
EXTENDS Detect, LibApsContractProofs, Flattening, Integers
-----------------------------------------------------------------------------
(* The models database.  The last row of the table is for all others.      *)

Known == 1 .. 27
Identities == {models_table[i][3] : i \in Known}

LEMMA Texts ==
  /\ models_table[1][3] = "CP 290 MRS" /\ models_table[2][3] = "CP 324 MRS"
  /\ models_table[3][3] = "CP 424 MRS" /\ models_table[4][3] = "CP 295 MRS"
  /\ models_table[5][3] = "CP 305 MRS" /\ models_table[6][3] = "CP 405 MRS"
  /\ models_table[7][3] = "CP 205 MRS" /\ models_table[8][3] = "EPM 205 MRS"
  /\ models_table[9][3] = "EPM 224 MRS" /\ models_table[10][3] = "EPM 203 MRS"
  /\ models_table[11][3] = "BPM 205" /\ models_table[12][3] = "BPM224L"
  /\ models_table[13][3] = "BPM224" /\ models_table[14][3] = "CP290HRS"
  /\ models_table[15][3] = "CP324HRS W" /\ models_table[16][3] = "CP324HRS"
  /\ models_table[17][3] = "CP424HRS" /\ models_table[18][3] = "KCP200"
  /\ models_table[19][3] = "_HSP" /\ models_table[20][3] = "_HSP3100FC"
  /\ models_table[21][3] = "_HRS" /\ models_table[22][3] = "EPM205HRS"
  /\ models_table[23][3] = "EPM205-HRS" /\ models_table[24][3] = "EPM207-HRS"
  /\ models_table[25][3] = "_FCB500" /\ models_table[26][3] = "LCB500"
  /\ models_table[27][3] = "LPM400" /\ models_table[28][3] = ""
BY DEF models_table

LEMMA Numbers ==
  ASSUME NEW k \in 1 .. 28
  PROVE  \/ k = 1 \/ k = 2 \/ k = 3 \/ k = 4 \/ k = 5 \/ k = 6 \/ k = 7 \/ k = 8 \/ k = 9 \/ k = 10
         \/ k = 11 \/ k = 12 \/ k = 13 \/ k = 14 \/ k = 15 \/ k = 16 \/ k = 17 \/ k = 18 \/ k = 19
         \/ k = 20 \/ k = 21 \/ k = 22 \/ k = 23 \/ k = 24 \/ k = 25 \/ k = 26 \/ k = 27 \/ k = 28
OBVIOUS

(* The row of an identity: no two rows have the same.                      *)
Place(t) ==
  IF t = "CP 290 MRS" THEN 1 ELSE IF t = "CP 324 MRS" THEN 2 ELSE IF t = "CP 424 MRS" THEN 3 ELSE
  IF t = "CP 295 MRS" THEN 4 ELSE IF t = "CP 305 MRS" THEN 5 ELSE IF t = "CP 405 MRS" THEN 6 ELSE
  IF t = "CP 205 MRS" THEN 7 ELSE IF t = "EPM 205 MRS" THEN 8 ELSE IF t = "EPM 224 MRS" THEN 9 ELSE
  IF t = "EPM 203 MRS" THEN 10 ELSE IF t = "BPM 205" THEN 11 ELSE IF t = "BPM224L" THEN 12 ELSE
  IF t = "BPM224" THEN 13 ELSE IF t = "CP290HRS" THEN 14 ELSE IF t = "CP324HRS W" THEN 15 ELSE
  IF t = "CP324HRS" THEN 16 ELSE IF t = "CP424HRS" THEN 17 ELSE IF t = "KCP200" THEN 18 ELSE
  IF t = "_HSP" THEN 19 ELSE IF t = "_HSP3100FC" THEN 20 ELSE IF t = "_HRS" THEN 21 ELSE
  IF t = "EPM205HRS" THEN 22 ELSE IF t = "EPM205-HRS" THEN 23 ELSE IF t = "EPM207-HRS" THEN 24 ELSE
  IF t = "_FCB500" THEN 25 ELSE IF t = "LCB500" THEN 26 ELSE IF t = "LPM400" THEN 27 ELSE 28

LEMMA RowsPlaced == \A k \in 1 .. 28 : Place(models_table[k][3]) = k
<1>1. /\ Place(models_table[1][3]) = 1 /\ Place(models_table[2][3]) = 2
      /\ Place(models_table[3][3]) = 3 /\ Place(models_table[4][3]) = 4
      /\ Place(models_table[5][3]) = 5 /\ Place(models_table[6][3]) = 6
      /\ Place(models_table[7][3]) = 7 /\ Place(models_table[8][3]) = 8
      /\ Place(models_table[9][3]) = 9 /\ Place(models_table[10][3]) = 10
      /\ Place(models_table[11][3]) = 11 /\ Place(models_table[12][3]) = 12
      /\ Place(models_table[13][3]) = 13 /\ Place(models_table[14][3]) = 14
  BY Texts DEF Place
<1>2. /\ Place(models_table[15][3]) = 15 /\ Place(models_table[16][3]) = 16
      /\ Place(models_table[17][3]) = 17 /\ Place(models_table[18][3]) = 18
      /\ Place(models_table[19][3]) = 19 /\ Place(models_table[20][3]) = 20
      /\ Place(models_table[21][3]) = 21 /\ Place(models_table[22][3]) = 22
      /\ Place(models_table[23][3]) = 23 /\ Place(models_table[24][3]) = 24
      /\ Place(models_table[25][3]) = 25 /\ Place(models_table[26][3]) = 26
      /\ Place(models_table[27][3]) = 27 /\ Place(models_table[28][3]) = 28
  BY Texts DEF Place
<1> QED BY <1>1, <1>2, Numbers

LEMMA RowsDiffer ==
  ASSUME NEW i \in 1 .. 28, NEW j \in 1 .. 28, models_table[i][3] = models_table[j][3]
  PROVE  i = j
BY RowsPlaced

LEMMA FirstIs ==
  ASSUME NEW table, NEW rows \in SUBSET Nat, NEW k \in rows, \A j \in rows : k <= j
  PROVE  First(table, rows) = table[k]
<1>1. \A i \in rows : (\A j \in rows : i <= j) => i = k
  OBVIOUS
<1>2. (CHOOSE i \in rows : \A j \in rows : i <= j) = k
  BY <1>1
<1> QED BY <1>2 DEF First

LEMMA RowCount == Len(models_table) = 28
  BY DEF models_table

LEMMA KnownRows == ASSUME NEW i \in Known PROVE models_table[i][3] # ""
<1>1. models_table[28][3] = ""
  BY Texts
<1>2. i \in 1 .. 28 /\ i # 28 /\ 28 \in 1 .. 28
  BY DEF Known
<1>3. models_table[i][3] # models_table[28][3]
  BY <1>2, RowsDiffer
<1> QED BY <1>1, <1>3, Zenon

LEMMA OwnRowIs ==
  ASSUME NEW i \in Known
  PROVE  OwnRow(models_table[i][3]) = models_table[i]
<1>1. i \in 1 .. 28 /\ Len(models_table) = 28
  BY RowCount DEF Known
<1>2. (CHOOSE j \in 1 .. Len(models_table) : models_table[j][3] = models_table[i][3]) = i
  BY <1>1, RowsDiffer
<1> QED BY <1>2 DEF OwnRow

(* An identity that begins with another one comes before it in the table,  *)
(* or both are of one model.                                               *)
LEMMA BeginsOf ==
  ASSUME NEW s, NEW j \in Known, Begins(s, models_table[j][3])
  PROVE  \/ s = models_table[j][3]
         \/ s = models_table[12][3] /\ j = 13
         \/ s = models_table[15][3] /\ j = 16
         \/ s = models_table[20][3] /\ j = 19
<1>1. \/ s = models_table[j][3]
      \/ s = models_table[12][3] /\ models_table[j][3] = models_table[13][3]
      \/ s = models_table[15][3] /\ models_table[j][3] = models_table[16][3]
      \/ s = models_table[20][3] /\ models_table[j][3] = models_table[19][3]
  <2>1. \/ s = models_table[j][3]
        \/ s = "BPM224L" /\ models_table[j][3] = "BPM224"
        \/ s = "CP324HRS W" /\ models_table[j][3] = "CP324HRS"
        \/ s = "_HSP3100FC" /\ models_table[j][3] = "_HSP"
    BY KnownRows, Zenon DEF Begins
  <2>2. /\ models_table[12][3] = "BPM224L" /\ models_table[13][3] = "BPM224"
        /\ models_table[15][3] = "CP324HRS W" /\ models_table[16][3] = "CP324HRS"
        /\ models_table[20][3] = "_HSP3100FC" /\ models_table[19][3] = "_HSP"
    BY Texts
  <2> QED BY <2>1, <2>2, Zenon
<1>2. j \in 1 .. 28 /\ 13 \in 1 .. 28 /\ 16 \in 1 .. 28 /\ 19 \in 1 .. 28
  BY DEF Known
<1> QED BY <1>1, <1>2, RowsDiffer

LEMMA FoundById ==
  ASSUME NEW s, model_find_by_id(s)[1] # "UNKNOWN"
  PROVE  s \in Identities /\ model_find_by_id(s)[1] = OwnRow(s)[1]
<1> DEFINE rows == {i \in 1 .. Len(models_table) : Begins(s, models_table[i][3])}
<1>1. 28 \in rows /\ rows \subseteq 1 .. 28 /\ rows \in SUBSET Nat
  <2>1. Begins(s, models_table[28][3])
    BY Texts, Zenon DEF Begins
  <2> QED BY <2>1, RowCount
<1>2. model_find_by_id(s) = First(models_table, rows)
  BY DEF model_find_by_id
<1> HIDE DEF rows
<1>3. PICK k \in rows : \A j \in rows : k <= j
  BY <1>1, LeastNumber
<1>4. model_find_by_id(s) = models_table[k]
  BY <1>1, <1>2, <1>3, FirstIs
<1>5. models_table[28][1] = "UNKNOWN" /\ models_table[19][1] = models_table[20][1]
  BY DEF models_table
<1>6. k \in Known
  BY <1>1, <1>4, <1>5 DEF Known
<1>7. Begins(s, models_table[k][3])
  BY <1>3 DEF rows
<1>8. \A i \in Known : s = models_table[i][3] => i \in rows
  <2>1. ASSUME NEW i \in Known, s = models_table[i][3] PROVE Begins(s, models_table[i][3])
    BY <2>1, Zenon DEF Begins
  <2> QED BY <2>1, RowCount DEF Known, rows
<1>9. 12 \in Known /\ 15 \in Known /\ 20 \in Known
  BY DEF Known
<1>10. \/ s = models_table[k][3]
       \/ s = models_table[20][3] /\ k = 19
  <2>1. s # models_table[12][3] \/ k <= 12
    BY <1>3, <1>8, <1>9
  <2>2. s # models_table[15][3] \/ k <= 15
    BY <1>3, <1>8, <1>9
  <2>3. \/ s = models_table[k][3]
        \/ s = models_table[12][3] /\ k = 13
        \/ s = models_table[15][3] /\ k = 16
        \/ s = models_table[20][3] /\ k = 19
    BY <1>6, <1>7, BeginsOf
  <2> QED BY <2>1, <2>2, <2>3
<1>11. CASE s = models_table[k][3]
  BY <1>4, <1>6, <1>11, OwnRowIs DEF Identities
<1>12. CASE s = models_table[20][3] /\ k = 19
  BY <1>4, <1>5, <1>9, <1>12, OwnRowIs DEF Identities
<1> QED BY <1>10, <1>11, <1>12

(* Models that appear twice are of one type.                               *)
TypeFor(m) ==
  IF m \in {"CP290MRS", "CP324MRS", "CP424MRS", "CP295MRS", "CP305MRS", "CP405MRS", "CP205MRS",
           "EPM205MRS", "EPM224MRS", "EPM203MRS", "BPM205", "BPM224L", "BPM224"} THEN "MRS"
  ELSE IF m \in {"CP290HRS", "CP324HRSW", "CP324HRS", "CP424HRS", "EPM205HRS", "EPM207HRS",
                "LCB500", "LPM400"} THEN "HRS"
  ELSE IF m \in {"HSP3100FC", "POS1525", "FCB500"} THEN "HSP"
  ELSE IF m = "KCP200" THEN "KCP" ELSE "UNKNOWN"

LEMMA Types == \A k \in 1 .. 28 : TypeFor(models_table[k][1]) = models_table[k][2]
<1>1. /\ models_table[1][1] = "CP290MRS" /\ models_table[2][1] = "CP324MRS"
      /\ models_table[3][1] = "CP424MRS" /\ models_table[4][1] = "CP295MRS"
      /\ models_table[5][1] = "CP305MRS" /\ models_table[6][1] = "CP405MRS"
      /\ models_table[7][1] = "CP205MRS" /\ models_table[8][1] = "EPM205MRS"
      /\ models_table[9][1] = "EPM224MRS" /\ models_table[10][1] = "EPM203MRS"
      /\ models_table[11][1] = "BPM205" /\ models_table[12][1] = "BPM224L"
      /\ models_table[13][1] = "BPM224" /\ models_table[14][1] = "CP290HRS"
      /\ models_table[15][1] = "CP324HRSW" /\ models_table[16][1] = "CP324HRS"
      /\ models_table[17][1] = "CP424HRS" /\ models_table[18][1] = "KCP200"
      /\ models_table[19][1] = "HSP3100FC" /\ models_table[20][1] = "HSP3100FC"
      /\ models_table[21][1] = "POS1525" /\ models_table[22][1] = "EPM205HRS"
      /\ models_table[23][1] = "EPM205HRS" /\ models_table[24][1] = "EPM207HRS"
      /\ models_table[25][1] = "FCB500" /\ models_table[26][1] = "LCB500"
      /\ models_table[27][1] = "LPM400" /\ models_table[28][1] = "UNKNOWN"
  BY DEF models_table
<1>2. /\ models_table[1][2] = "MRS" /\ models_table[2][2] = "MRS"
      /\ models_table[3][2] = "MRS" /\ models_table[4][2] = "MRS"
      /\ models_table[5][2] = "MRS" /\ models_table[6][2] = "MRS"
      /\ models_table[7][2] = "MRS" /\ models_table[8][2] = "MRS"
      /\ models_table[9][2] = "MRS" /\ models_table[10][2] = "MRS"
      /\ models_table[11][2] = "MRS" /\ models_table[12][2] = "MRS"
      /\ models_table[13][2] = "MRS" /\ models_table[14][2] = "HRS"
      /\ models_table[15][2] = "HRS" /\ models_table[16][2] = "HRS"
      /\ models_table[17][2] = "HRS" /\ models_table[18][2] = "KCP"
      /\ models_table[19][2] = "HSP" /\ models_table[20][2] = "HSP"
      /\ models_table[21][2] = "HSP" /\ models_table[22][2] = "HRS"
      /\ models_table[23][2] = "HRS" /\ models_table[24][2] = "HRS"
      /\ models_table[25][2] = "HSP" /\ models_table[26][2] = "HRS"
      /\ models_table[27][2] = "HRS" /\ models_table[28][2] = "UNKNOWN"
  BY DEF models_table
<1>3. /\ TypeFor(models_table[1][1]) = models_table[1][2]
      /\ TypeFor(models_table[2][1]) = models_table[2][2]
      /\ TypeFor(models_table[3][1]) = models_table[3][2]
      /\ TypeFor(models_table[4][1]) = models_table[4][2]
      /\ TypeFor(models_table[5][1]) = models_table[5][2]
      /\ TypeFor(models_table[6][1]) = models_table[6][2]
      /\ TypeFor(models_table[7][1]) = models_table[7][2]
      /\ TypeFor(models_table[8][1]) = models_table[8][2]
      /\ TypeFor(models_table[9][1]) = models_table[9][2]
      /\ TypeFor(models_table[10][1]) = models_table[10][2]
      /\ TypeFor(models_table[11][1]) = models_table[11][2]
      /\ TypeFor(models_table[12][1]) = models_table[12][2]
      /\ TypeFor(models_table[13][1]) = models_table[13][2]
      /\ TypeFor(models_table[14][1]) = models_table[14][2]
  BY <1>1, <1>2 DEF TypeFor
<1>4. /\ TypeFor(models_table[15][1]) = models_table[15][2]
      /\ TypeFor(models_table[16][1]) = models_table[16][2]
      /\ TypeFor(models_table[17][1]) = models_table[17][2]
      /\ TypeFor(models_table[18][1]) = models_table[18][2]
      /\ TypeFor(models_table[19][1]) = models_table[19][2]
      /\ TypeFor(models_table[20][1]) = models_table[20][2]
      /\ TypeFor(models_table[21][1]) = models_table[21][2]
      /\ TypeFor(models_table[22][1]) = models_table[22][2]
      /\ TypeFor(models_table[23][1]) = models_table[23][2]
      /\ TypeFor(models_table[24][1]) = models_table[24][2]
      /\ TypeFor(models_table[25][1]) = models_table[25][2]
      /\ TypeFor(models_table[26][1]) = models_table[26][2]
      /\ TypeFor(models_table[27][1]) = models_table[27][2]
      /\ TypeFor(models_table[28][1]) = models_table[28][2]
  BY <1>1, <1>2 DEF TypeFor
<1> QED BY <1>3, <1>4, Numbers

LEMMA TypeOfRow == ASSUME NEW k \in 1 .. 28 PROVE aps_get_model_type(models_table[k][1]) = models_table[k][2]
<1> DEFINE rows == {i \in 1 .. Len(models_table) : models_table[i][1] = models_table[k][1]}
<1>1. k \in rows /\ rows \subseteq 1 .. 28 /\ rows \in SUBSET Nat
  BY RowCount
<1>2. model_find_by_number(models_table[k][1]) = First(models_table, rows)
  BY DEF model_find_by_number
<1>3. \A j \in rows : models_table[j][1] = models_table[k][1]
  OBVIOUS
<1> HIDE DEF rows
<1>4. PICK j \in rows : \A i \in rows : j <= i
  BY <1>1, LeastNumber
<1>5. model_find_by_number(models_table[k][1]) = models_table[j]
  BY <1>1, <1>2, <1>4, FirstIs
<1>6. models_table[j][2] = models_table[k][2]
  <2>1. j \in 1 .. 28 /\ models_table[j][1] = models_table[k][1]
    BY <1>1, <1>3
  <2>2. TypeFor(models_table[j][1]) = models_table[j][2] /\ TypeFor(models_table[k][1]) = models_table[k][2]
    BY <2>1, Types
  <2> QED BY <2>1, <2>2, Zenon
<1> QED BY <1>5, <1>6 DEF aps_get_model_type

LEMMA TypeOfModel ==
  ASSUME NEW s \in Identities
  PROVE  aps_get_model_type(OwnRow(s)[1]) = TypeOf(s)
<1>1. PICK i \in Known : s = models_table[i][3]
  BY DEF Identities
<1>2. i \in 1 .. 28 /\ i \in 1 .. Len(models_table)
  BY RowCount DEF Known
<1>3. OwnRow(s) = models_table[i]
  BY <1>1, OwnRowIs
<1>4. TypeOf(s) = OwnRow(s)[2]
  BY <1>1, <1>2 DEF TypeOf
<1> QED BY <1>2, <1>3, <1>4, TypeOfRow

LEMMA TypeIsKnown ==
  ASSUME NEW s, TypeOf(s) # "UNKNOWN"
  PROVE  s \in Identities
<1>1. PICK i \in 1 .. 28 : s = models_table[i][3]
  BY RowCount DEF TypeOf
<1>2. CASE i \in Known
  BY <1>1, <1>2 DEF Identities
<1>3. CASE i = 28
  <2>1. \A j \in 1 .. 28 : models_table[j][3] = s => j = 28
    BY <1>1, <1>3, RowsDiffer
  <2>2. (CHOOSE j \in 1 .. Len(models_table) : models_table[j][3] = s) = 28
    BY <1>1, <1>3, <2>1, RowCount
  <2>3. OwnRow(s) = models_table[28]
    BY <2>2 DEF OwnRow
  <2>4. models_table[28][2] = "UNKNOWN"
    BY DEF models_table
  <2>5. TypeOf(s) = OwnRow(s)[2]
    BY <1>1, RowCount DEF TypeOf
  <2> QED BY <2>3, <2>4, <2>5, Zenon
<1> QED BY <1>1, <1>2, <1>3 DEF Known

(* What a printer sends besides is no identity.                            *)
LEMMA NotIdentities == ASSUME NEW x \in {"noise", "st", "nul", "hw", "sw"} PROVE x \notin Identities
<1>1. Place("noise") = 28 /\ Place("st") = 28 /\ Place("nul") = 28 /\ Place("hw") = 28 /\ Place("sw") = 28
  BY DEF Place
<1>2. Place(x) = 28
  BY <1>1
<1>3. \A i \in Known : i \in 1 .. 28 /\ i # 28
  BY DEF Known
<1>4. \A i \in Known : Place(models_table[i][3]) # 28
  BY <1>3, RowsPlaced
<1> QED BY <1>2, <1>4 DEF Identities

-----------------------------------------------------------------------------
(* The URI of a port, split again.                                         *)

LEMMA TokenIs ==
  ASSUME NEW u, Len(u) \in Nat, NEW i \in Nat, NEW c, NEW j \in i .. Len(u) + 1,
         j = Len(u) + 1 \/ u[j] = c, \A k \in i .. j - 1 : u[k] # c
  PROVE  TokenEnd(u, i, c) = j
<1> DEFINE Ends(x) == (x = Len(u) + 1 \/ u[x] = c) /\ \A k \in i .. x - 1 : u[k] # c
<1>1. ASSUME NEW x \in i .. Len(u) + 1, Ends(x) PROVE x = j
  <2>1. CASE x < j
    <3>1. x \in i .. j - 1 /\ x # Len(u) + 1
      BY <2>1
    <3> QED BY <1>1, <3>1
  <2>2. CASE j < x
    <3>1. j \in i .. x - 1 /\ j # Len(u) + 1
      BY <2>2
    <3> QED BY <1>1, <3>1
  <2> QED BY <2>1, <2>2
<1>2. Ends(j)
  OBVIOUS
<1>3. TokenEnd(u, i, c) = CHOOSE x \in i .. Len(u) + 1 : Ends(x)
  BY DEF TokenEnd
<1> HIDE DEF Ends
<1> QED BY <1>1, <1>2, <1>3

LEMMA TokenEnds ==
  ASSUME NEW u, Len(u) \in Nat, NEW i \in 1 .. Len(u) + 1, NEW c
  PROVE  TokenEnd(u, i, c) \in i .. Len(u) + 1
<1> DEFINE U == {j \in i .. Len(u) + 1 : j = Len(u) + 1 \/ u[j] = c}
<1>1. Len(u) + 1 \in U /\ U \subseteq Nat
  OBVIOUS
<1>2. PICK j \in U : \A x \in U : j <= x
  <2> HIDE DEF U
  <2> QED BY <1>1, LeastNumber
<1>3. \A k \in i .. j - 1 : u[k] # c
  <2> SUFFICES ASSUME NEW k \in i .. j - 1, u[k] = c PROVE FALSE
    OBVIOUS
  <2>1. k \in U /\ k < j
    OBVIOUS
  <2> QED BY <1>2, <2>1
<1>4. j \in i .. Len(u) + 1 /\ (j = Len(u) + 1 \/ u[j] = c)
  OBVIOUS
<1> HIDE DEF U
<1>5. TokenEnd(u, i, c) = j
  BY <1>3, <1>4, TokenIs
<1> QED BY <1>4, <1>5

(* The function Options is defined by.                                     *)
OptionsFrom(u, f, i) ==
  LET key   == get_token(u, i, "=")
      value == get_token(u, key.next, "+")
  IN IF i > Len(u) THEN <<>>
     ELSE IF key.text = <<>> THEN <<>>
     ELSE IF key.next > Len(u) THEN <<Invalid>>
     ELSE IF value.text = <<>> THEN <<Invalid>>
     ELSE <<[key |-> key.text, value |-> value.text]>> \o f[value.next]

AreOptions(u, f) == f = [i \in 1 .. Len(u) + 2 |-> OptionsFrom(u, f, i)]

(* What it is at i depends on what it is behind i.                         *)
LEMMA OptionsDepend ==
  ASSUME NEW u, Len(u) \in Nat, NEW f, NEW g, NEW i \in 1 .. Len(u) + 2,
         \A j \in i + 1 .. Len(u) + 2 : f[j] = g[j]
  PROVE  OptionsFrom(u, f, i) = OptionsFrom(u, g, i)
<1> DEFINE key   == get_token(u, i, "=")
           value == get_token(u, key.next, "+")
<1>1. CASE i <= Len(u) /\ key.next <= Len(u)
  <2>1. key.next = TokenEnd(u, i, "=") + 1
    BY DEF get_token
  <2>a. i \in 1 .. Len(u) + 1
    BY <1>1
  <2>2. TokenEnd(u, i, "=") \in i .. Len(u) + 1
    BY <2>a, TokenEnds
  <2>3. key.next \in i + 1 .. Len(u)
    BY <1>1, <2>1, <2>2
  <2>4. value.next = TokenEnd(u, key.next, "+") + 1
    BY DEF get_token
  <2> HIDE DEF key
  <2>5. TokenEnd(u, key.next, "+") \in key.next .. Len(u) + 1
    BY <2>3, TokenEnds
  <2>6. value.next \in i + 1 .. Len(u) + 2
    BY <2>3, <2>4, <2>5
  <2>7. f[value.next] = g[value.next]
    BY <2>6
  <2> QED BY <2>7 DEF OptionsFrom, key
<1>2. CASE i > Len(u)
  BY <1>2 DEF OptionsFrom
<1>3. CASE ~(key.next <= Len(u)) /\ i <= Len(u)
  <2>1. key.next = TokenEnd(u, i, "=") + 1
    BY DEF get_token
  <2>a. i \in 1 .. Len(u) + 1
    BY <1>3
  <2>2. TokenEnd(u, i, "=") \in i .. Len(u) + 1
    BY <2>a, TokenEnds
  <2>3. key.next > Len(u)
    BY <1>3, <2>1, <2>2
  <2> QED BY <2>3 DEF OptionsFrom
<1> QED BY <1>1, <1>2, <1>3

LEMMA OptionsExist == ASSUME NEW u, Len(u) \in Nat PROVE \E f : AreOptions(u, f)
<1> DEFINE N == Len(u) + 2
           Good(f, n) == \A i \in 1 .. N : i + n > N => f[i] = OptionsFrom(u, f, i)
           T == {n \in Nat : \E f : Good(f, n)}
<1>1. 0 \in T
  <2>1. Good([i \in 1 .. N |-> <<>>], 0)
    OBVIOUS
  <2> QED BY <2>1
<1>2. ASSUME NEW n \in Nat, n \in T PROVE n + 1 \in T
  <2>1. PICK f : Good(f, n)
    BY <1>2
  <2> DEFINE g == [i \in 1 .. N |-> IF i + n = N THEN OptionsFrom(u, f, i) ELSE f[i]]
  <2>2. ASSUME NEW i \in 1 .. N, i + (n + 1) > N PROVE g[i] = OptionsFrom(u, g, i)
    <3>1. \A j \in i + 1 .. N : j \in 1 .. N /\ j + n # N
      BY <2>2
    <3>2. \A j \in i + 1 .. Len(u) + 2 : f[j] = g[j]
      BY <3>1
    <3> HIDE DEF Good
    <3>3. g[i] = OptionsFrom(u, f, i)
      <4>1. CASE i + n = N
        BY <4>1
      <4>2. CASE i + n # N
        <5>1. f[i] = OptionsFrom(u, f, i)
          BY <2>1, <2>2, <4>2 DEF Good
        <5> QED BY <4>2, <5>1
      <4> QED BY <4>1, <4>2
    <3> HIDE DEF g
    <3>4. OptionsFrom(u, f, i) = OptionsFrom(u, g, i)
      BY <3>2, OptionsDepend
    <3> QED BY <3>3, <3>4
  <2> HIDE DEF g
  <2>3. Good(g, n + 1)
    BY <2>2
  <2> QED BY <2>3
<1>3. Nat \subseteq T
  <2> HIDE DEF T
  <2> QED BY <1>1, <1>2, NumberInduction
<1>4. PICK f : Good(f, N)
  <2>1. N \in Nat
    OBVIOUS
  <2>2. N \in T
    BY <1>3, <2>1
  <2> HIDE DEF Good, N
  <2> QED BY <2>2
<1> DEFINE h == [i \in 1 .. N |-> f[i]]
<1>5. ASSUME NEW i \in 1 .. N PROVE h[i] = OptionsFrom(u, h, i)
  <2>1. f[i] = OptionsFrom(u, f, i) /\ h[i] = f[i]
    BY <1>4
  <2>2. \A j \in i + 1 .. Len(u) + 2 : f[j] = h[j]
    OBVIOUS
  <2> HIDE DEF h, Good, T
  <2>3. OptionsFrom(u, f, i) = OptionsFrom(u, h, i)
    BY <2>2, OptionsDepend
  <2> QED BY <2>1, <2>3
<1>6. h = [i \in 1 .. N |-> h[i]]
  OBVIOUS
<1> HIDE DEF h
<1>7. AreOptions(u, h)
  BY <1>5, <1>6 DEF AreOptions
<1> QED BY <1>7

LEMMA OptionsAre ==
  ASSUME NEW u, Len(u) \in Nat, NEW i \in 1 .. Len(u) + 2
  PROVE  Options(u)[i] = OptionsFrom(u, Options(u), i)
<1>1. Options(u) = CHOOSE f : AreOptions(u, f)
  BY DEF Options, AreOptions, OptionsFrom
<1>2. AreOptions(u, Options(u))
  BY <1>1, OptionsExist
<1> QED BY <1>2 DEF AreOptions

LEMMA SliceOne == ASSUME NEW S, NEW s \in Seq(S), NEW i \in 1 .. Len(s) PROVE SubSeq(s, i, i) = <<s[i]>>
<1>1. Len(s) \in Nat /\ i \in 1 .. Len(s) + 1 /\ i \in i - 1 .. Len(s) /\ i - i + 1 = 1 /\ i + 1 - 1 = i
  OBVIOUS
<1>2. SubSeq(s, i, i) \in Seq(S) /\ Len(SubSeq(s, i, i)) = 1 /\ SubSeq(s, i, i)[1] = s[i]
  BY <1>1, SubSeqProperties
<1> DEFINE t == SubSeq(s, i, i)
<1> HIDE DEF t
<1>3. t \in Seq(S) /\ Len(t) = 1 => t = <<t[1]>>
  OBVIOUS
<1> QED BY <1>2, <1>3 DEF t

LEMMA TokenGot ==
  ASSUME NEW u, NEW i \in Nat, NEW c, NEW j \in Nat, TokenEnd(u, i, c) = j
  PROVE  get_token(u, i, c).text = SubSeq(u, i, j - 1) /\ get_token(u, i, c).next = j + 1
BY DEF get_token

(* An option with a key and a value of one word, and what comes behind it. *)
LEMMA OneOption ==
  ASSUME NEW S, NEW u \in Seq(S), NEW i \in 1 .. Len(u) - 2, u[i] # "=", u[i + 1] = "=", u[i + 2] # "+",
         i + 2 = Len(u) \/ u[i + 3] = "+"
  PROVE  Options(u)[i] = <<[key |-> <<u[i]>>, value |-> <<u[i + 2]>>]>> \o Options(u)[i + 4]
<1>0. Len(u) \in Nat /\ i \in 1 .. Len(u) + 2 /\ i \in Nat /\ i + 2 \in Nat
  OBVIOUS
<1>1. TokenEnd(u, i, "=") = i + 1
  <2>1. i + 1 \in i .. Len(u) + 1 /\ \A k \in i .. (i + 1) - 1 : k = i
    OBVIOUS
  <2> QED BY <1>0, <2>1, TokenIs
<1>2. TokenEnd(u, i + 2, "+") = i + 3
  <2>1. i + 3 \in i + 2 .. Len(u) + 1 /\ \A k \in i + 2 .. (i + 3) - 1 : k = i + 2
    OBVIOUS
  <2>2. i + 3 = Len(u) + 1 \/ u[i + 3] = "+"
    OBVIOUS
  <2> QED BY <1>0, <2>1, <2>2, TokenIs
<1>3. (i + 1) - 1 = i /\ (i + 1) + 1 = i + 2 /\ (i + 3) - 1 = i + 2 /\ (i + 3) + 1 = i + 4
  OBVIOUS
<1>4. get_token(u, i, "=").text = <<u[i]>> /\ get_token(u, i, "=").next = i + 2
  <2>1. i \in 1 .. Len(u)
    OBVIOUS
  <2>2. SubSeq(u, i, i) = <<u[i]>>
    BY <2>1, SliceOne
  <2>3. get_token(u, i, "=").text = SubSeq(u, i, (i + 1) - 1) /\ get_token(u, i, "=").next = (i + 1) + 1
    BY <1>1, TokenGot
  <2> QED BY <1>3, <2>2, <2>3, Zenon
<1>5. get_token(u, i + 2, "+").text = <<u[i + 2]>> /\ get_token(u, i + 2, "+").next = i + 4
  <2>1. i + 2 \in 1 .. Len(u)
    OBVIOUS
  <2>2. SubSeq(u, i + 2, i + 2) = <<u[i + 2]>>
    BY <2>1, SliceOne
  <2>3. /\ get_token(u, i + 2, "+").text = SubSeq(u, i + 2, (i + 3) - 1)
        /\ get_token(u, i + 2, "+").next = (i + 3) + 1
    BY <1>2, TokenGot
  <2> QED BY <1>3, <2>2, <2>3, Zenon
<1>6. <<u[i]>> # <<>> /\ <<u[i + 2]>> # <<>> /\ ~(i > Len(u)) /\ ~(i + 2 > Len(u))
  OBVIOUS
<1>7. OptionsFrom(u, Options(u), i) = <<[key |-> <<u[i]>>, value |-> <<u[i + 2]>>]>> \o Options(u)[i + 4]
  BY <1>4, <1>5, <1>6, Zenon DEF OptionsFrom
<1> QED BY <1>0, <1>7, OptionsAre

LEMMA NoOption ==
  ASSUME NEW u, Len(u) \in Nat, NEW i \in {Len(u) + 1, Len(u) + 2}
  PROVE  Options(u)[i] = <<>>
<1>1. i \in 1 .. Len(u) + 2 /\ i > Len(u)
  OBVIOUS
<1> QED BY <1>1, OptionsAre DEF OptionsFrom

Option(k, v) == [key |-> <<k>>, value |-> <<v>>]

(* A URI with a device of one word and some options.                       *)
LEMMA SplitsInto ==
  ASSUME NEW S, NEW u \in Seq(S), Len(u) \in 5 .. URI_MAX,
         u[1] = "aps", u[2] = ":", u[3] # "?", u[4] = "?",
         NEW opts, Options(u)[5] = opts, Len(opts) \in 0 .. OPTS_MAX,
         \A i \in 1 .. Len(opts) : opts[i] # Invalid
  PROVE  uri_split(u) = [valid |-> TRUE, device |-> <<u[3]>>, opts |-> opts]
<1>1. TokenEnd(u, 1, ":") = 2
  <2>1. Len(u) \in Nat /\ 1 \in Nat /\ 2 \in 1 .. Len(u) + 1 /\ \A k \in 1 .. 2 - 1 : k = 1
    BY DEF URI_MAX
  <2>2. u[1] # ":"
    BY Zenon
  <2>3. \A k \in 1 .. 2 - 1 : u[k] # ":"
    BY <2>1, <2>2, Zenon
  <2> QED BY <2>1, <2>3, TokenIs
<1>2. TokenEnd(u, 3, "?") = 4
  <2>1. Len(u) \in Nat /\ 3 \in Nat /\ 4 \in 3 .. Len(u) + 1 /\ \A k \in 3 .. 4 - 1 : k = 3
    BY DEF URI_MAX
  <2> QED BY <2>1, TokenIs
<1>3. 2 - 1 = 1 /\ 2 + 1 = 3 /\ 4 - 1 = 3 /\ 4 + 1 = 5
  OBVIOUS
<1>4. get_token(u, 1, ":").text = <<"aps">> /\ get_token(u, 1, ":").next = 3
  <2>1. 1 \in 1 .. Len(u)
    BY DEF URI_MAX
  <2>2. SubSeq(u, 1, 1) = <<u[1]>>
    BY <2>1, SliceOne
  <2>3. get_token(u, 1, ":").text = SubSeq(u, 1, 2 - 1) /\ get_token(u, 1, ":").next = 2 + 1
    BY <1>1, TokenGot
  <2> QED BY <1>3, <2>2, <2>3, Zenon
<1>5. get_token(u, 3, "?").text = <<u[3]>> /\ get_token(u, 3, "?").next = 5
  <2>1. 3 \in 1 .. Len(u)
    BY DEF URI_MAX
  <2>2. SubSeq(u, 3, 3) = <<u[3]>>
    BY <2>1, SliceOne
  <2>3. get_token(u, 3, "?").text = SubSeq(u, 3, 4 - 1) /\ get_token(u, 3, "?").next = 4 + 1
    BY <1>2, TokenGot
  <2> QED BY <1>3, <2>2, <2>3, Zenon
<1>6. u # <<>> /\ ~(Len(u) > URI_MAX) /\ ~(3 > Len(u)) /\ ~(5 > Len(u)) /\ <<u[3]>> # <<>>
  <2>1. Len(<<>>) = 0
    OBVIOUS
  <2>2. u # <<>>
    BY <2>1 DEF URI_MAX
  <2>3. <<u[3]>> # <<>>
    OBVIOUS
  <2>4. \A n \in 5 .. URI_MAX : ~(n > URI_MAX) /\ ~(3 > n) /\ ~(5 > n)
    BY DEF URI_MAX
  <2> QED BY <2>2, <2>3, <2>4, Zenon
<1>7. ~(Len(opts) > OPTS_MAX)
  BY DEF OPTS_MAX
<1>8. ~\E i \in 1 .. Len(opts) : opts[i] = Invalid
  OBVIOUS
<1> QED BY <1>4, <1>5, <1>6, <1>7, <1>8, Zenon DEF uri_split

-----------------------------------------------------------------------------
FirstAt(su, i, k) == \A j \in 1 .. i - 1 : su.opts[j].key # <<k>>

LEMMA OptionsGot ==
  ASSUME NEW su, NEW n \in Nat, Len(su.opts) = n, NEW i \in 1 .. n, NEW k, NEW v, su.opts[i] = Option(k, v),
         FirstAt(su, i, k)
  PROVE  uri_get_opt(su, k) = v
<1> DEFINE Has(j) == su.opts[j].key = <<k>>
<1>1. Has(i) /\ su.opts[i].value = <<v>>
  BY DEF Option
<1>2. ASSUME NEW x \in 1 .. n, Has(x), \A j \in 1 .. x - 1 : ~Has(j) PROVE x = i
  <2>1. CASE x < i
    <3>1. x \in 1 .. i - 1
      BY <2>1
    <3> QED BY <1>2, <3>1 DEF FirstAt
  <2>2. CASE i < x
    <3>1. i \in 1 .. x - 1
      BY <2>2
    <3> QED BY <1>1, <1>2, <3>1
  <2> QED BY <2>1, <2>2
<1>3. \A j \in 1 .. i - 1 : ~Has(j)
  BY DEF FirstAt
<1>4. uri_get_opt(su, k) = su.opts[CHOOSE x \in 1 .. n : Has(x) /\ \A j \in 1 .. x - 1 : ~Has(j)].value[1]
  BY <1>1 DEF uri_get_opt
<1> HIDE DEF Has
<1>a. ASSUME NEW x, NEW y, x = y, su.opts[y].value = <<v>> PROVE su.opts[x].value[1] = v
  <2>1. <<v>>[1] = v
    OBVIOUS
  <2> QED BY <1>a, <2>1, Zenon
<1>5. (CHOOSE x \in 1 .. n : Has(x) /\ \A j \in 1 .. x - 1 : ~Has(j)) = i
  BY <1>1, <1>2, <1>3
<1> QED BY <1>1, <1>4, <1>5, <1>a, Zenon

LEMMA OptionValid == ASSUME NEW k, NEW v PROVE Option(k, v) # Invalid /\ Option(k, v).key = <<k>>
<1>1. "key" \in DOMAIN Option(k, v) /\ "key" \notin DOMAIN Invalid
  BY DEF Option, Invalid
<1> QED BY <1>1 DEF Option

LEMMA WordsPlain ==
  /\ \A b \in Bauds : BaudWords[b + 1] # "+"
  /\ \A f \in Flows : FlowWords[f] # "+"
  /\ \A m \in {"POLL", "IRQ"} : ModeWords[m] # "+"
<1>1. \A b \in Bauds : BaudWords[b + 1] # "+"
  <2> SUFFICES ASSUME NEW b \in Bauds PROVE BaudWords[b + 1] # "+"
    OBVIOUS
  <2>1. Len(BaudWords) = 8
    BY DEF BaudWords
  <2>2. b \in 0 .. 7
    BY <2>1, RatesAssumption, BoundsAssumption DEF Bauds
  <2>3. b = 0 \/ b = 1 \/ b = 2 \/ b = 3 \/ b = 4 \/ b = 5 \/ b = 6 \/ b = 7
    BY <2>2
  <2> QED BY <2>3 DEF BaudWords
<1>2. \A f \in Flows : FlowWords[f] # "+"
  BY DEF Flows, FlowWords
<1>3. \A m \in {"POLL", "IRQ"} : ModeWords[m] # "+"
  BY DEF ModeWords
<1> QED BY <1>1, <1>2, <1>3

LEMMA JoinsTo ==
  ASSUME NEW T, NEW p \in Seq(T), NEW q \in Seq(T), NEW r \in Seq(T), Len(r) = Len(p) + Len(q),
         \A i \in 1 .. Len(p) : r[i] = p[i], \A i \in 1 .. Len(q) : r[Len(p) + i] = q[i]
  PROVE  p \o q = r
OBVIOUS

LEMMA JoinThree ==
  ASSUME NEW a, NEW b, NEW c
  PROVE  /\ <<b>> \o (<<c>> \o <<>>) = <<b, c>> /\ Len(<<b, c>>) = 2
         /\ <<a>> \o (<<b>> \o (<<c>> \o <<>>)) = <<a, b, c>> /\ Len(<<a, b, c>>) = 3
<1> DEFINE T == {a, b, c}
<1>1. a \in T /\ b \in T /\ c \in T
  OBVIOUS
<1> HIDE DEF T
<1>2. <<c>> \o <<>> = <<c>>
  BY <1>1
<1>3. <<b>> \o <<c>> = <<b, c>>
  <2> DEFINE p == <<b>>  q == <<c>>  r == <<b, c>>
  <2>1. p \in Seq(T) /\ q \in Seq(T) /\ r \in Seq(T)
    BY <1>1
  <2>2. Len(p) = 1 /\ Len(q) = 1 /\ Len(r) = 2 /\ p[1] = b /\ q[1] = c /\ r[1] = b /\ r[2] = c
    OBVIOUS
  <2> HIDE DEF p, q, r
  <2>3. /\ Len(r) = Len(p) + Len(q)
        /\ \A i \in 1 .. Len(p) : r[i] = p[i]
        /\ \A i \in 1 .. Len(q) : r[Len(p) + i] = q[i]
    BY <2>2
  <2>4. p \o q = r
    BY <2>1, <2>3, JoinsTo
  <2> QED BY <2>4 DEF p, q, r
<1>4. <<a>> \o <<b, c>> = <<a, b, c>>
  <2> DEFINE p == <<a>>  q == <<b, c>>  r == <<a, b, c>>
  <2>1. p \in Seq(T) /\ q \in Seq(T) /\ r \in Seq(T)
    BY <1>1
  <2>2. /\ Len(p) = 1 /\ Len(q) = 2 /\ Len(r) = 3 /\ p[1] = a /\ q[1] = b /\ q[2] = c
        /\ r[1] = a /\ r[2] = b /\ r[3] = c
    OBVIOUS
  <2> HIDE DEF p, q, r
  <2>3. /\ Len(r) = Len(p) + Len(q)
        /\ \A i \in 1 .. Len(p) : r[i] = p[i]
        /\ \A i \in 1 .. Len(q) : r[Len(p) + i] = q[i]
    <3>1. \A i \in 1 .. 2 : i = 1 \/ i = 2
      OBVIOUS
    <3> QED BY <2>2, <3>1
  <2>4. p \o q = r
    BY <2>1, <2>3, JoinsTo
  <2> QED BY <2>4 DEF p, q, r
<1>5. Len(<<b, c>>) = 2 /\ Len(<<a, b, c>>) = 3
  OBVIOUS
<1> QED BY <1>2, <1>3, <1>4, <1>5, Zenon

LEMMA ThreeOptions ==
  ASSUME NEW S, NEW u \in Seq(S), Len(u) = 15,
         u[1] = "aps", u[2] = ":", u[3] # "?", u[4] = "?",
         u[5] # "=", u[6] = "=", u[7] # "+", u[8] = "+",
         u[9] # "=", u[10] = "=", u[11] # "+", u[12] = "+",
         u[13] # "=", u[14] = "=", u[15] # "+"
  PROVE  uri_split(u) = [valid |-> TRUE, device |-> <<u[3]>>,
                         opts |-> <<Option(u[5], u[7]), Option(u[9], u[11]), Option(u[13], u[15])>>]
<1> DEFINE o == <<Option(u[5], u[7]), Option(u[9], u[11]), Option(u[13], u[15])>>
<1>1. Options(u)[17] = <<>>
  <2>1. Len(u) \in Nat /\ 17 \in {Len(u) + 1, Len(u) + 2}
    OBVIOUS
  <2> QED BY <2>1, NoOption
<1>2. Options(u)[13] = <<Option(u[13], u[15])>> \o Options(u)[17]
  <2>1. 13 \in 1 .. Len(u) - 2 /\ 13 + 2 = Len(u)
    OBVIOUS
  <2>2. u[13 + 1] = "=" /\ u[13 + 2] # "+"
    OBVIOUS
  <2>3. Options(u)[13] = <<Option(u[13], u[13 + 2])>> \o Options(u)[13 + 4]
    BY <2>1, <2>2, OneOption DEF Option
  <2> QED BY <2>3
<1>3. Options(u)[9] = <<Option(u[9], u[11])>> \o Options(u)[13]
  <2>1. 9 \in 1 .. Len(u) - 2
    OBVIOUS
  <2>2. u[9 + 1] = "=" /\ u[9 + 2] # "+" /\ u[9 + 3] = "+"
    OBVIOUS
  <2>3. Options(u)[9] = <<Option(u[9], u[9 + 2])>> \o Options(u)[9 + 4]
    BY <2>1, <2>2, OneOption DEF Option
  <2> QED BY <2>3
<1>4. Options(u)[5] = <<Option(u[5], u[7])>> \o Options(u)[9]
  <2>1. 5 \in 1 .. Len(u) - 2
    OBVIOUS
  <2>2. u[5 + 1] = "=" /\ u[5 + 2] # "+" /\ u[5 + 3] = "+"
    OBVIOUS
  <2>3. Options(u)[5] = <<Option(u[5], u[5 + 2])>> \o Options(u)[5 + 4]
    BY <2>1, <2>2, OneOption DEF Option
  <2> QED BY <2>3
<1>6. Options(u)[5] = o /\ Len(o) = 3
  <2> DEFINE a == Option(u[5], u[7])  b == Option(u[9], u[11])  c == Option(u[13], u[15])
  <2>1. Options(u)[5] = <<a>> \o (<<b>> \o (<<c>> \o <<>>))
    BY <1>1, <1>2, <1>3, <1>4, Zenon
  <2>2. o = <<a, b, c>>
    OBVIOUS
  <2> HIDE DEF a, b, c, o
  <2>4. <<a>> \o (<<b>> \o (<<c>> \o <<>>)) = <<a, b, c>> /\ Len(<<a, b, c>>) = 3
    BY JoinThree
  <2> QED BY <2>1, <2>2, <2>4
<1>7. \A i \in 1 .. 3 : o[i] # Invalid
  <2>1. o[1] # Invalid /\ o[2] # Invalid /\ o[3] # Invalid
    BY OptionValid
  <2> HIDE DEF o
  <2> QED BY <2>1
<1> HIDE DEF o
<1>8. Len(u) \in 5 .. URI_MAX /\ Len(o) \in 0 .. OPTS_MAX
  BY <1>6 DEF URI_MAX, OPTS_MAX
<1> QED BY <1>6, <1>7, <1>8, SplitsInto DEF o

LEMMA TwoOptions ==
  ASSUME NEW S, NEW u \in Seq(S), Len(u) = 11,
         u[1] = "aps", u[2] = ":", u[3] # "?", u[4] = "?",
         u[5] # "=", u[6] = "=", u[7] # "+", u[8] = "+",
         u[9] # "=", u[10] = "=", u[11] # "+"
  PROVE  uri_split(u) = [valid |-> TRUE, device |-> <<u[3]>>,
                         opts |-> <<Option(u[5], u[7]), Option(u[9], u[11])>>]
<1> DEFINE o == <<Option(u[5], u[7]), Option(u[9], u[11])>>
<1>1. Options(u)[13] = <<>>
  <2>1. Len(u) \in Nat /\ 13 \in {Len(u) + 1, Len(u) + 2}
    OBVIOUS
  <2> QED BY <2>1, NoOption
<1>2. Options(u)[9] = <<Option(u[9], u[11])>> \o Options(u)[13]
  <2>1. 9 \in 1 .. Len(u) - 2 /\ 9 + 2 = Len(u)
    OBVIOUS
  <2>2. u[9 + 1] = "=" /\ u[9 + 2] # "+"
    OBVIOUS
  <2>3. Options(u)[9] = <<Option(u[9], u[9 + 2])>> \o Options(u)[9 + 4]
    BY <2>1, <2>2, OneOption DEF Option
  <2> QED BY <2>3
<1>3. Options(u)[5] = <<Option(u[5], u[7])>> \o Options(u)[9]
  <2>1. 5 \in 1 .. Len(u) - 2
    OBVIOUS
  <2>2. u[5 + 1] = "=" /\ u[5 + 2] # "+" /\ u[5 + 3] = "+"
    OBVIOUS
  <2>3. Options(u)[5] = <<Option(u[5], u[5 + 2])>> \o Options(u)[5 + 4]
    BY <2>1, <2>2, OneOption DEF Option
  <2> QED BY <2>3
<1>4. Options(u)[5] = o /\ Len(o) = 2
  <2> DEFINE a == Option(u[5], u[7])  b == Option(u[9], u[11])
  <2>1. Options(u)[5] = <<a>> \o (<<b>> \o <<>>)
    BY <1>1, <1>2, <1>3, Zenon
  <2>2. o = <<a, b>>
    OBVIOUS
  <2> HIDE DEF a, b, o
  <2>3. <<a>> \o (<<b>> \o <<>>) = <<a, b>> /\ Len(<<a, b>>) = 2
    BY JoinThree
  <2> QED BY <2>1, <2>2, <2>3
<1>5. \A i \in 1 .. 2 : o[i] # Invalid
  <2>1. o[1] # Invalid /\ o[2] # Invalid
    BY OptionValid
  <2> HIDE DEF o
  <2> QED BY <2>1
<1> HIDE DEF o
<1>6. Len(u) \in 5 .. URI_MAX /\ Len(o) \in 0 .. OPTS_MAX
  BY <1>4 DEF URI_MAX, OPTS_MAX
<1> QED BY <1>4, <1>5, <1>6, SplitsInto DEF o

LEMMA GotOfThree ==
  ASSUME NEW d, NEW j, NEW k, NEW l, NEW v, NEW w, NEW x, k # j, l # j, l # k
  PROVE  LET su == [valid |-> TRUE, device |-> <<d>>, opts |-> <<Option(j, v), Option(k, w), Option(l, x)>>] IN
         /\ uri_get_device(su) = d
         /\ uri_get_opt(su, j) = v /\ uri_get_opt(su, k) = w /\ uri_get_opt(su, l) = x
<1> DEFINE su == [valid |-> TRUE, device |-> <<d>>, opts |-> <<Option(j, v), Option(k, w), Option(l, x)>>]
<1>1. su.device = <<d>> /\ <<d>>[1] = d
  OBVIOUS
<1>2. /\ Len(su.opts) = 3
      /\ su.opts[1] = Option(j, v) /\ su.opts[2] = Option(k, w) /\ su.opts[3] = Option(l, x)
  OBVIOUS
<1> HIDE DEF su
<1>3. /\ su.opts[1].key = <<j>> /\ su.opts[2].key = <<k>>
      /\ <<j>> # <<k>> /\ <<j>> # <<l>> /\ <<k>> # <<l>>
  <2>1. <<j>> # <<k>> /\ <<j>> # <<l>> /\ <<k>> # <<l>>
    OBVIOUS
  <2> QED BY <1>2, <2>1, OptionValid, Zenon
<1>4. uri_get_opt(su, j) = v
  <2>1. 1 \in 1 .. 3 /\ 3 \in Nat /\ FirstAt(su, 1, j)
    BY DEF FirstAt
  <2> QED BY <1>2, <2>1, OptionsGot
<1>5. uri_get_opt(su, k) = w
  <2>1. 2 \in 1 .. 3 /\ 3 \in Nat /\ \A i \in 1 .. 2 - 1 : i = 1
    OBVIOUS
  <2>2. FirstAt(su, 2, k)
    BY <1>3, <2>1, Zenon DEF FirstAt
  <2> QED BY <1>2, <2>1, <2>2, OptionsGot
<1>6. uri_get_opt(su, l) = x
  <2>1. 3 \in 1 .. 3 /\ 3 \in Nat /\ \A i \in 1 .. 3 - 1 : i = 1 \/ i = 2
    OBVIOUS
  <2>2. FirstAt(su, 3, l)
    BY <1>3, <2>1, Zenon DEF FirstAt
  <2> QED BY <1>2, <2>1, <2>2, OptionsGot
<1>7. uri_get_device(su) = d
  BY <1>1, Zenon DEF uri_get_device
<1> QED BY <1>4, <1>5, <1>6, <1>7 DEF su

LEMMA GotOfTwo ==
  ASSUME NEW d, NEW j, NEW k, NEW v, NEW w, k # j
  PROVE  LET su == [valid |-> TRUE, device |-> <<d>>, opts |-> <<Option(j, v), Option(k, w)>>] IN
         uri_get_device(su) = d /\ uri_get_opt(su, j) = v
<1> DEFINE su == [valid |-> TRUE, device |-> <<d>>, opts |-> <<Option(j, v), Option(k, w)>>]
<1>1. su.device = <<d>> /\ <<d>>[1] = d
  OBVIOUS
<1>2. Len(su.opts) = 2 /\ su.opts[1] = Option(j, v)
  OBVIOUS
<1> HIDE DEF su
<1>3. uri_get_opt(su, j) = v
  <2>1. 1 \in 1 .. 2 /\ 2 \in Nat /\ FirstAt(su, 1, j)
    BY DEF FirstAt
  <2> QED BY <1>2, <2>1, OptionsGot
<1>4. uri_get_device(su) = d
  BY <1>1, Zenon DEF uri_get_device
<1> QED BY <1>3, <1>4 DEF su

LEMMA SerialUriSplits ==
  ASSUME NEW d, d # "?", NEW b \in Bauds, NEW f \in Flows
  PROVE  LET su == uri_split(serial_get_uri(d, b, f)) IN
         /\ uri_get_device(su) = d /\ uri_get_opt(su, "type") = "serial"
         /\ uri_get_opt(su, "baudrate") = BaudWords[b + 1]
         /\ uri_get_opt(su, "handshake") = FlowWords[f]
<1> DEFINE B == BaudWords[b + 1]  F == FlowWords[f]
           u == <<"aps", ":", d, "?", "type", "=", "serial", "+", "baudrate", "=", B, "+", "handshake", "=", F>>
           S == {u[i] : i \in 1 .. 15}
<1>1. serial_get_uri(d, b, f) = u
  BY DEF serial_get_uri, baudrate_to_string, handshake_to_string
<1>2. B # "+" /\ F # "+"
  BY WordsPlain
<1> HIDE DEF B, F
<1>3. Len(u) = 15 /\ u[1] = "aps" /\ u[2] = ":" /\ u[3] = d /\ u[4] = "?" /\ u[5] = "type" /\ u[6] = "="
      /\ u[7] = "serial" /\ u[8] = "+" /\ u[9] = "baudrate" /\ u[10] = "=" /\ u[11] = B /\ u[12] = "+"
      /\ u[13] = "handshake" /\ u[14] = "=" /\ u[15] = F
  OBVIOUS
<1>4. u \in Seq(S)
  OBVIOUS
<1>5. uri_split(u) = [valid |-> TRUE, device |-> <<d>>,
                     opts |-> <<Option("type", "serial"), Option("baudrate", B), Option("handshake", F)>>]
  <2> HIDE DEF u, S
  <2>1. u[3] # "?"
    BY <1>3, Zenon
  <2>2. u[5] # "=" /\ u[7] # "+" /\ u[9] # "=" /\ u[11] # "+" /\ u[13] # "=" /\ u[15] # "+"
    BY <1>2, <1>3, Zenon
  <2>3. uri_split(u) = [valid |-> TRUE, device |-> <<u[3]>>,
                        opts |-> <<Option(u[5], u[7]), Option(u[9], u[11]), Option(u[13], u[15])>>]
    BY <1>3, <1>4, <2>1, <2>2, ThreeOptions
  <2> QED BY <1>3, <2>3, Zenon
<1>6. "baudrate" # "type" /\ "handshake" # "type" /\ "handshake" # "baudrate"
  OBVIOUS
<1> HIDE DEF u
<1> QED BY <1>1, <1>5, <1>6, GotOfThree DEF B, F

LEMMA ParallelUriSplits ==
  ASSUME NEW d, d # "?", NEW m \in {"POLL", "IRQ"}
  PROVE  LET su == uri_split(par_get_uri(d, m)) IN
         uri_get_device(su) = d /\ uri_get_opt(su, "type") = "parallel"
<1> DEFINE M == ModeWords[m]
           u == <<"aps", ":", d, "?", "type", "=", "parallel", "+", "mode", "=", M>>
           S == {u[i] : i \in 1 .. 11}
<1>1. par_get_uri(d, m) = u
  BY DEF par_get_uri, mode_to_string
<1>2. M # "+"
  BY WordsPlain
<1> HIDE DEF M
<1>3. Len(u) = 11 /\ u[1] = "aps" /\ u[2] = ":" /\ u[3] = d /\ u[4] = "?" /\ u[5] = "type" /\ u[6] = "="
      /\ u[7] = "parallel" /\ u[8] = "+" /\ u[9] = "mode" /\ u[10] = "=" /\ u[11] = M
  OBVIOUS
<1>4. u \in Seq(S)
  OBVIOUS
<1>5. uri_split(u) = [valid |-> TRUE, device |-> <<d>>, opts |-> <<Option("type", "parallel"), Option("mode", M)>>]
  <2> HIDE DEF u, S
  <2>1. u[3] # "?"
    BY <1>3, Zenon
  <2>2. u[5] # "=" /\ u[7] # "+" /\ u[9] # "=" /\ u[11] # "+"
    BY <1>2, <1>3, Zenon
  <2>3. uri_split(u) = [valid |-> TRUE, device |-> <<u[3]>>, opts |-> <<Option(u[5], u[7]), Option(u[9], u[11])>>]
    BY <1>3, <1>4, <2>1, <2>2, TwoOptions
  <2> QED BY <1>3, <2>3, Zenon
<1>6. "mode" # "type"
  OBVIOUS
<1> HIDE DEF u
<1> QED BY <1>1, <1>5, <1>6, GotOfTwo

(* The words are told apart.                                               *)
LEMMA BaudWordsDiffer ==
  ASSUME NEW a \in Bauds, NEW b \in Bauds, BaudWords[a + 1] = BaudWords[b + 1]
  PROVE  a = b
<1>1. Len(BaudWords) = 8
  BY DEF BaudWords
<1>2. \A c \in Bauds : c = 0 \/ c = 1 \/ c = 2 \/ c = 3 \/ c = 4 \/ c = 5 \/ c = 6 \/ c = 7
  BY <1>1, RatesAssumption, BoundsAssumption DEF Bauds
<1>3. /\ BaudWords[0 + 1] = "1200" /\ BaudWords[1 + 1] = "2400" /\ BaudWords[2 + 1] = "4800"
      /\ BaudWords[3 + 1] = "9600" /\ BaudWords[4 + 1] = "19200" /\ BaudWords[5 + 1] = "38400"
      /\ BaudWords[6 + 1] = "57600" /\ BaudWords[7 + 1] = "115200"
  BY DEF BaudWords
<1> QED BY <1>2, <1>3

LEMMA FlowWordsDiffer ==
  ASSUME NEW f \in Flows, NEW g \in Flows, FlowWords[f] = FlowWords[g]
  PROVE  f = g
BY DEF Flows, FlowWords

LEMMA BaudsReadBack == ASSUME NEW b \in Bauds PROVE string_to_baudrate(BaudWords[b + 1]) = {b}
BY BaudWordsDiffer DEF string_to_baudrate

LEMMA FlowsReadBack == ASSUME NEW f \in Flows PROVE string_to_handshake(FlowWords[f]) = {f}
BY FlowWordsDiffer DEF string_to_handshake

-----------------------------------------------------------------------------
(* The calls of the scripts.                                               *)

PlainNames == {"create", "open", "mode", "reset", "flush", "try flush", "sync", "read", "try read", "gets",
               "read timeout", "write timeout", "try close"}

Plain == {<<c>> : c \in PlainNames}
           \union {<<"baud", b>> : b \in Bauds} \union {<<"flow", f>> : f \in Flows}
           \union {<<"write", c>> : c \in Commands}

(* The only script that destroys a port, and its ends.                     *)
Releases == { << <<"try flush">>, <<"try close">>, <<"try destroy">>, <<"free">> >>,
              << <<"try close">>, <<"try destroy">>, <<"free">> >>,
              << <<"try destroy">>, <<"free">> >>, << <<"free">> >> }

Scripts == Seq(Plain) \union Releases

Parts4 == {"create", "wake", "timeout", "release"}
Probes == {"tune", "aps", "escpos", "handshake", "set"}

ScriptInv ==
  /\ stage \in {"serial", "parallel", "usb", "done"} /\ what \in Parts4 \union Probes
  /\ cur \in Ports /\ baud \in Bauds
  /\ script \in Scripts
  /\ \A p \in Ports : kind[p] = "destroyed" => p = cur /\ script = << <<"free">> >>

(* The array has room for one more while a printer is looked for.          *)
RoomInv ==
  /\ \E S : printers \in Seq(S)
  /\ Len(printers) <= MaxPrinters
  /\ what \in {"timeout"} \union Probes => Len(printers) < MaxPrinters

LEMMA CallTyped ==
  /\ \A c \in PlainNames : <<c>> \in Plain
  /\ \A b \in Bauds : <<"baud", b>> \in Plain
  /\ \A f \in Flows : <<"flow", f>> \in Plain
  /\ \A c \in Commands : <<"write", c>> \in Plain
  BY DEF Plain

LEMMA TuneTyped == ASSUME NEW b \in Bauds PROVE Tune(b) \in Seq(Plain)
<1>1. <<"baud", b>> \in Plain /\ <<"flow", "NONE">> \in Plain
  BY CallTyped DEF Flows
<1> QED BY <1>1 DEF Tune

LEMMA ModelTyped ==
  /\ Model("status", "identity") \in Seq(Plain)
  /\ Model("GS status", "GS identity") \in Seq(Plain)
<1>1. <<"flush">> \in Plain /\ <<"sync">> \in Plain /\ <<"read timeout">> \in Plain /\ <<"read">> \in Plain
      /\ <<"try read">> \in Plain /\ <<"gets">> \in Plain
  BY CallTyped DEF PlainNames
<1>2. \A c \in {"CAN", "status", "identity", "GS status", "GS identity"} : <<"write", c>> \in Plain
  BY CallTyped, CommandsAssumption
<1>3. ASSUME NEW S, NEW a \in S, NEW b \in S, NEW c \in S, NEW d \in S, NEW f \in S, NEW g \in S,
             NEW h \in S, NEW j \in S, NEW k \in S
      PROVE  <<a, b, c, a, d, f, c, g, d, h, h, b, c, a, d, j, c, k>> \in Seq(S)
  OBVIOUS
<1>4. ASSUME NEW s \in {"status", "GS status"}, NEW i \in {"identity", "GS identity"}
      PROVE  Model(s, i) \in Seq(Plain)
  BY <1>1, <1>2, <1>3 DEF Model
<1> QED BY <1>4

LEMMA HandshakeTyped == ASSUME NEW m PROVE Handshake(m) \in Seq(Plain)
<1>1. <<"flush">> \in Plain /\ <<"sync">> \in Plain /\ <<"read timeout">> \in Plain /\ <<"read">> \in Plain
      /\ <<"try read">> \in Plain
  BY CallTyped DEF PlainNames
<1>2. <<"write", "MRS setting">> \in Plain /\ <<"write", "HRS setting">> \in Plain
  BY CallTyped, CommandsAssumption
<1>3. ASSUME NEW S, NEW a \in S, NEW b \in S, NEW c \in S, NEW d \in S, NEW f \in S
      PROVE  <<a, b, c, d, f>> \in Seq(S)
  OBVIOUS
<1>4. <<>> \in Seq(Plain)
  OBVIOUS
<1>5. CASE aps_get_model_type(m) = "MRS"
  BY <1>1, <1>2, <1>3, <1>5 DEF Handshake
<1>6. CASE aps_get_model_type(m) \in {"HRS", "KCP"}
  BY <1>1, <1>2, <1>3, <1>6 DEF Handshake
<1>7. CASE aps_get_model_type(m) \notin {"MRS", "HRS", "KCP"}
  BY <1>4, <1>7 DEF Handshake
<1> QED BY <1>5, <1>6, <1>7

LEMMA SetFlowTyped == ASSUME NEW m, NEW f \in Flows PROVE SetFlow(m, f) \in Seq(Plain)
<1>1. <<"write", "CAN">> \in Plain /\ <<"flow", f>> \in Plain
  BY CallTyped, CommandsAssumption
<1>2. ASSUME NEW S, NEW a \in S, NEW b \in S
      PROVE  << a >> \in Seq(S) /\ <<>> \in Seq(S) /\ << a >> \o << b >> \in Seq(S) /\ <<>> \o << b >> \in Seq(S)
  OBVIOUS
<1> QED BY <1>1, <1>2 DEF SetFlow

LEMMA ScriptTyped ==
  ASSUME NEW w \in Parts4, NEW p \in Ports
  PROVE  Script(w, p) \in Scripts
<1>1. Slots[p].type \in {"serial", "parallel", "usb"}
  BY SlotsAssumption
<1>b. 0 \in Bauds /\ "NONE" \in Flows /\ "NUL" \in Commands
  <2>1. "NUL" \in Commands
    BY CommandsAssumption
  <2> QED BY <2>1, BoundsAssumption DEF Flows, Bauds
<1>2. /\ \A c \in PlainNames : <<c>> \in Plain
      /\ <<"baud", 0>> \in Plain /\ <<"flow", "NONE">> \in Plain /\ <<"write", "NUL">> \in Plain
  BY <1>b, CallTyped
<1>3. ASSUME NEW S, NEW a \in S, NEW b \in S, NEW c \in S, NEW d \in S, NEW f \in S
      PROVE  <<a, b, c, d, f>> \in Seq(S) /\ <<a, b, c, d>> \in Seq(S)
  OBVIOUS
<1>c. ASSUME NEW S, NEW a \in S PROVE <<a>> \in Seq(S)
  OBVIOUS
<1>a. <<>> \in Seq(Plain)
  OBVIOUS
<1>4. CASE w = "create" /\ Slots[p].type = "serial"
  BY <1>2, <1>3, <1>4 DEF Script, Scripts, PlainNames
<1>5. CASE w = "create" /\ Slots[p].type = "parallel"
  BY <1>2, <1>3, <1>5 DEF Script, Scripts, PlainNames
<1>6. CASE w = "create" /\ Slots[p].type = "usb"
  <2>1. Script(w, p) = << <<"create">> >>
    BY <1>6 DEF Script
  <2>2. <<"create">> \in Plain
    BY <1>2 DEF PlainNames
  <2>3. << <<"create">> >> \in Seq(Plain)
    BY <1>c, <2>2
  <2> QED BY <2>1, <2>3 DEF Scripts
<1>7. CASE w = "wake" \/ w = "timeout"
  <2>1. Script(w, p) \in {<<>>, << <<"open">> >>, << <<"write timeout">> >>}
    BY <1>7 DEF Script
  <2>2. <<"open">> \in Plain /\ <<"write timeout">> \in Plain
    BY <1>2 DEF PlainNames
  <2>3. << <<"open">> >> \in Seq(Plain) /\ << <<"write timeout">> >> \in Seq(Plain)
    BY <1>c, <2>2
  <2> QED BY <1>a, <2>1, <2>3 DEF Scripts
<1>8. CASE w = "release"
  BY <1>2, <1>3, <1>8 DEF Script, Scripts, Releases
<1> QED BY <1>1, <1>4, <1>5, <1>6, <1>7, <1>8 DEF Parts4

LEMMA FirstTyped ==
  ASSUME NEW t \in {"serial", "parallel", "usb"}
  PROVE  FirstPort(t) \in Ports /\ Slots[FirstPort(t)].type = t
<1>1. \E p \in Ports : Slots[p].type = t /\ \A q \in 1 .. p - 1 : Slots[q].type # t
  BY SlotsAssumption
<1> QED BY <1>1 DEF FirstPort

LEMMA NextTyped ==
  ASSUME ScriptInv, stage # "done", NEW w \in Parts4, NEW n \in Nat, NextPort(w, n)
  PROVE  /\ stage' \in {"serial", "parallel", "usb", "done"} /\ what' \in Parts4
         /\ cur' \in Ports /\ script' \in Scripts
         /\ what' = "timeout" => n < MaxPrinters
<1> DEFINE more  == cur + 1 \in Ports /\ Slots[cur + 1].type = stage /\ (w = "timeout" => n < MaxPrinters)
           part  == IF more THEN w ELSE FollowingPart[w]
           group == IF ~more /\ w = "release" THEN FollowingStage[stage] ELSE stage
           port  == IF more THEN cur + 1 ELSE IF group = "done" THEN cur ELSE FirstPort(group)
<1>1. /\ stage' = group /\ cur' = port
      /\ IF part = "timeout" /\ n >= MaxPrinters
         THEN what' = "release" /\ script' = Script("release", port)
         ELSE /\ what' = part
              /\ script' = IF group = "done" THEN <<>> ELSE Script(part, port)
  BY DEF NextPort
<1>2. group \in {"serial", "parallel", "usb", "done"} /\ part \in Parts4
  BY DEF ScriptInv, FollowingStage, FollowingPart, Parts4
<1>3. port \in Ports
  <2>1. CASE more
    BY <2>1
  <2>2. CASE ~more /\ group = "done"
    BY <2>2 DEF ScriptInv
  <2>3. CASE ~more /\ group # "done"
    BY <1>2, <2>3, FirstTyped
  <2> QED BY <2>1, <2>2, <2>3
<1> HIDE DEF more, part, group, port
<1>4. Script(part, port) \in Scripts /\ Script("release", port) \in Scripts /\ <<>> \in Scripts
  <2>1. "release" \in Parts4
    BY DEF Parts4
  <2> QED BY <1>2, <1>3, <2>1, ScriptTyped DEF Scripts
<1>5. what' = "timeout" => n < MaxPrinters
  BY <1>1, SizesAssumption
<1> QED BY <1>1, <1>2, <1>3, <1>4, <1>5 DEF Parts4

-----------------------------------------------------------------------------
(* Every call of a script is one that a client may make.                   *)

LEMMA ParameterTyped ==
  ASSUME NEW c \in Plain \union {<<"try destroy">>, <<"free">>}
  PROVE  /\ c[1] = "baud" => c[2] \in Bauds
         /\ c[1] = "flow" => c[2] \in Flows
         /\ c[1] = "write" => c[2] \in Commands
         /\ c[1] = "free" => c = <<"free">> /\ c \notin Plain
         /\ c[1] = "try destroy" => c = <<"try destroy">> /\ c \notin Plain
<1>1. ASSUME NEW x \in Plain
      PROVE  /\ x[1] \in PlainNames \union {"baud", "flow", "write"}
             /\ x[1] = "baud" => x[2] \in Bauds
             /\ x[1] = "flow" => x[2] \in Flows
             /\ x[1] = "write" => x[2] \in Commands
  <2>1. CASE x \in {<<n>> : n \in PlainNames}
    <3>1. PICK n \in PlainNames : x = <<n>>
      BY <2>1
    <3>2. x[1] = n
      BY <3>1
    <3> QED BY <3>2 DEF PlainNames
  <2>2. CASE x \in {<<"baud", b>> : b \in Bauds}
    <3>1. PICK b \in Bauds : x = <<"baud", b>>
      BY <2>2
    <3>2. x[1] = "baud" /\ x[2] = b
      BY <3>1
    <3> QED BY <3>2
  <2>3. CASE x \in {<<"flow", f>> : f \in Flows}
    <3>1. PICK f \in Flows : x = <<"flow", f>>
      BY <2>3
    <3>2. x[1] = "flow" /\ x[2] = f
      BY <3>1
    <3> QED BY <3>2
  <2>4. CASE x \in {<<"write", w>> : w \in Commands}
    <3>1. PICK w \in Commands : x = <<"write", w>>
      BY <2>4
    <3>2. x[1] = "write" /\ x[2] = w
      BY <3>1
    <3> QED BY <3>2
  <2> QED BY <2>1, <2>2, <2>3, <2>4 DEF Plain
<1>2. ASSUME NEW x \in Plain PROVE x[1] # "free" /\ x[1] # "try destroy"
  BY <1>1 DEF PlainNames
<1>3. CASE c \in Plain
  BY <1>1, <1>2, <1>3
<1>4. CASE c = <<"try destroy">>
  <2>1. c[1] = "try destroy"
    BY <1>4
  <2>2. c \notin Plain
    BY <1>2, <2>1
  <2> QED BY <1>4, <2>1, <2>2
<1>5. CASE c = <<"free">>
  <2>1. c[1] = "free"
    BY <1>5
  <2>2. c \notin Plain
    BY <1>2, <2>1
  <2> QED BY <1>5, <2>1, <2>2
<1> QED BY <1>3, <1>4, <1>5

LEMMA HeadTyped ==
  ASSUME ScriptInv, script # <<>>
  PROVE  /\ Head(script) \in Plain \union {<<"try destroy">>, <<"free">>}
         /\ Tail(script) \in Scripts /\ <<>> \in Scripts
         /\ Head(script) = <<"try destroy">> => Tail(script) = << <<"free">> >>
         /\ Head(script) # <<"free">> => script # << <<"free">> >>
<1>1. <<"try flush">> \in Plain /\ <<"try close">> \in Plain
  BY CallTyped DEF PlainNames
<1>2. <<"try destroy">> \notin Plain /\ <<"free">> \notin Plain
  BY ParameterTyped DEF PlainNames
<1>3. ASSUME NEW a, NEW b, NEW c, NEW d
      PROVE  /\ Head(<<a, b, c, d>>) = a /\ Tail(<<a, b, c, d>>) = <<b, c, d>>
             /\ Head(<<b, c, d>>) = b /\ Tail(<<b, c, d>>) = <<c, d>>
             /\ Head(<<c, d>>) = c /\ Tail(<<c, d>>) = <<d>>
             /\ Head(<<d>>) = d /\ Tail(<<d>>) = <<>>
  OBVIOUS
<1>4. <<>> \in Seq(Plain)
  OBVIOUS
<1>5. Head(<< <<"free">> >>) = <<"free">>
  BY <1>3
<1>6. CASE script \in Seq(Plain)
  <2>1. Head(script) \in Plain /\ Tail(script) \in Seq(Plain)
    BY <1>6, HeadTailProperties
  <2> QED BY <1>2, <1>4, <1>5, <2>1 DEF Scripts
<1>7. CASE script \in Releases
  <2> DEFINE f == <<"try flush">>  c == <<"try close">>  d == <<"try destroy">>  x == <<"free">>
  <2>1. f # d /\ c # d /\ d # x
    OBVIOUS
  <2>3. script \in {<<f, c, d, x>>, <<c, d, x>>, <<d, x>>, <<x>>}
        /\ <<c, d, x>> \in Scripts /\ <<d, x>> \in Scripts /\ <<x>> \in Scripts /\ <<>> \in Scripts
    BY <1>4, <1>7 DEF Releases, Scripts
  <2>4. f \in Plain /\ c \in Plain
    BY <1>1
  <2> HIDE DEF f, c, d, x
  <2>2. /\ Head(<<f, c, d, x>>) = f /\ Tail(<<f, c, d, x>>) = <<c, d, x>>
        /\ Head(<<c, d, x>>) = c /\ Tail(<<c, d, x>>) = <<d, x>>
        /\ Head(<<d, x>>) = d /\ Tail(<<d, x>>) = <<x>>
        /\ Head(<<x>>) = x /\ Tail(<<x>>) = <<>>
    BY <1>3
  <2>5. /\ Head(script) \in {f, c, d, x} /\ Tail(script) \in Scripts
        /\ Head(script) = d => Tail(script) = <<x>>
        /\ Head(script) # x => script # <<x>>
    BY <2>1, <2>2, <2>3
  <2> QED BY <2>3, <2>4, <2>5 DEF f, c, d, x
<1> QED BY <1>6, <1>7 DEF ScriptInv, Scripts

LEMMA Called ==
  ASSUME ScriptInv, kind \in [Ports -> Kinds], script # <<>>, NEW e, Does(cur, Head(script), e)
  PROVE  /\ Calls(cur) \/ UNCHANGED vars
         /\ \A p \in Ports : kind'[p] = "destroyed" => p = cur /\ Head(script) = <<"try destroy">>
<1> DEFINE c == Head(script)
<1>1. c \in Plain \union {<<"try destroy">>, <<"free">>} /\ cur \in Ports
  BY HeadTyped DEF ScriptInv
<1> HIDE DEF c
<1>2. c # <<"free">> => Between
  BY HeadTyped DEF ScriptInv, Between, c
<1>3. Does(cur, c, e)
  BY DEF c
<1>4. CASE c[1] = "free"
  <2>1. c = <<"free">>
    BY <1>1, <1>4, ParameterTyped
  <2>2. (kind[cur] = "destroyed" /\ Frees(cur)) \/ (kind[cur] # "destroyed" /\ UNCHANGED vars)
    BY <1>3, <1>4 DEF Does
  <2>3. \A p \in Ports : kind'[p] # "destroyed"
    BY <1>1, <2>2 DEF ScriptInv, Frees, vars, ports
  <2> QED BY <2>2, <2>3 DEF Calls
<1>5. CASE c[1] # "free"
  <2>1. Between /\ \A p \in Ports : kind[p] # "destroyed"
    BY <1>2, <1>5 DEF Between
  <2>a. ASSUME kind' = kind PROVE \A p \in Ports : kind'[p] # "destroyed"
    BY <2>1, <2>a
  <2>2. CASE c[1] = "create" /\ Creates(cur)
    <3>1. \A p \in Ports : kind'[p] # "destroyed"
      <4>1. kind' = kind \/ \E k \in {"serial", "parallel", "usb"} : kind' = [kind EXCEPT ![cur] = k]
        <5>1. Slots[cur].type \in {"serial", "parallel", "usb"}
          BY <1>1, SlotsAssumption
        <5>2. CASE Slots[cur].type = "serial"
          BY <2>2, <5>2 DEF Creates, aps_create_serial_port, Builds
        <5>3. CASE Slots[cur].type = "parallel"
          BY <2>2, <5>3 DEF Creates, aps_create_parallel_port, Builds
        <5>4. CASE Slots[cur].type = "usb"
          BY <2>2, <5>4 DEF Creates, usb_list_ports
        <5> QED BY <5>1, <5>2, <5>3, <5>4
      <4> QED BY <1>1, <2>1, <4>1
    <3>2. Create(cur)
      <4>1. "OK" \in CreateErrors /\ Slots[cur].type \in {"serial", "parallel", "usb"}
            /\ (Slots[cur].type = "serial" => Slots[cur].device \in SerialDevices)
            /\ (Slots[cur].type = "parallel" => Slots[cur].device \in ParallelDevices)
        BY <1>1, SlotsAssumption DEF CreateErrors
      <4> QED BY <2>1, <2>2, <4>1 DEF Create, Creates
    <3> QED BY <3>1, <3>2 DEF Calls
  <2>3. CASE c[1] = "open" /\ Alone(cur) /\ e \in OpenErrors /\ aps_open(cur, e)
    BY <2>1, <2>3, <2>a DEF Open, Calls, aps_open, ports
  <2>4. CASE c[1] = "baud" /\ e \in SetErrors /\ aps_serial_set_baudrate(cur, c[2], e)
    BY <1>1, <2>1, <2>4, <2>a, ParameterTyped DEF SetSerial, Calls, aps_serial_set_baudrate, Keeps, ports
  <2>5. CASE c[1] = "flow" /\ e \in SetErrors /\ aps_serial_set_handshake(cur, c[2], e)
    BY <1>1, <2>1, <2>5, <2>a, ParameterTyped DEF SetSerial, Calls, aps_serial_set_handshake, Keeps, ports
  <2>6. CASE c[1] = "mode" /\ e \in SetErrors /\ \E m \in {"POLL", "IRQ"} : aps_parallel_set_mode(cur, m, e)
    BY <2>1, <2>6, <2>a DEF SetParallel, Calls, aps_parallel_set_mode, Keeps, ports
  <2>7. CASE c[1] = "reset" /\ e \in SetErrors /\ aps_parallel_reset(cur, e)
    BY <2>1, <2>7, <2>a DEF SetParallel, Calls, aps_parallel_reset, Keeps, ports
  <2>8. CASE e \in DrainErrors /\ aps_flush(cur, e)
    BY <2>1, <2>8, <2>a DEF Flush, Calls, aps_flush, Keeps, ports
  <2>9. CASE e \in DrainErrors /\ aps_sync(cur, e)
    BY <2>1, <2>9, <2>a DEF Sync, Calls, aps_sync, Keeps, ports
  <2>10. CASE c[1] = "write" /\ e \in WriteErrors /\ aps_write(cur, c[2], e)
    BY <1>1, <2>1, <2>10, <2>a, ParameterTyped DEF Write, Calls, aps_write, Keeps, ports
  <2>11. CASE e \in ReadErrors /\ aps_read(cur, 1, e)
    <3>1. 1 \in 1 .. MaxPending
      BY BoundsAssumption
    <3> QED BY <2>1, <2>11, <2>a, <3>1 DEF Read, Calls, aps_read, ports
  <2>12. CASE e \in SetErrors /\ (aps_set_read_timeout(cur, 1, e) \/ aps_set_write_timeout(cur, 1, e))
    <3>1. SetTimeouts(cur)
      BY <2>1, <2>12 DEF SetTimeouts
    <3>2. kind' = kind
      BY <2>12 DEF aps_set_read_timeout, aps_set_write_timeout, Keeps, ports
    <3> QED BY <2>a, <3>1, <3>2 DEF Calls
  <2>13. CASE e \in CloseErrors /\ aps_close(cur, e)
    BY <2>1, <2>13, <2>a DEF Shut, Calls, aps_close, ports
  <2>14. CASE c[1] = "try destroy" /\ e \in CloseErrors /\ aps_destroy_port(cur, e)
    <3>1. c = <<"try destroy">>
      BY <1>1, <2>14, ParameterTyped
    <3>2. \A p \in Ports : kind'[p] = "destroyed" => p = cur
      BY <2>1, <2>14 DEF aps_destroy_port
    <3>3. Destroy(cur)
      BY <2>1, <2>14 DEF Destroy
    <3> QED BY <3>1, <3>2, <3>3 DEF Calls, c
  <2> QED BY <1>3, <1>5, <2>2, <2>3, <2>4, <2>5, <2>6, <2>7, <2>8, <2>9, <2>10, <2>11, <2>12, <2>13, <2>14
          DEF Does
<1> QED BY <1>4, <1>5

-----------------------------------------------------------------------------
(* The invariant of detection.                                             *)

LEMMA StepKeeps ==
  ASSUME ScriptInv, RoomInv, kind \in [Ports -> Kinds], Step
  PROVE  ScriptInv' /\ RoomInv' /\ [Next]_vars
<1> DEFINE c == Head(script)
<1>1. PICK e \in Errors :
        /\ Does(cur, c, e)
        /\ ok' = (e = "OK" \/ c[1] \in Tried)
        /\ IF ~ok' THEN script' = <<>>
           ELSE script' = Tail(script) \/ (c[1] = "gets" /\ script' = script)
  BY DEF Step
<1>2. /\ script # <<>>
      /\ UNCHANGED <<stage, what, cur, baud, model, printers>>
  BY DEF Step
<1>3. /\ Calls(cur) \/ UNCHANGED vars
      /\ \A p \in Ports : kind'[p] = "destroyed" => p = cur /\ c = <<"try destroy">>
  BY <1>1, <1>2, Called
<1>4. script' \in Scripts
  BY <1>1, <1>2, HeadTyped DEF ScriptInv
<1>5. ASSUME NEW p \in Ports, kind'[p] = "destroyed" PROVE p = cur /\ script' = << <<"free">> >>
  <2>1. p = cur /\ c = <<"try destroy">>
    BY <1>3, <1>5
  <2>2. c[1] = "try destroy"
    <3>1. <<"try destroy">>[1] = "try destroy"
      OBVIOUS
    <3> HIDE DEF c
    <3> QED BY <2>1, <3>1
  <2>3. Tail(script) = << <<"free">> >>
    BY <1>2, <2>1, HeadTyped
  <2> HIDE DEF c
  <2>4. script' = Tail(script)
    BY <1>1, <2>2 DEF Tried
  <2> QED BY <2>1, <2>3, <2>4
<1>6. ScriptInv'
  BY <1>2, <1>4, <1>5 DEF ScriptInv
<1>7. RoomInv'
  BY <1>2 DEF RoomInv
<1>8. [Next]_vars
  BY <1>3 DEF Next, ScriptInv
<1> QED BY <1>6, <1>7, <1>8

LEMMA GotoKeeps ==
  ASSUME ScriptInv, RoomInv, script = <<>>, kind' = kind, what \in {"timeout"} \union Probes,
         NEW w \in Probes, NEW s \in Seq(Plain), Goto(w, s), baud' \in Bauds, UNCHANGED printers
  PROVE  ScriptInv' /\ RoomInv'
<1>1. what' = w /\ script' = s /\ UNCHANGED <<stage, cur>>
  BY DEF Goto
<1>2. \A p \in Ports : kind'[p] # "destroyed"
  BY DEF ScriptInv
<1> QED BY <1>1, <1>2 DEF ScriptInv, RoomInv, Scripts

LEMMA LeaveKeeps ==
  ASSUME ScriptInv, RoomInv, script = <<>>, stage # "done", kind' = kind, NEW w \in Parts4, Leave(w)
  PROVE  ScriptInv' /\ RoomInv'
<1>1. NextPort(w, Len(printers)) /\ UNCHANGED <<baud, printers>>
  BY DEF Leave
<1>2. Len(printers) \in Nat
  BY LenProperties DEF RoomInv
<1>3. \A p \in Ports : kind'[p] # "destroyed"
  BY DEF ScriptInv
<1>4. /\ stage' \in {"serial", "parallel", "usb", "done"} /\ what' \in Parts4
      /\ cur' \in Ports /\ script' \in Scripts
      /\ what' = "timeout" => Len(printers) < MaxPrinters
  BY <1>1, <1>2, NextTyped
<1>5. what' \notin Probes
  BY <1>4 DEF Parts4, Probes
<1> QED BY <1>1, <1>3, <1>4, <1>5 DEF ScriptInv, RoomInv

LEMMA ReportKeeps ==
  ASSUME ScriptInv, RoomInv, script = <<>>, stage # "done", kind' = kind, what \in Probes, UNCHANGED baud, Report
  PROVE  ScriptInv' /\ RoomInv'
<1>1. \E n \in Nat : /\ NextPort("timeout", n) /\ n = Len(printers') /\ n <= MaxPrinters
                     /\ \E S : printers' \in Seq(S)
  <2>1. PICK S : printers \in Seq(S)
    BY DEF RoomInv
  <2>2. Len(printers) \in Nat /\ Len(printers) < MaxPrinters
    BY <2>1, LenProperties DEF RoomInv
  <2>3. CASE printers' = printers /\ NextPort("timeout", Len(printers))
    BY <2>1, <2>2, <2>3, SizesAssumption
  <2>4. ASSUME NEW r, printers' = Append(printers, r), NextPort("timeout", Len(printers) + 1)
        PROVE  \E n \in Nat : /\ NextPort("timeout", n) /\ n = Len(printers') /\ n <= MaxPrinters
                              /\ \E T : printers' \in Seq(T)
    <3>1. printers \in Seq(S \union {r})
      BY <2>1
    <3>2. printers' \in Seq(S \union {r}) /\ Len(printers') = Len(printers) + 1
      BY <2>4, <3>1, AppendProperties
    <3>3. Len(printers) + 1 \in Nat /\ Len(printers) + 1 <= MaxPrinters
      BY <2>2, SizesAssumption
    <3> QED BY <2>4, <3>2, <3>3
  <2> QED BY <2>3, <2>4 DEF Report
<1>2. PICK n \in Nat : /\ NextPort("timeout", n) /\ n = Len(printers') /\ n <= MaxPrinters
                      /\ \E S : printers' \in Seq(S)
  BY <1>1
<1>3. \A p \in Ports : kind'[p] # "destroyed"
  BY DEF ScriptInv
<1>4. /\ stage' \in {"serial", "parallel", "usb", "done"} /\ what' \in Parts4
      /\ cur' \in Ports /\ script' \in Scripts
      /\ what' = "timeout" => n < MaxPrinters
  BY <1>2, NextTyped DEF Parts4
<1>5. what' \notin Probes
  BY <1>4 DEF Parts4, Probes
<1> QED BY <1>2, <1>3, <1>4, <1>5 DEF ScriptInv, RoomInv

LEMMA RecogniseKeeps ==
  ASSUME ScriptInv, RoomInv, script = <<>>, stage # "done", kind' = kind, what \in Probes, Recognise
  PROVE  ScriptInv' /\ RoomInv'
<1>1. CASE Goto("handshake", Handshake(model')) /\ UNCHANGED <<printers, baud>>
  <2>1. Handshake(model') \in Seq(Plain) /\ "handshake" \in Probes /\ baud' \in Bauds
    BY <1>1, HandshakeTyped DEF Probes, ScriptInv
  <2> QED BY <1>1, <2>1, GotoKeeps
<1>2. CASE Report /\ UNCHANGED baud
  BY <1>2, ReportKeeps
<1> QED BY <1>1, <1>2 DEF Recognise

LEMMA DecideKeeps ==
  ASSUME ScriptInv, RoomInv, Decide
  PROVE  ScriptInv' /\ RoomInv' /\ UNCHANGED vars
<1>1. script = <<>> /\ stage # "done" /\ UNCHANGED vars /\ kind' = kind
  BY DEF Decide, vars, ports
<1>2. ASSUME NEW w \in Parts4, Leave(w) PROVE ScriptInv' /\ RoomInv'
  BY <1>1, <1>2, LeaveKeeps
<1>3. ASSUME NEW w \in {"aps", "escpos"}, Queries(w), what \in {"timeout"} \union Probes
      PROVE  ScriptInv' /\ RoomInv'
  <2>1. PICK s \in Seq(Plain) : Goto(w, s)
    BY <1>3, ModelTyped DEF Queries
  <2>2. w \in Probes /\ baud' \in Bauds /\ printers' = printers
    BY <1>3 DEF Queries, Probes, ScriptInv
  <2> QED BY <1>1, <1>3, <2>1, <2>2, GotoKeeps
<1>4. ASSUME NEW b \in Bauds, Tunes(b), what \in {"timeout"} \union Probes PROVE ScriptInv' /\ RoomInv'
  <2>1. Goto("tune", Tune(b)) /\ baud' \in Bauds /\ printers' = printers
    BY <1>4 DEF Tunes
  <2>2. Tune(b) \in Seq(Plain) /\ "tune" \in Probes
    BY TuneTyped DEF Probes
  <2> QED BY <1>1, <1>4, <2>1, <2>2, GotoKeeps
<1>5. ASSUME Recognise, what \in Probes PROVE ScriptInv' /\ RoomInv'
  BY <1>1, <1>5, RecogniseKeeps
<1>6. MaxBaud \in Bauds /\ (baud > 0 => baud - 1 \in Bauds)
  BY BoundsAssumption DEF ScriptInv, Bauds
<1>7. CASE what \in {"create", "wake", "release"} /\ Leave(what)
  BY <1>1, <1>2, <1>7 DEF Parts4
<1>8. CASE what = "timeout" /\ (Leave("timeout") \/ Tunes(MaxBaud) \/ Queries("aps"))
  BY <1>1, <1>2, <1>3, <1>4, <1>6, <1>8 DEF Parts4
<1>9. CASE what \in {"tune", "aps", "escpos"}
           /\ (Queries("aps") \/ Queries("escpos") \/ Leave("timeout") \/ Recognise
               \/ (baud > 0 /\ Tunes(baud - 1)))
  BY <1>1, <1>2, <1>3, <1>4, <1>5, <1>6, <1>9 DEF Parts4, Probes
<1>10. CASE /\ what = "handshake"
            /\ \/ Leave("timeout")
               \/ (\E f \in FlowFrom(model, text) : Goto("set", SetFlow(model, f)))
                  /\ UNCHANGED <<baud, model, printers>>
  <2>1. CASE Leave("timeout")
    BY <1>1, <1>2, <2>1 DEF Parts4
  <2>2. ASSUME NEW f \in FlowFrom(model, text), Goto("set", SetFlow(model, f)), UNCHANGED <<baud, printers>>
        PROVE  ScriptInv' /\ RoomInv'
    <3>1. f \in Flows
      <4>1. FlowFrom(model, text) \in {{"XONXOFF"}, {"RTSCTS"}, {"RTSCTS", "XONXOFF"}}
        BY DEF FlowFrom
      <4> QED BY <4>1 DEF Flows
    <3>2. SetFlow(model, f) \in Seq(Plain) /\ "set" \in Probes /\ baud' \in Bauds /\ what \in Probes
      BY <1>10, <2>2, <3>1, SetFlowTyped DEF Probes, ScriptInv
    <3> QED BY <1>1, <2>2, <3>2, GotoKeeps
  <2> QED BY <1>1, <1>10, <2>1, <2>2
<1>11. CASE what = "set" /\ (Leave("timeout") \/ (UNCHANGED <<baud, model>> /\ Report))
  <2>1. what \in Probes
    BY <1>11 DEF Probes
  <2> QED BY <1>1, <1>2, <1>11, <2>1, ReportKeeps DEF Parts4
<1> QED BY <1>1, <1>7, <1>8, <1>9, <1>10, <1>11 DEF Decide

LEMMA DetectStarts == DetectInit => Init /\ IInv /\ ScriptInv /\ RoomInv
<1> SUFFICES ASSUME DetectInit PROVE Init /\ IInv /\ ScriptInv /\ RoomInv
  OBVIOUS
<1>1. Init /\ stage = "serial" /\ what = "create" /\ cur = FirstPort("serial")
      /\ script = Script("create", cur) /\ baud = MaxBaud /\ printers = <<>>
  BY DEF DetectInit
<1>2. IInv
  BY <1>1, Initially
<1>3. cur \in Ports /\ "create" \in Parts4
  BY <1>1, FirstTyped DEF Parts4
<1>4. script \in Scripts
  BY <1>1, <1>3, ScriptTyped
<1>5. \A p \in Ports : kind[p] # "destroyed"
  BY <1>1 DEF Init
<1>6. ScriptInv
  BY <1>1, <1>3, <1>4, <1>5, BoundsAssumption DEF ScriptInv, Bauds
<1>7. RoomInv
  <2>1. <<>> \in Seq({}) /\ Len(<<>>) = 0
    BY EmptySeq
  <2> QED BY <1>1, <2>1, SizesAssumption DEF RoomInv, Probes
<1> QED BY <1>1, <1>2, <1>6, <1>7

LEMMA DetectSteps ==
  ASSUME IInv, ScriptInv, RoomInv, [DetectNext]_<<vars, detectVars>>
  PROVE  ScriptInv' /\ RoomInv' /\ [Next]_vars
<1>1. kind \in [Ports -> Kinds]
  BY DEF IInv, TypeOK, PortTypes
<1>2. CASE Environment /\ UNCHANGED detectVars
  <2>1. kind' = kind
    BY <1>2, EnvironmentFrame DEF Same
  <2> QED BY <1>2, <2>1 DEF Next, ScriptInv, RoomInv, detectVars
<1>3. CASE UNCHANGED <<vars, detectVars>>
  BY <1>3 DEF ScriptInv, RoomInv, detectVars, vars, ports
<1> QED BY <1>1, <1>2, <1>3, StepKeeps, DecideKeeps DEF DetectNext

LEMMA Detecting == DetectSpec => Spec /\ [](ScriptInv /\ RoomInv)
<1> HIDE DEF vars, detectVars
<1>1. DetectInit => Init /\ IInv /\ ScriptInv /\ RoomInv
  BY DetectStarts
<1>2. IInv /\ ScriptInv /\ RoomInv /\ [DetectNext]_<<vars, detectVars>> =>
        (IInv /\ ScriptInv /\ RoomInv)' /\ [Next]_vars
  BY DetectSteps, Inductive
<1> QED BY <1>1, <1>2, PTL DEF DetectSpec, Spec

(* A process that detects printers makes the calls of the port class as a  *)
(* client may: it goes on after errors, gives up ports half open and frees *)
(* them, and never uses a port it has freed.                               *)
THEOREM DetectionIsClient == DetectSpec => Spec
BY Detecting, PTL

(* So the descriptors, the line settings, the kernel drivers and the bytes *)
(* of the printers are handled in it as libaps promises.                   *)
THEOREM DetectionInherits ==
  DetectSpec => [](HandlesAccounted /\ SettingsKept /\ DriverBack) /\ Contract
BY DetectionIsClient, NoHandleLost, LineHasSettings, DriverReturns, KeepsContract, PTL

(* Detection never writes behind the end of its caller's array: the loops  *)
(* of detect_serial, detect_parallel and detect_usb count what the ones    *)
(* before have found.                                                      *)
THEOREM ArrayIsEnough == DetectSpec => [](Len(printers) <= MaxPrinters)
<1>1. RoomInv => Len(printers) <= MaxPrinters
  BY DEF RoomInv
<1> QED BY <1>1, Detecting, PTL

Rest(s, m) == Len(s) <= Len(m) /\ \A i \in 1 .. Len(s) : s[i] = m[Len(m) - Len(s) + i]

LEMMA RestSelf == ASSUME NEW S, NEW s \in Seq(S) PROVE Rest(s, s)
BY DEF Rest

LEMMA RestEmpty == ASSUME NEW S, NEW s \in Seq(S) PROVE Rest(<<>>, s)
<1>1. Len(<<>>) = 0 /\ Len(s) \in Nat
  OBVIOUS
<1> QED BY <1>1 DEF Rest

LEMMA RestTail ==
  ASSUME NEW S, NEW s \in Seq(S), NEW T, NEW t \in Seq(T), t # <<>>, Rest(t, s)
  PROVE  Rest(Tail(t), s) /\ Head(t) = s[Len(s) - Len(t) + 1] /\ Len(t) \in 1 .. Len(s)
         /\ Len(Tail(t)) = Len(t) - 1
<1>1. Len(t) \in Nat /\ Len(s) \in Nat /\ Len(t) # 0
  OBVIOUS
<1>2. Len(Tail(t)) = Len(t) - 1 /\ \A i \in 1 .. Len(t) - 1 : Tail(t)[i] = t[i + 1]
  OBVIOUS
<1>3. ASSUME NEW i \in 1 .. Len(t) - 1 PROVE Tail(t)[i] = s[Len(s) - (Len(t) - 1) + i]
  <2>1. i + 1 \in 1 .. Len(t) /\ Len(s) - Len(t) + (i + 1) = Len(s) - (Len(t) - 1) + i
    BY <1>1
  <2>2. t[i + 1] = s[Len(s) - Len(t) + (i + 1)]
    BY <2>1 DEF Rest
  <2> QED BY <1>2, <2>1, <2>2
<1>4. Head(t) = t[1] /\ 1 \in 1 .. Len(t)
  BY <1>1
<1>5. Head(t) = s[Len(s) - Len(t) + 1]
  BY <1>4 DEF Rest
<1>6. Len(t) <= Len(s)
  BY DEF Rest
<1> QED BY <1>1, <1>2, <1>3, <1>5, <1>6 DEF Rest

(* The calls of the scripts, by how many are left.                         *)
LEMMA ModelLength == ASSUME NEW a, NEW b PROVE Len(Model(a, b)) = 18
BY DEF Model

QueryNames == {"flush", "write", "sync", "read", "try read", "gets", "read timeout"}

CallIs(n, name, word, a, b) ==
  \/ n = 1 /\ name = "flush"
  \/ n \in 2 .. 15 /\ name \in {"flush", "sync", "read", "try read", "read timeout"}
  \/ n \in 2 .. 15 /\ name = "write" /\ word \in {"CAN", a}
  \/ n = 16 /\ name = "write" /\ word = b
  \/ n = 17 /\ name = "sync"
  \/ n = 18 /\ name = "gets"

LEMMA ModelCall ==
  ASSUME NEW a, NEW b, NEW n \in 1 .. 18, NEW c, c = Model(a, b)[n]
  PROVE  CallIs(n, c[1], c[2], a, b)
<1>1. Model(a, b)[1][1] = "flush"
  BY DEF Model
<1>2. Model(a, b)[2][1] = "write" /\ Model(a, b)[2][2] = "CAN"
  BY DEF Model
<1>3. Model(a, b)[3][1] = "sync"
  BY DEF Model
<1>4. Model(a, b)[4][1] = "flush"
  BY DEF Model
<1>5. Model(a, b)[5][1] = "read timeout"
  BY DEF Model
<1>6. Model(a, b)[6][1] = "write" /\ Model(a, b)[6][2] = a
  BY DEF Model
<1>7. Model(a, b)[7][1] = "sync"
  BY DEF Model
<1>8. Model(a, b)[8][1] = "read"
  BY DEF Model
<1>9. Model(a, b)[9][1] = "read timeout"
  BY DEF Model
<1>10. Model(a, b)[10][1] = "try read"
  BY DEF Model
<1>11. Model(a, b)[11][1] = "try read"
  BY DEF Model
<1>12. Model(a, b)[12][1] = "write" /\ Model(a, b)[12][2] = "CAN"
  BY DEF Model
<1>13. Model(a, b)[13][1] = "sync"
  BY DEF Model
<1>14. Model(a, b)[14][1] = "flush"
  BY DEF Model
<1>15. Model(a, b)[15][1] = "read timeout"
  BY DEF Model
<1>16. Model(a, b)[16][1] = "write" /\ Model(a, b)[16][2] = b
  BY DEF Model
<1>17. Model(a, b)[17][1] = "sync"
  BY DEF Model
<1>18. Model(a, b)[18][1] = "gets"
  BY DEF Model
<1>a. n = 1 \/ n = 2 \/ n = 3 \/ n = 4 \/ n = 5 \/ n = 6 \/ n = 7 \/ n = 8 \/ n = 9 \/ n = 10
      \/ n = 11 \/ n = 12 \/ n = 13 \/ n = 14 \/ n = 15 \/ n = 16 \/ n = 17 \/ n = 18
  OBVIOUS
<1>b. n = 1 \/ n = 16 \/ n = 17 \/ n = 18 \/ n \in 2 .. 15
  OBVIOUS
<1>22. CASE n = 2
  <2>1. n \in 2 .. 15
    BY <1>22
  <2> QED BY <1>2, <1>22, <2>1, Zenon DEF CallIs
<1>23. CASE n = 3
  <2>1. n \in 2 .. 15
    BY <1>23
  <2> QED BY <1>3, <1>23, <2>1, Zenon DEF CallIs
<1>24. CASE n = 4
  <2>1. n \in 2 .. 15
    BY <1>24
  <2> QED BY <1>4, <1>24, <2>1, Zenon DEF CallIs
<1>25. CASE n = 5
  <2>1. n \in 2 .. 15
    BY <1>25
  <2> QED BY <1>5, <1>25, <2>1, Zenon DEF CallIs
<1>26. CASE n = 6
  <2>1. n \in 2 .. 15
    BY <1>26
  <2> QED BY <1>6, <1>26, <2>1, Zenon DEF CallIs
<1>27. CASE n = 7
  <2>1. n \in 2 .. 15
    BY <1>27
  <2> QED BY <1>7, <1>27, <2>1, Zenon DEF CallIs
<1>28. CASE n = 8
  <2>1. n \in 2 .. 15
    BY <1>28
  <2> QED BY <1>8, <1>28, <2>1, Zenon DEF CallIs
<1>29. CASE n = 9
  <2>1. n \in 2 .. 15
    BY <1>29
  <2> QED BY <1>9, <1>29, <2>1, Zenon DEF CallIs
<1>30. CASE n = 10
  <2>1. n \in 2 .. 15
    BY <1>30
  <2> QED BY <1>10, <1>30, <2>1, Zenon DEF CallIs
<1>31. CASE n = 11
  <2>1. n \in 2 .. 15
    BY <1>31
  <2> QED BY <1>11, <1>31, <2>1, Zenon DEF CallIs
<1>32. CASE n = 12
  <2>1. n \in 2 .. 15
    BY <1>32
  <2> QED BY <1>12, <1>32, <2>1, Zenon DEF CallIs
<1>33. CASE n = 13
  <2>1. n \in 2 .. 15
    BY <1>33
  <2> QED BY <1>13, <1>33, <2>1, Zenon DEF CallIs
<1>34. CASE n = 14
  <2>1. n \in 2 .. 15
    BY <1>34
  <2> QED BY <1>14, <1>34, <2>1, Zenon DEF CallIs
<1>35. CASE n = 15
  <2>1. n \in 2 .. 15
    BY <1>35
  <2> QED BY <1>15, <1>35, <2>1, Zenon DEF CallIs
<1> QED BY <1>a, <1>1, <1>16, <1>17, <1>18, <1>22, <1>23, <1>24, <1>25, <1>26, <1>27, <1>28, <1>29, <1>30, <1>31, <1>32, <1>33, <1>34, <1>35, Zenon DEF CallIs

LEMMA ModelLong ==
  ASSUME NEW a, NEW b
  PROVE  \E S : Model(a, b) \in Seq(S)
<1> DEFINE S == {<<"flush">>, <<"sync">>, <<"read timeout">>, <<"read">>, <<"try read">>, <<"gets">>,
                <<"write", "CAN">>, <<"write", a>>, <<"write", b>>}
<1>1. /\ <<"flush">> \in S /\ <<"sync">> \in S /\ <<"read timeout">> \in S /\ <<"read">> \in S
      /\ <<"try read">> \in S /\ <<"gets">> \in S
      /\ <<"write", "CAN">> \in S /\ <<"write", a>> \in S /\ <<"write", b>> \in S
  OBVIOUS
<1>2. ASSUME NEW T, NEW u \in T, NEW v \in T, NEW c \in T, NEW d \in T, NEW f \in T, NEW g \in T,
             NEW h \in T, NEW j \in T, NEW k \in T
      PROVE  <<u, v, c, u, d, f, c, g, d, h, h, v, c, u, d, j, c, k>> \in Seq(T)
  OBVIOUS
<1> HIDE DEF S
<1>3. Model(a, b) \in Seq(S)
  BY <1>1, <1>2 DEF Model
<1> QED BY <1>3

LEMMA HeadOfRest ==
  ASSUME NEW S, NEW s \in Seq(S), NEW T, NEW t \in Seq(T), t # <<>>, Rest(t, s), NEW l \in Nat, Len(s) = l
  PROVE  \E n \in 1 .. l : Len(t) = l + 1 - n /\ Head(t) = s[n]
<1>1. Head(t) = s[Len(s) - Len(t) + 1] /\ Len(t) \in 1 .. Len(s)
  BY RestTail
<1>2. ASSUME NEW k \in 1 .. l PROVE l - k + 1 \in 1 .. l /\ k = l + 1 - (l - k + 1)
  OBVIOUS
<1>3. Len(t) \in 1 .. l /\ Head(t) = s[l - Len(t) + 1]
  BY <1>1
<1> QED BY <1>2, <1>3

LEMMA ModelHead ==
  ASSUME NEW a, NEW b, NEW S, NEW s \in Seq(S), s # <<>>, Rest(s, Model(a, b))
  PROVE  /\ Len(s) \in 1 .. 18
         /\ Head(s)[1] \in QueryNames
         /\ Len(s) = 18 => Head(s)[1] = "flush"
         /\ Head(s)[1] = "write" => Head(s)[2] \in {"CAN", a, b} /\ (Len(s) > 3 => Head(s)[2] \in {"CAN", a})
         /\ Len(s) = 3 => Head(s)[1] = "write" /\ Head(s)[2] = b
         /\ Len(s) = 2 => Head(s)[1] = "sync"
         /\ Len(s) = 1 <=> Head(s)[1] = "gets"
<1>1. PICK T : Model(a, b) \in Seq(T)
  BY ModelLong
<1>2. Len(Model(a, b)) = 18
  BY ModelLength
<1>3. PICK n \in 1 .. 18 : Len(s) = 18 + 1 - n /\ Head(s) = Model(a, b)[n]
  BY <1>1, <1>2, HeadOfRest
<1>h. PICK h : h = Head(s) /\ h = Model(a, b)[n]
  BY <1>3
<1> DEFINE name == h[1]  word == h[2]
<1>4. CallIs(n, name, word, a, b)
  BY <1>h, ModelCall
<1> HIDE DEF name, word
<1>a. /\ name \in {"flush", "sync", "read", "try read", "read timeout"} => name \in QueryNames /\ name # "write" /\ name # "gets"
      /\ "flush" # "write" /\ "flush" # "gets" /\ "write" # "gets" /\ "sync" # "gets" /\ "sync" # "write"
      /\ "flush" \in QueryNames /\ "write" \in QueryNames /\ "sync" \in QueryNames /\ "gets" \in QueryNames
  BY DEF QueryNames
<1>b. n \in 2 .. 15 => n # 1 /\ n # 16 /\ n # 17 /\ n # 18
  OBVIOUS
<1>c. /\ n = 1 => n # 16 /\ n # 17 /\ n # 18
      /\ n = 16 => n # 1 /\ n # 17 /\ n # 18
      /\ n = 17 => n # 1 /\ n # 16 /\ n # 18
      /\ n = 18 => n # 1 /\ n # 16 /\ n # 17
  OBVIOUS
<1>5. /\ n = 1 => name = "flush"
      /\ n = 16 => name = "write" /\ word = b
      /\ n = 17 => name = "sync"
      /\ n = 18 <=> name = "gets"
      /\ name \in QueryNames
      /\ name = "write" => word \in {"CAN", a} \/ (n = 16 /\ word = b)
  BY <1>4, <1>a, <1>b, <1>c, Zenon DEF CallIs
<1>6. /\ Len(s) = 18 => n = 1
      /\ Len(s) = 3 => n = 16
      /\ Len(s) = 2 => n = 17
      /\ Len(s) = 1 <=> n = 18
      /\ Len(s) > 3 => n # 16
      /\ Len(s) \in 1 .. 18
  BY <1>3
<1> QED BY <1>h, <1>5, <1>6, Zenon DEF name, word

-----------------------------------------------------------------------------
(* What a step may do to the queues of a device.                           *)

Dropped(d) == inq'[d] \in {inq[d], <<>>} /\ outq'[d] \in {outq[d], <<>>} /\ todo'[d] \in {todo[d], <<>>}

Taken(d) == inq[d] # <<>> /\ inq'[d] = Tail(inq[d]) /\ got' = <<Head(inq[d])>>
            /\ outq'[d] = outq[d] /\ todo'[d] = todo[d]

Put(d, c) == outq'[d] = <<c>> /\ inq'[d] = inq[d] /\ todo'[d] = todo[d]

Given(d, c) == (\E a \in Answers(d, c) : todo'[d] = todo[d] \o a) /\ inq'[d] = inq[d] /\ outq'[d] = outq[d]

Sent(d) == outq[d] # <<>> /\ outq'[d] = <<>> /\ inq'[d] = inq[d]
           /\ \E a \in Answers(d, Head(outq[d])) : todo'[d] = todo[d] \o a

Arrived(d) ==
  /\ todo[d] # <<>> /\ todo'[d] = Tail(todo[d]) /\ outq'[d] = outq[d]
  /\ inq'[d] = inq[d] \/ inq'[d] = Append(inq[d], Arriving(d))

Live(p) == is_open[p] /\ p \notin misclosed

(* The ports are those of the slots.                                       *)
DevInv ==
  \A p \in Ports : kind[p] \notin {"free", "destroyed"} =>
    kind[p] = Slots[p].type /\ dev[p] = IF kind[p] = "usb" THEN NoDevice ELSE Slots[p].device

USE DEF queues, Devices, Streams, world

LEMMA OpenKinds ==
  ASSUME DevInv, PortTypes, PortInv, NEW p \in Ports, is_open[p]
  PROVE  \/ kind[p] = "serial" /\ dev[p] \in SerialDevices
         \/ kind[p] = "parallel" /\ dev[p] \in ParallelDevices
<1>1. kind[p] \in Transports /\ dev[p] # NoDevice /\ Fits(kind[p], dev[p])
  BY DEF PortInv
<1>2. kind[p] = Slots[p].type /\ (kind[p] = "usb" => dev[p] = NoDevice)
  BY <1>1 DEF DevInv, Transports
<1>3. kind[p] \in {"serial", "parallel"}
  BY <1>1, <1>2, SlotsAssumption
<1> QED BY <1>1, <1>3 DEF Fits

LEMMA ReachedLive ==
  ASSUME PortTypes, HandlesAccounted, NEW p \in Ports, is_open[p], InUse(p), Reached(p) \in Devices
  PROVE  Live(p) /\ Reached(p) = dev[p]
  BY ReachedOwn DEF Live

(* A call that writes, reads or drains does one of these things to the     *)
(* device of its port.                                                     *)
CallMoves(p, c, d) ==
  \/ Dropped(d)
  \/ /\ Live(p) /\ d = dev[p]
     /\ \/ c[1] \in {"read", "try read", "gets"} /\ Taken(d)
        \/ c[1] = "write" /\ (Put(d, c[2]) \/ Given(d, c[2]))
        \/ c[1] = "sync" /\ Sent(d)

LEMMA FlushMoves ==
  ASSUME PortTypes, QueueTypes, PortInv, HandlesAccounted, DevInv, NEW p \in Ports, NEW e, aps_flush(p, e),
         NEW x \in Devices
  PROVE  Dropped(x)
<1>1. CASE NotOpen(p, e)
  BY <1>1 DEF NotOpen, Dropped
<1>2. CASE is_open[p] /\ flush(p, e)
  <2>1. serial_flush(p, e) \/ par_flush(p, e)
    BY <1>2, OpenKinds DEF flush
  <2>2. UNCHANGED queues \/ Hangup(Reached(p))
    BY <2>1 DEF serial_flush, par_flush
  <2> QED BY <2>2 DEF Hangup, Dropped, QueueTypes
<1> QED BY <1>1, <1>2 DEF aps_flush

LEMMA SyncMoves ==
  ASSUME PortTypes, QueueTypes, PortInv, HandlesAccounted, DevInv, NEW p \in Ports, NEW e, aps_sync(p, e),
         NEW x \in Devices
  PROVE  Dropped(x) \/ (Live(p) /\ x = dev[p] /\ Sent(x))
<1>1. CASE UNCHANGED queues
  BY <1>1 DEF Dropped
<1>2. CASE is_open[p] /\ Reached(p) \in Streams /\ Sends(Reached(p)) /\ inq' = inq
  <2>1. Live(p) /\ Reached(p) = dev[p] /\ dev[p] \in Devices
    <3>1. InUse(p) /\ Reached(p) \in Devices
      BY <1>2 DEF aps_sync, Streams
    <3> QED BY <1>2, <3>1, ReachedLive
  <2>2. CASE outq[dev[p]] = <<>>
    BY <1>2, <2>1, <2>2 DEF Sends, Dropped
  <2>3. CASE outq[dev[p]] # <<>>
    <3>1. PICK a \in Answers(dev[p], Head(outq[dev[p]])) : todo' = [todo EXCEPT ![dev[p]] = @ \o a]
      BY <1>2, <2>1, <2>3 DEF Sends, Receives
    <3>2. outq' = [outq EXCEPT ![dev[p]] = <<>>]
      BY <1>2, <2>1, <2>3 DEF Sends
    <3>3. CASE x # dev[p]
      BY <1>2, <3>1, <3>2, <3>3 DEF Dropped, QueueTypes
    <3>4. CASE x = dev[p]
      BY <1>2, <2>1, <2>3, <3>1, <3>2, <3>4 DEF Sent, QueueTypes
    <3> QED BY <3>3, <3>4
  <2> QED BY <2>2, <2>3
<1>3. CASE is_open[p] /\ sync(p, e)
  <2>1. serial_sync(p, e) \/ par_sync(p, e)
    BY <1>3, OpenKinds DEF sync
  <2> QED BY <1>1, <1>2, <1>3, <2>1 DEF serial_sync, par_sync
<1> QED BY <1>1, <1>3 DEF aps_sync, NotOpen

LEMMA WriteMoves ==
  ASSUME PortTypes, QueueTypes, PortInv, HandlesAccounted, DevInv, NEW p \in Ports, NEW c, NEW e,
         aps_write(p, c, e), NEW x \in Devices
  PROVE  Dropped(x) \/ (Live(p) /\ x = dev[p] /\ (Put(x, c) \/ Given(x, c)))
<1>1. CASE UNCHANGED queues
  BY <1>1 DEF Dropped
<1>2. CASE is_open[p] /\ Reached(p) \in Devices /\ UNCHANGED <<inq, todo>> /\ outq' = [outq EXCEPT ![Reached(p)] = <<c>>]
  <2>1. Live(p) /\ Reached(p) = dev[p] /\ dev[p] \in Devices
    BY <1>2, ReachedLive DEF aps_write
  <2>2. CASE x # dev[p]
    BY <1>2, <2>1, <2>2 DEF Dropped, QueueTypes
  <2>3. CASE x = dev[p]
    BY <1>2, <2>1, <2>3 DEF Put, QueueTypes
  <2> QED BY <2>2, <2>3
<1>3. CASE is_open[p] /\ Reached(p) \in Devices /\ UNCHANGED <<inq, outq>> /\ Receives(Reached(p), c)
  <2>1. Live(p) /\ Reached(p) = dev[p] /\ dev[p] \in Devices
    BY <1>3, ReachedLive DEF aps_write
  <2>2. PICK a \in Answers(dev[p], c) : todo' = [todo EXCEPT ![dev[p]] = @ \o a]
    BY <1>3, <2>1 DEF Receives
  <2>3. CASE x # dev[p]
    BY <1>3, <2>2, <2>3 DEF Dropped, QueueTypes
  <2>4. CASE x = dev[p]
    BY <1>3, <2>1, <2>2, <2>4 DEF Given, QueueTypes
  <2> QED BY <2>3, <2>4
<1>4. CASE is_open[p] /\ write(p, c, e)
  <2>1. serial_write(p, c, e) \/ par_write(p, c, e)
    BY <1>4, OpenKinds DEF write
  <2>2. CASE serial_write(p, c, e)
    <3>1. \/ UNCHANGED queues
          \/ Reached(p) \in Streams /\ UNCHANGED <<inq, todo>> /\ outq' = [outq EXCEPT ![Reached(p)] = <<c>>]
      BY <2>2 DEF serial_write, WriteStream
    <3> QED BY <1>1, <1>2, <1>4, <3>1 DEF Streams
  <2>3. CASE par_write(p, c, e)
    <3>1. \/ UNCHANGED queues
          \/ Reached(p) \in ParallelDevices /\ UNCHANGED <<inq, outq>> /\ Receives(Reached(p), c)
      BY <2>3 DEF par_write
    <3> QED BY <1>1, <1>3, <1>4, <3>1
  <2> QED BY <2>1, <2>2, <2>3
<1> QED BY <1>1, <1>4 DEF aps_write, NotOpen

LEMMA ReadOne ==
  ASSUME NEW S, NEW s \in Seq(S), NEW k \in 0 .. Len(s), NEW e, NEW t,
         ReadsFrom(s, 1, k, e, t) \/ (k < 1 /\ e # "OK" /\ got' = <<>>)
  PROVE  \/ e # "OK" /\ k = 0 /\ got' = <<>>
         \/ /\ e = "OK" /\ k = 1 /\ s # <<>> /\ got' = <<Head(s)>>
            /\ SubSeq(s, k + 1, Len(s)) = Tail(s)
<1>1. Len(s) \in Nat
  OBVIOUS
<1>2. CASE e = "OK" /\ Len(s) >= 1 /\ k = 1 /\ got' = SubSeq(s, 1, 1)
  <2>1. s # <<>> /\ SubSeq(s, 1, 1) = <<Head(s)>>
    <3>1. s # <<>> /\ Head(s) = s[1]
      BY <1>2
    <3>2. SubSeq(s, 1, 1) = <<s[1]>>
      <4>1. SubSeq(s, 1, 1) \in Seq(S) /\ Len(SubSeq(s, 1, 1)) = 1 /\ SubSeq(s, 1, 1)[1] = s[1]
        BY <1>2
      <4>2. ASSUME NEW u \in Seq(S), Len(u) = 1 PROVE u = <<u[1]>>
        BY <4>2
      <4> QED BY <4>1, <4>2
    <3> QED BY <3>1, <3>2
  <2>2. SubSeq(s, k + 1, Len(s)) = Tail(s)
    BY <1>2
  <2> QED BY <1>2, <2>1, <2>2
<1>3. CASE e = "READ_TIMEOUT" /\ Len(s) < 1 /\ k = Len(s) /\ got' = <<>>
  BY <1>1, <1>3
<1>4. CASE e # "OK" /\ k < 1 /\ got' = <<>>
  BY <1>1, <1>4
<1> QED BY <1>2, <1>3, <1>4 DEF ReadsFrom

(* Reading one byte.                                                       *)
LEMMA ReadMoves ==
  ASSUME PortTypes, QueueTypes, PortInv, HandlesAccounted, DevInv, NEW p \in Ports, NEW e,
         aps_read(p, 1, e), NEW x \in Devices
  PROVE  /\ Dropped(x) \/ (Live(p) /\ x = dev[p] /\ Taken(x))
         /\ e # "OK" => got' = <<>> /\ UNCHANGED queues
         /\ e = "OK" => Live(p) /\ dev[p] \in SerialDevices \union ParallelDevices /\ Taken(dev[p])
<1>1. CASE NotOpen(p, e) /\ got' = <<>>
  BY <1>1 DEF Dropped, NotOpen
<1>2. CASE is_open[p] /\ read(p, 1, e)
  <2> DEFINE d == Reached(p)  s == IF d \in Devices THEN inq[d] ELSE <<>>
  <2>1. s \in Seq(Bytes)
    BY DEF QueueTypes
  <2>2. \E k \in 0 .. Len(s) :
          /\ ReadsFrom(s, 1, k, e, read_timeout[p]) \/ (k < 1 /\ e # "OK" /\ got' = <<>>)
          /\ inq' = IF k = 0 THEN inq ELSE [inq EXCEPT ![d] = SubSeq(s, k + 1, Len(s))]
          /\ UNCHANGED <<outq, todo>>
    <3>1. CASE kind[p] = "serial" /\ serial_read(p, 1, e)
      <4>1. d \in Devices => d = dev[p] /\ d \in SerialDevices
        BY <1>2, <3>1, ReachedLive, OpenKinds DEF aps_read
      <4>2. d \in Streams <=> d \in Devices
        BY <4>1 DEF Streams
      <4> QED BY <3>1, <4>2 DEF serial_read, ReadStream
    <3>2. CASE kind[p] = "parallel" /\ par_read(p, 1, e)
      <4>1. d \in Devices => d = dev[p] /\ d \in ParallelDevices
        BY <1>2, <3>2, ReachedLive, OpenKinds DEF aps_read
      <4>2. d \in ParallelDevices <=> d \in Devices
        BY <4>1
      <4> QED BY <3>2, <4>2 DEF par_read
    <3> QED BY <1>2, <3>1, <3>2, OpenKinds DEF read
  <2>3. d \in Devices => Live(p) /\ d = dev[p] /\ dev[p] \in SerialDevices \union ParallelDevices
    BY <1>2, ReachedLive, OpenKinds DEF aps_read
  <2>4. s = IF d \in Devices THEN inq[d] ELSE <<>>
    OBVIOUS
  <2> HIDE DEF s, d
  <2>5. PICK k \in 0 .. Len(s) :
          /\ ReadsFrom(s, 1, k, e, read_timeout[p]) \/ (k < 1 /\ e # "OK" /\ got' = <<>>)
          /\ inq' = IF k = 0 THEN inq ELSE [inq EXCEPT ![d] = SubSeq(s, k + 1, Len(s))]
          /\ UNCHANGED <<outq, todo>>
    BY <2>2
  <2>6. \/ e # "OK" /\ k = 0 /\ got' = <<>>
        \/ /\ e = "OK" /\ k = 1 /\ s # <<>> /\ got' = <<Head(s)>>
           /\ SubSeq(s, k + 1, Len(s)) = Tail(s)
    BY <2>1, <2>5, ReadOne
  <2>7. CASE e # "OK" /\ k = 0 /\ got' = <<>>
    BY <2>5, <2>7 DEF Dropped
  <2>8. CASE e = "OK" /\ k = 1 /\ s # <<>> /\ got' = <<Head(s)>> /\ SubSeq(s, k + 1, Len(s)) = Tail(s)
    <3>1. d \in Devices /\ s = inq[d] /\ Live(p) /\ d = dev[p] /\ dev[p] \in SerialDevices \union ParallelDevices
      BY <2>3, <2>4, <2>8
    <3>0. k # 0
      BY <2>8
    <3>2. inq' = [inq EXCEPT ![d] = Tail(s)]
      BY <2>5, <2>8, <3>0, Zenon
    <3>3. Taken(d)
      BY <2>5, <2>8, <3>1, <3>2 DEF Taken, QueueTypes
    <3>4. x # d => Dropped(x)
      BY <2>5, <3>2 DEF Dropped, QueueTypes
    <3> QED BY <2>8, <3>1, <3>3, <3>4
  <2> QED BY <2>6, <2>7, <2>8
<1> QED BY <1>1, <1>2 DEF aps_read, NotOpen

LEMMA CloseMoves ==
  ASSUME QueueTypes, NEW p \in Ports, NEW e, close(p, e), NEW x \in Devices
  PROVE  Dropped(x)
<1>1. UNCHANGED queues \/ Hangup(Reached(p))
  BY DEF close, serial_close, par_close, usb_close, ethernet_close, CloseDescriptor
<1> QED BY <1>1 DEF Hangup, Dropped, QueueTypes

LEMMA EveryCallMoves ==
  ASSUME PortTypes, QueueTypes, PortInv, HandlesAccounted, DevInv, NEW p \in Ports, NEW c, NEW e,
         Does(p, c, e), NEW x \in Devices
  PROVE  CallMoves(p, c, x)
<1>a. ASSUME UNCHANGED queues PROVE Dropped(x)
  BY <1>a DEF Dropped
<1>1. CASE c[1] = "create" /\ Creates(p)
  <2>1. UNCHANGED queues
    BY <1>1, SlotsAssumption DEF Creates, aps_create_serial_port, aps_create_parallel_port, usb_list_ports, Builds
  <2> QED BY <1>a, <2>1 DEF CallMoves
<1>2. CASE c[1] = "open" /\ aps_open(p, e)
  <2>1. UNCHANGED queues \/ Hangup(dev[p])
    BY <1>2 DEF aps_open, open_, serial_open, par_open, usb_open, ethernet_open
  <2> QED BY <1>a, <2>1 DEF CallMoves, Hangup, Dropped, QueueTypes
<1>3. CASE \/ aps_serial_set_baudrate(p, c[2], e) \/ aps_serial_set_handshake(p, c[2], e)
           \/ (\E m \in {"POLL", "IRQ"} : aps_parallel_set_mode(p, m, e))
           \/ aps_set_read_timeout(p, 1, e) \/ aps_set_write_timeout(p, 1, e)
  <2>1. UNCHANGED queues
    BY <1>3 DEF aps_serial_set_baudrate, serial_set_baudrate, aps_serial_set_handshake, serial_set_handshake,
                aps_parallel_set_mode, par_set_mode, aps_set_read_timeout, aps_set_write_timeout, NotOpen, WrongType
  <2> QED BY <1>a, <2>1 DEF CallMoves
<1>4. CASE aps_parallel_reset(p, e)
  <2>1. /\ outq' = outq
        /\ inq' \in {inq, [inq EXCEPT ![Reached(p)] = <<>>]} /\ todo' \in {todo, [todo EXCEPT ![Reached(p)] = <<>>]}
    BY <1>4 DEF aps_parallel_reset, par_reset, NotOpen, WrongType
  <2> QED BY <2>1 DEF CallMoves, Dropped, QueueTypes
<1>5. CASE aps_flush(p, e)
  BY <1>5, FlushMoves DEF CallMoves
<1>6. CASE c[1] = "sync" /\ aps_sync(p, e)
  BY <1>6, SyncMoves DEF CallMoves
<1>7. CASE c[1] = "write" /\ aps_write(p, c[2], e)
  BY <1>7, WriteMoves DEF CallMoves
<1>8. CASE c[1] \in {"read", "try read", "gets"} /\ aps_read(p, 1, e)
  BY <1>8, ReadMoves DEF CallMoves
<1>9. CASE aps_close(p, e) \/ aps_destroy_port(p, e)
  <2>1. UNCHANGED queues \/ close(p, e)
    BY <1>9 DEF aps_close, aps_destroy_port, Shuts, NotOpen
  <2> QED BY <1>a, <2>1, CloseMoves DEF CallMoves
<1>10. CASE c[1] = "free" /\ IF kind[p] = "destroyed" THEN Frees(p) ELSE UNCHANGED vars
  <2>1. UNCHANGED queues
    BY <1>10 DEF Frees, vars
  <2> QED BY <1>a, <2>1 DEF CallMoves
<1> QED BY <1>1, <1>2, <1>3, <1>4, <1>5, <1>6, <1>7, <1>8, <1>9, <1>10 DEF Does

LEMMA EnvironmentMoves ==
  ASSUME PortTypes, QueueTypes, Environment, NEW x \in Devices, x \notin EthernetDevices
  PROVE  Dropped(x) \/ Sent(x) \/ Arrived(x)
<1>1. ASSUME NEW d \in SerialDevices \union EthernetDevices, Transmit(d) PROVE Dropped(x) \/ Sent(x)
  <2>0. inq' = inq /\ outq[d] # <<>> /\ d \in Devices
    BY <1>1 DEF Transmit
  <2>1. CASE UNCHANGED todo /\ outq' = [outq EXCEPT ![d] = <<>>]
    BY <2>0, <2>1 DEF Dropped, QueueTypes
  <2>2. CASE Sends(d)
    <3>1. PICK a \in Answers(d, Head(outq[d])) : todo' = [todo EXCEPT ![d] = @ \o a]
      BY <2>0, <2>2 DEF Sends, Receives
    <3>2. outq' = [outq EXCEPT ![d] = <<>>]
      BY <2>0, <2>2 DEF Sends
    <3>3. CASE x # d
      BY <2>0, <3>1, <3>2, <3>3 DEF Dropped, QueueTypes
    <3>4. CASE x = d
      BY <2>0, <3>1, <3>2, <3>4 DEF Sent, QueueTypes
    <3> QED BY <3>3, <3>4
  <2> QED BY <1>1, <2>1, <2>2 DEF Transmit
<1>2. ASSUME NEW d \in Devices, Answer(d) PROVE Dropped(x) \/ Arrived(x)
  <2>1. /\ todo[d] # <<>> /\ outq' = outq /\ todo' = [todo EXCEPT ![d] = Tail(@)]
        /\ inq' = inq \/ inq' = [inq EXCEPT ![d] = Append(@, Arriving(d))]
    BY <1>2 DEF Answer
  <2>2. CASE x # d
    BY <2>1, <2>2 DEF Dropped, QueueTypes
  <2>3. CASE x = d
    BY <2>1, <2>3 DEF Arrived, QueueTypes
  <2> QED BY <2>2, <2>3
<1>3. ASSUME UNCHANGED queues PROVE Dropped(x)
  BY <1>3 DEF Dropped
<1> QED BY <1>1, <1>2, <1>3 DEF Environment, HangsUp, Leaves

(* What waits at device d: bytes of B, and commands of Q.                  *)
Holds(d, B, Q) == inq[d] \in Seq(B) /\ todo[d] \in Seq(B) /\ outq[d] \in Seq(Q)

LEMMA HoldsKept ==
  ASSUME NEW d, NEW B, NEW Q, Holds(d, B, Q), "noise" \in B \/ RightSpeed(d),
         \/ Dropped(d) \/ Taken(d) \/ Arrived(d)
         \/ Sent(d) /\ \A c \in Q : Answers(d, c) \subseteq Seq(B)
         \/ \E c \in Q : Put(d, c)
         \/ \E c : Given(d, c) /\ Answers(d, c) \subseteq Seq(B)
  PROVE  inq'[d] \in Seq(B) /\ todo'[d] \in Seq(B) /\ outq'[d] \in Seq(Q)
<1>0. inq[d] \in Seq(B) /\ todo[d] \in Seq(B) /\ outq[d] \in Seq(Q)
  BY DEF Holds
<1>e. <<>> \in Seq(B) /\ <<>> \in Seq(Q)
  OBVIOUS
<1>j. ASSUME NEW s \in Seq(B), NEW t \in Seq(B) PROVE s \o t \in Seq(B)
  OBVIOUS
<1>t. ASSUME NEW s \in Seq(B), s # <<>> PROVE Tail(s) \in Seq(B) /\ Head(s) \in B
  BY <1>t
<1>a. ASSUME NEW s \in Seq(B), NEW x \in B PROVE Append(s, x) \in Seq(B)
  OBVIOUS
<1>1. CASE Dropped(d)
  BY <1>0, <1>e, <1>1 DEF Dropped
<1>2. CASE Taken(d)
  BY <1>0, <1>2, <1>t DEF Taken
<1>3. CASE Arrived(d)
  <2>1. Arriving(d) \in B
    BY <1>0, <1>3, <1>t DEF Arriving, Arrived
  <2> QED BY <1>0, <1>3, <1>t, <1>a, <2>1 DEF Arrived
<1>4. CASE Sent(d) /\ \A c \in Q : Answers(d, c) \subseteq Seq(B)
  <2>1. Head(outq[d]) \in Q
    BY <1>0, <1>4 DEF Sent
  <2>2. PICK a \in Seq(B) : todo'[d] = todo[d] \o a
    BY <1>4, <2>1 DEF Sent
  <2>3. todo'[d] \in Seq(B)
    BY <1>0, <1>j, <2>2
  <2> QED BY <1>0, <1>4, <1>e, <2>3 DEF Sent
<1>5. CASE \E c \in Q : Put(d, c)
  <2>1. PICK c \in Q : Put(d, c)
    BY <1>5
  <2>2. <<c>> \in Seq(Q)
    OBVIOUS
  <2> QED BY <1>0, <2>1, <2>2 DEF Put
<1>6. CASE \E c : Given(d, c) /\ Answers(d, c) \subseteq Seq(B)
  <2>1. PICK c : Given(d, c) /\ Answers(d, c) \subseteq Seq(B)
    BY <1>6
  <2>2. PICK a \in Seq(B) : todo'[d] = todo[d] \o a
    BY <2>1 DEF Given
  <2>3. todo'[d] \in Seq(B)
    BY <1>0, <1>j, <2>2
  <2> QED BY <1>0, <2>1, <2>3 DEF Given
<1> QED BY <1>1, <1>2, <1>3, <1>4, <1>5, <1>6

(* Bytes that may come from device d: an identity is that of its printer.  *)
Own(d) == {b \in Bytes : b \in Identities => b = printer[d].id}

LEMMA OwnBytes ==
  ASSUME QueueTypes, NEW d \in Devices
  PROVE  {"st", "nul", "noise", "hw", "sw", printer[d].id} \subseteq Own(d)
<1>1. printer[d].id \in Bytes /\ {"st", "nul", "noise", "hw", "sw"} \subseteq Bytes
  BY DEF QueueTypes, Bytes
<1>2. \A x \in {"st", "nul", "noise", "hw", "sw"} : x \notin Identities
  BY NotIdentities
<1> QED BY <1>1, <1>2 DEF Own

LEMMA OwnAnswers ==
  ASSUME QueueTypes, NEW d \in Devices, NEW c
  PROVE  Answers(d, c) \subseteq Seq(Own(d))
<1> DEFINE id == printer[d].id  B == Own(d)
<1>1. {id, "st", "nul", "noise", "hw", "sw"} \subseteq B
  BY OwnBytes
<1> HIDE DEF B
<1>2. FlowByte(d) \in B
  BY <1>1 DEF FlowByte
<1>3. ASSUME NEW x \in B PROVE <<>> \in Seq(B) /\ <<x>> \in Seq(B)
  BY <1>3
<1>4. <<"st", "st", "st">> \in Seq(B) /\ <<id, "nul">> \in Seq(B)
  BY <1>1
<1>5. Answers(d, c) \subseteq Seq(B)
  BY <1>1, <1>2, <1>3, <1>4 DEF Answers
<1> QED BY <1>5 DEF B

OwnInv == \A d \in SerialDevices \union ParallelDevices : Holds(d, Own(d), Commands)

LEMMA OwnSame == ASSUME printer' = printer, NEW d PROVE Own(d)' = Own(d)
  BY DEF Own, Bytes

LEMMA OwnStep ==
  ASSUME QueueTypes, OwnInv, printer' = printer,
         \A d \in SerialDevices \union ParallelDevices :
           \/ Dropped(d) \/ Taken(d) \/ Arrived(d) \/ Sent(d)
           \/ \E c \in Commands : Put(d, c) \/ Given(d, c)
  PROVE  OwnInv'
<1> SUFFICES ASSUME NEW d \in SerialDevices \union ParallelDevices PROVE Holds(d, Own(d), Commands)'
  BY DEF OwnInv
<1>1. d \in Devices
  OBVIOUS
<1>2. "noise" \in Own(d) /\ \A c : Answers(d, c) \subseteq Seq(Own(d))
  BY <1>1, OwnBytes, OwnAnswers
<1>3. PICK B : B = Own(d)
  OBVIOUS
<1>4. Holds(d, B, Commands) /\ "noise" \in B /\ \A c : Answers(d, c) \subseteq Seq(B)
  BY <1>2, <1>3 DEF OwnInv
<1>5. \/ Dropped(d) \/ Taken(d) \/ Arrived(d) \/ Sent(d)
      \/ \E c \in Commands : Put(d, c) \/ Given(d, c)
  OBVIOUS
<1>6. Own(d)' = B
  BY <1>3, OwnSame
<1>7. \/ Dropped(d) \/ Taken(d) \/ Arrived(d)
      \/ Sent(d) /\ \A c \in Commands : Answers(d, c) \subseteq Seq(B)
      \/ \E c \in Commands : Put(d, c)
      \/ \E c : Given(d, c) /\ Answers(d, c) \subseteq Seq(B)
  BY <1>4, <1>5
<1>8. inq'[d] \in Seq(B) /\ todo'[d] \in Seq(B) /\ outq'[d] \in Seq(Commands)
  BY <1>4, <1>7, HoldsKept
<1> QED BY <1>6, <1>8 DEF Holds

AllCalls == Plain \union {<<"try destroy">>, <<"free">>}

LEMMA ScriptSeq == ASSUME NEW s \in Scripts PROVE s \in Seq(AllCalls)
<1>1. /\ <<"try flush">> \in AllCalls /\ <<"try close">> \in AllCalls
      /\ <<"try destroy">> \in AllCalls /\ <<"free">> \in AllCalls
  BY CallTyped DEF PlainNames, AllCalls
<1>2. ASSUME NEW S, NEW a \in S, NEW b \in S, NEW c \in S, NEW d \in S
      PROVE  <<a, b, c, d>> \in Seq(S) /\ <<b, c, d>> \in Seq(S) /\ <<c, d>> \in Seq(S) /\ <<d>> \in Seq(S)
  OBVIOUS
<1>3. CASE s \in Seq(Plain)
  <2>1. Plain \subseteq AllCalls
    BY DEF AllCalls
  <2> HIDE DEF AllCalls
  <2> QED BY <1>3, <2>1
<1>4. CASE s \in Releases
  <2>1. PICK a, b, c, d : a = <<"try flush">> /\ b = <<"try close">> /\ c = <<"try destroy">> /\ d = <<"free">>
    OBVIOUS
  <2>2. s \in {<<a, b, c, d>>, <<b, c, d>>, <<c, d>>, <<d>>}
    BY <1>4, <2>1, Zenon DEF Releases
  <2>3. a \in AllCalls /\ b \in AllCalls /\ c \in AllCalls /\ d \in AllCalls
    BY <1>1, <2>1
  <2> HIDE DEF AllCalls
  <2> QED BY <1>2, <2>2, <2>3
<1> QED BY <1>3, <1>4 DEF Scripts

(* The query for the setting of an HRS, by how many calls are left.        *)
HrsCall(n, name, word) ==
  \/ n = 5 /\ name = "flush"
  \/ n = 4 /\ name = "read timeout"
  \/ n = 3 /\ name = "write" /\ word = "HRS setting"
  \/ n = 2 /\ name = "sync"
  \/ n = 1 /\ name = "read"

Query(c, r) == << <<"flush">>, <<"read timeout">>, <<"write", c>>, <<"sync">>, <<r>> >>

LEMMA QueryCall ==
  ASSUME NEW c, NEW r, NEW S, NEW s \in Seq(S), s # <<>>, Rest(s, Query(c, r))
  PROVE  /\ Len(s) \in 1 .. 5 /\ Head(s)[1] \in QueryNames \union {r}
         /\ r = "read" /\ c = "HRS setting" => HrsCall(Len(s), Head(s)[1], Head(s)[2])
<1>1. PICK T : Query(c, r) \in Seq(T)
  <2>1. ASSUME NEW T, NEW a \in T, NEW b \in T, NEW d \in T, NEW f \in T, NEW g \in T
        PROVE  <<a, b, d, f, g>> \in Seq(T)
    OBVIOUS
  <2>2. PICK T : <<"flush">> \in T /\ <<"read timeout">> \in T /\ <<"write", c>> \in T /\ <<"sync">> \in T /\ <<r>> \in T
    <3> WITNESS {<<"flush">>, <<"read timeout">>, <<"write", c>>, <<"sync">>, <<r>>}
    <3> QED OBVIOUS
  <2>3. Query(c, r) \in Seq(T)
    BY <2>1, <2>2 DEF Query
  <2> QED BY <2>3
<1>2. Len(Query(c, r)) = 5
  BY DEF Query
<1>3. PICK n \in 1 .. 5 : Len(s) = 5 + 1 - n /\ Head(s) = Query(c, r)[n]
  BY <1>1, <1>2, HeadOfRest
<1>4. PICK h : h = Head(s) /\ h = Query(c, r)[n]
  BY <1>3
<1>q. /\ Query(c, r)[1][1] = "flush" /\ Query(c, r)[2][1] = "read timeout"
      /\ Query(c, r)[3][1] = "write" /\ Query(c, r)[3][2] = c
      /\ Query(c, r)[4][1] = "sync" /\ Query(c, r)[5][1] = r
  BY DEF Query
<1>5. CASE n = 1
  <2>1. h[1] = "flush"
    BY <1>4, <1>5, <1>q, Zenon
  <2>2. Len(s) = 5 /\ 5 \in 1 .. 5
    BY <1>3, <1>5
  <2> QED BY <1>4, <2>1, <2>2, Zenon DEF QueryNames, HrsCall
<1>6. CASE n = 2
  <2>1. h[1] = "read timeout"
    BY <1>4, <1>6, <1>q, Zenon
  <2>2. Len(s) = 4 /\ 4 \in 1 .. 5
    BY <1>3, <1>6
  <2> QED BY <1>4, <2>1, <2>2, Zenon DEF QueryNames, HrsCall
<1>7. CASE n = 3
  <2>1. h[1] = "write" /\ h[2] = c
    BY <1>4, <1>7, <1>q, Zenon
  <2>2. Len(s) = 3 /\ 3 \in 1 .. 5
    BY <1>3, <1>7
  <2> QED BY <1>4, <2>1, <2>2, Zenon DEF QueryNames, HrsCall
<1>8. CASE n = 4
  <2>1. h[1] = "sync"
    BY <1>4, <1>8, <1>q, Zenon
  <2>2. Len(s) = 2 /\ 2 \in 1 .. 5
    BY <1>3, <1>8
  <2> QED BY <1>4, <2>1, <2>2, Zenon DEF QueryNames, HrsCall
<1>9. CASE n = 5
  <2>1. h[1] = r
    BY <1>4, <1>9, <1>q, Zenon
  <2>2. Len(s) = 1 /\ 1 \in 1 .. 5
    BY <1>3, <1>9
  <2> QED BY <1>4, <2>1, <2>2, Zenon DEF HrsCall
<1>10. n = 1 \/ n = 2 \/ n = 3 \/ n = 4 \/ n = 5
  OBVIOUS
<1> QED BY <1>5, <1>6, <1>7, <1>8, <1>9, <1>10, Zenon

LEMMA HandshakeHead ==
  ASSUME NEW m, NEW S, NEW s \in Seq(S), s # <<>>, Rest(s, Handshake(m))
  PROVE  /\ Len(s) \in 1 .. 5 /\ Head(s)[1] \in QueryNames
         /\ aps_get_model_type(m) \in {"HRS", "KCP"} => HrsCall(Len(s), Head(s)[1], Head(s)[2])
<1>1. CASE aps_get_model_type(m) = "MRS"
  <2>1. Handshake(m) = Query("MRS setting", "try read")
    BY <1>1 DEF Handshake, Query
  <2>2. aps_get_model_type(m) \notin {"HRS", "KCP"} /\ "try read" \in QueryNames
    BY <1>1 DEF QueryNames
  <2>0. Rest(s, Query("MRS setting", "try read"))
    BY <2>1
  <2>3. Len(s) \in 1 .. 5 /\ Head(s)[1] \in QueryNames \union {"try read"}
    BY <2>0, QueryCall, Zenon
  <2> QED BY <2>2, <2>3, Zenon
<1>2. CASE aps_get_model_type(m) \in {"HRS", "KCP"}
  <2>1. Handshake(m) = Query("HRS setting", "read")
    BY <1>2 DEF Handshake, Query
  <2>2. "read" \in QueryNames
    BY DEF QueryNames
  <2>3. Len(s) \in 1 .. 5 /\ Head(s)[1] \in QueryNames \union {"read"} /\ HrsCall(Len(s), Head(s)[1], Head(s)[2])
    BY <2>1, QueryCall
  <2> QED BY <2>2, <2>3, Zenon
<1>3. CASE aps_get_model_type(m) \notin {"MRS", "HRS", "KCP"}
  <2>1. Handshake(m) = <<>>
    BY <1>3 DEF Handshake
  <2>2. Len(s) <= 0 /\ Len(s) \in Nat /\ Len(s) # 0
    BY <2>1 DEF Rest
  <2> QED BY <2>2
<1> QED BY <1>1, <1>2, <1>3

(* What is left of a script is an end of it.                               *)

Places(w, s, b, m) ==
  /\ w = "tune" => s = Tune(b) \/ s = << <<"flow", "NONE">> >> \/ s = <<>>
  /\ w = "aps" => Rest(s, Model("status", "identity"))
  /\ w = "escpos" => Rest(s, Model("GS status", "GS identity"))
  /\ w = "handshake" => Rest(s, Handshake(m))
  /\ w = "set" => s = <<>> \/ \E f \in Flows : s = SetFlow(m, f) \/ s = << <<"flow", f>> >>

PlaceInv == Places(what, script, baud, model)

LEMMA SetFlowIs ==
  ASSUME NEW m, NEW f
  PROVE  SetFlow(m, f) = << <<"write", "CAN">>, <<"flow", f>> >> \/ SetFlow(m, f) = << <<"flow", f>> >>
<1>1. ASSUME NEW a, NEW b PROVE <<a>> \o <<b>> = <<a, b>> /\ <<>> \o <<b>> = <<b>>
  <2>1. PICK S : S = {a, b}
    OBVIOUS
  <2>2. <<a>> \in Seq(S) /\ <<b>> \in Seq(S) /\ <<a, b>> \in Seq(S)
    BY <2>1
  <2>3. <<>> \o <<b>> = <<b>>
    BY <2>2, ConcatEmptySeq
  <2>4. PICK s : s = <<a>> \o <<b>> /\ s \in Seq(S)
    BY <2>2, ConcatProperties
  <2>5. Len(s) = 2 /\ s[1] = a /\ s[2] = b
    BY <2>2, <2>4
  <2>9. Len(<<a, b>>) = 2 /\ <<a, b>>[1] = a /\ <<a, b>>[2] = b
    OBVIOUS
  <2>7. PICK t : t = <<a, b>> /\ t \in Seq(S) /\ Len(t) = 2 /\ t[1] = a /\ t[2] = b
    BY <2>2, <2>9, Zenon
  <2>8. \A i \in 1 .. Len(s) : s[i] = t[i]
    BY <2>5, <2>7
  <2>6. s = <<a, b>>
    BY <2>4, <2>5, <2>7, <2>8, SeqEqual
  <2> QED BY <2>3, <2>4, <2>6
<1> QED BY <1>1 DEF SetFlow

LEMMA PairTail ==
  ASSUME NEW a, NEW b
  PROVE  /\ Head(<<a, b>>) = a /\ Tail(<<a, b>>) = <<b>> /\ <<a, b>> # <<>>
         /\ Head(<<b>>) = b /\ Tail(<<b>>) = <<>> /\ <<b>> # <<>>
OBVIOUS

LEMMA PlaceStep ==
  ASSUME NEW w, NEW S, NEW s \in Seq(S), NEW b, NEW m, Places(w, s, b, m), s # <<>>, NEW t,
         t = <<>> \/ t = Tail(s) \/ (Head(s)[1] = "gets" /\ t = s)
  PROVE  Places(w, t, b, m)
<1>1. w = "tune" => t = Tune(b) \/ t = << <<"flow", "NONE">> >> \/ t = <<>>
  <2>1. CASE w = "tune" /\ s = Tune(b)
    BY <2>1, PairTail DEF Tune
  <2>2. CASE w = "tune" /\ s = << <<"flow", "NONE">> >>
    BY <2>2, PairTail
  <2> QED BY <2>1, <2>2 DEF Places
<1>2. ASSUME NEW T, NEW q \in Seq(T), Rest(s, q) PROVE Rest(t, q)
  <2>1. Rest(<<>>, q) /\ Rest(Tail(s), q)
    BY <1>2, RestEmpty, RestTail
  <2> QED BY <1>2, <2>1
<1>3. w = "aps" => Rest(t, Model("status", "identity"))
  BY <1>2, ModelTyped DEF Places
<1>4. w = "escpos" => Rest(t, Model("GS status", "GS identity"))
  BY <1>2, ModelTyped DEF Places
<1>5. w = "handshake" => Rest(t, Handshake(m))
  BY <1>2, HandshakeTyped DEF Places
<1>6. w = "set" => t = <<>> \/ \E f \in Flows : t = SetFlow(m, f) \/ t = << <<"flow", f>> >>
  <2>1. ASSUME NEW f \in Flows, s = << <<"write", "CAN">>, <<"flow", f>> >>
        PROVE  t = <<>> \/ t = << <<"flow", f>> >>
    BY <2>1, PairTail
  <2>2. ASSUME NEW f \in Flows, s = << <<"flow", f>> >>
        PROVE  t = <<>>
    BY <2>2, PairTail
  <2> QED BY <2>1, <2>2, SetFlowIs DEF Places
<1> QED BY <1>1, <1>3, <1>4, <1>5, <1>6 DEF Places

(* The calls of a script that looks for a printer.                         *)
ProbeNames == QueryNames \union {"baud", "flow"}

LEMMA ProbeCall ==
  ASSUME ScriptInv, PlaceInv, what \in Probes, script # <<>>
  PROVE  /\ Head(script)[1] \in ProbeNames
         /\ what # "tune" => Head(script)[1] # "baud"
         /\ what \in {"aps", "escpos", "handshake"} => Head(script)[1] \in QueryNames
<1>1. script \in Seq(AllCalls)
  BY ScriptSeq DEF ScriptInv
<1>2. CASE what = "tune"
  <2>1. script = Tune(baud) \/ script = << <<"flow", "NONE">> >>
    BY <1>2 DEF PlaceInv, Places
  <2>2. Head(script)[1] = "baud" \/ Head(script)[1] = "flow"
    BY <2>1, PairTail DEF Tune
  <2> QED BY <1>2, <2>2 DEF ProbeNames
<1>3. CASE what = "aps"
  <2>1. Head(script)[1] \in QueryNames
    BY <1>1, <1>3, ModelHead DEF PlaceInv, Places
  <2> QED BY <1>3, <2>1 DEF ProbeNames, QueryNames
<1>4. CASE what = "escpos"
  <2>1. Head(script)[1] \in QueryNames
    BY <1>1, <1>4, ModelHead DEF PlaceInv, Places
  <2> QED BY <1>4, <2>1 DEF ProbeNames, QueryNames
<1>5. CASE what = "handshake"
  <2>1. Head(script)[1] \in QueryNames
    BY <1>1, <1>5, HandshakeHead DEF PlaceInv, Places
  <2> QED BY <1>5, <2>1 DEF ProbeNames, QueryNames
<1>6. CASE what = "set"
  <2>1. PICK f : script = << <<"write", "CAN">>, <<"flow", f>> >> \/ script = << <<"flow", f>> >>
    BY <1>6, SetFlowIs DEF PlaceInv, Places
  <2>2. Head(script)[1] = "write" \/ Head(script)[1] = "flow"
    BY <2>1, PairTail
  <2> QED BY <1>6, <2>2 DEF ProbeNames, QueryNames
<1> QED BY <1>2, <1>3, <1>4, <1>5, <1>6 DEF Probes

-----------------------------------------------------------------------------
(* What these calls leave as it is.                                        *)

Frame == UNCHANGED <<kind, dev, is_open, handle, files, orphans, misclosed, printer>>

LEMMA ProbeFrame ==
  ASSUME NEW p \in Ports, NEW c, c[1] \in ProbeNames, NEW e, Does(p, c, e)
  PROVE  /\ Frame
         /\ c[1] # "baud" => UNCHANGED <<speed, baudrate>>
         /\ c[1] \in QueryNames => UNCHANGED handshake
<1>1. CASE c[1] = "baud" /\ aps_serial_set_baudrate(p, c[2], e)
  BY <1>1 DEF Frame, aps_serial_set_baudrate, Keeps, NotOpen, WrongType, serial_set_baudrate, fds, ports, QueryNames
<1>2. CASE c[1] = "flow" /\ aps_serial_set_handshake(p, c[2], e)
  BY <1>2 DEF Frame, aps_serial_set_handshake, Keeps, NotOpen, WrongType, serial_set_handshake, fds, ports,
              serialVars, settings, QueryNames
<1>a. ASSUME Frame, UNCHANGED <<speed, baudrate, handshake>>
      PROVE  /\ Frame
             /\ c[1] # "baud" => UNCHANGED <<speed, baudrate>>
             /\ c[1] \in QueryNames => UNCHANGED handshake
  BY <1>a
<1>3. ASSUME aps_flush(p, e) PROVE Frame /\ UNCHANGED <<speed, baudrate, handshake>>
  BY <1>3 DEF Frame, aps_flush, Keeps, NotOpen, flush, serial_flush, OnlySerial, par_flush, OnlyParallel, usb_flush,
              Working, OnlyUsb, ethernet_flush, OnlyEthernet, Hangup, fds, ports, serialVars, settings
<1>4. ASSUME aps_sync(p, e) PROVE Frame /\ UNCHANGED <<speed, baudrate, handshake>>
  BY <1>4 DEF Frame, aps_sync, Keeps, NotOpen, sync, serial_sync, OnlySerial, par_sync, OnlyParallel, usb_sync, OnlyUsb,
              ethernet_sync, OnlyEthernet, fds, ports, serialVars, settings
<1>5. ASSUME aps_write(p, c[2], e) PROVE Frame /\ UNCHANGED <<speed, baudrate, handshake>>
  BY <1>5 DEF Frame, aps_write, Keeps, NotOpen, write, serial_write, WriteStream, OnlySerial, par_write, OnlyParallel,
              usb_write, Working, OnlyUsb, ethernet_write, OnlyEthernet, fds, ports, serialVars, settings
<1>6. ASSUME aps_read(p, 1, e) PROVE Frame /\ UNCHANGED <<speed, baudrate, handshake>>
  BY <1>6 DEF Frame, aps_read, NotOpen, read, serial_read, ReadStream, OnlySerial, par_read, OnlyParallel, usb_read,
              Working, OnlyUsb, ethernet_read, OnlyEthernet, fds, ports, serialVars, settings
<1>7. ASSUME aps_set_read_timeout(p, 1, e) PROVE Frame /\ UNCHANGED <<speed, baudrate, handshake>>
  BY <1>7 DEF Frame, aps_set_read_timeout, Keeps, fds, ports, serialVars, settings
<1> QED BY <1>1, <1>2, <1>a, <1>3, <1>4, <1>5, <1>6, <1>7 DEF Does, ProbeNames, QueryNames

LEMMA QuietGot ==
  ASSUME NEW p \in Ports, NEW c, c[1] \in ProbeNames \ {"read", "try read", "gets"}, NEW e, Does(p, c, e)
  PROVE  got' = <<>>
BY DEF Does, ProbeNames, QueryNames, aps_serial_set_baudrate, aps_serial_set_handshake, aps_flush, aps_sync, aps_write,
  aps_set_read_timeout, Keeps

LEMMA PrinterSame == ASSUME NEW p \in Ports, NEW c, NEW e, Does(p, c, e) PROVE printer' = printer
<1>1. ASSUME Creates(p) PROVE printer' = printer
  BY <1>1, SlotsAssumption DEF Creates, aps_create_serial_port, aps_create_parallel_port, usb_list_ports, Builds
<1> QED BY <1>1 DEF Does, aps_open,
  aps_serial_set_baudrate, aps_serial_set_handshake, aps_parallel_set_mode, aps_parallel_reset, aps_flush, aps_sync,
  aps_write, aps_read, aps_set_read_timeout, aps_set_write_timeout, aps_close, aps_destroy_port, Frees, Keeps, vars

(* A flush that succeeds empties both queues of a serial line.             *)
LEMMA FlushEmpties ==
  ASSUME PortTypes, QueueTypes, HandlesAccounted, NEW p \in Ports, Live(p), kind[p] = "serial",
         dev[p] \in SerialDevices, aps_flush(p, "OK")
  PROVE  inq'[dev[p]] = <<>> /\ outq'[dev[p]] = <<>> /\ todo' = todo
<1>1. serial_flush(p, "OK")
  BY DEF aps_flush, NotOpen, Live, flush
<1>2. Reached(p) = dev[p]
  BY DEF HandlesAccounted, Live, Reached
<1> QED BY <1>1, <1>2 DEF serial_flush, Hangup, QueueTypes

LEMMA DevCall ==
  ASSUME PortTypes, PortInv, DevInv, NEW p \in Ports, NEW c, NEW e, Does(p, c, e)
  PROVE  DevInv'
<1>1. CASE Creates(p)
  <2>1. CASE Slots[p].type = "serial"
    <3>1. kind' = [kind EXCEPT ![p] = "serial"] /\ dev' = [dev EXCEPT ![p] = Slots[p].device]
      BY <1>1, <2>1 DEF Creates, aps_create_serial_port, Builds, Named
    <3> QED BY <2>1, <3>1 DEF DevInv, PortTypes
  <2>2. CASE Slots[p].type = "parallel"
    <3>1. kind' = [kind EXCEPT ![p] = "parallel"] /\ dev' = [dev EXCEPT ![p] = Slots[p].device]
      BY <1>1, <2>2 DEF Creates, aps_create_parallel_port, Builds, Named
    <3> QED BY <2>2, <3>1 DEF DevInv, PortTypes
  <2>3. CASE Slots[p].type = "usb"
    <3>1. (kind' = kind \/ kind' = [kind EXCEPT ![p] = "usb"]) /\ dev' = dev /\ kind[p] = "free"
      BY <1>1, <2>3 DEF Creates, usb_list_ports
    <3>2. dev[p] = NoDevice
      BY <3>1 DEF PortInv, Fits
    <3> QED BY <2>3, <3>1, <3>2 DEF DevInv, PortTypes
  <2> QED BY <2>1, <2>2, <2>3, SlotsAssumption
<1>2. CASE aps_destroy_port(p, e)
  <2>1. dev' = dev /\ (kind' = kind \/ kind' = [kind EXCEPT ![p] = "destroyed"])
    BY <1>2 DEF aps_destroy_port
  <2> QED BY <2>1 DEF DevInv, PortTypes
<1>3. CASE Frees(p)
  <2>1. kind' = [kind EXCEPT ![p] = "free"] /\ dev' = [dev EXCEPT ![p] = NoDevice]
    BY <1>3 DEF Frees
  <2> QED BY <2>1 DEF DevInv, PortTypes
<1>4. CASE kind' = kind /\ dev' = dev
  BY <1>4 DEF DevInv
<1> QED BY <1>1, <1>2, <1>3, <1>4 DEF Does, aps_open,
  aps_serial_set_baudrate, aps_serial_set_handshake, aps_parallel_set_mode, aps_parallel_reset, aps_flush, aps_sync,
  aps_write, aps_read, aps_set_read_timeout, aps_set_write_timeout, aps_close, Keeps, vars, ports

-----------------------------------------------------------------------------
(* Where detection is.                                                     *)
StageInv ==
  /\ stage # "done" => Slots[cur].type = stage
  /\ what \in Probes => stage # "done" /\ kind[cur] = stage
  /\ what \in {"tune", "handshake", "set"} => stage = "serial"
  /\ script # <<>> => ok

Onward == what' \in Parts4 /\ ok' = TRUE /\ (stage' # "done" => Slots[cur'].type = stage')

ToTune ==
  /\ what' = "tune" /\ script' = Tune(baud') /\ baud' \in Bauds /\ model' = model /\ stage = "serial"
  /\ \/ what = "timeout" /\ baud' = MaxBaud
     \/ what = "escpos" /\ ~ok /\ baud > 0 /\ baud' = baud - 1

ToModel ==
  /\ UNCHANGED <<baud, model>>
  /\ \/ /\ what' = "aps" /\ script' = Model("status", "identity")
        /\ (what = "timeout" /\ stage # "serial") \/ (what = "tune" /\ ok)
     \/ what' = "escpos" /\ script' = Model("GS status", "GS identity") /\ what = "aps" /\ ~ok

ToHandshake ==
  /\ what' = "handshake" /\ script' = Handshake(model') /\ baud' = baud /\ stage = "serial"
  /\ what \in {"aps", "escpos"} /\ ok /\ model' = model_find_by_id(Head(text))[1]

ToFlow ==
  /\ what' = "set" /\ UNCHANGED <<baud, model>> /\ what = "handshake" /\ ok
  /\ \E f \in FlowFrom(model, text) : script' = SetFlow(model, f)

Turn ==
  /\ stage # "done" /\ kind[cur] = stage
  /\ ok' = TRUE /\ text' = <<>> /\ UNCHANGED <<stage, cur, printers>>
  /\ ToTune \/ ToModel \/ ToHandshake \/ ToFlow

(* A printer is put into the array.                                        *)
Reports ==
  /\ printers' = Append(printers, [port |-> cur, model |-> model', uri |-> PortUri(cur)])
  /\ \/ what = "set" /\ ok /\ model' = model
     \/ what \in {"aps", "escpos"} /\ ok /\ stage # "serial" /\ model' = model_find_by_id(Head(text))[1]

LEMMA NextStage ==
  ASSUME ScriptInv, StageInv, stage # "done", NEW w \in Parts4, NEW n \in Nat, NextPort(w, n)
  PROVE  Onward
<1> DEFINE more  == cur + 1 \in Ports /\ Slots[cur + 1].type = stage /\ (w = "timeout" => n < MaxPrinters)
           part  == IF more THEN w ELSE FollowingPart[w]
           group == IF ~more /\ w = "release" THEN FollowingStage[stage] ELSE stage
           port  == IF more THEN cur + 1 ELSE IF group = "done" THEN cur ELSE FirstPort(group)
<1>1. stage' = group /\ cur' = port /\ ok' = TRUE
  BY DEF NextPort
<1>2. what' \in Parts4 /\ stage' \in {"serial", "parallel", "usb", "done"}
  BY NextTyped
<1>3. stage' # "done" => Slots[cur'].type = stage'
  <2>1. CASE more
    BY <1>1, <2>1
  <2>2. CASE ~more /\ group # "done"
    <3>1. group \in {"serial", "parallel", "usb"}
      BY <1>1, <1>2, <2>2
    <3>2. port = FirstPort(group)
      BY <2>2
    <3> HIDE DEF group, port
    <3> QED BY <1>1, <3>1, <3>2, FirstTyped
  <2>3. CASE group = "done"
    BY <1>1, <2>3
  <2> QED BY <2>1, <2>2, <2>3
<1> QED BY <1>1, <1>2, <1>3 DEF Onward

LEMMA ReportIs ==
  ASSUME ScriptInv, RoomInv, StageInv, stage # "done", Report
  PROVE  /\ Onward
         /\ \/ printers' = printers
            \/ printers' = Append(printers, [port |-> cur, model |-> model', uri |-> PortUri(cur)])
<1>1. Len(printers) \in Nat /\ Len(printers) + 1 \in Nat
  <2>1. Len(printers) \in Nat
    BY LenProperties DEF RoomInv
  <2> QED BY <2>1
<1>2. "timeout" \in Parts4
  BY DEF Parts4
<1>3. CASE printers' = printers /\ NextPort("timeout", Len(printers))
  BY <1>1, <1>2, <1>3, NextStage
<1>4. CASE /\ printers' = Append(printers, [port |-> cur, model |-> model', uri |-> PortUri(cur)])
           /\ NextPort("timeout", Len(printers) + 1)
  BY <1>1, <1>2, <1>4, NextStage
<1> QED BY <1>3, <1>4 DEF Report

LEMMA Decisions ==
  ASSUME ScriptInv, RoomInv, DevInv, StageInv, Decide
  PROVE  UNCHANGED <<vars, unflushed>> /\ script = <<>>
         /\ (Turn \/ (Onward /\ (printers' = printers \/ Reports)))
<1>1. script = <<>> /\ stage # "done" /\ UNCHANGED <<vars, unflushed>>
  BY DEF Decide
<1>2. ASSUME NEW w \in Parts4, Leave(w) PROVE Onward /\ printers' = printers
  <2>1. Len(printers) \in Nat
    BY LenProperties DEF RoomInv
  <2> QED BY <1>1, <1>2, <2>1, NextStage DEF Leave
<1>a. "timeout" \in Parts4
  BY DEF Parts4
<1>3. CASE what \in {"create", "wake", "release"} /\ Leave(what)
  BY <1>1, <1>2, <1>3 DEF Parts4
<1>4. CASE what = "timeout" /\ Leave("timeout")
  BY <1>1, <1>2, <1>4, <1>a
<1>5. CASE what = "timeout" /\ kind[cur] # "free" /\ (IF stage = "serial" THEN Tunes(MaxBaud) ELSE Queries("aps"))
  <2>1. kind[cur] = stage
    <3>1. kind[cur] # "destroyed" /\ cur \in Ports
      BY <1>1 DEF ScriptInv
    <3> QED BY <1>1, <1>5, <3>1 DEF DevInv, StageInv
  <2>2. MaxBaud \in Bauds
    BY BoundsAssumption DEF Bauds
  <2>3. CASE stage = "serial" /\ Tunes(MaxBaud)
    <3>1. ToTune
      <4>1. what = "timeout" /\ baud' = MaxBaud /\ script' = Tune(MaxBaud) /\ what' = "tune" /\ model' = model
        BY <1>5, <2>3 DEF Tunes, Goto
      <4> QED BY <2>2, <2>3, <4>1, Zenon DEF ToTune
    <3> QED BY <1>1, <2>1, <2>3, <3>1 DEF Tunes, Goto, Turn
  <2>4. CASE stage # "serial" /\ Queries("aps")
    <3>1. ToModel
      <4>1. what = "timeout" /\ UNCHANGED <<baud, model>> /\ what' = "aps" /\ script' = Model("status", "identity")
        BY <1>5, <2>4 DEF Queries, Goto
      <4> QED BY <2>4, <4>1, Zenon DEF ToModel
    <3> QED BY <1>1, <2>1, <2>4, <3>1 DEF Queries, Goto, Turn
  <2> QED BY <1>5, <2>3, <2>4
<1>6. CASE what \in Probes
  <2>1. kind[cur] = stage
    BY <1>6 DEF StageInv
  <2>2. CASE Leave("timeout")
    BY <1>1, <1>2, <2>2, <1>a
  <2>3. CASE what = "tune" /\ ok /\ Queries("aps")
    <3>1. ToModel
      BY <2>3 DEF Queries, Goto, ToModel
    <3> QED BY <1>1, <2>1, <2>3, <3>1 DEF Queries, Goto, Turn
  <2>4. CASE what = "aps" /\ ~ok /\ Queries("escpos")
    <3>1. ToModel
      BY <2>4 DEF Queries, Goto, ToModel
    <3> QED BY <1>1, <2>1, <2>4, <3>1 DEF Queries, Goto, Turn
  <2>5. CASE what = "escpos" /\ ~ok /\ stage = "serial" /\ baud > 0 /\ Tunes(baud - 1)
    <3>0. baud - 1 \in Bauds
      BY <2>5, BoundsAssumption DEF ScriptInv, Bauds
    <3>1. ToTune
      BY <2>5, <3>0 DEF Tunes, Goto, ToTune
    <3> QED BY <1>1, <2>1, <2>5, <3>1 DEF Tunes, Goto, Turn
  <2>6. CASE what \in {"aps", "escpos"} /\ ok /\ Recognise
    <3>1. CASE stage = "serial"
      <4>1. ToHandshake
        BY <2>6, <3>1 DEF Recognise, Goto, ToHandshake
      <4> QED BY <1>1, <2>1, <2>6, <3>1, <4>1 DEF Recognise, Goto, Turn
    <3>2. CASE stage # "serial"
      <4>1. Report /\ model' = model_find_by_id(Head(text))[1]
        BY <2>6, <3>2 DEF Recognise
      <4> QED BY <1>1, <2>6, <3>2, <4>1, ReportIs DEF Reports
    <3> QED BY <3>1, <3>2
  <2>7. CASE /\ what = "handshake" /\ ok
             /\ \E f \in FlowFrom(model, text) : Goto("set", SetFlow(model, f))
             /\ UNCHANGED <<baud, model, printers>>
    <3>1. ToFlow
      BY <2>7 DEF Goto, ToFlow
    <3> QED BY <1>1, <2>1, <2>7, <3>1 DEF Goto, Turn
  <2>8. CASE what = "set" /\ ok /\ UNCHANGED <<baud, model>> /\ Report
    BY <1>1, <2>8, ReportIs DEF Reports
  <2> QED BY <1>6, <2>2, <2>3, <2>4, <2>5, <2>6, <2>7, <2>8 DEF Decide, Probes
<1> QED BY <1>3, <1>4, <1>5, <1>6, <1>1 DEF Decide, Probes

(* What a call of detection does.                                          *)
LEMMA StepIs ==
  ASSUME ScriptInv, PlaceInv, Step
  PROVE  \E e \in Errors :
           /\ Does(cur, Head(script), e) /\ script # <<>> /\ cur \in Ports
           /\ script \in Seq(AllCalls) /\ Head(script) \in AllCalls
           /\ text' = IF Head(script)[1] = "write" THEN <<>> ELSE text \o got'
           /\ ok' = (e = "OK" \/ Head(script)[1] \in Tried)
           /\ ok' => script' = Tail(script) \/ (Head(script)[1] = "gets" /\ script' = script)
           /\ ~ok' => script' = <<>>
           /\ Head(script)[1] = "gets" /\ ok' /\ script' # script => Ending(got') \/ Len(text') >= MaxIdentity
           /\ unflushed' = IF Head(script)[1] = "flush" /\ e # "OK" THEN unflushed \union {cur} ELSE unflushed
           /\ UNCHANGED <<stage, what, cur, baud, model, printers>>
<1>1. script # <<>> /\ UNCHANGED <<stage, what, cur, baud, model, printers>>
  BY DEF Step
<1>2. Head(script) \in AllCalls /\ script \in Seq(AllCalls) /\ cur \in Ports
  <2>1. script \in Seq(AllCalls)
    BY ScriptSeq DEF ScriptInv
  <2> QED BY <1>1, <2>1 DEF ScriptInv
<1>3. PICK e \in Errors :
        LET c == Head(script) IN
        /\ Does(cur, c, e)
        /\ text' = IF c[1] = "write" THEN <<>> ELSE text \o got'
        /\ ok' = (e = "OK" \/ c[1] \in Tried)
        /\ unflushed' = IF c[1] = "flush" /\ e # "OK" THEN unflushed \union {cur} ELSE unflushed
        /\ IF ~ok' THEN script' = <<>>
           ELSE
           \/ (c[1] = "gets" => Ending(got') \/ Len(text') >= MaxIdentity) /\ script' = Tail(script)
           \/ c[1] = "gets" /\ got' # <<"nul">> /\ Len(text') < MaxIdentity /\ script' = script
  BY DEF Step
<1>4. /\ ok' => script' = Tail(script) \/ (Head(script)[1] = "gets" /\ script' = script)
      /\ ~ok' => script' = <<>>
      /\ Head(script)[1] = "gets" /\ ok' /\ script' # script => Ending(got') \/ Len(text') >= MaxIdentity
  BY <1>3, Zenon
<1> QED BY <1>1, <1>2, <1>3, <1>4, Zenon

LEMMA PlaceSteps ==
  ASSUME ScriptInv, RoomInv, DevInv, StageInv, PlaceInv, Step \/ Decide
  PROVE  PlaceInv'
<1>1. CASE Step
  <2>1. /\ script # <<>> /\ script \in Seq(AllCalls)
        /\ script' = <<>> \/ script' = Tail(script) \/ (Head(script)[1] = "gets" /\ script' = script)
        /\ UNCHANGED <<what, baud, model>>
    BY <1>1, StepIs
  <2>2. Places(what, script', baud, model)
    BY <2>1, PlaceStep DEF PlaceInv
  <2> QED BY <2>1, <2>2 DEF PlaceInv
<1>2. CASE Onward
  BY <1>2 DEF Onward, Parts4, PlaceInv, Places
<1>3. CASE Turn
  <2>1. CASE ToTune
    BY <2>1 DEF ToTune, PlaceInv, Places
  <2>2. CASE ToModel
    <3>1. Rest(Model("status", "identity"), Model("status", "identity"))
          /\ Rest(Model("GS status", "GS identity"), Model("GS status", "GS identity"))
      BY ModelTyped, RestSelf
    <3> QED BY <2>2, <3>1 DEF ToModel, PlaceInv, Places
  <2>3. CASE ToHandshake
    <3>1. Rest(Handshake(model'), Handshake(model'))
      BY HandshakeTyped, RestSelf
    <3> QED BY <2>3, <3>1 DEF ToHandshake, PlaceInv, Places
  <2>4. CASE ToFlow
    <3>1. FlowFrom(model, text) \subseteq Flows
      <4>1. FlowFrom(model, text) \in {{"XONXOFF"}, {"RTSCTS"}, {"RTSCTS", "XONXOFF"}}
        BY DEF FlowFrom
      <4> QED BY <4>1 DEF Flows
    <3> QED BY <2>4, <3>1 DEF ToFlow, PlaceInv, Places
  <2> QED BY <1>3, <2>1, <2>2, <2>3, <2>4 DEF Turn
<1> QED BY <1>1, <1>2, <1>3, Decisions

LEMMA StageSteps ==
  ASSUME PortTypes, PortInv, ScriptInv, RoomInv, DevInv, StageInv, PlaceInv, Step \/ Decide
  PROVE  DevInv' /\ StageInv'
<1>1. CASE Step
  <2>1. PICK e \in Errors : /\ Does(cur, Head(script), e) /\ script # <<>> /\ cur \in Ports
                            /\ UNCHANGED <<stage, what, cur>>
    BY <1>1, StepIs
  <2>2. DevInv'
    BY <2>1, DevCall
  <2>3. what \in Probes => kind' = kind
    BY <2>1, ProbeCall, ProbeFrame DEF Frame
  <2>4. UNCHANGED <<stage, what, cur>> /\ (script' # <<>> => ok')
    BY <1>1, StepIs
  <2> QED BY <2>2, <2>3, <2>4, Zenon DEF StageInv
<1>2. CASE Decide
  <2>1. DevInv'
    BY <1>2, Decisions DEF vars, ports, DevInv
  <2>2. kind' = kind
    BY <1>2, Decisions DEF vars, ports
  <2>3. CASE Onward
    BY <2>1, <2>3 DEF Onward, Parts4, Probes, StageInv
  <2>4. CASE Turn
    <3>1. stage' = stage /\ cur' = cur /\ kind[cur] = stage /\ stage # "done" /\ ok' = TRUE
      BY <2>4 DEF Turn
    <3>2. what' \in {"tune", "handshake", "set"} => stage = "serial"
      BY <2>4 DEF Turn, ToTune, ToModel, ToHandshake, ToFlow, StageInv
    <3> QED BY <2>1, <2>2, <3>1, <3>2 DEF StageInv
  <2> QED BY <1>2, <2>1, <2>3, <2>4, Decisions
<1> QED BY <1>1, <1>2

-----------------------------------------------------------------------------
(* What the bytes read on the way are.                                     *)
TextInv == what \in Probes =>
  /\ text # <<>> => Live(cur) /\ dev[cur] \in SerialDevices \union ParallelDevices /\ text \in Seq(Own(dev[cur]))
  /\ what \in {"aps", "escpos"} =>
       (Len(script) = 18 => text = <<>>) /\ (ok /\ script = <<>> => text # <<>>)

SpeedInv ==
  what \in {"aps", "escpos"} /\ stage = "serial" /\ ok /\ Live(cur) /\ Len(script) < 18
    /\ ~RightSpeed(dev[cur]) =>
      inq[dev[cur]] \in Seq(Bytes \ Identities) /\ text \in Seq(Bytes \ Identities)

ModelInv == what \in {"handshake", "set"} /\ model # "UNKNOWN" =>
  /\ Live(cur) /\ dev[cur] \in SerialDevices /\ RightSpeed(dev[cur])
  /\ printer[dev[cur]].id \in Identities /\ model = OwnRow(printer[dev[cur]].id)[1]

LEMMA TextGrows ==
  ASSUME NEW B, NEW s \in Seq(B), NEW x \in B PROVE s \o <<x>> \in Seq(B) /\ s \o <<x>> # <<>>
<1>1. <<x>> \in Seq(B)
  OBVIOUS
<1>2. s \o <<x>> \in Seq(B) /\ Len(s \o <<x>>) = Len(s) + 1
  BY <1>1, ConcatProperties
<1>3. Len(s) + 1 # 0
  OBVIOUS
<1> QED BY <1>2, <1>3

LEMMA TextStays == ASSUME NEW B, NEW s \in Seq(B) PROVE s \o <<>> = s
BY ConcatEmptySeq

Steady == UNCHANGED <<kind, dev, is_open, misclosed, printer>>

LEMMA SteadyLive == ASSUME Steady, NEW p PROVE (Live(p))' = Live(p)
  BY DEF Steady, Live

LEMMA EnvironmentKeeps == ASSUME Environment PROVE Steady /\ UNCHANGED <<speed, baudrate, handshake, got>>
<1>1. ASSUME NEW d, Transmit(d) PROVE Steady /\ UNCHANGED <<speed, baudrate, handshake, got>>
  BY <1>1 DEF Transmit, Steady, ports, fds, serialVars, settings
<1>2. ASSUME NEW d, Answer(d) PROVE Steady /\ UNCHANGED <<speed, baudrate, handshake, got>>
  BY <1>2 DEF Answer, Steady, ports, fds, serialVars, settings
<1>3. ASSUME NEW d, HangsUp(d) PROVE Steady /\ UNCHANGED <<speed, baudrate, handshake, got>>
  BY <1>3 DEF HangsUp, Steady, ports, fds, serialVars, settings
<1>4. ASSUME NEW d, Leaves(d) PROVE Steady /\ UNCHANGED <<speed, baudrate, handshake, got>>
  BY <1>4 DEF Leaves, Steady, ports, fds, serialVars, settings
<1> QED BY <1>1, <1>2, <1>3, <1>4 DEF Environment

Class == PortTypes /\ QueueTypes /\ SettingTypes /\ PortInv /\ HandlesAccounted

LEMMA OwnCall ==
  ASSUME Class, ScriptInv, DevInv, OwnInv, Step, PlaceInv
  PROVE  OwnInv'
<1>1. PICK e \in Errors : Does(cur, Head(script), e) /\ cur \in Ports /\ Head(script) \in AllCalls
  BY StepIs
<1>2. PICK c : c = Head(script)
  OBVIOUS
<1>3. c[1] = "write" => c[2] \in Commands
  BY <1>1, <1>2, ParameterTyped DEF AllCalls
<1>4. printer' = printer
  BY <1>1, PrinterSame
<1>5. ASSUME NEW d \in SerialDevices \union ParallelDevices
      PROVE  \/ Dropped(d) \/ Taken(d) \/ Arrived(d) \/ Sent(d)
             \/ \E q \in Commands : Put(d, q) \/ Given(d, q)
  <2>1. CallMoves(cur, c, d)
    BY <1>1, <1>2, EveryCallMoves DEF Class
  <2> QED BY <1>3, <2>1 DEF CallMoves
<1> QED BY <1>4, <1>5, OwnStep DEF Class

LEMMA OwnEnvironment ==
  ASSUME Class, OwnInv, Environment
  PROVE  OwnInv'
<1>1. printer' = printer
  BY EnvironmentKeeps DEF Steady
<1>2. ASSUME NEW d \in SerialDevices \union ParallelDevices PROVE Dropped(d) \/ Sent(d) \/ Arrived(d)
  <2>1. d \in Devices /\ d \notin EthernetDevices
    BY KindsAssumption
  <2> QED BY <2>1, EnvironmentMoves DEF Class
<1> QED BY <1>1, <1>2, OwnStep DEF Class

LEMMA OwnStill == ASSUME OwnInv, UNCHANGED <<queues, printer>> PROVE OwnInv'
  BY DEF OwnInv, Holds, Own, Bytes

-----------------------------------------------------------------------------
(* What has been read.                                                     *)
LEMMA ReadIs ==
  ASSUME Class, DevInv, NEW p \in Ports, NEW e, aps_read(p, 1, e)
  PROVE  /\ e # "OK" => got' = <<>> /\ UNCHANGED queues
         /\ e = "OK" => Live(p) /\ dev[p] \in SerialDevices \union ParallelDevices /\ Taken(dev[p])
<1>1. CASE NotOpen(p, e) /\ got' = <<>>
  BY <1>1 DEF NotOpen
<1>2. CASE is_open[p]
  <2>1. dev[p] \in Devices
    BY <1>2, OpenKinds DEF Class
  <2> QED BY <2>1, ReadMoves DEF Class
<1> QED BY <1>1, <1>2 DEF aps_read

LEMMA Shorter ==
  ASSUME NEW S, NEW s \in Seq(S), s # <<>>
  PROVE  /\ Len(s) \in 1 .. 18 => Len(Tail(s)) # 18
         /\ Tail(s) = <<>> => Len(s) = 1
         /\ Len(<<>>) # 18
         /\ Len(s) = 1 => Len(s) # 18
<1>1. PICK n \in Nat : n = Len(s)
  OBVIOUS
<1>2. PICK t \in Seq(S) : t = Tail(s) /\ Len(t) = Len(s) - 1
  BY HeadTailProperties, Zenon
<1>3. Len(t) = n - 1
  BY <1>1, <1>2
<1>4. Len(<<>>) = 0
  OBVIOUS
<1>5. t = <<>> => n = 1
  BY <1>3, <1>4
<1>6. n \in 1 .. 18 => Len(t) # 18
  BY <1>3
<1>7. Len(<<>>) # 18 /\ (n = 1 => n # 18)
  BY <1>4
<1> QED BY <1>1, <1>2, <1>5, <1>6, <1>7, Zenon

LEMMA TextCall ==
  ASSUME Class, ScriptInv, DevInv, StageInv, PlaceInv, OwnInv, TextInv, Step
  PROVE  TextInv'
<1> SUFFICES ASSUME what \in Probes PROVE TextInv'
  BY StepIs DEF TextInv
<1>1. PICK e \in Errors :
        /\ Does(cur, Head(script), e) /\ script # <<>> /\ cur \in Ports
        /\ script \in Seq(AllCalls)
        /\ text' = IF Head(script)[1] = "write" THEN <<>> ELSE text \o got'
        /\ ok' = (e = "OK" \/ Head(script)[1] \in Tried)
        /\ ok' => script' = Tail(script) \/ (Head(script)[1] = "gets" /\ script' = script)
        /\ ~ok' => script' = <<>>
        /\ UNCHANGED <<stage, what, cur, baud, model, printers>>
  BY StepIs
<1>2. PICK c : c = Head(script)
  OBVIOUS
<1>3. c[1] \in ProbeNames
  BY <1>1, <1>2, ProbeCall
<1>4. Frame
  BY <1>1, <1>2, <1>3, ProbeFrame
<1>5. Live(cur)' = Live(cur) /\ dev'[cur'] = dev[cur] /\ cur' = cur
  BY <1>1, <1>4 DEF Frame, Live
<1>6. PICK B : B = Own(dev[cur])
  OBVIOUS
<1>7. Own(dev[cur])' = B
  BY <1>1, <1>4, <1>6 DEF Own, Bytes, Frame
<1>8. text # <<>> => Live(cur) /\ dev[cur] \in SerialDevices \union ParallelDevices /\ text \in Seq(B)
  BY <1>6 DEF TextInv
<1>r. PICK reads \in BOOLEAN : reads = (c[1] \in {"read", "try read", "gets"} /\ e = "OK")
  OBVIOUS
<1>9. \/ ~reads /\ (text' = <<>> \/ text' = text)
      \/ reads /\ Live(cur) /\ dev[cur] \in SerialDevices \union ParallelDevices /\ text' \in Seq(B) /\ text' # <<>>
  <2>1. CASE c[1] = "write"
    BY <1>1, <1>2, <1>r, <2>1
  <2>2. CASE c[1] # "write" /\ ~reads
    <3>1. got' = <<>>
      <4>1. CASE c[1] \in {"read", "try read", "gets"}
        <5>1. aps_read(cur, 1, e) /\ e # "OK"
          BY <1>1, <1>2, <1>r, <2>2, <4>1 DEF Does
        <5> QED BY <1>1, <5>1, ReadIs
      <4>2. CASE c[1] \notin {"read", "try read", "gets"}
        BY <1>1, <1>2, <1>3, <4>2, QuietGot
      <4> QED BY <4>1, <4>2
    <3>2. text' = text \o <<>>
      BY <1>1, <1>2, <2>2, <3>1
    <3>3. CASE text = <<>>
      <4>1. <<>> \o <<>> = <<>>
        OBVIOUS
      <4> QED BY <2>2, <3>2, <3>3, <4>1
    <3>4. CASE text # <<>>
      BY <1>8, <2>2, <3>2, <3>4, TextStays
    <3> QED BY <3>3, <3>4
  <2>3. CASE reads
    <3>1. aps_read(cur, 1, "OK") /\ c[1] # "write"
      BY <1>1, <1>2, <1>r, <2>3 DEF Does
    <3>2. Live(cur) /\ dev[cur] \in SerialDevices \union ParallelDevices /\ Taken(dev[cur])
      BY <1>1, <3>1, ReadIs
    <3>3. inq[dev[cur]] \in Seq(B) /\ inq[dev[cur]] # <<>> /\ got' = <<Head(inq[dev[cur]])>>
      BY <1>6, <3>2 DEF OwnInv, Holds, Taken
    <3>4. Head(inq[dev[cur]]) \in B
      BY <3>3
    <3>5. PICK b \in B : got' = <<b>>
      BY <3>3, <3>4
    <3>6. text' = text \o <<b>>
      BY <1>1, <1>2, <3>1, <3>5
    <3>7. text \in Seq(B)
      <4>1. <<>> \in Seq(B)
        OBVIOUS
      <4> QED BY <1>8, <4>1
    <3>8. text' \in Seq(B) /\ text' # <<>>
      BY <3>6, <3>7, TextGrows
    <3> QED BY <2>3, <3>2, <3>8
  <2> QED BY <2>1, <2>2, <2>3
<1>10. text' # <<>> => (Live(cur))' /\ dev'[cur'] \in SerialDevices \union ParallelDevices /\ text' \in Seq(Own(dev[cur]))'
  BY <1>5, <1>7, <1>8, <1>9
<1>11. what \in {"aps", "escpos"} => (Len(script') = 18 => text' = <<>>) /\ (ok' /\ script' = <<>> => text' # <<>>)
  <2> SUFFICES ASSUME what \in {"aps", "escpos"}
               PROVE  (Len(script') = 18 => text' = <<>>) /\ (ok' /\ script' = <<>> => text' # <<>>)
    OBVIOUS
  <2>1. PICK a, b : Rest(script, Model(a, b))
    BY DEF PlaceInv, Places
  <2>2. Len(script) \in 1 .. 18 /\ (Len(script) = 1 <=> c[1] = "gets")
    BY <1>1, <1>2, <2>1, ModelHead
  <2>3. Len(Tail(script)) # 18 /\ (Tail(script) = <<>> => Len(script) = 1) /\ Len(<<>>) # 18
        /\ (Len(script) = 1 => Len(script) # 18)
    BY <1>1, <2>2, Shorter, Zenon
  <2>6. (ok' => script' = Tail(script) \/ (c[1] = "gets" /\ script' = script)) /\ (~ok' => script' = <<>>)
    BY <1>1, <1>2
  <2>4. Len(script') # 18
    BY <2>2, <2>3, <2>6, Zenon
  <2>5. ASSUME ok', script' = <<>> PROVE text' # <<>>
    <3>1. c[1] = "gets"
      BY <2>2, <2>3, <2>5, <2>6, Zenon
    <3>2. e = "OK"
      BY <1>1, <1>2, <2>5, <3>1 DEF Tried
    <3> QED BY <1>9, <1>r, <3>1, <3>2
  <2> QED BY <2>4, <2>5
<1> QED BY <1>1, <1>5, <1>10, <1>11 DEF TextInv

LEMMA TextEnvironment ==
  ASSUME TextInv, Steady, UNCHANGED detectVars
  PROVE  TextInv'
<1>1. Own(dev[cur])' = Own(dev[cur]) /\ Live(cur)' = Live(cur) /\ dev' = dev
  BY DEF Steady, detectVars, Own, Bytes, Live
<1> QED BY <1>1 DEF TextInv, detectVars

LEMMA Below == ASSUME NEW n, n \in 1 .. 18, n # 18 PROVE n < 18
OBVIOUS

LEMMA ModelNotEmpty == ASSUME NEW a, NEW b PROVE Model(a, b) # <<>> /\ ~(Len(Model(a, b)) < 18)
<1>1. Len(Model(a, b)) = 18
  BY ModelLength
<1>2. Len(<<>>) = 0 /\ 0 # 18 /\ ~(18 < 18)
  OBVIOUS
<1> QED BY <1>1, <1>2, Zenon

LEMMA TextDecide ==
  ASSUME TextInv, Turn \/ Onward
  PROVE  TextInv'
<1>1. CASE Onward
  BY <1>1 DEF Onward, Parts4, Probes, TextInv
<1>2. CASE Turn
  <2>1. text' = <<>>
    BY <1>2 DEF Turn
  <2>2. what' \in {"aps", "escpos"} => script' # <<>>
    BY <1>2, ModelNotEmpty DEF Turn, ToTune, ToModel, ToHandshake, ToFlow
  <2> QED BY <2>1, <2>2 DEF TextInv
<1> QED BY <1>1, <1>2

-----------------------------------------------------------------------------
(* At a wrong speed no identity is read.                                   *)
LEMMA SpeedCall ==
  ASSUME Class, ScriptInv, DevInv, StageInv, PlaceInv, TextInv, SpeedInv, Step
  PROVE  SpeedInv'
<1>1. PICK e \in Errors :
        /\ Does(cur, Head(script), e) /\ script # <<>> /\ cur \in Ports
        /\ script \in Seq(AllCalls)
        /\ text' = IF Head(script)[1] = "write" THEN <<>> ELSE text \o got'
        /\ ok' = (e = "OK" \/ Head(script)[1] \in Tried)
        /\ UNCHANGED <<stage, what, cur, baud, model, printers>>
  BY StepIs
<1>2. PICK c : c = Head(script)
  OBVIOUS
<1> SUFFICES ASSUME what \in {"aps", "escpos"}, stage = "serial", ok', Live(cur)', ~RightSpeed(dev[cur])'
             PROVE  inq'[dev'[cur]] \in Seq(Bytes \ Identities) /\ text' \in Seq(Bytes \ Identities)
  BY <1>1 DEF SpeedInv, Bytes
<1>3. c[1] \in QueryNames /\ c[1] \in ProbeNames /\ c[1] # "baud"
  BY <1>1, <1>2, ProbeCall DEF ProbeNames, QueryNames, Probes
<1>4. Frame /\ UNCHANGED <<speed, baudrate, handshake>>
  BY <1>1, <1>2, <1>3, ProbeFrame
<1>5. Live(cur) /\ ~RightSpeed(dev[cur]) /\ dev' = dev
  BY <1>1, <1>4 DEF Frame, Live, RightSpeed
<1>6. PICK d : d = dev[cur]
  OBVIOUS
<1>7. d \in SerialDevices /\ kind[cur] = "serial"
  BY <1>1, <1>5, <1>6, OpenKinds DEF StageInv, Class, Live, Probes
<1>8. PICK B : B = Bytes \ Identities
  OBVIOUS
<1>9. <<>> \in Seq(B)
  OBVIOUS
<1>10. PICK a, b : Rest(script, Model(a, b))
  BY DEF PlaceInv, Places
<1>11. CASE Len(script) = 18
  <2>1. c[1] = "flush"
    BY <1>1, <1>2, <1>10, <1>11, ModelHead
  <2>2. aps_flush(cur, "OK")
    <3>1. e = "OK" /\ aps_flush(cur, e)
      BY <1>1, <1>2, <2>1 DEF Does, Tried
    <3> QED BY <3>1
  <2>3. inq'[d] = <<>>
    BY <1>1, <1>5, <1>6, <1>7, <2>2, FlushEmpties DEF Class
  <2>4. text = <<>> /\ got' = <<>>
    BY <1>11, <2>2 DEF TextInv, Probes, aps_flush, Keeps
  <2>5. text' = <<>>
    <3>1. <<>> \o <<>> = <<>>
      OBVIOUS
    <3> QED BY <1>1, <1>2, <2>1, <2>4, <3>1
  <2> QED BY <1>5, <1>6, <1>8, <1>9, <2>3, <2>5
<1>12. CASE Len(script) # 18
  <2>1. Len(script) < 18
    <3>1. Len(script) \in 1 .. 18
      BY <1>1, <1>10, ModelHead
    <3> QED BY <1>12, <3>1, Below, Zenon
  <2>2. inq[d] \in Seq(B) /\ text \in Seq(B)
    BY <1>1, <1>5, <1>6, <1>8, <2>1 DEF SpeedInv, StageInv
  <2>3. CASE c[1] \in {"read", "try read", "gets"}
    <3>1. aps_read(cur, 1, e)
      BY <1>1, <1>2, <2>3 DEF Does
    <3>2. text' = text \o got'
      BY <1>1, <1>2, <2>3
    <3>3. CASE e # "OK"
      <4>1. got' = <<>> /\ inq' = inq
        BY <1>1, <3>1, <3>3, ReadIs
      <4>2. text' = text
        BY <2>2, <3>2, <4>1, TextStays
      <4> QED BY <1>5, <1>6, <1>8, <2>2, <4>1, <4>2
    <3>4. CASE e = "OK"
      <4>1. Taken(d)
        BY <1>1, <1>6, <3>1, <3>4, ReadIs
      <4>2. inq[d] # <<>> /\ inq'[d] = Tail(inq[d]) /\ got' = <<Head(inq[d])>>
        BY <4>1 DEF Taken
      <4>3. Tail(inq[d]) \in Seq(B) /\ Head(inq[d]) \in B
        BY <2>2, <4>2, HeadTailProperties
      <4>4. text' \in Seq(B)
        BY <2>2, <3>2, <4>2, <4>3, TextGrows
      <4> QED BY <1>5, <1>6, <1>8, <4>2, <4>3, <4>4
    <3> QED BY <3>3, <3>4
  <2>4. CASE c[1] \notin {"read", "try read", "gets"}
    <3>1. got' = <<>>
      BY <1>1, <1>2, <1>3, <2>4, QuietGot
    <3>2. text' \in Seq(B)
      BY <1>1, <1>2, <1>9, <2>2, <3>1, TextStays
    <3>3. inq'[d] = inq[d] \/ inq'[d] = <<>>
      <4>1. CallMoves(cur, c, d)
        BY <1>1, <1>2, <1>7, EveryCallMoves DEF Class
      <4> QED BY <2>4, <4>1 DEF CallMoves, Dropped, Put, Given, Sent
    <3> QED BY <1>5, <1>6, <1>8, <1>9, <2>2, <3>2, <3>3
  <2> QED BY <2>3, <2>4
<1> QED BY <1>11, <1>12

LEMMA SpeedEnvironment ==
  ASSUME Class, ScriptInv, DevInv, StageInv, SpeedInv, Environment, UNCHANGED detectVars
  PROVE  SpeedInv'
<1>1. Steady /\ speed' = speed
  BY EnvironmentKeeps
<1>2. UNCHANGED <<stage, what, cur, script, ok, text>>
  BY DEF detectVars
<1> SUFFICES ASSUME what \in {"aps", "escpos"}, stage = "serial", ok, Live(cur), Len(script) < 18, ~RightSpeed(dev[cur])
             PROVE  inq'[dev[cur]] \in Seq(Bytes \ Identities) /\ text \in Seq(Bytes \ Identities)
  BY <1>1, <1>2 DEF SpeedInv, Steady, Bytes, Live, RightSpeed
<1>3. PICK d : d = dev[cur]
  OBVIOUS
<1>4. d \in SerialDevices /\ d \notin EthernetDevices
  BY <1>3, OpenKinds, KindsAssumption DEF ScriptInv, StageInv, Class, Live, Probes
<1>5. PICK B : B = Bytes \ Identities
  OBVIOUS
<1>6. inq[d] \in Seq(B) /\ text \in Seq(B)
  BY <1>3, <1>5 DEF SpeedInv
<1>7. "noise" \in B
  <2>1. "noise" \in Bytes
    BY DEF Bytes
  <2> QED BY <1>5, <2>1, NotIdentities
<1>8. Dropped(d) \/ Sent(d) \/ Arrived(d)
  BY <1>4, EnvironmentMoves DEF Class
<1>9. inq'[d] = inq[d] \/ inq'[d] = <<>> \/ inq'[d] = Append(inq[d], "noise")
  BY <1>3, <1>8 DEF Dropped, Sent, Arrived, Arriving
<1>10. <<>> \in Seq(B) /\ Append(inq[d], "noise") \in Seq(B)
  BY <1>6, <1>7
<1>11. inq'[d] \in Seq(B)
  BY <1>6, <1>9, <1>10
<1> QED BY <1>3, <1>5, <1>6, <1>11

LEMMA SpeedDecide ==
  ASSUME Turn \/ Onward
  PROVE  SpeedInv'
<1>1. CASE Onward
  BY <1>1 DEF Onward, Parts4, SpeedInv
<1>2. CASE Turn
  <2>1. what' \in {"aps", "escpos"} => ~(Len(script') < 18)
    BY <1>2, ModelNotEmpty DEF Turn, ToTune, ToModel, ToHandshake, ToFlow
  <2> QED BY <2>1 DEF SpeedInv
<1> QED BY <1>1, <1>2

-----------------------------------------------------------------------------
(* The model of a printer that has been found is its own.                  *)
LEMMA ModelCallKeeps ==
  ASSUME ScriptInv, StageInv, PlaceInv, ModelInv, Step
  PROVE  ModelInv'
<1>1. PICK e \in Errors :
        /\ Does(cur, Head(script), e) /\ script # <<>> /\ cur \in Ports
        /\ UNCHANGED <<stage, what, cur, baud, model, printers>>
  BY StepIs
<1> SUFFICES ASSUME what \in {"handshake", "set"}, model # "UNKNOWN" PROVE ModelInv'
  BY <1>1 DEF ModelInv
<1>2. PICK c : c = Head(script)
  OBVIOUS
<1>3. c[1] \in ProbeNames /\ c[1] # "baud"
  BY <1>1, <1>2, ProbeCall DEF Probes
<1>4. Frame /\ speed' = speed
  BY <1>1, <1>2, <1>3, ProbeFrame
<1> QED BY <1>1, <1>4 DEF Frame, ModelInv, Live, RightSpeed

LEMMA ModelEnvironment ==
  ASSUME ModelInv, Steady, speed' = speed, UNCHANGED detectVars
  PROVE  ModelInv'
BY DEF ModelInv, Steady, Live, RightSpeed, detectVars

(* An identity that is read tells the model of the printer at the port.    *)
LEMMA Identified ==
  ASSUME Class, ScriptInv, DevInv, StageInv, TextInv, SpeedInv,
         what \in {"aps", "escpos"}, ok, script = <<>>, NEW m, m = model_find_by_id(Head(text))[1]
  PROVE  /\ Live(cur) /\ dev[cur] \in SerialDevices \union ParallelDevices
         /\ m # "UNKNOWN" => /\ Head(text) \in Identities /\ Head(text) = printer[dev[cur]].id
                             /\ m = OwnRow(printer[dev[cur]].id)[1]
                             /\ stage = "serial" => RightSpeed(dev[cur])
<1>1. text # <<>> /\ Live(cur) /\ dev[cur] \in SerialDevices \union ParallelDevices /\ text \in Seq(Own(dev[cur]))
  BY DEF TextInv, Probes
<1> SUFFICES ASSUME m # "UNKNOWN"
             PROVE  /\ Head(text) \in Identities /\ Head(text) = printer[dev[cur]].id
                    /\ m = OwnRow(printer[dev[cur]].id)[1]
                    /\ stage = "serial" => RightSpeed(dev[cur])
  BY <1>1
<1>2. Head(text) \in Identities /\ m = OwnRow(Head(text))[1]
  BY FoundById
<1>3. Head(text) \in Own(dev[cur])
  BY <1>1, HeadTailProperties
<1>4. Head(text) = printer[dev[cur]].id
  BY <1>2, <1>3 DEF Own
<1>5. ASSUME stage = "serial", ~RightSpeed(dev[cur]) PROVE FALSE
  <2>1. Len(script) < 18
    <3>1. Len(<<>>) = 0 /\ 0 < 18
      OBVIOUS
    <3> QED BY <3>1
  <2>2. text \in Seq(Bytes \ Identities)
    BY <1>1, <1>5, <2>1 DEF SpeedInv
  <2>3. Head(text) \in Bytes \ Identities
    BY <1>1, <2>2, HeadTailProperties
  <2> QED BY <1>2, <2>3
<1> QED BY <1>2, <1>4, <1>5

LEMMA ModelDecide ==
  ASSUME Class, ScriptInv, DevInv, StageInv, TextInv, SpeedInv, ModelInv, UNCHANGED vars, script = <<>>, Turn \/ Onward
  PROVE  ModelInv'
<1>0. Steady /\ speed' = speed
  BY DEF vars, Steady, ports, fds, serialVars
<1>1. CASE Onward
  BY <1>1 DEF Onward, Parts4, ModelInv
<1>2. CASE Turn
  <2>1. cur' = cur
    BY <1>2 DEF Turn
  <2>2. CASE ToTune \/ ToModel
    BY <2>2 DEF ToTune, ToModel, ModelInv
  <2>3. CASE ToFlow
    <3>1. what = "handshake" /\ model' = model
      BY <2>3 DEF ToFlow
    <3> QED BY <1>0, <2>1, <3>1 DEF ModelInv, Steady, Live, RightSpeed
  <2>4. CASE ToHandshake
    <3>1. PICK m : m = model'
      OBVIOUS
    <3>2. what \in {"aps", "escpos"} /\ ok /\ m = model_find_by_id(Head(text))[1] /\ stage = "serial"
      BY <2>4, <3>1 DEF ToHandshake
    <3>3. /\ Live(cur)
          /\ m # "UNKNOWN" => /\ Head(text) \in Identities /\ Head(text) = printer[dev[cur]].id
                              /\ m = OwnRow(printer[dev[cur]].id)[1]
                              /\ RightSpeed(dev[cur])
      BY <3>2, Identified
    <3>4. dev[cur] \in SerialDevices
      <4>1. kind[cur] = "serial" /\ cur \in Ports /\ is_open[cur]
        BY <3>2, <3>3 DEF StageInv, Probes, ScriptInv, Live
      <4> QED BY <4>1, OpenKinds DEF Class
    <3>5. /\ Live(cur)' /\ dev'[cur'] \in SerialDevices
          /\ model' # "UNKNOWN" => /\ RightSpeed(dev[cur])'
                                   /\ printer'[dev'[cur']].id \in Identities
                                   /\ model' = OwnRow(printer'[dev'[cur']].id)[1]
      BY <1>0, <2>1, <3>1, <3>3, <3>4 DEF Steady, Live, RightSpeed
    <3> QED BY <3>5 DEF ModelInv
  <2> QED BY <1>2, <2>2, <2>3, <2>4 DEF Turn
<1> QED BY <1>1, <1>2

(* What DetectedRight says of a printer of the array.                      *)
Right(r) ==
  LET su == uri_split(r.uri)
      d  == Slots[r.port].device
      x  == printer[d]
  IN /\ Slots[r.port].type # "usb" => uri_get_device(su) = d
     /\ uri_get_opt(su, "type") = Slots[r.port].type
     /\ r.model # "UNKNOWN" => r.model = OwnRow(x.id)[1]
     /\ r.model # "UNKNOWN" /\ d \in SerialDevices =>
          string_to_baudrate(uri_get_opt(su, "baudrate")) = {x.speed}

LEMMA RightEach == DetectedRight <=> \A i \in 1 .. Len(printers) : Right(printers[i])
BY DEF DetectedRight, Right

LEMMA SerialReport ==
  ASSUME Class, SettingsKept, ScriptInv, DevInv, StageInv, ModelInv, what = "set",
         NEW r, r = [port |-> cur, model |-> model, uri |-> PortUri(cur)]
  PROVE  Right(r)
<1>1. /\ cur \in Ports /\ stage = "serial" /\ kind[cur] = "serial" /\ Slots[cur].type = "serial"
  BY DEF ScriptInv, StageInv, Probes
<1>2. PICK d : d = Slots[cur].device /\ d = dev[cur] /\ d \in SerialDevices /\ d # "?"
  BY <1>1, SlotsAssumption, NamesAssumption DEF DevInv
<1>3. PICK b \in Bauds, f \in Flows : b = baudrate[cur] /\ f = handshake[cur]
  BY <1>1 DEF Class, SettingTypes
<1>4. r.uri = serial_get_uri(d, b, f) /\ r.port = cur /\ r.model = model
  BY <1>1, <1>2, <1>3 DEF PortUri
<1>5. PICK su : su = uri_split(r.uri)
  OBVIOUS
<1>6. /\ uri_get_device(su) = d /\ uri_get_opt(su, "type") = "serial"
      /\ uri_get_opt(su, "baudrate") = BaudWords[b + 1]
  BY <1>2, <1>4, <1>5, SerialUriSplits
<1>7. string_to_baudrate(uri_get_opt(su, "baudrate")) = {b}
  BY <1>6, BaudsReadBack
<1>8. model # "UNKNOWN" => model = OwnRow(printer[d].id)[1] /\ printer[d].speed = b
  <2>1. ASSUME model # "UNKNOWN"
        PROVE  Live(cur) /\ RightSpeed(d) /\ model = OwnRow(printer[d].id)[1]
    BY <1>2, <2>1 DEF ModelInv
  <2>2. Live(cur) => speed[d] = b
    BY <1>1, <1>2, <1>3 DEF SettingsKept, Live
  <2> QED BY <2>1, <2>2, <1>2 DEF RightSpeed
<1> QED BY <1>1, <1>2, <1>4, <1>5, <1>6, <1>7, <1>8 DEF Right

LEMMA ParallelReport ==
  ASSUME Class, ScriptInv, DevInv, StageInv, TextInv, SpeedInv, what \in {"aps", "escpos"}, ok, script = <<>>,
         stage # "serial", NEW m, m = model_find_by_id(Head(text))[1],
         NEW r, r = [port |-> cur, model |-> m, uri |-> PortUri(cur)]
  PROVE  Right(r)
<1>1. cur \in Ports /\ Slots[cur].type = stage /\ kind[cur] = stage
  BY DEF ScriptInv, StageInv, Probes
<1>2. /\ Live(cur)
      /\ m # "UNKNOWN" => m = OwnRow(printer[dev[cur]].id)[1]
  BY Identified
<1>3. kind[cur] = "parallel" /\ dev[cur] \in ParallelDevices
  BY <1>1, <1>2, OpenKinds DEF Class, Live
<1>4. PICK d : d = Slots[cur].device /\ d = dev[cur] /\ d \notin SerialDevices /\ d # "?"
  BY <1>1, <1>3, KindsAssumption, NamesAssumption DEF DevInv
<1>5. PICK q \in {"POLL", "IRQ"} : q = mode[cur]
  BY <1>1 DEF Class, SettingTypes
<1>6. r.uri = par_get_uri(d, q) /\ r.port = cur /\ r.model = m /\ Slots[cur].type = "parallel"
  BY <1>1, <1>3, <1>4, <1>5 DEF PortUri
<1>7. PICK su : su = uri_split(r.uri)
  OBVIOUS
<1>8. uri_get_device(su) = d /\ uri_get_opt(su, "type") = "parallel"
  BY <1>4, <1>6, <1>7, ParallelUriSplits
<1> QED BY <1>2, <1>4, <1>6, <1>7, <1>8 DEF Right

LEMMA RightStill == ASSUME printer' = printer, NEW r PROVE Right(r)' = Right(r)
  BY DEF Right

-----------------------------------------------------------------------------
(* The printers that are reported stay right.                              *)
LEMMA RightKept ==
  ASSUME DetectedRight, printer' = printer, printers' = printers
  PROVE  DetectedRight'
BY DEF DetectedRight

LEMMA RightMore ==
  ASSUME RoomInv, DetectedRight, printer' = printer, NEW r, Right(r), printers' = Append(printers, r)
  PROVE  DetectedRight'
<1>1. PICK S : printers \in Seq(S)
  BY DEF RoomInv
<1>2. PICK n \in Nat : n = Len(printers)
  BY <1>1
<1>3. Len(printers') = n + 1 /\ printers'[n + 1] = r /\ \A i \in 1 .. n : printers'[i] = printers[i]
  BY <1>1, <1>2, AppendProperties
<1>4. ASSUME NEW i \in 1 .. n + 1 PROVE Right(printers'[i])
  <2>1. CASE i = n + 1
    BY <1>3, <2>1
  <2>2. CASE i # n + 1
    <3>1. i \in 1 .. n
      BY <2>2
    <3> QED BY <1>2, <1>3, <3>1, RightEach
  <2> QED BY <2>1, <2>2
<1>5. \A i \in 1 .. Len(printers') : (Right(printers[i]))'
  BY <1>3, <1>4 DEF Right
<1> QED BY <1>5 DEF DetectedRight, Right

(* What is true of a process that detects printers.                        *)
DetectInv ==
  /\ DevInv /\ StageInv /\ PlaceInv /\ OwnInv /\ TextInv /\ SpeedInv /\ ModelInv /\ DetectedRight

LEMMA DetectInvStarts == ASSUME DetectInit PROVE DetectInv
<1>1. /\ stage = "serial" /\ what = "create" /\ cur = FirstPort("serial") /\ ok = TRUE /\ printers = <<>>
      /\ \A p \in Ports : kind[p] = "free"
      /\ Slots[cur].type = stage
  BY FirstTyped DEF DetectInit, Init
<1>2. OwnInv
  <2>1. \A d \in Devices : inq[d] = <<>> /\ outq[d] = <<>> /\ todo[d] = <<>>
    BY DEF DetectInit, Init
  <2>2. ASSUME NEW S PROVE <<>> \in Seq(S)
    OBVIOUS
  <2> QED BY <2>1, <2>2 DEF OwnInv, Holds
<1>3. DevInv
  BY <1>1 DEF DevInv
<1>4. StageInv
  BY <1>1 DEF StageInv, Probes
<1>5. PlaceInv /\ TextInv /\ SpeedInv /\ ModelInv
  BY <1>1 DEF PlaceInv, Places, TextInv, SpeedInv, ModelInv, Probes
<1>6. DetectedRight
  <2>1. \A i : i \notin 1 .. Len(printers)
    BY <1>1
  <2> QED BY <2>1 DEF DetectedRight
<1> QED BY <1>2, <1>3, <1>4, <1>5, <1>6 DEF DetectInv

LEMMA ClassOf == ASSUME IInv PROVE Class /\ SettingsKept
  BY DEF IInv, TypeOK, Class

LEMMA DetectInvSteps ==
  ASSUME IInv, ScriptInv, RoomInv, DetectInv, [DetectNext]_<<vars, detectVars>>
  PROVE  DetectInv'
<1>0. Class /\ SettingsKept /\ PortTypes /\ PortInv
  BY ClassOf DEF Class
<1> USE DEF DetectInv
<1>1. CASE Step
  <2>1. PICK e \in Errors : Does(cur, Head(script), e) /\ cur \in Ports /\ printers' = printers
    BY <1>1, StepIs
  <2>2. printer' = printer
    BY <2>1, PrinterSame
  <2>3. DevInv' /\ StageInv' /\ PlaceInv'
    BY <1>0, <1>1, StageSteps, PlaceSteps
  <2>4. OwnInv' /\ TextInv' /\ SpeedInv' /\ ModelInv'
    BY <1>0, <1>1, OwnCall, TextCall, SpeedCall, ModelCallKeeps
  <2> QED BY <2>1, <2>2, <2>3, <2>4, RightKept
<1>2. CASE Decide
  <2>1. UNCHANGED vars /\ script = <<>> /\ (Turn \/ (Onward /\ (printers' = printers \/ Reports)))
    BY <1>2, Decisions
  <2>2. UNCHANGED <<queues, printer>>
    BY <2>1 DEF vars
  <2>3. DevInv' /\ StageInv' /\ PlaceInv'
    BY <1>0, <1>2, StageSteps, PlaceSteps
  <2>4. OwnInv' /\ TextInv' /\ SpeedInv' /\ ModelInv'
    BY <1>0, <2>1, <2>2, OwnStill, TextDecide, SpeedDecide, ModelDecide
  <2>5. CASE Turn \/ printers' = printers
    <3>1. printers' = printers
      BY <2>5 DEF Turn
    <3> QED BY <2>2, <2>3, <2>4, <3>1, RightKept
  <2>6. CASE Reports
    <3>1. PICK m, r : m = model' /\ r = [port |-> cur, model |-> m, uri |-> PortUri(cur)] /\ printers' = Append(printers, r)
      BY <2>6 DEF Reports
    <3>2. Right(r)
      <4>1. CASE what = "set" /\ model' = model
        BY <1>0, <3>1, <4>1, SerialReport
      <4>2. CASE what \in {"aps", "escpos"} /\ ok /\ stage # "serial" /\ model' = model_find_by_id(Head(text))[1]
        BY <1>0, <2>1, <3>1, <4>2, ParallelReport
      <4> QED BY <2>6, <4>1, <4>2 DEF Reports
    <3> QED BY <2>2, <2>3, <2>4, <3>1, <3>2, RightMore
  <2> QED BY <2>1, <2>5, <2>6
<1>3. CASE Environment /\ UNCHANGED detectVars
  <2>1. Steady /\ speed' = speed
    BY <1>3, EnvironmentKeeps
  <2>2. DevInv' /\ StageInv' /\ PlaceInv' /\ TextInv' /\ ModelInv' /\ OwnInv' /\ SpeedInv'
    <3>1. DevInv' /\ StageInv' /\ PlaceInv'
      BY <1>3, <2>1 DEF DevInv, StageInv, PlaceInv, Steady, detectVars
    <3> QED BY <1>0, <1>3, <2>1, <3>1, TextEnvironment, ModelEnvironment, OwnEnvironment, SpeedEnvironment
  <2> QED BY <1>3, <2>1, <2>2, RightKept DEF Steady, detectVars
<1>4. CASE UNCHANGED <<vars, detectVars>>
  <2>1. Steady /\ speed' = speed /\ UNCHANGED queues /\ UNCHANGED detectVars
    BY <1>4 DEF vars, ports, fds, serialVars, Steady
  <2>2. DevInv' /\ StageInv' /\ PlaceInv' /\ OwnInv'
    BY <2>1, OwnStill DEF DevInv, StageInv, PlaceInv, Steady, detectVars
  <2>3. TextInv' /\ ModelInv'
    BY <2>1, TextEnvironment, ModelEnvironment
  <2>4. SpeedInv'
    BY <2>1 DEF SpeedInv, Steady, detectVars, Live, RightSpeed, Bytes
  <2> QED BY <2>1, <2>2, <2>3, <2>4, RightKept DEF Steady, detectVars
<1> QED BY <1>1, <1>2, <1>3, <1>4 DEF DetectNext

LEMMA Watching == DetectSpec => [](IInv /\ ScriptInv /\ RoomInv /\ DetectInv)
<1> HIDE DEF vars, detectVars, DetectInv
<1>1. DetectInit => IInv /\ ScriptInv /\ RoomInv /\ DetectInv
  BY DetectStarts, DetectInvStarts
<1>2. IInv /\ ScriptInv /\ RoomInv /\ DetectInv /\ [DetectNext]_<<vars, detectVars>> =>
        (IInv /\ ScriptInv /\ RoomInv /\ DetectInv)'
  BY DetectSteps, DetectInvSteps, Inductive
<1> QED BY <1>1, <1>2, PTL DEF DetectSpec

(* A printer that detection reports is there: the model is its own or not   *)
(* known, the URI names its port, and with a model, on a serial line, its  *)
(* speed, whatever was read on the way (detect_serial, detect_parallel,    *)
(* detect_usb, detect_model, serial_get_uri).                              *)
THEOREM PrintersAreThere == DetectSpec => []DetectedRight
<1>1. DetectInv => DetectedRight
  BY DEF DetectInv
<1> QED BY <1>1, Watching, PTL

-----------------------------------------------------------------------------
(* The answers to the queries of a detection, in the order in which they   *)
(* come.  An identity and its zero are the last that a printer has to say: *)
(* nothing follows the zero, and only the zero follows the identity.       *)
Follows(x, y, id) == x \in {id, "nul"} => x = id /\ y = "nul"

Ordered(s, id) == \A i, j \in 1 .. Len(s) : i < j => Follows(s[i], s[j], id)

Earlier(s, t, id) == \A i \in 1 .. Len(s), j \in 1 .. Len(t) : Follows(s[i], t[j], id)

(* In a row: what has been read, what can be read, what is still to come.  *)
Row(a, b, c, id) ==
  /\ Ordered(a, id) /\ Ordered(b, id) /\ Ordered(c, id)
  /\ Earlier(a, b, id) /\ Earlier(a, c, id) /\ Earlier(b, c, id)

LEMMA TailIs ==
  ASSUME NEW S, NEW s \in Seq(S), s # <<>>
  PROVE  /\ Tail(s) \in Seq(S) /\ Head(s) = s[1] /\ Head(s) \in S
         /\ Len(s) \in Nat /\ Len(s) >= 1 /\ Len(Tail(s)) = Len(s) - 1
         /\ \A i \in 1 .. Len(s) - 1 : Tail(s)[i] = s[i + 1]
<1>1. Len(s) \in Nat /\ Len(s) >= 1
  OBVIOUS
<1> QED BY <1>1, HeadTailProperties

LEMMA AppendIs ==
  ASSUME NEW S, NEW s \in Seq(S), NEW x \in S
  PROVE  /\ Append(s, x) \in Seq(S) /\ Append(s, x) = s \o <<x>> /\ Len(s) \in Nat
         /\ Len(Append(s, x)) = Len(s) + 1 /\ Append(s, x)[Len(s) + 1] = x
         /\ \A i \in 1 .. Len(s) : Append(s, x)[i] = s[i]
OBVIOUS

LEMMA OrderedTail ==
  ASSUME NEW S, NEW s \in Seq(S), s # <<>>, NEW id, Ordered(s, id)
  PROVE  /\ Ordered(Tail(s), id)
         /\ \A j \in 1 .. Len(Tail(s)) : Follows(Head(s), Tail(s)[j], id)
<1>1. PICK n \in Nat : n = Len(s) /\ n >= 1
  BY TailIs
<1>2. /\ Len(Tail(s)) = n - 1 /\ Head(s) = s[1]
      /\ \A i \in 1 .. n - 1 : Tail(s)[i] = s[i + 1]
  BY <1>1, TailIs
<1>3. \A i, j \in 1 .. n : i < j => Follows(s[i], s[j], id)
  BY <1>1 DEF Ordered
<1>4. ASSUME NEW i \in 1 .. n - 1, NEW j \in 1 .. n - 1, i < j PROVE Follows(Tail(s)[i], Tail(s)[j], id)
  <2>1. i + 1 \in 1 .. n /\ j + 1 \in 1 .. n /\ i + 1 < j + 1
    BY <1>4
  <2> QED BY <1>2, <1>3, <2>1
<1>5. ASSUME NEW j \in 1 .. n - 1 PROVE Follows(Head(s), Tail(s)[j], id)
  <2>1. 1 \in 1 .. n /\ j + 1 \in 1 .. n /\ 1 < j + 1
    BY <1>1
  <2> QED BY <1>2, <1>3, <2>1
<1> QED BY <1>2, <1>4, <1>5 DEF Ordered

LEMMA OrderedAppend ==
  ASSUME NEW S, NEW s \in Seq(S), NEW x \in S, NEW id, Ordered(s, id),
         \A i \in 1 .. Len(s) : Follows(s[i], x, id)
  PROVE  Ordered(Append(s, x), id)
<1>1. PICK n \in Nat : n = Len(s)
  OBVIOUS
<1>2. PICK t : t = Append(s, x)
  OBVIOUS
<1>3. Len(t) = n + 1 /\ t[n + 1] = x /\ \A i \in 1 .. n : t[i] = s[i]
  BY <1>1, <1>2, AppendIs
<1>4. ASSUME NEW i \in 1 .. n + 1, NEW j \in 1 .. n + 1, i < j PROVE Follows(t[i], t[j], id)
  <2>1. i \in 1 .. n /\ (j = n + 1 \/ j \in 1 .. n)
    BY <1>4
  <2> QED BY <1>1, <1>3, <1>4, <2>1 DEF Ordered
<1> QED BY <1>2, <1>3, <1>4 DEF Ordered

(* The head of t moves to the end of s.                                    *)
LEMMA HeadMoves ==
  ASSUME NEW S, NEW s \in Seq(S), NEW t \in Seq(S), t # <<>>, NEW id,
         Ordered(s, id), Ordered(t, id), Earlier(s, t, id)
  PROVE  /\ Ordered(Append(s, Head(t)), id) /\ Ordered(Tail(t), id)
         /\ Earlier(Append(s, Head(t)), Tail(t), id) /\ Earlier(s, Tail(t), id)
<1>1. PICK x \in S : x = Head(t)
  BY TailIs
<1>2. PICK m \in Nat, n \in Nat : m = Len(s) /\ n = Len(t) /\ n >= 1
  BY TailIs
<1>3. /\ Len(Tail(t)) = n - 1 /\ x = t[1]
      /\ \A i \in 1 .. n - 1 : Tail(t)[i] = t[i + 1]
  BY <1>1, <1>2, TailIs
<1>4. \A i \in 1 .. m, j \in 1 .. n : Follows(s[i], t[j], id)
  BY <1>2 DEF Earlier
<1>5. Ordered(Append(s, x), id)
  <2>1. 1 \in 1 .. n
    BY <1>2
  <2>2. \A i \in 1 .. Len(s) : Follows(s[i], x, id)
    BY <1>2, <1>3, <1>4, <2>1
  <2> QED BY <2>2, OrderedAppend
<1>6. Ordered(Tail(t), id) /\ \A j \in 1 .. n - 1 : Follows(x, Tail(t)[j], id)
  BY <1>1, <1>3, OrderedTail
<1>7. ASSUME NEW i \in 1 .. m, NEW j \in 1 .. n - 1 PROVE Follows(s[i], Tail(t)[j], id)
  <2>1. j + 1 \in 1 .. n
    BY <1>2
  <2> QED BY <1>3, <1>4, <2>1
<1>8. Earlier(s, Tail(t), id)
  BY <1>2, <1>3, <1>7 DEF Earlier
<1>9. PICK u : u = Append(s, x)
  OBVIOUS
<1>10. Len(u) = m + 1 /\ u[m + 1] = x /\ \A i \in 1 .. m : u[i] = s[i]
  BY <1>2, <1>9, AppendIs
<1>11. ASSUME NEW i \in 1 .. m + 1, NEW j \in 1 .. n - 1 PROVE Follows(u[i], Tail(t)[j], id)
  <2>1. i = m + 1 \/ i \in 1 .. m
    OBVIOUS
  <2> QED BY <1>6, <1>7, <1>10, <2>1
<1>12. Earlier(u, Tail(t), id)
  BY <1>3, <1>10, <1>11 DEF Earlier
<1> QED BY <1>1, <1>5, <1>6, <1>8, <1>9, <1>12

(* A third sequence stays before both, or behind both.                     *)
LEMMA MovesBehind ==
  ASSUME NEW S, NEW s \in Seq(S), NEW t \in Seq(S), t # <<>>, NEW u, NEW id, Earlier(u, s, id), Earlier(u, t, id)
  PROVE  Earlier(u, Append(s, Head(t)), id) /\ Earlier(u, Tail(t), id)
<1>1. PICK x \in S : x = Head(t)
  BY TailIs
<1>2. PICK m \in Nat, n \in Nat : m = Len(s) /\ n = Len(t) /\ n >= 1
  BY TailIs
<1>3. Len(Tail(t)) = n - 1 /\ x = t[1] /\ \A i \in 1 .. n - 1 : Tail(t)[i] = t[i + 1]
  BY <1>1, <1>2, TailIs
<1>4. PICK v : v = Append(s, x)
  OBVIOUS
<1>5. Len(v) = m + 1 /\ v[m + 1] = x /\ \A i \in 1 .. m : v[i] = s[i]
  BY <1>2, <1>4, AppendIs
<1>6. ASSUME NEW i \in 1 .. Len(u), NEW j \in 1 .. m + 1 PROVE Follows(u[i], v[j], id)
  <2>1. 1 \in 1 .. n /\ (j = m + 1 \/ j \in 1 .. m)
    BY <1>2
  <2> QED BY <1>2, <1>3, <1>5, <2>1 DEF Earlier
<1>7. ASSUME NEW i \in 1 .. Len(u), NEW j \in 1 .. n - 1 PROVE Follows(u[i], Tail(t)[j], id)
  <2>1. j + 1 \in 1 .. n
    BY <1>2
  <2> QED BY <1>2, <1>3, <2>1 DEF Earlier
<1> QED BY <1>1, <1>3, <1>4, <1>5, <1>6, <1>7 DEF Earlier

LEMMA MovesAhead ==
  ASSUME NEW S, NEW s \in Seq(S), NEW t \in Seq(S), t # <<>>, NEW u, NEW id, Earlier(s, u, id), Earlier(t, u, id)
  PROVE  Earlier(Append(s, Head(t)), u, id) /\ Earlier(Tail(t), u, id)
<1>1. PICK x \in S : x = Head(t)
  BY TailIs
<1>2. PICK m \in Nat, n \in Nat : m = Len(s) /\ n = Len(t) /\ n >= 1
  BY TailIs
<1>3. Len(Tail(t)) = n - 1 /\ x = t[1] /\ \A i \in 1 .. n - 1 : Tail(t)[i] = t[i + 1]
  BY <1>1, <1>2, TailIs
<1>4. PICK v : v = Append(s, x)
  OBVIOUS
<1>5. Len(v) = m + 1 /\ v[m + 1] = x /\ \A i \in 1 .. m : v[i] = s[i]
  BY <1>2, <1>4, AppendIs
<1>6. ASSUME NEW i \in 1 .. m + 1, NEW j \in 1 .. Len(u) PROVE Follows(v[i], u[j], id)
  <2>1. 1 \in 1 .. n /\ (i = m + 1 \/ i \in 1 .. m)
    BY <1>2
  <2> QED BY <1>2, <1>3, <1>5, <2>1 DEF Earlier
<1>7. ASSUME NEW i \in 1 .. n - 1, NEW j \in 1 .. Len(u) PROVE Follows(Tail(t)[i], u[j], id)
  <2>1. i + 1 \in 1 .. n
    BY <1>2
  <2> QED BY <1>2, <1>3, <2>1 DEF Earlier
<1> QED BY <1>1, <1>3, <1>4, <1>5, <1>6, <1>7 DEF Earlier

LEMMA NothingInRow ==
  ASSUME NEW id, NEW s
  PROVE  Ordered(<<>>, id) /\ Earlier(<<>>, s, id) /\ Earlier(s, <<>>, id)
<1>1. \A i : i \notin 1 .. Len(<<>>)
  OBVIOUS
<1> QED BY <1>1 DEF Ordered, Earlier

-----------------------------------------------------------------------------
(* A printer that answers the query for its handshake.                     *)
Mute == {"NUL", "CAN", "GS status", "GS identity"}
Idle == {"noise", "st"}

Tells(d) == TypeOf(printer[d].id) \in {"HRS", "KCP"}

Fresh(d) == Holds(d, {"noise"}, {"NUL"})
Early(d) == Holds(d, Idle, Mute \union {"status"})
Wrong(d) == Holds(d, Idle, Mute \union {"status", "identity"})

LEMMA Answer1 == ASSUME NEW S, NEW x \in S PROVE <<x>> \in Seq(S) /\ <<>> \in Seq(S)
OBVIOUS

LEMMA Answer3 == ASSUME NEW S, NEW x \in S PROVE <<x, x, x>> \in Seq(S)
OBVIOUS

LEMMA NulAnswers == ASSUME NEW d PROVE Answers(d, "NUL") \subseteq Seq({"noise"})
<1>1. Answers(d, "NUL") = {<<>>} \/ Answers(d, "NUL") = {<<>>, <<"noise">>}
  BY DEF Answers
<1>2. <<>> \in Seq({"noise"}) /\ <<"noise">> \in Seq({"noise"})
  BY Answer1
<1> QED BY <1>1, <1>2

(* What such a printer answers at its own speed.                           *)
LEMMA TellsAnswers ==
  ASSUME NEW d, Tells(d), RightSpeed(d)
  PROVE  /\ \A c \in Mute : Answers(d, c) = {<<>>}
         /\ Answers(d, "identity") \subseteq {<<>>, <<printer[d].id, "nul">>}
         /\ Answers(d, "HRS setting") \subseteq {<<>>, <<FlowByte(d)>>}
         /\ Answers(d, "status") \subseteq {<<>>, <<"st">>, <<"st", "st", "st">>}
<1>1. PICK id, type : id = printer[d].id /\ type = TypeOf(id) /\ type \in {"HRS", "KCP"}
  BY DEF Tells
<1>2. ASSUME NEW c \in Mute PROVE Answers(d, c) = {<<>>}
  BY <1>1, <1>2 DEF Answers, Mute
<1>3. Answers(d, "identity") \subseteq {<<>>, <<id, "nul">>}
  BY <1>1 DEF Answers
<1>4. Answers(d, "HRS setting") \subseteq {<<>>, <<FlowByte(d)>>}
  BY <1>1 DEF Answers
<1>5. Answers(d, "status") \subseteq {<<>>, <<"st">>, <<"st", "st", "st">>}
  BY <1>1 DEF Answers
<1> QED BY <1>1, <1>2, <1>3, <1>4, <1>5

LEMMA GarbledAnswers ==
  ASSUME NEW d, ~RightSpeed(d), NEW c
  PROVE  Answers(d, c) \subseteq {<<>>, <<"noise">>}
<1>1. PICK id : id = printer[d].id
  OBVIOUS
<1>2. CASE id = Absent
  BY <1>1, <1>2 DEF Answers
<1>3. CASE id # Absent
  BY <1>1, <1>3 DEF Answers
<1> QED BY <1>2, <1>3

LEMMA IdleAnswers ==
  ASSUME NEW d, Tells(d), NEW c, c \in Mute \union {"status"} \/ ~RightSpeed(d)
  PROVE  Answers(d, c) \subseteq Seq(Idle)
<1>1. <<>> \in Seq(Idle) /\ <<"noise">> \in Seq(Idle) /\ <<"st">> \in Seq(Idle) /\ <<"st", "st", "st">> \in Seq(Idle)
  <2>1. "noise" \in Idle /\ "st" \in Idle
    BY DEF Idle
  <2> QED BY <2>1, Answer1, Answer3
<1>2. CASE RightSpeed(d)
  <2>1. c = "status" \/ c \in Mute
    BY <1>2
  <2> QED BY <1>1, <1>2, <2>1, TellsAnswers
<1>3. CASE ~RightSpeed(d)
  BY <1>1, <1>3, GarbledAnswers
<1> QED BY <1>2, <1>3

-----------------------------------------------------------------------------
(* What a call or the environment does to a serial device: as CallMoves    *)
(* says, and a command that is written waits in the kernel.                *)
Stirs(d) == Dropped(d) \/ Taken(d) \/ Arrived(d) \/ Sent(d)

LEMMA EarlyMoves ==
  ASSUME NEW d, Tells(d), Early(d), Stirs(d) \/ \E c \in Mute \union {"status"} : Put(d, c)
  PROVE  inq'[d] \in Seq(Idle) /\ todo'[d] \in Seq(Idle) /\ outq'[d] \in Seq(Mute \union {"status"})
<1>1. "noise" \in Idle
  BY DEF Idle
<1>2. PICK B, Q : B = Idle /\ Q = Mute \union {"status"}
  OBVIOUS
<1>3. \A c \in Q : Answers(d, c) \subseteq Seq(B)
  BY <1>2, IdleAnswers
<1>4. Holds(d, B, Q) /\ "noise" \in B
  BY <1>1, <1>2 DEF Early
<1>5. Stirs(d) \/ \E c \in Q : Put(d, c)
  BY <1>2
<1>6. inq'[d] \in Seq(B) /\ todo'[d] \in Seq(B) /\ outq'[d] \in Seq(Q)
  BY <1>3, <1>4, <1>5, HoldsKept DEF Stirs
<1> QED BY <1>2, <1>6

LEMMA WrongMoves ==
  ASSUME NEW d, Tells(d), Wrong(d), ~RightSpeed(d), Stirs(d) \/ \E c \in Mute \union {"status", "identity"} : Put(d, c)
  PROVE  inq'[d] \in Seq(Idle) /\ todo'[d] \in Seq(Idle) /\ outq'[d] \in Seq(Mute \union {"status", "identity"})
<1>1. "noise" \in Idle
  BY DEF Idle
<1>2. PICK B, Q : B = Idle /\ Q = Mute \union {"status", "identity"}
  OBVIOUS
<1>3. \A c \in Q : Answers(d, c) \subseteq Seq(B)
  BY <1>2, IdleAnswers
<1>4. Holds(d, B, Q) /\ "noise" \in B
  BY <1>1, <1>2 DEF Wrong
<1>5. Stirs(d) \/ \E c \in Q : Put(d, c)
  BY <1>2
<1>6. inq'[d] \in Seq(B) /\ todo'[d] \in Seq(B) /\ outq'[d] \in Seq(Q)
  BY <1>3, <1>4, <1>5, HoldsKept DEF Stirs
<1> QED BY <1>2, <1>6

LEMMA FreshMoves ==
  ASSUME NEW d, Fresh(d), Stirs(d) \/ Put(d, "NUL") \/ Given(d, "NUL")
  PROVE  inq'[d] \in Seq({"noise"}) /\ todo'[d] \in Seq({"noise"}) /\ outq'[d] \in Seq({"NUL"})
<1>2. PICK B, Q : B = {"noise"} /\ Q = {"NUL"}
  OBVIOUS
<1>3. Answers(d, "NUL") \subseteq Seq(B) /\ \A c \in Q : Answers(d, c) \subseteq Seq(B)
  BY <1>2, NulAnswers
<1>4. Holds(d, B, Q) /\ "noise" \in B
  BY <1>2 DEF Fresh
<1>5. Stirs(d) \/ (\E c \in Q : Put(d, c)) \/ \E c : Given(d, c) /\ Answers(d, c) \subseteq Seq(B)
  BY <1>2, <1>3
<1>6. inq'[d] \in Seq(B) /\ todo'[d] \in Seq(B) /\ outq'[d] \in Seq(Q)
  BY <1>3, <1>4, <1>5, HoldsKept DEF Stirs
<1> QED BY <1>2, <1>6

LEMMA MoreCommands ==
  ASSUME NEW B, NEW C, B \subseteq C, NEW s \in Seq(B)
  PROVE  s \in Seq(C)
OBVIOUS

LEMMA FreshIsEarly == ASSUME NEW d, Fresh(d) PROVE Early(d)
<1>1. {"noise"} \subseteq Idle /\ {"NUL"} \subseteq Mute \union {"status"}
  BY DEF Idle, Mute
<1> QED BY <1>1, MoreCommands DEF Fresh, Early, Holds

LEMMA EarlyIsWrong == ASSUME NEW d, Early(d) PROVE Wrong(d)
<1>1. Mute \union {"status"} \subseteq Mute \union {"status", "identity"}
  OBVIOUS
<1> QED BY <1>1, MoreCommands DEF Early, Wrong, Holds

-----------------------------------------------------------------------------
(* At the speed of the printer: it has not been asked for its identity, or *)
(* the query still waits in the kernel; or it has, and its answers come in *)
(* a row and no query that it answers is left.                             *)
Told(t, i, o, r, id) ==
  \/ i \in Seq(Idle) /\ r \in Seq(Idle) /\ o \in Seq(Mute \union {"status", "identity"}) /\ t \in Seq(Idle)
  \/ Row(t, i, r, id) /\ o \in Seq(Mute)

LEMMA IdentityNotIdle == ASSUME NEW id \in Identities PROVE id \notin Idle /\ id # "nul" /\ id # "noise" /\ "nul" \notin Idle
<1>1. "noise" \notin Identities /\ "st" \notin Identities /\ "nul" \notin Identities
  BY NotIdentities
<1> QED BY <1>1 DEF Idle

LEMMA TellsKnown == ASSUME NEW d, Tells(d) PROVE printer[d].id \in Identities
<1>1. TypeOf(printer[d].id) # "UNKNOWN"
  BY DEF Tells
<1> QED BY <1>1, TypeIsKnown

LEMMA IdleFollow ==
  ASSUME NEW id, id \notin Idle, "nul" \notin Idle, NEW s \in Seq(Idle), NEW t
  PROVE  Ordered(s, id) /\ Earlier(s, t, id)
<1>1. \A i \in 1 .. Len(s) : s[i] \in Idle
  OBVIOUS
<1>2. \A i \in 1 .. Len(s) : \A y : Follows(s[i], y, id)
  BY <1>1 DEF Follows
<1> QED BY <1>2 DEF Ordered, Earlier

(* The answer to the query for the identity comes behind all others.       *)
LEMMA IdentityComes ==
  ASSUME NEW id, id \notin Idle, "nul" \notin Idle, NEW t \in Seq(Idle), NEW i \in Seq(Idle), NEW r \in Seq(Idle)
  PROVE  Row(t, i, r \o <<id, "nul">>, id)
<1>1. PICK S : S = Idle \union {id, "nul"}
  OBVIOUS
<1>2. r \in Seq(S) /\ id \in S /\ "nul" \in S
  BY <1>1, MoreCommands
<1>3. PICK u \in Seq(S) : u = Append(r, id)
  BY <1>2, AppendIs
<1>4. r \o <<id, "nul">> = Append(u, "nul")
  BY <1>2, <1>3
<1>5. Ordered(r, id) /\ \A k \in 1 .. Len(r) : \A y : Follows(r[k], y, id)
  <2>1. \A k \in 1 .. Len(r) : r[k] \in Idle
    OBVIOUS
  <2> QED BY <2>1, IdleFollow DEF Follows
<1>6. Ordered(u, id)
  BY <1>2, <1>3, <1>5, OrderedAppend
<1>7. ASSUME NEW k \in 1 .. Len(u) PROVE Follows(u[k], "nul", id)
  <2>1. PICK n \in Nat : n = Len(r) /\ Len(u) = n + 1
    BY <1>2, <1>3, AppendIs
  <2>2. u[n + 1] = id /\ \A j \in 1 .. n : u[j] = r[j]
    BY <1>2, <1>3, <2>1, AppendIs
  <2>3. k = n + 1 \/ k \in 1 .. n
    BY <1>7, <2>1
  <2>4. Follows(id, "nul", id)
    BY DEF Follows
  <2> QED BY <1>5, <2>1, <2>2, <2>3, <2>4
<1>8. Ordered(Append(u, "nul"), id)
  BY <1>2, <1>3, <1>6, <1>7, OrderedAppend
<1> QED BY <1>4, <1>8, IdleFollow DEF Row

LEMMA RowDrops ==
  ASSUME NEW t, NEW i, NEW r, NEW id, Row(t, i, r, id), NEW i2 \in {i, <<>>}, NEW r2 \in {r, <<>>}
  PROVE  Row(t, i2, r2, id)
BY NothingInRow DEF Row

LEMMA RowTaken ==
  ASSUME NEW S, NEW t \in Seq(S), NEW i \in Seq(S), i # <<>>, NEW r, NEW id, Row(t, i, r, id)
  PROVE  Row(t, Tail(i), r, id) /\ Row(t \o <<Head(i)>>, Tail(i), r, id)
<1>1. /\ Ordered(Append(t, Head(i)), id) /\ Ordered(Tail(i), id)
      /\ Earlier(Append(t, Head(i)), Tail(i), id) /\ Earlier(t, Tail(i), id)
  BY HeadMoves DEF Row
<1>2. Earlier(Append(t, Head(i)), r, id) /\ Earlier(Tail(i), r, id)
  BY MovesAhead DEF Row
<1>3. Append(t, Head(i)) = t \o <<Head(i)>>
  BY TailIs, AppendIs
<1>4. Row(t, Tail(i), r, id)
  BY <1>1, <1>2 DEF Row
<1>5. Row(Append(t, Head(i)), Tail(i), r, id)
  BY <1>1, <1>2 DEF Row
<1> QED BY <1>3, <1>4, <1>5

LEMMA RowArrived ==
  ASSUME NEW S, NEW t, NEW i \in Seq(S), NEW r \in Seq(S), r # <<>>, NEW id, Row(t, i, r, id)
  PROVE  Row(t, i, Tail(r), id) /\ Row(t, Append(i, Head(r)), Tail(r), id)
<1>1. /\ Ordered(Append(i, Head(r)), id) /\ Ordered(Tail(r), id)
      /\ Earlier(Append(i, Head(r)), Tail(r), id) /\ Earlier(i, Tail(r), id)
  BY HeadMoves DEF Row
<1>2. Earlier(t, Append(i, Head(r)), id) /\ Earlier(t, Tail(r), id)
  BY MovesBehind DEF Row
<1> QED BY <1>1, <1>2 DEF Row

LEMMA SeqHead == ASSUME NEW S, NEW s \in Seq(S), s # <<>> PROVE Head(s) \in S
  BY TailIs

LEMMA ToldMoves ==
  ASSUME QueueTypes, NEW d \in Devices, Tells(d), RightSpeed(d), NEW t,
         Told(t, inq[d], outq[d], todo[d], printer[d].id),
         Stirs(d) \/ \E c \in Mute : Put(d, c)
  PROVE  Told(t, inq'[d], outq'[d], todo'[d], printer[d].id)
<1>1. PICK id, i, r, o : id = printer[d].id /\ i = inq[d] /\ r = todo[d] /\ o = outq[d]
  OBVIOUS
<1>2. PICK i2, r2, o2 : i2 = inq'[d] /\ r2 = todo'[d] /\ o2 = outq'[d]
  OBVIOUS
<1>3. id \notin Idle /\ "nul" \notin Idle
  BY <1>1, TellsKnown, IdentityNotIdle
<1>4. i \in Seq(Bytes) /\ r \in Seq(Bytes)
  BY <1>1 DEF QueueTypes
<1>5. \A c \in Mute : <<c>> \in Seq(Mute)
  OBVIOUS
<1>6. <<>> \in Seq(Mute)
  OBVIOUS
<1>7. CASE Row(t, i, r, id) /\ o \in Seq(Mute)
  <2>1. CASE Dropped(d)
    <3>1. i2 \in {i, <<>>} /\ r2 \in {r, <<>>} /\ o2 \in Seq(Mute)
      BY <1>1, <1>2, <1>6, <1>7, <2>1 DEF Dropped
    <3> QED BY <1>1, <1>2, <1>7, <3>1, RowDrops DEF Told
  <2>2. CASE Taken(d)
    <3>1. i # <<>> /\ i2 = Tail(i) /\ r2 = r /\ o2 = o
      BY <1>1, <1>2, <2>2 DEF Taken
    <3>2. Row(<<>>, i, r, id) /\ <<>> \in Seq(Bytes)
      BY <1>7, NothingInRow DEF Row
    <3>3. Ordered(Tail(i), id) /\ Earlier(Tail(i), r, id)
      BY <1>4, <3>1, <3>2, RowTaken DEF Row
    <3>4. Earlier(t, Tail(i), id)
      BY <1>4, <1>7, <3>1, MovesBehind DEF Row
    <3>5. Row(t, Tail(i), r, id)
      BY <1>7, <3>3, <3>4 DEF Row
    <3> QED BY <1>1, <1>2, <1>7, <3>1, <3>5 DEF Told
  <2>3. CASE Arrived(d)
    <3>1. r # <<>> /\ r2 = Tail(r) /\ (i2 = i \/ i2 = Append(i, Head(r))) /\ o2 = o
      BY <1>1, <1>2, <2>3 DEF Arrived, Arriving
    <3>2. Row(t, i2, r2, id)
      BY <1>4, <1>7, <3>1, RowArrived
    <3> QED BY <1>1, <1>2, <1>7, <3>1, <3>2 DEF Told
  <2>4. CASE Sent(d)
    <3>1. o # <<>> /\ o2 = <<>> /\ i2 = i /\ \E a \in Answers(d, Head(o)) : r2 = r \o a
      BY <1>1, <1>2, <2>4 DEF Sent
    <3>2. Head(o) \in Mute
      BY <1>7, <3>1, SeqHead
    <3>3. r2 = r \o <<>>
      BY <3>1, <3>2, TellsAnswers
    <3>4. r2 = r
      BY <1>4, <3>3, TextStays
    <3> QED BY <1>1, <1>2, <1>6, <1>7, <3>1, <3>4 DEF Told
  <2>5. CASE \E c \in Mute : Put(d, c)
    <3>1. i2 = i /\ r2 = r /\ o2 \in Seq(Mute)
      BY <1>1, <1>2, <1>5, <2>5 DEF Put
    <3> QED BY <1>1, <1>2, <1>7, <3>1 DEF Told
  <2> QED BY <2>1, <2>2, <2>3, <2>4, <2>5 DEF Stirs
<1>8. CASE i \in Seq(Idle) /\ r \in Seq(Idle) /\ o \in Seq(Mute \union {"status", "identity"}) /\ t \in Seq(Idle)
  <2>1. PICK Q, B : Q = Mute \union {"status", "identity"} /\ B = Idle
    OBVIOUS
  <2>2. Holds(d, B, Q) /\ "noise" \in B /\ Mute \subseteq Q
    BY <1>1, <1>8, <2>1 DEF Holds, Idle
  <2>3. CASE Dropped(d) \/ Taken(d) \/ Arrived(d) \/ \E c \in Mute : Put(d, c)
    <3>1. Dropped(d) \/ Taken(d) \/ Arrived(d) \/ \E c \in Q : Put(d, c)
      BY <2>2, <2>3
    <3>2. i2 \in Seq(B) /\ r2 \in Seq(B) /\ o2 \in Seq(Q)
      BY <1>2, <2>2, <3>1, HoldsKept
    <3> QED BY <1>1, <1>2, <1>8, <2>1, <3>2 DEF Told
  <2>4. CASE Sent(d)
    <3>1. o # <<>> /\ o2 = <<>> /\ i2 = i /\ \E a \in Answers(d, Head(o)) : r2 = r \o a
      BY <1>1, <1>2, <2>4 DEF Sent
    <3>2. Head(o) \in Q
      BY <1>8, <2>1, <3>1, SeqHead
    <3>3. CASE Head(o) # "identity"
      <4>1. Head(o) \in Mute \union {"status"}
        BY <2>1, <3>2, <3>3
      <4>2. PICK a \in Seq(Idle) : r2 = r \o a
        BY <3>1, <4>1, IdleAnswers
      <4>3. r2 \in Seq(Idle)
        BY <1>8, <4>2
      <4>4. <<>> \in Seq(Mute \union {"status", "identity"})
        OBVIOUS
      <4> QED BY <1>1, <1>2, <1>8, <3>1, <4>3, <4>4 DEF Told
    <3>4. CASE Head(o) = "identity"
      <4>1. r2 = r \o <<>> \/ r2 = r \o <<id, "nul">>
        BY <1>1, <3>1, <3>4, TellsAnswers
      <4>2. CASE r2 = r \o <<>>
        <5>1. r2 = r
          BY <1>4, <4>2, TextStays
        <5>2. <<>> \in Seq(Mute \union {"status", "identity"})
          OBVIOUS
        <5> QED BY <1>1, <1>2, <1>8, <3>1, <5>1, <5>2 DEF Told
      <4>3. CASE r2 = r \o <<id, "nul">>
        <5>1. Row(t, i, r2, id)
          BY <1>3, <1>8, <4>3, IdentityComes
        <5> QED BY <1>1, <1>2, <1>6, <3>1, <5>1 DEF Told
      <4> QED BY <4>1, <4>2, <4>3
    <3> QED BY <3>3, <3>4
  <2> QED BY <2>3, <2>4 DEF Stirs
<1> QED BY <1>1, <1>7, <1>8 DEF Told

LEMMA ToldReads ==
  ASSUME QueueTypes, NEW d \in Devices, NEW t \in Seq(Bytes), Told(t, inq[d], outq[d], todo[d], printer[d].id), Taken(d)
  PROVE  Told(t \o <<Head(inq[d])>>, inq'[d], outq'[d], todo'[d], printer[d].id)
<1>1. PICK id, i, r, o : id = printer[d].id /\ i = inq[d] /\ r = todo[d] /\ o = outq[d]
  OBVIOUS
<1>2. i # <<>> /\ inq'[d] = Tail(i) /\ todo'[d] = r /\ outq'[d] = o
  BY <1>1 DEF Taken
<1>3. i \in Seq(Bytes)
  BY <1>1 DEF QueueTypes
<1>4. CASE Row(t, i, r, id) /\ o \in Seq(Mute)
  BY <1>1, <1>2, <1>3, <1>4, RowTaken DEF Told
<1>5. CASE i \in Seq(Idle) /\ r \in Seq(Idle) /\ o \in Seq(Mute \union {"status", "identity"}) /\ t \in Seq(Idle)
  <2>1. Tail(i) \in Seq(Idle) /\ Head(i) \in Idle
    BY <1>2, <1>5, TailIs
  <2>2. t \o <<Head(i)>> \in Seq(Idle)
    BY <1>5, <2>1, TextGrows
  <2> QED BY <1>1, <1>2, <1>5, <2>1, <2>2 DEF Told
<1> QED BY <1>1, <1>4, <1>5 DEF Told

(* Who has read the identity and a byte more has read all there is.        *)
LEMMA AllRead ==
  ASSUME QueueTypes, NEW d \in Devices, Tells(d), NEW t \in Seq(Bytes),
         Told(t, inq[d], outq[d], todo[d], printer[d].id), Len(t) >= 2, Head(t) = printer[d].id
  PROVE  inq[d] = <<>> /\ todo[d] = <<>> /\ outq[d] \in Seq(Mute)
<1>1. PICK id, i, r, o : id = printer[d].id /\ i = inq[d] /\ r = todo[d] /\ o = outq[d]
  OBVIOUS
<1>2. id \notin Idle /\ id # "nul"
  BY <1>1, TellsKnown, IdentityNotIdle
<1>3. i \in Seq(Bytes) /\ r \in Seq(Bytes)
  BY <1>1 DEF QueueTypes
<1>4. PICK n \in Nat : n = Len(t) /\ n >= 2
  OBVIOUS
<1>5. t # <<>> /\ t[1] = id
  <2>1. t # <<>>
    <3>1. Len(<<>>) = 0
      OBVIOUS
    <3> QED BY <1>4, <3>1
  <2> QED BY <1>1, <2>1, TailIs
<1>6. 1 \in 1 .. n /\ 2 \in 1 .. n /\ 1 < 2
  BY <1>4
<1>7. t \notin Seq(Idle)
  <2>1. t \in Seq(Idle) => t[1] \in Idle
    BY <1>4, <1>6
  <2> QED BY <1>2, <1>5, <2>1
<1>8. Row(t, i, r, id) /\ o \in Seq(Mute)
  BY <1>1, <1>7 DEF Told
<1>9. Follows(id, t[2], id)
  BY <1>4, <1>5, <1>6, <1>8 DEF Row, Ordered
<1>10. t[2] = "nul"
  BY <1>9 DEF Follows
<1>11. ASSUME NEW s \in Seq(Bytes), Earlier(t, s, id) PROVE s = <<>>
  <2>1. ASSUME s # <<>> PROVE FALSE
    <3>1. 1 \in 1 .. Len(s)
      BY <2>1, TailIs
    <3>2. Follows("nul", s[1], id)
      BY <1>4, <1>6, <1>10, <1>11, <3>1 DEF Earlier
    <3> QED BY <1>2, <3>2 DEF Follows
  <2> QED BY <2>1
<1> QED BY <1>1, <1>3, <1>8, <1>11 DEF Row

-----------------------------------------------------------------------------
(* What a call of a probe does to the device of its serial port.           *)
Reads == {"read", "try read", "gets"}

Serves(c, e, d) ==
  \/ Dropped(d) /\ got' = <<>>
  \/ c[1] \in Reads /\ e = "OK" /\ Taken(d)
  \/ c[1] = "write" /\ Put(d, c[2]) /\ got' = <<>>
  \/ c[1] = "sync" /\ Sent(d) /\ got' = <<>>

LEMMA SerialWrite ==
  ASSUME PortTypes, QueueTypes, PortInv, HandlesAccounted, DevInv, NEW p \in Ports, kind[p] = "serial",
         NEW c, NEW e, aps_write(p, c, e), NEW d \in Devices, d = dev[p]
  PROVE  Dropped(d) \/ Put(d, c)
<1>1. CASE UNCHANGED queues
  BY <1>1 DEF Dropped
<1>2. CASE is_open[p] /\ write(p, c, e)
  <2>1. serial_write(p, c, e)
    BY <1>2 DEF write
  <2>2. \/ UNCHANGED queues
        \/ Reached(p) \in Streams /\ UNCHANGED <<inq, todo>> /\ outq' = [outq EXCEPT ![Reached(p)] = <<c>>]
    BY <2>1 DEF serial_write, WriteStream
  <2>3. Reached(p) \in Streams => Reached(p) = d
    BY <1>2, ReachedLive DEF aps_write
  <2>4. CASE UNCHANGED <<inq, todo>> /\ outq' = [outq EXCEPT ![d] = <<c>>]
    BY <2>4 DEF Put, QueueTypes
  <2> QED BY <1>1, <2>2, <2>3, <2>4
<1> QED BY <1>1, <1>2 DEF aps_write, NotOpen

LEMMA Served ==
  ASSUME Class, DevInv, NEW p \in Ports, kind[p] = "serial", Live(p), NEW c, c[1] \in ProbeNames,
         NEW e, Does(p, c, e), NEW d, d = dev[p]
  PROVE  d \in SerialDevices /\ Serves(c, e, d)
<1>1. d \in SerialDevices /\ d \in Devices
  BY OpenKinds DEF Class, Live
<1>2. CASE c[1] \in Reads
  <2>1. aps_read(p, 1, e)
    BY <1>2 DEF Does, Reads
  <2>2. e = "OK" => Taken(d)
    BY <2>1, ReadIs
  <2>3. e # "OK" => got' = <<>> /\ Dropped(d)
    BY <2>1, ReadIs DEF Dropped
  <2> QED BY <1>1, <1>2, <2>2, <2>3 DEF Serves
<1>3. CASE c[1] \notin Reads
  <2>1. got' = <<>>
    BY <1>3, QuietGot DEF Reads
  <2>2. CallMoves(p, c, d)
    BY <1>1, EveryCallMoves DEF Class
  <2>3. CASE c[1] = "write"
    <3>1. aps_write(p, c[2], e)
      BY <2>3 DEF Does
    <3>2. Dropped(d) \/ Put(d, c[2])
      BY <1>1, <3>1, SerialWrite DEF Class
    <3> QED BY <1>1, <2>1, <2>3, <3>2 DEF Serves
  <2>4. CASE c[1] # "write"
    BY <1>1, <1>3, <2>1, <2>2, <2>4 DEF CallMoves, Serves, Reads
  <2> QED BY <2>3, <2>4
<1> QED BY <1>2, <1>3

LEMMA BaudSet ==
  ASSUME Class, NEW p \in Ports, NEW c, c[1] = "baud", Does(p, c, "OK"), NEW b, b = c[2]
  PROVE  baudrate'[p] = b
<1>1. aps_serial_set_baudrate(p, b, "OK")
  BY DEF Does
<1>2. serial_set_baudrate(p, b, "OK")
  BY <1>1 DEF aps_serial_set_baudrate, NotOpen, WrongType
<1> QED BY <1>2 DEF serial_set_baudrate, Class, SettingTypes

LEMMA FlowSet ==
  ASSUME Class, NEW p \in Ports, NEW c, c[1] = "flow", Does(p, c, "OK"), NEW f, f = c[2]
  PROVE  handshake'[p] = f
<1>1. aps_serial_set_handshake(p, f, "OK")
  BY DEF Does
<1>2. serial_set_handshake(p, f, "OK")
  BY <1>1 DEF aps_serial_set_handshake, NotOpen, WrongType
<1> QED BY <1>2 DEF serial_set_handshake, Class, SettingTypes

-----------------------------------------------------------------------------
(* The port has the speed that is tried, once it has been set.             *)
Probing == stage = "serial" /\ what \in Probes /\ Live(cur)

BaudInv == Probing /\ (what = "tune" => ok /\ script # Tune(baud)) => baudrate[cur] = baud

LEMMA TuneHead ==
  ASSUME NEW b
  PROVE  /\ Head(Tune(b)) = <<"baud", b>> /\ Tail(Tune(b)) = << <<"flow", "NONE">> >> /\ Tune(b) # <<>>
         /\ << <<"flow", "NONE">> >> # Tune(b) /\ <<>> # Tune(b)
<1>1. Tune(b) = << <<"baud", b>>, <<"flow", "NONE">> >>
  BY DEF Tune
<1>2. Len(Tune(b)) = 2 /\ Len(<< <<"flow", "NONE">> >>) = 1 /\ Len(<<>>) = 0
  BY <1>1
<1> QED BY <1>1, <1>2, PairTail

LEMMA BaudCall ==
  ASSUME Class, ScriptInv, StageInv, PlaceInv, BaudInv, Step
  PROVE  BaudInv'
<1>1. PICK e \in Errors :
        /\ Does(cur, Head(script), e) /\ script # <<>> /\ cur \in Ports
        /\ ok' = (e = "OK" \/ Head(script)[1] \in Tried)
        /\ UNCHANGED <<stage, what, cur, baud, model, printers>>
  BY StepIs
<1>2. PICK c : c = Head(script)
  OBVIOUS
<1> SUFFICES ASSUME stage = "serial", what \in Probes, Live(cur)', what = "tune" => ok' /\ script' # Tune(baud)
             PROVE  baudrate'[cur] = baud
  <2>1. Tune(baud)' = Tune(baud)
    BY <1>1 DEF Tune
  <2> QED BY <1>1, <2>1 DEF BaudInv, Probing
<1>3. c[1] \in ProbeNames /\ (what # "tune" => c[1] # "baud")
  BY <1>1, <1>2, ProbeCall
<1>4. Frame /\ (c[1] # "baud" => baudrate' = baudrate)
  BY <1>1, <1>2, <1>3, ProbeFrame
<1>5. Live(cur)
  BY <1>1, <1>4 DEF Frame, Live
<1>6. CASE what # "tune"
  BY <1>3, <1>4, <1>5, <1>6 DEF BaudInv, Probing
<1>7. CASE what = "tune" /\ script = Tune(baud)
  <2>1. c[1] = "baud" /\ c[2] = baud
    BY <1>2, <1>7, TuneHead
  <2>2. e = "OK"
    BY <1>1, <1>2, <1>7, <2>1 DEF Tried
  <2> QED BY <1>1, <1>2, <2>1, <2>2, BaudSet
<1>8. CASE what = "tune" /\ script # Tune(baud)
  <2>1. script = << <<"flow", "NONE">> >>
    BY <1>1, <1>8 DEF PlaceInv, Places
  <2>2. c[1] = "flow"
    BY <1>2, <2>1
  <2> QED BY <1>1, <1>4, <1>5, <1>8, <2>2 DEF BaudInv, Probing, StageInv
<1> QED BY <1>6, <1>7, <1>8

LEMMA BaudEnvironment ==
  ASSUME BaudInv, Steady, baudrate' = baudrate, UNCHANGED detectVars
  PROVE  BaudInv'
<1>1. Tune(baud)' = Tune(baud)
  BY DEF Tune, detectVars
<1> QED BY <1>1 DEF BaudInv, Probing, Steady, Live, detectVars

LEMMA BaudDecide ==
  ASSUME BaudInv, script = <<>>, UNCHANGED vars, Turn \/ Onward
  PROVE  BaudInv'
<1>1. UNCHANGED <<baudrate, is_open, misclosed>>
  BY DEF vars, fds, serialVars, settings
<1>2. CASE Onward
  BY <1>2 DEF Onward, Parts4, BaudInv, Probing, Probes
<1>3. CASE Turn
  <2>1. cur' = cur /\ stage' = stage
    BY <1>3 DEF Turn
  <2>2. CASE ToTune
    <3>1. script' = Tune(baud') /\ what' = "tune"
      BY <2>2 DEF ToTune
    <3>2. Tune(baud)' = Tune(baud')
      BY DEF Tune
    <3> QED BY <3>1, <3>2 DEF BaudInv
  <2>3. CASE stage = "serial" /\ (ToModel \/ ToHandshake \/ ToFlow)
    <3>1. what \in Probes /\ baud' = baud /\ (what = "tune" => ok)
      BY <2>3 DEF ToModel, ToHandshake, ToFlow, Probes
    <3>2. script # Tune(baud)
      BY TuneHead
    <3> QED BY <1>1, <2>1, <3>1, <3>2 DEF BaudInv, Probing, Live
  <2>4. CASE stage # "serial"
    BY <2>1, <2>4 DEF BaudInv, Probing
  <2> QED BY <1>3, <2>2, <2>3, <2>4 DEF Turn
<1> QED BY <1>2, <1>3

(* So the speed of the printer is the speed that is tried, or it is not.   *)
LEMMA RightBaud ==
  ASSUME SettingsKept, BaudInv, Probing, cur \in Ports, kind[cur] = "serial",
         what = "tune" => ok /\ script # Tune(baud), NEW d \in SerialDevices, d = dev[cur]
  PROVE  RightSpeed(d) <=> baud = printer[d].speed
<1>1. baudrate[cur] = baud
  BY DEF BaudInv
<1>2. speed[d] = baudrate[cur]
  BY DEF SettingsKept, Probing, Live
<1> QED BY <1>1, <1>2 DEF RightSpeed

-----------------------------------------------------------------------------
(* The queries to a printer that can tell its handshake, while every flush *)
(* of its line has worked.  Above its speed it may not have understood the *)
(* query for the identity, which is lost with the flush that follows; at   *)
(* its speed it answers once.                                              *)
Asking == Probing /\ Tells(dev[cur]) /\ cur \notin unflushed

QueryOf(d, s, id) ==
  /\ what = "tune" /\ (baud > s \/ baud = s) => Early(d)
  /\ what \in {"aps", "escpos"} /\ baud > s =>
       Wrong(d) /\ (what = "escpos" /\ Len(script) < 18 => Early(d))
  /\ what \in {"aps", "escpos"} /\ baud = s =>
       /\ what = "aps" /\ Len(script) > 2 => Early(d)
       /\ Told(<<>>, inq[d], outq[d], todo[d], id)
       /\ ok /\ ~(Len(script) > 2) => Told(text, inq[d], outq[d], todo[d], id)
       /\ ok /\ script = <<>> /\ Head(text) = id => Len(text) >= 2

QueryInv == Asking => QueryOf(dev[cur], printer[dev[cur]].speed, printer[dev[cur]].id)

LEMMA PlacesOf ==
  ASSUME NEW n \in Nat, n >= 1
  PROVE  /\ n = 3 => n > 2
         /\ n > 2 => n = 3 \/ n > 3
         /\ ~(n > 2) => n = 1 \/ n = 2
         /\ n \in 1 .. 18 => n = 18 \/ n < 18
         /\ 0 < 18 /\ ~(0 > 2)
OBVIOUS

(* Where a script was before a call.                                       *)
LEMMA Positions ==
  ASSUME NEW S, NEW s \in Seq(S), s # <<>>, NEW t
  PROVE  /\ t = <<>> \/ t = Tail(s) \/ (Len(s) = 1 /\ t = s) => (Len(t) > 2 => Len(s) > 3 /\ Len(s) > 2)
         /\ t = Tail(s) \/ (Len(s) = 1 /\ t = s) =>
              /\ ~(Len(t) > 2) => Len(s) = 3 \/ (~(Len(s) > 2) /\ (Len(s) = 1 \/ Len(s) = 2))
              /\ t = <<>> => Len(s) = 1
         /\ Len(s) = 3 => Len(s) > 2
         /\ Len(s) > 2 => Len(s) = 3 \/ Len(s) > 3
         /\ ~(Len(s) > 2) => Len(s) = 1 \/ Len(s) = 2
         /\ Len(s) \in 1 .. 18 => Len(s) = 18 \/ Len(s) < 18
         /\ Len(<<>>) < 18 /\ ~(Len(<<>>) > 2)
<1>1. PICK n \in Nat : n = Len(s) /\ n >= 1
  BY TailIs
<1>2. PICK m \in Nat : m = Len(Tail(s)) /\ m = n - 1
  BY <1>1, TailIs
<1>3. Len(<<>>) = 0
  OBVIOUS
<1>4. Tail(s) = <<>> => n = 1
  BY <1>2, <1>3
<1>5. PICK k : k = Len(t)
  OBVIOUS
<1>6. (t = Tail(s) => k = m) /\ (t = s => k = n) /\ (t = <<>> => k = 0)
  BY <1>1, <1>2, <1>3, <1>5
<1>7. (k = 0 => ~(k > 2)) /\ (k = m => (k > 2 => n > 3 /\ n > 2)) /\ (n = 1 /\ k = n => ~(k > 2))
  BY <1>1, <1>2
<1>8. k = m => (~(k > 2) => n = 3 \/ (~(n > 2) /\ (n = 1 \/ n = 2)))
  BY <1>1, <1>2
<1>9. n = 1 => ~(n > 2)
  OBVIOUS
<1>10. /\ n = 3 => n > 2
       /\ n > 2 => n = 3 \/ n > 3
       /\ ~(n > 2) => n = 1 \/ n = 2
       /\ n \in 1 .. 18 => n = 18 \/ n < 18
       /\ 0 < 18 /\ ~(0 > 2)
  BY <1>1, PlacesOf
<1>11. (t = s /\ t = <<>>) => FALSE
  OBVIOUS
<1>12. t = <<>> \/ t = Tail(s) \/ (n = 1 /\ t = s) => (k > 2 => n > 3 /\ n > 2)
  BY <1>6, <1>7, Zenon
<1>13. t = Tail(s) \/ (n = 1 /\ t = s) =>
         /\ ~(k > 2) => n = 3 \/ (~(n > 2) /\ (n = 1 \/ n = 2))
         /\ t = <<>> => n = 1
  BY <1>4, <1>6, <1>8, <1>9, <1>11, Zenon
<1> QED BY <1>1, <1>3, <1>5, <1>10, <1>12, <1>13, Zenon

LEMMA TuneCalls ==
  ASSUME PlaceInv, what = "tune", script # <<>>
  PROVE  Head(script)[1] \in {"baud", "flow"}
<1>1. script = Tune(baud) \/ script = << <<"flow", "NONE">> >>
  BY DEF PlaceInv, Places
<1>2. Head(<< <<"flow", "NONE">> >>) = <<"flow", "NONE">>
  OBVIOUS
<1> QED BY <1>1, <1>2, TuneHead

(* The calls of the two scripts, by their place.                           *)
LEMMA ModelCalls ==
  ASSUME PlaceInv, what \in {"aps", "escpos"}, NEW S, script \in Seq(S), script # <<>>, NEW c, c = Head(script)
  PROVE  /\ Len(script) \in 1 .. 18 /\ c[1] \in QueryNames
         /\ Len(script) = 18 => c[1] = "flush"
         /\ c[1] = "write" => c[2] \in Mute \union {"status", "identity"}
         /\ c[1] = "write" /\ (what = "escpos" \/ Len(script) = 1 \/ Len(script) = 2) => c[2] \in Mute
         /\ c[1] = "write" /\ (what = "escpos" \/ Len(script) > 3) => c[2] \in Mute \union {"status"}
         /\ Len(script) = 3 => c[1] = "write"
         /\ Len(script) = 1 <=> c[1] = "gets"
<1>1. PICK a, b : /\ Rest(script, Model(a, b))
                  /\ {"CAN", a, b} \subseteq Mute \union {"status", "identity"}
                  /\ {"CAN", a} \subseteq Mute \union {"status"}
                  /\ what = "escpos" => {"CAN", a, b} \subseteq Mute
  <2>1. CASE what = "aps"
    BY <2>1 DEF PlaceInv, Places, Mute
  <2>2. CASE what = "escpos"
    BY <2>2 DEF PlaceInv, Places, Mute
  <2> QED BY <2>1, <2>2
<1>2. Len(script) \in 1 .. 18 /\ c[1] \in QueryNames
  BY <1>1, ModelHead
<1>3. ASSUME Len(script) = 18 PROVE c[1] = "flush"
  BY <1>1, <1>3, ModelHead
<1>4. c[1] = "write" => c[2] \in {"CAN", a, b}
  BY <1>1, ModelHead
<1>5. ASSUME c[1] = "write", Len(script) > 3 PROVE c[2] \in {"CAN", a}
  BY <1>1, <1>5, ModelHead
<1>6. ASSUME Len(script) = 3 PROVE c[1] = "write"
  BY <1>1, <1>6, ModelHead
<1>7. ASSUME Len(script) = 2 PROVE c[1] = "sync"
  BY <1>1, <1>7, ModelHead
<1>8. ASSUME Len(script) = 1 PROVE c[1] = "gets"
  BY <1>1, <1>8, ModelHead
<1>9. ASSUME c[1] = "gets" PROVE Len(script) = 1
  BY <1>1, <1>9, ModelHead
<1>10. "sync" # "write" /\ "gets" # "write"
  OBVIOUS
<1> QED BY <1>1, <1>2, <1>3, <1>4, <1>5, <1>6, <1>7, <1>8, <1>9, <1>10, Zenon

LEMMA EarlyTold ==
  ASSUME NEW d, Early(d) \/ Wrong(d), NEW id
  PROVE  Told(<<>>, inq[d], outq[d], todo[d], id)
<1>1. <<>> \in Seq(Idle)
  OBVIOUS
<1> QED BY <1>1, EarlyIsWrong DEF Wrong, Holds, Told

(* An early line on which anything is written but the identity's answer.   *)
LEMMA EarlyPut ==
  ASSUME NEW d, Tells(d), Early(d), Stirs(d) \/ \E c \in Mute \union {"status", "identity"} : Put(d, c), NEW id
  PROVE  Told(<<>>, inq'[d], outq'[d], todo'[d], id)
<1>1. PICK i2, r2, o2 : i2 = inq'[d] /\ r2 = todo'[d] /\ o2 = outq'[d]
  OBVIOUS
<1>2. i2 \in Seq(Idle) /\ r2 \in Seq(Idle) /\ o2 \in Seq(Mute \union {"status", "identity"})
  <2>1. CASE Stirs(d)
    <3>1. i2 \in Seq(Idle) /\ r2 \in Seq(Idle) /\ o2 \in Seq(Mute \union {"status"})
      BY <1>1, <2>1, EarlyMoves
    <3>2. Mute \union {"status"} \subseteq Mute \union {"status", "identity"}
      OBVIOUS
    <3> QED BY <3>1, <3>2, MoreCommands
  <2>2. CASE \E c \in Mute \union {"status", "identity"} : Put(d, c)
    <3>1. PICK c \in Mute \union {"status", "identity"} : i2 = inq[d] /\ r2 = todo[d] /\ o2 = <<c>>
      BY <1>1, <2>2 DEF Put
    <3>2. o2 \in Seq(Mute \union {"status", "identity"})
      BY <3>1, Answer1
    <3> QED BY <3>1, <3>2 DEF Early, Holds
  <2> QED BY <2>1, <2>2
<1>3. <<>> \in Seq(Idle)
  OBVIOUS
<1> QED BY <1>1, <1>2, <1>3 DEF Told

(* A call of a probe of a printer that can tell its handshake.             *)
LEMMA AskingStep ==
  ASSUME Class, SettingsKept, ScriptInv, DevInv, StageInv, PlaceInv, BaudInv, Step, Asking'
  PROVE  \E e, c, d :
           /\ c = Head(script) /\ script # <<>> /\ script \in Seq(AllCalls) /\ Does(cur, c, e)
           /\ d \in SerialDevices /\ d = dev[cur] /\ d = dev'[cur'] /\ printer' = printer
           /\ Asking /\ c[1] \in ProbeNames /\ Serves(c, e, d)
           /\ c[1] = "flush" => e = "OK"
           /\ what # "tune" => (RightSpeed(d) <=> baud = printer[d].speed)
           /\ text' = IF c[1] = "write" THEN <<>> ELSE text \o got'
           /\ ok' = (e = "OK" \/ c[1] \in Tried)
           /\ ok' => script' = Tail(script) \/ (c[1] = "gets" /\ script' = script)
           /\ ~ok' => script' = <<>>
           /\ c[1] = "gets" /\ ok' /\ script' # script => Ending(got') \/ Len(text') >= MaxIdentity
           /\ UNCHANGED <<stage, what, cur, baud, model, printers>>
<1>1. PICK e \in Errors :
        /\ Does(cur, Head(script), e) /\ script # <<>> /\ cur \in Ports
        /\ script \in Seq(AllCalls) /\ Head(script) \in AllCalls
        /\ text' = IF Head(script)[1] = "write" THEN <<>> ELSE text \o got'
        /\ ok' = (e = "OK" \/ Head(script)[1] \in Tried)
        /\ ok' => script' = Tail(script) \/ (Head(script)[1] = "gets" /\ script' = script)
        /\ ~ok' => script' = <<>>
        /\ Head(script)[1] = "gets" /\ ok' /\ script' # script => Ending(got') \/ Len(text') >= MaxIdentity
        /\ unflushed' = IF Head(script)[1] = "flush" /\ e # "OK" THEN unflushed \union {cur} ELSE unflushed
        /\ UNCHANGED <<stage, what, cur, baud, model, printers>>
  BY StepIs
<1>2. PICK c : c = Head(script)
  OBVIOUS
<1>3. stage = "serial" /\ what \in Probes
  BY <1>1 DEF Asking, Probing
<1>4. c[1] \in ProbeNames
  BY <1>1, <1>2, <1>3, ProbeCall
<1>5. Frame
  BY <1>1, <1>2, <1>4, ProbeFrame
<1>6. PICK d : d = dev[cur]
  OBVIOUS
<1>7. Live(cur) /\ dev' = dev /\ printer' = printer
  BY <1>1, <1>5 DEF Frame, Asking, Probing, Live
<1>8. kind[cur] = "serial"
  BY <1>3 DEF StageInv
<1>9. d \in SerialDevices /\ Serves(c, e, d)
  BY <1>1, <1>2, <1>4, <1>6, <1>7, <1>8, Served
<1>10. TypeOf(printer'[dev'[cur']].id) \in {"HRS", "KCP"} /\ cur \notin unflushed'
  BY <1>1 DEF Asking, Tells
<1>11. cur \notin unflushed /\ (c[1] = "flush" => e = "OK")
  BY <1>1, <1>2, <1>10
<1>12. Asking
  BY <1>1, <1>3, <1>7, <1>10, <1>11 DEF Asking, Probing, Tells
<1>13. what # "tune" => (RightSpeed(d) <=> baud = printer[d].speed)
  BY <1>1, <1>3, <1>6, <1>7, <1>8, <1>9, RightBaud DEF Probing
<1> QED BY <1>1, <1>2, <1>4, <1>6, <1>7, <1>9, <1>11, <1>12, <1>13

LEMMA Speeds ==
  ASSUME QueueTypes, ScriptInv, NEW d \in Devices
  PROVE  /\ baud > printer[d].speed => baud # printer[d].speed
         /\ baud \in Nat /\ printer[d].speed \in Nat
<1>1. baud \in Nat
  BY BoundsAssumption DEF ScriptInv, Bauds
<1>2. printer[d] \in Printers
  BY DEF QueueTypes
<1>3. printer[d].speed \in Nat
  BY <1>2, PrintersAssumption, BoundsAssumption
<1> QED BY <1>1, <1>3

(* What a served call does is one of the movements.                        *)
LEMMA ServedMoves ==
  ASSUME NEW c, NEW e, NEW d, Serves(c, e, d)
  PROVE  Stirs(d) \/ (c[1] = "write" /\ Put(d, c[2]))
BY DEF Serves, Stirs

LEMMA ServedQuiet ==
  ASSUME NEW c, NEW e, NEW d, Serves(c, e, d), c[1] \in {"baud", "flow", "flush", "read timeout"}
  PROVE  Dropped(d) /\ got' = <<>>
BY DEF Serves, Reads

LEMMA TextBytes ==
  ASSUME TextInv, what \in Probes
  PROVE  text \in Seq(Bytes)
<1>1. CASE text = <<>>
  BY <1>1
<1>2. CASE text # <<>>
  <2>1. text \in Seq(Own(dev[cur])) /\ Own(dev[cur]) \subseteq Bytes
    BY <1>2 DEF TextInv, Own
  <2> QED BY <2>1, MoreCommands
<1> QED BY <1>1, <1>2

LEMMA TellsTune ==
  ASSUME PlaceInv, QueryInv, Asking, what = "tune", script # <<>>, NEW d, d = dev[cur],
         NEW s, s = printer[d].speed, baud > s \/ baud = s,
         NEW c, c = Head(script), NEW e, Serves(c, e, d)
  PROVE  inq'[d] \in Seq(Idle) /\ todo'[d] \in Seq(Idle) /\ outq'[d] \in Seq(Mute \union {"status"})
<1>1. c[1] \in {"baud", "flow"}
  BY TuneCalls
<1>2. Stirs(d)
  BY <1>1, ServedQuiet DEF Stirs
<1>3. Tells(d) /\ Early(d)
  BY DEF Asking, QueryInv, QueryOf
<1> QED BY <1>2, <1>3, EarlyMoves

LEMMA TellsFast ==
  ASSUME PlaceInv, QueryInv, Asking, what \in {"aps", "escpos"}, script # <<>>, NEW S, script \in Seq(S),
         NEW d, d = dev[cur], NEW s, s = printer[d].speed, baud > s, ~RightSpeed(d),
         NEW c, c = Head(script), NEW e, Serves(c, e, d)
  PROVE  inq'[d] \in Seq(Idle) /\ todo'[d] \in Seq(Idle) /\ outq'[d] \in Seq(Mute \union {"status", "identity"})
<1>1. c[1] = "write" => c[2] \in Mute \union {"status", "identity"}
  BY ModelCalls
<1>2. Stirs(d) \/ \E q \in Mute \union {"status", "identity"} : Put(d, q)
  BY <1>1, ServedMoves
<1>3. Tells(d) /\ Wrong(d)
  BY DEF Asking, QueryInv, QueryOf
<1> QED BY <1>2, <1>3, WrongMoves

LEMMA TellsFastFlushed ==
  ASSUME Class, StageInv, PlaceInv, QueryInv, Asking, what = "escpos", script # <<>>, NEW S, script \in Seq(S),
         cur \in Ports, NEW d, d = dev[cur], d \in SerialDevices, NEW s, s = printer[d].speed, baud > s,
         NEW c, c = Head(script), NEW e, Serves(c, e, d), Does(cur, c, e), c[1] = "flush" => e = "OK"
  PROVE  inq'[d] \in Seq(Idle) /\ todo'[d] \in Seq(Idle) /\ outq'[d] \in Seq(Mute \union {"status"})
<1>0. Tells(d) /\ Wrong(d) /\ (Len(script) < 18 => Early(d))
  BY DEF Asking, QueryInv, QueryOf
<1>1. /\ Len(script) \in 1 .. 18
      /\ Len(script) = 18 => c[1] = "flush"
      /\ c[1] = "write" => c[2] \in Mute
  BY ModelCalls
<1>2. Len(script) = 18 \/ Len(script) < 18
  BY <1>1, Positions
<1>3. CASE Len(script) = 18
  <2>1. c[1] = "flush" /\ aps_flush(cur, "OK")
    BY <1>1, <1>3 DEF Does
  <2>2. kind[cur] = "serial" /\ Live(cur)
    BY DEF Asking, Probing, StageInv
  <2>3. inq'[d] = <<>> /\ outq'[d] = <<>> /\ todo' = todo
    BY <2>1, <2>2, FlushEmpties DEF Class
  <2>4. <<>> \in Seq(Idle) /\ <<>> \in Seq(Mute \union {"status"})
    OBVIOUS
  <2> QED BY <1>0, <2>3, <2>4 DEF Wrong, Holds
<1>4. CASE Len(script) < 18
  <2>1. Stirs(d) \/ \E q \in Mute \union {"status"} : Put(d, q)
    BY <1>1, ServedMoves
  <2> QED BY <1>0, <1>4, <2>1, EarlyMoves
<1> QED BY <1>2, <1>3, <1>4

LEMMA TellsEarly ==
  ASSUME PlaceInv, QueryInv, Asking, what = "aps", script # <<>>, NEW S, script \in Seq(S),
         NEW d, d = dev[cur], baud = printer[d].speed, Len(script) > 3, Len(script) > 2,
         NEW c, c = Head(script), NEW e, Serves(c, e, d)
  PROVE  inq'[d] \in Seq(Idle) /\ todo'[d] \in Seq(Idle) /\ outq'[d] \in Seq(Mute \union {"status"})
<1>1. c[1] = "write" => c[2] \in Mute \union {"status"}
  BY ModelCalls
<1>2. Stirs(d) \/ \E q \in Mute \union {"status"} : Put(d, q)
  BY <1>1, ServedMoves
<1>3. Tells(d) /\ Early(d)
  BY DEF Asking, QueryInv, QueryOf
<1> QED BY <1>2, <1>3, EarlyMoves

LEMMA TellsTold ==
  ASSUME QueueTypes, PlaceInv, QueryInv, Asking, what \in {"aps", "escpos"}, script # <<>>, NEW S, script \in Seq(S),
         NEW d \in Devices, d = dev[cur], baud = printer[d].speed, RightSpeed(d),
         NEW c, c = Head(script), NEW e, Serves(c, e, d)
  PROVE  Told(<<>>, inq'[d], outq'[d], todo'[d], printer[d].id)
<1>1. Tells(d) /\ Told(<<>>, inq[d], outq[d], todo[d], printer[d].id) /\ (what = "aps" /\ Len(script) > 2 => Early(d))
  BY DEF Asking, QueryInv, QueryOf
<1>2. Stirs(d) \/ (c[1] = "write" /\ Put(d, c[2]))
  BY ServedMoves
<1>3. CASE what = "aps" /\ Len(script) > 2
  <2>1. c[1] = "write" => c[2] \in Mute \union {"status", "identity"}
    BY ModelCalls
  <2> QED BY <1>1, <1>2, <1>3, <2>1, EarlyPut
<1>4. CASE what = "escpos" \/ ~(Len(script) > 2)
  <2>1. what = "escpos" \/ Len(script) = 1 \/ Len(script) = 2
    BY <1>4, Positions
  <2>2. c[1] = "write" => c[2] \in Mute
    BY <2>1, ModelCalls
  <2> QED BY <1>1, <1>2, <2>2, ToldMoves
<1> QED BY <1>3, <1>4

(* What has been read since the last command goes on.                      *)
LEMMA TellsText ==
  ASSUME QueueTypes, PlaceInv, QueryInv, TextInv, Asking, what \in {"aps", "escpos"}, script # <<>>, NEW S, script \in Seq(S),
         NEW d \in Devices, d = dev[cur], baud = printer[d].speed, RightSpeed(d), ok,
         NEW c, c = Head(script), NEW e, Serves(c, e, d),
         Len(script) = 3 \/ ~(Len(script) > 2),
         text' = IF c[1] = "write" THEN <<>> ELSE text \o got'
  PROVE  Told(text', inq'[d], outq'[d], todo'[d], printer[d].id)
<1>1. CASE c[1] = "write"
  <2>1. text' = <<>>
    BY <1>1
  <2> QED BY <2>1, TellsTold
<1>2. CASE c[1] # "write"
  <2>1. ~(Len(script) > 2)
    BY <1>2, ModelCalls
  <2>2. Told(text, inq[d], outq[d], todo[d], printer[d].id) /\ Tells(d)
    BY <2>1 DEF Asking, QueryInv, QueryOf
  <2>3. text \in Seq(Bytes)
    BY TextBytes DEF Probes
  <2>4. CASE Taken(d)
    <3>1. text' = text \o <<Head(inq[d])>>
      BY <1>2, <2>4 DEF Taken
    <3> QED BY <2>2, <2>3, <2>4, <3>1, ToldReads
  <2>5. CASE ~Taken(d)
    <3>1. got' = <<>> /\ Stirs(d)
      BY <1>2, <2>5 DEF Serves, Stirs
    <3>2. text' = text
      BY <1>2, <2>3, <3>1, TextStays
    <3> QED BY <2>2, <3>1, <3>2, ToldMoves
  <2> QED BY <2>4, <2>5
<1> QED BY <1>1, <1>2

(* Where the identity has been read, a byte more has been read.            *)
LEMMA TellsEnd ==
  ASSUME Class, DevInv, PlaceInv, TextInv, Asking, what \in {"aps", "escpos"}, script # <<>>, NEW S, script \in Seq(S),
         cur \in Ports, NEW d, d = dev[cur],
         NEW c, c = Head(script), NEW e, Does(cur, c, e), ok', ok' = (e = "OK" \/ c[1] \in Tried),
         script' = Tail(script) \/ (c[1] = "gets" /\ script' = script),
         c[1] = "gets" /\ ok' /\ script' # script => Ending(got') \/ Len(text') >= MaxIdentity,
         text' = IF c[1] = "write" THEN <<>> ELSE text \o got',
         script' = <<>>, Head(text') = printer[d].id
  PROVE  Len(text') >= 2
<1>1. Len(script) = 1 /\ c[1] = "gets"
  <2>1. Tail(script) = <<>>
    OBVIOUS
  <2>2. Len(script) = 1
    BY <2>1, Shorter
  <2> QED BY <2>2, ModelCalls
<1>2. e = "OK" /\ aps_read(cur, 1, "OK")
  <2>1. e = "OK"
    BY <1>1 DEF Tried
  <2> QED BY <1>1, <2>1 DEF Does
<1>3. PICK b : got' = <<b>> /\ b = Head(inq[d]) /\ inq[d] # <<>> /\ d \in SerialDevices \union ParallelDevices
  BY <1>2, ReadIs DEF Taken
<1>4. b \in Bytes /\ text \in Seq(Bytes)
  <2>1. inq[d] \in Seq(Bytes)
    BY <1>3 DEF Class, QueueTypes
  <2>2. b \in Bytes
    BY <1>3, <2>1, SeqHead
  <2> QED BY <2>2, TextBytes DEF Probes
<1>5. text' = text \o <<b>>
  BY <1>1, <1>3
<1>6. Ending(<<b>>) \/ Len(text') >= MaxIdentity
  BY <1>1, <1>3
<1>7. CASE Len(text') >= MaxIdentity
  <2>1. text' \in Seq(Bytes)
    BY <1>4, <1>5, TextGrows
  <2>2. PICK n \in Nat : n = Len(text') /\ n >= MaxIdentity
    BY <1>7, <2>1
  <2>3. n >= 2
    BY <2>2, SizesAssumption
  <2> QED BY <2>2, <2>3
<1>8. CASE Ending(<<b>>)
  <2>1. b = "nul" \/ b = "noise"
    <3>1. <<b>> = <<"nul">> \/ <<b>> = <<"noise">>
      BY <1>8 DEF Ending
    <3> QED BY <3>1
  <2>2. CASE text = <<>>
    <3>1. text' = <<b>>
      BY <1>5, <2>2
    <3>2. Head(text') = b
      BY <3>1
    <3>3. b # printer[d].id
      BY <2>1, TellsKnown, IdentityNotIdle DEF Asking
    <3> QED BY <3>2, <3>3
  <2>3. CASE text # <<>>
    <3>1. PICK n \in Nat : n = Len(text) /\ n >= 1
      BY <1>4, <2>3, TailIs
    <3>2. Len(text') = n + 1
      <4>1. text' = Append(text, b) /\ Len(Append(text, b)) = Len(text) + 1
        BY <1>4, <1>5, AppendIs
      <4> QED BY <3>1, <4>1
    <3>3. n + 1 >= 2
      BY <3>1
    <3> QED BY <3>2, <3>3
  <2> QED BY <2>2, <2>3
<1> QED BY <1>6, <1>7, <1>8

LEMMA QueryCallKeeps ==
  ASSUME Class, SettingsKept, ScriptInv, DevInv, StageInv, PlaceInv, TextInv, BaudInv, QueryInv, Step
  PROVE  QueryInv'
<1> SUFFICES ASSUME Asking' PROVE QueryOf(dev[cur], printer[dev[cur]].speed, printer[dev[cur]].id)'
  BY DEF QueryInv
<1>1. PICK e, c, d :
           /\ c = Head(script) /\ script # <<>> /\ script \in Seq(AllCalls) /\ Does(cur, c, e)
           /\ d \in SerialDevices /\ d = dev[cur] /\ d = dev'[cur'] /\ printer' = printer
           /\ Asking /\ c[1] \in ProbeNames /\ Serves(c, e, d)
           /\ c[1] = "flush" => e = "OK"
           /\ what # "tune" => (RightSpeed(d) <=> baud = printer[d].speed)
           /\ text' = IF c[1] = "write" THEN <<>> ELSE text \o got'
           /\ ok' = (e = "OK" \/ c[1] \in Tried)
           /\ ok' => script' = Tail(script) \/ (c[1] = "gets" /\ script' = script)
           /\ ~ok' => script' = <<>>
           /\ c[1] = "gets" /\ ok' /\ script' # script => Ending(got') \/ Len(text') >= MaxIdentity
           /\ UNCHANGED <<stage, what, cur, baud, model, printers>>
  BY AskingStep
<1>2. cur \in Ports /\ d \in Devices
  BY <1>1 DEF ScriptInv
<1>3. PICK s, id : s = printer[d].speed /\ id = printer[d].id
  OBVIOUS
<1>4. ASSUME what = "tune", baud > s \/ baud = s
      PROVE  inq'[d] \in Seq(Idle) /\ todo'[d] \in Seq(Idle) /\ outq'[d] \in Seq(Mute \union {"status"})
  BY <1>1, <1>3, <1>4, TellsTune
<1>5. what \in {"aps", "escpos"} => what # "tune"
  OBVIOUS
<1>6. ASSUME what \in {"aps", "escpos"}, baud > s
      PROVE  inq'[d] \in Seq(Idle) /\ todo'[d] \in Seq(Idle) /\ outq'[d] \in Seq(Mute \union {"status", "identity"})
  <2>1. ~RightSpeed(d)
    BY <1>1, <1>2, <1>3, <1>5, <1>6, Speeds DEF Class
  <2> QED BY <1>1, <1>3, <1>6, <2>1, TellsFast
<1>7. ASSUME what = "escpos", baud > s
      PROVE  inq'[d] \in Seq(Idle) /\ todo'[d] \in Seq(Idle) /\ outq'[d] \in Seq(Mute \union {"status"})
  BY <1>1, <1>2, <1>3, <1>7, TellsFastFlushed
<1>8. /\ what \in {"aps", "escpos"} => (Len(script) = 1 <=> c[1] = "gets")
      /\ script' = <<>> \/ script' = Tail(script) \/ (c[1] = "gets" /\ script' = script)
      /\ ok' => script' = Tail(script) \/ (c[1] = "gets" /\ script' = script)
  BY <1>1, ModelCalls
<1>9. ASSUME what \in {"aps", "escpos"}
      PROVE  /\ Len(script') > 2 => Len(script) > 3 /\ Len(script) > 2
             /\ ok' /\ ~(Len(script') > 2) => Len(script) = 3 \/ ~(Len(script) > 2)
  <2>1. script' = <<>> \/ script' = Tail(script) \/ (Len(script) = 1 /\ script' = script)
    BY <1>8, <1>9
  <2>2. ok' => script' = Tail(script) \/ (Len(script) = 1 /\ script' = script)
    BY <1>8, <1>9
  <2> QED BY <1>1, <2>1, <2>2, Positions
<1>10. ASSUME what = "aps", baud = s, Len(script') > 2
       PROVE  inq'[d] \in Seq(Idle) /\ todo'[d] \in Seq(Idle) /\ outq'[d] \in Seq(Mute \union {"status"})
  <2>1. Len(script) > 3 /\ Len(script) > 2
    BY <1>9, <1>10
  <2> QED BY <1>1, <1>3, <1>10, <2>1, TellsEarly
<1>11. ASSUME what \in {"aps", "escpos"}, baud = s
       PROVE  RightSpeed(d)
  BY <1>1, <1>3, <1>5, <1>11
<1>12. ASSUME what \in {"aps", "escpos"}, baud = s
       PROVE  Told(<<>>, inq'[d], outq'[d], todo'[d], id)
  BY <1>1, <1>2, <1>3, <1>11, <1>12, TellsTold DEF Class
<1>13. ASSUME what \in {"aps", "escpos"}, baud = s, ok', ~(Len(script') > 2)
       PROVE  Told(text', inq'[d], outq'[d], todo'[d], id)
  <2>1. Len(script) = 3 \/ ~(Len(script) > 2)
    BY <1>9, <1>13
  <2>2. ok
    BY <1>1 DEF StageInv
  <2>3. RightSpeed(d)
    BY <1>11, <1>13
  <2> QED BY <1>1, <1>2, <1>3, <1>13, <2>1, <2>2, <2>3, TellsText DEF Class
<1>14. ASSUME what \in {"aps", "escpos"}, baud = s, ok', script' = <<>>, Head(text') = id
       PROVE  Len(text') >= 2
  <2>1. script' = Tail(script) \/ (c[1] = "gets" /\ script' = script)
    BY <1>1, <1>14
  <2> QED BY <1>1, <1>2, <1>3, <1>14, <2>1, TellsEnd
<1>15. what' = what /\ baud' = baud /\ dev'[cur'] = d /\ printer'[d].speed = s /\ printer'[d].id = id
  BY <1>1, <1>3
<1>16. ASSUME what = "tune", baud > s \/ baud = s PROVE Early(d)'
  BY <1>4, <1>16 DEF Early, Holds
<1>17. ASSUME what \in {"aps", "escpos"}, baud > s PROVE Wrong(d)'
  BY <1>6, <1>17 DEF Wrong, Holds
<1>18. ASSUME what = "escpos", baud > s PROVE Early(d)'
  BY <1>7, <1>18 DEF Early, Holds
<1>19. ASSUME what = "aps", baud = s, Len(script') > 2 PROVE Early(d)'
  BY <1>10, <1>19 DEF Early, Holds
<1>20. QueryOf(d, s, id)'
  BY <1>12, <1>13, <1>14, <1>15, <1>16, <1>17, <1>18, <1>19 DEF QueryOf
<1> QED BY <1>15, <1>20

(* A port that has not been probed yet was never sent anything but zeros.  *)
FreshInv == stage = "serial" =>
  /\ what \in {"create", "wake"} => \A d \in SerialDevices : Fresh(d)
  /\ what \in {"timeout"} \union Probes =>
       \A q \in Ports : is_open[q] /\ kind[q] = "serial" /\ (q > cur \/ (q = cur /\ what = "timeout")) => Fresh(dev[q])

LEMMA QueryEnvironment ==
  ASSUME Class, SettingsKept, ScriptInv, DevInv, StageInv, BaudInv, QueryInv, Environment, UNCHANGED detectVars
  PROVE  QueryInv'
<1>1. Steady
  BY EnvironmentKeeps
<1>2. UNCHANGED <<stage, what, cur, script, ok, baud, text, unflushed>>
  BY DEF detectVars
<1> SUFFICES ASSUME Asking' PROVE QueryOf(dev[cur], printer[dev[cur]].speed, printer[dev[cur]].id)'
  BY DEF QueryInv
<1>3. Asking
  BY <1>1, <1>2 DEF Asking, Probing, Tells, Live, Steady
<1>4. PICK d, s, id : d = dev[cur] /\ s = printer[d].speed /\ id = printer[d].id
  OBVIOUS
<1>5. d \in SerialDevices /\ cur \in Ports /\ kind[cur] = "serial"
  BY <1>3, <1>4, OpenKinds DEF ScriptInv, StageInv, Class, Live, Asking, Probing
<1>6. Stirs(d) /\ Tells(d)
  <2>1. d \in Devices /\ d \notin EthernetDevices
    BY <1>5, KindsAssumption
  <2>2. Dropped(d) \/ Sent(d) \/ Arrived(d)
    BY <2>1, EnvironmentMoves DEF Class
  <2> QED BY <1>3, <1>4, <2>2 DEF Stirs, Asking
<1>7. QueryOf(d, s, id)
  BY <1>3, <1>4 DEF QueryInv
<1>8. what \in {"aps", "escpos"} => (RightSpeed(d) <=> baud = s)
  BY <1>3, <1>4, <1>5, RightBaud DEF Asking
<1>9. baud > s => baud # s
  BY <1>4, <1>5, Speeds DEF Class
<1>10. ASSUME Early(d) PROVE Early(d)'
  <2>1. inq'[d] \in Seq(Idle) /\ todo'[d] \in Seq(Idle) /\ outq'[d] \in Seq(Mute \union {"status"})
    BY <1>6, <1>10, EarlyMoves
  <2> QED BY <2>1 DEF Early, Holds
<1>11. ASSUME Wrong(d), what \in {"aps", "escpos"}, baud > s PROVE Wrong(d)'
  <2>1. inq'[d] \in Seq(Idle) /\ todo'[d] \in Seq(Idle) /\ outq'[d] \in Seq(Mute \union {"status", "identity"})
    BY <1>6, <1>8, <1>9, <1>11, WrongMoves
  <2> QED BY <2>1 DEF Wrong, Holds
<1>12. ASSUME NEW t, Told(t, inq[d], outq[d], todo[d], id), what \in {"aps", "escpos"}, baud = s
       PROVE  Told(t, inq'[d], outq'[d], todo'[d], id)
  BY <1>4, <1>5, <1>6, <1>8, <1>12, ToldMoves DEF Class
<1>13. QueryOf(d, s, id)'
  BY <1>2, <1>7, <1>10, <1>11, <1>12 DEF QueryOf
<1>14. dev'[cur'] = d /\ printer'[d].speed = s /\ printer'[d].id = id
  BY <1>1, <1>2, <1>4 DEF Steady
<1> QED BY <1>13, <1>14

LEMMA NotAbove ==
  ASSUME NEW b \in Nat, NEW s \in Nat, b - 1 > s \/ b - 1 = s
  PROVE  b > s
OBVIOUS

LEMMA QueryDecide ==
  ASSUME Class, ScriptInv, StageInv, QueryInv, FreshInv, UNCHANGED <<vars, unflushed>>, script = <<>>, Turn \/ Onward
  PROVE  QueryInv'
<1>1. UNCHANGED <<inq, outq, todo, kind, dev, is_open, misclosed, printer>>
  BY DEF vars, ports, fds
<1> SUFFICES ASSUME Asking' PROVE QueryOf(dev[cur], printer[dev[cur]].speed, printer[dev[cur]].id)'
  BY DEF QueryInv
<1>2. Turn
  BY DEF Onward, Parts4, Probes, Asking, Probing
<1>3. stage' = stage /\ cur' = cur /\ text' = <<>>
  BY <1>2 DEF Turn
<1>4. stage = "serial" /\ Live(cur) /\ Tells(dev[cur]) /\ cur \notin unflushed
  BY <1>1, <1>3 DEF Asking, Probing, Live, Tells
<1>5. PICK d, s, id : d = dev[cur] /\ s = printer[d].speed /\ id = printer[d].id
  OBVIOUS
<1>6. what \in Probes => QueryOf(d, s, id)
  BY <1>4, <1>5 DEF QueryInv, Asking, Probing
<1>7. d \in Devices /\ cur \in Ports /\ kind[cur] = "serial"
  <2>1. kind[cur] = "serial" /\ cur \in Ports
    BY <1>2, <1>4 DEF Turn, ScriptInv
  <2> QED BY <1>4, <1>5, <2>1 DEF Live, Class, PortInv, Fits
<1>8. ASSUME ToTune, baud' > s \/ baud' = s PROVE Early(d)
  <2>1. CASE what = "timeout"
    <3>1. Fresh(d)
      BY <1>4, <1>5, <1>7, <2>1 DEF FreshInv, Live
    <3> QED BY <3>1, FreshIsEarly
  <2>2. CASE what = "escpos" /\ baud' = baud - 1
    <3>1. baud > s
      BY <1>5, <1>7, <1>8, <2>2, Speeds, NotAbove DEF Class
    <3>2. Len(script) < 18
      <4>1. Len(<<>>) = 0 /\ 0 < 18
        OBVIOUS
      <4> QED BY <4>1
    <3> QED BY <1>6, <2>2, <3>1, <3>2 DEF QueryOf, Probes
  <2> QED BY <1>8, <2>1, <2>2 DEF ToTune
<1>9. ASSUME ToModel, baud > s \/ baud = s
      PROVE  /\ what' = "aps" => Early(d)
             /\ what' # "aps" => /\ what' = "escpos" /\ script' = Model("GS status", "GS identity")
                                 /\ baud > s => Wrong(d)
                                 /\ baud = s => Told(<<>>, inq[d], outq[d], todo[d], id)
             /\ script' # <<>> /\ ~(Len(script') < 18) /\ baud' = baud /\ Len(script') = 18
  <2>1. CASE what' = "aps" /\ script' = Model("status", "identity") /\ what = "tune" /\ ok
    BY <1>6, <1>9, <2>1, ModelNotEmpty, ModelLength DEF QueryOf, Probes, ToModel
  <2>2. CASE what' = "escpos" /\ script' = Model("GS status", "GS identity") /\ what = "aps" /\ ~ok
    <3>1. "escpos" # "aps"
      OBVIOUS
    <3> QED BY <1>6, <1>9, <2>2, <3>1, ModelNotEmpty, ModelLength DEF QueryOf, Probes, ToModel
  <2> QED BY <1>4, <1>9, <2>1, <2>2 DEF ToModel
<1>10. QueryOf(d, s, id)'
  <2>1. Early(d)' = Early(d) /\ Wrong(d)' = Wrong(d)
    BY <1>1 DEF Early, Wrong, Holds
  <2>2. inq'[d] = inq[d] /\ outq'[d] = outq[d] /\ todo'[d] = todo[d]
    BY <1>1
  <2>3. CASE ToTune
    <3>1. what' = "tune"
      BY <2>3 DEF ToTune
    <3> QED BY <1>8, <2>1, <2>3, <3>1 DEF QueryOf
  <2>4. CASE ToModel
    <3>1. what' = "aps" \/ what' = "escpos"
      BY <2>4 DEF ToModel
    <3>2. baud' = baud /\ script' # <<>> /\ ~(Len(script') < 18)
      BY <2>4, ModelNotEmpty DEF ToModel
    <3>3. ASSUME baud > s PROVE Wrong(d)
      BY <1>9, <2>4, <3>3, EarlyIsWrong
    <3>4. ASSUME baud = s PROVE Told(<<>>, inq[d], outq[d], todo[d], id)
      BY <1>9, <2>4, <3>4, EarlyTold
    <3>5. ASSUME baud = s, what' = "aps" PROVE Early(d)
      BY <1>9, <2>4, <3>5
    <3> QED BY <1>3, <2>1, <2>2, <3>1, <3>2, <3>3, <3>4, <3>5 DEF QueryOf
  <2>5. CASE ToHandshake \/ ToFlow
    BY <2>5 DEF ToHandshake, ToFlow, QueryOf
  <2> QED BY <1>2, <2>3, <2>4, <2>5 DEF Turn
<1>11. dev'[cur'] = d /\ printer'[d].speed = s /\ printer'[d].id = id
  BY <1>1, <1>3, <1>5
<1> QED BY <1>10, <1>11

-----------------------------------------------------------------------------
(* The query for the handshake meets an empty line: what is read is its    *)
(* answer, and the flow that is set is the printer's.                      *)
FlowKnown(d, b, f) ==
  /\ what = "handshake" =>
       /\ Holds(d, {b}, Mute \union {"HRS setting"})
       /\ ok => text = IF script = <<>> THEN <<b>> ELSE <<>>
  /\ what = "set" /\ ok => script = << <<"flow", f>> >> \/ (script = <<>> /\ handshake[cur] = f)

FlowInv ==
  what \in {"handshake", "set"} /\ model # "UNKNOWN" /\ Asking =>
    FlowKnown(dev[cur], FlowByte(dev[cur]), printer[dev[cur]].flow)

LEMMA FlowAnswers ==
  ASSUME NEW d, Tells(d), RightSpeed(d), NEW b, b = FlowByte(d), NEW c \in Mute \union {"HRS setting"}
  PROVE  Answers(d, c) \subseteq Seq({b})
<1>1. <<>> \in Seq({b}) /\ <<b>> \in Seq({b})
  BY Answer1
<1> QED BY <1>1, TellsAnswers

LEMMA FlowMoves ==
  ASSUME NEW d, Tells(d), RightSpeed(d), NEW b, b = FlowByte(d), Holds(d, {b}, Mute \union {"HRS setting"}),
         Stirs(d) \/ \E c \in Mute \union {"HRS setting"} : Put(d, c)
  PROVE  inq'[d] \in Seq({b}) /\ todo'[d] \in Seq({b}) /\ outq'[d] \in Seq(Mute \union {"HRS setting"})
<1>1. PICK B, Q : B = {b} /\ Q = Mute \union {"HRS setting"}
  OBVIOUS
<1>2. \A c \in Q : Answers(d, c) \subseteq Seq(B)
  BY <1>1, FlowAnswers
<1>3. Holds(d, B, Q)
  BY <1>1
<1>4. Stirs(d) \/ \E c \in Q : Put(d, c)
  BY <1>1
<1>5. inq'[d] \in Seq(B) /\ todo'[d] \in Seq(B) /\ outq'[d] \in Seq(Q)
  BY <1>2, <1>3, <1>4, HoldsKept DEF Stirs
<1> QED BY <1>1, <1>5

LEMMA HrsCalls ==
  ASSUME NEW n, NEW name, NEW word, HrsCall(n, name, word)
  PROVE  /\ name \in {"flush", "read timeout", "write", "sync", "read"}
         /\ name = "write" => word = "HRS setting"
         /\ n = 1 <=> name = "read"
<1>1. CASE n = 1 /\ name = "read"
  BY <1>1
<1>2. CASE n # 1 /\ (name = "flush" \/ name = "read timeout" \/ name = "sync")
  BY <1>2
<1>3. CASE n # 1 /\ name = "write" /\ word = "HRS setting"
  BY <1>3
<1>4. n = 5 \/ n = 4 \/ n = 3 \/ n = 2 => n # 1
  OBVIOUS
<1> QED BY <1>1, <1>2, <1>3, <1>4, Zenon DEF HrsCall

LEMMA SameBytes ==
  ASSUME NEW b, NEW s \in Seq({b}), s # <<>>
  PROVE  Head(s) = b
<1>1. Head(s) \in {b}
  BY SeqHead
<1> QED BY <1>1

LEMMA OneLeft == ASSUME NEW S, NEW s \in Seq(S), Len(s) = 1 PROVE Tail(s) = <<>> /\ s # <<>>
<1>1. s # <<>>
  <2>1. Len(<<>>) = 0
    OBVIOUS
  <2> QED BY <2>1
<1>2. Tail(s) \in Seq(S) /\ Len(Tail(s)) = 0
  BY <1>1, TailIs
<1>3. ASSUME NEW t \in Seq(S), Len(t) = 0 PROVE t = <<>>
  BY <1>3, EmptySeq
<1> QED BY <1>1, <1>2, <1>3

LEMMA FlowCallKeeps ==
  ASSUME Class, SettingsKept, ScriptInv, DevInv, StageInv, PlaceInv, BaudInv, ModelInv, FlowInv, Step
  PROVE  FlowInv'
<1> SUFFICES ASSUME what' \in {"handshake", "set"}, model' # "UNKNOWN", Asking'
             PROVE  FlowKnown(dev[cur], FlowByte(dev[cur]), printer[dev[cur]].flow)'
  BY DEF FlowInv
<1>1. PICK e, c, d :
           /\ c = Head(script) /\ script # <<>> /\ script \in Seq(AllCalls) /\ Does(cur, c, e)
           /\ d \in SerialDevices /\ d = dev[cur] /\ d = dev'[cur'] /\ printer' = printer
           /\ Asking /\ c[1] \in ProbeNames /\ Serves(c, e, d)
           /\ text' = IF c[1] = "write" THEN <<>> ELSE text \o got'
           /\ ok' = (e = "OK" \/ c[1] \in Tried)
           /\ ok' => script' = Tail(script) \/ (c[1] = "gets" /\ script' = script)
           /\ UNCHANGED <<stage, what, cur, baud, model, printers>>
  BY AskingStep
<1>2. PICK b, f : b = FlowByte(d) /\ f = printer[d].flow
  OBVIOUS
<1>3. Tells(d) /\ RightSpeed(d) /\ aps_get_model_type(model) \in {"HRS", "KCP"}
  <2>1. /\ Tells(d) /\ RightSpeed(d) /\ printer[d].id \in Identities /\ model = OwnRow(printer[d].id)[1]
    BY <1>1 DEF Asking, ModelInv
  <2> QED BY <2>1, TypeOfModel DEF Tells
<1>4. FlowKnown(d, b, f) /\ ok /\ cur \in Ports
  BY <1>1, <1>2 DEF FlowInv, StageInv, ScriptInv
<1>5. CASE what = "handshake"
  <2>1. HrsCall(Len(script), c[1], c[2])
    BY <1>1, <1>3, <1>5, HandshakeHead DEF PlaceInv, Places
  <2>2. /\ c[1] \in {"flush", "read timeout", "write", "sync", "read"}
        /\ c[1] = "write" => c[2] = "HRS setting"
        /\ Len(script) = 1 <=> c[1] = "read"
    BY <2>1, HrsCalls
  <2>3. Holds(d, {b}, Mute \union {"HRS setting"}) /\ text = <<>>
    BY <1>1, <1>4, <1>5 DEF FlowKnown
  <2>4. Stirs(d) \/ \E q \in Mute \union {"HRS setting"} : Put(d, q)
    BY <1>1, <2>2, ServedMoves
  <2>5. inq'[d] \in Seq({b}) /\ todo'[d] \in Seq({b}) /\ outq'[d] \in Seq(Mute \union {"HRS setting"})
    BY <1>2, <1>3, <2>3, <2>4, FlowMoves
  <2>6. ASSUME ok' PROVE text' = IF script' = <<>> THEN <<b>> ELSE <<>>
    <3>1. e = "OK" /\ script' = Tail(script)
      BY <1>1, <2>2, <2>6 DEF Tried
    <3>2. CASE c[1] = "read"
      <4>1. script' = <<>>
        <5>1. Len(script) = 1
          BY <2>2, <3>2
        <5> QED BY <1>1, <3>1, <5>1, OneLeft
      <4>2. aps_read(cur, 1, "OK")
        BY <1>1, <3>1, <3>2 DEF Does
      <4>3. inq[d] # <<>> /\ got' = <<Head(inq[d])>>
        BY <1>1, <1>4, <4>2, ReadIs DEF Taken
      <4>4. Head(inq[d]) = b
        BY <2>3, <4>3, SameBytes DEF Holds
      <4>5. text' = <<>> \o <<b>>
        BY <1>1, <2>3, <3>2, <4>3, <4>4
      <4>6. <<>> \o <<b>> = <<b>>
        OBVIOUS
      <4> QED BY <4>1, <4>5, <4>6
    <3>3. CASE c[1] # "read"
      <4>1. script' # <<>>
        BY <1>1, <2>2, <3>1, <3>3, Shorter
      <4>2. got' = <<>>
        BY <1>1, <2>2, <3>3 DEF Serves, Reads
      <4>3. text' = <<>>
        <5>1. <<>> \o <<>> = <<>>
          OBVIOUS
        <5> QED BY <1>1, <2>3, <4>2, <5>1
      <4> QED BY <4>1, <4>3
    <3> QED BY <3>2, <3>3
  <2>7. Holds(d, {b}, Mute \union {"HRS setting"})'
    BY <2>5 DEF Holds
  <2>8. FlowKnown(d, b, f)'
    BY <1>1, <1>5, <2>6, <2>7 DEF FlowKnown
  <2>9. FlowByte(d)' = b /\ printer'[d].flow = f /\ dev'[cur'] = d
    BY <1>1, <1>2 DEF FlowByte
  <2> QED BY <2>8, <2>9 DEF FlowByte
<1>6. CASE what = "set"
  <2>1. script = << <<"flow", f>> >>
    BY <1>1, <1>4, <1>6 DEF FlowKnown
  <2>2. c[1] = "flow" /\ c[2] = f /\ Tail(script) = <<>>
    BY <1>1, <2>1, PairTail
  <2>3. ASSUME ok' PROVE script' = <<>> /\ handshake'[cur] = f
    <3>1. e = "OK" /\ script' = Tail(script)
      BY <1>1, <2>2, <2>3 DEF Tried
    <3> QED BY <1>1, <1>4, <2>2, <3>1, FlowSet
  <2>8. FlowKnown(d, b, f)'
    BY <1>1, <1>6, <2>3 DEF FlowKnown
  <2>9. FlowByte(d)' = b /\ printer'[d].flow = f /\ dev'[cur'] = d
    BY <1>1, <1>2 DEF FlowByte
  <2> QED BY <2>8, <2>9 DEF FlowByte
<1> QED BY <1>1, <1>5, <1>6

LEMMA FlowEnvironment ==
  ASSUME Class, ScriptInv, DevInv, StageInv, ModelInv, FlowInv, Environment, UNCHANGED detectVars
  PROVE  FlowInv'
<1>1. Steady /\ handshake' = handshake
  BY EnvironmentKeeps
<1>2. UNCHANGED <<stage, what, cur, script, ok, text, model, unflushed>>
  BY DEF detectVars
<1> SUFFICES ASSUME what' \in {"handshake", "set"}, model' # "UNKNOWN", Asking'
             PROVE  FlowKnown(dev[cur], FlowByte(dev[cur]), printer[dev[cur]].flow)'
  BY DEF FlowInv
<1>3. Asking
  BY <1>1, <1>2 DEF Asking, Probing, Tells, Live, Steady
<1>4. PICK d, b, f : d = dev[cur] /\ b = FlowByte(d) /\ f = printer[d].flow
  OBVIOUS
<1>5. d \in SerialDevices
  BY <1>3, <1>4, OpenKinds DEF ScriptInv, StageInv, Class, Live, Asking, Probing
<1>6. Stirs(d) /\ Tells(d) /\ RightSpeed(d)
  <2>1. d \in Devices /\ d \notin EthernetDevices
    BY <1>5, KindsAssumption
  <2>2. Dropped(d) \/ Sent(d) \/ Arrived(d)
    BY <2>1, EnvironmentMoves DEF Class
  <2>3. RightSpeed(d)
    BY <1>2, <1>4 DEF ModelInv
  <2> QED BY <1>3, <1>4, <2>2, <2>3 DEF Stirs, Asking
<1>7. FlowKnown(d, b, f)
  BY <1>2, <1>3, <1>4 DEF FlowInv
<1>8. ASSUME Holds(d, {b}, Mute \union {"HRS setting"}) PROVE Holds(d, {b}, Mute \union {"HRS setting"})'
  <2>1. inq'[d] \in Seq({b}) /\ todo'[d] \in Seq({b}) /\ outq'[d] \in Seq(Mute \union {"HRS setting"})
    BY <1>4, <1>6, <1>8, FlowMoves
  <2> QED BY <2>1 DEF Holds
<1>9. FlowKnown(d, b, f)'
  BY <1>1, <1>2, <1>7, <1>8 DEF FlowKnown
<1>10. dev'[cur'] = d /\ printer'[dev'[cur']] = printer[d]
  BY <1>1, <1>2, <1>4 DEF Steady
<1>11. FlowByte(dev[cur])' = b
  BY <1>4, <1>10 DEF FlowByte
<1> QED BY <1>4, <1>9, <1>10, <1>11

LEMMA LaterFlow ==
  ASSUME NEW m, aps_get_model_type(m) \in {"HRS", "KCP"}
  PROVE  Handshake(m) # <<>> /\ \A f : SetFlow(m, f) = << <<"flow", f>> >>
<1>1. Handshake(m) = Query("HRS setting", "read")
  BY DEF Handshake, Query
<1>2. ASSUME NEW a, NEW b, NEW c, NEW d, NEW f PROVE <<a, b, c, d, f>> # <<>>
  OBVIOUS
<1>3. ASSUME NEW f PROVE SetFlow(m, f) = << <<"flow", f>> >>
  <2>1. SetFlow(m, f) = <<>> \o << <<"flow", f>> >>
    BY DEF SetFlow
  <2>2. PICK x : x = <<"flow", f>>
    OBVIOUS
  <2>3. <<x>> \in Seq({x})
    OBVIOUS
  <2>4. <<>> \o <<x>> = <<x>>
    BY <2>3, ConcatEmptySeq
  <2> QED BY <2>1, <2>2, <2>4
<1>4. Handshake(m) # <<>>
  BY <1>1, <1>2 DEF Query
<1> QED BY <1>3, <1>4

LEMMA AnswerTells ==
  ASSUME NEW m, aps_get_model_type(m) \in {"HRS", "KCP"}, QueueTypes, NEW d \in Devices, NEW b, b = FlowByte(d)
  PROVE  FlowFrom(m, <<b>>) = {printer[d].flow}
<1>1. printer[d].flow \in {"RTSCTS", "XONXOFF"}
  <2>1. printer[d] \in Printers
    BY DEF QueueTypes
  <2> QED BY <2>1, PrintersAssumption
<1>2. <<"hw">> # <<"sw">> /\ <<"nul">> # <<"hw">>
  OBVIOUS
<1>3. CASE printer[d].flow = "XONXOFF"
  <2>1. b = "sw"
    BY <1>3 DEF FlowByte
  <2>2. FlowFrom(m, <<"sw">>) = {"XONXOFF"}
    BY DEF FlowFrom
  <2> QED BY <1>3, <2>1, <2>2
<1>4. CASE printer[d].flow = "RTSCTS"
  <2>1. b = "hw"
    BY <1>4 DEF FlowByte
  <2>2. FlowFrom(m, <<"hw">>) = {"RTSCTS"}
    BY <1>2 DEF FlowFrom
  <2> QED BY <1>4, <2>1, <2>2
<1> QED BY <1>1, <1>3, <1>4

LEMMA FlowDecide ==
  ASSUME Class, SettingsKept, ScriptInv, DevInv, StageInv, TextInv, SpeedInv, BaudInv, ModelInv, QueryInv, FlowInv,
         UNCHANGED <<vars, unflushed>>, script = <<>>, Turn \/ Onward
  PROVE  FlowInv'
<1>1. UNCHANGED <<inq, outq, todo, kind, dev, is_open, misclosed, printer, handshake>>
  BY DEF vars, ports, fds, serialVars, settings
<1> SUFFICES ASSUME what' \in {"handshake", "set"}, model' # "UNKNOWN", Asking'
             PROVE  FlowKnown(dev[cur], FlowByte(dev[cur]), printer[dev[cur]].flow)'
  BY DEF FlowInv
<1>2. Turn
  BY DEF Onward, Parts4, Probes, Asking, Probing
<1>3. stage' = stage /\ cur' = cur /\ text' = <<>>
  BY <1>2 DEF Turn
<1>4. stage = "serial" /\ Live(cur) /\ Tells(dev[cur]) /\ cur \notin unflushed
  BY <1>1, <1>3 DEF Asking, Probing, Live, Tells
<1>5. PICK d, b, f : d = dev[cur] /\ b = FlowByte(d) /\ f = printer[d].flow
  OBVIOUS
<1>6. cur \in Ports /\ kind[cur] = "serial" /\ d \in SerialDevices
  <2>1. kind[cur] = "serial" /\ cur \in Ports
    BY <1>2, <1>4 DEF Turn, ScriptInv
  <2> QED BY <1>4, <1>5, <2>1, OpenKinds DEF Live, Class
<1>7. CASE ToHandshake
  <2>1. /\ what' = "handshake" /\ script' = Handshake(model') /\ what \in {"aps", "escpos"} /\ ok
        /\ model' = model_find_by_id(Head(text))[1]
    BY <1>7 DEF ToHandshake
  <2>2. PICK m : m = model'
    OBVIOUS
  <2>3. Head(text) \in Identities /\ Head(text) = printer[d].id /\ m = OwnRow(printer[d].id)[1] /\ RightSpeed(d)
    BY <1>4, <1>5, <2>1, <2>2, Identified
  <2>4. Asking /\ what # "tune"
    BY <1>4, <2>1 DEF Asking, Probing, Probes
  <2>5. baud = printer[d].speed
    BY <1>5, <1>6, <2>3, <2>4, RightBaud DEF Asking
  <2>6. ~(Len(script) > 2)
    BY PlacesOf
  <2>7. Told(text, inq[d], outq[d], todo[d], printer[d].id) /\ Len(text) >= 2
    BY <1>5, <2>1, <2>3, <2>4, <2>5, <2>6 DEF QueryInv, QueryOf
  <2>8. text \in Seq(Bytes)
    BY <2>1, TextBytes DEF Probes
  <2>9. inq[d] = <<>> /\ todo[d] = <<>> /\ outq[d] \in Seq(Mute)
    BY <1>4, <1>5, <1>6, <2>3, <2>7, <2>8, AllRead DEF Class
  <2>10. Holds(d, {b}, Mute \union {"HRS setting"})
    <3>1. <<>> \in Seq({b})
      BY Answer1
    <3>2. Mute \subseteq Mute \union {"HRS setting"}
      OBVIOUS
    <3> QED BY <2>9, <3>1, <3>2, MoreCommands DEF Holds
  <2>11. Holds(d, {b}, Mute \union {"HRS setting"})'
    BY <1>1, <2>10 DEF Holds
  <2>12. script' # <<>>
    <3>1. aps_get_model_type(m) = TypeOf(printer[d].id)
      BY <2>3, TypeOfModel
    <3>2. aps_get_model_type(m) \in {"HRS", "KCP"}
      BY <1>4, <1>5, <3>1 DEF Tells
    <3> QED BY <2>1, <2>2, <3>2, LaterFlow
  <2>13. FlowKnown(d, b, f)'
    BY <1>3, <2>1, <2>11, <2>12 DEF FlowKnown
  <2>14. dev'[cur'] = d /\ printer'[dev'[cur']].flow = f /\ FlowByte(dev[cur])' = b
    BY <1>1, <1>3, <1>5 DEF FlowByte
  <2> QED BY <2>13, <2>14
<1>8. CASE ToFlow
  <2>1. what' = "set" /\ model' = model /\ what = "handshake" /\ ok
    BY <1>8 DEF ToFlow
  <2>2. Asking
    BY <1>4, <2>1 DEF Asking, Probing, Probes
  <2>3. text = <<b>>
    BY <1>5, <2>1, <2>2 DEF FlowInv, FlowKnown
  <2>4. aps_get_model_type(model) \in {"HRS", "KCP"}
    <3>1. printer[d].id \in Identities /\ model = OwnRow(printer[d].id)[1]
      BY <1>5, <2>1 DEF ModelInv
    <3> QED BY <1>4, <1>5, <3>1, TypeOfModel DEF Tells
  <2>5. FlowFrom(model, text) = {f}
    BY <1>5, <1>6, <2>3, <2>4, AnswerTells DEF Class
  <2>6. script' = << <<"flow", f>> >>
    BY <1>8, <2>4, <2>5, LaterFlow DEF ToFlow
  <2>7. FlowKnown(d, b, f)'
    BY <2>1, <2>6 DEF FlowKnown
  <2>8. dev'[cur'] = d /\ printer'[dev'[cur']].flow = f /\ FlowByte(dev[cur])' = b
    BY <1>1, <1>3, <1>5 DEF FlowByte
  <2> QED BY <2>7, <2>8
<1>9. CASE ToTune \/ ToModel
  BY <1>9 DEF ToTune, ToModel
<1> QED BY <1>2, <1>7, <1>8, <1>9 DEF Turn

-----------------------------------------------------------------------------
(* From one port to the next.                                              *)
LEMMA NextSerial ==
  ASSUME ScriptInv, stage # "done", NEW w \in Parts4, NEW n \in Nat, NextPort(w, n), stage' = "serial"
  PROVE  /\ stage = "serial"
         /\ what' \in {"create", "wake"} => w \in {"create", "wake"}
         /\ what' = "timeout" => w = "wake" \/ (w = "timeout" /\ cur' = cur + 1)
         /\ what' # "release" => script' = Script(what', cur')
<1> DEFINE more  == cur + 1 \in Ports /\ Slots[cur + 1].type = stage /\ (w = "timeout" => n < MaxPrinters)
           part  == IF more THEN w ELSE FollowingPart[w]
           group == IF ~more /\ w = "release" THEN FollowingStage[stage] ELSE stage
           port  == IF more THEN cur + 1 ELSE IF group = "done" THEN cur ELSE FirstPort(group)
<1>1. /\ stage' = group /\ cur' = port
      /\ IF part = "timeout" /\ n >= MaxPrinters
         THEN what' = "release" /\ script' = Script("release", port)
         ELSE /\ what' = part
              /\ script' = IF group = "done" THEN <<>> ELSE Script(part, port)
  BY DEF NextPort
<1>2. group = "serial" /\ group # "done"
  BY <1>1
<1>3. FollowingStage[stage] \in {"parallel", "usb", "done"}
  BY DEF ScriptInv, FollowingStage
<1>4. stage = "serial" /\ (~more => w # "release")
  BY <1>2, <1>3
<1>5. what' \in {part, "release"} /\ (what' # "release" => script' = Script(what', cur'))
  <2> HIDE DEF part, group, port
  <2> QED BY <1>1, <1>2
<1>6. CASE more
  <2>1. part = w /\ port = cur + 1
    BY <1>6
  <2> HIDE DEF part, group, port, more
  <2> QED BY <1>1, <1>4, <1>5, <2>1
<1>7. CASE ~more
  <2>1. part = FollowingPart[w] /\ w # "release"
    BY <1>4, <1>7
  <2>2. \/ w = "create" /\ part = "wake"
        \/ w = "wake" /\ part = "timeout"
        \/ w = "timeout" /\ part = "release"
    BY <2>1 DEF FollowingPart, Parts4
  <2> HIDE DEF part, group, port, more
  <2> QED BY <1>4, <1>5, <2>2
<1> QED BY <1>6, <1>7

LEMMA NextOf ==
  ASSUME ScriptInv, RoomInv, DevInv, StageInv, Decide
  PROVE  Turn \/ \E w \in Parts4, n \in Nat : NextPort(w, n) /\ (w = what \/ (w = "timeout" /\ what \in Probes))
<1>1. stage # "done"
  BY DEF Decide
<1>2. Len(printers) \in Nat /\ Len(printers) + 1 \in Nat
  <2>1. Len(printers) \in Nat
    BY LenProperties DEF RoomInv
  <2> QED BY <2>1
<1>3. /\ Leave(what) => NextPort(what, Len(printers))
      /\ Leave("timeout") => NextPort("timeout", Len(printers))
      /\ Report => \E n \in Nat : NextPort("timeout", n)
  BY <1>2 DEF Leave, Report
<1>4. /\ \A b : Tunes(b) => what' \in Probes
      /\ \A w \in {"aps", "escpos"} : Queries(w) => what' \in Probes
      /\ \A s : Goto("handshake", s) => what' \in Probes
      /\ \A s : Goto("set", s) => what' \in Probes
  BY DEF Tunes, Queries, Goto, Probes
<1>5. what' \in Probes => Turn
  BY Decisions DEF Onward, Parts4, Probes
<1>6. "timeout" \in Parts4 /\ (what \in {"create", "wake", "release"} => what \in Parts4)
  BY DEF Parts4
<1>7. CASE what \in {"create", "wake", "release"} /\ Leave(what)
  BY <1>2, <1>3, <1>6, <1>7
<1>8. CASE what = "timeout" /\ Leave("timeout")
  BY <1>2, <1>3, <1>6, <1>8
<1>9. CASE what' \in Probes
  BY <1>5, <1>9
<1>10. CASE what \in Probes /\ (Leave("timeout") \/ Report)
  BY <1>2, <1>3, <1>6, <1>10
<1>11. CASE what \in {"aps", "escpos"} /\ Recognise
  BY <1>4, <1>9, <1>10, <1>11 DEF Recognise, Probes
<1> QED BY <1>4, <1>7, <1>8, <1>9, <1>10, <1>11 DEF Decide, Probes

-----------------------------------------------------------------------------
(* Nothing is written to the printers but the zero that wakes them.        *)
PartInv == stage = "serial" =>
  /\ what \in {"create", "wake"} => \A i \in 1 .. Len(script) : script[i][1] = "write" => script[i][2] = "NUL"
  /\ what = "timeout" => script = <<>> \/ script = << <<"write timeout">> >>

LEMMA PartCall ==
  ASSUME ScriptInv, PlaceInv, PartInv, Step
  PROVE  PartInv'
<1>1. /\ script # <<>> /\ script \in Seq(AllCalls)
      /\ script' = <<>> \/ script' = Tail(script) \/ (Head(script)[1] = "gets" /\ script' = script)
      /\ UNCHANGED <<stage, what>>
  BY StepIs
<1>2. PICK n \in Nat : n = Len(script) /\ n >= 1
  BY <1>1, TailIs
<1>3. Len(Tail(script)) = n - 1 /\ \A i \in 1 .. n - 1 : Tail(script)[i] = script[i + 1]
  BY <1>1, <1>2, TailIs
<1>4. ASSUME stage = "serial", what \in {"create", "wake"}, NEW i \in 1 .. Len(script'), script'[i][1] = "write"
      PROVE  script'[i][2] = "NUL"
  <2>1. \A j \in 1 .. n : script[j][1] = "write" => script[j][2] = "NUL"
    BY <1>2, <1>4 DEF PartInv
  <2>2. CASE script' = <<>>
    <3>1. \A j : j \notin 1 .. Len(<<>>)
      OBVIOUS
    <3> QED BY <1>4, <2>2, <3>1
  <2>3. CASE script' = Tail(script)
    <3>1. i \in 1 .. n - 1 /\ i + 1 \in 1 .. n
      BY <1>3, <1>4, <2>3
    <3> QED BY <1>3, <1>4, <2>1, <2>3, <3>1
  <2>4. CASE script' = script
    BY <1>2, <1>4, <2>1, <2>4
  <2> QED BY <1>1, <2>2, <2>3, <2>4
<1>5. ASSUME stage = "serial", what = "timeout" PROVE script' = <<>> \/ script' = << <<"write timeout">> >>
  <2>1. script = << <<"write timeout">> >>
    BY <1>1, <1>5 DEF PartInv
  <2>2. Tail(script) = <<>>
    BY <2>1, PairTail
  <2> QED BY <1>1, <2>1, <2>2
<1> QED BY <1>1, <1>4, <1>5 DEF PartInv

LEMMA PartDecide ==
  ASSUME ScriptInv, RoomInv, DevInv, StageInv, Decide
  PROVE  PartInv'
<1> SUFFICES ASSUME stage' = "serial" PROVE PartInv'
  BY DEF PartInv
<1>1. CASE Turn
  BY <1>1 DEF Turn, ToTune, ToModel, ToHandshake, ToFlow, PartInv
<1>2. ASSUME NEW w \in Parts4, NEW n \in Nat, NextPort(w, n) PROVE PartInv'
  <2>1. stage # "done"
    BY DEF Decide
  <2>2. what' # "release" => script' = Script(what', cur')
    BY <1>2, <2>1, NextSerial
  <2>3. cur' \in Ports /\ Slots[cur'].type = "serial"
    <3>1. Onward
      BY <1>2, <2>1, NextStage
    <3> QED BY <1>2, <2>1, <3>1, NextTyped DEF Onward
  <2>4. PICK p : p = cur'
    OBVIOUS
  <2>5. CASE what' = "create"
    <3>1. script' = << <<"create">>, <<"open">>, <<"baud", 0>>, <<"flow", "NONE">>, <<"write", "NUL">> >>
      BY <2>2, <2>3, <2>4, <2>5 DEF Script
    <3>2. PICK s : s = << <<"create">>, <<"open">>, <<"baud", 0>>, <<"flow", "NONE">>, <<"write", "NUL">> >>
      OBVIOUS
    <3>3. Len(s) = 5
      BY <3>2
    <3>4. s[1][1] # "write" /\ s[2][1] # "write" /\ s[3][1] # "write" /\ s[4][1] # "write" /\ s[5][2] = "NUL"
      BY <3>2
    <3>5. \A i \in 1 .. 5 : i = 1 \/ i = 2 \/ i = 3 \/ i = 4 \/ i = 5
      OBVIOUS
    <3>6. \A i \in 1 .. 5 : s[i][1] = "write" => s[i][2] = "NUL"
      BY <3>4, <3>5
    <3>7. script' = s
      BY <3>1, <3>2
    <3> QED BY <2>5, <3>3, <3>6, <3>7 DEF PartInv
  <2>6. CASE what' = "wake"
    <3>1. script' = <<>>
      BY <2>2, <2>3, <2>4, <2>6 DEF Script
    <3>2. \A j : j \notin 1 .. Len(<<>>)
      OBVIOUS
    <3> QED BY <2>6, <3>1, <3>2 DEF PartInv
  <2>7. CASE what' = "timeout"
    <3>1. script' = <<>> \/ script' = << <<"write timeout">> >>
      BY <2>2, <2>3, <2>4, <2>7 DEF Script
    <3> QED BY <2>7, <3>1 DEF PartInv
  <2> QED BY <2>5, <2>6, <2>7 DEF PartInv
<1> QED BY <1>1, <1>2, NextOf

LEMMA FreshSteps ==
  ASSUME NEW d, Fresh(d), Stirs(d) \/ Put(d, "NUL") \/ Given(d, "NUL")
  PROVE  Fresh(d)'
BY FreshMoves DEF Fresh, Holds

LEMMA FreshWakes ==
  ASSUME Class, DevInv, NEW p \in Ports, NEW c, NEW e, Does(p, c, e), c[1] = "write" => c[2] = "NUL",
         NEW d \in SerialDevices, Fresh(d)
  PROVE  Fresh(d)'
<1>1. CallMoves(p, c, d)
  BY EveryCallMoves DEF Class
<1> QED BY <1>1, FreshSteps DEF CallMoves, Stirs

(* The devices of other ports are left alone.                              *)
LEMMA FreshOthers ==
  ASSUME Class, AloneInv, DevInv, NEW p \in Ports, NEW c, NEW e, Does(p, c, e),
         NEW q \in Ports, is_open[q], kind[q] = "serial", NEW d, d = dev[q], Fresh(d),
         q # p \/ c[1] = "write timeout"
  PROVE  Fresh(d)'
<1>1. d \in SerialDevices /\ d \notin UsbDevices
  BY OpenKinds, KindsAssumption DEF Class
<1>2. CallMoves(p, c, d)
  BY <1>1, EveryCallMoves DEF Class
<1>3. ASSUME Live(p), d = dev[p] PROVE c[1] = "write timeout"
  BY <1>1, <1>3 DEF AloneInv, Live
<1>4. Dropped(d)
  BY <1>2, <1>3 DEF CallMoves
<1> QED BY <1>4, FreshSteps DEF Stirs

LEMMA TimeoutFrame ==
  ASSUME NEW p, NEW c, NEW e, Does(p, c, e), c[1] = "write timeout"
  PROVE  UNCHANGED <<kind, dev, is_open>>
BY DEF Does, aps_set_write_timeout, Keeps, ports

LEMMA FreshCall ==
  ASSUME Class, AloneInv, ScriptInv, DevInv, StageInv, PlaceInv, PartInv, FreshInv, Step
  PROVE  FreshInv'
<1>1. PICK e, c : /\ Does(cur, c, e) /\ c = Head(script) /\ script # <<>> /\ script \in Seq(AllCalls) /\ cur \in Ports
                  /\ UNCHANGED <<stage, what, cur>>
  <2>1. PICK e : /\ Does(cur, Head(script), e) /\ script # <<>> /\ script \in Seq(AllCalls) /\ cur \in Ports
                 /\ UNCHANGED <<stage, what, cur>>
    BY StepIs
  <2> QED BY <2>1
<1> SUFFICES ASSUME stage = "serial" PROVE FreshInv'
  BY <1>1 DEF FreshInv
<1>2. ASSUME what \in {"create", "wake"}, NEW d \in SerialDevices PROVE Fresh(d)'
  <2>1. c[1] = "write" => c[2] = "NUL"
    <3>1. c = script[1] /\ 1 \in 1 .. Len(script)
      BY <1>1, TailIs
    <3> QED BY <1>2, <3>1 DEF PartInv
  <2>2. Fresh(d)
    BY <1>2 DEF FreshInv
  <2> QED BY <1>1, <2>1, <2>2, FreshWakes
<1>3. ASSUME what \in {"timeout"} \union Probes, NEW q \in Ports, is_open'[q], kind'[q] = "serial",
             q > cur \/ (q = cur /\ what = "timeout")
      PROVE  inq'[dev'[q]] \in Seq({"noise"}) /\ todo'[dev'[q]] \in Seq({"noise"}) /\ outq'[dev'[q]] \in Seq({"NUL"})
  <2>1. what = "timeout" => c[1] = "write timeout"
    <3>1. what = "timeout" => script = << <<"write timeout">> >>
      BY <1>1 DEF PartInv
    <3>2. PICK x : x = <<"write timeout">>
      OBVIOUS
    <3>3. Head(<<x>>) = x
      OBVIOUS
    <3>4. x[1] = "write timeout"
      BY <3>2
    <3>5. what = "timeout" => c = x
      BY <1>1, <3>1, <3>2, <3>3
    <3> QED BY <3>4, <3>5
  <2>2. UNCHANGED <<kind, dev, is_open>>
    <3>1. CASE what = "timeout"
      BY <1>1, <2>1, <3>1, TimeoutFrame
    <3>2. CASE what \in Probes
      BY <1>1, <3>2, ProbeCall, ProbeFrame DEF Frame
    <3> QED BY <1>3, <3>1, <3>2
  <2>3. PICK d : d = dev[q]
    OBVIOUS
  <2>4. Fresh(d)
    BY <1>3, <2>2, <2>3 DEF FreshInv
  <2>5. q # cur \/ c[1] = "write timeout"
    <3>1. q \in Nat /\ cur \in Nat
      BY <1>1, SlotsAssumption
    <3>2. q > cur => q # cur
      BY <3>1
    <3> QED BY <1>3, <2>1, <3>2
  <2>6. Fresh(d)'
    BY <1>1, <1>3, <2>2, <2>3, <2>4, <2>5, FreshOthers
  <2> QED BY <2>2, <2>3, <2>6 DEF Fresh, Holds
<1>4. \A d \in SerialDevices : what \in {"create", "wake"} =>
        inq'[d] \in Seq({"noise"}) /\ todo'[d] \in Seq({"noise"}) /\ outq'[d] \in Seq({"NUL"})
  BY <1>2 DEF Fresh, Holds
<1> QED BY <1>1, <1>3, <1>4 DEF FreshInv, Fresh, Holds

LEMMA FreshEnvironment ==
  ASSUME Class, DevInv, FreshInv, Environment, UNCHANGED detectVars
  PROVE  FreshInv'
<1>1. Steady /\ UNCHANGED <<stage, what, cur>>
  BY EnvironmentKeeps DEF detectVars
<1>2. ASSUME NEW d \in SerialDevices, Fresh(d)
      PROVE  inq'[d] \in Seq({"noise"}) /\ todo'[d] \in Seq({"noise"}) /\ outq'[d] \in Seq({"NUL"})
  <2>1. d \in Devices /\ d \notin EthernetDevices
    BY KindsAssumption
  <2>2. Dropped(d) \/ Sent(d) \/ Arrived(d)
    BY <2>1, EnvironmentMoves DEF Class
  <2> QED BY <1>2, <2>2, FreshMoves DEF Stirs
<1>3. ASSUME NEW q \in Ports, is_open[q], kind[q] = "serial" PROVE dev[q] \in SerialDevices
  BY <1>3, OpenKinds DEF Class
<1> QED BY <1>1, <1>2, <1>3 DEF FreshInv, Fresh, Holds, Steady

LEMMA FreshDecide ==
  ASSUME Class, ScriptInv, RoomInv, DevInv, StageInv, FreshInv, Decide
  PROVE  FreshInv'
<1>1. UNCHANGED <<inq, outq, todo, kind, dev, is_open>>
  BY DEF Decide, vars, ports, fds
<1> SUFFICES ASSUME stage' = "serial" PROVE FreshInv'
  BY DEF FreshInv
<1>2. CASE Turn
  <2>1. stage' = stage /\ cur' = cur /\ what \in {"timeout"} \union Probes /\ what' \in Probes
    BY <1>2 DEF Turn, ToTune, ToModel, ToHandshake, ToFlow, Probes
  <2>2. what' \notin {"create", "wake", "timeout"}
    BY <2>1 DEF Probes
  <2> QED BY <1>1, <2>1, <2>2 DEF FreshInv, Fresh, Holds
<1>3. ASSUME NEW w \in Parts4, NEW n \in Nat, NextPort(w, n), w = what \/ (w = "timeout" /\ what \in Probes)
      PROVE  FreshInv'
  <2>0. stage # "done"
    BY DEF Decide
  <2>1. /\ stage = "serial"
        /\ what' \in {"create", "wake"} => w \in {"create", "wake"}
        /\ what' = "timeout" => w = "wake" \/ (w = "timeout" /\ cur' = cur + 1)
    BY <1>3, <2>0, NextSerial
  <2>2. what' \in Parts4 /\ cur \in Nat
    <3>1. Onward
      BY <1>3, <2>0, NextStage
    <3>2. cur \in Ports
      BY DEF ScriptInv
    <3>3. cur \in Nat
      BY <3>2, SlotsAssumption
    <3> QED BY <3>1, <3>3 DEF Onward
  <2>3. CASE what' \in {"create", "wake"}
    <3>1. what \in {"create", "wake"}
      BY <1>3, <2>1, <2>3
    <3> QED BY <1>1, <2>1, <2>3, <3>1 DEF FreshInv, Fresh, Holds, Probes
  <2>4. CASE what' = "timeout"
    <3>1. ASSUME NEW q \in Ports, is_open[q], kind[q] = "serial", q > cur' \/ q = cur' PROVE Fresh(dev[q])
      <4>1. CASE w = "wake"
        <5>1. what = "wake"
          BY <1>3, <4>1
        <5>2. dev[q] \in SerialDevices
          BY <3>1, OpenKinds DEF Class
        <5> QED BY <2>1, <5>1, <5>2 DEF FreshInv
      <4>2. CASE w = "timeout" /\ cur' = cur + 1
        <5>1. what \in {"timeout"} \union Probes
          BY <1>3, <4>2
        <5>2. q \in Nat
          BY SlotsAssumption
        <5>3. q > cur
          BY <2>2, <3>1, <4>2, <5>2
        <5> QED BY <2>1, <3>1, <5>1, <5>3 DEF FreshInv
      <4> QED BY <2>1, <2>4, <4>1, <4>2
    <3>2. \A q \in Ports : is_open[q] /\ kind[q] = "serial" /\ (q > cur' \/ q = cur') =>
            inq[dev[q]] \in Seq({"noise"}) /\ todo[dev[q]] \in Seq({"noise"}) /\ outq[dev[q]] \in Seq({"NUL"})
      BY <3>1 DEF Fresh, Holds
    <3> QED BY <1>1, <2>4, <3>2 DEF FreshInv, Fresh, Holds
  <2>5. CASE what' = "release"
    BY <2>5 DEF FreshInv, Probes
  <2> QED BY <2>2, <2>3, <2>4, <2>5 DEF Parts4
<1> QED BY <1>2, <1>3, NextOf

-----------------------------------------------------------------------------
(* The report of a printer that was asked for its handshake.               *)
LEMMA HandshakeEach ==
  HandshakeAfterFlush <=> \A i \in 1 .. Len(printers) : printers[i].port \notin unflushed => HandshakeRight(printers[i])
BY DEF HandshakeAfterFlush

LEMMA SerialHandshake ==
  ASSUME Class, ScriptInv, DevInv, StageInv, ModelInv, FlowInv, what = "set", ok, script = <<>>,
         NEW r, r = [port |-> cur, model |-> model, uri |-> PortUri(cur)], cur \notin unflushed
  PROVE  HandshakeRight(r)
<1>1. /\ cur \in Ports /\ stage = "serial" /\ kind[cur] = "serial" /\ Slots[cur].type = "serial"
  BY DEF ScriptInv, StageInv, Probes
<1>2. PICK d : d = Slots[cur].device /\ d = dev[cur] /\ d \in SerialDevices /\ d # "?"
  BY <1>1, SlotsAssumption, NamesAssumption DEF DevInv
<1>3. PICK b \in Bauds, f \in Flows : b = baudrate[cur] /\ f = handshake[cur]
  BY <1>1 DEF Class, SettingTypes
<1>4. r.uri = serial_get_uri(d, b, f) /\ r.port = cur /\ r.model = model
  BY <1>1, <1>2, <1>3 DEF PortUri
<1>5. PICK u : u = r.uri
  OBVIOUS
<1>6. uri_get_opt(uri_split(u), "handshake") = FlowWords[f]
  BY <1>2, <1>4, <1>5, SerialUriSplits
<1>7. string_to_handshake(uri_get_opt(uri_split(u), "handshake")) = {f}
  BY <1>6, FlowsReadBack
<1>8. ASSUME model # "UNKNOWN", TypeOf(printer[d].id) \in {"HRS", "KCP"} PROVE f = printer[d].flow
  <2>1. Live(cur)
    BY <1>8 DEF ModelInv
  <2>2. Asking
    BY <1>1, <1>2, <1>8, <2>1 DEF Asking, Probing, Probes, Tells
  <2>3. FlowKnown(d, FlowByte(d), printer[d].flow)
    BY <1>2, <1>8, <2>2 DEF FlowInv
  <2>4. script # << <<"flow", printer[d].flow>> >>
    <3>1. ASSUME NEW x PROVE <<>> # <<x>>
      OBVIOUS
    <3> QED BY <3>1
  <2>5. handshake[cur] = printer[d].flow
    BY <2>3, <2>4 DEF FlowKnown
  <2> QED BY <1>3, <2>5
<1> QED BY <1>2, <1>4, <1>5, <1>7, <1>8 DEF HandshakeRight

LEMMA ParallelHandshake ==
  ASSUME Class, ScriptInv, DevInv, StageInv, TextInv, SpeedInv, what \in {"aps", "escpos"}, ok, script = <<>>,
         stage # "serial", NEW r, r.port = cur
  PROVE  HandshakeRight(r)
<1>1. cur \in Ports /\ Slots[cur].type = stage /\ kind[cur] = stage
  BY DEF ScriptInv, StageInv, Probes
<1>2. Live(cur)
  BY Identified
<1>3. kind[cur] = "parallel" /\ dev[cur] \in ParallelDevices
  BY <1>1, <1>2, OpenKinds DEF Class, Live
<1>4. Slots[cur].device \notin SerialDevices
  BY <1>1, <1>3, KindsAssumption DEF DevInv
<1> QED BY <1>4 DEF HandshakeRight

LEMMA HandshakeKept ==
  ASSUME HandshakeAfterFlush, printer' = printer, printers' = printers, unflushed \subseteq unflushed'
  PROVE  HandshakeAfterFlush'
BY DEF HandshakeAfterFlush, HandshakeRight

LEMMA HandshakeMore ==
  ASSUME RoomInv, HandshakeAfterFlush, printer' = printer, unflushed' = unflushed,
         NEW r, r.port \notin unflushed => HandshakeRight(r), printers' = Append(printers, r)
  PROVE  HandshakeAfterFlush'
<1>1. PICK S : printers \in Seq(S)
  BY DEF RoomInv
<1>2. PICK n \in Nat : n = Len(printers)
  BY <1>1
<1>3. Len(printers') = n + 1 /\ printers'[n + 1] = r /\ \A i \in 1 .. n : printers'[i] = printers[i]
  BY <1>1, <1>2, AppendProperties
<1>4. ASSUME NEW i \in 1 .. n + 1, printers'[i].port \notin unflushed PROVE HandshakeRight(printers'[i])
  <2>1. CASE i = n + 1
    BY <1>3, <1>4, <2>1
  <2>2. CASE i # n + 1
    <3>1. i \in 1 .. n
      BY <2>2
    <3> QED BY <1>2, <1>3, <1>4, <3>1, HandshakeEach
  <2> QED BY <2>1, <2>2
<1> QED BY <1>3, <1>4 DEF HandshakeAfterFlush, HandshakeRight

-----------------------------------------------------------------------------
(* What is true of the lines while printers are detected.                  *)
HandshakeInv ==
  /\ BaudInv /\ QueryInv /\ FlowInv /\ PartInv /\ FreshInv /\ HandshakeAfterFlush

LEMMA HandshakeStarts == ASSUME DetectInit PROVE HandshakeInv
<1>1. /\ stage = "serial" /\ what = "create" /\ cur = FirstPort("serial") /\ printers = <<>>
      /\ script = Script("create", cur)
      /\ Slots[cur].type = "serial"
  BY FirstTyped DEF DetectInit
<1>2. BaudInv /\ QueryInv /\ FlowInv
  BY <1>1 DEF BaudInv, QueryInv, FlowInv, Asking, Probing, Probes
<1>3. FreshInv
  <2>1. \A d \in Devices : inq[d] = <<>> /\ outq[d] = <<>> /\ todo[d] = <<>>
    BY DEF DetectInit, Init
  <2>2. ASSUME NEW S PROVE <<>> \in Seq(S)
    OBVIOUS
  <2>3. \A d \in SerialDevices : Fresh(d)
    BY <2>1, <2>2 DEF Fresh, Holds
  <2> QED BY <1>1, <2>3 DEF FreshInv, Probes
<1>4. PartInv
  <2>1. PICK s : s = << <<"create">>, <<"open">>, <<"baud", 0>>, <<"flow", "NONE">>, <<"write", "NUL">> >>
    OBVIOUS
  <2>2. PICK p : p = cur
    OBVIOUS
  <2>3. script = s
    BY <1>1, <2>1, <2>2 DEF Script
  <2>4. Len(s) = 5
    BY <2>1
  <2>5. s[1][1] # "write" /\ s[2][1] # "write" /\ s[3][1] # "write" /\ s[4][1] # "write" /\ s[5][2] = "NUL"
    BY <2>1
  <2>6. \A i \in 1 .. 5 : i = 1 \/ i = 2 \/ i = 3 \/ i = 4 \/ i = 5
    OBVIOUS
  <2>7. \A i \in 1 .. 5 : s[i][1] = "write" => s[i][2] = "NUL"
    BY <2>5, <2>6
  <2> QED BY <1>1, <2>3, <2>4, <2>7 DEF PartInv
<1>5. HandshakeAfterFlush
  <2>1. \A i : i \notin 1 .. Len(printers)
    BY <1>1
  <2> QED BY <2>1 DEF HandshakeAfterFlush
<1> QED BY <1>2, <1>3, <1>4, <1>5 DEF HandshakeInv

LEMMA HandshakeStill ==
  ASSUME BaudInv, QueryInv, FlowInv, PartInv, FreshInv, UNCHANGED <<vars, detectVars>>
  PROVE  BaudInv' /\ QueryInv' /\ FlowInv' /\ PartInv' /\ FreshInv'
<1>1. UNCHANGED <<inq, outq, todo, kind, dev, is_open, misclosed, printer, speed, baudrate, handshake>>
  BY DEF vars, ports, fds, serialVars, settings
<1>2. UNCHANGED <<stage, what, cur, script, ok, baud, text, model, unflushed>>
  BY DEF detectVars
<1>3. Asking' = Asking /\ Probing' = Probing
  BY <1>1, <1>2 DEF Asking, Probing, Tells, Live
<1>4. BaudInv'
  BY <1>1, <1>2, BaudEnvironment DEF Steady
<1>5. QueryInv'
  BY <1>1, <1>2, <1>3 DEF QueryInv, QueryOf, Early, Wrong, Holds
<1>6. FlowInv'
  BY <1>1, <1>2, <1>3 DEF FlowInv, FlowKnown, FlowByte, Holds
<1>7. PartInv'
  BY <1>2 DEF PartInv
<1>8. FreshInv'
  BY <1>1, <1>2 DEF FreshInv, Fresh, Holds
<1> QED BY <1>4, <1>5, <1>6, <1>7, <1>8

LEMMA HandshakeSteps ==
  ASSUME IInv, ScriptInv, RoomInv, DetectInv, HandshakeInv, [DetectNext]_<<vars, detectVars>>
  PROVE  HandshakeInv'
<1>0. Class /\ SettingsKept /\ PortTypes /\ PortInv /\ AloneInv
  BY ClassOf DEF Class, IInv
<1> USE DEF DetectInv, HandshakeInv
<1>1. CASE Step
  <2>1. PICK e \in Errors :
          /\ Does(cur, Head(script), e) /\ cur \in Ports /\ printers' = printers
          /\ unflushed' = IF Head(script)[1] = "flush" /\ e # "OK" THEN unflushed \union {cur} ELSE unflushed
    BY <1>1, StepIs
  <2>2. printer' = printer
    BY <2>1, PrinterSame
  <2>3. unflushed \subseteq unflushed'
    BY <2>1
  <2>4. BaudInv' /\ QueryInv'
    BY <1>0, <1>1, BaudCall, QueryCallKeeps
  <2>5. FlowInv'
    BY <1>0, <1>1, FlowCallKeeps
  <2>6. PartInv' /\ FreshInv'
    BY <1>0, <1>1, PartCall, FreshCall
  <2> QED BY <2>1, <2>2, <2>3, <2>4, <2>5, <2>6, HandshakeKept
<1>2. CASE Decide
  <2>1. UNCHANGED <<vars, unflushed>> /\ script = <<>> /\ (Turn \/ (Onward /\ (printers' = printers \/ Reports)))
    BY <1>2, Decisions
  <2>2. UNCHANGED vars /\ unflushed' = unflushed /\ printer' = printer
    BY <2>1 DEF vars
  <2>3. Turn \/ Onward
    BY <2>1
  <2>4. BaudInv'
    BY <2>1, <2>2, <2>3, BaudDecide
  <2>5. QueryInv'
    BY <1>0, <2>1, <2>3, QueryDecide
  <2>6. FlowInv'
    BY <1>0, <2>1, <2>3, FlowDecide
  <2>7. PartInv' /\ FreshInv'
    BY <1>0, <1>2, PartDecide, FreshDecide
  <2>8. CASE Turn \/ printers' = printers
    <3>1. printers' = printers
      BY <2>8 DEF Turn
    <3> QED BY <2>2, <2>4, <2>5, <2>6, <2>7, <3>1, HandshakeKept
  <2>9. CASE Reports
    <3>1. PICK m, r : m = model' /\ r = [port |-> cur, model |-> m, uri |-> PortUri(cur)] /\ printers' = Append(printers, r)
      BY <2>9 DEF Reports
    <3>2. r.port = cur
      BY <3>1
    <3>3. ASSUME cur \notin unflushed PROVE HandshakeRight(r)
      <4>1. CASE what = "set" /\ ok /\ model' = model
        BY <1>0, <2>1, <3>1, <3>3, <4>1, SerialHandshake
      <4>2. CASE what \in {"aps", "escpos"} /\ ok /\ stage # "serial"
        BY <1>0, <2>1, <3>2, <4>2, ParallelHandshake
      <4> QED BY <2>9, <4>1, <4>2 DEF Reports
    <3>4. HandshakeAfterFlush'
      BY <2>2, <3>1, <3>2, <3>3, HandshakeMore
    <3> QED BY <2>4, <2>5, <2>6, <2>7, <3>4
  <2> QED BY <2>1, <2>8, <2>9
<1>3. CASE Environment /\ UNCHANGED detectVars
  <2>1. Steady /\ baudrate' = baudrate
    BY <1>3, EnvironmentKeeps
  <2>2. BaudInv'
    BY <1>3, <2>1, BaudEnvironment
  <2>3. QueryInv'
    BY <1>0, <1>3, QueryEnvironment
  <2>4. FlowInv'
    BY <1>0, <1>3, FlowEnvironment
  <2>5. FreshInv'
    BY <1>0, <1>3, FreshEnvironment
  <2>6. PartInv'
    BY <1>3 DEF PartInv, detectVars
  <2>7. HandshakeAfterFlush'
    BY <1>3, <2>1, HandshakeKept DEF Steady, detectVars
  <2> QED BY <2>2, <2>3, <2>4, <2>5, <2>6, <2>7
<1>4. CASE UNCHANGED <<vars, detectVars>>
  <2>1. printer' = printer /\ printers' = printers /\ unflushed' = unflushed
    BY <1>4 DEF vars, detectVars
  <2> QED BY <1>4, <2>1, HandshakeStill, HandshakeKept
<1> QED BY <1>1, <1>2, <1>3, <1>4 DEF DetectNext

(* While the queries of a line can be flushed, a printer that tells its    *)
(* handshake is reported with the one it has, although answers come late,  *)
(* other speeds garble them and a printer may have understood the query    *)
(* for its identity at none of the speeds tried before (detect_serial,     *)
(* detect_model, detect_serial_handshake).                                 *)
THEOREM HandshakesAreRight == DetectSpec => []HandshakeAfterFlush
<1> HIDE DEF vars, detectVars, DetectInv, HandshakeInv
<1>1. DetectInit => HandshakeInv
  BY HandshakeStarts
<1>2. IInv /\ ScriptInv /\ RoomInv /\ DetectInv /\ HandshakeInv /\ [DetectNext]_<<vars, detectVars>> => HandshakeInv'
  BY HandshakeSteps
<1>3. HandshakeInv => HandshakeAfterFlush
  BY DEF HandshakeInv
<1> QED BY <1>1, <1>2, <1>3, Watching, PTL DEF DetectSpec
===============================================================================
