------------------------------- MODULE Models -------------------------------
(***************************************************************************)
(* The models database (src/src/aps/models.c).  A row is <<model, type,    *)
(* identity>>.  An identity is one value, not a string of characters;      *)
(* which ones begin with another is stated by Begins.                      *)
(***************************************************************************)
EXTENDS Naturals, Sequences

models_table == <<
  <<"CP290MRS",  "MRS", "CP 290 MRS">>,  <<"CP324MRS",  "MRS", "CP 324 MRS">>,
  <<"CP424MRS",  "MRS", "CP 424 MRS">>,  <<"CP295MRS",  "MRS", "CP 295 MRS">>,
  <<"CP305MRS",  "MRS", "CP 305 MRS">>,  <<"CP405MRS",  "MRS", "CP 405 MRS">>,
  <<"CP205MRS",  "MRS", "CP 205 MRS">>,  <<"EPM205MRS", "MRS", "EPM 205 MRS">>,
  <<"EPM224MRS", "MRS", "EPM 224 MRS">>, <<"EPM203MRS", "MRS", "EPM 203 MRS">>,
  <<"BPM205",    "MRS", "BPM 205">>,     <<"BPM224L",   "MRS", "BPM224L">>,
  <<"BPM224",    "MRS", "BPM224">>,      <<"CP290HRS",  "HRS", "CP290HRS">>,
  <<"CP324HRSW", "HRS", "CP324HRS W">>,  <<"CP324HRS",  "HRS", "CP324HRS">>,
  <<"CP424HRS",  "HRS", "CP424HRS">>,    <<"KCP200",    "KCP", "KCP200">>,
  <<"HSP3100FC", "HSP", "_HSP">>,        <<"HSP3100FC", "HSP", "_HSP3100FC">>,
  <<"POS1525",   "HSP", "_HRS">>,        <<"EPM205HRS", "HRS", "EPM205HRS">>,
  <<"EPM205HRS", "HRS", "EPM205-HRS">>,  <<"EPM207HRS", "HRS", "EPM207-HRS">>,
  <<"FCB500",    "HSP", "_FCB500">>,     <<"LCB500",    "HRS", "LCB500">>,
  <<"LPM400",    "HRS", "LPM400">>,      <<"UNKNOWN", "UNKNOWN", "">> >>

(* The rows in another order, so that a shorter identity comes first.      *)
swapped_table == [models_table EXCEPT ![12] = models_table[13], ![13] = models_table[12]]

Begins(s, id) ==
  \/ s = id \/ id = ""
  \/ <<s, id>> \in {<<"BPM224L", "BPM224">>, <<"CP324HRS W", "CP324HRS">>,
                    <<"_HSP3100FC", "_HSP">>}

First(table, rows) == table[CHOOSE i \in rows : \A j \in rows : i <= j]

model_find_by_number(model) ==
  First(models_table, {i \in 1 .. Len(models_table) : models_table[i][1] = model})

model_find_by_id_bug(s) ==
  First(swapped_table, {i \in 1 .. Len(models_table) : Begins(s, swapped_table[i][3])})

(* The last row takes every identity, so that one is always found.         *)
model_find_by_id(s) ==
  First(models_table, {i \in 1 .. Len(models_table) : Begins(s, models_table[i][3])})

aps_get_model_type(model) == model_find_by_number(model)[2]

(* External: the type and model of the printer that calls itself s.        *)
OwnRow(s) == models_table[CHOOSE i \in 1 .. Len(models_table) : models_table[i][3] = s]
TypeOf(s) == IF \E i \in 1 .. Len(models_table) : models_table[i][3] = s
             THEN OwnRow(s)[2] ELSE "UNKNOWN"
=============================================================================
