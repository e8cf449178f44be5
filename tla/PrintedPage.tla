---------------------------- MODULE PrintedPage ----------------------------
(***************************************************************************)
(* What a raster filter promises, whatever commands it uses: the paper     *)
(* receives the dotlines of the job in their order, none changed and none  *)
(* twice.  The paper may lag behind the input, but only by blank dotlines: *)
(* one that is not blank is put on the paper as soon as it is taken, when  *)
(* all those before it are there.  rastertoaps is shown to implement this  *)
(* in RasterToApsProofs (rmtop off).                                       *)
(***************************************************************************)
EXTENDS Naturals, Sequences

CONSTANTS Row, Blank

VARIABLES rows, image

Take == rows' = Append(rows, Blank) /\ UNCHANGED image

Copy ==
  /\ image = rows
  /\ \E r \in Row \ {Blank} : rows' = Append(rows, r) /\ image' = Append(image, r)

CatchUp ==
  /\ Len(image) < Len(rows)
  /\ image' = Append(image, rows[Len(image) + 1])
  /\ UNCHANGED rows

Init == rows = <<>> /\ image = <<>>

Next == Take \/ Copy \/ CatchUp

Spec == Init /\ [][Next]_<<rows, image>>

=============================================================================
