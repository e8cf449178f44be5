--------------------------- MODULE MCRasterToAps ---------------------------
(* RasterToAps with the value a .cfg cannot write: the option value        *)
(* "Unlimited" of the maximum ticket length.                               *)
EXTENDS RasterToAps

Unlimited == -1

=============================================================================
