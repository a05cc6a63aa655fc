--------------------------- MODULE MCGuidanceCache ---------------------------
(***************************************************************************)
(* A small instance of GuidanceCache for TLC.  Liveness is checked, so no  *)
(* symmetry set is declared.                                               *)
(***************************************************************************)
EXTENDS GuidanceCache

CONSTANTS r1, r2, r3
=============================================================================
