--------------------------- MODULE TacticalDeskMC ---------------------------
(***************************************************************************)
(* Model-checking instance of TacticalDesk.  The BUYs are named in the     *)
(* order they are planned (NextBuy), which takes the place of a symmetry.  *)
(***************************************************************************)
EXTENDS TacticalDesk
=============================================================================
