--------------------------- MODULE MCHarnessTurn ---------------------------
(* Instances of HarnessTurn for TLC. *)
EXTENDS HarnessTurn, TLC
=============================================================================
