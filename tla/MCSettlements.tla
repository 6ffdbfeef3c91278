--------------------------- MODULE MCSettlements ---------------------------
(* A small instance of Settlements for TLC.                                *)
EXTENDS Settlements
=============================================================================
