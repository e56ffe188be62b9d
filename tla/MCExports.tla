----------------------------- MODULE MCExports ------------------------------
(* An instance of Exports for TLC.                                          *)
EXTENDS Exports, TLC
=============================================================================
