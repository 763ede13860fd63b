------------------------------ MODULE MCCDRip -------------------------------
(* Small instances of CDRip for TLC.                                       *)
EXTENDS CDRip

CONSTANTS t1, t2, t3

=============================================================================
