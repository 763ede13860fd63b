-------------------------- MODULE MCQueryProcessor --------------------------
(* Small instances of QueryProcessor for TLC.                              *)
EXTENDS QueryProcessor

CONSTANTS a, b, c, w1, w2, none

=============================================================================
