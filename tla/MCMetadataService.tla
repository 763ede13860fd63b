------------------------- MODULE MCMetadataService --------------------------
(* Small instances of MetadataService for TLC.                             *)
EXTENDS MetadataService

CONSTANTS j1, j2, none

(* u has a handler for each thread, and the scheme of x is known to none.  *)
MCHandlersOf ==
  [f \in Files |->
     IF f = "u" THEN <<"main", "background">> ELSE <<>>]

(* j1 reads, j2 writes, and both are given u.                              *)
MCFilesOf ==
  [j \in Jobs |-> IF j \in Writes THEN {"u"} ELSE {"u", "x"}]

=============================================================================
