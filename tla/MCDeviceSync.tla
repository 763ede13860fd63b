---------------------------- MODULE MCDeviceSync ----------------------------
(* Small instances of DeviceSync for TLC.                                  *)
EXTENDS DeviceSync

CONSTANTS t1, t2, l1, name, genre

(* Kept is the filter of the standard modules, written as a function so    *)
(* that it can be reasoned about.                                          *)
ASSUME KeptIsSelectSeq ==
  \A n \in 0..3, S \in SUBSET Tracks : \A s \in [1..n -> Tracks] :
    Kept(s, S) = SelectSeq(s, LAMBDA t : t \in S)

=============================================================================
