------------------------ MODULE MCRequestThreadQueue ------------------------
(* Small instances of RequestThreadQueue for TLC.                          *)
EXTENDS RequestThreadQueue, TLC

CONSTANTS main, worker, a, b, s, t

CallerSet == {main, worker}
Symmetry == Permutations(CallerSet)

=============================================================================
