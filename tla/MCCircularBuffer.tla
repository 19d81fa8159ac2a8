-------------------------- MODULE MCCircularBuffer --------------------------
(***************************************************************************)
(* Instances of CircularBuffer for TLC.  The collectors are                *)
(* interchangeable, which the runs without liveness use.                   *)
(***************************************************************************)
EXTENDS CircularBuffer, TLC

Symmetry == Permutations(Collectors)
=============================================================================
