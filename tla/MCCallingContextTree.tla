------------------------ MODULE MCCallingContextTree ------------------------
(***************************************************************************)
(* An instance of CallingContextTree for TLC.  m is the main thread, w a   *)
(* worker that takes its Python frames; f recurses; two launches of m with *)
(* the same stack pointer have different paths.                            *)
(***************************************************************************)
EXTENDS CallingContextTree, TLC

CONSTANTS m, w, f, py, g, r1, r2

MCCalls ==
  m :> {[rsp |-> r1, main |-> <<>>, own |-> <<f, py>>],
        [rsp |-> r1, main |-> <<>>, own |-> <<f, f>>]}
  @@ w :> {[rsp |-> r2, main |-> <<py>>, own |-> <<g>>]}

MCSampled == m :> {<<f, py>>} @@ w :> {<<py>>}

MCConfs == [checkRSP : BOOLEAN, fakeBT : {FALSE}]
             \cup {[checkRSP |-> FALSE, fakeBT |-> TRUE]}
MCUncached == {[checkRSP |-> FALSE, fakeBT |-> FALSE]}
=============================================================================
