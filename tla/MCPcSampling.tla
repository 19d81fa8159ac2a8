---------------------------- MODULE MCPcSampling ----------------------------
(***************************************************************************)
(* Instances of PcSampling for TLC.  Contexts are interchangeable, and so  *)
(* are threads.  A serialized kernel flushes into the configuration buffer *)
(* while the stop handler looks at it, unless its thread is held: that is  *)
(* the setting left out here (see README.md).  Without RPC no handler runs *)
(* in them, and syncBeforeStart makes no difference.                       *)
(***************************************************************************)
EXTENDS PcSampling, TLC

CONSTANTS x1, x2, t1, t2

Symmetry == Permutations(Contexts) \cup Permutations(Threads)

MCSettings == {s \in [noRPC : BOOLEAN, sync : BOOLEAN, serialized : BOOLEAN] :
                 IF s.noRPC THEN ~s.sync ELSE s.serialized => s.sync}

\* The context of a thread that is in no callback or handler is of no account.
View == <<conf, infos, cupti, at, step, held, left, copy, started, rpc, exit, due,
          [p \in {q \in Procs : at[q] # "idle"} |-> ctx[p]]>>

MCNoRPC == {[noRPC |-> TRUE, sync |-> FALSE, serialized |-> FALSE]}
=============================================================================
