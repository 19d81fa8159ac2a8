---------------------------- MODULE MCLifecycle -----------------------------
(***************************************************************************)
(* An instance of Lifecycle for TLC.                                      *)
(***************************************************************************)
EXTENDS Lifecycle, ProfilerConf, TLC

CONSTANTS p1, p2

\* Tracing and CPU sampling do not meet: they are checked one at a time.
MCEnvs ==
  UNION {[S -> {1}] : S \in SUBSET {"NO_RPC", "NO_SAMPLING"}}
    \cup {("ENABLE_CPU_SAMPLING" :> 1) @@ rpc @@ wait :
            rpc \in {"NO_RPC" :> 0, "NO_RPC" :> 1},
            wait \in {"CPU_SAMPLING_TIMEOUT" :> 100, <<>>}}

MCSettings == {RunConf(e) @@ CPUSamplingConf(e) : e \in MCEnvs}

\* Samples take both cells of the ring, other records one.
MCKinds == {[cells |-> 2, sample |-> TRUE], [cells |-> 1, sample |-> FALSE]}

MCMaxCells == p1 :> 1 @@ p2 :> 3

MCPath == [t \in Launchers |-> {t}]
=============================================================================
