---------------------------- MODULE ProfilerConf ----------------------------
(***************************************************************************)
(* common.h: the settings of the profiler, read once from the environment. *)
(* An environment is a function from the names of the variables that are   *)
(* set to their values: what strtoul/strtol make of a number (0 of what is *)
(* none), or one of a few names.  Any number but 0 switches a flag on.     *)
(***************************************************************************)
EXTENDS Integers

\* The value of a variable that may be set, and of a flag.
Or(env, name, default) == IF name \in DOMAIN env THEN env[name] ELSE default
Flag(env, name, default) ==
  IF name \in DOMAIN env THEN env[name] # 0 ELSE default

\* Settings of GPU PC sampling.
SamplingConf(env) ==
  [samplingPeriod |-> Or(env, "CUPTI_SAMPLING_PERIOD", 0),
   scratchBufSize |-> Or(env, "CUPTI_BUF_SIZE", 0),
   hwBufSize |-> Or(env, "CUPTI_HWBUF_SIZE", 0),
   pcConfigBufRecordCount |-> Or(env, "CUPTI_PC_CONFIG_BUF_RECORD_COUNT", 1000),
   circularbufCount |-> Or(env, "CUPTI_CIRCULAR_BUF_COUNT", 10),
   circularbufSize |-> Or(env, "CUPTI_CIRCULAR_BUF_SIZE", 500)]

\* Settings of the CPU samplers.
CPUSamplingConf(env) ==
  [cpuSamplingPeriod |-> Or(env, "CPU_SAMPLING_PERIOD", 1000),
   cpuSamplingPages |-> Or(env, "CPU_SAMPLING_BUFFER_PAGES", 128),
   cpuSamplingTimeout |-> Or(env, "CPU_SAMPLING_TIMEOUT", -1),
   cpuSamplingMaxDepth |-> Or(env, "CPU_SAMPLING_MAX_DEPTH", 256),
   enableCPUSampling |-> Flag(env, "ENABLE_CPU_SAMPLING", FALSE)]

\* Settings of call path construction.  Python frames are unwound exactly with
\* the TORCH backend.
UnwindingConf(env) ==
  [fakeBT |-> Flag(env, "RETURN_CUDA_PC_SAMPLE_ONLY", FALSE),
   doCPUCallStackUnwinding |-> Flag(env, "DO_CPU_CALL_STACK_UNWINDING", TRUE),
   pruneCCT |-> Flag(env, "PRUNE_CCT", FALSE),
   checkRSP |-> Flag(env, "CHECK_RSP", TRUE),
   syncBeforeStart |-> Flag(env, "SYNC_BEFORE_START", FALSE),
   backTraceVerbose |-> Flag(env, "BT_VERBOSE", FALSE),
   backEnd |-> Or(env, "DL_BACKEND", "TORCH"),
   doPyUnwinding |-> Or(env, "DL_BACKEND", "TORCH") = "TORCH"]

\* Settings of the process's life.
RunConf(env) ==
  [noRPC |-> Flag(env, "NO_RPC", FALSE),
   noSampling |-> Flag(env, "NO_SAMPLING", FALSE)]
=============================================================================
