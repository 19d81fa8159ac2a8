----------------------------- MODULE Lifecycle ------------------------------
(***************************************************************************)
(* The life of the process around the samplers: InitializeInjection, the   *)
(* requests that clients issue (client.cpp, PerformGPUProfiling), and      *)
(* AtExitHandler; with the CPU samplers of CpuSampler and the launches of  *)
(* Tracing.                                                                *)
(*                                                                         *)
(* Starting and stopping PC sampling, and the copying of samples, are one  *)
(* step each here: ThreadSignals, PcSampling and CircularBuffer have them. *)
(* A std::thread handle that is assigned while it is joinable ends the     *)
(* process (std::terminate).                                               *)
(***************************************************************************)
EXTENDS CpuSampler, Tracing

CONSTANTS
  Settings,   \* settings, with the fields of RunConf and CPUSamplingConf
  Mortal,     \* threads that may end
  Requests    \* bound: requests in a run

ASSUME LaunchersAssumption == Launchers = Pids
ASSUME SettingsAssumption ==
  /\ \A s \in Settings :
       /\ {s.noRPC, s.noSampling, s.enableCPUSampling} \subseteq BOOLEAN
       /\ s.cpuSamplingTimeout \in Int
  /\ Requests \in Nat

VARIABLES
  conf,       \* the ProfilerConf in force
  started,    \* g_pcSamplingStarted
  copier,     \* g_rpcReplyCopyThreadHandle: "none", "runs" or "done"
  server,     \* the RPC server: "none", "up", "down"
  request,    \* where PerformGPUProfiling is
  duration,   \* the request's duration is positive
  client,     \* what its client was told last
  issued,     \* requests issued so far
  refused,    \* history: a request has been refused
  exit,       \* AtExitHandler
  dead        \* std::terminate was called

control == <<conf, copier, server, request, duration, client, issued, refused,
             exit, dead>>
vars == <<sampler, tracer, started, control>>

Init ==
  /\ SamplerInit /\ TracingInit
  /\ conf \in Settings /\ timeout = (conf.cpuSamplingTimeout >= 0)
  /\ started = FALSE /\ copier = "none" /\ server = "none"
  /\ request = "none" /\ duration = TRUE /\ client = "idle" /\ issued = 0
  /\ refused = FALSE /\ exit = "injected" /\ dead = FALSE

\* Nothing runs in a process that is dead or over.
Up == ~dead /\ exit \notin {"injected", "over"}

\* A thread is spawned into a handle: the process ends if it is joinable.
Spawned(handle) == IF handle = "none" THEN "runs" ELSE handle

-----------------------------------------------------------------------------
(* InitializeInjection.                                                    *)

InitializeInjection ==
  /\ exit = "injected"
  /\ exit' = "no"
  /\ IF conf.noRPC
     THEN /\ started' = TRUE /\ tracing' = TRUE
          /\ Switch(TRUE)
          /\ copier' = IF conf.noSampling THEN copier ELSE "runs"
          /\ cpu' = IF conf.enableCPUSampling THEN "check" ELSE cpu
          /\ UNCHANGED server
     ELSE /\ server' = "up"
          /\ UNCHANGED <<started, tracing, copier, cpu, evt, cpuOn>>
  /\ UNCHANGED <<timeout, alive, samplers, deleted, written, mutex, left, cur, got,
                 inserted, now, active, corKey, records, timers, launch, ids,
                 truth, conf, request, duration, client, issued, refused, dead>>

-----------------------------------------------------------------------------
(* The program: a thread's first launch registers it; threads end.  That   *)
(* matters to the CPU samplers, and what a launch does to tracing mode.    *)

Program ==
  /\ Up /\ exit = "no"
  /\ \/ conf.noSampling /\ Launching /\ UNCHANGED <<sampler, started, control>>
     \/ conf.enableCPUSampling /\ \E p \in Pids :
          \/ /\ p \in alive \ samplers
             /\ RegisterSampler(p)
             /\ left' \in {left, left \cup {p}}
             /\ mutex # "cpu" => left' = left
             /\ UNCHANGED <<timeout, alive, deleted, evt, written, cpuOn, mutex, cpu,
                            cur, got, inserted, tracer, started, control>>
          \/ /\ p \in samplers \cap alive \cap Mortal /\ launch[p].at = "out"
             /\ alive' = alive \ {p}
             /\ UNCHANGED <<timeout, samplers, deleted, evt, written, cpuOn, mutex,
                            cpu, left, cur, got, inserted, tracer, started, control>>

-----------------------------------------------------------------------------
(* PerformGPUProfiling, one request at a time.                             *)

\* A step of the request from one place to the next.
Step(from, to) ==
  /\ Up /\ request = from /\ request' = to
  /\ UNCHANGED <<conf, server, issued, exit>>

\* The client calls PerformGPUProfiling.
IssuePCSampling ==
  /\ Up /\ server = "up" /\ exit = "no"
  /\ request = "none" /\ issued < Requests
  /\ request' = "erase" /\ issued' = issued + 1 /\ client' = "waits"
  /\ duration' \in BOOLEAN
  /\ UNCHANGED <<sampler, tracer, started, conf, copier, server, refused, exit,
                 dead>>

\* The samplers of ended threads are deleted.
EraseEnded ==
  /\ Step("erase", "start")
  /\ DeleteSamplers(samplers \ alive)
  /\ UNCHANGED <<timeout, alive, deleted, written, cpuOn, mutex, cpu, left, cur, got,
                 inserted, tracer, started, copier, duration, client, refused,
                 dead>>

\* Sampling, or tracing, is started.
Start ==
  /\ Step("start", "spawn")
  /\ started' = (started \/ ~conf.noSampling)
  /\ tracing' = (tracing \/ conf.noSampling)
  /\ UNCHANGED <<sampler, now, active, corKey, records, timers, launch, ids,
                 truth, copier, duration, client, refused, dead>>

\* The copy thread is spawned.
SpawnCopier ==
  /\ Step("spawn", "enable")
  /\ IF conf.noSampling THEN UNCHANGED <<copier, dead>>
     ELSE /\ dead' = (copier # "none")
          /\ copier' = Spawned(copier)
  /\ UNCHANGED <<sampler, tracer, started, duration, client, refused>>

\* The samplers are enabled, with statusMutex, and the collecting thread is
\* spawned.
EnableCPUSampling ==
  /\ Step("enable", "check")
  /\ IF ~conf.enableCPUSampling
     THEN UNCHANGED <<evt, cpuOn, cpu, dead>>
     ELSE /\ mutex = "free"
          /\ Switch(TRUE)
          /\ dead' = (cpu # "none")
          /\ cpu' = IF cpu = "none" THEN "check" ELSE cpu
  /\ UNCHANGED <<timeout, alive, samplers, deleted, written, mutex, left, cur, got,
                 inserted, tracer, started, copier, duration, client, refused>>

\* A duration that is not positive is refused, with everything running.
CheckDuration ==
  /\ IF duration
     THEN Step("check", "sleep") /\ UNCHANGED <<duration, client, refused>>
     ELSE /\ Step("check", "none") /\ duration' = TRUE
          /\ client' = "failed" /\ refused' = TRUE
  /\ UNCHANGED <<sampler, tracer, started, copier, dead>>

\* The time is over: the samplers are disabled, with statusMutex.
DisableCPUSampling ==
  /\ Step("sleep", "stop")
  /\ IF ~conf.enableCPUSampling THEN UNCHANGED <<evt, cpuOn>>
     ELSE mutex = "free" /\ Switch(FALSE)
  /\ UNCHANGED <<timeout, alive, samplers, deleted, written, mutex, cpu, left, cur,
                 got, inserted, tracer, started, copier, duration, client, refused,
                 dead>>

\* Fault: only tracing is stopped.
StopTracing ==
  /\ Step("stop", "join")
  /\ tracing' = (tracing /\ ~conf.noSampling)
  /\ UNCHANGED <<sampler, now, active, corKey, records, timers, launch, ids,
                 truth, started, copier, duration, client, refused, dead>>

\* Sampling, or tracing, is stopped.
Stop ==
  /\ Step("stop", "join")
  /\ started' = (started /\ conf.noSampling)
  /\ tracing' = (tracing /\ ~conf.noSampling)
  /\ UNCHANGED <<sampler, now, active, corKey, records, timers, launch, ids,
                 truth, copier, duration, client, refused, dead>>

\* The threads are joined if they are joinable, and the client gets its reply.
JoinThreads ==
  /\ Step("join", "none")
  /\ copier \in {"none", "done"} /\ cpu \in {"none", "done"}
  /\ copier' = "none" /\ cpu' = "none"
  /\ client' = "ok"
  /\ UNCHANGED <<timeout, alive, samplers, deleted, evt, written, cpuOn, mutex, left,
                 cur, got, inserted, tracer, started, duration, refused, dead>>

\* The copy thread sees that sampling is over, and its last drain ends.
CopierEnds ==
  /\ Up /\ copier = "runs" /\ ~started
  /\ copier' = "done"
  /\ UNCHANGED <<sampler, tracer, started, conf, server, request, duration,
                 client, issued, refused, exit, dead>>

Request ==
  \/ EraseEnded \/ Start \/ SpawnCopier \/ EnableCPUSampling \/ CheckDuration
  \/ DisableCPUSampling \/ Stop \/ JoinThreads

-----------------------------------------------------------------------------
(* AtExitHandler.                                                          *)

Leave(from, to) ==
  /\ ~dead /\ exit = from /\ exit' = to
  /\ UNCHANGED <<conf, request, duration, client, issued, refused, dead>>

\* The flags are cleared when there is no RPC, and else ...
ExitBegins ==
  /\ Leave("no", "wait")
  /\ started' = (started /\ ~conf.noRPC)
  /\ tracing' = (tracing /\ ~conf.noRPC)
  /\ UNCHANGED <<sampler, now, active, corKey, records, timers, launch, ids,
                 truth, copier, server>>

\* ... the end of sampling is waited for.
SamplingIsOver ==
  /\ ~started /\ Leave("wait", IF conf.noRPC THEN "disable" ELSE "shutdown")
  /\ UNCHANGED <<sampler, tracer, started, copier, server>>

\* Fault: the samplers are left running.
ExitDisablesNothing ==
  /\ Leave("disable", "join")
  /\ UNCHANGED <<sampler, tracer, started, copier, server>>

\* Without RPC: the samplers are disabled ...
ExitDisables ==
  /\ Leave("disable", "join")
  /\ IF ~conf.enableCPUSampling THEN UNCHANGED <<evt, cpuOn>>
     ELSE mutex = "free" /\ Switch(FALSE)
  /\ UNCHANGED <<timeout, alive, samplers, deleted, written, mutex, cpu, left, cur,
                 got, inserted, tracer, started, copier, server>>

\* ... and the threads joined; the results are dumped.
ExitJoins ==
  /\ Leave("join", "delete")
  /\ cpu \in {"none", "done"} /\ copier \in {"none", "done"}
  /\ cpu' = "none" /\ copier' = "none"
  /\ UNCHANGED <<timeout, alive, samplers, deleted, evt, written, cpuOn, mutex, left,
                 cur, got, inserted, tracer, started, server>>

\* Fault: the server is shut down at once.
ShutdownNow ==
  /\ Leave("shutdown", "delete")
  /\ server' = "down"
  /\ UNCHANGED <<sampler, tracer, started, copier>>

\* With RPC: the server is shut down, which waits for its request, and its
\* thread joined.
Shutdown ==
  /\ request = "none" /\ Leave("shutdown", "delete")
  /\ server' = "down"
  /\ UNCHANGED <<sampler, tracer, started, copier>>

\* The samplers are deleted.
DeleteCollection ==
  /\ Leave("delete", "over")
  /\ deleted' = TRUE
  /\ UNCHANGED <<timeout, alive, samplers, evt, written, cpuOn, mutex, cpu, left,
                 cur, got, inserted, tracer, started, copier, server>>

Exit ==
  \/ SamplingIsOver \/ ExitDisables \/ ExitJoins \/ Shutdown \/ DeleteCollection

-----------------------------------------------------------------------------
Sampling ==
  /\ ~dead
  /\ \/ CollectorThread
     \/ Up /\ \E p \in Pids : Tick(p)
  /\ UNCHANGED <<tracer, started, control>>

\* Only the timers of tracing mode read the clock.
Time ==
  Up /\ conf.noSampling /\ TimePasses /\ UNCHANGED <<sampler, started, control>>

Next ==
  \/ InitializeInjection \/ Program \/ Time
  \/ IssuePCSampling \/ Request \/ CopierEnds
  \/ ExitBegins \/ Exit \/ Sampling

\* Every thread of the profiler runs on; statusMutex, which the collecting
\* thread takes over and over, is granted to a waiter in the end.
Fairness ==
  /\ WF_vars(Request) /\ WF_vars(CopierEnds) /\ WF_vars(Exit)
  /\ SF_vars(EnableCPUSampling \/ DisableCPUSampling \/ ExitDisables)
  /\ WF_vars(CollectorThread /\ ~dead /\ UNCHANGED <<tracer, started, control>>)
  /\ SF_vars(\E p \in Pids : TimesOut(p) /\ UNCHANGED <<tracer, started, control>>)

Spec == Init /\ [][Next]_vars /\ Fairness

-----------------------------------------------------------------------------
(* Properties.                                                             *)

TypeOK ==
  /\ SamplerTypeOK /\ TracingTypeOK
  /\ conf \in Settings /\ started \in BOOLEAN
  /\ copier \in {"none", "runs", "done"} /\ server \in {"none", "up", "down"}
  /\ request \in {"none", "erase", "start", "spawn", "enable", "check", "sleep",
                  "stop", "join"}
  /\ duration \in BOOLEAN /\ client \in {"idle", "waits", "ok", "failed"}
  /\ issued \in 0 .. Requests /\ refused \in BOOLEAN /\ dead \in BOOLEAN
  /\ exit \in {"injected", "no", "wait", "disable", "join", "shutdown",
               "delete", "over"}

\* Unless a request was refused, nothing of one is left when it returns: no
\* thread, no enabled sampler, no flag; so that no later request assigns a
\* joinable handle, which ends the process.
NothingLeftOn ==
  ~refused =>
    /\ ~dead
    /\ request = "none" /\ server = "up" =>
         /\ ~started /\ ~tracing /\ ~cpuOn
         /\ copier = "none" /\ cpu = "none"
         /\ \A p \in Pids : ~evt[p].enabled

\* Unless a request was refused, the samplers are deleted at exit only when
\* neither the collecting thread nor a request can come to them any more.
CollectionIsAlive ==
  deleted /\ ~refused => cpu = "none" /\ request = "none"

\* A request whose duration is positive gets its reply, if CPU samples are
\* waited for with a timeout and the process was not killed by an earlier one.
RequestReturns ==
  (timeout /\ duration /\ request # "none") ~> (request = "none" \/ dead)

\* An exit comes to its end, also in the middle of a request, with a timeout as
\* above and unless a refused request left sampling on.
ExitEnds ==
  (timeout /\ exit = "wait") ~> (exit = "over" \/ refused \/ dead)
=============================================================================
