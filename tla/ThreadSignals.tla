--------------------------- MODULE ThreadSignals ---------------------------
(***************************************************************************)
(* How samprof drives application threads with two signals when            *)
(* syncBeforeStart is set.                                                 *)
(*                                                                         *)
(* SIGUSR1 and SIGUSR2 start and stop PC sampling: the thread of a         *)
(* profiling request sends them to every thread known to launch kernels;   *)
(* each synchronises its device in the handler and says so in              *)
(* g_kernelThreadSyncedMap; the selected one waits until all have, starts  *)
(* or stops CUPTI, and the others wait for that.                           *)
(*                                                                         *)
(* SIGUSR1 also asks the main thread for its call stack: a worker without  *)
(* Python frames of its own sets g_genCallStack, signals the main thread,  *)
(* waits until the flag is cleared and takes g_callStack.  What a thread   *)
(* does with SIGUSR1 depends on that flag alone.                           *)
(*                                                                         *)
(* A signal is pending at most once per thread, is blocked while its own   *)
(* handler runs, and interrupts the other handler as well as the program.  *)
(***************************************************************************)
EXTENDS Naturals, Sequences, FiniteSets

CONSTANTS
  Threads,       \* application threads
  Main,          \* ProfilerConf::mainThreadTid
  Launchers,     \* threads that launch kernels, sooner or later
  Early,         \* launchers that have launched before the first request
  Workers,       \* launchers that need the main thread's Python frames
  Modes,         \* values of ProfilerConf::noSampling to look at
  Mortal,        \* launchers that may end
  Calm,          \* TRUE: requests are so long and so far apart that handlers
                 \* and hand-shakes end before the next step of a request, and
                 \* no thread begins or ends while a request is signalling
  NoThread       \* selectedTid before the first request

ASSUME ThreadsAssumption ==
  /\ IsFiniteSet(Threads) /\ Main \in Threads /\ NoThread \notin Threads
  /\ Early \subseteq Launchers /\ Workers \subseteq Launchers
  /\ Launchers \subseteq Threads
  /\ Mortal \subseteq Launchers
  /\ Modes \subseteq BOOLEAN /\ Calm \in BOOLEAN

VARIABLES
  noSampling,  \* ProfilerConf::noSampling, read once: requests trace, and send
               \* no signal
  app,         \* where each thread's program is
  frames,      \* the handlers running on each thread, the innermost first
  pending,     \* signals pending on each thread
  tids,        \* g_kernelThreadTids
  known,       \* threads that have an entry in g_kernelThreadSyncedMap
  synced,      \* those whose entry is true
  selectedTid,
  started,     \* g_pcSamplingStarted (g_tracingStarted if noSampling)
  cupti,       \* CUPTI is sampling the contexts
  rpc,         \* where PerformGPUProfiling is
  toSignal,    \* threads it has still to signal
  genCallStack,\* g_genCallStack
  callStack    \* copies of the main thread's stack in g_callStack

syncVars == <<tids, known, synced, selectedTid>>
sampVars == <<started, cupti>>
rpcVars  == <<rpc, toSignal>>
unwVars  == <<genCallStack, callStack>>
vars == <<noSampling, app, frames, pending, syncVars, sampVars, rpcVars,
          unwVars>>

Signals == {"USR1", "USR2"}

\* Places in the handlers, those of SIGUSR1 and those of SIGUSR2.
Start == {"startSync", "startLead", "startFollow", "startGo", "startEnd",
          "genCheck", "genUnwind"}
Stop  == {"stopSync", "stopLead", "stopFollow", "stopGo", "stopEnd"}

MaxCopies == Cardinality(Workers) + 1   \* bound: copies of the stack kept apart

Init ==
  /\ noSampling \in Modes
  /\ app = [t \in Threads |-> IF t \in Early THEN "run" ELSE "new"]
  /\ frames = [t \in Threads |-> <<>>]
  /\ pending = [t \in Threads |-> {}]
  /\ tids = Early /\ known = Early /\ synced = {}
  /\ selectedTid = NoThread
  /\ started = FALSE /\ cupti = FALSE
  /\ rpc = "idle" /\ toSignal = {}
  /\ genCallStack = FALSE /\ callStack = 0

-----------------------------------------------------------------------------
(* Handlers.                                                               *)

At(t, place) == frames[t] # <<>> /\ Head(frames[t]) = place

\* The handler on top of thread t goes on to a place, or returns.
GoTo(t, place) == frames' = [frames EXCEPT ![t] = <<place>> \o Tail(@)]
Return(t) == frames' = [frames EXCEPT ![t] = Tail(@)]

Running(t, places) == \E i \in DOMAIN frames[t] : frames[t][i] \in places

\* Fault: one synchronised thread is enough.
AllSyncedSome == known \cap synced # {}

\* checkSyncMap
AllSynced == known \subseteq synced

\* SIGUSR1 reaches thread t: the first condition of startPCThreadSyncHanlder.
DeliverStart(t) ==
  /\ "USR1" \in pending[t]
  /\ ~Running(t, Start)
  /\ pending' = [pending EXCEPT ![t] = @ \ {"USR1"}]
  /\ frames' = [frames EXCEPT ![t] =
                  <<IF genCallStack THEN "genCheck" ELSE "startSync">> \o @]
  /\ UNCHANGED <<noSampling, app, syncVars, sampVars, rpcVars, unwVars>>

\* Fault: every thread takes itself for the selected one.
StartSyncAll(t) ==
  /\ At(t, "startSync")
  /\ known' = known \cup {t}
  /\ synced' = synced \cup {t}
  /\ GoTo(t, "startLead")
  /\ UNCHANGED <<noSampling, app, pending, tids, selectedTid, sampVars,
                 rpcVars, unwVars>>

\* cudaDeviceSynchronize(), the map entry, and the test of selectedTid.
StartSync(t) ==
  /\ At(t, "startSync")
  /\ known' = known \cup {t}
  /\ synced' = synced \cup {t}
  /\ GoTo(t, IF t = selectedTid THEN "startLead" ELSE "startFollow")
  /\ UNCHANGED <<noSampling, app, pending, tids, selectedTid, sampVars,
                 rpcVars, unwVars>>

\* The selected thread waits for all.
StartLead(t) ==
  /\ At(t, "startLead")
  /\ AllSynced
  /\ GoTo(t, "startGo")
  /\ UNCHANGED <<noSampling, app, pending, syncVars, sampVars, rpcVars,
                 unwVars>>

\* startCUptiPCSamplingHandler
StartGo(t) ==
  /\ At(t, "startGo")
  /\ cupti' = TRUE
  /\ started' = TRUE
  /\ GoTo(t, "startEnd")
  /\ UNCHANGED <<noSampling, app, pending, syncVars, rpcVars, unwVars>>

\* The others wait for sampling to start.
StartFollow(t) ==
  /\ At(t, "startFollow")
  /\ started /\ ~noSampling
  /\ GoTo(t, "startEnd")
  /\ UNCHANGED <<noSampling, app, pending, syncVars, sampVars, rpcVars,
                 unwVars>>

\* Fault: the entry stays true.
StartEndKept(t) ==
  /\ At(t, "startEnd")
  /\ Return(t)
  /\ UNCHANGED <<noSampling, app, pending, syncVars, sampVars, rpcVars,
                 unwVars>>

StartEnd(t) ==
  /\ At(t, "startEnd")
  /\ synced' = synced \ {t}
  /\ Return(t)
  /\ UNCHANGED <<noSampling, app, pending, tids, known, selectedTid, sampVars,
                 rpcVars,
                 unwVars>>

\* else if (g_genCallStack): the flag is read again.
GenCheck(t) ==
  /\ At(t, "genCheck")
  /\ IF genCallStack THEN GoTo(t, "genUnwind") ELSE Return(t)
  /\ UNCHANGED <<noSampling, app, pending, syncVars, sampVars, rpcVars,
                 unwVars>>

\* Fault: the flag stays up.
GenUnwindUp(t) ==
  /\ At(t, "genUnwind")
  /\ callStack' = IF callStack < MaxCopies THEN callStack + 1 ELSE callStack
  /\ Return(t)
  /\ UNCHANGED <<noSampling, app, pending, syncVars, sampVars, rpcVars,
                 genCallStack>>

\* GenerateCallStacks(g_callStack), on top of what is there, and the flag.
GenUnwind(t) ==
  /\ At(t, "genUnwind")
  /\ callStack' = IF callStack < MaxCopies THEN callStack + 1 ELSE callStack
  /\ genCallStack' = FALSE
  /\ Return(t)
  /\ UNCHANGED <<noSampling, app, pending, syncVars, sampVars, rpcVars>>

\* SIGUSR2 reaches thread t.
DeliverStop(t) ==
  /\ "USR2" \in pending[t]
  /\ ~Running(t, Stop)
  /\ pending' = [pending EXCEPT ![t] = @ \ {"USR2"}]
  /\ frames' = [frames EXCEPT ![t] = <<"stopSync">> \o @]
  /\ UNCHANGED <<noSampling, app, syncVars, sampVars, rpcVars, unwVars>>

StopSync(t) ==
  /\ At(t, "stopSync")
  /\ known' = known \cup {t}
  /\ synced' = synced \cup {t}
  /\ GoTo(t, IF t = selectedTid THEN "stopLead" ELSE "stopFollow")
  /\ UNCHANGED <<noSampling, app, pending, tids, selectedTid, sampVars,
                 rpcVars, unwVars>>

StopLead(t) ==
  /\ At(t, "stopLead")
  /\ AllSynced
  /\ GoTo(t, "stopGo")
  /\ UNCHANGED <<noSampling, app, pending, syncVars, sampVars, rpcVars,
                 unwVars>>

\* stopCUptiPCSamplingHandler; its calls of CollectPCSamples are part of
\* CircularBuffer.
StopGo(t) ==
  /\ At(t, "stopGo")
  /\ cupti' = (cupti /\ ~started)
  /\ started' = FALSE
  /\ GoTo(t, "stopEnd")
  /\ UNCHANGED <<noSampling, app, pending, syncVars, rpcVars, unwVars>>

StopFollow(t) ==
  /\ At(t, "stopFollow")
  /\ ~started
  /\ GoTo(t, "stopEnd")
  /\ UNCHANGED <<noSampling, app, pending, syncVars, sampVars, rpcVars,
                 unwVars>>

\* Fault: the entry stays true.
StopEndKept(t) ==
  /\ At(t, "stopEnd")
  /\ Return(t)
  /\ UNCHANGED <<noSampling, app, pending, syncVars, sampVars, rpcVars,
                 unwVars>>

StopEnd(t) ==
  /\ At(t, "stopEnd")
  /\ synced' = synced \ {t}
  /\ Return(t)
  /\ UNCHANGED <<noSampling, app, pending, tids, known, selectedTid, sampVars,
                 rpcVars,
                 unwVars>>

Handle(t) ==
  \/ DeliverStart(t) \/ StartSync(t) \/ StartLead(t) \/ StartGo(t)
  \/ StartFollow(t) \/ StartEnd(t) \/ GenCheck(t) \/ GenUnwind(t)
  \/ DeliverStop(t) \/ StopSync(t) \/ StopLead(t) \/ StopGo(t)
  \/ StopFollow(t) \/ StopEnd(t)

-----------------------------------------------------------------------------
(* The program of a launching thread; it runs while no handler does.       *)

InProgram(t, place) == frames[t] = <<>> /\ app[t] = place

\* The first launch: the thread enters g_kernelThreadTids.  A request that is
\* going through that set may or may not come across it.
Register(t) ==
  /\ InProgram(t, "new")
  /\ Calm => rpc \in {"idle", "sleep"}
  /\ app' = [app EXCEPT ![t] = "enter"]
  /\ tids' = tids \cup {t}
  /\ toSignal' \in IF rpc \in {"signalStart", "signalStop"}
                   THEN {toSignal, toSignal \cup {t}} ELSE {toSignal}
  /\ UNCHANGED <<noSampling, frames, pending, known, synced, selectedTid,
                 sampVars, rpc,
                 unwVars>>

\* g_kernelThreadSyncedMap.insert({tid, false})
EnterMap(t) ==
  /\ InProgram(t, "enter")
  /\ app' = [app EXCEPT ![t] = "run"]
  /\ known' = known \cup {t}
  /\ UNCHANGED <<noSampling, frames, pending, tids, synced, selectedTid,
                 sampVars, rpcVars,
                 unwVars>>

\* The thread ends; its pending signals are gone with it.
End(t) ==
  /\ InProgram(t, "run")
  /\ Calm => rpc = "idle"
  /\ app' = [app EXCEPT ![t] = "ended"]
  /\ pending' = [pending EXCEPT ![t] = {}]
  /\ UNCHANGED <<noSampling, frames, syncVars, sampVars, rpcVars, unwVars>>

\* DoBackTrace on a worker, while sampling or tracing is on.
AskMain(t) ==
  /\ InProgram(t, "run")
  /\ started
  /\ genCallStack' = TRUE
  /\ app' = [app EXCEPT ![t] = "kill"]
  /\ UNCHANGED <<noSampling, frames, pending, syncVars, sampVars, rpcVars,
                 callStack>>

\* pthread_kill(mainThreadTid, SIGUSR1)
SignalMain(t) ==
  /\ InProgram(t, "kill")
  /\ pending' = [pending EXCEPT ![Main] = @ \cup {"USR1"}]
  /\ app' = [app EXCEPT ![t] = "wait"]
  /\ UNCHANGED <<noSampling, frames, syncVars, sampVars, rpcVars, unwVars>>

\* The flag is down: toInsertUNWMain = g_callStack.
TakeStack(t) ==
  /\ InProgram(t, "wait")
  /\ ~genCallStack
  /\ app' = [app EXCEPT ![t] = "clear"]
  /\ UNCHANGED <<noSampling, frames, pending, syncVars, sampVars, rpcVars,
                 unwVars>>

\* Fault: g_callStack keeps the stack.
ClearStackKept(t) ==
  /\ InProgram(t, "clear")
  /\ app' = [app EXCEPT ![t] = "run"]
  /\ UNCHANGED <<noSampling, frames, pending, syncVars, sampVars, rpcVars,
                 unwVars>>

\* g_callStack is emptied.
ClearStack(t) ==
  /\ InProgram(t, "clear")
  /\ callStack' = 0
  /\ app' = [app EXCEPT ![t] = "run"]
  /\ UNCHANGED <<noSampling, frames, pending, syncVars, sampVars, rpcVars,
                 genCallStack>>

Program(t) == \/ EnterMap(t) \/ SignalMain(t) \/ TakeStack(t) \/ ClearStack(t)

-----------------------------------------------------------------------------
(* PerformGPUProfiling.                                                    *)

\* No handler runs, no signal is pending, no worker waits.
Quiet == \A t \in Threads : /\ frames[t] = <<>> /\ pending[t] = {}
                            /\ app[t] \in {"new", "run", "ended"}

Ended == {t \in Threads : app[t] = "ended"}

\* Fault: the map entries stay.
EraseEndedKept ==
  /\ tids' = tids \ Ended
  /\ UNCHANGED <<known, synced>>

\* Erasing exited threads.
EraseEnded ==
  /\ tids' = tids \ Ended
  /\ known' = known \ (tids \cap Ended)
  /\ synced' = synced \ (tids \cap Ended)

\* Fault: the signals go to the threads known before.
RequestToAll ==
  /\ ~noSampling
  /\ rpc = "idle"
  /\ Calm => Quiet
  /\ EraseEnded
  /\ selectedTid' \in IF tids' = {} THEN {selectedTid} ELSE tids'
  /\ toSignal' = tids
  /\ rpc' = "signalStart"
  /\ UNCHANGED <<noSampling, app, frames, pending, sampVars, unwVars>>

\* A request arrives, forgets the threads that ended and selects one of the
\* others; if there is none, the old choice stays.
Request ==
  /\ ~noSampling
  /\ rpc = "idle"
  /\ Calm => Quiet
  /\ EraseEnded
  /\ selectedTid' \in IF tids' = {} THEN {selectedTid} ELSE tids'
  /\ toSignal' = tids'
  /\ rpc' = "signalStart"
  /\ UNCHANGED <<noSampling, app, frames, pending, sampVars, unwVars>>

\* pthread_kill(tid, SIGUSR1) or SIGUSR2, for one more thread.  A thread that
\* has ended takes no signal.
Signal(sig, place, next) ==
  /\ rpc = place
  /\ \/ \E t \in toSignal :
          /\ pending' = IF t \in Ended THEN pending
                         ELSE [pending EXCEPT ![t] = @ \cup {sig}]
          /\ toSignal' = toSignal \ {t}
          /\ UNCHANGED rpc
     \/ /\ toSignal = {}
        /\ rpc' = next
        /\ UNCHANGED <<pending, toSignal>>
  /\ UNCHANGED <<noSampling, app, frames, syncVars, sampVars, unwVars>>

SignalStart == Signal("USR1", "signalStart", "awaitStart")
SignalStop  == Signal("USR2", "signalStop", "join")

\* while (!g_pcSamplingStarted)
AwaitStart ==
  /\ rpc = "awaitStart"
  /\ started
  /\ rpc' = "sleep"
  /\ UNCHANGED <<noSampling, app, frames, pending, syncVars, sampVars,
                 toSignal, unwVars>>

\* The duration is over.
WakeUp ==
  /\ rpc = "sleep"
  /\ Calm => Quiet
  /\ toSignal' = tids
  /\ rpc' = "signalStop"
  /\ UNCHANGED <<noSampling, app, frames, pending, syncVars, sampVars,
                 unwVars>>

\* The copy thread, which ends once sampling has stopped, is joined.
Join ==
  /\ rpc = "join"
  /\ ~started
  /\ rpc' = "idle"
  /\ UNCHANGED <<noSampling, app, frames, pending, syncVars, sampVars,
                 toSignal, unwVars>>

\* With noSampling a request only sets g_tracingStarted for its duration.
TraceStart ==
  /\ noSampling /\ ~started
  /\ EraseEnded
  /\ started' = TRUE
  /\ UNCHANGED <<noSampling, app, frames, pending, selectedTid, cupti,
                 rpcVars, unwVars>>

TraceStop ==
  /\ noSampling /\ started
  /\ started' = FALSE
  /\ UNCHANGED <<noSampling, app, frames, pending, syncVars, cupti, rpcVars,
                 unwVars>>

Rpc == SignalStart \/ AwaitStart \/ WakeUp \/ SignalStop \/ Join

Next == \/ \E t \in Threads : Handle(t) \/ Program(t)
        \/ \E t \in Launchers : Register(t)
        \/ \E t \in Mortal : End(t)
        \/ \E t \in Workers : AskMain(t)
        \/ Request \/ TraceStart \/ TraceStop \/ Rpc

Spec == Init /\ [][Next]_vars

\* Every thread that can go on, in a handler or out of it, does, and so does
\* the request.  Launches, hand-shakes and requests come or do not come.  A
\* duration ends whatever the threads do meanwhile: Calm only picks the moment.
Fairness == /\ \A t \in Threads : WF_vars(Handle(t)) /\ WF_vars(Program(t))
            /\ WF_vars(Rpc) /\ SF_vars(WakeUp)

FairSpec == Spec /\ Fairness

-----------------------------------------------------------------------------
(* Properties.                                                             *)

TypeOK ==
  /\ noSampling \in Modes
  /\ app \in [Threads -> {"new", "enter", "run", "kill", "wait", "clear",
                      "ended"}]
  /\ frames \in [Threads -> Seq(Start \cup Stop)]
  /\ \A t \in Threads : Len(frames[t]) =< 2
  /\ pending \in [Threads -> SUBSET Signals]
  /\ tids \subseteq Launchers /\ known \subseteq Threads /\ synced \subseteq known
  /\ selectedTid \in Threads \cup {NoThread}
  /\ started \in BOOLEAN /\ cupti \in BOOLEAN
  /\ rpc \in {"idle", "signalStart", "awaitStart", "sleep", "signalStop", "join"}
  /\ toSignal \subseteq tids
  /\ genCallStack \in BOOLEAN /\ callStack \in 0 .. MaxCopies

\* "in start, all kernel-launching thread synced": when CUPTI starts sampling,
\* every thread known to launch kernels is held in its start handler.
AllHeldAtStart ==
  [][~cupti /\ cupti' =>
       \A t \in tids : Running(t, {"startLead", "startFollow", "startGo"})]_vars

\* "in stop, all kernel-launching thread synced", and likewise when it stops.
AllHeldAtStop ==
  [][cupti /\ ~cupti' =>
       \A t \in tids : Running(t, {"stopLead", "stopFollow", "stopGo"})]_vars

\* CUPTI is never started a second time before it is stopped.
StartedOnce == \A t \in Threads : At(t, "startGo") => ~cupti

\* Between requests nothing is left of the last one: no entry is true, and
\* only threads that a request will signal have one.
CleanBetween ==
  rpc = "idle" /\ Quiet => synced = {} /\ known \subseteq tids

\* A worker that takes the main thread's stack takes it once.
StackIsWhole ==
  [][\A t \in Workers : app[t] = "wait" /\ app'[t] = "clear" => callStack = 1]_vars

\* Every request returns.
RequestReturns == rpc # "idle" ~> rpc = "idle"

\* Every signalled thread goes back to its program, and a worker that asked
\* for a stack gets one.
ProgramsResume ==
  \A t \in Threads :
    /\ frames[t] # <<>> ~> frames[t] = <<>>
    /\ app[t] = "wait" ~> app[t] = "run"
=============================================================================
