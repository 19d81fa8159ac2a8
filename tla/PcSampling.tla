----------------------------- MODULE PcSampling -----------------------------
(***************************************************************************)
(* Where the PC samples of each CUDA context are, from the hardware to the *)
(* reply: CallbackHandler (contexts created and destroyed, modules loaded, *)
(* launches returning), the SIGUSR1/SIGUSR2 handlers that start and stop   *)
(* sampling in every context, the reply-copy thread and AtExitHandler.     *)
(*                                                                         *)
(* A buffer handed on through the ring is taken as SampleFifo promises:    *)
(* what GetPcSamplingDataFromCupti fetched is queued whole by a later step *)
(* of the same thread.  A configuration buffer is queued by reference, and *)
(* is copied with what it holds when the copy thread comes to it.          *)
(*                                                                         *)
(* CUPTI is external, and does what the callers' comments say of it:       *)
(* samples wait in the hardware; a kernel's end shows them in the          *)
(* configuration buffer (serialized) or as remainingNumPcs (continuous); a *)
(* module's end and Disable flush them into the configuration buffer; Stop *)
(* leaves them for GetData, which empties the configuration buffer first.  *)
(*                                                                         *)
(* Contexts come and go, and modules load, while no handler runs: the      *)
(* handlers iterate g_contextInfoMap and take every entry for configured.  *)
(*                                                                         *)
(* AtExitHandler waits for no thread of the program: callbacks go on while *)
(* it runs, until it frees what they use.  What a thread does with freed   *)
(* memory is undefined and not followed.                                   *)
(***************************************************************************)
EXTENDS Integers, Sequences, FiniteSets, FiniteSetsExt

CONSTANTS
  Contexts,       \* CUcontext values
  Threads,        \* application threads
  Handler,        \* the thread that runs the SIGUSR1/SIGUSR2 handlers
  Settings,       \* [noRPC, sync : BOOLEAN, serialized : BOOLEAN]
  circularbufSize,        \* records a slot of the ring holds
  pcConfigBufRecordCount, \* records a configuration buffer holds
  MaxRecords      \* bound: samples taken in a run

ASSUME SizesAssumption ==
  /\ circularbufSize \in Nat \ {0} /\ pcConfigBufRecordCount \in Nat \ {0}
  /\ MaxRecords \in Nat
ASSUME HandlerAssumption == Handler \notin Threads
ASSUME SettingsAssumption ==
  Settings \subseteq [noRPC : BOOLEAN, sync : BOOLEAN, serialized : BOOLEAN]

Procs == Threads \cup {Handler}
Records == 1 .. MaxRecords

VARIABLES
  conf,           \* the ProfilerConf in force, one of Settings
  infoMap,        \* keys of g_contextInfoMap
  info,           \* a ContextInfo: "none", "zeroed", "ready", "toFree", "freed"
  allocated,      \* g_allocatedCircularBuffers
  running,        \* contexts in which CUPTI is sampling
  made,           \* samples taken so far
  hw, rest, buf,  \* per context: in the hardware; counted by
                  \* remainingNumPcs; in pcSamplingData (totalNumPcs)
  at, ctx,        \* per thread: where it is, in which context,
  step, held,     \* how far in GetPcSamplingDataFromCupti, and what the slot
                  \* it has filled holds
  left,           \* contexts the handler has still to visit
  queue,          \* g_pcSampDataQueue: slots with their records, and contexts
                  \* whose configuration buffer is queued
  copied,         \* how often each record is in a reply
  cpc,            \* the copy thread
  started,        \* g_pcSamplingStarted
  rpc,            \* PerformGPUProfiling with the handlers it runs
  exit,           \* AtExitHandler
  due             \* history: records queued or copied when the process began
                  \* to exit

cupti == <<running, made, hw, rest, buf>>
infos == <<infoMap, info, allocated>>
procs == <<at, ctx, step, held, left>>
copy  == <<queue, copied, cpc>>
vars  == <<conf, infos, cupti, procs, copy, started, rpc, exit, due>>

Empty == [c \in Contexts |-> {}]

Init ==
  /\ conf \in Settings
  /\ infoMap = {} /\ info = [c \in Contexts |-> "none"] /\ allocated = FALSE
  /\ running = {} /\ made = 0 /\ hw = Empty /\ rest = Empty /\ buf = Empty
  /\ at = [p \in Procs |-> "idle"]
  /\ ctx \in [Procs -> Contexts]
  /\ \A p, q \in Procs : ctx[p] = ctx[q]
  /\ step = [p \in Procs |-> "test"]
  /\ held = [p \in Procs |-> {}] /\ left = {}
  /\ queue = <<>> /\ copied = [r \in Records |-> 0]
  /\ cpc = IF conf.noRPC THEN "run" ELSE "none"
  /\ started = conf.noRPC
  /\ rpc = "idle" /\ exit = "no" /\ due = {}

-----------------------------------------------------------------------------
(* CUPTI (external).                                                       *)

\* The n oldest records of S.
Oldest(S, n) == {r \in S : Cardinality({q \in S : q < r}) < n}

\* What a GetData call on context c takes.
Batch(c) ==
  LET own == Oldest(buf[c], circularbufSize)
  IN own \cup Oldest(rest[c], circularbufSize - Cardinality(own))

\* The records S of context c go to its configuration buffer, and what does not
\* fit in it counts as remaining.
Flush(c, S) ==
  LET fits == Oldest(S, pcConfigBufRecordCount - Cardinality(buf[c]))
  IN /\ buf' = [buf EXCEPT ![c] = @ \cup fits]
     /\ rest' = [rest EXCEPT ![c] = (@ \cup S) \ fits]
     /\ hw' = [hw EXCEPT ![c] = {}]

\* Nothing of the handlers is running.
Calm == rpc \in {"idle", "spawn", "sleep", "join"}

\* The threads of the program run on: with syncBeforeStart they wait in their
\* own signal handlers while the selected one starts or stops sampling.
Free == exit # "done" /\ (conf.sync => Calm)

\* The hardware takes a sample in a context that is being sampled.
Sample(c) ==
  /\ c \in running /\ Free /\ made < MaxRecords
  /\ made' = made + 1
  /\ hw' = [hw EXCEPT ![c] = @ \cup {made + 1}]
  /\ UNCHANGED <<conf, infos, running, rest, buf, procs, copy, started, rpc,
                 exit, due>>

\* A kernel ends and its samples become visible.
KernelEnds(c) ==
  /\ hw[c] # {} /\ c \in running /\ Free
  /\ IF conf.serialized
     THEN Flush(c, hw[c])
     ELSE /\ rest' = [rest EXCEPT ![c] = @ \cup hw[c]]
          /\ hw' = [hw EXCEPT ![c] = {}]
          /\ UNCHANGED buf
  /\ UNCHANGED <<conf, infos, running, made, procs, copy, started, rpc, exit,
                 due>>

-----------------------------------------------------------------------------
(* Steps that every collecting loop is made of.                            *)

Go(p, place) == at' = [at EXCEPT ![p] = place]

At(p, st) == step' = [step EXCEPT ![p] = st]

\* GetPcSamplingDataFromCupti: the slot is claimed and filled with what there
\* is, which may be nothing ...
Fetch(p) ==
  /\ step[p] = "get"
  /\ At(p, "push")
  /\ held' = [held EXCEPT ![p] = Batch(ctx[p])]
  /\ buf' = [buf EXCEPT ![ctx[p]] = @ \ Batch(ctx[p])]
  /\ rest' = [rest EXCEPT ![ctx[p]] = @ \ Batch(ctx[p])]
  /\ UNCHANGED <<conf, infos, running, made, hw, at, ctx, left, copy, started,
                 rpc, exit, due>>

\* The slot of p, as it is queued.
Slot(p) == [ctx |-> ctx[p], slot |-> held[p], conf |-> FALSE]

\* Fault: what is fetched is queued only while sampling is on.
PushIfStarted(p) ==
  /\ step[p] = "push"
  /\ queue' = IF started THEN Append(queue, Slot(p)) ELSE queue
  /\ held' = [held EXCEPT ![p] = {}]
  /\ At(p, "test")
  /\ IF at[p] = "one" THEN Go(p, "idle") ELSE UNCHANGED at
  /\ UNCHANGED <<conf, infos, cupti, ctx, left, copied, cpc, started, rpc,
                 exit, due>>

\* ... and queued.
Push(p) ==
  /\ step[p] = "push"
  /\ queue' = Append(queue, Slot(p))
  /\ held' = [held EXCEPT ![p] = {}]
  /\ At(p, "test")
  /\ IF at[p] = "one" THEN Go(p, "idle") ELSE UNCHANGED at
  /\ UNCHANGED <<conf, infos, cupti, ctx, left, copied, cpc, started, rpc,
                 exit, due>>

\* Fault: CollectPCSamples looks at remainingNumPcs only.
GoesOnRemaining(p) ==
  \/ at[p] = "total" /\ buf[ctx[p]] # {}
  \/ at[p] \in {"remaining", "any"} /\ rest[ctx[p]] # {}

\* Whether the loop p is in goes on: while totalNumPcs > 0, then while
\* remainingNumPcs > 0; or while either is.
GoesOn(p) ==
  \/ at[p] \in {"total", "any"} /\ buf[ctx[p]] # {}
  \/ at[p] \in {"remaining", "any"} /\ rest[ctx[p]] # {}

\* The loop's condition is looked at; what CUPTI has left is looked at again
\* by the GetData that follows, and another thread may have come between.
Loops(p) ==
  /\ at[p] \in {"total", "remaining", "any"} /\ step[p] = "test"
  /\ IF GoesOn(p)
     THEN At(p, "get") /\ UNCHANGED at
     ELSE /\ Go(p, CASE at[p] = "total" -> "remaining"
                     [] at[p] = "remaining" -> "idle"
                     [] at[p] = "any" -> "late")
          /\ UNCHANGED step
  /\ UNCHANGED <<conf, infos, cupti, ctx, held, left, copy, started, rpc,
                 exit, due>>

\* The configuration buffer of p's context is queued if it holds records.
QueueConf(p) ==
  queue' = IF buf[ctx[p]] = {} THEN queue
           ELSE Append(queue, [ctx |-> ctx[p], slot |-> {}, conf |-> TRUE])

\* The records a queue entry holds now, and those in the queue.
Contents(e) == IF e.conf THEN buf[e.ctx] ELSE e.slot
InQueue(r) == \E i \in DOMAIN queue : r \in Contents(queue[i])

-----------------------------------------------------------------------------
(* CallbackHandler, on a thread of the program.                            *)

\* Thread t enters a callback for context c.
Enter(t, c, place) ==
  /\ at[t] = "idle" /\ exit # "done"
  /\ ctx' = [ctx EXCEPT ![t] = c]
  /\ Go(t, place)
  /\ UNCHANGED <<conf, running, made, held, left, copied, cpc, started, rpc,
                 exit, due>>

\* Contexts a thread is creating or destroying, and those the program can use.
Changing ==
  {ctx[t] : t \in {u \in Threads : at[u] \in {"configure", "allocate", "any",
                     "late", "queueLate", "erase"}}}
Usable == infoMap \ Changing

\* CONTEXT_CREATED: a zeroed ContextInfo is inserted under g_contextInfoMutex ...
ContextCreated(t, c) ==
  /\ Calm /\ info[c] = "none"
  /\ info' = [info EXCEPT ![c] = "zeroed"]
  /\ infoMap' = infoMap \cup {c}
  /\ Enter(t, c, "configure")
  /\ UNCHANGED <<allocated, step, hw, rest, buf, queue>>

\* ... the context is enabled and configured: start/stop control is off when
\* there is no RPC, so that sampling begins at once ...
ConfigureActivity(t) ==
  /\ at[t] = "configure"
  /\ info' = [info EXCEPT ![ctx[t]] = "ready"]
  /\ running' = IF conf.noRPC THEN running \cup {ctx[t]} ELSE running
  /\ Go(t, "allocate")
  /\ UNCHANGED <<conf, infoMap, allocated, made, hw, rest, buf, ctx, step,
                 held, left, copy, started, rpc, exit, due>>

\* ... and the first one allocates the ring, under g_circularBufferMutex.
PreallocateBuffersForRecords(t) ==
  /\ at[t] = "allocate"
  /\ allocated' = TRUE
  /\ Go(t, "idle")
  /\ UNCHANGED <<conf, infoMap, info, cupti, ctx, step, held, left, copy,
                 started, rpc, exit, due>>

\* CONTEXT_DESTROY_STARTING: what there is is collected (Loops) ...
ContextDestroyStarting(t, c) ==
  /\ Calm /\ c \in Usable
  /\ \A u \in Threads : at[u] # "idle" => ctx[u] # c
  /\ Enter(t, c, "any")
  /\ UNCHANGED <<infos, step, hw, rest, buf, queue>>

\* ... the context is disabled, which flushes late records into the
\* configuration buffer ...
DisableContext(t) ==
  /\ at[t] = "late" /\ t # Handler
  /\ buf' = [buf EXCEPT ![ctx[t]] = @ \cup hw[ctx[t]] \cup rest[ctx[t]]]
  /\ hw' = [hw EXCEPT ![ctx[t]] = {}]
  /\ rest' = [rest EXCEPT ![ctx[t]] = {}]
  /\ running' = running \ {ctx[t]}
  /\ Go(t, "queueLate")
  /\ UNCHANGED <<conf, infos, made, ctx, step, held, left, copy, started, rpc,
                 exit, due>>

\* ... which is queued if it holds any ...
QueueLate(t) ==
  /\ at[t] = "queueLate"
  /\ QueueConf(t)
  /\ Go(t, "erase")
  /\ UNCHANGED <<conf, infos, cupti, ctx, step, held, left, copied, cpc,
                 started, rpc, exit, due>>

\* Fault: the entry stays in the map.
EraseNothing(t) ==
  /\ at[t] = "erase"
  /\ info' = [info EXCEPT ![ctx[t]] = "toFree"]
  /\ Go(t, "idle")
  /\ UNCHANGED <<conf, infoMap, allocated, cupti, ctx, step, held, left, copy,
                 started, rpc, exit, due>>

\* ... and the entry is erased; its ContextInfo is kept to be freed at exit.
EraseContext(t) ==
  /\ at[t] = "erase"
  /\ infoMap' = infoMap \ {ctx[t]}
  /\ info' = [info EXCEPT ![ctx[t]] = "toFree"]
  /\ Go(t, "idle")
  /\ UNCHANGED <<conf, allocated, cupti, ctx, step, held, left, copy, started,
                 rpc, exit, due>>

\* MODULE_LOADED: CUPTI has flushed what it had, and everything is collected.
ModuleLoaded(t, c) ==
  /\ Calm /\ c \in Usable
  /\ Flush(c, hw[c] \cup rest[c])
  /\ Enter(t, c, "total")
  /\ UNCHANGED <<infos, step, queue>>

\* A launch returns while sampling is on: everything is collected (serialized),
\* or one slot's worth if there is that much (continuous).
LaunchReturns(t, c) ==
  /\ started /\ Free /\ c \in Usable
  /\ \/ conf.serialized /\ Enter(t, c, "total") /\ UNCHANGED step
     \/ /\ ~conf.serialized /\ Cardinality(rest[c]) >= circularbufSize
        /\ Enter(t, c, "one") /\ At(t, "get")
  /\ UNCHANGED <<infos, hw, rest, buf, queue>>

-----------------------------------------------------------------------------
(* startCUptiPCSamplingHandler and stopCUptiPCSamplingHandler, with what   *)
(* PerformGPUProfiling does around them.                                   *)

StartHandler ==
  /\ rpc = "idle" /\ ~conf.noRPC /\ exit \notin {"free", "done"}
  /\ Changing = {} /\ \A t \in Threads : at[t] \notin {"total", "remaining"}
  /\ rpc' = "starting" /\ left' = infoMap
  /\ UNCHANGED <<conf, infos, cupti, at, ctx, step, held, copy, started, exit,
                 due>>

\* cuptiPCSamplingStart for one context, with g_contextInfoMutex held.
StartContext(c) ==
  /\ rpc = "starting" /\ c \in left
  /\ running' = running \cup {c}
  /\ left' = left \ {c}
  /\ UNCHANGED <<conf, infos, made, hw, rest, buf, at, ctx, step, held, copy,
                 started, rpc, exit, due>>

SetStarted ==
  /\ rpc = "starting" /\ left = {}
  /\ started' = TRUE /\ rpc' = "spawn"
  /\ UNCHANGED <<conf, infos, cupti, procs, copy, exit, due>>

SpawnCopier ==
  /\ rpc = "spawn"
  /\ cpc' = "run" /\ rpc' = "sleep"
  /\ UNCHANGED <<conf, infos, cupti, procs, queue, copied, started, exit, due>>

\* The request's time is over; the handler collects in every context.
StopHandler ==
  /\ rpc = "sleep"
  /\ Changing = {} /\ \A t \in Threads : at[t] \notin {"total", "remaining"}
  /\ rpc' = "collect" /\ left' = infoMap
  /\ UNCHANGED <<conf, infos, cupti, at, ctx, step, held, copy, started, exit,
                 due>>

\* CollectPCSamples comes to the next context (the loop is in Loops) ...
CollectContext(c) ==
  /\ rpc \in {"collect", "collectRest"} /\ c \in left
  /\ at[Handler] = "idle"
  /\ ctx' = [ctx EXCEPT ![Handler] = c]
  /\ left' = left \ {c}
  /\ Go(Handler, "any")
  /\ UNCHANGED <<conf, infos, cupti, step, held, copy, started, rpc, exit,
                 due>>

\* ... and looks again at its configuration buffer.
LookAgain ==
  /\ at[Handler] = "late"
  /\ QueueConf(Handler)
  /\ Go(Handler, "idle")
  /\ UNCHANGED <<conf, infos, cupti, ctx, step, held, left, copied, cpc,
                 started, rpc, exit, due>>

Collected(place) == rpc = place /\ left = {} /\ at[Handler] = "idle"

StopContexts ==
  /\ Collected("collect")
  /\ rpc' = "stopping" /\ left' = infoMap
  /\ UNCHANGED <<conf, infos, cupti, at, ctx, step, held, copy, started, exit,
                 due>>

\* cuptiPCSamplingStop for one context.
StopContext(c) ==
  /\ rpc = "stopping" /\ c \in left
  /\ running' = running \ {c}
  /\ rest' = [rest EXCEPT ![c] = @ \cup hw[c]]
  /\ hw' = [hw EXCEPT ![c] = {}]
  /\ left' = left \ {c}
  /\ UNCHANGED <<conf, infos, made, buf, at, ctx, step, held, copy, started,
                 rpc, exit, due>>

\* Fault: what Stop leaves is not collected.
CollectRestNothing ==
  /\ rpc = "stopping" /\ left = {}
  /\ rpc' = "collectRest"
  /\ UNCHANGED <<conf, infos, cupti, procs, copy, started, exit, due>>

CollectRest ==
  /\ rpc = "stopping" /\ left = {}
  /\ rpc' = "collectRest" /\ left' = infoMap
  /\ UNCHANGED <<conf, infos, cupti, at, ctx, step, held, copy, started, exit,
                 due>>

ClearStarted ==
  /\ Collected("collectRest")
  /\ started' = FALSE /\ rpc' = "join"
  /\ UNCHANGED <<conf, infos, cupti, procs, copy, exit, due>>

\* The request joins the copy thread and returns.
JoinCopier ==
  /\ rpc = "join" /\ cpc = "done"
  /\ cpc' = "none" /\ rpc' = "idle"
  /\ UNCHANGED <<conf, infos, cupti, procs, queue, copied, started, exit, due>>

-----------------------------------------------------------------------------
(* RPCCopyPCSamplingData.                                                  *)

ReadStopped ==
  /\ cpc = "run" /\ ~started
  /\ cpc' = "last"
  /\ UNCHANGED <<conf, infos, cupti, procs, queue, copied, started, rpc, exit,
                 due>>

CopyFront ==
  /\ cpc \in {"run", "last"} /\ queue # <<>>
  /\ copied' = [r \in Records |->
                  IF r \in Contents(Head(queue)) THEN copied[r] + 1
                                                 ELSE copied[r]]
  /\ queue' = Tail(queue)
  /\ UNCHANGED <<conf, infos, cupti, procs, cpc, started, rpc, exit, due>>

CopierQuits ==
  /\ cpc = "last" /\ queue = <<>>
  /\ cpc' = "done"
  /\ UNCHANGED <<conf, infos, cupti, procs, queue, copied, started, rpc, exit,
                 due>>

-----------------------------------------------------------------------------
(* AtExitHandler.  The threads of the program run on meanwhile, and the    *)
(* server takes a request until it is shut down.                           *)

\* With no RPC sampling is declared over; else a running request's sampling is
\* waited for.
AtExitHandler ==
  /\ exit = "no"
  /\ exit' = "wait"
  /\ started' = (started /\ ~conf.noRPC)
  /\ due' = {r \in 1 .. made : copied[r] > 0 \/ InQueue(r)}
  /\ UNCHANGED <<conf, infos, cupti, procs, copy, rpc>>

\* Sampling is disabled in every context.  The last look at g_pcSamplingStarted
\* and the loop that follows are one step: no request starts and stops between.
DisableAll ==
  /\ exit = "wait" /\ ~started
  /\ exit' = "join"
  /\ running' = {}
  /\ buf' = [c \in Contexts |-> IF c \in infoMap
                                THEN buf[c] \cup hw[c] \cup rest[c]
                                ELSE buf[c]]
  /\ hw' = [c \in Contexts |-> IF c \in infoMap THEN {} ELSE hw[c]]
  /\ rest' = [c \in Contexts |-> IF c \in infoMap THEN {} ELSE rest[c]]
  /\ UNCHANGED <<conf, infos, made, procs, copy, started, rpc, due>>

\* Fault: the dump is written, and memory freed, while the copy thread runs.
FinishUnjoined ==
  /\ exit = "join"
  /\ exit' = "free" /\ cpc' = IF conf.noRPC THEN "none" ELSE cpc
  /\ UNCHANGED <<conf, infos, cupti, procs, queue, copied, started, rpc, due>>

\* The copy thread is joined and the dump written (no RPC), or the server shut
\* down, which waits for the request to return.
Finish ==
  /\ exit = "join"
  /\ IF conf.noRPC THEN cpc = "done" ELSE rpc = "idle"
  /\ exit' = "free" /\ cpc' = "none"
  /\ UNCHANGED <<conf, infos, cupti, procs, queue, copied, started, rpc, due>>

\* The ring and every ContextInfo, in the map or erased from it, are freed.
FreePreallocatedMemory ==
  /\ exit = "free"
  /\ exit' = "done" /\ allocated' = FALSE
  /\ info' = [c \in Contexts |-> IF c \in infoMap \/ info[c] = "toFree"
                                 THEN "freed" ELSE info[c]]
  /\ UNCHANGED <<conf, infoMap, cupti, procs, copy, started, rpc, due>>

Ended == exit = "done" /\ UNCHANGED vars

-----------------------------------------------------------------------------
Callback(t) ==
  \/ \E c \in Contexts : \/ ContextCreated(t, c) \/ ContextDestroyStarting(t, c)
                         \/ ModuleLoaded(t, c) \/ LaunchReturns(t, c)
  \/ Free /\
       \/ ConfigureActivity(t) \/ PreallocateBuffersForRecords(t)
       \/ DisableContext(t) \/ QueueLate(t) \/ EraseContext(t)
       \/ Fetch(t) \/ Loops(t) \/ Push(t)

Request ==
  \/ StartHandler \/ SetStarted \/ SpawnCopier \/ StopHandler
  \/ \E c \in Contexts : StartContext(c) \/ CollectContext(c) \/ StopContext(c)
  \/ Loops(Handler) \/ Fetch(Handler) \/ Push(Handler) \/ LookAgain
  \/ StopContexts \/ CollectRest \/ ClearStarted \/ JoinCopier

Copier == ReadStopped \/ CopyFront \/ CopierQuits

Exit == AtExitHandler \/ DisableAll \/ Finish \/ FreePreallocatedMemory

Next ==
  \/ \E c \in Contexts : Sample(c) \/ KernelEnds(c)
  \/ \E t \in Threads : Callback(t)
  \/ Request \/ Copier \/ Exit \/ Ended

Spec == Init /\ [][Next]_vars

-----------------------------------------------------------------------------
(* Properties.                                                             *)

Entries == [ctx : Contexts, slot : SUBSET Records, conf : BOOLEAN]

\* Type correctness of every variable; what is to be freed at the end has left
\* the map, so nothing is freed twice.
TypeOK ==
  /\ \A c \in infoMap : info[c] \notin {"none", "toFree"}
  /\ conf \in Settings
  /\ infoMap \subseteq Contexts /\ running \subseteq Contexts
  /\ info \in [Contexts -> {"none", "zeroed", "ready", "toFree", "freed"}]
  /\ allocated \in BOOLEAN /\ started \in BOOLEAN
  /\ made \in 0 .. MaxRecords
  /\ hw \in [Contexts -> SUBSET Records] /\ rest \in [Contexts -> SUBSET Records]
  /\ buf \in [Contexts -> SUBSET Records]
  /\ at \in [Procs -> {"idle", "total", "remaining", "any", "late", "one",
                      "configure", "allocate", "queueLate", "erase"}]
  /\ ctx \in [Procs -> Contexts] /\ held \in [Procs -> SUBSET Records]
  /\ step \in [Procs -> {"test", "get", "push"}]
  /\ left \subseteq Contexts
  /\ \A i \in DOMAIN queue : queue[i] \in Entries
  /\ copied \in [Records -> Nat]
  /\ cpc \in {"none", "run", "last", "done"}
  /\ rpc \in {"idle", "starting", "spawn", "sleep", "collect", "stopping",
              "collectRest", "join"}
  /\ exit \in {"no", "wait", "join", "free", "done"}
  /\ due \subseteq Records

InCupti(r) == \E c \in Contexts : r \in hw[c] \cup rest[c] \cup buf[c]
InHand(r) == \E p \in Procs : r \in held[p]

\* No sample is lost on its way: until it is in a reply it is in the hardware,
\* in a buffer of CUPTI, in the slot a thread is filling, or in the queue,
\* whichever threads collect in a context at once.
NothingLost ==
  \A r \in 1 .. made : copied[r] > 0 \/ InCupti(r) \/ InQueue(r) \/ InHand(r)

\* No sample is reported twice, although a configuration buffer that is queued
\* as a whole is also what GetData empties (CollectPCSamples).
NothingTwice == \A r \in Records : copied[r] <= 1

\* When a request returns, CUPTI has nothing left of what was sampled during
\* it, in any context that existed meanwhile: every record was copied, or a
\* thread that collects for itself has it or has queued it since.
StopLeavesNothing ==
  rpc = "idle" /\ exit = "no" /\ ~conf.noRPC =>
    \A r \in 1 .. made : copied[r] = 1 \/ InQueue(r) \/ InHand(r)

\* Without RPC the dump holds everything that was queued when the process began
\* to exit: the copy thread looks at g_pcSamplingStarted before its last drain,
\* and the dump is written after that drain, whatever the threads of the program
\* queue meanwhile.
DumpHasAllDue ==
  exit = "free" /\ conf.noRPC => \A r \in due : copied[r] > 0

\* The README (NO_RPC): the application is profiled for its whole life-cycle and
\* the results are saved.  So what a callback has collected is in the dump.
DumpHasAllCollected ==
  exit = "free" /\ conf.noRPC =>
    \A r \in 1 .. made : copied[r] > 0 \/ InCupti(r)

\* The ring is there when a slot is claimed; and what the profiler's own threads
\* work on, the stop handler's context and the contexts of the queue the copy
\* thread drains, has not been freed, although contexts are destroyed while their
\* buffers are queued and the process exits while a request runs.
MemoryIsAlive ==
  /\ exit # "done" => \A p \in Procs : step[p] # "test" => allocated
  /\ at[Handler] # "idle" => info[ctx[Handler]] # "freed"
  /\ cpc # "none" => \A i \in DOMAIN queue : info[queue[i].ctx] # "freed"

\* The header of gpu_profiler.cpp (36-43): at exit the configuration buffer of
\* each context is pushed into the queue, as CUPTI flushes all remaining
\* records into it.  So no record is left there when the memory is freed.
ExitQueuesRest ==
  exit = "done" => \A r \in 1 .. made : copied[r] = 1 \/ InQueue(r)
=============================================================================
