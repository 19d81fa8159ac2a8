--------------------------- MODULE SignalProfiler ---------------------------
(***************************************************************************)
(* The deprecated profiler without RPC: SIGUSR2 starts one profiling of a  *)
(* fixed duration in a thread of its own, or with NO_RPC the process is    *)
(* profiled from its start to its exit.  A copy thread moves queued        *)
(* batches to a vector, and what the vector points to is dumped.           *)
(*                                                                         *)
(* The copy thread frees a batch's slot, and the vector keeps a pointer to *)
(* it: a dump shows what is in the slot by then.  A batch is a number that *)
(* grows.  The ids of call paths are looked up under the address of a      *)
(* local copy and are 0 in every dump, so batches have none here.          *)
(*                                                                         *)
(* The buffer that a context was configured with is queued too, without a  *)
(* slot: Conf stands for any of them, and what is in it is not looked at.  *)
(***************************************************************************)
EXTENDS Naturals, Sequences

CONSTANTS
  circularbufCount,
  MaxBatches,      \* bound: slots taken, and batches queued, in a run
  MaxSignals       \* bound: signals in a run

ASSUME SignalAssumption == circularbufCount \in Nat \ {0}

VARIABLES
  mode,      \* noRPC, started (g_pcSamplingStarted), alive (the process)
  prof,      \* the profiling thread: its place, "none" before there is one
  copier,    \* the copy thread: its place, "none" before there is one
  exit,      \* the place of AtExitHandler
  ring,      \* g_put, g_get, the tracker, and the batch in each slot
  taken,     \* the slot that the launching thread and the profiling thread
             \* collect into, for which batch, and how far they are with it
  queue,     \* slots, and Conf, in g_pcSampDataQueue
  vector,    \* slots, and Conf, in g_pcSampleVector
  batch,     \* batches begun: slots taken
  signals,   \* signals sent
  queued,    \* history: batches in the order they were queued
  owed,      \* history: length of queued when started last fell
  dumps      \* history: each dump, and owed then

sigVars == <<mode, prof, copier, exit, ring, taken, queue, vector, batch,
             signals, queued, owed, dumps>>

Slots == 0 .. circularbufCount - 1
Conf == circularbufCount
Places == 0 .. circularbufCount
Free == [slot |-> 0, at |-> "out", batch |-> 0]

\* InitializeInjection: with NO_RPC profiling and its copy thread begin at once.
SignalInit ==
  /\ \E noRPC \in BOOLEAN :
       /\ mode = [noRPC |-> noRPC, started |-> noRPC, alive |-> TRUE]
       /\ copier = IF noRPC THEN "look" ELSE "none"
  /\ prof = "none" /\ exit = "none"
  /\ ring = [put |-> 0, get |-> 0, used |-> [s \in Slots |-> FALSE],
             data |-> [s \in Places |-> 0]]
  /\ taken = [a \in {"app", "prof"} |-> Free]
  /\ queue = <<>> /\ vector = <<>> /\ queued = <<>> /\ dumps = <<>>
  /\ batch = 0 /\ signals = 0 /\ owed = 0

-----------------------------------------------------------------------------
(* GetPcSamplingDataFromCupti, by the launching or the profiling thread.   *)

\* The callbacks, of which only a launch's looks at g_pcSamplingStarted (a module's
\* and a context's end do not); CollectPCSamples, round by round.
MayCollect(a) == a = "app" \/ prof = "collect"

\* A slot is waited for, and taken.
TakeSlot(a) ==
  /\ taken[a].at = "out" /\ MayCollect(a)
  /\ ~ring.used[ring.put] /\ batch < MaxBatches
  /\ batch' = batch + 1
  /\ taken' = [taken EXCEPT ![a] = [slot |-> ring.put, at |-> "fill",
                                    batch |-> batch + 1]]
  /\ ring' = [ring EXCEPT !.used[ring.put] = TRUE,
                          !.put = (@ + 1) % circularbufCount]
  /\ UNCHANGED <<mode, prof, copier, exit, queue, vector, signals, queued,
                 owed, dumps>>

FillSlot(a) ==
  /\ taken[a].at = "fill"
  /\ ring' = [ring EXCEPT !.data[taken[a].slot] = taken[a].batch]
  /\ taken' = [taken EXCEPT ![a].at = "push"]
  /\ UNCHANGED <<mode, prof, copier, exit, queue, vector, batch, signals,
                 queued, owed, dumps>>

PushSlot(a) ==
  /\ taken[a].at = "push"
  /\ queue' = Append(queue, taken[a].slot)
  /\ queued' = Append(queued, ring.data[taken[a].slot])
  /\ taken' = [taken EXCEPT ![a] = Free]
  /\ UNCHANGED <<mode, prof, copier, exit, ring, vector, batch, signals, owed,
                 dumps>>

\* What CUPTI left in a context's buffer is queued where it is.
PushConf(a) ==
  /\ taken[a].at = "out" /\ MayCollect(a) /\ Len(queued) < MaxBatches
  /\ queue' = Append(queue, Conf)
  /\ queued' = Append(queued, ring.data[Conf])
  /\ UNCHANGED <<mode, prof, copier, exit, ring, taken, vector, batch, signals,
                 owed, dumps>>

-----------------------------------------------------------------------------
(* CopyPCSamplingData.                                                     *)

\* It looks at g_pcSamplingStarted before it drains the queue.
Look ==
  /\ copier = "look"
  /\ copier' = IF mode.started THEN "drain" ELSE "last"
  /\ UNCHANGED <<mode, prof, exit, ring, taken, queue, vector, batch, signals,
                 queued, owed, dumps>>

\* For each batch the next slot of the ring is freed, whatever was queued.
Drained ==
  LET n == Len(queue)
      freed == {(ring.get + k) % circularbufCount : k \in 0 .. n - 1}
  IN  [ring EXCEPT !.get = (@ + n) % circularbufCount,
                   !.used = [s \in Slots |-> @[s] /\ s \notin freed]]

\* Fault: the drain does not wait for what is queued before it ends.
DrainLess ==
  /\ copier \in {"drain", "last"}
  /\ IF copier = "last" THEN UNCHANGED <<vector, queue, ring>>
     ELSE vector' = vector \o queue /\ queue' = <<>> /\ ring' = Drained
  /\ copier' = IF copier = "last" THEN "ended" ELSE "look"
  /\ UNCHANGED <<mode, prof, exit, taken, batch, signals, queued, owed, dumps>>

Drain ==
  /\ copier \in {"drain", "last"}
  /\ vector' = vector \o queue
  /\ queue' = <<>>
  /\ ring' = Drained
  /\ copier' = IF copier = "last" THEN "ended" ELSE "look"
  /\ UNCHANGED <<mode, prof, exit, taken, batch, signals, queued, owed, dumps>>

-----------------------------------------------------------------------------
(* HandleProfilingSignal and DoProfiling.                                  *)

\* The handle stays joinable after the thread has ended: a later signal is
\* answered with nothing.
Signal ==
  /\ signals < MaxSignals /\ exit = "none"
  /\ signals' = signals + 1
  /\ prof' = IF prof = "none" THEN "start" ELSE prof
  /\ UNCHANGED <<mode, copier, exit, ring, taken, queue, vector, batch, queued,
                 owed, dumps>>

\* Assigning to a handle whose thread still runs ends the process.
StartSampling ==
  /\ prof = "start"
  /\ mode' = [mode EXCEPT !.started = TRUE, !.alive = copier = "none"]
  /\ copier' = IF copier = "none" THEN "look" ELSE copier
  /\ prof' = "collect"
  /\ UNCHANGED <<exit, ring, taken, queue, vector, batch, signals, queued,
                 owed, dumps>>

\* After the sleep, and as many rounds of collecting as CUPTI had records for.
StopSampling ==
  /\ prof = "collect" /\ taken["prof"].at = "out"
  /\ mode' = [mode EXCEPT !.started = FALSE]
  /\ owed' = Len(queued)
  /\ prof' = "join"
  /\ UNCHANGED <<copier, exit, ring, taken, queue, vector, batch, signals,
                 queued, dumps>>

DumpPCSamples ==
  dumps' = Append(dumps, [owed |-> owed, batches |->
                            [i \in DOMAIN vector |-> ring.data[vector[i]]]])

JoinAndDump ==
  /\ prof = "join" /\ copier = "ended"
  /\ DumpPCSamples
  /\ prof' = "done"
  /\ UNCHANGED <<mode, copier, exit, ring, taken, queue, vector, batch,
                 signals, queued, owed>>

-----------------------------------------------------------------------------
(* AtExitHandler.                                                          *)

ExitStops ==
  /\ exit = "none"
  /\ exit' = "wait"
  /\ IF mode.noRPC THEN /\ mode' = [mode EXCEPT !.started = FALSE]
                        /\ owed' = Len(queued)
                   ELSE UNCHANGED <<mode, owed>>
  /\ UNCHANGED <<prof, copier, ring, taken, queue, vector, batch, signals,
                 queued, dumps>>

\* A profiling that goes on is waited for, then its thread is joined.
ExitWaits ==
  /\ exit = "wait" /\ ~mode.started
  /\ exit' = "join"
  /\ UNCHANGED <<mode, prof, copier, ring, taken, queue, vector, batch,
                 signals, queued, owed, dumps>>

ExitDumps ==
  /\ exit = "join" /\ prof \in {"none", "done"}
  /\ mode.noRPC => copier = "ended"
  /\ exit' = "done"
  /\ IF mode.noRPC THEN DumpPCSamples ELSE UNCHANGED dumps
  /\ UNCHANGED <<mode, prof, copier, ring, taken, queue, vector, batch,
                 signals, queued, owed>>

Collector ==
  \E a \in {"app", "prof"} :
    TakeSlot(a) \/ FillSlot(a) \/ PushSlot(a) \/ PushConf(a)
Profiling == StartSampling \/ StopSampling \/ JoinAndDump
Exit == ExitStops \/ ExitWaits \/ ExitDumps

SignalNext ==
  /\ mode.alive /\ exit # "done"
  /\ Collector \/ Look \/ Drain \/ Signal \/ Profiling \/ Exit

-----------------------------------------------------------------------------
\* A dump misses nothing that was queued before sampling ended, and shows every
\* batch as it was collected as long as no more were begun than there are slots:
\* the next one overwrites a slot that the vector still points to.
DumpMissesOnlyOverrun ==
  \A k \in DOMAIN dumps :
    LET d == dumps[k].batches IN
    /\ Len(d) >= dumps[k].owed
    /\ batch <= circularbufCount => \A i \in DOMAIN d : d[i] = queued[i]
=============================================================================
