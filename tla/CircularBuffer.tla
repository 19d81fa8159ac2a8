--------------------------- MODULE CircularBuffer ---------------------------
(***************************************************************************)
(* The sample pipeline of gpu_profiler.cpp: threads that collect PC        *)
(* samples claim a slot of g_circularBuffer, let CUPTI fill it, and queue  *)
(* it; the reply-copy thread of the running request copies the queued      *)
(* buffers into the reply and frees their slots.                           *)
(*                                                                         *)
(* Slots are claimed under g_circularBufferMutex and queued later under    *)
(* g_pcSampDataQueueMutex; the copy thread frees slot g_get, not the slot  *)
(* of the buffer it copied.  A buffer that CUPTI filled while a context    *)
(* was being torn down is queued without a slot (ConfPush), and a slot's   *)
(* bit in the tracker shares its word with others, which a store rewrites. *)
(* Each of the three can spoil the ring; mishaps says which have happened. *)
(***************************************************************************)
EXTENDS Integers, Sequences, FiniteSets

CONSTANTS
  Collectors,        \* threads (or signal handlers) that collect samples
  circularbufCount,  \* ProfilerConf::circularbufCount
  Contexts,          \* contexts whose late records CUPTI leaves in their
                     \* configuration buffer; {} when it never does
  WordBits,          \* bits in a word of the std::vector<bool> tracker: a
                     \* store to one of them rewrites the whole word
  MaxBatches,        \* bound: batches of samples CUPTI delivers in a run
  MaxPcId            \* bound: ids of CCT nodes that become the active one

ASSUME CollectorsAssumption == IsFiniteSet(Collectors)
ASSUME CountAssumption == circularbufCount \in Nat \ {0}
ASSUME WordAssumption == WordBits \in Nat \ {0}
ASSUME BoundAssumption == MaxBatches \in Nat /\ MaxPcId \in Nat

Slots == 0 .. circularbufCount - 1

ASSUME ContextsAssumption == Contexts \cap Slots = {}

Buffers == Slots \cup Contexts    \* ring slots and configuration buffers

Batches == 0 .. MaxBatches        \* 0: the buffer was never filled
PcIds == 0 .. MaxPcId             \* 0: no call path

VARIABLES
  \* the ring
  put, get,          \* g_put, g_get
  tracker,           \* g_bufferEmptyTrackerArray: TRUE used, FALSE free
  fasterThanStore,   \* g_buffersGetUtilisedFasterThanStore
  \* the buffers
  data,              \* batch in each buffer
  parent,            \* g_GPUPCSamplesParentCPUPCIDs of its records
  batches,           \* batches CUPTI has delivered so far
  live,              \* contexts that have not been destroyed
  activePC,          \* g_activeCPUPCID
  \* the collecting threads
  pc, slot,          \* where each one is, and the slot it has claimed
  word,              \* the tracker word it has loaded
  \* the queue, the copy thread and the request
  queue,             \* g_pcSampDataQueue
  cpc, cword,        \* where the copy thread is; the tracker word it loaded
  toBreak,           \* to_break of the copy thread
  reply,             \* <<batch, parent>> in the replies, all requests in a row
  started,           \* g_pcSamplingStarted
  rpc,               \* where PerformGPUProfiling is
  owed,              \* history: how many buffers at the head of the queue
                     \* the running request is due (see Enqueue)
  mishaps            \* history: what has gone wrong so far (see Mishaps)

ringVars == <<put, get, tracker, fasterThanStore>>
bufVars  == <<data, parent, batches, live>>
colVars  == <<pc, slot, word>>
copyVars == <<cpc, cword, toBreak, reply>>
vars == <<ringVars, bufVars, activePC, colVars, queue, copyVars, started,
          rpc, owed, mishaps>>

\* "overtaken": a slot was queued before one that was claimed earlier.
\* "noSlot": a buffer that is no slot of the ring was queued.
\* "lostBit": a store to one bit of the tracker undid a store to another.
Mishaps == {"overtaken", "noSlot", "lostBit"}

Tracking == [Slots -> BOOLEAN]

Init ==
  /\ put = 0 /\ get = 0
  /\ tracker = [i \in Slots |-> FALSE]
  /\ fasterThanStore = FALSE
  /\ data = [b \in Buffers |-> 0]
  /\ parent = [b \in Buffers |-> 0]
  /\ batches = 0 /\ live = Contexts
  /\ activePC = 0
  /\ pc = [c \in Collectors |-> "idle"]
  /\ slot = [c \in Collectors |-> 0]
  /\ word = [c \in Collectors |-> tracker]
  /\ queue = <<>>
  /\ cpc = "none" /\ cword = tracker /\ toBreak = FALSE /\ reply = <<>>
  /\ started = FALSE /\ rpc = "idle"
  /\ owed = 0 /\ mishaps = {}

-----------------------------------------------------------------------------
(* Helpers.                                                                *)

\* Fault: the ring does not wrap.
NextSlotNoWrap(i) == i + 1

NextSlot(i) == (i + 1) % circularbufCount

\* The tracker after a thread that had loaded the bits w stores b for slot i:
\* the rest of the word slot i is in becomes what was loaded.
StoreBit(w, i, b) ==
  [j \in Slots |-> IF j = i THEN b
                   ELSE IF j \div WordBits = i \div WordBits THEN w[j]
                   ELSE tracker[j]]

\* That store keeps every other bit as it is now.
KeepsOthers(w, i, b) == StoreBit(w, i, b) = [tracker EXCEPT ![i] = b]

\* How far slot i is from slot g, and from g_get, going round the ring.
Distance(g, i) == IF i >= g THEN i - g ELSE i - g + circularbufCount
Ahead(i) == Distance(get, i)

Note(m, happens) == mishaps' = IF happens THEN mishaps \cup {m} ELSE mishaps

At(place) == {c \in Collectors : pc[c] = place}

\* Threads CUPTI still owes a batch, which the bound has to leave room for.
Due == {c \in Collectors : pc[c] \in {"spin", "claim", "fill"}}

\* A claimed slot that is not in the queue yet.
InFlight == {c \in Collectors : pc[c] \in {"fill", "push"}}

\* Somebody else's slot was claimed before c's and is not queued yet.
Overtakes(c) == \E d \in InFlight : Ahead(slot[d]) < Ahead(slot[c])

\* g_pcSampDataQueueMutex is free: the only holder that does more than one
\* step under it is the copy thread.
QueueFree == cpc \notin {"drain", "clear"}

\* A buffer joins the queue.  What joins while the request is running is owed
\* to it, with everything ahead of it.
Enqueue(b) ==
  /\ queue' = Append(queue, b)
  /\ owed' = IF started THEN Len(queue) + 1 ELSE owed

-----------------------------------------------------------------------------
(* GetPcSamplingDataFromCupti, by thread c.                                *)

\* The call, and g_circularBufferMutex.lock(); its holder is the one thread
\* at "spin" or "claim".
Lock(c) ==
  /\ pc[c] = "idle"
  /\ At("spin") \cup At("claim") = {}
  /\ batches + Cardinality(Due) < MaxBatches
  /\ pc' = [pc EXCEPT ![c] = "spin"]
  /\ UNCHANGED <<ringVars, bufVars, activePC, slot, word, queue, copyVars,
                 started, rpc, owed, mishaps>>

\* while (g_bufferEmptyTrackerArray[g_put]) ...
Spin(c) ==
  /\ pc[c] = "spin"
  /\ tracker[put]
  /\ fasterThanStore' = TRUE
  /\ UNCHANGED <<put, get, tracker, bufVars, activePC, colVars, queue,
                 copyVars, started, rpc, owed, mishaps>>

\* Fault: the ring is not waited for.
LeaveSpinFull(c) ==
  /\ pc[c] = "spin"
  /\ word' = [word EXCEPT ![c] = tracker]
  /\ pc' = [pc EXCEPT ![c] = "claim"]
  /\ UNCHANGED <<ringVars, bufVars, activePC, slot, queue, copyVars, started,
                 rpc, owed, mishaps>>

\* The loop ends.  The word the store below will rewrite is loaded with the
\* bit that ended it: while the mutex is held nothing sets that bit again.
LeaveSpin(c) ==
  /\ pc[c] = "spin"
  /\ ~tracker[put]
  /\ word' = [word EXCEPT ![c] = tracker]
  /\ pc' = [pc EXCEPT ![c] = "claim"]
  /\ UNCHANGED <<ringVars, bufVars, activePC, slot, queue, copyVars, started,
                 rpc, owed, mishaps>>

\* g_bufferEmptyTrackerArray[g_put] = true, g_put advances, unlock.
Claim(c) ==
  /\ pc[c] = "claim"
  /\ tracker' = StoreBit(word[c], put, TRUE)
  /\ Note("lostBit", ~KeepsOthers(word[c], put, TRUE))
  /\ slot' = [slot EXCEPT ![c] = put]
  /\ put' = NextSlot(put)
  /\ pc' = [pc EXCEPT ![c] = "fill"]
  /\ UNCHANGED <<get, fasterThanStore, bufVars, activePC, word, queue,
                 copyVars, started, rpc, owed>>

\* cuptiPCSamplingGetData writes the next batch, holding no lock.
Fill(c) ==
  /\ pc[c] = "fill"
  /\ batches' = batches + 1
  /\ data' = [data EXCEPT ![slot[c]] = batches + 1]
  /\ pc' = [pc EXCEPT ![c] = "push"]
  /\ UNCHANGED <<ringVars, parent, live, activePC, slot, word, queue, copyVars,
                 started, rpc, owed, mishaps>>

\* push and StorePCSamplesParents, in one critical section of the queue mutex.
Push(c) ==
  /\ pc[c] = "push"
  /\ QueueFree
  /\ Enqueue(slot[c])
  /\ Note("overtaken", Overtakes(c))
  /\ parent' = [parent EXCEPT ![slot[c]] = activePC]
  /\ pc' = [pc EXCEPT ![c] = "idle"]
  /\ UNCHANGED <<ringVars, data, batches, live, activePC, slot, word, copyVars,
                 started, rpc>>

\* CONTEXT_DESTROY_STARTING after cuptiPCSamplingDisable left late records in
\* the configuration buffer of context x: queued, without slot and parents.
ConfPush(c, x) ==
  /\ pc[c] = "idle"
  /\ x \in live
  /\ batches + Cardinality(Due) < MaxBatches
  /\ QueueFree
  /\ live' = live \ {x}
  /\ batches' = batches + 1
  /\ data' = [data EXCEPT ![x] = batches + 1]
  /\ Enqueue(x)
  /\ Note("noSlot", TRUE)
  /\ UNCHANGED <<ringVars, parent, activePC, colVars, copyVars, started, rpc>>

\* DoBackTrace, on any launching thread, makes node p the active one.
SetActive(p) ==
  /\ p # activePC
  /\ activePC' = p
  /\ UNCHANGED <<ringVars, bufVars, colVars, queue, copyVars, started, rpc,
                 owed, mishaps>>

-----------------------------------------------------------------------------
(* RPCCopyPCSamplingData, the copy thread.                                 *)

\* if (!g_pcSamplingStarted) to_break = true
ReadStarted ==
  /\ cpc = "check"
  /\ toBreak' = (toBreak \/ ~started)
  /\ cpc' = "lock"
  /\ UNCHANGED <<ringVars, bufVars, activePC, colVars, queue, cword, reply,
                 started, rpc, owed, mishaps>>

\* Fault: the copy thread quits without draining.
LockQueueOrQuit ==
  /\ cpc = "lock"
  /\ cpc' = IF toBreak THEN "done" ELSE "drain"
  /\ UNCHANGED <<ringVars, bufVars, activePC, colVars, queue, cword, toBreak,
                 reply, started, rpc, owed, mishaps>>

\* g_pcSampDataQueueMutex.lock()
LockQueue ==
  /\ cpc = "lock"
  /\ cpc' = "drain"
  /\ UNCHANGED <<ringVars, bufVars, activePC, colVars, queue, cword, toBreak,
                 reply, started, rpc, owed, mishaps>>

\* The front buffer goes into the reply and leaves the queue; the tracker word
\* is loaded.
CopyFront ==
  /\ cpc = "drain"
  /\ queue # <<>>
  /\ reply' = Append(reply, <<data[Head(queue)], parent[Head(queue)]>>)
  /\ queue' = Tail(queue)
  /\ owed' = IF owed > 0 THEN owed - 1 ELSE 0
  /\ cword' = tracker
  /\ cpc' = "clear"
  /\ UNCHANGED <<ringVars, bufVars, activePC, colVars, toBreak, started, rpc,
                 mishaps>>

\* Fault: the slot is not marked free.
FreeSlotUnmarked ==
  /\ cpc = "clear"
  /\ get' = NextSlot(get)
  /\ cpc' = "drain"
  /\ UNCHANGED <<put, tracker, fasterThanStore, bufVars, activePC, colVars,
                 queue, cword, toBreak, reply, started, rpc, owed, mishaps>>

\* g_bufferEmptyTrackerArray[g_get] = false, g_get advances.
FreeSlot ==
  /\ cpc = "clear"
  /\ tracker' = StoreBit(cword, get, FALSE)
  /\ Note("lostBit", ~KeepsOthers(cword, get, FALSE))
  /\ get' = NextSlot(get)
  /\ cpc' = "drain"
  /\ UNCHANGED <<put, fasterThanStore, bufVars, activePC, colVars, queue,
                 cword, toBreak, reply, started, rpc, owed>>

\* Fault: to_break is never looked at.
EndDrainGoOn ==
  /\ cpc = "drain"
  /\ queue = <<>>
  /\ cpc' = "check"
  /\ UNCHANGED <<ringVars, bufVars, activePC, colVars, queue, cword, toBreak,
                 reply, started, rpc, owed, mishaps>>

\* The queue is empty: unlock, and break or go round again.
EndDrain ==
  /\ cpc = "drain"
  /\ queue = <<>>
  /\ cpc' = IF toBreak THEN "done" ELSE "check"
  /\ UNCHANGED <<ringVars, bufVars, activePC, colVars, queue, cword, toBreak,
                 reply, started, rpc, owed, mishaps>>

-----------------------------------------------------------------------------
(* PerformGPUProfiling, as far as the pipeline sees it (in a run without   *)
(* RPC, InitializeInjection and AtExitHandler take the same steps once).   *)

\* startCUptiPCSamplingHandler sets g_pcSamplingStarted.
StartSampling ==
  /\ rpc = "idle"
  /\ started' = TRUE
  /\ rpc' = "waiting"
  /\ UNCHANGED <<ringVars, bufVars, activePC, colVars, queue, copyVars,
                 owed, mishaps>>

SpawnCopier ==
  /\ rpc = "waiting"
  /\ cpc' = "check" /\ toBreak' = FALSE
  /\ rpc' = "sleeping"
  /\ UNCHANGED <<ringVars, bufVars, activePC, colVars, queue, cword, reply,
                 started, owed, mishaps>>

\* The last statement of stopCUptiPCSamplingHandler.
StopSampling ==
  /\ rpc = "sleeping"
  /\ started' = FALSE
  /\ rpc' = "joining"
  /\ UNCHANGED <<ringVars, bufVars, activePC, colVars, queue, copyVars,
                 owed, mishaps>>

JoinCopier ==
  /\ rpc = "joining"
  /\ cpc = "done"
  /\ cpc' = "none"
  /\ rpc' = "idle"
  /\ UNCHANGED <<ringVars, bufVars, activePC, colVars, queue, cword, toBreak,
                 reply, started, owed, mishaps>>

-----------------------------------------------------------------------------
Collect(c) == \/ Lock(c) \/ Spin(c) \/ LeaveSpin(c) \/ Claim(c)
              \/ Fill(c) \/ Push(c)
              \/ \E x \in Contexts : ConfPush(c, x)

Copier == ReadStarted \/ LockQueue \/ CopyFront \/ FreeSlot \/ EndDrain

Request == StartSampling \/ SpawnCopier \/ StopSampling \/ JoinCopier

Next == \/ \E c \in Collectors : Collect(c)
        \/ \E p \in PcIds : SetActive(p)
        \/ Copier
        \/ Request

Spec == Init /\ [][Next]_vars

\* The copy thread and the request are threads of their own and never wait on
\* a mutex for ever.  A collector waits for g_pcSampDataQueueMutex, which the
\* copy thread gives up and retakes all the time: that it gets it in the end
\* is strong fairness.  Nothing obliges a thread to collect, to stop sampling
\* or to destroy a context.
Fairness ==
  /\ WF_vars(Copier)
  /\ WF_vars(SpawnCopier \/ JoinCopier)
  /\ \A c \in Collectors : /\ WF_vars(LeaveSpin(c) \/ Claim(c) \/ Fill(c))
                           /\ SF_vars(Push(c))

FairSpec == Spec /\ Fairness

-----------------------------------------------------------------------------
(* Properties.                                                             *)

TypeOK ==
  /\ put \in Slots /\ get \in Slots
  /\ tracker \in Tracking
  /\ fasterThanStore \in BOOLEAN
  /\ data \in [Buffers -> Batches]
  /\ parent \in [Buffers -> PcIds]
  /\ batches \in Batches
  /\ live \subseteq Contexts
  /\ activePC \in PcIds
  /\ pc \in [Collectors -> {"idle", "spin", "claim", "fill", "push"}]
  /\ slot \in [Collectors -> Slots]
  /\ word \in [Collectors -> Tracking]
  /\ queue \in Seq(Buffers)
  /\ cpc \in {"none", "check", "lock", "drain", "clear", "done"}
  /\ cword \in Tracking
  /\ toBreak \in BOOLEAN
  /\ reply \in Seq(Batches \X PcIds)
  /\ started \in BOOLEAN
  /\ rpc \in {"idle", "waiting", "sleeping", "joining"}
  /\ owed \in Nat
  /\ mishaps \subseteq Mishaps

\* Slots that hold samples somebody still needs: claimed and not yet queued,
\* or queued and not yet copied.
Needed == {slot[c] : c \in InFlight}
            \cup ({queue[k] : k \in DOMAIN queue} \cap Slots)

\* The slot the copy thread is about to free is still marked used.
BeingFreed == IF cpc = "clear" THEN {get} ELSE {}

\* gpu_profiler.h: "true - used, false - free".  A slot is marked used exactly
\* while its samples are needed or it is the one being freed.
UsedIsTracked == \A i \in Slots : tracker[i] <=> i \in Needed \cup BeingFreed

\* The three mishaps are all that can spoil the tracker: as long as slots are
\* queued in the order they were claimed in, only slots are queued and no bit
\* is lost, it says what gpu_profiler.h says it says, however many threads
\* claim, fill, queue and free at the same time.
TrackerIsRight == mishaps = {} => UsedIsTracked

\* No slot is in two hands: two threads never fill the same slot, no thread
\* fills a slot that is queued, and no slot is queued twice.
Exclusive ==
  /\ \A c, d \in InFlight : slot[c] = slot[d] => c = d
  /\ \A c \in InFlight, k \in DOMAIN queue : slot[c] # queue[k]
  /\ \A k, m \in DOMAIN queue : queue[k] = queue[m] => k = m

\* And the three are all that can put a slot into two hands.
NoSlotShared == mishaps = {} => Exclusive

\* Slots claimed and not freed.
Used == Len(queue) + Cardinality(InFlight) + (IF cpc = "clear" THEN 1 ELSE 0)

\* As many pops as claims, and no bit lost: what is left of the ring's order
\* when slots overtake each other in the queue.
InStep == mishaps \subseteq {"overtaken"}

\* The used slots, as a number, are the ones from g_get on, and g_put is that
\* far from g_get.
InWindow ==
  /\ Used <= circularbufCount
  /\ \A i \in Slots : tracker[i] <=> Ahead(i) < Used
  /\ put = (get + Used) % circularbufCount

\* Whoever claims and in whatever order the slots are queued, the ring never
\* holds more than it has and its two indices agree with what is used.
Window == InStep => InWindow

\* The warning flag is raised only by a ring that is full.
SpinOnlyWhenFull ==
  [][InStep /\ fasterThanStore' /\ ~fasterThanStore
       => Used = circularbufCount]_vars

\* A request whose copy thread has finished has everything that was queued
\* before g_pcSamplingStarted was cleared.
ReplyComplete == cpc = "done" => owed = 0

Item(b) == <<data[b], parent[b]>>

Fifo == INSTANCE SampleFifo
          WITH Items <- Batches \X PcIds,
               chan <- [k \in DOMAIN queue |-> Item(queue[k])],
               out <- reply,
               kept <- mishaps = {}

\* Until a mishap every queued batch reaches the reply once, whole, with the
\* call path it was queued with, and in order.
ImplementsFifo == Fifo!Spec

\* While sampling goes on, a thread that waits for a slot gets one: the slots
\* that overtake each other do not stop the ring.
SlotWhileSampling ==
  \A c \in Collectors :
    pc[c] = "spin" ~> (pc[c] # "spin" \/ ~started \/ ~InStep)

\* A stopped request returns.
RequestReturns == rpc = "joining" ~> rpc = "idle"
=============================================================================
