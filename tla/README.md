# samprof in TLA+

samprof is a CUDA profiler that is injected into an application
(`CUDA_INJECTION64_PATH`).  CUPTI samples the program counters of the GPU; at
every kernel launch the profiler unwinds the CPU stack of the launching thread,
and a reply attributes the GPU samples to the CPU call paths.  These modules
model the profiler from its start to its exit, the messages it sends and the
tools that read them; TLC checks the modules on small instances, and TLAPS proves
for every instance what the runs check, but for liveness and the messages.

## 1. Inventory

| Component | State | Operations | Called by |
| :-- | :-- | :-- | :-- |
| Sample ring and reply-copy thread (`gpu_profiler.cpp` 518-549, 886-945) | `g_circularBuffer`, `g_put`, `g_get`, `g_bufferEmptyTrackerArray`, `g_pcSampDataQueue`, `g_GPUPCSamplesParentCPUPCIDs` | claim, fill, queue; copy and free | every launching thread, the stop handler, the copy thread |
| Start/stop signals (1318-1445) | `g_kernelThreadTids`, `g_kernelThreadSyncedMap`, selected thread, `g_pcSamplingStarted` | the two handlers, `checkSyncMap` | a request, through `pthread_kill` |
| Remote unwinding (273-295, 1408-1413) | `g_genCallStack`, `g_callStack` | a worker asks the main thread for its stack | `DoBackTrace` |
| Calling context trees (`calling_ctx_tree.h`, `DoBackTrace`, `UpdateCCT`) | `g_CPUCCTMap`, node ids, `g_activeCPUPCID`, `g_esp2pcIdMap` | walk, insert, cache | launching threads, the CPU sampler's thread |
| PC sampling contexts (`CallbackHandler`, `ConfigureActivity`, `CollectPCSamples`) | `g_contextInfoMap`, one configuration buffer per context | created, destroyed, module loaded, launch ends | CUPTI callbacks, the stop handler |
| Requests and process life (`PerformGPUProfiling`, `RunServer`, `InitializeInjection`, `AtExitHandler`) | the thread handles, the started flags | one request; start and end of the process | gRPC, the loader, `atexit` |
| Tracing mode (1088-1108, 1117-1140, `RPCCopyTracingData`) | `g_tracingRecords`, `g_corID2TracingKey`, timers | launch enter and exit, reply | launching threads, a request |
| CPU sampler (`cpu_sampler.*`) | a perf event and its ring per thread, `statusMutex`, `running` | register, delete, enable, disable, collect | requests, launches, its own thread |
| CCT pruning and reply (394-516) | a second set of trees | `PruneTreeRecursively`, conversion | end of a request |
| Configuration (`common.h`) | the settings | `ReadEnvVars` | the loader |
| Client and messages (`tools/client.cpp`, `tools/tools.h`, `cpp-gen/`) | a reply | request, print, dump, load; parse, serialize, merge | a user, the request |
| Cubin tool (`tools/cubin_tool.cpp`) | functions and labels of a module | `FillCG`, the loop over a directory | a user |
| Profiler without RPC (`deprecated/gpu_profiler_wo_rpc.cpp`) | the ring, a vector of buffers | a signal profiles and dumps; exit | SIGUSR2, `atexit` |

How they interact.  A request (one gRPC thread) erases what it knows of ended
threads, signals all launching threads, waits for `g_pcSamplingStarted`, spawns
the copy thread, sleeps, signals again, joins the copy thread and converts the
trees.  A launching thread unwinds at the start of a launch, which sets
`g_activeCPUPCID`, and collects at its end.  The handlers run on the
application's threads, in the middle of anything.  The CPU sampler extends the
same trees from a thread of its own.

What is hard: spinning on plain flags across threads; handlers that interrupt
each other; one signal with two meanings; two mutexes where one order matters;
trees that are searched without the mutex they are changed under; requests in a
row over state nobody resets.  What makes each part correct:

- ring: no slot in two hands; `true` means used; nothing lost, doubled or
  reordered; and the ways in which the code can spoil this are known ones; a
  request returns with everything queued while it ran;
- signals: CUPTI starts and stops only while every launching thread is held;
  the next request finds nothing of the last; everyone goes on;
- trees: prefix-closed and only growing; a launch is attributed to the stack it
  was made with; the cache only holds paths that some launch had;
- contexts: every record in a configuration buffer is delivered once, before
  the context's memory goes;
- lifecycle: every started thread is joined, every started sampling stopped;
- tracing: no kernel is reported to have run longer than its launches took;
- CPU sampler: what was read whole was sampled; no sampler used after its
  deletion, no request held up for ever;
- pruning: a kept node keeps its nearest kept ancestor, no leaf loses its name;
- messages: what is written is what is read, and as long as was announced;
- cubin tool: the graph has the functions and calls of the listing.

## 2. Modules

| Module | Models | Lines |
| :-- | :-- | :-- |
| `SampleFifo` | abstract: a batch handed over reaches the reply once, whole, in order | promise |
| `CircularBuffer` | the ring, the queue, the copy thread, start and end of a request | `gpu_profiler.cpp` 525-549, 892-945, 1252-1270, 1606-1653 |
| `MCCircularBuffer` | symmetry of the collectors for TLC | |
| `CircularBuffer_proofs` | theorems about `CircularBuffer` | |
| `ThreadSignals` | handlers, synced map, remote unwinding, the signalling half of a request | 279-293, 1073-1087, 1318-1445, 1562-1653 |
| `ThreadSignals_proofs` | theorems about `ThreadSignals` | |
| `ContextSet` | abstract: a prefix-closed, growing set of call paths per thread | promise |
| `CallingContextTree` | the trees, `DoBackTrace`, `UpdateCCT`, cache, active node | 197-369, 1448-1537, `calling_ctx_tree.h` 53-114 |
| `MCCallingContextTree` | a small program with recursion, a shared stack pointer, a Python worker | |
| `CallingContextTree_proofs` | theorems about `CallingContextTree`: types, trees, active nodes, what going up from a node gives, and the refinement of `ContextSet` | |
| `PcSampling` | contexts, their buffers, the callbacks, the stop handler, the copy thread, exit: where each sample is | `gpu_profiler.cpp` 551-790, 957-1019, 1060-1377 |
| `MCPcSampling` | the settings and symmetries for TLC | |
| `PcSampling_proofs` | theorems about `PcSampling` | |
| `CpuSampler` | the samplers, their events and rings, the collecting thread | `cpu_sampler.cpp`, 1540-1551 |
| `Tracing` | timers and records around launches, the report | 844-889, 1064-1139, `utils.h` |
| `Lifecycle` | injection, requests, exit, with the two above | 957-1012, 1553-1743, `client.cpp` |
| `ProfilerConf` | environment to settings | `common.h` 79-237 |
| `MCLifecycle` | environments, and two threads, for TLC | |
| `Lifecycle_proofs` | theorems about `Lifecycle`, `CpuSampler` and `Tracing` | |
| `CctPruning` | pruning, conversion, what the client prints | 371-516, `tools.h` 72-92 |
| `CctPruning_proofs` | theorems about `CctPruning` | |
| `CubinCallGraph` | a listing to a call graph, files of a directory | `cubin_tool.cpp` |
| `CubinCallGraph_proofs` | theorems about `CubinCallGraph` | |
| `ProtoMessages` | for each message, the fields each generated function names | `gpu_profiling.pb.cc` |
| `ProtoWire` | what the library does with those tables | (external) |
| `SignalProfiler` | the profiler without RPC | `deprecated/gpu_profiler_wo_rpc.cpp` |
| `SignalProfiler_proofs` | the theorem about `SignalProfiler` | |
| `MCParts` | one instance for pruning, cubin tool, messages and `SignalProfiler` | |

State keeps the source's names (`put` is `g_put`, `tracker` is
`g_bufferEmptyTrackerArray`, `nextId` is `g_CPUCCTNodeId`).  A thread's place in
a function is a string in `pc`, `cpc`, `rpc`, `frames` or `walk`; a step is what
happens between two points where another thread could see a difference.

**CircularBuffer.**  `Lock`, `Spin`, `LeaveSpin`, `Claim` are the critical section of
`g_circularBufferMutex`: whoever is in it holds the mutex, also while it spins on a
full ring.  `Fill` is `cuptiPCSamplingGetData`; `Push` takes the queue's mutex, pushes
and stores the active call path.  The copy thread reads `g_pcSamplingStarted`
(`ReadStarted`), locks the queue, copies the front (`CopyFront`), frees slot `g_get`
(`FreeSlot`), and either goes on or ends (`EndDrain`).  The lock of the queue is held
over the drain.  `ConfPush` queues a configuration buffer that has no slot.  The
tracker is a `vector<bool>`: a store to one of its bits rewrites a word (`StoreBit`),
from what the thread loaded before (`word`, `cword`).  `owed` is history: how much of
the queue the running request must still copy.  So is `mishaps`, the three things by
which the code can spoil its ring, each noted at the step where it happens:
"overtaken", a slot is queued before one that was claimed earlier; "noSlot", a
configuration buffer is queued; "lostBit", a store undoes another.  Nothing in the
model prevents them, as nothing in the code does.  The properties of the ring say what
holds until then (`TrackerIsRight`, `NoSlotShared`, `ImplementsFifo`), what an
overtaken slot leaves alone (`Window`, `SpinOnlyWhenFull`, `SlotWhileSampling`), and
what nothing disturbs (`ReplyComplete`, `RequestReturns`); read the other way round,
that there is no fourth way.

**ThreadSignals.**  `frames[t]` is the stack of handlers that run on thread `t`,
innermost first; a signal is pending at most once, blocked in its own handler,
and interrupts the other one.  `Deliver*` enter a handler (SIGUSR1 looks at
`g_genCallStack` then, not when it was sent), `*Sync`, `*Lead`, `*Follow`, `*Go`,
`*End` are its parts.  `Register` and `EnterMap` are the first launch of a thread:
two steps, and a request may come between.  `AskMain` to `ClearStack` are the
hand-shake for the main thread's stack.  `noSampling` picks tracing, where a
request only sets a flag and the hand-shake is all that is left.

`Calm` restricts the environment, not the code: with it, a request waits until
handlers and hand-shakes are done before its next step, and no thread begins or
ends while a request is signalling.  That is what long, rare requests look like,
and the only condition under which the protocol can be right; the runs without
`Calm` show what happens otherwise.

**CallingContextTree.**  `walk[a]` is a thread in `DoBackTrace` or the CPU sampler
in `UpdateCCT`: its place, the frames left (`main` and `own`: `TOP2`/`POP2` take
the main thread's first), the parent reached and the node made.  Search
(`Descend`, `Miss`) takes no lock, and insertion makes the node (`NewNode`) before
it links it (`InsertNode`, under the tree's mutex): that is where two walks
meet.  `addChild` refuses a pc that is there, after it has listed the node in
`childNodes`, and both callers ignore it.  The
virtual root, the fake back trace and the stack-pointer cache are actions of
their own.  Here `Calm` says that the sampler does not work on the tree of a
thread that is unwinding into it.

**PcSampling.**  A sample is a number.  CUPTI is external and does what the callers'
comments say: samples wait in the hardware (`hw`), become `remainingNumPcs` (`rest`)
or lie in the context's configuration buffer (`buf`); `Fetch` and `Push` are
`GetPcSamplingDataFromCupti`, which the ring's modules have in detail.  `at[p]` is the
loop that a thread or the handler is in: `GoesOn` and `Loops` are the conditions over
`totalNumPcs` and `remainingNumPcs`, read one step before the call, so that another
thread may have taken what was seen, and an empty batch is queued all the same.
`QueueConf` and `QueueLate` queue a buffer by reference: what it holds is read when
the copy thread comes to it.  `Settings` picks `NO_RPC`, `SYNC_BEFORE_START` and the
collection mode.  The exit waits for no thread of the application: callbacks go on
beside `AtExitHandler`, `DisableAll` and `Finish`, and until `FreePreallocatedMemory`
new ones begin.  There the model ends for them, since what a thread does with freed
memory is undefined; the first steps it would take are those of any collection.  `due`
is history: what was queued or copied when the exit began.  A request may still come
during the exit, until its server is shut down.  Not in it, because the code takes it
for granted: a context or module that comes or goes while a handler iterates
`g_contextInfoMap`; serialized mode without `SYNC_BEFORE_START`, where a kernel may
end under the stop handler's hands.

**Lifecycle, CpuSampler, Tracing.**  `Lifecycle` has the request (`EraseEnded` to
`JoinThreads`), the exit (`ExitBegins` to `DeleteCollection`) and the start; it
EXTENDS the other two, whose actions are those of the sampled and the launching
threads.  Assigning a joinable `std::thread` ends the process (`dead`).  In
`CpuSampler` the kernel writes records of different sizes round an event's ring.  The
ring is looked at in cells, of which a record takes one or more, a sample or some
other record; `written` is where each record began, and `Cell` is what is at a place
of the ring now.  `Read` takes what is at the last head for the start of a record,
whether or not anything was written since: then the place may hold nothing, a record
that is older, the middle of one, whose bytes may look like a sample or not (`Wrong`),
or a record that crosses the ring's end, whose pcs are read past the mapping (`Wrong`,
too).  `Update` reads the pcs, with what is in the ring by then.  `intact` is history:
whether there was a new record, in one piece, when it was read.  In `Tracing` the
clock is a number that grows and one key's launches share a timer; the records'
uninitialised duration is counted from what it was.  One request at a time, none that
arrives during an exit, no thread id given out twice; tracing and CPU sampling are
checked one at a time, since they share nothing but the request.

**CctPruning.**  One tree that was collected becomes a reply and is printed.
`PruneTreeRecursively` is depth first, so its stack is the sequence `toVisit`: the
children it still has to look at, in the order it gets to them, each with the node
of the new tree it is looked at below.  A step takes the first: `SkipChild`,
`MergeChild` and `InsertChild` are the three branches of the source.  The maps of
children are hash maps, so `PrintNode` queues them in any order.  `funcName` is
reduced to the words the code looks for, and `visited` is history.  `TreesAreTrees`
says what a collected tree is, and why: node ids come from one counter that starts
above zero, so that a parent has the smaller id and no node the id of no parent;
and no two of a node's children are one node.  A Python frame's name is made of a
function, a file and a line, in which the pattern of the C++ operators finds nothing.

**CubinCallGraph.**  The main loop over a directory (`ToolStarts`, `SkipFile`,
`ReadListing`, `DumpGraph2File`, `ToolEnds`; `NoListing` is a `popen` that fails), and
`FillCG` with a step for every line: the branches of its `if` chain by the kind of
line, the kinds being its regular expressions.  The pattern for labels comes first in
the source, so its second case of a weak function never gets a line.  A section is
followed by an empty line, at which the end label that was just seen is acted on;
after the last section the tool appends that line itself.  Three weak points are kept:
a label that is looked up and not there is a null pointer (`NullPointer`),
`lastAddress` has no initial value, and a name that comes twice ends the listing with
an empty graph (`DuplicateName`).  The tool may be run on its directory again, when it
finds the graphs it left.  `FilesAreListed` says what nvdisasm prints, as the tool's
comments show it: a section of code has its header first, then an alignment and the
function's size, then labels and at least one instruction, and the label that the size
names is its last line.  What comes between, weak functions of any number included, is
open, and so are the other sections.

**ProtoMessages, ProtoWire.**  These compute an answer from a message, and are
operators.  `ProtoMessages` has, for each of ten messages, five tables that were
read off the five generated functions one by one; they must agree with each other,
which is what `SurvivesTheWire` asks of them.  `ProtoWire` is the library that walks
them: a message on the wire is a sequence of items (tag, value).  Fields hold values
of their own width.

**SignalProfiler.**  Two collectors (a launching thread, and the profiling thread
that collects the rest), the copy thread that puts pointers in a vector, the
thread a signal starts, and the exit.  A batch is a number; a dump is the numbers
that are in the buffers the vector points to.  A configuration buffer is queued
without a slot (`PushConf`), and the copy thread frees a slot for it as for any other;
a launching thread may collect at any time, as the callbacks of modules and contexts
do not look at `g_pcSamplingStarted`.

## 3. Runs

| Run | Shows |
| :-- | :-- |
| `ring` | two collectors, two slots, a configuration buffer, tracker bits in one word: the three mishaps are all that can make the tracker wrong, put a slot into two hands or break the order of `SampleFifo`; the window, the warning flag and the waiting for a slot survive overtaking; and whatever happens, a request returns, with all that was queued while it ran |
| `ring_order` | **violation** of "true - used, false - free" (`gpu_profiler.h:111`) with two collectors |
| `signals_calm` | three threads, sampling or tracing: all are held at start and stop, CUPTI is started once, nothing is left over, the stack is handed over whole, requests return and programs resume |
| `signals_hang` | **violation**: a first launch during the signalling hangs the request |
| `signals_unwind` | **violation**: two workers share the flag and the stack |
| `tree_calm` | two unwinding threads and the CPU sampler: the trees are consistent, each unwinding names its path for good, cache and active node are founded, and the trees implement `ContextSet` |
| `tree_race` | **violation**: sampler and thread insert the same frame |
| `contexts` | two contexts, two threads, requests, module loads, exit: every sample is somewhere until it is in one reply, a returned request leaves none behind, the dump at exit has all that was queued when the exit began, and what the handler and the copy thread use is not freed under them |
| `exit_rest` | **violation**: what CUPTI flushes at exit is not queued |
| `exit_dump` | **violation**: a thread that is between GetData and the push when the process exits queues after the last drain |
| `lifecycle` | two requests with good and bad durations, an exit at any moment, threads that come and go, samplers with and without a timeout, overlapping launches: nothing of a request is left on, the samplers outlive their users, times are real and stacks are unless one of the known ways spoils them, requests return and exits end |
| `parts` | a reply about each tree, runs of the cubin tool over each directory, each message, and the profiler without RPC: each against what is promised of it |

Bounds.  Ring: two slots make every claim wrap and let it fill, and share a word; two
collectors overtake each other; three batches, one of them in a configuration buffer
or all in slots, fill it, wrap it and leave one to wait (`ring_order` allows four);
requests follow each other as long as they like.  Signals: a main thread, an early and
a late launcher are the fewest that give a selected thread, a follower and one that
registers later; requests repeat without limit, since nothing counts them.  Trees:
eight nodes (`MaxNodes`) are both roots and every path of the three launches and two
samples; one launch recurses, two share a stack pointer, a worker has the main
thread's frames first.  Contexts: two contexts let one go while the other is
collected; two samples fill a configuration buffer of one record, leave a
`remainingNumPcs`, and are two for two threads, two buffers or two replies (the
violations allow three); the five settings are `NO_RPC` with both modes, and requests
with both modes and `SYNC_BEFORE_START`, or continuous without.  Its `VIEW` leaves out
the context of threads that are in no callback, which nothing reads.  Lifecycle: two
samplers with one mortal thread, a ring of two cells with samples of two and other
records of one: three cells give a sample that crosses the ring's end, one that is
written over, and a look into its middle; two launches overlap; two requests follow
each other.  Parts: trees of all shapes up to four nodes with four kinds of frames
have a merge below a merge, a left-out frame between kept ones, and cousins with one
pc that become siblings; two sections call each other, their own weak function or an
unknown one, and may have one name; a weak function is declared or only sized, and
ends in its section, with it or nowhere; a directory has files that are no cubins,
cannot be read or share a crc, and listings with other sections; messages have one
field set or all, down to two levels, with numbers of one and two bytes, negative
ones, and bad text; a ring of two slots and three batches is overrun by one.

No run uses a state constraint; bounds are guards (`MaxBatches`, `MaxPcId`,
`MaxNodes`, `MaxRecords`, `MaxCells`, `MaxTime`, `MaxLaunches`, `Requests`,
`MaxSignals`) or the sets of cases (`TreeSize`, `Sections`, `Depth`, and
`MCDirectories`).  Symmetry is used in `ring_order`, `contexts`, `exit_rest` and
`exit_dump`, which have no temporal property.  In `lifecycle` and `parts` the system
may stop (the process is over, the case has been looked at), so they do not look for
deadlock.

Fairness.  Threads that can go on do (weak fairness of the copy thread, of the
request's own steps, of a collector in its critical section, of every handler):
the operating system schedules them.  A collector gets the queue's mutex if it
is free again and again (strong fairness of `Push`); the copy thread releases it
after every drain.  `WakeUp` is strongly fair because a duration ends whatever
the threads do; `Calm` only chooses the moment.  Nothing obliges a thread to
launch, to ask, to collect or to end, nor a client to send a request.  In
`lifecycle` the request, the copy thread, the exit and the collecting thread go on;
`statusMutex`, which the collecting thread takes again and again, is granted to who
waits for it in the end (strong fairness), and a poll with a timeout times out.
Without a timeout an idle thread holds the request up for good, which is why
`RequestReturns` and `ExitEnds` ask for one.

## 4. What the code does otherwise

Six findings have a run.

1. `ring_order`: claims are made under one mutex and queued under another.  If
   two collectors queue in the other order, the copy thread copies the second
   slot and frees the first (it frees `g_get`, 938), whose samples are still
   queued or being written.
2. `signals_hang`: a thread enters `g_kernelThreadSyncedMap` as false at its first
   launch (1085).  If that is after the request's loop over
   `g_kernelThreadTids`, the selected thread waits for an entry that no signal
   will set, and the request for the selected thread.
3. `signals_unwind`: `g_genCallStack` and `g_callStack` serve all workers without a
   lock; with two, one of them takes an empty stack or the frames twice.
4. `tree_race`: `UpdateCCT` inserts a frame between a thread's search and its
   insertion; `addChild` answers `DUP_PC`, nobody looks, and the thread goes on
   below a node that is in no tree.
5. `exit_rest`: the header of `gpu_profiler.cpp` (36-43) says that the exit handler
   pushes each context's configuration buffer into the queue; it only disables
   sampling (971-981), and with `NO_RPC` what that flushes is missing from the dump.
6. `exit_dump`: the exit handler joins the copy thread and writes the dump, and waits
   for no thread of the application.  One that is between 543 and 546 queues what
   it has collected after the last drain, so a dump "for the whole life-cycle"
   (`README.md` 45) lacks it.  The same thread may then fill a slot and read a
   `ContextInfo` that line 1021 frees; nothing in the code keeps it from that.

Seen while modelling, and stated in the properties as the code has it:

- A duration that is not positive is refused with sampling on and threads running
  (1629); the next request ends the process.  `lifecycle`'s properties say what
  holds unless a request was refused.
- `gpu_profiler.h` 155 says "initialize injection once"; lines 1718-1739 run on
  every call.  `CUPTI_CIRCULAR_BUF_COUNT=0`, or no number, makes the ring's index a
  remainder by zero.  `PRUNE_CCT` is documented with default 1; the code's is off.
- CPU sampler: with a timeout, the stack of a poll that timed out goes to the trees
  all the same; and a poll may report when nothing new has been written at the
  offset (`cpu_sampler.cpp` 108-117), so that old bytes, or the middle of a record, are
  taken for one.  A record that crosses the ring's end has its pcs read past
  the mapping (126).
- Pruning: operators that are merged are in no tree, so samples that name one as
  parent point nowhere; `copyNodeWithoutRelation` does not copy `samples`, so a
  pruned tree counts one everywhere; a message may have fewer `childpcs` than
  `childids`, as two children may have come to one pc.  The first conversion leaves
  `samples` unset.
- Messages: names that are not UTF-8 are written and make the reader give up the
  whole reply.
- Cubin tool: a name that comes twice leaves an empty graph, which is dumped and
  never made again; a weak function without a size ends the tool; files that
  cannot be read share the crc 0; a function without code after its last
  instruction ends at its address plus the alignment.
- The profiler without RPC: the copy thread keeps pointers to buffers it has freed,
  so a longer profiling dumps later batches in place of earlier ones; a second
  SIGUSR2 is never answered, since the first one's thread is never joined; under
  `NO_RPC` a SIGUSR2 ends the process; parents in a dump are always 0.

More can be seen by changing a configuration.  `ring` with `UsedIsTracked` or
`Exclusive` in place of `TrackerIsRight` and `NoSlotShared` fails by each of the three
mishaps: with `Contexts = {}` and `WordBits = 1` by overtaking alone, with one
collector in addition not at all.  `signals_calm` with `Calm = FALSE` and all
launchers early: `AllHeldAtStart` and `AllHeldAtStop` fail, against the messages of
lines 1394 and 1430, as entries of the last barrier are still true; and a follower
that is delivered its signal late spins for ever.  `signals_calm` with two workers:
the main thread takes the second request for its stack for the start signal, so
`AllHeldAtStart`, `AllHeldAtStop` and `StartedOnce` fail, or it waits for a start that
does not come.  `contexts` with serialized kernels, requests and no
`SYNC_BEFORE_START`: `NothingTwice` and `StopLeavesNothing` fail, as a kernel flushes
into the configuration buffer that the stop handler has just queued.

## 5. Proofs

Eight modules hold theorems, checked by TLAPS for all values of the constants that
satisfy the modules' `ASSUME`s (which TLC evaluates in the runs).  The safety
properties of the runs follow from the inductive invariants named here.
What a theorem assumes beyond that is in its statement:

| Theorems | Assume | Because |
| :-- | :-- | :-- |
| `RingWindow`, `WarningIsTrue` | until a buffer without a slot is queued or a bit is lost | that ends the ring's count, see section 2; overtaking does not |
| `TrackerStaysRight`, `SlotsAreExclusive`, `RingImplementsFifo` | until one of the three mishaps | `ring_order` is a run in which one happens |
| `StartBarrier`, `StopBarrier`, `SamplingStartsOnce`, `BetweenRequests`, `OneCopyOfTheStack` | `Calm`, `OneWorker` | `signals_hang` and `signals_unwind` are the runs without |
| `TreesAreConsistent`, `ActiveNodesAreKnown`, `PathsAreWhole`, `CachedPathsAreFounded`, `TreesImplementContexts` | `Calm` | `tree_race` is the run without |
| `RequestLeavesNothing`, `CollectionOutlivesUse` | no request was refused | one that is leaves its threads running, see section 4 |
| `StacksAreSamples` | of the stack: it was read where there was a new record, in one piece and not written over; that no stack is unset: no timeout | see section 2 |
| `DumpIsComplete` | of the record: it was queued when the exit began | `exit_dump` is the run in which one was not |
| `CleanIfMainLaunches` | the main thread launches before the first request, and does not end | it is the one thread that is signalled whether or not it is in the set |
| `NoSampleTwice`, `NothingIsLeft` | `Held`, of the process's settings | see below |
| `CctInvariant`, `PruningIsRight` | `TreesAreTrees`, the module's `ASSUME` | what the counter of ids and the lists of children make sure of, see section 2 |
| `CubinInvariant`, `GraphsAreRight` | `FilesAreListed`, the module's `ASSUME` | how nvdisasm lays out a section, see section 2 |
| all others (`TypeCorrect`, `ReplyIsComplete`, `ThreadTypes`, `EntriesComeDown`, `TypesAreCorrect`, `PcTypes`, `NoSampleIsLost`, `MemoryStaysAlive`, `LifecycleTypes`, `NoTimeIsInvented`, `DumpsAreComplete`) | what section 2 says of each module's environment, and no more | |

In particular there may be any number of collectors, of configuration buffers and of
bits in a word in the theorems of the ring, and the application's threads go on during
an exit in those of the contexts.  `MemoryStaysAlive` is about the threads the exit
does wait for, the stop handler's and the copy thread, and about the ring until it is
freed; of a thread that is in a callback when line 1021 is reached it says nothing,
since nothing holds.

**Ring.**  `TypeCorrect` needs that CUPTI's batches stay within the bound
(`BatchBound`: those delivered and those still due).  `ReplyIsComplete` follows from
`RequestInv`, which ties `owed` to the queue's length and says in which places of the
copy thread it can be positive; it needs nothing of the ring, so it holds beyond any
mishap.  `RingInv`, of the window and the warning, says: as long as only overtaking
has happened (`InStep`), the mutex has one holder, the slot about to be marked is
free, and the used slots are those from `g_get` to `g_put`.  `OrderInv`, which holds
until the first mishap (`CalmInv`), says where each slot is: the queue is the
beginning of that window, in order, and the slots in flight are the rest of it, each
held once and in any order.  From it the tracker, exclusion and the refinement of
`SampleFifo` follow; the refinement's `kept` is `mishaps = {}`, so a mishap is a step
of `SampleFifo` that gives the promise up.

**Signals.**  `ThreadTypes` is an invariant of any use of the signals: its `TypeInv`
adds what a thread's stack of handlers can be.  Under `Calm`, a request goes through
four rounds (`Starting`, `Sampling`, `Stopping`, `Stopped`), and `CalmInv` is what
each one means for every thread: `RoundInv` (CUPTI samples exactly in two of them),
`PlaceInv` (where a handler can be, and that only the selected thread leads),
`SyncInv` (a true entry is a thread that is past its synchronisation and has not
left), `SignalInv` (a thread is signalled once in a round), `KnownInv` (a thread
without an entry is just entering) and `AskInv` (the flag and the stack say what the
worker that asks is waiting for).  The barriers are action properties: when the leader
starts or stops CUPTI all entries are true, so by `SyncInv` and `PlaceInv` every
thread in the set is in its handler.  `AskInv` is where one worker is needed:
`OneWorker` says that no two workers can ask at once, as the flag has no lock.  What
is left without both is `MapInv`, from which `EntriesComeDown` and
`CleanIfMainLaunches` follow: an entry is true only while its thread is in a handler,
past its synchronisation, whatever order signals come in and however often handlers
interrupt each other; and threads that are not in the set are left alone, all but the
main one, which may take a request for its stack for the start signal and enter
itself.

**Trees.**  `TypesAreCorrect` holds with or without `Calm`; the types need `WalkInv`:
who searches or inserts stands at a node, and who links has a frame left.  `TreeInv`
of the next two theorems: walks under way are in different trees (`Exclusive`);
trees share no node and hold only ids below the counter; a node that is in no tree
is blank (`Blank`), so linking it brings nothing else in; nodes held by walks are
in no tree and differ (`Fresh`); and a walk about to link still finds nothing
under its pc (`Place`), so that `addChild` never refuses.  `Place` is what fails
without `Calm`.

`PathTo`, the path up from a node, is a recursive function over ids.  That it is
the function its definition says (`PathsExist`), and that it stays what it was for
a node whose ancestors keep their parents, is proved by taking the least id for
which it fails (`LeastNat`), which needs that parents have smaller ids
(`NumberingStep`).  On top of it, the path up from where a walk stands, followed by the
frames it has left, is the stack it unwinds (`UnwoundStep`); a leaf that a walk has
passed or the cache holds is the end of such a stack (`FoundedStep`), and
`PathsAreWhole` and `CachedPathsAreFounded` follow.  `TreesImplementContexts` maps each
thread's tree to the set of its nodes' paths: the initial trees map to the initial
sets, linking a node or planting a root is a step of `ContextSet`, the last step of
an unwinding is its finding a path that is in the set, and every other step of the
trees leaves the sets alone.

**Contexts.**  `NoSampleIsLost` is inductive once a buffer that is queued counts as
CUPTI's (`Kept`): `MovesLemma` lists the steps that move a record, and each of them
puts it down where another disjunct has it.  `MemoryStaysAlive` follows from
`ControlInv`: `PhaseInv` ties the request, the exit and the copy thread together,
`StepInv` says who is in the middle of a collection, `HandlerInv` says which contexts
the handler has still to visit, `UserInv` that who works in a context has it in the
map.  The other three need `CollectInv`: what leaves CUPTI is nowhere else
(`CuptiInv`, `PlaceInv`, `FreshInv`), what a stopping request has emptied stays empty
(`StopInv`, `QuietInv`), and a configuration buffer is queued once, when its context
is dead (`ConfInv`), after which what it holds is in the queue or in a reply
(`CopiedInv`).  All of it is for processes of which `Held` is true: kernels that are
serialized, with requests, come with `SYNC_BEFORE_START`, so that no kernel flushes
while the stop handler collects.  The settings never change (`ConfStays`), and without
RPC there is no stop handler, so `DumpIsComplete` needs no such condition: by `DueInv`
a record that was queued when the exit began is in the queue or copied, and copied
when the copy thread has ended; a buffer that is queued by reference is that of a dead
context, which no GetData empties any more (`QueuedStays`).  The run `contexts` has
exactly these settings, as section 2 says; the code does not ask for them, and without
them nothing keeps a launching thread out of the handler's loops.

**Lifecycle.**  `TypeInv` adds to the types that every key of the correlation map has
a record and a timer.  `RequestLeavesNothing` and `CollectionOutlivesUse` follow from
`ControlInv`: `PhaseInv` has, for every place of a request, what is on then, unless
one was refused; `ExitInv` has what the exit waits for.  A refused request leaves
`PhaseInv`, which is why both properties except it.  `StacksAreSamples` follows from
`RecordInv` (records end at the head at the latest, and at an offset behind it one
begins), `ReadInv` (a stack that was intact names a sample that was written) and that
heads only grow: an intact look is at the start of a record, as the offset was the
head once, so its cell is the record's own (`IntactRead`), and stays so until the
kernel has gone round (`KeptCell`).  `NoTimeIsInvented` is about sums: a reply reports
for a kernel the sum of its records, over all call paths.  `LaunchInv` says that a
launch in the maps was traced, that its key is of its own kernel, and that the key's
timer was not started before the launch began; so what a launch adds to one record is
at most what it adds to its kernel's true time, and `SumChanges` is that the sum of a
kernel's records grows by what one of them does.  `Reported` is a fold; `SumsExist` to
`ReportedAdds` are what is needed of it, again by `LeastNat` over the size of the set.

**Pruning.**  `PruningIsRight` is `PruningKeepsContexts` for trees of any size and
shape, in whatever order their maps give the children.  `CctInv` says what is there
when a set of nodes was looked at (`visited`): what is still to be looked at are
exactly the children of those nodes, each once, and each below its nearest ancestor
that is kept (`Visits`); and the new tree is what that set makes it (`Builds`): the
kept nodes looked at, each with the kept ones it is nearest to as its children and
with the names of those that were merged into it.  So the order of the visit never
matters.  When nothing is left to look at, everything was, because a node that was not
looked at has a topmost such ancestor, whose parent was; and every node has a nearest
kept ancestor, because ids fall on the way up.  Both are again by least ids.  The
client's queue is treated alike (`Prints`): what is printed or queued is there once,
and is exactly the root and the children of what was printed.

**Cubin tool.**  `GraphsAreRight` is `GraphsAreTheCode` for directories of any files
and listings of any length.  `GraphOf` says what graph a listing stands for without
reading it in order; `CubinInv` says what has been made of it after every line.
`FilesInv` and `GraphInv` are about the loop: the files before `cnt` are done, and a
graph that is there is right.  `ReadInv` is about the listing: `MapInv` gives each
function that was met what the lines read so far say of it (its end label, its
instructions, and each label with the address of the next instruction), and `ScanInv`
gives the locals (`Tracked`: the labels that wait for an address, whether the
section's size is still to come, the end label, the last address and alignment).  A
line is one lemma for the map and one for the locals (`InstructionGrows`,
`InstructionTracks`), and the layout of a section is used in few places: the size
comes before any label, so that the end label is known when it comes; an instruction
comes before the end, so that `lastAddress` has a value when it is used; and the end
is the last line, so that no label waits when the next section begins.  As a weak
function is in one section only, sections do not disturb each other's entries
(`SectionsApart`).  At the end the map says what the listing says: `NodesAreRight`,
`EdgesAreRight`, and `CrashIsRight`, that the null pointer is read exactly for a
function whose end is not said.

**Profiler without RPC.**  `DumpsAreComplete` follows from `SignalInv`: the slots of the
vector and of the queue are, in this order, those of everything queued
(`ContentInv`), and as long as no more batches were begun than there are slots,
each belongs to one collector or one batch and still holds it; the copy thread
drains once more after sampling has ended, and sampling does not begin again
after that in a process that lives (`OwedInv`).

Only model-checked, and why:

- liveness (`SlotWhileSampling`, both `RequestReturns`, `ProgramsResume`, `ExitEnds`): out
  of the prover's reach, as are the fairness assumptions they rest on;
- `MessagesSurvive`: messages hold messages, so writing, counting, reading and
  merging are `RECURSIVE` operators, for which the prover has no arithmetic, and the
  claim is an induction over the depth of a message;
- the six violations, which are counterexamples.

## 6. Not modelled

The old version in `deprecated/`: not built, and the profiler without RPC does the
same.  `BackTracer` and the test program: an earlier form of `DoBackTrace` and an
exercise of it.  Of the generated code, accessors, arenas, swaps, descriptors and
gRPC stubs: they hold no decision of this program.  Reading frames (libunwind,
Python's interpreter), disassembling (nvdisasm), the crc, perf records, names and
logs: inputs or text.  Sample counters of nodes: no control depends on them.
Tearing of the unlocked hash maps: below the level of these models, listed as a
hazard.  The lock that a thread holds while the stop handler runs on it (1432): a
handler and the code it interrupts are one thread, which no module of the ring
has.  A context that CUPTI never reported, stall-reason arrays of two devices,
thread ids that come again: listed as hazards, with the reason.

## 7. Plan

Done: all components but those of section 6, each with its run; theorems for every
safety property that a run checks, but that of the messages.  Left:

1. Compositions: the stop handler's collection inside `CircularBuffer`'s mutex;
   the requests of `Lifecycle` over `ThreadSignals`.
2. Theorems: that messages whose
   tables agree survive the wire, by the depth of a message, once `ProtoWire` is
   written with recursive functions.
