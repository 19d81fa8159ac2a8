----------------------------- MODULE CpuSampler -----------------------------
(***************************************************************************)
(* The CPU call stack samplers of cpu_sampler.cpp and the thread that      *)
(* collects from them (CollectCPUSamplerData in gpu_profiler.cpp).         *)
(*                                                                         *)
(* Each sampled thread has a perf event whose records, of different sizes, *)
(* the kernel writes round a ring without looking at what was read.        *)
(* CollectData polls every sampler in turn with statusMutex held, and      *)
(* takes what is at the offset, where the ring's head was the last time,   *)
(* for the start of a record.  If its type is right, the names of its call *)
(* chain are taken; its pcs stay in the ring until UpdateCCT reads them.   *)
(*                                                                         *)
(* The ring is looked at in cells, of which a record takes one or more.  A *)
(* position counts the cells from the first that was ever written: its     *)
(* place in the ring is the remainder, and a record that crosses the       *)
(* ring's end goes on at its start, where CollectData does not follow it.  *)
(* A look at the ring, CollectData's or UpdateCCT's, is one step.          *)
(***************************************************************************)
EXTENDS Integers, FiniteSets

CONSTANTS
  Pids,      \* threads that launch kernels and may get a sampler
  RingCells, \* size of the ring, cpuSamplingPages pages
  Kinds,     \* the records the kernel writes: their cells, and whether they
             \* are samples (PERF_RECORD_SAMPLE) or, say, of throttling
  MaxCells   \* bound: cells each thread writes in a run

ASSUME RingAssumption == RingCells \in Nat \ {0} /\ MaxCells \in [Pids -> Nat]
ASSUME KindsAssumption == Kinds \subseteq [cells : 1 .. RingCells, sample : BOOLEAN]
ASSUME PidsAssumption == Pids # {}

Blank == -1        \* no record: memory that nothing has been written to
Wrong == -2        \* a call chain made of bytes that are none

VARIABLES
  timeout,     \* ProfilerConf::cpuSamplingTimeout is set (the default is none)
  alive,       \* threads that have not ended
  samplers,    \* keys of CPUCallStackSamplerCollection::samplers
  deleted,     \* the collection itself has been deleted
  evt,         \* perf event of each thread: enabled; head: cells written;
               \* pending: a wake-up that poll has not reported; offset
  written,     \* records each thread has written, with their positions
  cpuOn,       \* CPUCallStackSamplerCollection::running
  mutex,       \* holder of statusMutex
  cpu,         \* the collecting thread; "none" when its handle is not joinable
  left, cur,   \* samplers CollectData has still to visit; the one it reads
  got,         \* the map it returns: the record each stack's names are of,
               \* Blank if it is unset; and, as history, whether the offset
               \* was at a record that was new and in one piece
  inserted     \* the stacks last given to UpdateCCT, with the record that
               \* their pcs are of

sampler == <<timeout, alive, samplers, deleted, evt, written, cpuOn, mutex, cpu,
             left, cur, got, inserted>>

Unset == [names |-> Blank, intact |-> FALSE]
None == [p \in {} |-> Unset]
Nobody == CHOOSE p \in Pids : TRUE

\* The samplers are visited in one order, whichever it is.
Visited(p) == p \in left /\ p = CHOOSE q \in left : TRUE

SamplerInit ==
  /\ timeout \in BOOLEAN /\ alive = Pids
  /\ samplers = {} /\ deleted = FALSE
  /\ evt = [p \in Pids |-> [enabled |-> FALSE, head |-> 0, pending |-> FALSE,
                            offset |-> 0]]
  /\ written = [p \in Pids |-> {}]
  /\ cpuOn = FALSE /\ mutex = "free" /\ cpu = "none"
  /\ left = {} /\ cur = Nobody
  /\ got = None /\ inserted = {}

-----------------------------------------------------------------------------
(* The kernel (external).                                                  *)

\* The position last written at the place of position off.
Cell(p, off) ==
  LET there == {q \in 0 .. evt[p].head - 1 : (q - off) % RingCells = 0}
  IN IF there = {} THEN Blank
     ELSE CHOOSE q \in there : \A o \in there : o <= q

\* Thread p runs long enough for a record.
Tick(p) ==
  /\ p \in alive /\ evt[p].enabled
  /\ \E k \in Kinds :
       /\ evt[p].head + k.cells <= MaxCells[p]
       /\ evt' = [evt EXCEPT ![p].head = @ + k.cells, ![p].pending = TRUE]
       /\ written' = [written EXCEPT ![p] =
            @ \cup {[at |-> evt[p].head, cells |-> k.cells, sample |-> k.sample]}]
  /\ UNCHANGED <<timeout, alive, samplers, deleted, cpuOn, mutex, cpu, left, cur,
                 got, inserted>>

\* Whether record r crosses the ring's end.
Crosses(r) == (r.at % RingCells) + r.cells > RingCells

-----------------------------------------------------------------------------
(* The collection's operations, as parts of their callers' steps.          *)

RegisterSampler(p) == samplers' = samplers \cup {p}

\* Fault: the samplers registered at a request's end are left on.
SwitchOnly(on) ==
  /\ evt' = [p \in Pids |-> IF p \in samplers /\ on
                            THEN [evt[p] EXCEPT !.enabled = on] ELSE evt[p]]
  /\ cpuOn' = on

\* EnableSampling and DisableSampling of every sampler there is.
Switch(on) ==
  /\ evt' = [p \in Pids |-> IF p \in samplers
                            THEN [evt[p] EXCEPT !.enabled = on] ELSE evt[p]]
  /\ cpuOn' = on

\* The samplers of ended threads are deleted, which disables them.
DeleteSamplers(ended) ==
  /\ samplers' = samplers \ ended
  /\ evt' = [p \in Pids |-> IF p \in ended
                            THEN [evt[p] EXCEPT !.enabled = FALSE] ELSE evt[p]]

-----------------------------------------------------------------------------
(* CollectCPUSamplerData and CollectData.                                  *)

\* while (IsRunning()), and statusMutex.lock().
Collect ==
  \/ /\ cpu = "check"
     /\ cpu' = IF cpuOn THEN "lock" ELSE "done"
     /\ inserted' = {}
     /\ UNCHANGED <<mutex, left, got>>
  \/ /\ cpu = "lock" /\ mutex = "free"
     /\ mutex' = "cpu" /\ cpu' = "poll" /\ left' = samplers /\ got' = None
     /\ UNCHANGED inserted

\* The next sampler's event is polled: it has something to report, which an
\* ended thread's always has, or the timeout is over; then the result is not
\* looked at, and the stack is unset.
Reports(p) ==
  /\ cpu = "poll" /\ Visited(p)
  /\ evt[p].pending \/ p \notin alive
  /\ evt' = [evt EXCEPT ![p].pending = FALSE]
  /\ cpu' = "read" /\ cur' = p
  /\ UNCHANGED <<timeout, alive, samplers, deleted, written, cpuOn, mutex, left, got,
                 inserted>>

TimesOut(p) ==
  /\ cpu = "poll" /\ Visited(p)
  /\ timeout /\ (evt[p].pending => p \notin alive)
  /\ got' = [q \in DOMAIN got \cup {p} |-> IF q = p THEN Unset ELSE got[q]]
  /\ left' = left \ {p}
  /\ UNCHANGED <<timeout, alive, samplers, deleted, evt, written, cpuOn, mutex, cpu,
                 cur, inserted>>

\* Fault: the record's type is not looked at.
SeenAnyway(p, q) ==
  IF q # Blank /\ \E r \in written[p] : r.at = q /\ ~Crosses(r) THEN {q} ELSE {Wrong}

\* What is seen at position q if a record is taken to start there: a sample; no
\* sample, which is Blank; or, inside of a record, whatever its bytes look like.
\* The pcs of a sample that crosses the ring's end are read past the mapping.
Seen(p, q) ==
  LET starting == {r \in written[p] : r.at = q}
  IN IF starting = {} THEN (IF q = Blank THEN {Blank} ELSE {Blank, Wrong})
     ELSE {IF ~r.sample THEN Blank ELSE IF Crosses(r) THEN Wrong ELSE q :
             r \in starting}

\* Whether at p's offset there is a record that was written since the last look,
\* is in one piece, and has not been written over.
Intact(p) ==
  LET off == evt[p].offset
  IN /\ off < evt[p].head /\ evt[p].head <= off + RingCells
     /\ \A r \in written[p] : r.at = off => ~Crosses(r)

\* What is at the old offset is read, and the offset moves to the head; if it
\* does not look like a sample, the event is polled again.
Read ==
  /\ cpu = "read"
  /\ \E s \in Seen(cur, Cell(cur, evt[cur].offset)) :
       IF s = Blank THEN UNCHANGED <<left, got>>
       ELSE /\ got' = [q \in DOMAIN got \cup {cur} |->
                        IF q = cur THEN [names |-> s, intact |-> Intact(cur)]
                        ELSE got[q]]
            /\ left' = left \ {cur}
  /\ evt' = [evt EXCEPT ![cur].offset = evt[cur].head]
  /\ cpu' = "poll" /\ cur' = Nobody
  /\ UNCHANGED <<timeout, alive, samplers, deleted, written, cpuOn, mutex, inserted>>

\* statusMutex.unlock(); the stacks are returned.
Unlock ==
  /\ cpu = "poll" /\ left = {}
  /\ mutex' = "free" /\ cpu' = "update"
  /\ UNCHANGED <<left, got, inserted>>

\* The record that the pcs of a stack are of when they are read.
Pcs(p, names) == IF names >= 0 /\ Cell(p, names) # names THEN Wrong ELSE names

\* UpdateCCT for each stack.  Its pcs are read from the ring only now.
Update ==
  /\ cpu = "update"
  /\ inserted' = {[pid |-> p, names |-> got[p].names, intact |-> got[p].intact,
                   pcs |-> Pcs(p, got[p].names)] : p \in DOMAIN got}
  /\ got' = None /\ cpu' = "check"
  /\ UNCHANGED <<timeout, alive, samplers, deleted, evt, written, cpuOn, mutex,
                 left, cur>>

CollectorThread ==
  \/ /\ Collect \/ Unlock
     /\ UNCHANGED <<timeout, alive, samplers, deleted, evt, written, cpuOn, cur>>
  \/ Read \/ Update
  \/ \E p \in Pids : Reports(p) \/ TimesOut(p)

-----------------------------------------------------------------------------
(* Properties.                                                             *)

Stacks == [pid : Pids, names : Int, intact : BOOLEAN, pcs : Int]
RingRecords == [at : Nat, cells : 1 .. RingCells, sample : BOOLEAN]

SamplerTypeOK ==
  /\ timeout \in BOOLEAN /\ deleted \in BOOLEAN /\ cpuOn \in BOOLEAN
  /\ alive \subseteq Pids /\ samplers \subseteq Pids /\ left \subseteq Pids
  /\ cur \in Pids
  /\ evt \in [Pids -> [enabled : BOOLEAN, head : Nat,
                       pending : BOOLEAN, offset : Nat]]
  /\ written \in [Pids -> SUBSET RingRecords]
  /\ mutex \in {"free", "cpu", "request"}
  /\ cpu \in {"none", "check", "lock", "poll", "read", "update", "done"}
  /\ DOMAIN got \subseteq Pids
  /\ \A p \in DOMAIN got : got[p] \in [names : Int, intact : BOOLEAN]
  /\ inserted \subseteq Stacks

\* The offset stays at a record's start, whatever the kernel writes between two
\* looks: a stack that was read where there was a new record, in one piece and
\* not written over, is one of the thread's samples, by its names and, unless the
\* kernel has gone round the ring before UpdateCCT, by its pcs.  And with no
\* timeout (the default) no stack is unset.
StackIsOneSample ==
  \A s \in inserted :
    /\ s.intact =>
         /\ \E r \in written[s.pid] : r.at = s.names /\ r.sample
         /\ s.pcs = s.names \/ evt[s.pid].head > s.names + RingCells
    /\ ~timeout => s.names # Blank
=============================================================================
