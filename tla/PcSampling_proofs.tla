--------------------------- MODULE PcSampling_proofs --------------------------
(***************************************************************************)
(* Proofs about PcSampling, for any contexts, threads and settings, any    *)
(* sizes of the ring's slots and of the configuration buffers, and any     *)
(* number of samples.                                                      *)
(***************************************************************************)
EXTENDS PcSampling, TLAPS

-----------------------------------------------------------------------------
(* The inductive invariant.                                                *)

TypeInv == TypeOK /\ queue \in Seq(Entries)

\* With requests, a serialized kernel flushes only while the stop handler does
\* not collect: its thread is held in its own handler meanwhile.  The settings
\* of a process never change.
Held == conf.serialized /\ ~conf.noRPC => conf.sync

Active == {"spawn", "sleep", "collect", "stopping", "collectRest"}
Collecting == {"total", "remaining", "any", "one"}

\* How the request, the exit handler and the copy thread go together.
PhaseInv ==
  /\ conf.noRPC => rpc = "idle" /\ (started <=> exit = "no")
  /\ ~conf.noRPC => (started <=> rpc \in Active)
  /\ exit \in {"free", "done"} => rpc = "idle" /\ cpc = "none"
  /\ conf.noRPC /\ cpc \in {"last", "done"} => exit # "no"
  /\ \A c \in Contexts : info[c] = "freed" => exit = "done"

\* A slot is claimed in a loop or for a launch, and holds nothing before GetData.
StepInv ==
  \A p \in Procs :
    /\ step[p] # "test" => at[p] \in Collecting
    /\ step[p] # "push" => held[p] = {}
    /\ at[p] = "one" => step[p] # "test"

\* What the handlers have still to visit, and where threads are meanwhile.
HandlerInv ==
  /\ left \subseteq infoMap /\ (Calm => left = {})
  /\ at[Handler] \in {"idle", "any", "late"}
  /\ at[Handler] # "idle" =>
       rpc \in {"collect", "collectRest"} /\ ctx[Handler] \in infoMap
  /\ ~Calm => \A t \in Threads : at[t] \in {"idle", "one", "total", "remaining"}

\* Once the handler has left a loop, the configuration buffer is empty.
HeldInv ==
  /\ ~Calm => \A t \in Threads : at[t] \in {"idle", "one"}
  /\ at[Handler] = "late" => buf[ctx[Handler]] = {}

\* A thread works in a context of the map, and is alone there unless it only
\* collects; a context of the map has its ring unless it is being made.
UserInv ==
  /\ \A t \in Threads : at[t] # "idle" => ctx[t] \in infoMap
  /\ \A t, u \in Threads :
       t # u /\ at[t] # "idle" /\ at[u] # "idle" /\ ctx[t] = ctx[u] =>
         at[t] \in {"total", "remaining", "one"}
  /\ exit # "done" => \A c \in infoMap :
       allocated \/ \E t \in Threads : /\ ctx[t] = c
                                       /\ at[t] \in {"configure", "allocate"}

\* A context that has been destroyed, or is but for its entry in the map.
Dead(c) == \/ c \notin infoMap /\ info[c] # "none"
           \/ \E t \in Threads : ctx[t] = c /\ at[t] = "erase"

\* Disabled contexts are empty but for their configuration buffers.
QuietInv ==
  /\ running \subseteq infoMap
  /\ \A c \in Contexts \ infoMap : hw[c] = {} /\ rest[c] = {}
  /\ \A c \in Contexts : info[c] = "none" => buf[c] = {}
  /\ \A t \in Threads : at[t] \in {"queueLate", "erase"} =>
       ctx[t] \notin running /\ hw[ctx[t]] = {} /\ rest[ctx[t]] = {}

\* What a stopping request has emptied stays empty.
StopInv ==
  /\ rpc = "stopping" =>
       running \subseteq left /\ \A c \in Contexts \ left : hw[c] = {}
  /\ rpc \in {"collectRest", "join"} \/ (rpc = "idle" /\ ~conf.noRPC) =>
       running = {} /\ \A c \in Contexts : hw[c] = {}
  /\ rpc = "collectRest" => \A c \in infoMap \ left :
       (at[Handler] = "any" /\ ctx[Handler] = c) \/ (rest[c] = {} /\ buf[c] = {})
  /\ rpc = "join" \/ (rpc = "idle" /\ ~conf.noRPC) => \A c \in Contexts :
       rest[c] = {} /\ (buf[c] = {} \/ Dead(c))

\* A configuration buffer is queued once, when its context is dead, and then
\* what it holds is in the queue or in a reply.
Queued(c) == \E i \in DOMAIN queue : queue[i].conf /\ queue[i].ctx = c

ConfInv ==
  /\ \A c \in Contexts : Queued(c) => Dead(c)
  /\ \A i \in DOMAIN queue : queue[i].conf => queue[i].slot = {}
  /\ \A i, j \in DOMAIN queue :
       i # j /\ queue[i].conf /\ queue[j].conf => queue[i].ctx # queue[j].ctx
  /\ \A c \in Contexts : Dead(c) => \A r \in buf[c] : copied[r] = 1 \/ Queued(c)

\* The same record is not in two places of CUPTI.
CuptiInv ==
  \A c, d \in Contexts :
    /\ c # d => /\ hw[c] \cap hw[d] = {} /\ rest[c] \cap rest[d] = {}
                /\ buf[c] \cap buf[d] = {}
    /\ hw[c] \cap rest[d] = {} /\ hw[c] \cap buf[d] = {}
    /\ rest[c] \cap buf[d] = {}

\* ... nor in one of CUPTI and one of samprof, nor in two of samprof.
PlaceInv ==
  /\ \A p \in Procs : \A r \in held[p] :
       /\ ~InCupti(r)
       /\ \A q \in Procs \ {p} : r \notin held[q]
       /\ \A i \in DOMAIN queue : r \notin queue[i].slot
  /\ \A i \in DOMAIN queue : \A r \in queue[i].slot :
       /\ ~InCupti(r)
       /\ \A j \in DOMAIN queue \ {i} : r \notin queue[j].slot

\* A record in a reply is nowhere else, but in a dead configuration buffer
\* that is not in the queue any more.
CopiedInv ==
  \A r \in Records :
    /\ copied[r] <= 1
    /\ copied[r] = 1 =>
         /\ ~InHand(r) /\ ~InQueue(r)
         /\ \A c \in Contexts : /\ r \notin hw[c] \cup rest[c]
                                /\ r \in buf[c] => Dead(c)

\* Records that have not been taken are nowhere.
FreshInv ==
  \A r \in Records : r > made =>
    /\ copied[r] = 0 /\ ~InCupti(r) /\ ~InHand(r)
    /\ \A i \in DOMAIN queue : r \notin queue[i].slot

-----------------------------------------------------------------------------
(* Lemmas about sequences, and about the records that are taken.           *)

LEMMA AppendLemma ==
  ASSUME NEW S, NEW q \in Seq(S), NEW e \in S
  PROVE  /\ Append(q, e) \in Seq(S)
         /\ Len(q) \in Nat /\ DOMAIN q = 1 .. Len(q)
         /\ DOMAIN Append(q, e) = DOMAIN q \cup {Len(q) + 1}
         /\ Len(q) + 1 \notin DOMAIN q
         /\ Append(q, e)[Len(q) + 1] = e
         /\ \A i \in DOMAIN q : Append(q, e)[i] = q[i]
PROOF
<1>1. PICK n \in Nat : n = Len(q)
  OBVIOUS
<1>2. DOMAIN q = 1 .. n
  BY <1>1
<1>3. DOMAIN Append(q, e) = 1 .. n + 1
  BY <1>1
<1>4. 1 .. n + 1 = (1 .. n) \cup {n + 1} /\ n + 1 \notin 1 .. n
  OBVIOUS
<1>5. Append(q, e)[n + 1] = e /\ \A i \in 1 .. n : Append(q, e)[i] = q[i]
  BY <1>1
<1>. QED  BY <1>1, <1>2, <1>3, <1>4, <1>5

LEMMA TailLemma ==
  ASSUME NEW S, NEW q \in Seq(S), q # <<>>
  PROVE  /\ Tail(q) \in Seq(S) /\ Head(q) = q[1] /\ 1 \in DOMAIN q
         /\ \A i \in DOMAIN Tail(q) :
              i \in Int /\ i + 1 \in DOMAIN q /\ i + 1 # 1 /\ Tail(q)[i] = q[i + 1]
         /\ \A j \in DOMAIN q :
              j # 1 => j - 1 \in DOMAIN Tail(q) /\ Tail(q)[j - 1] = q[j]
PROOF
<1>1. PICK n \in Nat : n = Len(q) /\ n > 0
  OBVIOUS
<1>2. DOMAIN q = 1 .. n /\ DOMAIN Tail(q) = 1 .. n - 1
  BY <1>1
<1>3. \A i \in 1 .. n - 1 : Tail(q)[i] = q[i + 1]
  BY <1>1
<1>4. \A i \in 1 .. n - 1 : i \in Int /\ i + 1 \in 1 .. n /\ i + 1 # 1
  OBVIOUS
<1>5. \A j \in 1 .. n : j # 1 => j - 1 \in 1 .. n - 1 /\ (j - 1) + 1 = j
  OBVIOUS
<1>6. Tail(q) \in Seq(S) /\ Head(q) = q[1] /\ 1 \in DOMAIN q
  BY <1>1, <1>2
<1>7. \A j \in 1 .. n : j # 1 => Tail(q)[j - 1] = q[j]
  BY <1>3, <1>5
<1>. QED  BY <1>2, <1>3, <1>4, <1>5, <1>6, <1>7

\* What is taken from a set of records is part of it.
LEMMA OldestLemma == \A S, n : Oldest(S, n) \subseteq S
PROOF BY DEF Oldest

LEMMA BatchLemma == \A c : Batch(c) \subseteq buf[c] \cup rest[c]
PROOF BY OldestLemma DEF Batch

\* The steps of the specification, one by one.
LEMMA NextLemma ==
  ASSUME [Next]_vars
  PROVE  \/ \E c \in Contexts : \/ Sample(c) \/ KernelEnds(c) \/ StartContext(c)
                                \/ CollectContext(c) \/ StopContext(c)
         \/ \E t \in Threads, c \in Contexts :
              \/ ContextCreated(t, c) \/ ContextDestroyStarting(t, c)
              \/ ModuleLoaded(t, c) \/ LaunchReturns(t, c)
         \/ \E t \in Threads :
              \/ ConfigureActivity(t) \/ PreallocateBuffersForRecords(t)
              \/ DisableContext(t) \/ QueueLate(t) \/ EraseContext(t)
         \/ \E p \in Procs : Fetch(p) \/ Loops(p) \/ Push(p)
         \/ StartHandler \/ SetStarted \/ SpawnCopier \/ StopHandler \/ LookAgain
         \/ StopContexts \/ CollectRest \/ ClearStarted \/ JoinCopier
         \/ ReadStopped \/ CopyFront \/ CopierQuits
         \/ AtExitHandler \/ DisableAll \/ Finish \/ FreePreallocatedMemory
         \/ UNCHANGED vars
PROOF
<1>1. Threads \subseteq Procs /\ Handler \in Procs
  BY DEF Procs
<1>. QED  BY <1>1 DEF Next, Callback, Request, Copier, Exit, Ended

-----------------------------------------------------------------------------
(* Types.                                                                  *)

LEMMA TypeInit == SizesAssumption /\ SettingsAssumption /\ Init => TypeInv
PROOF
<1> SUFFICES ASSUME SizesAssumption, SettingsAssumption, Init PROVE TypeInv
  OBVIOUS
<1>1. /\ queue = <<>> /\ queue \in Seq(Entries) /\ DOMAIN queue = {}
      /\ made = 0 /\ 0 \in 0 .. MaxRecords
  BY DEF Init, SizesAssumption
<1>2. started \in BOOLEAN /\ conf \in Settings
  BY DEF Init, SettingsAssumption
<1>3. copied \in [Records -> Nat] /\ held \in [Procs -> SUBSET Records]
  BY DEF Init
<1>. QED  BY <1>1, <1>2, <1>3 DEF Init, TypeInv, TypeOK, Empty

\* A queue that gets one more entry, or loses its first.
LEMMA QueueTypes ==
  ASSUME TypeInv
  PROVE  /\ \A e \in Entries : queue' = Append(queue, e) => queue' \in Seq(Entries)
         /\ queue # <<>> /\ queue' = Tail(queue) => queue' \in Seq(Entries)
         /\ queue' \in Seq(Entries) => \A i \in DOMAIN queue' : queue'[i] \in Entries
PROOF
<1>1. queue \in Seq(Entries)
  BY DEF TypeInv
<1>2. queue' \in Seq(Entries) => \A i \in DOMAIN queue' : queue'[i] \in Entries
  OBVIOUS
<1>. QED  BY <1>1, <1>2, AppendLemma, TailLemma

LEMMA TypeStep == SizesAssumption /\ TypeInv /\ [Next]_vars => TypeInv'
PROOF
<1> SUFFICES ASSUME SizesAssumption, TypeInv, [Next]_vars PROVE TypeInv'
  OBVIOUS
<1>. USE DEF infos, cupti, procs, copy
<1>1. /\ conf \in Settings
      /\ infoMap \subseteq Contexts /\ running \subseteq Contexts
      /\ \A c \in infoMap : info[c] \notin {"none", "toFree"}
      /\ info \in [Contexts -> {"none", "zeroed", "ready", "toFree", "freed"}]
      /\ allocated \in BOOLEAN /\ started \in BOOLEAN
      /\ made \in 0 .. MaxRecords /\ MaxRecords \in Nat
      /\ hw \in [Contexts -> SUBSET Records]
      /\ rest \in [Contexts -> SUBSET Records]
      /\ buf \in [Contexts -> SUBSET Records]
      /\ at \in [Procs -> {"idle", "total", "remaining", "any", "late", "one",
                           "configure", "allocate", "queueLate", "erase"}]
      /\ ctx \in [Procs -> Contexts] /\ held \in [Procs -> SUBSET Records]
      /\ step \in [Procs -> {"test", "get", "push"}]
      /\ left \subseteq Contexts /\ due \subseteq Records
      /\ copied \in [Records -> Nat]
      /\ cpc \in {"none", "run", "last", "done"}
      /\ rpc \in {"idle", "starting", "spawn", "sleep", "collect", "stopping",
                  "collectRest", "join"}
      /\ exit \in {"no", "wait", "join", "free", "done"}
      /\ queue \in Seq(Entries)
      /\ Threads \subseteq Procs /\ Handler \in Procs
  BY DEF TypeInv, TypeOK, SizesAssumption, Procs
<1>2. UNCHANGED queue => queue' \in Seq(Entries)
  BY <1>1
<1>3. queue' \in Seq(Entries) => \A i \in DOMAIN queue' : queue'[i] \in Entries
  BY QueueTypes
<1>4. ASSUME NEW c \in Contexts, Sample(c) PROVE TypeInv'
  <2>1. made + 1 \in Records /\ made' \in 0 .. MaxRecords
    BY <1>1, <1>4 DEF Sample, Records
  <2>. QED  BY <1>1, <1>2, <1>3, <1>4, <2>1
               DEF TypeInv, TypeOK, Sample
<1>5. ASSUME NEW c \in Contexts, KernelEnds(c) PROVE TypeInv'
  BY <1>1, <1>2, <1>3, <1>5, OldestLemma
     DEF TypeInv, TypeOK, KernelEnds, Flush
<1>6. ASSUME NEW c \in Contexts, StartContext(c) PROVE TypeInv'
  BY <1>1, <1>2, <1>3, <1>6
     DEF TypeInv, TypeOK, StartContext
<1>7. ASSUME NEW c \in Contexts, CollectContext(c) PROVE TypeInv'
  BY <1>1, <1>2, <1>3, <1>7
     DEF TypeInv, TypeOK, CollectContext, Go
<1>8. ASSUME NEW c \in Contexts, StopContext(c) PROVE TypeInv'
  BY <1>1, <1>2, <1>3, <1>8
     DEF TypeInv, TypeOK, StopContext
<1>9. ASSUME NEW t \in Threads, NEW c \in Contexts, ContextCreated(t, c) PROVE TypeInv'
  BY <1>1, <1>2, <1>3, <1>9
     DEF TypeInv, TypeOK, ContextCreated, Enter, Go
<1>10. ASSUME NEW t \in Threads, NEW c \in Contexts, ContextDestroyStarting(t, c) PROVE TypeInv'
  BY <1>1, <1>2, <1>3, <1>10
     DEF TypeInv, TypeOK, ContextDestroyStarting, Enter, Go
<1>11. ASSUME NEW t \in Threads, NEW c \in Contexts, ModuleLoaded(t, c) PROVE TypeInv'
  BY <1>1, <1>2, <1>3, <1>11, OldestLemma
     DEF TypeInv, TypeOK, ModuleLoaded, Enter, Go, Flush
<1>12. ASSUME NEW t \in Threads, NEW c \in Contexts, LaunchReturns(t, c) PROVE TypeInv'
  <2>1. PICK place \in {"total", "one"} : Enter(t, c, place)
    BY <1>12 DEF LaunchReturns
  <2>2. UNCHANGED <<infos, hw, rest, buf, queue>> /\ step' \in [Procs -> {"test", "get", "push"}]
    BY <1>1, <1>12 DEF LaunchReturns, At
  <2>3. at' = [at EXCEPT ![t] = place] /\ ctx' = [ctx EXCEPT ![t] = c]
        /\ UNCHANGED <<conf, running, made, held, left, copied, cpc, started, rpc, exit, due>>
    BY <2>1 DEF Enter, Go
  <2>. QED  BY <1>1, <1>2, <1>3, <2>1, <2>2, <2>3 DEF TypeInv, TypeOK
<1>13. ASSUME NEW t \in Threads, ConfigureActivity(t) PROVE TypeInv'
  BY <1>1, <1>2, <1>3, <1>13
     DEF TypeInv, TypeOK, ConfigureActivity, Go
<1>14. ASSUME NEW t \in Threads, PreallocateBuffersForRecords(t) PROVE TypeInv'
  BY <1>1, <1>2, <1>3, <1>14
     DEF TypeInv, TypeOK, PreallocateBuffersForRecords, Go
<1>15. ASSUME NEW t \in Threads, DisableContext(t) PROVE TypeInv'
  BY <1>1, <1>2, <1>3, <1>15
     DEF TypeInv, TypeOK, DisableContext, Go
<1>16. ASSUME NEW t \in Threads, QueueLate(t) PROVE TypeInv'
  <2>1. queue' \in Seq(Entries)
    <3>1. [ctx |-> ctx[t], slot |-> {}, conf |-> TRUE] \in Entries
      BY <1>1 DEF Entries
    <3>. QED  BY <1>1, <1>16, <3>1, QueueTypes DEF QueueLate, QueueConf
  <2>. QED  BY <1>1, <1>2, <1>3, <1>16, <2>1
               DEF TypeInv, TypeOK, QueueLate, Go
<1>17. ASSUME NEW t \in Threads, EraseContext(t) PROVE TypeInv'
  BY <1>1, <1>2, <1>3, <1>17
     DEF TypeInv, TypeOK, EraseContext, Go
<1>18. ASSUME NEW p \in Procs, Fetch(p) PROVE TypeInv'
  BY <1>1, <1>2, <1>3, <1>18, BatchLemma
     DEF TypeInv, TypeOK, Fetch, At
<1>19. ASSUME NEW p \in Procs, Loops(p) PROVE TypeInv'
  BY <1>1, <1>2, <1>3, <1>19
     DEF TypeInv, TypeOK, Loops, At, Go
<1>20. ASSUME NEW p \in Procs, Push(p) PROVE TypeInv'
  <2>1. queue' \in Seq(Entries)
    <3>1. [ctx |-> ctx[p], slot |-> held[p], conf |-> FALSE] \in Entries
      BY <1>1 DEF Entries
    <3>. QED  BY <1>20, <3>1, QueueTypes DEF Push, Slot
  <2>. QED  BY <1>1, <1>2, <1>3, <1>20, <2>1
               DEF TypeInv, TypeOK, Push, At, Go
<1>21. ASSUME StartHandler PROVE TypeInv'
  BY <1>1, <1>2, <1>3, <1>21
     DEF TypeInv, TypeOK, StartHandler
<1>22. ASSUME SetStarted PROVE TypeInv'
  BY <1>1, <1>2, <1>3, <1>22
     DEF TypeInv, TypeOK, SetStarted
<1>23. ASSUME SpawnCopier PROVE TypeInv'
  BY <1>1, <1>2, <1>3, <1>23
     DEF TypeInv, TypeOK, SpawnCopier
<1>24. ASSUME StopHandler PROVE TypeInv'
  BY <1>1, <1>2, <1>3, <1>24
     DEF TypeInv, TypeOK, StopHandler
<1>25. ASSUME LookAgain PROVE TypeInv'
  <2>1. queue' \in Seq(Entries)
    <3>1. [ctx |-> ctx[Handler], slot |-> {}, conf |-> TRUE] \in Entries
      BY <1>1 DEF Entries
    <3>. QED  BY <1>1, <1>25, <3>1, QueueTypes DEF LookAgain, QueueConf
  <2>. QED  BY <1>1, <1>2, <1>3, <1>25, <2>1
               DEF TypeInv, TypeOK, LookAgain, Go
<1>26. ASSUME StopContexts PROVE TypeInv'
  BY <1>1, <1>2, <1>3, <1>26
     DEF TypeInv, TypeOK, StopContexts, Collected
<1>27. ASSUME CollectRest PROVE TypeInv'
  BY <1>1, <1>2, <1>3, <1>27
     DEF TypeInv, TypeOK, CollectRest
<1>28. ASSUME ClearStarted PROVE TypeInv'
  BY <1>1, <1>2, <1>3, <1>28
     DEF TypeInv, TypeOK, ClearStarted, Collected
<1>29. ASSUME JoinCopier PROVE TypeInv'
  BY <1>1, <1>2, <1>3, <1>29
     DEF TypeInv, TypeOK, JoinCopier
<1>30. ASSUME ReadStopped PROVE TypeInv'
  BY <1>1, <1>2, <1>3, <1>30
     DEF TypeInv, TypeOK, ReadStopped
<1>31. ASSUME CopyFront PROVE TypeInv'
  <2>1. queue' \in Seq(Entries)
    BY <1>31, QueueTypes DEF CopyFront
  <2>. QED  BY <1>1, <1>2, <1>3, <1>31, <2>1
               DEF TypeInv, TypeOK, CopyFront
<1>32. ASSUME CopierQuits PROVE TypeInv'
  BY <1>1, <1>2, <1>3, <1>32
     DEF TypeInv, TypeOK, CopierQuits
<1>33. ASSUME AtExitHandler PROVE TypeInv'
  BY <1>1, <1>2, <1>3, <1>33
     DEF TypeInv, TypeOK, AtExitHandler, Records
<1>34. ASSUME DisableAll PROVE TypeInv'
  BY <1>1, <1>2, <1>3, <1>34
     DEF TypeInv, TypeOK, DisableAll
<1>35. ASSUME Finish PROVE TypeInv'
  BY <1>1, <1>2, <1>3, <1>35
     DEF TypeInv, TypeOK, Finish
<1>36. ASSUME FreePreallocatedMemory PROVE TypeInv'
  BY <1>1, <1>2, <1>3, <1>36
     DEF TypeInv, TypeOK, FreePreallocatedMemory
<1>37. ASSUME UNCHANGED vars PROVE TypeInv'
  BY <1>1, <1>2, <1>3, <1>37
     DEF TypeInv, TypeOK, vars
<1>. QED  BY NextLemma,
            <1>4, <1>5, <1>6, <1>7, <1>8, <1>9, <1>10, <1>11, <1>12, <1>13, <1>14, <1>15, <1>16, <1>17, <1>18, <1>19, <1>20, <1>21, <1>22, <1>23, <1>24, <1>25, <1>26, <1>27, <1>28, <1>29, <1>30, <1>31, <1>32, <1>33, <1>34, <1>35, <1>36, <1>37

LEMMA TypeAlways == Spec => []TypeInv
PROOF
<1>1. SizesAssumption /\ SettingsAssumption
  BY SizesAssumption, SettingsAssumption
<1>. QED  BY <1>1, TypeInit, TypeStep, PTL DEF Spec

\* The types of PcSampling: in particular what is to be freed at exit has left
\* the map of contexts, so no ContextInfo is freed twice.
THEOREM PcTypes == Spec => []TypeOK
PROOF
<1>1. TypeInv => TypeOK
  BY DEF TypeInv
<1>. QED  BY <1>1, TypeAlways, PTL

-----------------------------------------------------------------------------
(* How far a collecting thread is.                                         *)

LEMMA StepStep ==
  ASSUME TypeInv, StepInv, [Next]_vars
  PROVE  StepInv'
PROOF
<1>. USE DEF procs, Collecting
<1>1. /\ at \in [Procs -> {"idle", "total", "remaining", "any", "late", "one",
                           "configure", "allocate", "queueLate", "erase"}]
      /\ step \in [Procs -> {"test", "get", "push"}]
      /\ held \in [Procs -> SUBSET Records]
      /\ Threads \subseteq Procs /\ Handler \in Procs
  BY DEF TypeInv, TypeOK, Procs
<1>2. \A p \in Procs : /\ step[p] # "test" => at[p] \in Collecting
                       /\ step[p] # "push" => held[p] = {}
                       /\ at[p] = "one" => step[p] # "test"
  BY DEF StepInv
<1>3. ASSUME UNCHANGED <<at, step, held>> PROVE StepInv'
  BY <1>3 DEF StepInv
<1>4. ASSUME NEW p \in Procs, NEW place,
             at[p] \notin Collecting \/ step[p] = "test", place # "one",
             Go(p, place), UNCHANGED <<step, held>>
      PROVE  StepInv'
  BY <1>1, <1>2, <1>4 DEF StepInv, Go
<1>5. ASSUME NEW t \in Threads, NEW c \in Contexts,
             \/ ContextCreated(t, c) \/ ContextDestroyStarting(t, c) \/ ModuleLoaded(t, c)
      PROVE  StepInv'
  <2>1. PICK place \in {"configure", "any", "total"} : Enter(t, c, place)
    BY <1>5 DEF ContextCreated, ContextDestroyStarting, ModuleLoaded
  <2>2. UNCHANGED step
    BY <1>5 DEF ContextCreated, ContextDestroyStarting, ModuleLoaded
  <2>. QED  BY <1>1, <1>4, <2>1, <2>2 DEF Enter
<1>6. ASSUME NEW t \in Threads, NEW c \in Contexts, LaunchReturns(t, c) PROVE StepInv'
  <2>1. CASE Enter(t, c, "total") /\ UNCHANGED step
    BY <1>1, <1>4, <2>1 DEF Enter
  <2>2. CASE Enter(t, c, "one") /\ At(t, "get")
    BY <1>1, <1>2, <2>2 DEF Enter, Go, At, StepInv
  <2>. QED  BY <1>6, <2>1, <2>2 DEF LaunchReturns
<1>7. ASSUME NEW t \in Threads,
             \/ ConfigureActivity(t) \/ PreallocateBuffersForRecords(t)
             \/ DisableContext(t) \/ QueueLate(t) \/ EraseContext(t)
      PROVE  StepInv'
  <2>1. PICK place \in {"allocate", "idle", "queueLate", "erase"} : Go(t, place)
    BY <1>7 DEF ConfigureActivity, PreallocateBuffersForRecords, DisableContext,
                QueueLate, EraseContext
  <2>2. at[t] \notin Collecting /\ UNCHANGED <<step, held>>
    BY <1>7 DEF ConfigureActivity, PreallocateBuffersForRecords, DisableContext,
                QueueLate, EraseContext
  <2>. QED  BY <1>1, <1>4, <2>1, <2>2
<1>8. ASSUME NEW p \in Procs, Fetch(p) PROVE StepInv'
  BY <1>1, <1>2, <1>8 DEF StepInv, Fetch, At
<1>9. ASSUME NEW p \in Procs, Loops(p) PROVE StepInv'
  <2>1. CASE GoesOn(p)
    BY <1>1, <1>2, <1>9, <2>1 DEF StepInv, Loops, At
  <2>2. CASE ~GoesOn(p)
    BY <1>1, <1>4, <1>9, <2>2 DEF Loops
  <2>. QED  BY <2>1, <2>2
<1>10. ASSUME NEW p \in Procs, Push(p) PROVE StepInv'
  BY <1>1, <1>2, <1>10 DEF StepInv, Push, At, Go
<1>11. ASSUME NEW c \in Contexts, CollectContext(c) PROVE StepInv'
  BY <1>1, <1>4, <1>11 DEF CollectContext
<1>12. ASSUME LookAgain PROVE StepInv'
  BY <1>1, <1>4, <1>12 DEF LookAgain
<1>13. ASSUME NEW c \in Contexts,
              Sample(c) \/ KernelEnds(c) \/ StartContext(c) \/ StopContext(c)
       PROVE  StepInv'
  BY <1>3, <1>13 DEF Sample, KernelEnds, StartContext, StopContext
<1>14. ASSUME \/ StartHandler \/ SetStarted \/ SpawnCopier \/ StopHandler
              \/ StopContexts \/ CollectRest \/ ClearStarted \/ JoinCopier
       PROVE  StepInv'
  BY <1>3, <1>14 DEF StartHandler, SetStarted, SpawnCopier, StopHandler, StopContexts,
                     CollectRest, ClearStarted, JoinCopier
<1>15. ASSUME \/ ReadStopped \/ CopyFront \/ CopierQuits \/ AtExitHandler
              \/ DisableAll \/ Finish \/ FreePreallocatedMemory \/ UNCHANGED vars
       PROVE  StepInv'
  BY <1>3, <1>15 DEF ReadStopped, CopyFront, CopierQuits, AtExitHandler, DisableAll,
                     Finish, FreePreallocatedMemory, vars
<1>. QED  BY NextLemma, <1>5, <1>6, <1>7, <1>8, <1>9, <1>10, <1>11, <1>12, <1>13,
             <1>14, <1>15

LEMMA StepAlways == Spec => []StepInv
PROOF
<1>1. Init => StepInv
  BY DEF Init, StepInv
<1>. QED  BY <1>1, StepStep, TypeAlways, PTL DEF Spec

-----------------------------------------------------------------------------
(* No sample is lost.                                                      *)

\* Steps that leave every record where it is.
StandStill == UNCHANGED <<made, hw, rest, buf, held, queue, copied>>

LEMMA MovesLemma ==
  ASSUME [Next]_vars
  PROVE  \/ StandStill
         \/ \E c \in Contexts : Sample(c) \/ KernelEnds(c) \/ StopContext(c)
         \/ \E t \in Threads, c \in Contexts : ModuleLoaded(t, c)
         \/ \E t \in Threads : DisableContext(t) \/ QueueLate(t)
         \/ \E p \in Procs : Fetch(p) \/ Push(p)
         \/ LookAgain \/ CopyFront \/ DisableAll
PROOF
<1>. USE DEF infos, cupti, procs, copy
<1>1. ASSUME NEW c \in Contexts, StartContext(c) \/ CollectContext(c)
      PROVE  StandStill
  BY <1>1 DEF StandStill, StartContext, CollectContext
<1>2. ASSUME NEW t \in Threads, NEW c \in Contexts,
             \/ ContextCreated(t, c) \/ ContextDestroyStarting(t, c)
             \/ LaunchReturns(t, c)
      PROVE  StandStill
  BY <1>2 DEF StandStill, ContextCreated, ContextDestroyStarting, LaunchReturns, Enter
<1>3. ASSUME NEW t \in Threads,
             \/ ConfigureActivity(t) \/ PreallocateBuffersForRecords(t)
             \/ EraseContext(t)
      PROVE  StandStill
  BY <1>3 DEF StandStill, ConfigureActivity, PreallocateBuffersForRecords, EraseContext
<1>4. ASSUME NEW p \in Procs, Loops(p) PROVE StandStill
  BY <1>4 DEF StandStill, Loops
<1>5. ASSUME \/ StartHandler \/ SetStarted \/ SpawnCopier \/ StopHandler
             \/ StopContexts \/ CollectRest \/ ClearStarted \/ JoinCopier
      PROVE  StandStill
  BY <1>5 DEF StandStill, StartHandler, SetStarted, SpawnCopier, StopHandler,
              StopContexts, CollectRest, ClearStarted, JoinCopier
<1>6. ASSUME \/ ReadStopped \/ CopierQuits \/ AtExitHandler \/ Finish
             \/ FreePreallocatedMemory \/ UNCHANGED vars
      PROVE  StandStill
  BY <1>6 DEF StandStill, ReadStopped, CopierQuits, AtExitHandler, Finish,
              FreePreallocatedMemory, vars
<1>. QED  BY NextLemma, <1>1, <1>2, <1>3, <1>4, <1>5, <1>6

\* A record in a slot of the queue.
InSlot(r) == \E i \in DOMAIN queue : ~queue[i].conf /\ r \in queue[i].slot
Kept(r) == copied[r] > 0 \/ InCupti(r) \/ InSlot(r) \/ InHand(r)

\* Records in the hands of no-one but CUPTI stay with it unless they are fetched.
LEMMA KeptLemma ==
  ASSUME TypeInv, NEW r \in Records, Kept(r), UNCHANGED <<held, queue, copied>>,
         \A c \in Contexts : hw[c] \cup rest[c] \cup buf[c]
                               \subseteq hw'[c] \cup rest'[c] \cup buf'[c]
  PROVE  Kept(r)'
PROOF BY DEF Kept, InCupti, InSlot, InHand

LEMMA KeptStep ==
  ASSUME SizesAssumption, TypeInv, StepInv, [Next]_vars,
         \A r \in 1 .. made : Kept(r)
  PROVE  \A r \in 1 .. made' : Kept(r)'
PROOF
<1>. USE DEF infos, cupti, procs, copy
<1>1. /\ hw \in [Contexts -> SUBSET Records]
      /\ rest \in [Contexts -> SUBSET Records]
      /\ buf \in [Contexts -> SUBSET Records]
      /\ ctx \in [Procs -> Contexts] /\ held \in [Procs -> SUBSET Records]
      /\ made \in 0 .. MaxRecords /\ MaxRecords \in Nat
      /\ copied \in [Records -> Nat] /\ queue \in Seq(Entries)
      /\ Threads \subseteq Procs /\ Handler \in Procs
  BY DEF TypeInv, TypeOK, SizesAssumption, Procs
<1>2. 1 .. made \subseteq Records
  BY <1>1 DEF Records
<1>3. ASSUME StandStill PROVE \A r \in 1 .. made' : Kept(r)'
  BY <1>2, <1>3, KeptLemma DEF StandStill
<1>4. ASSUME NEW c \in Contexts, Sample(c) PROVE \A r \in 1 .. made' : Kept(r)'
  <2>1. \A d \in Contexts : hw[d] \cup rest[d] \cup buf[d]
                              \subseteq hw'[d] \cup rest'[d] \cup buf'[d]
    BY <1>1, <1>4 DEF Sample
  <2>2. \A r \in 1 .. made : Kept(r)'
    BY <1>2, <1>4, <2>1, KeptLemma DEF Sample
  <2>3. made + 1 \in hw'[c] /\ 1 .. made' = (1 .. made) \cup {made + 1}
    BY <1>1, <1>4 DEF Sample
  <2>4. ASSUME NEW r \in Records, r = made + 1 PROVE Kept(r)'
    <3>1. r \in hw'[c]
      BY <2>3, <2>4
    <3>. QED  BY <3>1 DEF Kept, InCupti
  <2>5. made + 1 \in Records
    BY <1>1, <1>4 DEF Sample, Records
  <2>. QED  BY <2>2, <2>3, <2>4, <2>5
<1>5. ASSUME NEW c \in Contexts, KernelEnds(c) PROVE \A r \in 1 .. made' : Kept(r)'
  <2>1. \A d \in Contexts : hw[d] \cup rest[d] \cup buf[d]
                              \subseteq hw'[d] \cup rest'[d] \cup buf'[d]
    BY <1>1, <1>5 DEF KernelEnds, Flush
  <2>. QED  BY <1>2, <1>5, <2>1, KeptLemma DEF KernelEnds
<1>6. ASSUME NEW c \in Contexts, StopContext(c) PROVE \A r \in 1 .. made' : Kept(r)'
  <2>1. \A d \in Contexts : hw[d] \cup rest[d] \cup buf[d]
                              \subseteq hw'[d] \cup rest'[d] \cup buf'[d]
    BY <1>1, <1>6 DEF StopContext
  <2>. QED  BY <1>2, <1>6, <2>1, KeptLemma DEF StopContext
<1>7. ASSUME NEW t \in Threads, NEW c \in Contexts, ModuleLoaded(t, c)
      PROVE  \A r \in 1 .. made' : Kept(r)'
  <2>1. \A d \in Contexts : hw[d] \cup rest[d] \cup buf[d]
                              \subseteq hw'[d] \cup rest'[d] \cup buf'[d]
    BY <1>1, <1>7 DEF ModuleLoaded, Flush
  <2>. QED  BY <1>2, <1>7, <2>1, KeptLemma DEF ModuleLoaded, Enter
<1>8. ASSUME NEW t \in Threads, DisableContext(t)
      PROVE  \A r \in 1 .. made' : Kept(r)'
  <2>1. \A d \in Contexts : hw[d] \cup rest[d] \cup buf[d]
                              \subseteq hw'[d] \cup rest'[d] \cup buf'[d]
    BY <1>1, <1>8 DEF DisableContext
  <2>. QED  BY <1>2, <1>8, <2>1, KeptLemma DEF DisableContext
<1>9. ASSUME DisableAll PROVE \A r \in 1 .. made' : Kept(r)'
  <2>1. \A d \in Contexts : hw[d] \cup rest[d] \cup buf[d]
                              \subseteq hw'[d] \cup rest'[d] \cup buf'[d]
    BY <1>1, <1>9 DEF DisableAll
  <2>. QED  BY <1>2, <1>9, <2>1, KeptLemma DEF DisableAll
<1>10. ASSUME NEW p \in Procs, Fetch(p) PROVE \A r \in 1 .. made' : Kept(r)'
  <2>1. /\ UNCHANGED <<made, hw, copied, queue>>
        /\ \A d \in Contexts \ {ctx[p]} : rest'[d] = rest[d] /\ buf'[d] = buf[d]
        /\ rest'[ctx[p]] = rest[ctx[p]] \ Batch(ctx[p])
        /\ buf'[ctx[p]] = buf[ctx[p]] \ Batch(ctx[p])
        /\ held'[p] = Batch(ctx[p]) /\ held[p] = {}
        /\ \A q \in Procs \ {p} : held'[q] = held[q]
    BY <1>1, <1>10 DEF Fetch, StepInv
  <2>2. ASSUME NEW r \in 1 .. made, NEW d \in Contexts,
               r \in hw[d] \cup rest[d] \cup buf[d]
        PROVE  Kept(r)'
    <3>1. CASE d = ctx[p] /\ r \in Batch(ctx[p])
      BY <2>1, <3>1 DEF Kept, InHand
    <3>2. CASE ~(d = ctx[p] /\ r \in Batch(ctx[p]))
      <4>1. r \in hw'[d] \cup rest'[d] \cup buf'[d]
        BY <1>1, <2>1, <2>2, <3>2
      <4>. QED  BY <4>1 DEF Kept, InCupti
    <3>. QED  BY <3>1, <3>2
  <2>3. ASSUME NEW r \in 1 .. made, InHand(r) PROVE Kept(r)'
    BY <2>1, <2>3 DEF Kept, InHand
  <2>4. ASSUME NEW r \in 1 .. made, copied[r] > 0 \/ InSlot(r) PROVE Kept(r)'
    BY <2>1, <2>4 DEF Kept, InSlot
  <2>. QED  BY <2>1, <2>2, <2>3, <2>4 DEF Kept, InCupti
<1>11. ASSUME NEW p \in Procs, Push(p) PROVE \A r \in 1 .. made' : Kept(r)'
  <2>. DEFINE e == [ctx |-> ctx[p], slot |-> held[p], conf |-> FALSE]
  <2>1. /\ UNCHANGED <<made, hw, rest, buf, copied>>
        /\ queue' = Append(queue, e)
        /\ \A q \in Procs \ {p} : held'[q] = held[q]
    BY <1>1, <1>11 DEF Push, Slot
  <2>2. e \in Entries /\ e.slot = held[p] /\ ~e.conf
    BY <1>1 DEF Entries
  <2>. HIDE DEF e
  <2>3. /\ \A i \in DOMAIN queue : i \in DOMAIN queue' /\ queue'[i] = queue[i]
        /\ \E i \in DOMAIN queue' : queue'[i] = e
    BY <1>1, <2>1, <2>2, AppendLemma
  <2>4. ASSUME NEW r \in 1 .. made, InHand(r) PROVE Kept(r)'
    <3>1. PICK q \in Procs : r \in held[q]
      BY <2>4 DEF InHand
    <3>2. CASE q = p
      BY <2>2, <2>3, <3>1, <3>2 DEF Kept, InSlot
    <3>3. CASE q # p
      BY <2>1, <3>1, <3>3 DEF Kept, InHand
    <3>. QED  BY <3>2, <3>3
  <2>5. ASSUME NEW r \in 1 .. made, InSlot(r) PROVE Kept(r)'
    BY <2>3, <2>5 DEF Kept, InSlot
  <2>6. ASSUME NEW r \in 1 .. made, copied[r] > 0 \/ InCupti(r) PROVE Kept(r)'
    BY <2>1, <2>6 DEF Kept, InCupti
  <2>. QED  BY <2>1, <2>4, <2>5, <2>6 DEF Kept
<1>12. ASSUME NEW p \in Procs, UNCHANGED <<made, hw, rest, buf, copied, held>>,
              QueueConf(p)
       PROVE  \A r \in 1 .. made' : Kept(r)'
  <2>1. \A i \in DOMAIN queue : i \in DOMAIN queue' /\ queue'[i] = queue[i]
    <3>1. [ctx |-> ctx[p], slot |-> {}, conf |-> TRUE] \in Entries
      BY <1>1 DEF Entries
    <3>. QED  BY <1>1, <1>12, <3>1, AppendLemma DEF QueueConf
  <2>. QED  BY <1>12, <2>1 DEF Kept, InCupti, InSlot, InHand
<1>13. ASSUME CopyFront PROVE \A r \in 1 .. made' : Kept(r)'
  <2>1. /\ UNCHANGED <<made, hw, rest, buf, held>>
        /\ queue # <<>> /\ queue' = Tail(queue)
        /\ copied' = [r \in Records |-> IF r \in Contents(Head(queue))
                                        THEN copied[r] + 1 ELSE copied[r]]
    BY <1>13 DEF CopyFront
  <2>2. /\ Head(queue) = queue[1]
        /\ \A j \in DOMAIN queue :
             j # 1 => j - 1 \in DOMAIN queue' /\ queue'[j - 1] = queue[j]
    BY <1>1, <2>1, TailLemma
  <2>3. ASSUME NEW r \in 1 .. made, InSlot(r) PROVE Kept(r)'
    <3>1. PICK i \in DOMAIN queue : ~queue[i].conf /\ r \in queue[i].slot
      BY <2>3 DEF InSlot
    <3>2. CASE i = 1
      <4>1. r \in Contents(Head(queue))
        BY <2>2, <3>1, <3>2 DEF Contents
      <4>2. copied'[r] = copied[r] + 1 /\ copied[r] \in Nat
        BY <1>1, <1>2, <2>1, <4>1
      <4>. QED  BY <4>2 DEF Kept
    <3>3. CASE i # 1
      BY <2>2, <3>1, <3>3 DEF Kept, InSlot
    <3>. QED  BY <3>2, <3>3
  <2>4. ASSUME NEW r \in 1 .. made, copied[r] > 0 PROVE Kept(r)'
    <3>1. copied'[r] \in {copied[r], copied[r] + 1} /\ copied[r] \in Nat
      BY <1>1, <1>2, <2>1
    <3>. QED  BY <2>4, <3>1 DEF Kept
  <2>5. ASSUME NEW r \in 1 .. made, InCupti(r) \/ InHand(r) PROVE Kept(r)'
    BY <2>1, <2>5 DEF Kept, InCupti, InHand
  <2>. QED  BY <2>1, <2>3, <2>4, <2>5 DEF Kept
<1>14. ASSUME NEW t \in Threads, QueueLate(t) PROVE \A r \in 1 .. made' : Kept(r)'
  BY <1>1, <1>12, <1>14 DEF QueueLate
<1>15. ASSUME LookAgain PROVE \A r \in 1 .. made' : Kept(r)'
  BY <1>1, <1>12, <1>15 DEF LookAgain
<1>. QED  BY MovesLemma, <1>3, <1>4, <1>5, <1>6, <1>7, <1>8, <1>9, <1>10, <1>11,
             <1>13, <1>14, <1>15

LEMMA KeptAlways == Spec => [](\A r \in 1 .. made : Kept(r))
PROOF
<1>. DEFINE AllKept == \A r \in 1 .. made : Kept(r)
<1>1. Init => AllKept
  BY DEF Init
<1>2. TypeInv /\ StepInv /\ AllKept /\ [Next]_vars => AllKept'
  BY SizesAssumption, KeptStep
<1>. HIDE DEF AllKept
<1>3. Spec => []AllKept
  BY <1>1, <1>2, TypeAlways, StepAlways, PTL DEF Spec
<1>. QED  BY <1>3 DEF AllKept

\* No sample is lost on its way to a reply, in any setting, whichever threads
\* collect in a context at once: it is in the hardware, in a buffer of CUPTI, in
\* a slot that is being filled, in the queue, or in a reply.
THEOREM NoSampleIsLost == Spec => []NothingLost
PROOF
<1>. DEFINE AllKept == \A r \in 1 .. made : Kept(r)
<1>1. AllKept => NothingLost
  BY DEF NothingLost, Kept, InSlot, InQueue, Contents
<1>2. Spec => []AllKept
  BY KeptAlways
<1>. HIDE DEF AllKept
<1>. QED  BY <1>1, <1>2, PTL

-----------------------------------------------------------------------------
(* The request, the exit handler, the copy thread and the callbacks.       *)

ControlInv == PhaseInv /\ StepInv /\ HandlerInv /\ UserInv

LEMMA ControlInit == HandlerAssumption /\ SettingsAssumption /\ Init => ControlInv
PROOF
<1> SUFFICES ASSUME HandlerAssumption, SettingsAssumption, Init PROVE ControlInv
  OBVIOUS
<1>1. Handler \in Procs /\ Threads \subseteq Procs
  BY DEF Procs
<1>2. PhaseInv
  BY <1>1 DEF Init, PhaseInv, SettingsAssumption, Active
<1>3. StepInv /\ HandlerInv /\ UserInv
  BY <1>1 DEF Init, StepInv, HandlerInv, UserInv, Calm
<1>. QED  BY <1>2, <1>3 DEF ControlInv

LEMMA ControlStep ==
  ASSUME HandlerAssumption, SettingsAssumption, TypeInv, ControlInv, [Next]_vars
  PROVE  ControlInv'
PROOF
<1>. USE DEF infos, cupti, procs, copy
<1>0. StepInv'
  BY StepStep DEF ControlInv
<1>1. /\ infoMap \subseteq Contexts /\ left \subseteq Contexts
      /\ \A c \in infoMap : info[c] \notin {"none", "toFree"}
      /\ info \in [Contexts -> {"none", "zeroed", "ready", "toFree", "freed"}]
      /\ allocated \in BOOLEAN /\ started \in BOOLEAN
      /\ at \in [Procs -> {"idle", "total", "remaining", "any", "late", "one",
                           "configure", "allocate", "queueLate", "erase"}]
      /\ ctx \in [Procs -> Contexts] /\ held \in [Procs -> SUBSET Records]
      /\ cpc \in {"none", "run", "last", "done"}
      /\ rpc \in {"idle", "starting", "spawn", "sleep", "collect", "stopping",
                  "collectRest", "join"}
      /\ exit \in {"no", "wait", "join", "free", "done"}
      /\ conf.noRPC \in BOOLEAN
      /\ Threads \subseteq Procs /\ Handler \in Procs
      /\ Handler \notin Threads /\ \A t \in Threads : t # Handler
  BY DEF TypeInv, TypeOK, Procs, HandlerAssumption, SettingsAssumption
<1>2. PhaseInv /\ StepInv /\ HandlerInv /\ UserInv
  BY DEF ControlInv
<1>3. ASSUME NEW c \in Contexts, Sample(c) PROVE ControlInv'
  <2>1. PhaseInv'
    BY <1>1, <1>2, <1>3 DEF PhaseInv, Active, Free, Calm, Sample
  <2>2. HandlerInv'
    BY <1>1, <1>2, <1>3 DEF HandlerInv, Calm, Collecting, Free, Sample
  <2>3. UserInv'
    BY <1>1, <1>2, <1>3 DEF UserInv, Free, Sample
  <2>. QED  BY <1>0, <2>1, <2>2, <2>3 DEF ControlInv
<1>4. ASSUME NEW c \in Contexts, KernelEnds(c) PROVE ControlInv'
  <2>1. PhaseInv'
    BY <1>1, <1>2, <1>4 DEF PhaseInv, Active, Free, Calm, KernelEnds, Flush
  <2>2. HandlerInv'
    BY <1>1, <1>2, <1>4 DEF HandlerInv, Calm, Collecting, Free, KernelEnds, Flush
  <2>3. UserInv'
    BY <1>1, <1>2, <1>4 DEF UserInv, Free, KernelEnds, Flush
  <2>. QED  BY <1>0, <2>1, <2>2, <2>3 DEF ControlInv
<1>5. ASSUME NEW c \in Contexts, StartContext(c) PROVE ControlInv'
  <2>1. PhaseInv'
    BY <1>1, <1>2, <1>5 DEF PhaseInv, Active, Free, StartContext
  <2>2. HandlerInv'
    BY <1>1, <1>2, <1>5 DEF HandlerInv, Calm, Collecting, Free, StartContext
  <2>3. UserInv'
    BY <1>1, <1>2, <1>5 DEF UserInv, Free, StartContext
  <2>. QED  BY <1>0, <2>1, <2>2, <2>3 DEF ControlInv
<1>6. ASSUME NEW c \in Contexts, CollectContext(c) PROVE ControlInv'
  <2>1. PhaseInv'
    BY <1>1, <1>2, <1>6 DEF PhaseInv, Active, CollectContext, Go
  <2>2. HandlerInv'
    BY <1>1, <1>2, <1>6 DEF HandlerInv, Calm, Collecting, CollectContext, Go
  <2>3. UserInv'
    BY <1>1, <1>2, <1>6 DEF UserInv, CollectContext, Go
  <2>. QED  BY <1>0, <2>1, <2>2, <2>3 DEF ControlInv
<1>7. ASSUME NEW c \in Contexts, StopContext(c) PROVE ControlInv'
  <2>1. PhaseInv'
    BY <1>1, <1>2, <1>7 DEF PhaseInv, Active, Free, StopContext
  <2>2. HandlerInv'
    BY <1>1, <1>2, <1>7 DEF HandlerInv, Calm, Collecting, Free, StopContext
  <2>3. UserInv'
    BY <1>1, <1>2, <1>7 DEF UserInv, Free, StopContext
  <2>. QED  BY <1>0, <2>1, <2>2, <2>3 DEF ControlInv
<1>8. ASSUME NEW t \in Threads, NEW c \in Contexts, ContextCreated(t, c) PROVE ControlInv'
  <2>1. PhaseInv'
    BY <1>1, <1>2, <1>8 DEF PhaseInv, Active, Free, Calm, ContextCreated, Enter, Go
  <2>2. HandlerInv'
    BY <1>1, <1>2, <1>8 DEF HandlerInv, Calm, Collecting, Free, ContextCreated, Enter, Go
  <2>3. UserInv'
    BY <1>1, <1>2, <1>8 DEF UserInv, Free, ContextCreated, Enter, Go
  <2>. QED  BY <1>0, <2>1, <2>2, <2>3 DEF ControlInv
<1>9. ASSUME NEW t \in Threads, NEW c \in Contexts, ContextDestroyStarting(t, c) PROVE ControlInv'
  <2>1. PhaseInv'
    BY <1>1, <1>2, <1>9 DEF PhaseInv, Active, Free, Usable, Changing, Calm, ContextDestroyStarting, Enter, Go
  <2>2. HandlerInv'
    BY <1>1, <1>2, <1>9 DEF HandlerInv, Calm, Collecting, Free, Usable, Changing, ContextDestroyStarting, Enter, Go
  <2>3. UserInv'
    BY <1>1, <1>2, <1>9 DEF UserInv, Free, Usable, Changing, ContextDestroyStarting, Enter, Go
  <2>. QED  BY <1>0, <2>1, <2>2, <2>3 DEF ControlInv
<1>10. ASSUME NEW t \in Threads, NEW c \in Contexts, ModuleLoaded(t, c) PROVE ControlInv'
  <2>1. PhaseInv'
    BY <1>1, <1>2, <1>10 DEF PhaseInv, Active, Free, Usable, Changing, Calm, ModuleLoaded, Enter, Go, Flush
  <2>2. HandlerInv'
    BY <1>1, <1>2, <1>10 DEF HandlerInv, Calm, Collecting, Free, Usable, Changing, ModuleLoaded, Enter, Go, Flush
  <2>3. UserInv'
    BY <1>1, <1>2, <1>10 DEF UserInv, Free, Usable, Changing, ModuleLoaded, Enter, Go, Flush
  <2>. QED  BY <1>0, <2>1, <2>2, <2>3 DEF ControlInv
<1>11. ASSUME NEW t \in Threads, NEW c \in Contexts, LaunchReturns(t, c) PROVE ControlInv'
  <2>1. PhaseInv'
    BY <1>1, <1>2, <1>11 DEF PhaseInv, Active, Free, Usable, Changing, Calm, LaunchReturns, Enter, Go
  <2>2. HandlerInv'
    BY <1>1, <1>2, <1>11 DEF HandlerInv, Calm, Collecting, Free, Usable, Changing, LaunchReturns, Enter, Go
  <2>3. UserInv'
    <3>1. PICK place \in {"total", "one"} : Enter(t, c, place)
      BY <1>11 DEF LaunchReturns
    <3>2. c \in infoMap /\ UNCHANGED infos
      BY <1>11 DEF LaunchReturns, Usable
    <3>3. \A u \in Threads : ctx[u] = c /\ at[u] # "idle" => at[u] \in {"total", "remaining", "one"}
      BY <1>1, <1>11 DEF LaunchReturns, Usable, Changing
    <3>. QED  BY <1>1, <1>2, <3>1, <3>2, <3>3 DEF UserInv, Enter, Go
  <2>. QED  BY <1>0, <2>1, <2>2, <2>3 DEF ControlInv
<1>12. ASSUME NEW t \in Threads, ConfigureActivity(t) PROVE ControlInv'
  <2>1. PhaseInv'
    BY <1>1, <1>2, <1>12 DEF PhaseInv, Active, ConfigureActivity, Go
  <2>2. HandlerInv'
    BY <1>1, <1>2, <1>12 DEF HandlerInv, Calm, Collecting, ConfigureActivity, Go
  <2>3. UserInv'
    BY <1>1, <1>2, <1>12 DEF UserInv, ConfigureActivity, Go
  <2>. QED  BY <1>0, <2>1, <2>2, <2>3 DEF ControlInv
<1>13. ASSUME NEW t \in Threads, PreallocateBuffersForRecords(t) PROVE ControlInv'
  <2>1. PhaseInv'
    BY <1>1, <1>2, <1>13 DEF PhaseInv, Active, PreallocateBuffersForRecords, Go
  <2>2. HandlerInv'
    BY <1>1, <1>2, <1>13 DEF HandlerInv, Calm, Collecting, PreallocateBuffersForRecords, Go
  <2>3. UserInv'
    BY <1>1, <1>2, <1>13 DEF UserInv, PreallocateBuffersForRecords, Go
  <2>. QED  BY <1>0, <2>1, <2>2, <2>3 DEF ControlInv
<1>14. ASSUME NEW t \in Threads, DisableContext(t) PROVE ControlInv'
  <2>1. PhaseInv'
    BY <1>1, <1>2, <1>14 DEF PhaseInv, Active, DisableContext, Go
  <2>2. HandlerInv'
    BY <1>1, <1>2, <1>14 DEF HandlerInv, Calm, Collecting, DisableContext, Go
  <2>3. UserInv'
    BY <1>1, <1>2, <1>14 DEF UserInv, DisableContext, Go
  <2>. QED  BY <1>0, <2>1, <2>2, <2>3 DEF ControlInv
<1>15. ASSUME NEW t \in Threads, QueueLate(t) PROVE ControlInv'
  <2>1. PhaseInv'
    BY <1>1, <1>2, <1>15 DEF PhaseInv, Active, QueueLate, Go, QueueConf
  <2>2. HandlerInv'
    BY <1>1, <1>2, <1>15 DEF HandlerInv, Calm, Collecting, QueueLate, Go, QueueConf
  <2>3. UserInv'
    BY <1>1, <1>2, <1>15 DEF UserInv, QueueLate, Go, QueueConf
  <2>. QED  BY <1>0, <2>1, <2>2, <2>3 DEF ControlInv
<1>16. ASSUME NEW t \in Threads, EraseContext(t) PROVE ControlInv'
  <2>1. PhaseInv'
    BY <1>1, <1>2, <1>16 DEF PhaseInv, Active, EraseContext, Go
  <2>2. HandlerInv'
    BY <1>1, <1>2, <1>16 DEF HandlerInv, Calm, Collecting, EraseContext, Go
  <2>3. UserInv'
    BY <1>1, <1>2, <1>16 DEF UserInv, EraseContext, Go
  <2>. QED  BY <1>0, <2>1, <2>2, <2>3 DEF ControlInv
<1>17. ASSUME NEW p \in Procs, Fetch(p) PROVE ControlInv'
  <2>1. PhaseInv'
    BY <1>1, <1>2, <1>17 DEF PhaseInv, Active, Fetch
  <2>2. HandlerInv'
    BY <1>1, <1>2, <1>17 DEF HandlerInv, Calm, Collecting, Fetch
  <2>3. UserInv'
    BY <1>1, <1>2, <1>17 DEF UserInv, Fetch
  <2>. QED  BY <1>0, <2>1, <2>2, <2>3 DEF ControlInv
<1>18. ASSUME NEW p \in Procs, Loops(p) PROVE ControlInv'
  <2>1. PhaseInv'
    BY <1>1, <1>2, <1>18 DEF PhaseInv, Active, Loops, At, Go
  <2>2. HandlerInv'
    BY <1>1, <1>2, <1>18 DEF HandlerInv, Calm, Collecting, Loops, At, Go
  <2>3. UserInv'
    BY <1>1, <1>2, <1>18 DEF UserInv, Loops, At, Go
  <2>. QED  BY <1>0, <2>1, <2>2, <2>3 DEF ControlInv
<1>19. ASSUME NEW p \in Procs, Push(p) PROVE ControlInv'
  <2>1. PhaseInv'
    BY <1>1, <1>2, <1>19 DEF PhaseInv, Active, Push, Go
  <2>2. HandlerInv'
    BY <1>1, <1>2, <1>19 DEF HandlerInv, Calm, Collecting, StepInv, Push, Go
  <2>3. UserInv'
    BY <1>1, <1>2, <1>19 DEF UserInv, StepInv, Push, Go
  <2>. QED  BY <1>0, <2>1, <2>2, <2>3 DEF ControlInv
<1>20. ASSUME StartHandler PROVE ControlInv'
  <2>1. PhaseInv'
    BY <1>1, <1>2, <1>20 DEF PhaseInv, Active, Changing, StartHandler
  <2>2. HandlerInv'
    BY <1>1, <1>2, <1>20 DEF HandlerInv, Calm, Collecting, Changing, StartHandler
  <2>3. UserInv'
    BY <1>1, <1>2, <1>20 DEF UserInv, Changing, StartHandler
  <2>. QED  BY <1>0, <2>1, <2>2, <2>3 DEF ControlInv
<1>21. ASSUME SetStarted PROVE ControlInv'
  <2>1. PhaseInv'
    BY <1>1, <1>2, <1>21 DEF PhaseInv, Active, SetStarted
  <2>2. HandlerInv'
    BY <1>1, <1>2, <1>21 DEF HandlerInv, Calm, Collecting, SetStarted
  <2>3. UserInv'
    BY <1>1, <1>2, <1>21 DEF UserInv, SetStarted
  <2>. QED  BY <1>0, <2>1, <2>2, <2>3 DEF ControlInv
<1>22. ASSUME SpawnCopier PROVE ControlInv'
  <2>1. PhaseInv'
    BY <1>1, <1>2, <1>22 DEF PhaseInv, Active, SpawnCopier
  <2>2. HandlerInv'
    BY <1>1, <1>2, <1>22 DEF HandlerInv, Calm, Collecting, SpawnCopier
  <2>3. UserInv'
    BY <1>1, <1>2, <1>22 DEF UserInv, SpawnCopier
  <2>. QED  BY <1>0, <2>1, <2>2, <2>3 DEF ControlInv
<1>23. ASSUME StopHandler PROVE ControlInv'
  <2>1. PhaseInv'
    BY <1>1, <1>2, <1>23 DEF PhaseInv, Active, Changing, StopHandler
  <2>2. HandlerInv'
    BY <1>1, <1>2, <1>23 DEF HandlerInv, Calm, Collecting, Changing, StopHandler
  <2>3. UserInv'
    BY <1>1, <1>2, <1>23 DEF UserInv, Changing, StopHandler
  <2>. QED  BY <1>0, <2>1, <2>2, <2>3 DEF ControlInv
<1>24. ASSUME LookAgain PROVE ControlInv'
  <2>1. PhaseInv'
    <3>1. rpc # "idle" /\ ~conf.noRPC
      BY <1>1, <1>2, <1>24 DEF PhaseInv, HandlerInv, LookAgain
    <3>. QED  BY <1>1, <1>2, <1>24, <3>1 DEF PhaseInv, Active, LookAgain, Go, QueueConf
  <2>2. HandlerInv'
    BY <1>1, <1>2, <1>24 DEF HandlerInv, Calm, Collecting, LookAgain, Go, QueueConf
  <2>3. UserInv'
    BY <1>1, <1>2, <1>24 DEF UserInv, LookAgain, Go, QueueConf
  <2>. QED  BY <1>0, <2>1, <2>2, <2>3 DEF ControlInv
<1>25. ASSUME StopContexts PROVE ControlInv'
  <2>1. PhaseInv'
    BY <1>1, <1>2, <1>25 DEF PhaseInv, Active, StopContexts, Collected
  <2>2. HandlerInv'
    BY <1>1, <1>2, <1>25 DEF HandlerInv, Calm, Collecting, StopContexts, Collected
  <2>3. UserInv'
    BY <1>1, <1>2, <1>25 DEF UserInv, StopContexts, Collected
  <2>. QED  BY <1>0, <2>1, <2>2, <2>3 DEF ControlInv
<1>26. ASSUME CollectRest PROVE ControlInv'
  <2>1. PhaseInv'
    BY <1>1, <1>2, <1>26 DEF PhaseInv, Active, CollectRest
  <2>2. HandlerInv'
    BY <1>1, <1>2, <1>26 DEF HandlerInv, Calm, Collecting, CollectRest
  <2>3. UserInv'
    BY <1>1, <1>2, <1>26 DEF UserInv, CollectRest
  <2>. QED  BY <1>0, <2>1, <2>2, <2>3 DEF ControlInv
<1>27. ASSUME ClearStarted PROVE ControlInv'
  <2>1. PhaseInv'
    BY <1>1, <1>2, <1>27 DEF PhaseInv, Active, ClearStarted, Collected
  <2>2. HandlerInv'
    BY <1>1, <1>2, <1>27 DEF HandlerInv, Calm, Collecting, ClearStarted, Collected
  <2>3. UserInv'
    BY <1>1, <1>2, <1>27 DEF UserInv, ClearStarted, Collected
  <2>. QED  BY <1>0, <2>1, <2>2, <2>3 DEF ControlInv
<1>28. ASSUME JoinCopier PROVE ControlInv'
  <2>1. PhaseInv'
    BY <1>1, <1>2, <1>28 DEF PhaseInv, Active, JoinCopier
  <2>2. HandlerInv'
    BY <1>1, <1>2, <1>28 DEF HandlerInv, Calm, Collecting, JoinCopier
  <2>3. UserInv'
    BY <1>1, <1>2, <1>28 DEF UserInv, JoinCopier
  <2>. QED  BY <1>0, <2>1, <2>2, <2>3 DEF ControlInv
<1>29. ASSUME ReadStopped PROVE ControlInv'
  <2>1. PhaseInv'
    BY <1>1, <1>2, <1>29 DEF PhaseInv, Active, ReadStopped
  <2>2. HandlerInv'
    BY <1>1, <1>2, <1>29 DEF HandlerInv, Calm, Collecting, ReadStopped
  <2>3. UserInv'
    BY <1>1, <1>2, <1>29 DEF UserInv, ReadStopped
  <2>. QED  BY <1>0, <2>1, <2>2, <2>3 DEF ControlInv
<1>30. ASSUME CopyFront PROVE ControlInv'
  <2>1. PhaseInv'
    BY <1>1, <1>2, <1>30 DEF PhaseInv, Active, CopyFront
  <2>2. HandlerInv'
    BY <1>1, <1>2, <1>30 DEF HandlerInv, Calm, Collecting, CopyFront
  <2>3. UserInv'
    BY <1>1, <1>2, <1>30 DEF UserInv, CopyFront
  <2>. QED  BY <1>0, <2>1, <2>2, <2>3 DEF ControlInv
<1>31. ASSUME CopierQuits PROVE ControlInv'
  <2>1. PhaseInv'
    BY <1>1, <1>2, <1>31 DEF PhaseInv, Active, CopierQuits
  <2>2. HandlerInv'
    BY <1>1, <1>2, <1>31 DEF HandlerInv, Calm, Collecting, CopierQuits
  <2>3. UserInv'
    BY <1>1, <1>2, <1>31 DEF UserInv, CopierQuits
  <2>. QED  BY <1>0, <2>1, <2>2, <2>3 DEF ControlInv
<1>32. ASSUME AtExitHandler PROVE ControlInv'
  <2>1. PhaseInv'
    BY <1>1, <1>2, <1>32 DEF PhaseInv, Active, AtExitHandler
  <2>2. HandlerInv'
    BY <1>1, <1>2, <1>32 DEF HandlerInv, Calm, Collecting, AtExitHandler
  <2>3. UserInv'
    BY <1>1, <1>2, <1>32 DEF UserInv, AtExitHandler
  <2>. QED  BY <1>0, <2>1, <2>2, <2>3 DEF ControlInv
<1>33. ASSUME DisableAll PROVE ControlInv'
  <2>1. PhaseInv'
    BY <1>1, <1>2, <1>33 DEF PhaseInv, Active, DisableAll
  <2>2. HandlerInv'
    BY <1>1, <1>2, <1>33 DEF HandlerInv, Calm, Collecting, DisableAll
  <2>3. UserInv'
    BY <1>1, <1>2, <1>33 DEF UserInv, DisableAll
  <2>. QED  BY <1>0, <2>1, <2>2, <2>3 DEF ControlInv
<1>34. ASSUME Finish PROVE ControlInv'
  <2>1. PhaseInv'
    BY <1>1, <1>2, <1>34 DEF PhaseInv, Active, Finish
  <2>2. HandlerInv'
    BY <1>1, <1>2, <1>34 DEF HandlerInv, Calm, Collecting, Finish
  <2>3. UserInv'
    BY <1>1, <1>2, <1>34 DEF UserInv, Finish
  <2>. QED  BY <1>0, <2>1, <2>2, <2>3 DEF ControlInv
<1>35. ASSUME FreePreallocatedMemory PROVE ControlInv'
  <2>1. PhaseInv'
    BY <1>1, <1>2, <1>35 DEF PhaseInv, Active, FreePreallocatedMemory
  <2>2. HandlerInv'
    BY <1>1, <1>2, <1>35 DEF HandlerInv, Calm, Collecting, FreePreallocatedMemory
  <2>3. UserInv'
    BY <1>1, <1>2, <1>35 DEF UserInv, FreePreallocatedMemory
  <2>. QED  BY <1>0, <2>1, <2>2, <2>3 DEF ControlInv
<1>36. ASSUME UNCHANGED vars PROVE ControlInv'
  <2>1. PhaseInv'
    BY <1>1, <1>2, <1>36 DEF PhaseInv, Active, vars
  <2>2. HandlerInv'
    BY <1>1, <1>2, <1>36 DEF HandlerInv, Calm, Collecting, vars
  <2>3. UserInv'
    BY <1>1, <1>2, <1>36 DEF UserInv, vars
  <2>. QED  BY <1>0, <2>1, <2>2, <2>3 DEF ControlInv
<1>. QED  BY NextLemma,
            <1>3, <1>4, <1>5, <1>6, <1>7, <1>8, <1>9, <1>10, <1>11, <1>12, <1>13, <1>14, <1>15, <1>16, <1>17, <1>18, <1>19, <1>20, <1>21, <1>22, <1>23, <1>24, <1>25, <1>26, <1>27, <1>28, <1>29, <1>30, <1>31, <1>32, <1>33, <1>34, <1>35, <1>36

LEMMA ControlAlways == Spec => []ControlInv
PROOF
<1>1. HandlerAssumption /\ SettingsAssumption
  BY HandlerAssumption, SettingsAssumption
<1>. QED  BY <1>1, ControlInit, ControlStep, TypeAlways, PTL DEF Spec

\* In any setting the ring is allocated before a slot is claimed; and what the
\* profiler's own threads work on is freed only after they have ended: the
\* context the stop handler collects in, and the contexts whose buffers the copy
\* thread drains.
THEOREM MemoryStaysAlive == Spec => []MemoryIsAlive
PROOF
<1>1. ASSUME HandlerAssumption, TypeInv, ControlInv PROVE MemoryIsAlive
  <2>1. /\ infoMap \subseteq Contexts /\ ctx \in [Procs -> Contexts]
        /\ info \in [Contexts -> {"none", "zeroed", "ready", "toFree", "freed"}]
        /\ Procs = Threads \cup {Handler} /\ Handler \notin Threads
        /\ queue \in Seq(Entries)
    BY <1>1 DEF TypeInv, TypeOK, Procs, HandlerAssumption
  <2>2. ASSUME NEW c \in Contexts, info[c] = "freed"
        PROVE  cpc = "none" /\ at[Handler] = "idle"
    BY <1>1, <2>1, <2>2 DEF ControlInv, PhaseInv, HandlerInv
  <2>3. ASSUME exit # "done", NEW p \in Procs, step[p] # "test" PROVE allocated
    <3>1. at[p] \in Collecting /\ ctx[p] \in infoMap
      BY <1>1, <2>1, <2>3 DEF ControlInv, StepInv, HandlerInv, UserInv, Collecting
    <3>2. ASSUME NEW t \in Threads, ctx[t] = ctx[p], at[t] \in {"configure", "allocate"}
          PROVE  FALSE
      <4>1. t # p
        BY <3>1, <3>2 DEF Collecting
      <4>2. p \in Threads
        BY <1>1, <2>1, <3>1, <3>2 DEF ControlInv, HandlerInv, Calm, Collecting
      <4>. QED  BY <1>1, <3>1, <3>2, <4>1, <4>2 DEF ControlInv, UserInv, Collecting
    <3>. QED  BY <1>1, <2>3, <3>1, <3>2 DEF ControlInv, UserInv
  <2>4. \A i \in DOMAIN queue : queue[i].ctx \in Contexts
    BY <1>1 DEF TypeInv, TypeOK, Entries
  <2>. QED  BY <2>1, <2>2, <2>3, <2>4 DEF MemoryIsAlive
<1>2. HandlerAssumption
  BY HandlerAssumption
<1>. QED  BY <1>1, <1>2, TypeAlways, ControlAlways, PTL

-----------------------------------------------------------------------------
(* Contexts that are disabled, and the end of the handler's loops.         *)

LEMMA TypeFacts ==
  ASSUME HandlerAssumption, SettingsAssumption, TypeInv
  PROVE  /\ infoMap \subseteq Contexts /\ left \subseteq Contexts
         /\ running \subseteq Contexts
         /\ \A c \in infoMap : info[c] \notin {"none", "toFree"}
         /\ info \in [Contexts -> {"none", "zeroed", "ready", "toFree", "freed"}]
         /\ hw \in [Contexts -> SUBSET Records]
         /\ rest \in [Contexts -> SUBSET Records]
         /\ buf \in [Contexts -> SUBSET Records]
         /\ at \in [Procs -> {"idle", "total", "remaining", "any", "late", "one",
                              "configure", "allocate", "queueLate", "erase"}]
         /\ ctx \in [Procs -> Contexts] /\ held \in [Procs -> SUBSET Records]
         /\ step \in [Procs -> {"test", "get", "push"}]
         /\ started \in BOOLEAN
         /\ rpc \in {"idle", "starting", "spawn", "sleep", "collect", "stopping",
                     "collectRest", "join"}
         /\ exit \in {"no", "wait", "join", "free", "done"}
         /\ conf \in Settings /\ conf.noRPC \in BOOLEAN
         /\ conf.sync \in BOOLEAN /\ conf.serialized \in BOOLEAN
         /\ Threads \subseteq Procs /\ Handler \in Procs
         /\ Handler \notin Threads /\ \A t \in Threads : t # Handler
         /\ queue \in Seq(Entries) /\ copied \in [Records -> Nat]
PROOF BY DEF TypeInv, TypeOK, Procs, HandlerAssumption, SettingsAssumption

\* A thread that collects in a context does so in one of the map that is not
\* dead, and nothing is sampled or flushed by kernels while the handler runs.
LEMMA PlacesLemma ==
  ASSUME HandlerAssumption, SettingsAssumption, TypeInv, ControlInv
  PROVE  /\ \A p \in Procs : at[p] # "idle" => ctx[p] \in infoMap
         /\ \A p \in Procs : at[p] \in Collecting => ~Dead(ctx[p])
         /\ \A t \in Threads : at[t] \in {"late", "queueLate"} => ~Dead(ctx[t])
         /\ \A c \in Usable : c \in infoMap /\ ~Dead(c)
         /\ Held /\ conf.serialized /\ ~Calm => ~Free
PROOF
<1>1. \A p \in Procs : at[p] # "idle" => ctx[p] \in infoMap
  BY TypeFacts DEF ControlInv, UserInv, HandlerInv, Procs
<1>2. \A t \in Threads : at[t] \in {"total", "remaining", "any", "one", "late", "queueLate"} =>
        ~Dead(ctx[t])
  BY <1>1, TypeFacts DEF Dead, ControlInv, UserInv
<1>3. at[Handler] # "idle" => ~Dead(ctx[Handler])
  BY <1>1, TypeFacts DEF Dead, ControlInv, HandlerInv, Calm
<1>4. \A c \in Usable : c \in infoMap /\ ~Dead(c)
  BY DEF Usable, Changing, Dead
<1>5. Held /\ conf.serialized /\ ~Calm => ~Free
  BY TypeFacts DEF Held, Calm, Free, ControlInv, PhaseInv
<1>. QED  BY <1>1, <1>2, <1>3, <1>4, <1>5 DEF Collecting, Procs

LEMMA HeldStep ==
  ASSUME HandlerAssumption, SettingsAssumption, Held, TypeInv, ControlInv,
         HeldInv, [Next]_vars
  PROVE  HeldInv'
PROOF
<1>. USE DEF infos, cupti, procs, copy
<1>1. /\ at \in [Procs -> {"idle", "total", "remaining", "any", "late", "one",
                           "configure", "allocate", "queueLate", "erase"}]
      /\ ctx \in [Procs -> Contexts] /\ buf \in [Contexts -> SUBSET Records]
      /\ Threads \subseteq Procs /\ Handler \in Procs
      /\ Handler \notin Threads /\ \A t \in Threads : t # Handler
  BY TypeFacts
<1>2. /\ ~Calm => \A t \in Threads : at[t] \in {"idle", "one"}
      /\ at[Handler] = "late" => buf[ctx[Handler]] = {}
      /\ at[Handler] # "idle" => ~Calm
  BY DEF HeldInv, ControlInv, HandlerInv, Calm
<1>3. conf.serialized /\ ~Calm => ~Free
  BY PlacesLemma
<1>4. /\ at[Handler] # "idle" => started
      /\ \A p \in Procs : step[p] # "test" => at[p] \in Collecting
  BY TypeFacts DEF ControlInv, StepInv, PhaseInv, HandlerInv, Active
<1>5. ASSUME NEW c \in Contexts, Sample(c) PROVE HeldInv'
  BY <1>1, <1>2, <1>3, <1>4, <1>5 DEF HeldInv, Calm, Sample
<1>6. ASSUME NEW c \in Contexts, KernelEnds(c) PROVE HeldInv'
  BY <1>1, <1>2, <1>3, <1>4, <1>6 DEF HeldInv, Calm, KernelEnds, Flush
<1>7. ASSUME NEW c \in Contexts, StartContext(c) PROVE HeldInv'
  BY <1>1, <1>2, <1>3, <1>4, <1>7 DEF HeldInv, Calm, StartContext
<1>8. ASSUME NEW c \in Contexts, CollectContext(c) PROVE HeldInv'
  BY <1>1, <1>2, <1>3, <1>4, <1>8 DEF HeldInv, Calm, CollectContext, Go
<1>9. ASSUME NEW c \in Contexts, StopContext(c) PROVE HeldInv'
  BY <1>1, <1>2, <1>3, <1>4, <1>9 DEF HeldInv, Calm, StopContext
<1>10. ASSUME NEW t \in Threads, NEW c \in Contexts, ContextCreated(t, c) PROVE HeldInv'
  BY <1>1, <1>2, <1>3, <1>4, <1>10 DEF HeldInv, Calm, ContextCreated, Enter, Go
<1>11. ASSUME NEW t \in Threads, NEW c \in Contexts, ContextDestroyStarting(t, c) PROVE HeldInv'
  BY <1>1, <1>2, <1>3, <1>4, <1>11 DEF HeldInv, Calm, ContextDestroyStarting, Enter, Go
<1>12. ASSUME NEW t \in Threads, NEW c \in Contexts, ModuleLoaded(t, c) PROVE HeldInv'
  BY <1>1, <1>2, <1>3, <1>4, <1>12 DEF HeldInv, Calm, ModuleLoaded, Enter, Go, Flush
<1>13. ASSUME NEW t \in Threads, NEW c \in Contexts, LaunchReturns(t, c) PROVE HeldInv'
  <2>1. PICK place \in {"total", "one"} :
          /\ Enter(t, c, place) /\ (place = "total" => conf.serialized)
    BY <1>13 DEF LaunchReturns
  <2>2. Free /\ UNCHANGED buf
    BY <1>13 DEF LaunchReturns
  <2>. QED  BY <1>1, <1>2, <1>3, <2>1, <2>2 DEF HeldInv, Enter, Go, Calm
<1>14. ASSUME NEW t \in Threads, ConfigureActivity(t) PROVE HeldInv'
  BY <1>1, <1>2, <1>3, <1>4, <1>14 DEF HeldInv, Calm, ConfigureActivity, Go
<1>15. ASSUME NEW t \in Threads, PreallocateBuffersForRecords(t) PROVE HeldInv'
  BY <1>1, <1>2, <1>3, <1>4, <1>15 DEF HeldInv, Calm, PreallocateBuffersForRecords, Go
<1>16. ASSUME NEW t \in Threads, DisableContext(t) PROVE HeldInv'
  BY <1>1, <1>2, <1>3, <1>4, <1>16 DEF HeldInv, Calm, DisableContext, Go
<1>17. ASSUME NEW t \in Threads, QueueLate(t) PROVE HeldInv'
  BY <1>1, <1>2, <1>3, <1>4, <1>17 DEF HeldInv, Calm, QueueLate, Go, QueueConf
<1>18. ASSUME NEW t \in Threads, EraseContext(t) PROVE HeldInv'
  BY <1>1, <1>2, <1>3, <1>4, <1>18 DEF HeldInv, Calm, EraseContext, Go
<1>19. ASSUME NEW p \in Procs, Fetch(p) PROVE HeldInv'
  BY <1>1, <1>2, <1>3, <1>4, <1>19 DEF HeldInv, Calm, Fetch, Collecting
<1>20. ASSUME NEW p \in Procs, Loops(p) PROVE HeldInv'
  BY <1>1, <1>2, <1>3, <1>4, <1>20 DEF HeldInv, Calm, Loops, At, Go, Collecting, GoesOn
<1>21. ASSUME NEW p \in Procs, Push(p) PROVE HeldInv'
  BY <1>1, <1>2, <1>3, <1>4, <1>21 DEF HeldInv, Calm, Push, Go, Collecting
<1>22. ASSUME StartHandler PROVE HeldInv'
  BY <1>1, <1>2, <1>3, <1>4, <1>22 DEF HeldInv, Calm, StartHandler, Changing
<1>23. ASSUME SetStarted PROVE HeldInv'
  BY <1>1, <1>2, <1>3, <1>4, <1>23 DEF HeldInv, Calm, SetStarted
<1>24. ASSUME SpawnCopier PROVE HeldInv'
  BY <1>1, <1>2, <1>3, <1>4, <1>24 DEF HeldInv, Calm, SpawnCopier
<1>25. ASSUME StopHandler PROVE HeldInv'
  BY <1>1, <1>2, <1>3, <1>4, <1>25 DEF HeldInv, Calm, StopHandler, Changing
<1>26. ASSUME LookAgain PROVE HeldInv'
  BY <1>1, <1>2, <1>3, <1>4, <1>26 DEF HeldInv, Calm, LookAgain, Go, QueueConf
<1>27. ASSUME StopContexts PROVE HeldInv'
  BY <1>1, <1>2, <1>3, <1>4, <1>27 DEF HeldInv, Calm, StopContexts, Collected
<1>28. ASSUME CollectRest PROVE HeldInv'
  BY <1>1, <1>2, <1>3, <1>4, <1>28 DEF HeldInv, Calm, CollectRest
<1>29. ASSUME ClearStarted PROVE HeldInv'
  BY <1>1, <1>2, <1>3, <1>4, <1>29 DEF HeldInv, Calm, ClearStarted, Collected
<1>30. ASSUME JoinCopier PROVE HeldInv'
  BY <1>1, <1>2, <1>3, <1>4, <1>30 DEF HeldInv, Calm, JoinCopier
<1>31. ASSUME ReadStopped PROVE HeldInv'
  BY <1>1, <1>2, <1>3, <1>4, <1>31 DEF HeldInv, Calm, ReadStopped
<1>32. ASSUME CopyFront PROVE HeldInv'
  BY <1>1, <1>2, <1>3, <1>4, <1>32 DEF HeldInv, Calm, CopyFront
<1>33. ASSUME CopierQuits PROVE HeldInv'
  BY <1>1, <1>2, <1>3, <1>4, <1>33 DEF HeldInv, Calm, CopierQuits
<1>34. ASSUME AtExitHandler PROVE HeldInv'
  BY <1>1, <1>2, <1>3, <1>4, <1>34 DEF HeldInv, Calm, AtExitHandler
<1>35. ASSUME DisableAll PROVE HeldInv'
  BY <1>1, <1>2, <1>3, <1>4, <1>35 DEF HeldInv, Calm, DisableAll
<1>36. ASSUME Finish PROVE HeldInv'
  BY <1>1, <1>2, <1>3, <1>4, <1>36 DEF HeldInv, Calm, Finish
<1>37. ASSUME FreePreallocatedMemory PROVE HeldInv'
  BY <1>1, <1>2, <1>3, <1>4, <1>37 DEF HeldInv, Calm, FreePreallocatedMemory
<1>38. ASSUME UNCHANGED vars PROVE HeldInv'
  BY <1>1, <1>2, <1>3, <1>4, <1>38 DEF HeldInv, Calm, vars
<1>. QED  BY NextLemma,
            <1>5, <1>6, <1>7, <1>8, <1>9, <1>10, <1>11, <1>12, <1>13, <1>14, <1>15, <1>16, <1>17, <1>18, <1>19, <1>20, <1>21, <1>22, <1>23, <1>24, <1>25, <1>26, <1>27, <1>28, <1>29, <1>30, <1>31, <1>32, <1>33, <1>34, <1>35, <1>36, <1>37, <1>38

\* Once dead, a context stays so; and it is the queueing of its configuration
\* buffer that makes it so.
LEMMA DeadLemma ==
  ASSUME HandlerAssumption, SettingsAssumption, TypeInv, ControlInv,
         [Next]_vars, NEW d \in Contexts
  PROVE  /\ Dead(d) => Dead(d)'
         /\ Dead(d)' => \/ Dead(d)
                        \/ \E t \in Threads : QueueLate(t) /\ ctx[t] = d
PROOF
<1>. USE DEF infos, cupti, procs, copy
<1>1. /\ infoMap \subseteq Contexts /\ left \subseteq Contexts
      /\ running \subseteq Contexts
      /\ \A c \in infoMap : info[c] \notin {"none", "toFree"}
      /\ info \in [Contexts -> {"none", "zeroed", "ready", "toFree", "freed"}]
      /\ hw \in [Contexts -> SUBSET Records]
      /\ rest \in [Contexts -> SUBSET Records]
      /\ buf \in [Contexts -> SUBSET Records]
      /\ at \in [Procs -> {"idle", "total", "remaining", "any", "late", "one",
                           "configure", "allocate", "queueLate", "erase"}]
      /\ ctx \in [Procs -> Contexts]
      /\ Threads \subseteq Procs /\ Handler \in Procs
      /\ Handler \notin Threads /\ \A t \in Threads : t # Handler
  BY TypeFacts
<1>2. \A t \in Threads : at[t] # "idle" => ctx[t] \in infoMap
  BY DEF ControlInv, UserInv
<1>3. \A p \in Procs : step[p] # "test" => at[p] \in Collecting
  BY DEF ControlInv, StepInv
<1>4. ASSUME NEW c \in Contexts, Sample(c) PROVE (Dead(d) => Dead(d)') /\ (Dead(d)' => Dead(d))
  BY <1>1, <1>2, <1>3, <1>4 DEF Dead, Sample
<1>5. ASSUME NEW c \in Contexts, KernelEnds(c) PROVE (Dead(d) => Dead(d)') /\ (Dead(d)' => Dead(d))
  BY <1>1, <1>2, <1>3, <1>5 DEF Dead, KernelEnds, Flush
<1>6. ASSUME NEW c \in Contexts, StartContext(c) PROVE (Dead(d) => Dead(d)') /\ (Dead(d)' => Dead(d))
  BY <1>1, <1>2, <1>3, <1>6 DEF Dead, StartContext
<1>7. ASSUME NEW c \in Contexts, CollectContext(c) PROVE (Dead(d) => Dead(d)') /\ (Dead(d)' => Dead(d))
  BY <1>1, <1>2, <1>3, <1>7 DEF Dead, CollectContext, Go
<1>8. ASSUME NEW c \in Contexts, StopContext(c) PROVE (Dead(d) => Dead(d)') /\ (Dead(d)' => Dead(d))
  BY <1>1, <1>2, <1>3, <1>8 DEF Dead, StopContext
<1>9. ASSUME NEW t \in Threads, NEW c \in Contexts, ContextCreated(t, c) PROVE (Dead(d) => Dead(d)') /\ (Dead(d)' => Dead(d))
  BY <1>1, <1>2, <1>3, <1>9 DEF Dead, ContextCreated, Enter, Go
<1>10. ASSUME NEW t \in Threads, NEW c \in Contexts, ContextDestroyStarting(t, c) PROVE (Dead(d) => Dead(d)') /\ (Dead(d)' => Dead(d))
  BY <1>1, <1>2, <1>3, <1>10 DEF Dead, ContextDestroyStarting, Enter, Go
<1>11. ASSUME NEW t \in Threads, NEW c \in Contexts, ModuleLoaded(t, c) PROVE (Dead(d) => Dead(d)') /\ (Dead(d)' => Dead(d))
  BY <1>1, <1>2, <1>3, <1>11 DEF Dead, ModuleLoaded, Enter, Go, Flush
<1>12. ASSUME NEW t \in Threads, NEW c \in Contexts, LaunchReturns(t, c) PROVE (Dead(d) => Dead(d)') /\ (Dead(d)' => Dead(d))
  <2>1. PICK place \in {"total", "one"} : Enter(t, c, place)
    BY <1>12 DEF LaunchReturns
  <2>2. UNCHANGED infos
    BY <1>12 DEF LaunchReturns
  <2>. QED  BY <1>1, <2>1, <2>2 DEF Dead, Enter, Go
<1>13. ASSUME NEW t \in Threads, ConfigureActivity(t) PROVE (Dead(d) => Dead(d)') /\ (Dead(d)' => Dead(d))
  BY <1>1, <1>2, <1>3, <1>13 DEF Dead, ConfigureActivity, Go
<1>14. ASSUME NEW t \in Threads, PreallocateBuffersForRecords(t) PROVE (Dead(d) => Dead(d)') /\ (Dead(d)' => Dead(d))
  BY <1>1, <1>2, <1>3, <1>14 DEF Dead, PreallocateBuffersForRecords, Go
<1>15. ASSUME NEW t \in Threads, DisableContext(t) PROVE (Dead(d) => Dead(d)') /\ (Dead(d)' => Dead(d))
  BY <1>1, <1>2, <1>3, <1>15 DEF Dead, DisableContext, Go
<1>16. ASSUME NEW t \in Threads, QueueLate(t) PROVE (Dead(d) => Dead(d)') /\ (Dead(d)' => Dead(d) \/ ctx[t] = d)
  BY <1>1, <1>2, <1>3, <1>16 DEF Dead, QueueLate, Go, QueueConf
<1>17. ASSUME NEW t \in Threads, EraseContext(t) PROVE (Dead(d) => Dead(d)') /\ (Dead(d)' => Dead(d))
  BY <1>1, <1>2, <1>3, <1>17 DEF Dead, EraseContext, Go
<1>18. ASSUME NEW p \in Procs, Fetch(p) PROVE (Dead(d) => Dead(d)') /\ (Dead(d)' => Dead(d))
  BY <1>1, <1>2, <1>3, <1>18 DEF Dead, Fetch, Collecting, Procs
<1>19. ASSUME NEW p \in Procs, Loops(p) PROVE (Dead(d) => Dead(d)') /\ (Dead(d)' => Dead(d))
  BY <1>1, <1>2, <1>3, <1>19 DEF Dead, Loops, At, Go, Collecting, Procs
<1>20. ASSUME NEW p \in Procs, Push(p) PROVE (Dead(d) => Dead(d)') /\ (Dead(d)' => Dead(d))
  BY <1>1, <1>2, <1>3, <1>20 DEF Dead, Push, Go, Collecting, Procs
<1>21. ASSUME StartHandler PROVE (Dead(d) => Dead(d)') /\ (Dead(d)' => Dead(d))
  BY <1>1, <1>2, <1>3, <1>21 DEF Dead, StartHandler
<1>22. ASSUME SetStarted PROVE (Dead(d) => Dead(d)') /\ (Dead(d)' => Dead(d))
  BY <1>1, <1>2, <1>3, <1>22 DEF Dead, SetStarted
<1>23. ASSUME SpawnCopier PROVE (Dead(d) => Dead(d)') /\ (Dead(d)' => Dead(d))
  BY <1>1, <1>2, <1>3, <1>23 DEF Dead, SpawnCopier
<1>24. ASSUME StopHandler PROVE (Dead(d) => Dead(d)') /\ (Dead(d)' => Dead(d))
  BY <1>1, <1>2, <1>3, <1>24 DEF Dead, StopHandler
<1>25. ASSUME LookAgain PROVE (Dead(d) => Dead(d)') /\ (Dead(d)' => Dead(d))
  BY <1>1, <1>2, <1>3, <1>25 DEF Dead, LookAgain, Go, QueueConf
<1>26. ASSUME StopContexts PROVE (Dead(d) => Dead(d)') /\ (Dead(d)' => Dead(d))
  BY <1>1, <1>2, <1>3, <1>26 DEF Dead, StopContexts, Collected
<1>27. ASSUME CollectRest PROVE (Dead(d) => Dead(d)') /\ (Dead(d)' => Dead(d))
  BY <1>1, <1>2, <1>3, <1>27 DEF Dead, CollectRest
<1>28. ASSUME ClearStarted PROVE (Dead(d) => Dead(d)') /\ (Dead(d)' => Dead(d))
  BY <1>1, <1>2, <1>3, <1>28 DEF Dead, ClearStarted, Collected
<1>29. ASSUME JoinCopier PROVE (Dead(d) => Dead(d)') /\ (Dead(d)' => Dead(d))
  BY <1>1, <1>2, <1>3, <1>29 DEF Dead, JoinCopier
<1>30. ASSUME ReadStopped PROVE (Dead(d) => Dead(d)') /\ (Dead(d)' => Dead(d))
  BY <1>1, <1>2, <1>3, <1>30 DEF Dead, ReadStopped
<1>31. ASSUME CopyFront PROVE (Dead(d) => Dead(d)') /\ (Dead(d)' => Dead(d))
  BY <1>1, <1>2, <1>3, <1>31 DEF Dead, CopyFront
<1>32. ASSUME CopierQuits PROVE (Dead(d) => Dead(d)') /\ (Dead(d)' => Dead(d))
  BY <1>1, <1>2, <1>3, <1>32 DEF Dead, CopierQuits
<1>33. ASSUME AtExitHandler PROVE (Dead(d) => Dead(d)') /\ (Dead(d)' => Dead(d))
  BY <1>1, <1>2, <1>3, <1>33 DEF Dead, AtExitHandler
<1>34. ASSUME DisableAll PROVE (Dead(d) => Dead(d)') /\ (Dead(d)' => Dead(d))
  BY <1>1, <1>2, <1>3, <1>34 DEF Dead, DisableAll
<1>35. ASSUME Finish PROVE (Dead(d) => Dead(d)') /\ (Dead(d)' => Dead(d))
  BY <1>1, <1>2, <1>3, <1>35 DEF Dead, Finish
<1>36. ASSUME FreePreallocatedMemory PROVE (Dead(d) => Dead(d)') /\ (Dead(d)' => Dead(d))
  BY <1>1, <1>2, <1>3, <1>36 DEF Dead, FreePreallocatedMemory
<1>37. ASSUME UNCHANGED vars PROVE (Dead(d) => Dead(d)') /\ (Dead(d)' => Dead(d))
  BY <1>1, <1>2, <1>3, <1>37 DEF Dead, vars
<1>. QED  BY NextLemma,
            <1>4, <1>5, <1>6, <1>7, <1>8, <1>9, <1>10, <1>11, <1>12, <1>13, <1>14, <1>15, <1>16, <1>17, <1>18, <1>19, <1>20, <1>21, <1>22, <1>23, <1>24, <1>25, <1>26, <1>27, <1>28, <1>29, <1>30, <1>31, <1>32, <1>33, <1>34, <1>35, <1>36, <1>37

LEMMA QuietStep ==
  ASSUME HandlerAssumption, SettingsAssumption, Held, TypeInv, ControlInv,
         HeldInv, QuietInv, [Next]_vars
  PROVE  QuietInv'
PROOF
<1>. USE DEF infos, cupti, procs, copy
<1>1. /\ infoMap \subseteq Contexts /\ left \subseteq Contexts
      /\ running \subseteq Contexts
      /\ \A c \in infoMap : info[c] \notin {"none", "toFree"}
      /\ info \in [Contexts -> {"none", "zeroed", "ready", "toFree", "freed"}]
      /\ hw \in [Contexts -> SUBSET Records]
      /\ rest \in [Contexts -> SUBSET Records]
      /\ buf \in [Contexts -> SUBSET Records]
      /\ at \in [Procs -> {"idle", "total", "remaining", "any", "late", "one",
                           "configure", "allocate", "queueLate", "erase"}]
      /\ ctx \in [Procs -> Contexts]
      /\ Threads \subseteq Procs /\ Handler \in Procs
      /\ Handler \notin Threads /\ \A t \in Threads : t # Handler
  BY TypeFacts
<1>2. /\ running \subseteq infoMap
      /\ \A c \in Contexts \ infoMap : hw[c] = {} /\ rest[c] = {}
      /\ \A c \in Contexts : info[c] = "none" => buf[c] = {}
      /\ \A t \in Threads : at[t] \in {"queueLate", "erase"} =>
           ctx[t] \notin running /\ hw[ctx[t]] = {} /\ rest[ctx[t]] = {}
  BY DEF QuietInv
<1>3. /\ \A t \in Threads : at[t] # "idle" => ctx[t] \in infoMap
      /\ ~Calm => \A t \in Threads : at[t] \in {"idle", "one"}
      /\ left \subseteq infoMap
      /\ \A t, u \in Threads :
           t # u /\ at[t] # "idle" /\ at[u] # "idle" /\ ctx[t] = ctx[u] =>
             at[t] \in {"total", "remaining", "one"}
      /\ \A p \in Procs : step[p] # "test" => at[p] \in Collecting
  BY DEF ControlInv, UserInv, HandlerInv, HeldInv, StepInv
<1>4. ASSUME NEW c \in Contexts, Sample(c) PROVE QuietInv'
  BY <1>1, <1>2, <1>3, <1>4 DEF QuietInv, Sample
<1>5. ASSUME NEW c \in Contexts, KernelEnds(c) PROVE QuietInv'
  BY <1>1, <1>2, <1>3, <1>5, OldestLemma DEF QuietInv, KernelEnds, Flush
<1>6. ASSUME NEW c \in Contexts, StartContext(c) PROVE QuietInv'
  BY <1>1, <1>2, <1>3, <1>6 DEF QuietInv, StartContext, Calm
<1>7. ASSUME NEW c \in Contexts, CollectContext(c) PROVE QuietInv'
  BY <1>1, <1>2, <1>3, <1>7 DEF QuietInv, CollectContext, Go
<1>8. ASSUME NEW c \in Contexts, StopContext(c) PROVE QuietInv'
  BY <1>1, <1>2, <1>3, <1>8 DEF QuietInv, StopContext, Calm
<1>9. ASSUME NEW t \in Threads, NEW c \in Contexts, ContextCreated(t, c) PROVE QuietInv'
  BY <1>1, <1>2, <1>3, <1>9 DEF QuietInv, ContextCreated, Enter, Go
<1>10. ASSUME NEW t \in Threads, NEW c \in Contexts, ContextDestroyStarting(t, c) PROVE QuietInv'
  BY <1>1, <1>2, <1>3, <1>10 DEF QuietInv, ContextDestroyStarting, Enter, Go, Usable, Changing
<1>11. ASSUME NEW t \in Threads, NEW c \in Contexts, ModuleLoaded(t, c) PROVE QuietInv'
  BY <1>1, <1>2, <1>3, <1>11, OldestLemma DEF QuietInv, ModuleLoaded, Enter, Go, Flush, Usable, Changing
<1>12. ASSUME NEW t \in Threads, NEW c \in Contexts, LaunchReturns(t, c) PROVE QuietInv'
  <2>1. PICK place \in {"total", "one"} : Enter(t, c, place)
    BY <1>12 DEF LaunchReturns
  <2>2. UNCHANGED <<infos, hw, rest, buf>>
    BY <1>12 DEF LaunchReturns
  <2>. QED  BY <1>1, <1>2, <2>1, <2>2 DEF QuietInv, Enter, Go
<1>13. ASSUME NEW t \in Threads, ConfigureActivity(t) PROVE QuietInv'
  BY <1>1, <1>2, <1>3, <1>13 DEF QuietInv, ConfigureActivity, Go
<1>14. ASSUME NEW t \in Threads, PreallocateBuffersForRecords(t) PROVE QuietInv'
  BY <1>1, <1>2, <1>3, <1>14 DEF QuietInv, PreallocateBuffersForRecords, Go
<1>15. ASSUME NEW t \in Threads, DisableContext(t) PROVE QuietInv'
  BY <1>1, <1>2, <1>3, <1>15 DEF QuietInv, DisableContext, Go
<1>16. ASSUME NEW t \in Threads, QueueLate(t) PROVE QuietInv'
  BY <1>1, <1>2, <1>3, <1>16 DEF QuietInv, QueueLate, Go, QueueConf
<1>17. ASSUME NEW t \in Threads, EraseContext(t) PROVE QuietInv'
  BY <1>1, <1>2, <1>3, <1>17 DEF QuietInv, EraseContext, Go
<1>18. ASSUME NEW p \in Procs, Fetch(p) PROVE QuietInv'
  BY <1>1, <1>2, <1>3, <1>18 DEF QuietInv, Fetch, Collecting, Procs
<1>19. ASSUME NEW p \in Procs, Loops(p) PROVE QuietInv'
  BY <1>1, <1>2, <1>3, <1>19 DEF QuietInv, Loops, At, Go, Collecting, Procs
<1>20. ASSUME NEW p \in Procs, Push(p) PROVE QuietInv'
  BY <1>1, <1>2, <1>3, <1>20 DEF QuietInv, Push, Go, Collecting, Procs
<1>21. ASSUME StartHandler PROVE QuietInv'
  BY <1>1, <1>2, <1>3, <1>21 DEF QuietInv, StartHandler, Changing
<1>22. ASSUME SetStarted PROVE QuietInv'
  BY <1>1, <1>2, <1>3, <1>22 DEF QuietInv, SetStarted
<1>23. ASSUME SpawnCopier PROVE QuietInv'
  BY <1>1, <1>2, <1>3, <1>23 DEF QuietInv, SpawnCopier
<1>24. ASSUME StopHandler PROVE QuietInv'
  BY <1>1, <1>2, <1>3, <1>24 DEF QuietInv, StopHandler, Changing
<1>25. ASSUME LookAgain PROVE QuietInv'
  BY <1>1, <1>2, <1>3, <1>25 DEF QuietInv, LookAgain, Go, QueueConf
<1>26. ASSUME StopContexts PROVE QuietInv'
  BY <1>1, <1>2, <1>3, <1>26 DEF QuietInv, StopContexts, Collected
<1>27. ASSUME CollectRest PROVE QuietInv'
  BY <1>1, <1>2, <1>3, <1>27 DEF QuietInv, CollectRest
<1>28. ASSUME ClearStarted PROVE QuietInv'
  BY <1>1, <1>2, <1>3, <1>28 DEF QuietInv, ClearStarted, Collected
<1>29. ASSUME JoinCopier PROVE QuietInv'
  BY <1>1, <1>2, <1>3, <1>29 DEF QuietInv, JoinCopier
<1>30. ASSUME ReadStopped PROVE QuietInv'
  BY <1>1, <1>2, <1>3, <1>30 DEF QuietInv, ReadStopped
<1>31. ASSUME CopyFront PROVE QuietInv'
  BY <1>1, <1>2, <1>3, <1>31 DEF QuietInv, CopyFront
<1>32. ASSUME CopierQuits PROVE QuietInv'
  BY <1>1, <1>2, <1>3, <1>32 DEF QuietInv, CopierQuits
<1>33. ASSUME AtExitHandler PROVE QuietInv'
  BY <1>1, <1>2, <1>3, <1>33 DEF QuietInv, AtExitHandler
<1>34. ASSUME DisableAll PROVE QuietInv'
  BY <1>1, <1>2, <1>3, <1>34 DEF QuietInv, DisableAll
<1>35. ASSUME Finish PROVE QuietInv'
  BY <1>1, <1>2, <1>3, <1>35 DEF QuietInv, Finish
<1>36. ASSUME FreePreallocatedMemory PROVE QuietInv'
  BY <1>1, <1>2, <1>3, <1>36 DEF QuietInv, FreePreallocatedMemory
<1>37. ASSUME UNCHANGED vars PROVE QuietInv'
  BY <1>1, <1>2, <1>3, <1>37 DEF QuietInv, vars
<1>. QED  BY NextLemma,
            <1>4, <1>5, <1>6, <1>7, <1>8, <1>9, <1>10, <1>11, <1>12, <1>13, <1>14, <1>15, <1>16, <1>17, <1>18, <1>19, <1>20, <1>21, <1>22, <1>23, <1>24, <1>25, <1>26, <1>27, <1>28, <1>29, <1>30, <1>31, <1>32, <1>33, <1>34, <1>35, <1>36, <1>37

-----------------------------------------------------------------------------
(* A request that stops sampling empties CUPTI.                            *)

LEMMA StopStep ==
  ASSUME HandlerAssumption, SettingsAssumption, Held, TypeInv, ControlInv,
         HeldInv, QuietInv, StopInv, [Next]_vars
  PROVE  StopInv'
PROOF
<1>. USE DEF infos, cupti, procs, copy
<1>1. /\ infoMap \subseteq Contexts /\ left \subseteq Contexts
      /\ running \subseteq Contexts
      /\ hw \in [Contexts -> SUBSET Records]
      /\ rest \in [Contexts -> SUBSET Records]
      /\ buf \in [Contexts -> SUBSET Records]
      /\ at \in [Procs -> {"idle", "total", "remaining", "any", "late", "one",
                           "configure", "allocate", "queueLate", "erase"}]
      /\ ctx \in [Procs -> Contexts]
      /\ rpc \in {"idle", "starting", "spawn", "sleep", "collect", "stopping",
                  "collectRest", "join"}
      /\ conf.noRPC \in BOOLEAN
      /\ Threads \subseteq Procs /\ Handler \in Procs
      /\ Handler \notin Threads /\ \A t \in Threads : t # Handler
  BY TypeFacts
<1>2. /\ rpc = "stopping" =>
           running \subseteq left /\ \A c \in Contexts \ left : hw[c] = {}
      /\ rpc \in {"collectRest", "join"} \/ (rpc = "idle" /\ ~conf.noRPC) =>
           running = {} /\ \A c \in Contexts : hw[c] = {}
      /\ rpc = "collectRest" => \A c \in infoMap \ left :
           (at[Handler] = "any" /\ ctx[Handler] = c) \/ (rest[c] = {} /\ buf[c] = {})
      /\ rpc = "join" \/ (rpc = "idle" /\ ~conf.noRPC) => \A c \in Contexts :
           rest[c] = {} /\ (buf[c] = {} \/ Dead(c))
  BY DEF StopInv
<1>3. /\ running \subseteq infoMap
      /\ \A c \in Contexts \ infoMap : hw[c] = {} /\ rest[c] = {}
      /\ \A c \in Contexts : buf[c] = {} \/ c \in infoMap \/ Dead(c)
  BY DEF QuietInv, Dead
<1>4. /\ ~Calm => \A t \in Threads : at[t] \in {"idle", "one"}
      /\ at[Handler] # "idle" => ~Calm
      /\ conf.noRPC => rpc = "idle"
      /\ ~Calm => started \/ rpc = "starting"
      /\ \A p \in Procs : at[p] # "idle" => ctx[p] \in Contexts
      /\ \A p \in Procs : step[p] # "test" => at[p] \in Collecting
  BY <1>1 DEF ControlInv, StepInv, PhaseInv, HandlerInv, HeldInv, Calm, Active
<1>5. \A c \in Contexts : Dead(c) => Dead(c)'
  BY DeadLemma
<1>6. ASSUME NEW c \in Contexts, Sample(c) PROVE StopInv'
  BY <1>1, <1>2, <1>3, <1>4, <1>5, <1>6
     DEF StopInv, Calm, Sample
<1>7. ASSUME NEW c \in Contexts, KernelEnds(c) PROVE StopInv'
  BY <1>1, <1>2, <1>3, <1>4, <1>5, <1>7, OldestLemma
     DEF StopInv, Calm, KernelEnds, Flush
<1>8. ASSUME NEW c \in Contexts, StartContext(c) PROVE StopInv'
  BY <1>1, <1>2, <1>3, <1>4, <1>5, <1>8
     DEF StopInv, Calm, StartContext
<1>9. ASSUME NEW c \in Contexts, CollectContext(c) PROVE StopInv'
  BY <1>1, <1>2, <1>3, <1>4, <1>5, <1>9
     DEF StopInv, Calm, CollectContext, Go
<1>10. ASSUME NEW c \in Contexts, StopContext(c) PROVE StopInv'
  BY <1>1, <1>2, <1>3, <1>4, <1>5, <1>10
     DEF StopInv, Calm, StopContext
<1>11. ASSUME NEW t \in Threads, NEW c \in Contexts, ContextCreated(t, c) PROVE StopInv'
  BY <1>1, <1>2, <1>3, <1>4, <1>5, <1>11
     DEF StopInv, Calm, ContextCreated, Enter, Go
<1>12. ASSUME NEW t \in Threads, NEW c \in Contexts, ContextDestroyStarting(t, c) PROVE StopInv'
  BY <1>1, <1>2, <1>3, <1>4, <1>5, <1>12
     DEF StopInv, Calm, ContextDestroyStarting, Enter, Go, Usable, Changing
<1>13. ASSUME NEW t \in Threads, NEW c \in Contexts, ModuleLoaded(t, c) PROVE StopInv'
  BY <1>1, <1>2, <1>3, <1>4, <1>5, <1>13, OldestLemma
     DEF StopInv, Calm, ModuleLoaded, Enter, Go, Flush, Usable, Changing
<1>14. ASSUME NEW t \in Threads, NEW c \in Contexts, LaunchReturns(t, c) PROVE StopInv'
  <2>1. rpc \in {"spawn", "sleep", "collect", "stopping", "collectRest"} \/ conf.noRPC
    BY <1>14 DEF LaunchReturns, ControlInv, PhaseInv, Active
  <2>2. PICK place \in {"total", "one"} : Enter(t, c, place)
    BY <1>14 DEF LaunchReturns
  <2>3. UNCHANGED <<infos, hw, rest, buf>>
    BY <1>14 DEF LaunchReturns
  <2>. QED  BY <1>1, <1>2, <1>4, <1>5, <2>1, <2>2, <2>3 DEF StopInv, Enter, Go
<1>15. ASSUME NEW t \in Threads, ConfigureActivity(t) PROVE StopInv'
  BY <1>1, <1>2, <1>3, <1>4, <1>5, <1>15
     DEF StopInv, Calm, ConfigureActivity, Go
<1>16. ASSUME NEW t \in Threads, PreallocateBuffersForRecords(t) PROVE StopInv'
  BY <1>1, <1>2, <1>3, <1>4, <1>5, <1>16
     DEF StopInv, Calm, PreallocateBuffersForRecords, Go
<1>17. ASSUME NEW t \in Threads, DisableContext(t) PROVE StopInv'
  BY <1>1, <1>2, <1>3, <1>4, <1>5, <1>17
     DEF StopInv, Calm, DisableContext, Go
<1>18. ASSUME NEW t \in Threads, QueueLate(t) PROVE StopInv'
  BY <1>1, <1>2, <1>3, <1>4, <1>5, <1>18
     DEF StopInv, Calm, QueueLate, Go, QueueConf
<1>19. ASSUME NEW t \in Threads, EraseContext(t) PROVE StopInv'
  BY <1>1, <1>2, <1>3, <1>4, <1>5, <1>19
     DEF StopInv, Calm, EraseContext, Go
<1>20. ASSUME NEW p \in Procs, Fetch(p) PROVE StopInv'
  BY <1>1, <1>2, <1>3, <1>4, <1>5, <1>20
     DEF StopInv, Calm, Fetch, Collecting, Procs
<1>21. ASSUME NEW p \in Procs, Loops(p) PROVE StopInv'
  BY <1>1, <1>2, <1>3, <1>4, <1>5, <1>21
     DEF StopInv, Calm, Loops, At, Go, GoesOn, Collecting, Procs
<1>22. ASSUME NEW p \in Procs, Push(p) PROVE StopInv'
  BY <1>1, <1>2, <1>3, <1>4, <1>5, <1>22
     DEF StopInv, Calm, Push, Go, Collecting, Procs
<1>23. ASSUME StartHandler PROVE StopInv'
  BY <1>1, <1>2, <1>3, <1>4, <1>5, <1>23
     DEF StopInv, Calm, StartHandler, Changing
<1>24. ASSUME SetStarted PROVE StopInv'
  BY <1>1, <1>2, <1>3, <1>4, <1>5, <1>24
     DEF StopInv, Calm, SetStarted
<1>25. ASSUME SpawnCopier PROVE StopInv'
  BY <1>1, <1>2, <1>3, <1>4, <1>5, <1>25
     DEF StopInv, Calm, SpawnCopier
<1>26. ASSUME StopHandler PROVE StopInv'
  BY <1>1, <1>2, <1>3, <1>4, <1>5, <1>26
     DEF StopInv, Calm, StopHandler, Changing
<1>27. ASSUME LookAgain PROVE StopInv'
  BY <1>1, <1>2, <1>3, <1>4, <1>5, <1>27
     DEF StopInv, Calm, LookAgain, Go, QueueConf
<1>28. ASSUME StopContexts PROVE StopInv'
  BY <1>1, <1>2, <1>3, <1>4, <1>5, <1>28
     DEF StopInv, Calm, StopContexts, Collected
<1>29. ASSUME CollectRest PROVE StopInv'
  BY <1>1, <1>2, <1>3, <1>4, <1>5, <1>29
     DEF StopInv, Calm, CollectRest
<1>30. ASSUME ClearStarted PROVE StopInv'
  BY <1>1, <1>2, <1>3, <1>4, <1>5, <1>30
     DEF StopInv, Calm, ClearStarted, Collected
<1>31. ASSUME JoinCopier PROVE StopInv'
  BY <1>1, <1>2, <1>3, <1>4, <1>5, <1>31
     DEF StopInv, Calm, JoinCopier
<1>32. ASSUME ReadStopped PROVE StopInv'
  BY <1>1, <1>2, <1>3, <1>4, <1>5, <1>32
     DEF StopInv, Calm, ReadStopped
<1>33. ASSUME CopyFront PROVE StopInv'
  BY <1>1, <1>2, <1>3, <1>4, <1>5, <1>33
     DEF StopInv, Calm, CopyFront
<1>34. ASSUME CopierQuits PROVE StopInv'
  BY <1>1, <1>2, <1>3, <1>4, <1>5, <1>34
     DEF StopInv, Calm, CopierQuits
<1>35. ASSUME AtExitHandler PROVE StopInv'
  BY <1>1, <1>2, <1>3, <1>4, <1>5, <1>35
     DEF StopInv, Calm, AtExitHandler
<1>36. ASSUME DisableAll PROVE StopInv'
  BY <1>1, <1>2, <1>3, <1>4, <1>5, <1>36
     DEF StopInv, Calm, DisableAll
<1>37. ASSUME Finish PROVE StopInv'
  BY <1>1, <1>2, <1>3, <1>4, <1>5, <1>37
     DEF StopInv, Calm, Finish
<1>38. ASSUME FreePreallocatedMemory PROVE StopInv'
  BY <1>1, <1>2, <1>3, <1>4, <1>5, <1>38
     DEF StopInv, Calm, FreePreallocatedMemory
<1>39. ASSUME UNCHANGED vars PROVE StopInv'
  BY <1>1, <1>2, <1>3, <1>4, <1>5, <1>39
     DEF StopInv, Calm, vars
<1>. QED  BY NextLemma,
            <1>6, <1>7, <1>8, <1>9, <1>10, <1>11, <1>12, <1>13, <1>14, <1>15, <1>16, <1>17, <1>18, <1>19, <1>20, <1>21, <1>22, <1>23, <1>24, <1>25, <1>26, <1>27, <1>28, <1>29, <1>30, <1>31, <1>32, <1>33, <1>34, <1>35, <1>36, <1>37, <1>38, <1>39

-----------------------------------------------------------------------------
(* Where a record is.                                                      *)

\* Records move within CUPTI, towards the configuration buffer, whose contents
\* change only in a context that is not dead.
Shuffle ==
  /\ UNCHANGED <<made, held, queue, copied>>
  /\ \A c \in Contexts : /\ hw'[c] \subseteq hw[c]
                         /\ rest'[c] \subseteq hw[c] \cup rest[c]
                         /\ buf'[c] \subseteq hw[c] \cup rest[c] \cup buf[c]
                         /\ Dead(c) => buf'[c] = buf[c]

\* How records move: not at all, or by one of six kinds of steps.
LEMMA HeldMoves ==
  ASSUME HandlerAssumption, SettingsAssumption, TypeInv, ControlInv, HeldInv,
         QuietInv, [Next]_vars
  PROVE  \/ StandStill \/ Shuffle
         \/ \E c \in Contexts : Sample(c)
         \/ \E p \in Procs : Fetch(p) \/ Push(p)
         \/ \E t \in Threads : QueueLate(t)
         \/ CopyFront
PROOF
<1>. USE DEF infos, cupti, procs, copy
<1>1. /\ hw \in [Contexts -> SUBSET Records]
      /\ rest \in [Contexts -> SUBSET Records]
      /\ buf \in [Contexts -> SUBSET Records]
      /\ ctx \in [Procs -> Contexts] /\ Threads \subseteq Procs
      /\ infoMap \subseteq Contexts
  BY TypeFacts
<1>2. /\ \A c \in running : ~Dead(c)
      /\ \A c \in Usable : ~Dead(c)
      /\ \A t \in Threads : at[t] = "late" => ~Dead(ctx[t])
  BY TypeFacts, PlacesLemma DEF QuietInv, Dead
<1>3. \A c \in infoMap : Dead(c) => hw[c] = {} /\ rest[c] = {}
  BY DEF QuietInv, Dead
<1>4. ASSUME NEW c \in Contexts, KernelEnds(c) PROVE Shuffle
  BY <1>1, <1>2, <1>4, OldestLemma DEF Shuffle, KernelEnds, Flush
<1>5. ASSUME NEW c \in Contexts, StopContext(c) PROVE Shuffle
  BY <1>1, <1>5 DEF Shuffle, StopContext
<1>6. ASSUME NEW t \in Threads, NEW c \in Contexts, ModuleLoaded(t, c) PROVE Shuffle
  BY <1>1, <1>2, <1>6, OldestLemma DEF Shuffle, ModuleLoaded, Flush, Enter
<1>7. ASSUME NEW t \in Threads, DisableContext(t) PROVE Shuffle
  BY <1>1, <1>2, <1>7 DEF Shuffle, DisableContext
<1>8. ASSUME DisableAll PROVE Shuffle
  BY <1>1, <1>3, <1>8 DEF Shuffle, DisableAll
<1>9. ASSUME LookAgain PROVE StandStill
  BY <1>9 DEF StandStill, LookAgain, QueueConf, HeldInv
<1>. QED  BY MovesLemma, <1>4, <1>5, <1>6, <1>7, <1>8, <1>9

LEMMA CuptiStep ==
  ASSUME SizesAssumption, HandlerAssumption, SettingsAssumption, TypeInv,
         ControlInv, HeldInv, CuptiInv, FreshInv, [Next]_vars
  PROVE  CuptiInv'
PROOF
<1>. USE DEF infos, cupti, procs, copy
<1>1. /\ hw \in [Contexts -> SUBSET Records]
      /\ rest \in [Contexts -> SUBSET Records]
      /\ buf \in [Contexts -> SUBSET Records]
      /\ ctx \in [Procs -> Contexts] /\ Threads \subseteq Procs
  BY TypeFacts
<1>2. \A c, d \in Contexts :
        /\ c # d => /\ hw[c] \cap hw[d] = {} /\ rest[c] \cap rest[d] = {}
                    /\ buf[c] \cap buf[d] = {}
        /\ hw[c] \cap rest[d] = {} /\ hw[c] \cap buf[d] = {}
        /\ rest[c] \cap buf[d] = {}
  BY DEF CuptiInv
<1>3. ASSUME UNCHANGED <<hw, rest, buf>> PROVE CuptiInv'
  BY <1>2, <1>3 DEF CuptiInv
<1>4. ASSUME NEW c \in Contexts, Sample(c) PROVE CuptiInv'
  <2>1. PICK r \in Records : r = made + 1 /\ r > made
    BY <1>4 DEF TypeInv, TypeOK, SizesAssumption, Sample, Records
  <2>2. \A d \in Contexts : r \notin hw[d] \cup rest[d] \cup buf[d]
    BY <2>1 DEF FreshInv, InCupti
  <2>3. hw' = [hw EXCEPT ![c] = @ \cup {r}] /\ UNCHANGED <<rest, buf>>
    BY <1>4, <2>1 DEF Sample
  <2>. QED  BY <1>1, <1>2, <2>2, <2>3 DEF CuptiInv
<1>5. ASSUME NEW c \in Contexts, NEW S \in {hw[c], hw[c] \cup rest[c]}, Flush(c, S)
      PROVE  CuptiInv'
  BY <1>1, <1>2, <1>5, OldestLemma DEF CuptiInv, Flush
<1>6. ASSUME NEW c \in Contexts, KernelEnds(c) PROVE CuptiInv'
  <2>1. CASE conf.serialized
    BY <1>5, <1>6, <2>1 DEF KernelEnds
  <2>2. CASE ~conf.serialized
    BY <1>1, <1>2, <1>6, <2>2 DEF CuptiInv, KernelEnds
  <2>. QED  BY <2>1, <2>2
<1>7. ASSUME NEW c \in Contexts, StopContext(c) PROVE CuptiInv'
  BY <1>1, <1>2, <1>7 DEF CuptiInv, StopContext
<1>8. ASSUME NEW t \in Threads, NEW c \in Contexts, ModuleLoaded(t, c) PROVE CuptiInv'
  BY <1>5, <1>8 DEF ModuleLoaded
<1>9. ASSUME NEW t \in Threads, DisableContext(t) PROVE CuptiInv'
  BY <1>1, <1>2, <1>9 DEF CuptiInv, DisableContext
<1>10. ASSUME DisableAll PROVE CuptiInv'
  BY <1>1, <1>2, <1>10 DEF CuptiInv, DisableAll
<1>11. ASSUME NEW p \in Procs, Fetch(p) PROVE CuptiInv'
  BY <1>1, <1>2, <1>11 DEF CuptiInv, Fetch
<1>12. ASSUME NEW p \in Procs, Push(p) PROVE CuptiInv'
  BY <1>3, <1>12 DEF Push, Slot
<1>13. ASSUME NEW t \in Threads, QueueLate(t) PROVE CuptiInv'
  BY <1>3, <1>13 DEF QueueLate
<1>. QED  BY MovesLemma, <1>3, <1>4, <1>6, <1>7, <1>8, <1>9, <1>10, <1>11, <1>12,
             <1>13 DEF StandStill, LookAgain, CopyFront

LEMMA FreshStep ==
  ASSUME SizesAssumption, HandlerAssumption, SettingsAssumption, TypeInv,
         ControlInv, HeldInv, QuietInv, FreshInv, [Next]_vars
  PROVE  FreshInv'
PROOF
<1>. USE DEF infos, cupti, procs, copy
<1>1. /\ hw \in [Contexts -> SUBSET Records]
      /\ rest \in [Contexts -> SUBSET Records]
      /\ buf \in [Contexts -> SUBSET Records]
      /\ ctx \in [Procs -> Contexts] /\ held \in [Procs -> SUBSET Records]
      /\ queue \in Seq(Entries) /\ copied \in [Records -> Nat]
      /\ Threads \subseteq Procs
  BY TypeFacts
<1>2. ASSUME NEW r \in Records, r > made
      PROVE  /\ copied[r] = 0
             /\ \A c \in Contexts : r \notin hw[c] \cup rest[c] \cup buf[c]
             /\ \A p \in Procs : r \notin held[p]
             /\ \A i \in DOMAIN queue : r \notin queue[i].slot
  BY <1>2 DEF FreshInv, InCupti, InHand
<1>3. ASSUME StandStill PROVE FreshInv'
  BY <1>2, <1>3 DEF FreshInv, InCupti, InHand, StandStill
<1>4. ASSUME Shuffle PROVE FreshInv'
  BY <1>2, <1>4 DEF FreshInv, InCupti, InHand, Shuffle
<1>5. ASSUME NEW c \in Contexts, Sample(c) PROVE FreshInv'
  <2>1. PICK m \in Records : made' = m /\ m = made + 1 /\ m > made
    BY <1>5 DEF TypeInv, TypeOK, SizesAssumption, Sample, Records
  <2>2. hw' = [hw EXCEPT ![c] = @ \cup {m}] /\ UNCHANGED <<rest, buf, held, queue, copied>>
    BY <1>5, <2>1 DEF Sample
  <2>3. \A r \in Records : r > m => r > made /\ r # m
    BY <2>1 DEF Records, TypeInv, TypeOK, SizesAssumption
  <2>. QED  BY <1>1, <1>2, <2>1, <2>2, <2>3 DEF FreshInv, InCupti, InHand
<1>6. ASSUME NEW p \in Procs, Fetch(p) PROVE FreshInv'
  BY <1>1, <1>2, <1>6, BatchLemma DEF FreshInv, InCupti, InHand, Fetch
<1>7. ASSUME NEW e \in Entries, queue' = Append(queue, e),
             UNCHANGED <<made, hw, rest, buf, copied>>,
             \A p \in Procs : held'[p] \subseteq held[p],
             \A r \in e.slot : ~(r > made)
      PROVE  FreshInv'
  BY <1>1, <1>2, <1>7, AppendLemma DEF FreshInv, InCupti, InHand
<1>8. ASSUME NEW p \in Procs, Push(p) PROVE FreshInv'
  <2>. DEFINE e == [ctx |-> ctx[p], slot |-> held[p], conf |-> FALSE]
  <2>1. e \in Entries /\ e.slot = held[p] /\ queue' = Append(queue, e)
    BY <1>1, <1>8 DEF Entries, Push, Slot
  <2>2. \A r \in held[p] : r \in Records /\ ~(r > made)
    BY <1>1, <1>2
  <2>3. /\ UNCHANGED <<made, hw, rest, buf, copied>>
        /\ \A q \in Procs : held'[q] \subseteq held[q]
    BY <1>1, <1>8 DEF Push, Slot
  <2>. HIDE DEF e
  <2>. QED  BY <1>7, <2>1, <2>2, <2>3
<1>9. ASSUME NEW t \in Threads, QueueLate(t) PROVE FreshInv'
  <2>. DEFINE e == [ctx |-> ctx[t], slot |-> {}, conf |-> TRUE]
  <2>1. e \in Entries /\ e.slot = {}
    BY <1>1 DEF Entries
  <2>2. queue' \in {queue, Append(queue, e)}
    BY <1>9 DEF QueueLate, QueueConf
  <2>. HIDE DEF e
  <2>3. UNCHANGED <<made, hw, rest, buf, copied, held>>
    BY <1>9 DEF QueueLate
  <2>. QED  BY <1>3, <1>7, <2>1, <2>2, <2>3 DEF StandStill
<1>10. ASSUME CopyFront PROVE FreshInv'
  <2>1. /\ UNCHANGED <<made, hw, rest, buf, held>>
        /\ queue # <<>> /\ queue' = Tail(queue)
        /\ copied' = [r \in Records |-> IF r \in Contents(Head(queue))
                                        THEN copied[r] + 1 ELSE copied[r]]
    BY <1>10 DEF CopyFront
  <2>2. queue[1] \in Entries /\ Head(queue) = queue[1] /\ 1 \in DOMAIN queue
    BY <1>1, <2>1, TailLemma
  <2>3. ASSUME NEW r \in Records, r > made PROVE r \notin Contents(Head(queue))
    BY <1>2, <2>2, <2>3 DEF Contents, Entries
  <2>4. \A i \in DOMAIN queue' : \E j \in DOMAIN queue : queue'[i] = queue[j]
    BY <1>1, <2>1, TailLemma
  <2>. QED  BY <1>1, <1>2, <2>1, <2>3, <2>4 DEF FreshInv, InCupti, InHand
<1>. QED  BY HeldMoves, <1>3, <1>4, <1>5, <1>6, <1>8, <1>9, <1>10

LEMMA PlaceStep ==
  ASSUME SizesAssumption, HandlerAssumption, SettingsAssumption, TypeInv,
         ControlInv, HeldInv, QuietInv, CuptiInv, PlaceInv, FreshInv, [Next]_vars
  PROVE  PlaceInv'
PROOF
<1>. USE DEF infos, cupti, procs, copy
<1>1. /\ hw \in [Contexts -> SUBSET Records]
      /\ rest \in [Contexts -> SUBSET Records]
      /\ buf \in [Contexts -> SUBSET Records]
      /\ ctx \in [Procs -> Contexts] /\ held \in [Procs -> SUBSET Records]
      /\ queue \in Seq(Entries) /\ Threads \subseteq Procs
  BY TypeFacts
<1>2. ASSUME NEW p \in Procs, NEW r \in held[p]
      PROVE  /\ \A c \in Contexts : r \notin hw[c] \cup rest[c] \cup buf[c]
             /\ \A q \in Procs \ {p} : r \notin held[q]
             /\ \A i \in DOMAIN queue : r \notin queue[i].slot
  BY DEF PlaceInv, InCupti
<1>3. ASSUME NEW i \in DOMAIN queue, NEW r \in queue[i].slot
      PROVE  /\ \A c \in Contexts : r \notin hw[c] \cup rest[c] \cup buf[c]
             /\ \A j \in DOMAIN queue \ {i} : r \notin queue[j].slot
  BY DEF PlaceInv, InCupti
<1>4. ASSUME StandStill PROVE PlaceInv'
  BY <1>2, <1>3, <1>4 DEF PlaceInv, InCupti, StandStill
<1>5. ASSUME Shuffle PROVE PlaceInv'
  BY <1>2, <1>3, <1>5 DEF PlaceInv, InCupti, Shuffle
<1>6. ASSUME NEW c \in Contexts, Sample(c) PROVE PlaceInv'
  <2>1. PICK m \in Records : m = made + 1 /\ m > made
    BY <1>6 DEF TypeInv, TypeOK, SizesAssumption, Sample, Records
  <2>2. hw' = [hw EXCEPT ![c] = @ \cup {m}] /\ UNCHANGED <<rest, buf, held, queue>>
    BY <1>6, <2>1 DEF Sample
  <2>3. /\ \A p \in Procs : m \notin held[p]
        /\ \A i \in DOMAIN queue : m \notin queue[i].slot
    BY <2>1 DEF FreshInv, InHand
  <2>. QED  BY <1>1, <1>2, <1>3, <2>2, <2>3 DEF PlaceInv, InCupti
<1>7. ASSUME NEW p \in Procs, Fetch(p) PROVE PlaceInv'
  <2>. DEFINE B == Batch(ctx[p])
  <2>1. /\ UNCHANGED <<hw, queue>>
        /\ rest' = [rest EXCEPT ![ctx[p]] = @ \ B]
        /\ buf' = [buf EXCEPT ![ctx[p]] = @ \ B]
        /\ held' = [held EXCEPT ![p] = B]
    BY <1>7 DEF Fetch
  <2>2. B \subseteq buf[ctx[p]] \cup rest[ctx[p]]
    BY BatchLemma
  <2>. HIDE DEF B
  <2>3. ctx[p] \in Contexts
    BY <1>1
  <2>4. ASSUME NEW r \in B
        PROVE  /\ \A c \in Contexts : r \notin hw'[c] \cup rest'[c] \cup buf'[c]
               /\ \A q \in Procs : r \notin held[q]
               /\ \A i \in DOMAIN queue : r \notin queue[i].slot
    <3>1. r \in buf[ctx[p]] \/ r \in rest[ctx[p]]
      BY <2>2, <2>4
    <3>2. \A c \in Contexts : r \notin hw[c]
      BY <2>3, <3>1 DEF CuptiInv
    <3>3. \A c \in Contexts \ {ctx[p]} : r \notin rest[c] \cup buf[c]
      BY <2>3, <3>1 DEF CuptiInv
    <3>4. \A c \in Contexts : r \notin hw'[c] \cup rest'[c] \cup buf'[c]
      BY <1>1, <2>1, <2>4, <3>2, <3>3
    <3>. QED  BY <1>2, <1>3, <2>3, <3>1, <3>4
  <2>5. \A c \in Contexts : hw'[c] \cup rest'[c] \cup buf'[c]
                              \subseteq hw[c] \cup rest[c] \cup buf[c]
    BY <1>1, <2>1
  <2>6. held'[p] = B /\ \A q \in Procs \ {p} : held'[q] = held[q]
    BY <1>1, <2>1
  <2>7. ASSUME NEW q \in Procs, NEW r \in held'[q]
        PROVE  /\ \A c \in Contexts : r \notin hw'[c] \cup rest'[c] \cup buf'[c]
               /\ \A o \in Procs \ {q} : r \notin held'[o]
               /\ \A i \in DOMAIN queue' : r \notin queue'[i].slot
    <3>1. CASE q = p
      BY <2>1, <2>4, <2>6, <2>7, <3>1
    <3>2. CASE q # p
      BY <1>2, <2>1, <2>4, <2>5, <2>6, <2>7, <3>2
    <3>. QED  BY <3>1, <3>2
  <2>8. ASSUME NEW i \in DOMAIN queue', NEW r \in queue'[i].slot
        PROVE  /\ \A c \in Contexts : r \notin hw'[c] \cup rest'[c] \cup buf'[c]
               /\ \A j \in DOMAIN queue' \ {i} : r \notin queue'[j].slot
    BY <1>3, <2>1, <2>5, <2>8
  <2>. QED  BY <2>7, <2>8 DEF PlaceInv, InCupti
<1>8. ASSUME NEW p \in Procs, Push(p) PROVE PlaceInv'
  <2>. DEFINE e == [ctx |-> ctx[p], slot |-> held[p], conf |-> FALSE]
  <2>1. e \in Entries /\ e.slot = held[p] /\ queue' = Append(queue, e)
    BY <1>1, <1>8 DEF Entries, Push, Slot
  <2>. HIDE DEF e
  <2>2. UNCHANGED <<hw, rest, buf>> /\ held' = [held EXCEPT ![p] = {}]
    BY <1>8 DEF Push, Slot
  <2>3. PICK n : /\ DOMAIN queue' = DOMAIN queue \cup {n} /\ n \notin DOMAIN queue
                 /\ queue'[n] = e /\ \A i \in DOMAIN queue : queue'[i] = queue[i]
    BY <1>1, <2>1, AppendLemma
  <2>4. held'[p] = {} /\ \A q \in Procs \ {p} : held'[q] = held[q]
    BY <1>1, <2>2
  <2>5. ASSUME NEW q \in Procs, NEW r \in held'[q]
        PROVE  /\ \A c \in Contexts : r \notin hw'[c] \cup rest'[c] \cup buf'[c]
               /\ \A o \in Procs \ {q} : r \notin held'[o]
               /\ \A i \in DOMAIN queue' : r \notin queue'[i].slot
    BY <1>2, <2>1, <2>2, <2>3, <2>4, <2>5
  <2>6. ASSUME NEW i \in DOMAIN queue', NEW r \in queue'[i].slot
        PROVE  /\ \A c \in Contexts : r \notin hw'[c] \cup rest'[c] \cup buf'[c]
               /\ \A j \in DOMAIN queue' \ {i} : r \notin queue'[j].slot
    BY <1>2, <1>3, <2>1, <2>2, <2>3, <2>6
  <2>. QED  BY <2>5, <2>6 DEF PlaceInv, InCupti
<1>9. ASSUME NEW t \in Threads, QueueLate(t) PROVE PlaceInv'
  <2>. DEFINE e == [ctx |-> ctx[t], slot |-> {}, conf |-> TRUE]
  <2>1. e \in Entries /\ e.slot = {}
    BY <1>1 DEF Entries
  <2>2. queue' \in {queue, Append(queue, e)} /\ UNCHANGED <<hw, rest, buf, held>>
    BY <1>9 DEF QueueLate, QueueConf
  <2>. HIDE DEF e
  <2>3. CASE queue' = queue
    BY <1>2, <1>3, <2>2, <2>3 DEF PlaceInv, InCupti
  <2>4. CASE queue' = Append(queue, e)
    <3>1. PICK n : /\ DOMAIN queue' = DOMAIN queue \cup {n} /\ n \notin DOMAIN queue
                   /\ queue'[n] = e /\ \A i \in DOMAIN queue : queue'[i] = queue[i]
      BY <1>1, <2>1, <2>4, AppendLemma
    <3>. QED  BY <1>2, <1>3, <2>1, <2>2, <3>1 DEF PlaceInv, InCupti
  <2>. QED  BY <2>2, <2>3, <2>4
<1>10. ASSUME CopyFront PROVE PlaceInv'
  <2>1. UNCHANGED <<hw, rest, buf, held>> /\ queue # <<>> /\ queue' = Tail(queue)
    BY <1>10 DEF CopyFront
  <2>2. \A i \in DOMAIN queue' :
          i \in Int /\ i + 1 \in DOMAIN queue /\ queue'[i] = queue[i + 1]
    BY <1>1, <2>1, TailLemma
  <2>3. \A i, j \in DOMAIN queue' : i # j => i + 1 # j + 1
    BY <2>2
  <2>4. ASSUME NEW q \in Procs, NEW r \in held'[q]
        PROVE  /\ \A c \in Contexts : r \notin hw'[c] \cup rest'[c] \cup buf'[c]
               /\ \A o \in Procs \ {q} : r \notin held'[o]
               /\ \A i \in DOMAIN queue' : r \notin queue'[i].slot
    BY <1>2, <2>1, <2>2, <2>4
  <2>5. ASSUME NEW i \in DOMAIN queue', NEW r \in queue'[i].slot
        PROVE  /\ \A c \in Contexts : r \notin hw'[c] \cup rest'[c] \cup buf'[c]
               /\ \A j \in DOMAIN queue' \ {i} : r \notin queue'[j].slot
    <3>1. i + 1 \in DOMAIN queue /\ r \in queue[i + 1].slot
      BY <2>2, <2>5
    <3>. QED  BY <1>3, <2>1, <2>2, <2>3, <3>1
  <2>. QED  BY <2>4, <2>5 DEF PlaceInv, InCupti
<1>. QED  BY HeldMoves, <1>4, <1>5, <1>6, <1>7, <1>8, <1>9, <1>10

-----------------------------------------------------------------------------
(* Every record is in one reply, once.                                     *)

LEMMA ConfStep ==
  ASSUME HandlerAssumption, SettingsAssumption, TypeInv, ControlInv, HeldInv,
         QuietInv, ConfInv, CopiedInv, [Next]_vars
  PROVE  ConfInv'
PROOF
<1>. USE DEF infos, cupti, procs, copy
<1>1. /\ buf \in [Contexts -> SUBSET Records]
      /\ rest \in [Contexts -> SUBSET Records]
      /\ ctx \in [Procs -> Contexts] /\ held \in [Procs -> SUBSET Records]
      /\ queue \in Seq(Entries) /\ copied \in [Records -> Nat]
      /\ Threads \subseteq Procs
  BY TypeFacts
<1>2. /\ \A c \in Contexts : Queued(c) => Dead(c)
      /\ \A i \in DOMAIN queue : queue[i].conf => queue[i].slot = {}
      /\ \A i, j \in DOMAIN queue :
           i # j /\ queue[i].conf /\ queue[j].conf => queue[i].ctx # queue[j].ctx
      /\ \A c \in Contexts : Dead(c) => \A r \in buf[c] : copied[r] = 1 \/ Queued(c)
  BY DEF ConfInv
<1>3. /\ \A c \in Contexts : Dead(c) => Dead(c)'
      /\ \A c \in Contexts : Dead(c)' =>
           Dead(c) \/ \E t \in Threads : QueueLate(t) /\ ctx[t] = c
  BY DeadLemma
<1>4. \A i \in DOMAIN queue : queue[i] \in Entries /\ queue[i].ctx \in Contexts
  BY DEF TypeInv, TypeOK, Entries
\* Steps that queue nothing, and buffers of dead contexts that do not grow.
<1>5. ASSUME UNCHANGED <<queue, copied>>,
             \A c \in Contexts : Dead(c)' => Dead(c) /\ buf'[c] \subseteq buf[c]
      PROVE  ConfInv'
  <2>1. \A c \in Contexts : Queued(c)' <=> Queued(c)
    BY <1>5 DEF Queued
  <2>2. \A c \in Contexts : Dead(c)' => \A r \in buf'[c] : copied'[r] = 1 \/ Queued(c)'
    BY <1>2, <1>5, <2>1
  <2>. QED  BY <1>2, <1>3, <1>5, <2>1, <2>2 DEF ConfInv
<1>6. CASE \E t \in Threads : QueueLate(t)
  <2>1. PICK t \in Threads : QueueLate(t)
    BY <1>6
  <2>. DEFINE e == [ctx |-> ctx[t], slot |-> {}, conf |-> TRUE]
  <2>2. e \in Entries /\ e.slot = {} /\ e.conf /\ e.ctx = ctx[t] /\ ctx[t] \in Contexts
    BY <1>1 DEF Entries
  <2>3. queue' = IF buf[ctx[t]] = {} THEN queue ELSE Append(queue, e)
    BY <2>1 DEF QueueLate, QueueConf
  <2>. HIDE DEF e
  <2>4. UNCHANGED <<buf, copied>> /\ at[t] = "queueLate" /\ at'[t] = "erase"
        /\ UNCHANGED ctx
    BY <1>1, <2>1, TypeFacts DEF QueueLate, Go
  <2>5. ~Dead(ctx[t]) /\ \A c \in Contexts : c = ctx[t] => Dead(c)'
    BY <2>4, PlacesLemma DEF Dead
  <2>6. \A c \in Contexts : Dead(c)' => Dead(c) \/ c = ctx[t]
    <3>1. \A u \in Threads : QueueLate(u) => u = t
      <4>1. ASSUME NEW u \in Threads, QueueLate(u), u # t PROVE FALSE
        <5>1. at[u] # "erase" /\ at'[u] = "erase"
          BY <1>1, <4>1, TypeFacts DEF QueueLate, Go
        <5>2. at'[u] = at[u]
          BY <1>1, <2>1, <4>1, TypeFacts DEF QueueLate, Go
        <5>. QED  BY <5>1, <5>2
      <4>. QED  BY <4>1
    <3>. QED  BY <1>3, <3>1
  <2>7. CASE buf[ctx[t]] = {}
    <3>1. queue' = queue
      BY <2>3, <2>7
    <3>2. \A c \in Contexts : Queued(c)' <=> Queued(c)
      BY <3>1 DEF Queued
    <3>3. \A c \in Contexts : Dead(c)' => \A r \in buf'[c] : copied'[r] = 1 \/ Queued(c)'
      BY <1>2, <2>4, <2>6, <2>7, <3>2
    <3>. QED  BY <1>2, <1>3, <3>1, <3>2, <3>3 DEF ConfInv
  <2>8. CASE buf[ctx[t]] # {}
    <3>1. PICK n : /\ DOMAIN queue' = DOMAIN queue \cup {n} /\ n \notin DOMAIN queue
                   /\ queue'[n] = e /\ \A i \in DOMAIN queue : queue'[i] = queue[i]
      BY <1>1, <2>2, <2>3, <2>8, AppendLemma
    <3>2. \A c \in Contexts : Queued(c)' <=> Queued(c) \/ c = ctx[t]
      BY <2>2, <3>1 DEF Queued
    <3>3. \A i \in DOMAIN queue : queue[i].conf => queue[i].ctx # ctx[t]
      BY <1>2, <2>2, <2>5 DEF Queued
    <3>4. /\ \A i \in DOMAIN queue' : queue'[i].conf => queue'[i].slot = {}
          /\ \A i, j \in DOMAIN queue' :
               i # j /\ queue'[i].conf /\ queue'[j].conf => queue'[i].ctx # queue'[j].ctx
      BY <1>2, <2>2, <3>1, <3>3
    <3>5. \A c \in Contexts : Dead(c)' => \A r \in buf'[c] : copied'[r] = 1 \/ Queued(c)'
      BY <1>2, <2>4, <2>6, <3>2
    <3>. QED  BY <1>2, <1>3, <2>5, <3>2, <3>4, <3>5 DEF ConfInv
  <2>. QED  BY <2>7, <2>8
<1>7. ASSUME ~\E t \in Threads : QueueLate(t)
      PROVE  \A c \in Contexts : Dead(c)' <=> Dead(c)
  BY <1>3, <1>7
<1>8. ASSUME NEW p \in Procs, Push(p), ~\E t \in Threads : QueueLate(t) PROVE ConfInv'
  <2>. DEFINE e == [ctx |-> ctx[p], slot |-> held[p], conf |-> FALSE]
  <2>1. e \in Entries /\ ~e.conf /\ queue' = Append(queue, e)
    BY <1>1, <1>8 DEF Entries, Push, Slot
  <2>. HIDE DEF e
  <2>2. UNCHANGED <<buf, copied>>
    BY <1>8 DEF Push, Slot
  <2>3. PICK n : /\ DOMAIN queue' = DOMAIN queue \cup {n} /\ n \notin DOMAIN queue
                 /\ queue'[n] = e /\ \A i \in DOMAIN queue : queue'[i] = queue[i]
    BY <1>1, <2>1, AppendLemma
  <2>4. \A c \in Contexts : Queued(c)' <=> Queued(c)
    BY <2>1, <2>3 DEF Queued
  <2>5. /\ \A i \in DOMAIN queue' : queue'[i].conf => queue'[i].slot = {}
        /\ \A i, j \in DOMAIN queue' :
             i # j /\ queue'[i].conf /\ queue'[j].conf => queue'[i].ctx # queue'[j].ctx
    BY <1>2, <2>1, <2>3
  <2>6. \A c \in Contexts : Dead(c)' => \A r \in buf'[c] : copied'[r] = 1 \/ Queued(c)'
    BY <1>2, <1>7, <1>8, <2>2, <2>4
  <2>. QED  BY <1>2, <1>3, <2>4, <2>5, <2>6 DEF ConfInv
<1>9. ASSUME CopyFront, ~\E t \in Threads : QueueLate(t) PROVE ConfInv'
  <2>1. /\ UNCHANGED buf /\ queue # <<>> /\ queue' = Tail(queue)
        /\ copied' = [r \in Records |-> IF r \in Contents(Head(queue))
                                        THEN copied[r] + 1 ELSE copied[r]]
    BY <1>9 DEF CopyFront
  <2>2. /\ Head(queue) = queue[1] /\ 1 \in DOMAIN queue
        /\ \A i \in DOMAIN queue' : /\ i \in Int /\ i + 1 \in DOMAIN queue
                                    /\ queue'[i] = queue[i + 1]
        /\ \A j \in DOMAIN queue :
             j # 1 => j - 1 \in DOMAIN queue' /\ queue'[j - 1] = queue[j]
    BY <1>1, <2>1, TailLemma
  <2>3. \A c \in Contexts : Queued(c)' => Queued(c)
    BY <2>2 DEF Queued
  <2>4. \A i, j \in DOMAIN queue' : i # j => i + 1 # j + 1
    BY <2>2
  <2>5. /\ \A i \in DOMAIN queue' : queue'[i].conf => queue'[i].slot = {}
        /\ \A i, j \in DOMAIN queue' :
             i # j /\ queue'[i].conf /\ queue'[j].conf => queue'[i].ctx # queue'[j].ctx
    BY <1>2, <2>2, <2>4
  <2>6. ASSUME NEW r \in Records, copied[r] = 1 PROVE copied'[r] = 1
    BY <2>1, <2>2, <2>6 DEF CopiedInv, InQueue
  <2>7. ASSUME NEW r \in Records, r \in Contents(Head(queue)) PROVE copied'[r] = 1
    <3>1. copied[r] \in Nat /\ copied[r] <= 1 /\ copied[r] # 1
      BY <1>1, <2>2, <2>7 DEF CopiedInv, InQueue
    <3>. QED  BY <2>1, <2>7, <3>1
  <2>8. ASSUME NEW c \in Contexts, Dead(c), NEW r \in buf[c], copied'[r] # 1
        PROVE  Queued(c)'
    <3>1. r \in Records
      BY <1>1
    <3>2. PICK i \in DOMAIN queue : queue[i].conf /\ queue[i].ctx = c
      BY <1>2, <2>6, <2>8, <3>1 DEF Queued
    <3>3. i # 1
      BY <2>2, <2>7, <2>8, <3>1, <3>2 DEF Contents
    <3>. QED  BY <2>2, <3>2, <3>3 DEF Queued
  <2>9. \A c \in Contexts : Dead(c)' => \A r \in buf'[c] : copied'[r] = 1 \/ Queued(c)'
    BY <1>7, <1>9, <2>1, <2>8
  <2>. QED  BY <1>2, <1>3, <2>3, <2>5, <2>9 DEF ConfInv
<1>10. ASSUME ~\E t \in Threads : QueueLate(t),
              \/ StandStill \/ Shuffle \/ \E c \in Contexts : Sample(c)
              \/ \E p \in Procs : Fetch(p)
       PROVE  ConfInv'
  <2>1. UNCHANGED <<queue, copied>>
    BY <1>10 DEF StandStill, Shuffle, Sample, Fetch
  <2>2. \A c \in Contexts : Dead(c) => buf'[c] \subseteq buf[c]
    <3>1. ASSUME NEW p \in Procs, Fetch(p) PROVE \A c \in Contexts : buf'[c] \subseteq buf[c]
      BY <1>1, <3>1 DEF Fetch
    <3>. QED  BY <1>10, <3>1 DEF StandStill, Shuffle, Sample
  <2>. QED  BY <1>5, <1>7, <1>10, <2>1, <2>2
<1>. QED  BY HeldMoves, <1>6, <1>8, <1>9, <1>10

LEMMA CopiedStep ==
  ASSUME SizesAssumption, HandlerAssumption, SettingsAssumption, TypeInv,
         ControlInv, HeldInv, QuietInv, ConfInv, CuptiInv, PlaceInv, CopiedInv,
         FreshInv, [Next]_vars
  PROVE  CopiedInv'
PROOF
<1>. USE DEF infos, cupti, procs, copy
<1>1. /\ buf \in [Contexts -> SUBSET Records]
      /\ rest \in [Contexts -> SUBSET Records]
      /\ ctx \in [Procs -> Contexts] /\ held \in [Procs -> SUBSET Records]
      /\ queue \in Seq(Entries) /\ copied \in [Records -> Nat]
      /\ Threads \subseteq Procs
  BY TypeFacts
<1>2. ASSUME NEW r \in Records, copied[r] = 1
      PROVE  /\ \A p \in Procs : r \notin held[p]
             /\ \A i \in DOMAIN queue : r \notin Contents(queue[i])
             /\ \A c \in Contexts : /\ r \notin hw[c] \cup rest[c]
                                    /\ r \in buf[c] => Dead(c)
  BY <1>2 DEF CopiedInv, InHand, InQueue
<1>3. \A r \in Records : copied[r] \in Nat /\ copied[r] <= 1
  BY <1>1 DEF CopiedInv
<1>4. \A c \in Contexts : Dead(c) => Dead(c)'
  BY DeadLemma
<1>5. \A i \in DOMAIN queue : queue[i] \in Entries /\ queue[i].ctx \in Contexts
  BY DEF TypeInv, TypeOK, Entries
\* It is enough to see that what is in a reply gets nowhere else.
<1>6. ASSUME UNCHANGED copied,
             \A r \in Records : copied[r] = 1 =>
               /\ \A p \in Procs : r \notin held'[p]
               /\ ~InQueue(r)'
               /\ \A c \in Contexts : /\ r \notin hw'[c] \cup rest'[c]
                                      /\ r \in buf'[c] => r \in buf[c]
      PROVE  CopiedInv'
  BY <1>2, <1>3, <1>4, <1>6 DEF CopiedInv, InHand
<1>7. ASSUME UNCHANGED <<held, queue, copied>>,
             \A r \in Records : copied[r] = 1 => \A c \in Contexts :
               r \notin hw'[c] \cup rest'[c] /\ (r \in buf'[c] => r \in buf[c])
      PROVE  CopiedInv'
  <2>1. ASSUME NEW r \in Records, copied[r] = 1 PROVE ~InQueue(r)'
    BY <1>2, <1>5, <1>7, <2>1 DEF Contents, InQueue
  <2>. QED  BY <1>2, <1>6, <1>7, <2>1
<1>8. ASSUME StandStill PROVE CopiedInv'
  BY <1>2, <1>7, <1>8 DEF StandStill
<1>9. ASSUME Shuffle PROVE CopiedInv'
  BY <1>2, <1>7, <1>9 DEF Shuffle
<1>10. ASSUME NEW c \in Contexts, Sample(c) PROVE CopiedInv'
  <2>1. PICK m \in Records : m = made + 1 /\ m > made
    BY <1>10 DEF TypeInv, TypeOK, SizesAssumption, Sample, Records
  <2>2. copied[m] = 0
    BY <2>1 DEF FreshInv
  <2>3. hw' = [hw EXCEPT ![c] = @ \cup {m}] /\ UNCHANGED <<rest, buf, held, queue, copied>>
    BY <1>10, <2>1 DEF Sample
  <2>4. hw \in [Contexts -> SUBSET Records]
    BY TypeFacts
  <2>. QED  BY <1>2, <1>7, <2>2, <2>3, <2>4
<1>11. ASSUME NEW p \in Procs, Fetch(p) PROVE CopiedInv'
  <2>. DEFINE B == Batch(ctx[p])
  <2>1. /\ UNCHANGED <<hw, queue, copied>> /\ at[p] \in Collecting
        /\ rest' = [rest EXCEPT ![ctx[p]] = @ \ B]
        /\ buf' = [buf EXCEPT ![ctx[p]] = @ \ B]
        /\ held' = [held EXCEPT ![p] = B]
    BY <1>11 DEF Fetch, ControlInv, StepInv
  <2>2. B \subseteq buf[ctx[p]] \cup rest[ctx[p]]
    BY BatchLemma
  <2>. HIDE DEF B
  <2>3. ctx[p] \in Contexts /\ ~Dead(ctx[p])
    BY <1>1, <2>1, PlacesLemma
  <2>4. \A r \in Records : copied[r] = 1 => r \notin B
    BY <1>2, <2>2, <2>3
  <2>5. \A q \in Procs : held'[q] = B \/ held'[q] = held[q]
    BY <1>1, <2>1
  <2>6. \A c \in Contexts : rest'[c] \subseteq rest[c] /\ buf'[c] \subseteq buf[c]
    BY <1>1, <2>1
  <2>7. ASSUME NEW r \in Records, copied[r] = 1 PROVE ~InQueue(r)'
    BY <1>2, <1>5, <2>1, <2>6, <2>7 DEF Contents, InQueue
  <2>. QED  BY <1>2, <1>6, <2>1, <2>4, <2>5, <2>6, <2>7
<1>12. ASSUME NEW e \in Entries, queue' = Append(queue, e),
              UNCHANGED <<hw, rest, buf, copied>>,
              \A q \in Procs : held'[q] \subseteq held[q],
              \A r \in Records : copied[r] = 1 => r \notin Contents(e)
       PROVE  CopiedInv'
  <2>1. \A i \in DOMAIN queue' :
          queue'[i] = e \/ \E j \in DOMAIN queue : queue'[i] = queue[j]
    BY <1>1, <1>12, AppendLemma
  <2>2. ASSUME NEW r \in Records, copied[r] = 1 PROVE ~InQueue(r)'
    BY <1>2, <1>12, <2>1, <2>2 DEF Contents, InQueue
  <2>. QED  BY <1>2, <1>6, <1>12, <2>2
<1>13. ASSUME NEW p \in Procs, Push(p) PROVE CopiedInv'
  <2>. DEFINE e == [ctx |-> ctx[p], slot |-> held[p], conf |-> FALSE]
  <2>1. e \in Entries /\ Contents(e) = held[p] /\ queue' = Append(queue, e)
    BY <1>1, <1>13 DEF Entries, Push, Slot, Contents
  <2>. HIDE DEF e
  <2>2. UNCHANGED <<hw, rest, buf, copied>> /\ \A q \in Procs : held'[q] \subseteq held[q]
    BY <1>1, <1>13 DEF Push, Slot
  <2>. QED  BY <1>2, <1>12, <2>1, <2>2
<1>14. ASSUME NEW t \in Threads, QueueLate(t) PROVE CopiedInv'
  <2>. DEFINE e == [ctx |-> ctx[t], slot |-> {}, conf |-> TRUE]
  <2>1. e \in Entries /\ Contents(e) = buf[ctx[t]] /\ ctx[t] \in Contexts
    BY <1>1 DEF Entries, Contents
  <2>2. queue' \in {queue, Append(queue, e)} /\ UNCHANGED <<made, hw, rest, buf, copied, held>>
    BY <1>14 DEF QueueLate, QueueConf
  <2>. HIDE DEF e
  <2>3. ~Dead(ctx[t])
    BY <1>14, PlacesLemma DEF QueueLate
  <2>4. CASE queue' = queue
    BY <1>8, <2>2, <2>4 DEF StandStill
  <2>5. CASE queue' = Append(queue, e)
    BY <1>2, <1>12, <2>1, <2>2, <2>3, <2>5
  <2>. QED  BY <2>2, <2>4, <2>5
<1>15. ASSUME CopyFront PROVE CopiedInv'
  <2>1. /\ UNCHANGED <<hw, rest, buf, held>> /\ queue # <<>> /\ queue' = Tail(queue)
        /\ copied' = [r \in Records |-> IF r \in Contents(Head(queue))
                                        THEN copied[r] + 1 ELSE copied[r]]
    BY <1>15 DEF CopyFront
  <2>2. /\ Head(queue) = queue[1] /\ 1 \in DOMAIN queue
        /\ \A i \in DOMAIN queue' : /\ i \in Int /\ i + 1 \in DOMAIN queue
                                    /\ i + 1 # 1 /\ queue'[i] = queue[i + 1]
    BY <1>1, <2>1, TailLemma
  <2>3. ASSUME NEW r \in Contents(queue[1])
        PROVE  /\ r \in Records
               /\ \A p \in Procs : r \notin held[p]
               /\ \A i \in DOMAIN queue : i # 1 => r \notin Contents(queue[i])
               /\ \A c \in Contexts : /\ r \notin hw[c] \cup rest[c]
                                      /\ r \in buf[c] => Dead(c)
    <3>1. CASE ~queue[1].conf
      <4>1. r \in queue[1].slot /\ r \in Records
        BY <1>5, <2>2, <2>3, <3>1 DEF Contents, Entries
      <4>2. \A c \in Contexts : r \notin hw[c] \cup rest[c] \cup buf[c]
        BY <2>2, <4>1 DEF PlaceInv, InCupti
      <4>3. \A i \in DOMAIN queue : i # 1 => r \notin queue[i].slot
        BY <2>2, <4>1 DEF PlaceInv
      <4>4. \A p \in Procs : r \notin held[p]
        BY <2>2, <4>1 DEF PlaceInv
      <4>. QED  BY <1>5, <4>1, <4>2, <4>3, <4>4 DEF Contents
    <3>2. CASE queue[1].conf
      <4>. DEFINE d == queue[1].ctx
      <4>1. r \in buf[d] /\ d \in Contexts /\ r \in Records
        BY <1>1, <1>5, <2>2, <2>3, <3>2 DEF Contents
      <4>2. Dead(d) /\ \A i \in DOMAIN queue : i # 1 /\ queue[i].conf => queue[i].ctx # d
        BY <2>2, <3>2, <4>1 DEF ConfInv, Queued
      <4>. HIDE DEF d
      <4>3. /\ \A c \in Contexts : r \notin hw[c] \cup rest[c]
            /\ \A c \in Contexts : r \in buf[c] => c = d
        BY <4>1 DEF CuptiInv
      <4>4. InCupti(r)
        BY <4>1 DEF InCupti
      <4>5. /\ \A p \in Procs : r \notin held[p]
            /\ \A i \in DOMAIN queue : r \notin queue[i].slot
        BY <4>4 DEF PlaceInv
      <4>. QED  BY <1>5, <4>1, <4>2, <4>3, <4>5 DEF Contents
    <3>. QED  BY <3>1, <3>2
  <2>5. ASSUME NEW r \in Records
        PROVE  /\ copied'[r] <= 1
               /\ copied'[r] = 1 => r \in Contents(queue[1]) \/ copied[r] = 1
    <3>1. CASE r \in Contents(queue[1])
      <4>1. copied[r] \in Nat /\ copied[r] <= 1 /\ copied[r] # 1
        BY <1>2, <1>3, <2>2, <3>1
      <4>. QED  BY <2>1, <2>2, <3>1, <4>1
    <3>2. CASE r \notin Contents(queue[1])
      BY <1>3, <2>1, <2>2, <3>2
    <3>. QED  BY <3>1, <3>2
  <2>6. ASSUME NEW r \in Records, copied'[r] = 1
        PROVE  /\ \A p \in Procs : r \notin held[p]
               /\ \A i \in DOMAIN queue : i # 1 => r \notin Contents(queue[i])
               /\ \A c \in Contexts : /\ r \notin hw[c] \cup rest[c]
                                      /\ r \in buf[c] => Dead(c)
    BY <1>2, <2>3, <2>5, <2>6
  <2>7. ASSUME NEW r \in Records, copied'[r] = 1 PROVE ~InQueue(r)'
    BY <2>1, <2>2, <2>6, <2>7 DEF Contents, InQueue
  <2>. QED  BY <1>4, <2>1, <2>5, <2>6, <2>7 DEF CopiedInv, InHand
<1>. QED  BY HeldMoves, <1>8, <1>9, <1>10, <1>11, <1>13, <1>14, <1>15

\* The inductive invariant of a process whose kernels do not flush while the
\* stop handler collects.
CollectInv ==
  /\ HeldInv /\ QuietInv /\ StopInv /\ ConfInv
  /\ CuptiInv /\ PlaceInv /\ CopiedInv /\ FreshInv

LEMMA CollectInit == HandlerAssumption /\ SettingsAssumption /\ Init => CollectInv
PROOF
<1> SUFFICES ASSUME HandlerAssumption, SettingsAssumption, Init PROVE CollectInv
  OBVIOUS
<1>. USE DEF Init, Empty
<1>1. /\ Handler \in Procs /\ Threads \subseteq Procs
      /\ DOMAIN queue = {} /\ \A c \in Contexts : ~Dead(c)
      /\ \A r : ~InCupti(r) /\ ~InHand(r)
  BY DEF Procs, Dead, InCupti, InHand
<1>2. HeldInv /\ QuietInv /\ StopInv
  BY <1>1 DEF HeldInv, QuietInv, StopInv, Calm
<1>3. ConfInv /\ CuptiInv /\ PlaceInv /\ CopiedInv /\ FreshInv
  BY <1>1 DEF ConfInv, Queued, CuptiInv, PlaceInv, CopiedInv, FreshInv
<1>. QED  BY <1>2, <1>3 DEF CollectInv

LEMMA CollectStep ==
  SizesAssumption /\ HandlerAssumption /\ SettingsAssumption /\ Held
  /\ TypeInv /\ ControlInv /\ CollectInv /\ [Next]_vars => CollectInv'
PROOF BY HeldStep, QuietStep, StopStep, ConfStep, CuptiStep, PlaceStep,
         CopiedStep, FreshStep DEF CollectInv

\* The settings are read once.
LEMMA ConfStays == [Next]_vars => UNCHANGED conf
PROOF
<1> SUFFICES ASSUME [Next]_vars PROVE UNCHANGED conf
  OBVIOUS
<1>1. ASSUME NEW t, NEW c, NEW place, Enter(t, c, place) PROVE UNCHANGED conf
  BY <1>1 DEF Enter
<1>2. ASSUME NEW p, Fetch(p) \/ Loops(p) \/ Push(p) PROVE UNCHANGED conf
  BY <1>2 DEF Fetch, Loops, Push, Slot
<1>3. ASSUME NEW c, Sample(c) \/ KernelEnds(c) \/ StartContext(c) \/ CollectContext(c)
                    \/ StopContext(c)
      PROVE  UNCHANGED conf
  BY <1>3 DEF Sample, KernelEnds, StartContext, CollectContext, StopContext
<1>4. ASSUME NEW t, NEW c, ContextCreated(t, c) \/ ContextDestroyStarting(t, c)
                           \/ ModuleLoaded(t, c) \/ LaunchReturns(t, c)
      PROVE  UNCHANGED conf
  BY <1>1, <1>4 DEF ContextCreated, ContextDestroyStarting, ModuleLoaded, LaunchReturns
<1>5. ASSUME NEW t, ConfigureActivity(t) \/ PreallocateBuffersForRecords(t)
                    \/ DisableContext(t) \/ QueueLate(t) \/ EraseContext(t)
      PROVE  UNCHANGED conf
  BY <1>5 DEF ConfigureActivity, PreallocateBuffersForRecords, DisableContext, QueueLate,
              EraseContext
<1>6. ASSUME StartHandler \/ SetStarted \/ SpawnCopier \/ StopHandler \/ LookAgain
             \/ StopContexts \/ CollectRest \/ ClearStarted \/ JoinCopier
      PROVE  UNCHANGED conf
  BY <1>6 DEF StartHandler, SetStarted, SpawnCopier, StopHandler, LookAgain, StopContexts,
              CollectRest, ClearStarted, JoinCopier
<1>7. ASSUME ReadStopped \/ CopyFront \/ CopierQuits \/ AtExitHandler \/ DisableAll
             \/ Finish \/ FreePreallocatedMemory \/ UNCHANGED vars
      PROVE  UNCHANGED conf
  BY <1>7 DEF ReadStopped, CopyFront, CopierQuits, AtExitHandler, DisableAll, Finish,
              FreePreallocatedMemory, vars
<1>. QED  BY NextLemma, <1>2, <1>3, <1>4, <1>5, <1>6, <1>7

LEMMA CollectAlways == Spec => [](Held => CollectInv)
PROOF
<1>1. SizesAssumption /\ HandlerAssumption /\ SettingsAssumption
  BY SizesAssumption, HandlerAssumption, SettingsAssumption
<1>2. Init => (Held => CollectInv)
  BY <1>1, CollectInit
<1>3. [Next]_vars /\ Held' => Held
  BY ConfStays DEF Held
<1>4. TypeInv /\ ControlInv /\ (Held => CollectInv) /\ [Next]_vars => (Held => CollectInv)'
  BY <1>1, <1>3, CollectStep
<1>. QED  BY <1>2, <1>4, TypeAlways, ControlAlways, PTL DEF Spec

\* A record that is kept is in one of these places.
LEMMA PlacesOfKept ==
  ASSUME CollectInv, NEW r \in Records, Kept(r), copied[r] \in Nat
  PROVE  copied[r] = 1 \/ InQueue(r) \/ InHand(r) \/ InCupti(r)
PROOF BY DEF Kept, CollectInv, CopiedInv, InSlot, InQueue, Contents

\* No sample is in a reply twice, although a configuration buffer that is queued
\* by reference may still be emptied by CUPTI's GetData, provided that threads
\* are held while the stop handler collects, or kernels are not serialized.
THEOREM NoSampleTwice == Spec => [](Held => NothingTwice)
PROOF
<1>1. CollectInv => NothingTwice
  BY DEF CollectInv, CopiedInv, NothingTwice
<1>. QED  BY <1>1, CollectAlways, PTL

LEMMA MadeTypes ==
  ASSUME SizesAssumption, TypeInv, NEW r \in 1 .. made
  PROVE  r \in Records /\ copied[r] \in Nat
PROOF BY DEF SizesAssumption, TypeInv, TypeOK, Records

\* When a request has returned, CUPTI has nothing left of what was sampled: what
\* StopContext moved out of the hardware has been collected, in every context of
\* the map, and those that have left it queued their buffers.  Threads are held
\* while the stop handler collects, or kernels are not serialized.
THEOREM NothingIsLeft == Spec => [](Held => StopLeavesNothing)
PROOF
<1>. DEFINE AllKept == \A r \in 1 .. made : Kept(r)
<1>1. ASSUME SizesAssumption, TypeInv, CollectInv, AllKept PROVE StopLeavesNothing
  <2> SUFFICES ASSUME rpc = "idle", ~conf.noRPC, NEW r \in 1 .. made
               PROVE  copied[r] = 1 \/ InQueue(r) \/ InHand(r)
    BY DEF StopLeavesNothing
  <2>1. r \in Records /\ copied[r] \in Nat
    BY <1>1, MadeTypes
  <2>2. copied[r] = 1 \/ InQueue(r) \/ InHand(r) \/ InCupti(r)
    BY <1>1, <2>1, PlacesOfKept
  <2>3. ASSUME InCupti(r) PROVE copied[r] = 1 \/ InQueue(r)
    <3>1. PICK c \in Contexts : r \in hw[c] \cup rest[c] \cup buf[c]
      BY <2>3 DEF InCupti
    <3>2. r \in buf[c] /\ Dead(c)
      BY <1>1, <3>1 DEF CollectInv, StopInv
    <3>3. copied[r] = 1 \/ Queued(c)
      BY <1>1, <3>2 DEF CollectInv, ConfInv
    <3>. QED  BY <3>2, <3>3 DEF Queued, InQueue, Contents
  <2>. QED  BY <2>2, <2>3
<1>2. SizesAssumption
  BY SizesAssumption
<1>3. Spec => []AllKept
  BY KeptAlways
<1>. HIDE DEF AllKept
<1>. QED  BY <1>1, <1>2, <1>3, TypeAlways, CollectAlways, PTL

-----------------------------------------------------------------------------
(* The dump.                                                               *)

\* Without RPC what was queued when the process began to exit is in the queue or
\* in a reply, and in a reply once the copy thread has drained the queue.
DueInv ==
  conf.noRPC /\ exit # "no" =>
    /\ \A r \in due : copied[r] > 0 \/ InQueue(r)
    /\ cpc = "done" \/ exit \in {"free", "done"} => \A r \in due : copied[r] > 0

\* What is queued stays so until it is copied: a buffer that is queued by
\* reference belongs to a dead context, and no GetData empties it any more.
LEMMA QueuedStays ==
  ASSUME SizesAssumption, HandlerAssumption, SettingsAssumption, TypeInv,
         ControlInv, CollectInv, [Next]_vars, NEW r \in Records
  PROVE  /\ copied[r] > 0 => copied'[r] > 0
         /\ InQueue(r) => copied'[r] > 0 \/ InQueue(r)'
PROOF
<1>. USE DEF infos, cupti, procs, copy
<1>1. /\ buf \in [Contexts -> SUBSET Records]
      /\ ctx \in [Procs -> Contexts] /\ held \in [Procs -> SUBSET Records]
      /\ queue \in Seq(Entries) /\ copied \in [Records -> Nat]
      /\ Threads \subseteq Procs
  BY TypeFacts
<1>2. \A i \in DOMAIN queue : queue[i] \in Entries /\ queue[i].ctx \in Contexts
  BY DEF TypeInv, TypeOK, Entries
<1>3. \A i \in DOMAIN queue : queue[i].conf => Dead(queue[i].ctx)
  BY <1>2 DEF CollectInv, ConfInv, Queued
<1>4. ASSUME UNCHANGED <<copied, queue>>,
             \A c \in Contexts : Dead(c) => buf[c] \subseteq buf'[c]
      PROVE  /\ copied[r] > 0 => copied'[r] > 0
             /\ InQueue(r) => InQueue(r)'
  BY <1>2, <1>3, <1>4 DEF InQueue, Contents
<1>5. ASSUME NEW e \in Entries, queue' = Append(queue, e), UNCHANGED <<copied, buf>>
      PROVE  /\ copied[r] > 0 => copied'[r] > 0
             /\ InQueue(r) => InQueue(r)'
  <2>1. \A i \in DOMAIN queue : i \in DOMAIN queue' /\ queue'[i] = queue[i]
    BY <1>1, <1>5, AppendLemma
  <2>. QED  BY <1>5, <2>1 DEF InQueue, Contents
<1>6. CASE StandStill
  BY <1>4, <1>6 DEF StandStill
<1>7. CASE Shuffle
  BY <1>1, <1>4, <1>7 DEF Shuffle
<1>8. ASSUME NEW c \in Contexts, Sample(c)
      PROVE  /\ copied[r] > 0 => copied'[r] > 0
             /\ InQueue(r) => InQueue(r)'
  BY <1>4, <1>8 DEF Sample
<1>9. ASSUME NEW p \in Procs, Fetch(p)
      PROVE  /\ copied[r] > 0 => copied'[r] > 0
             /\ InQueue(r) => InQueue(r)'
  <2>1. ~Dead(ctx[p])
    BY <1>9, PlacesLemma DEF Fetch, ControlInv, StepInv
  <2>2. \A c \in Contexts : c # ctx[p] => buf'[c] = buf[c]
    BY <1>1, <1>9 DEF Fetch
  <2>. QED  BY <1>4, <1>9, <2>1, <2>2 DEF Fetch
<1>10. ASSUME NEW p \in Procs, Push(p)
       PROVE  /\ copied[r] > 0 => copied'[r] > 0
              /\ InQueue(r) => InQueue(r)'
  <2>1. Slot(p) \in Entries
    BY <1>1 DEF Slot, Entries
  <2>. QED  BY <1>5, <1>10, <2>1 DEF Push
<1>11. ASSUME NEW t \in Threads, QueueLate(t)
       PROVE  /\ copied[r] > 0 => copied'[r] > 0
              /\ InQueue(r) => InQueue(r)'
  <2>. DEFINE e == [ctx |-> ctx[t], slot |-> {}, conf |-> TRUE]
  <2>1. e \in Entries
    BY <1>1 DEF Entries
  <2>2. UNCHANGED <<copied, buf>> /\ queue' \in {queue, Append(queue, e)}
    BY <1>11 DEF QueueLate, QueueConf
  <2>. HIDE DEF e
  <2>3. CASE queue' = queue
    BY <1>4, <2>2, <2>3
  <2>4. CASE queue' = Append(queue, e)
    BY <1>5, <2>1, <2>2, <2>4
  <2>. QED  BY <2>2, <2>3, <2>4
<1>12. ASSUME CopyFront
       PROVE  /\ copied[r] > 0 => copied'[r] > 0
              /\ InQueue(r) => copied'[r] > 0 \/ InQueue(r)'
  <2>1. /\ UNCHANGED buf /\ queue # <<>> /\ queue' = Tail(queue)
        /\ copied' = [q \in Records |-> IF q \in Contents(Head(queue))
                                        THEN copied[q] + 1 ELSE copied[q]]
    BY <1>12 DEF CopyFront
  <2>2. /\ Head(queue) = queue[1]
        /\ \A j \in DOMAIN queue :
             j # 1 => j - 1 \in DOMAIN queue' /\ queue'[j - 1] = queue[j]
    BY <1>1, <2>1, TailLemma
  <2>3. /\ copied[r] \in Nat
        /\ r \in Contents(queue[1]) => copied'[r] = copied[r] + 1
        /\ copied'[r] = copied[r] \/ copied'[r] = copied[r] + 1
    BY <1>1, <2>1, <2>2
  <2>4. ASSUME NEW i \in DOMAIN queue, r \in Contents(queue[i])
        PROVE  copied'[r] > 0 \/ InQueue(r)'
    <3>1. CASE i = 1
      BY <2>3, <2>4, <3>1
    <3>2. CASE i # 1
      BY <2>1, <2>2, <2>4, <3>2 DEF InQueue, Contents
    <3>. QED  BY <3>1, <3>2
  <2>. QED  BY <2>3, <2>4 DEF InQueue
<1>. QED  BY HeldMoves, <1>6, <1>7, <1>8, <1>9, <1>10, <1>11, <1>12 DEF CollectInv

\* How a step changes the exit, the copy thread and what is due.
LEMMA DueMoves ==
  ASSUME [Next]_vars
  PROVE  \/ UNCHANGED <<exit, cpc, due>>
         \/ AtExitHandler \/ CopierQuits \/ Finish
         \/ UNCHANGED <<exit, due>> /\ cpc' # "done"
         \/ UNCHANGED <<cpc, due>> /\ exit = "wait" /\ exit' = "join"
         \/ UNCHANGED <<cpc, due>> /\ exit = "free" /\ exit' = "done"
PROOF
<1>. USE DEF copy
<1>1. ASSUME NEW t, NEW c, NEW place, Enter(t, c, place)
      PROVE  UNCHANGED <<exit, cpc, due>>
  BY <1>1 DEF Enter
<1>2. ASSUME NEW p, Fetch(p) \/ Loops(p) \/ Push(p)
      PROVE  UNCHANGED <<exit, cpc, due>>
  BY <1>2 DEF Fetch, Loops, Push
<1>3. ASSUME NEW c, Sample(c) \/ KernelEnds(c) \/ StartContext(c) \/ CollectContext(c)
                    \/ StopContext(c)
      PROVE  UNCHANGED <<exit, cpc, due>>
  BY <1>3 DEF Sample, KernelEnds, StartContext, CollectContext, StopContext
<1>4. ASSUME NEW t, NEW c, ContextCreated(t, c) \/ ContextDestroyStarting(t, c)
                           \/ ModuleLoaded(t, c) \/ LaunchReturns(t, c)
      PROVE  UNCHANGED <<exit, cpc, due>>
  BY <1>1, <1>4 DEF ContextCreated, ContextDestroyStarting, ModuleLoaded, LaunchReturns
<1>5. ASSUME NEW t, ConfigureActivity(t) \/ PreallocateBuffersForRecords(t)
                    \/ DisableContext(t) \/ QueueLate(t) \/ EraseContext(t)
      PROVE  UNCHANGED <<exit, cpc, due>>
  BY <1>5 DEF ConfigureActivity, PreallocateBuffersForRecords, DisableContext, QueueLate,
              EraseContext
<1>6. ASSUME StartHandler \/ SetStarted \/ StopHandler \/ LookAgain
             \/ StopContexts \/ CollectRest \/ ClearStarted \/ CopyFront \/ UNCHANGED vars
      PROVE  UNCHANGED <<exit, cpc, due>>
  BY <1>6 DEF StartHandler, SetStarted, StopHandler, LookAgain, StopContexts,
              CollectRest, ClearStarted, CopyFront, vars
<1>7. ASSUME SpawnCopier \/ JoinCopier \/ ReadStopped
      PROVE  UNCHANGED <<exit, due>> /\ cpc' # "done"
  BY <1>7 DEF SpawnCopier, JoinCopier, ReadStopped
<1>8. ASSUME DisableAll
      PROVE  UNCHANGED <<cpc, due>> /\ exit = "wait" /\ exit' = "join"
  BY <1>8 DEF DisableAll
<1>9. ASSUME FreePreallocatedMemory
      PROVE  UNCHANGED <<cpc, due>> /\ exit = "free" /\ exit' = "done"
  BY <1>9 DEF FreePreallocatedMemory
<1>. QED  BY NextLemma, <1>2, <1>3, <1>4, <1>5, <1>6, <1>7, <1>8, <1>9

LEMMA DueStep ==
  ASSUME SizesAssumption, HandlerAssumption, SettingsAssumption, TypeInv,
         ControlInv, Held => CollectInv, DueInv, [Next]_vars
  PROVE  DueInv'
PROOF
<1>1. SUFFICES ASSUME conf'.noRPC, exit' # "no"
               PROVE  /\ \A r \in due' : copied'[r] > 0 \/ InQueue(r)'
                      /\ cpc' = "done" \/ exit' \in {"free", "done"} =>
                           \A r \in due' : copied'[r] > 0
  BY DEF DueInv
<1>2. conf.noRPC /\ CollectInv
  BY <1>1, ConfStays DEF Held
<1>3. due \subseteq Records /\ made \in 0 .. MaxRecords
  BY DEF TypeInv, TypeOK
<1>4. \A r \in due : /\ copied[r] > 0 => copied'[r] > 0
                     /\ InQueue(r) => copied'[r] > 0 \/ InQueue(r)'
  BY <1>2, <1>3, QueuedStays
<1>5. CASE exit # "no" /\ UNCHANGED due
  <2>1. \A r \in due' : copied'[r] > 0 \/ InQueue(r)'
    BY <1>2, <1>4, <1>5 DEF DueInv
  <2>2. ASSUME cpc = "done" \/ exit \in {"free", "done"}
        PROVE  \A r \in due' : copied'[r] > 0
    BY <1>2, <1>4, <1>5, <2>2 DEF DueInv
  <2>3. ASSUME CopierQuits PROVE \A r \in due' : copied'[r] > 0
    <3>1. \A r \in due : ~InQueue(r)
      BY <2>3 DEF CopierQuits, InQueue
    <3>. QED  BY <1>2, <1>4, <1>5, <3>1 DEF DueInv
  <2>4. ASSUME Finish PROVE cpc = "done"
    BY <1>2, <2>4 DEF Finish
  <2>5. ~AtExitHandler
    BY <1>5 DEF AtExitHandler
  <2>. QED  BY <1>5, <2>1, <2>2, <2>3, <2>4, <2>5, DueMoves
<1>6. CASE AtExitHandler
  <2>1. /\ due' = {r \in 1 .. made : copied[r] > 0 \/ InQueue(r)}
        /\ UNCHANGED <<copied, queue, buf, cpc>> /\ exit = "no" /\ exit' = "wait"
    BY <1>6 DEF AtExitHandler, cupti, copy
  <2>2. cpc # "done"
    BY <1>2, <2>1 DEF ControlInv, PhaseInv
  <2>. QED  BY <2>1, <2>2 DEF InQueue, Contents
<1>7. CASE exit = "no" /\ ~AtExitHandler
  BY <1>1, <1>7, DueMoves DEF Finish, CopierQuits
<1>8. AtExitHandler \/ UNCHANGED due
  BY DueMoves DEF CopierQuits, Finish
<1>. QED  BY <1>5, <1>6, <1>7, <1>8

\* Without RPC what was queued when the process began to exit is in the dump, in
\* any setting and whatever the threads of the program queue meanwhile: the copy
\* thread drains the queue once more after it has seen g_pcSamplingStarted
\* cleared, AtExitHandler joins it, and what is queued no thread takes back.
THEOREM DumpIsComplete == Spec => []DumpHasAllDue
PROOF
<1>1. SizesAssumption /\ HandlerAssumption /\ SettingsAssumption
  BY SizesAssumption, HandlerAssumption, SettingsAssumption
<1>2. Init => DueInv
  BY DEF Init, DueInv
<1>3. TypeInv /\ ControlInv /\ (Held => CollectInv) /\ DueInv /\ [Next]_vars => DueInv'
  BY <1>1, DueStep
<1>4. DueInv => DumpHasAllDue
  BY DEF DueInv, DumpHasAllDue
<1>. QED  BY <1>2, <1>3, <1>4, TypeAlways, ControlAlways, CollectAlways, PTL DEF Spec
=============================================================================
