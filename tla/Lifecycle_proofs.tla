-------------------------- MODULE Lifecycle_proofs --------------------------
(***************************************************************************)
(* Theorems about Lifecycle, with CpuSampler and Tracing: the type         *)
(* invariant, what is left of a request and of the samplers, what reaches  *)
(* the CPU trees, and what tracing reports.                                *)
(***************************************************************************)
EXTENDS Lifecycle, Integers, FiniteSetTheorems, NaturalsInduction,
  WellFoundedInduction, TLAPS

-----------------------------------------------------------------------------
(* Types: the inductive invariant.                                         *)

\* What the collecting thread returns is a stack for each sampler.
Gotten == [names : Int, intact : BOOLEAN]
SamplerTyped == SamplerTypeOK /\ got \in [DOMAIN got -> Gotten]

\* The maps of tracing have values of their kind: every key there is has a record
\* and a timer; and a launch that goes on has an id.
TracerTyped ==
  /\ TracingTypeOK
  /\ corKey \in [DOMAIN corKey -> DOMAIN records]
  /\ IsFiniteSet(DOMAIN records)
  /\ records \in [DOMAIN records -> Int]
  /\ timers \in [DOMAIN records -> 0 .. MaxTime]
  /\ truth \in [Kernels -> Int]
  /\ \A t \in Launchers : launch[t].at # "out" => launch[t].id \in 1 .. ids

\* The settings, the request and the exit.
ControlTyped ==
  /\ conf \in Settings /\ started \in BOOLEAN
  /\ copier \in {"none", "runs", "done"} /\ server \in {"none", "up", "down"}
  /\ request \in {"none", "erase", "start", "spawn", "enable", "check", "sleep",
                  "stop", "join"}
  /\ duration \in BOOLEAN /\ client \in {"idle", "waits", "ok", "failed"}
  /\ issued \in 0 .. Requests /\ refused \in BOOLEAN /\ dead \in BOOLEAN
  /\ exit \in {"injected", "no", "wait", "disable", "join", "shutdown",
               "delete", "over"}

TypeInv == SamplerTyped /\ TracerTyped /\ ControlTyped

-----------------------------------------------------------------------------
(* What tracing reports: the inductive invariant.                          *)

\* A launch that the maps know is one that was traced, its key is of its
\* kernel, and the key's timer was not started before the launch began.
LaunchInv ==
  /\ DOMAIN corKey \subseteq 1 .. ids
  /\ \A key \in DOMAIN records : timers[key] <= now
  /\ \A t, u \in Launchers :
       t # u /\ launch[t].at # "out" /\ launch[u].at # "out" =>
         launch[t].id # launch[u].id
  /\ \A t \in Launchers :
       /\ launch[t].began <= now
       /\ launch[t].at = "record" =>
            launch[t].traced /\ launch[t].id \notin DOMAIN corKey
       /\ launch[t].at = "in" /\ launch[t].id \in DOMAIN corKey =>
            /\ launch[t].traced
            /\ corKey[launch[t].id][2] = launch[t].kernel
            /\ launch[t].began <= timers[corKey[launch[t].id]]

TraceInv == LaunchInv /\ TimeIsNotInvented

-----------------------------------------------------------------------------
(* What reaches the trees: the inductive invariant.                        *)

\* The records end where the head is at the latest, and at an offset that is
\* behind the head one of them starts.
RecordInv ==
  \A p \in Pids :
    /\ evt[p].offset <= evt[p].head
    /\ \A r \in written[p] : r.at + r.cells <= evt[p].head
    /\ evt[p].offset < evt[p].head =>
         \E r \in written[p] : r.at = evt[p].offset

\* A stack of the round that was read in one piece is a sample's, and without a
\* timeout none is unset.
ReadInv ==
  \A p \in DOMAIN got :
    /\ got[p].intact =>
         \E r \in written[p] : r.at = got[p].names /\ r.sample
    /\ ~timeout => got[p].names # Blank

StackInv == RecordInv /\ ReadInv /\ StackIsOneSample

-----------------------------------------------------------------------------
(* What is left of a request: the inductive invariant.                     *)

Disabled == \A p \in Pids : ~evt[p].enabled
AllOff == ~started /\ ~tracing /\ ~cpuOn /\ copier = "none" /\ cpu = "none" /\ Disabled

\* What is running in each place of a request, if none was refused.
PhaseInv ==
  /\ request \in {"none", "erase", "start"} => AllOff
  /\ request \in {"spawn", "enable", "check", "sleep", "stop"} =>
       started = ~conf.noSampling /\ tracing = conf.noSampling
  /\ request = "spawn" => copier = "none"
  /\ request \in {"enable", "check", "sleep", "stop"} =>
       copier = IF conf.noSampling THEN "none" ELSE "runs"
  /\ request \in {"spawn", "enable"} => ~cpuOn /\ cpu = "none" /\ Disabled
  /\ request \in {"check", "sleep"} =>
       IF conf.enableCPUSampling THEN cpuOn /\ cpu \notin {"none", "done"}
       ELSE ~cpuOn /\ cpu = "none" /\ Disabled
  /\ request \in {"stop", "join"} => ~cpuOn /\ Disabled
  /\ request = "join" => ~started /\ ~tracing

\* Only a registered sampler is enabled; the way out of the process depends on
\* whether there is an RPC server, and ends with nothing running.
ExitInv ==
  /\ \A p \in Pids : evt[p].enabled => p \in samplers
  /\ conf.noRPC => /\ server = "none" /\ request = "none"
                   /\ ~dead /\ ~refused /\ exit # "shutdown"
  /\ ~conf.noRPC => exit \notin {"disable", "join"}
  /\ exit = "injected" => request = "none"
  /\ exit \in {"delete", "over"} /\ ~refused => cpu = "none" /\ request = "none"
  /\ deleted => exit = "over"

ControlInv == ExitInv /\ (~refused => ~dead) /\ (~conf.noRPC /\ ~refused => PhaseInv)

-----------------------------------------------------------------------------
(* Lemmas about the model's operators.                                     *)

\* The fields of the settings have values of their kind.
LEMMA ConfTypes ==
  ASSUME ControlTyped
  PROVE  /\ conf.noRPC \in BOOLEAN /\ conf.noSampling \in BOOLEAN
         /\ conf.enableCPUSampling \in BOOLEAN
BY SettingsAssumption DEF ControlTyped

Events == [enabled : BOOLEAN, head : Nat, pending : BOOLEAN, offset : Nat]

\* Switching the samplers on or off: the registered ones, and nothing else of an
\* event.
LEMMA SwitchFacts ==
  ASSUME NEW on \in BOOLEAN, evt \in [Pids -> Events], Switch(on)
  PROVE  /\ evt' \in [Pids -> Events] /\ cpuOn' = on
         /\ \A p \in Pids :
              /\ evt'[p].head = evt[p].head
              /\ evt'[p].offset = evt[p].offset
              /\ evt'[p].enabled = IF p \in samplers THEN on ELSE evt[p].enabled
BY DEF Switch, Events

\* Deleting samplers switches them off.
LEMMA DeleteFacts ==
  ASSUME NEW ended, evt \in [Pids -> Events], DeleteSamplers(ended)
  PROVE  /\ evt' \in [Pids -> Events] /\ samplers' = samplers \ ended
         /\ \A p \in Pids :
              /\ evt'[p].head = evt[p].head
              /\ evt'[p].offset = evt[p].offset
              /\ evt'[p].enabled = IF p \in ended THEN FALSE ELSE evt[p].enabled
BY DEF DeleteSamplers, Events

\* Every set of numbers has a least one: the induction that the proofs use.
LEMMA LeastNat ==
  ASSUME NEW T, T \subseteq Nat, T # {}
  PROVE  \E n \in T : \A m \in T : n <= m
PROOF
<1>. DEFINE R == {ss \in Nat \X Nat : ss[1] < ss[2]}
<1>1. IsWellFoundedOn(R, Nat)
  BY NatLessThanWellFounded, Zenon DEF OpToRel
<1>. HIDE DEF R
<1>2. PICK n \in T : \A m \in T : ~ (<<m, n>> \in R)
  BY <1>1, WFMin, Zenon
<1>3. \A m \in T : ~(m < n)
  BY <1>2 DEF R
<1>. QED  BY <1>3

\* A nonempty set of numbers below a bound has a greatest one.
LEMMA Greatest ==
  ASSUME NEW n \in Nat, NEW T, T \subseteq 0 .. n, T # {}
  PROVE  \E m \in T : \A k \in T : k <= m
PROOF
<1>. DEFINE D == {n - k : k \in T}
<1>1. D \subseteq Nat /\ D # {}
  <2>1. PICK k \in T : TRUE
    OBVIOUS
  <2>2. n - k \in D
    OBVIOUS
  <2>3. \A d \in D : d \in Nat
    OBVIOUS
  <2>. HIDE DEF D
  <2>. QED  BY <2>2, <2>3
<1>2. PICK d \in D : \A e \in D : d <= e
  <2>. HIDE DEF D
  <2>. QED  BY <1>1, LeastNat, Zenon
<1>3. PICK m \in T : d = n - m
  BY <1>2
<1>4. \A k \in T : n - k \in D
  OBVIOUS
<1>5. \A k \in T : d <= n - k
  <2>. HIDE DEF D
  <2>. QED  BY <1>2, <1>4
<1>. HIDE DEF D
<1>6. \A k \in T : k \in Int
  OBVIOUS
<1>. QED  BY <1>3, <1>5, <1>6

\* The record at an offset is the last one that was written there: none, or one
\* that has been written.
LEMMA CellFacts ==
  ASSUME NEW p \in Pids, NEW off \in Int, evt[p].head \in Nat
  PROVE  /\ Cell(p, off) \in Int
         /\ \/ Cell(p, off) = Blank
            \/ Cell(p, off) \in 0 .. evt[p].head - 1
         /\ \A r \in 0 .. evt[p].head - 1 :
              (r - off) % RingCells = 0 =>
                Cell(p, off) # Blank /\ r <= Cell(p, off)
         /\ Cell(p, off) # Blank =>
              (Cell(p, off) - off) % RingCells = 0
PROOF
<1>. DEFINE there == {r \in 0 .. evt[p].head - 1 : (r - off) % RingCells = 0}
<1>1. Cell(p, off) = IF there = {} THEN Blank
                     ELSE CHOOSE r \in there : \A q \in there : q <= r
  BY DEF Cell
<1>2. there \subseteq 0 .. evt[p].head - 1
  OBVIOUS
<1>3. \A r \in 0 .. evt[p].head - 1 :
        r \in there <=> (r - off) % RingCells = 0
  OBVIOUS
<1>4. \A r \in 0 .. evt[p].head - 1 : r \in Int /\ r # Blank
  BY DEF Blank
<1>. HIDE DEF there
<1>5. CASE there = {}
  BY <1>1, <1>3, <1>5 DEF Blank
<1>6. CASE there # {}
  <2>1. there \subseteq 0 .. evt[p].head
    BY <1>2
  <2>2. \E m \in there : \A k \in there : k <= m
    BY <1>6, <2>1, Greatest, Zenon
  <2>3. Cell(p, off) \in there /\ \A q \in there : q <= Cell(p, off)
    BY <1>1, <1>6, <2>2, Zenon
  <2>. QED  BY <1>2, <1>3, <1>4, <2>3
<1>. QED  BY <1>5, <1>6
-----------------------------------------------------------------------------
(* Type correctness.                                                       *)

\* What is seen in the ring is nothing, something wrong, or the place looked at.
LEMMA SeenFacts ==
  ASSUME NEW p \in Pids, NEW q \in Int, NEW v \in Seen(p, q)
  PROVE  v \in Int
BY DEF Seen, Blank, Wrong

\* Of the step of the collecting thread, and the kernel's.
LEMMA CollectorTypes ==
  ASSUME SamplerTyped, CollectorThread \/ \E p \in Pids : Tick(p)
  PROVE  /\ SamplerTyped'
         /\ UNCHANGED <<timeout, alive, samplers, deleted, cpuOn>>
PROOF
<1>. USE DEF SamplerTyped, SamplerTypeOK
<1>0. evt \in [Pids -> Events]
  BY DEF Events
<1>1. CASE Collect /\ UNCHANGED <<timeout, alive, samplers, deleted, evt, written, cpuOn, cur>>
  <2>1. mutex' \in {"free", "cpu", "request"} /\ left' \subseteq Pids
    BY <1>1 DEF Collect
  <2>2. cpu' \in {"none", "check", "lock", "poll", "read", "update", "done"}
    BY <1>1 DEF Collect
  <2>3. got' \in [DOMAIN got' -> Gotten] /\ DOMAIN got' \subseteq Pids
    BY <1>1 DEF Collect, None
  <2>4. inserted' \subseteq Stacks
    BY <1>1 DEF Collect
  <2>5. \A q \in DOMAIN got' : got'[q] \in [names : Int, intact : BOOLEAN]
    BY <2>3 DEF Gotten
  <2>6. UNCHANGED <<timeout, alive, samplers, deleted, evt, written, cpuOn, cur>>
    BY <1>1
  <2>. QED  BY <2>1, <2>2, <2>3, <2>4, <2>5, <2>6
<1>2. CASE Unlock /\ UNCHANGED <<timeout, alive, samplers, deleted, evt, written, cpuOn, cur>>
  BY <1>2 DEF Unlock, Stacks
<1>3. CASE Read
  <2>1. evt[cur].offset \in Int /\ evt[cur].head \in Nat
    OBVIOUS
  <2>. DEFINE c == Cell(cur, evt[cur].offset)
  <2>2. c \in Int
    BY <2>1, CellFacts
  <2>3. evt' = [evt EXCEPT ![cur].offset = evt[cur].head]
    BY <1>3 DEF Read
  <2>4. evt' \in [Pids -> Events]
    BY <1>0, <2>3 DEF Events
  <2>5. /\ cpu' = "poll" /\ cur' \in Pids /\ left' \subseteq Pids
        /\ UNCHANGED <<timeout, alive, samplers, deleted, written, cpuOn, mutex,
                       inserted>>
    BY <1>3, PidsAssumption DEF Read, Nobody
  <2>6. \A s \in Seen(cur, c) : s \in Int
    BY <2>2, SeenFacts
  <2>7. \/ got' = got
        \/ \E s \in Seen(cur, c) :
             got' = [q \in DOMAIN got \cup {cur} |->
                      IF q = cur THEN [names |-> s, intact |-> Intact(cur)]
                      ELSE got[q]]
    BY <1>3 DEF Read
  <2>8. Intact(cur) \in BOOLEAN
    BY DEF Intact
  <2>. HIDE DEF c
  <2>9. got' \in [DOMAIN got' -> Gotten] /\ DOMAIN got' \subseteq Pids
    BY <2>6, <2>7, <2>8 DEF Gotten
  <2>. QED  BY <2>4, <2>5, <2>9 DEF Events, Gotten
<1>4. CASE Update
  <2>1. inserted' = {[pid |-> p, names |-> got[p].names, intact |-> got[p].intact,
                      pcs |-> Pcs(p, got[p].names)] : p \in DOMAIN got}
    BY <1>4 DEF Update
  <2>2. \A p \in DOMAIN got :
          /\ p \in Pids /\ got[p].names \in Int /\ got[p].intact \in BOOLEAN
          /\ Pcs(p, got[p].names) \in Int
    BY DEF Pcs, Wrong, Gotten
  <2>3. inserted' \subseteq Stacks
    BY <2>1, <2>2 DEF Stacks
  <2>4. got' \in [DOMAIN got' -> Gotten] /\ DOMAIN got' \subseteq Pids
    BY <1>4 DEF Update, None
  <2>5. /\ cpu' = "check"
        /\ UNCHANGED <<timeout, alive, samplers, deleted, evt, written, cpuOn, mutex,
                       left, cur>>
    BY <1>4 DEF Update
  <2>. QED  BY <2>3, <2>4, <2>5 DEF Gotten
<1>5. CASE \E p \in Pids : Reports(p)
  <2>1. PICK p \in Pids : Reports(p)
    BY <1>5
  <2>2. evt' = [evt EXCEPT ![p].pending = FALSE]
    BY <2>1 DEF Reports
  <2>3. evt' \in [Pids -> Events]
    BY <1>0, <2>2 DEF Events
  <2>4. /\ cpu' = "read" /\ cur' = p
        /\ UNCHANGED <<timeout, alive, samplers, deleted, written, cpuOn, mutex, left,
                       got, inserted>>
    BY <2>1 DEF Reports
  <2>. QED  BY <2>3, <2>4 DEF Events, Stacks
<1>6. CASE \E p \in Pids : TimesOut(p)
  <2>1. PICK p \in Pids : TimesOut(p)
    BY <1>6
  <2>2. got' = [q \in DOMAIN got \cup {p} |-> IF q = p THEN Unset ELSE got[q]]
    BY <2>1 DEF TimesOut
  <2>3. got' \in [DOMAIN got' -> Gotten] /\ DOMAIN got' \subseteq Pids
    BY <2>2 DEF Unset, Blank, Gotten
  <2>4. /\ left' \subseteq Pids
        /\ UNCHANGED <<timeout, alive, samplers, deleted, evt, written, cpuOn, mutex,
                       cpu, cur, inserted>>
    BY <2>1 DEF TimesOut
  <2>5. \A q \in DOMAIN got' : got'[q] \in [names : Int, intact : BOOLEAN]
    BY <2>3 DEF Gotten
  <2>. QED  BY <2>3, <2>4, <2>5
<1>7. CASE \E p \in Pids : Tick(p)
  <2>1. PICK p \in Pids : Tick(p)
    BY <1>7
  <2>2. PICK k \in Kinds :
          /\ evt' = [evt EXCEPT ![p].head = @ + k.cells, ![p].pending = TRUE]
          /\ written' = [written EXCEPT ![p] =
               @ \cup {[at |-> evt[p].head, cells |-> k.cells, sample |-> k.sample]}]
    BY <2>1 DEF Tick
  <2>3. k.cells \in 1 .. RingCells /\ k.sample \in BOOLEAN
    BY KindsAssumption
  <2>4. k.cells \in Nat
    BY <2>3, RingAssumption
  <2>5. evt' \in [Pids -> Events]
    <3>1. evt[p].head + k.cells \in Nat
      BY <1>0, <2>4 DEF Events
    <3>. QED  BY <1>0, <2>2, <3>1 DEF Events
  <2>6. [at |-> evt[p].head, cells |-> k.cells, sample |-> k.sample] \in RingRecords
    BY <2>3 DEF RingRecords
  <2>7. written' \in [Pids -> SUBSET RingRecords]
    <3>1. written \in [Pids -> SUBSET RingRecords]
      OBVIOUS
    <3>. QED  BY <2>2, <2>6, <3>1, Zenon
  <2>8. UNCHANGED <<timeout, alive, samplers, deleted, cpuOn, mutex, cpu, left, cur,
                    got, inserted>>
    BY <2>1 DEF Tick
  <2>. QED  BY <2>5, <2>7, <2>8 DEF Events
<1>. QED  BY <1>1, <1>2, <1>3, <1>4, <1>5, <1>6, <1>7 DEF CollectorThread
\* Of what launches do.
LEMMA LaunchTypes ==
  ASSUME TracerTyped, Launching \/ TimePasses
  PROVE  TracerTyped' /\ tracing' = tracing
PROOF
<1>. DEFINE Launches == [at : {"out", "record", "in"}, id : 0 .. MaxLaunches,
                         kernel : Kernels, began : 0 .. MaxTime, traced : BOOLEAN]
            Maps == /\ DOMAIN corKey \subseteq Ids /\ Range(corKey) \subseteq Keys
                    /\ DOMAIN records = DOMAIN timers /\ DOMAIN records \subseteq Keys
                    /\ corKey \in [DOMAIN corKey -> DOMAIN records]
                    /\ IsFiniteSet(DOMAIN records)
                    /\ records \in [DOMAIN records -> Int]
                    /\ timers \in [DOMAIN records -> 0 .. MaxTime]
            HaveIds == \A t \in Launchers :
                         launch[t].at # "out" => launch[t].id \in 1 .. ids
<1>0. /\ now \in 0 .. MaxTime /\ active \in Nodes /\ ids \in 0 .. MaxLaunches
      /\ tracing \in BOOLEAN /\ launch \in [Launchers -> Launches]
      /\ Maps /\ HaveIds /\ truth \in [Kernels -> Int]
  BY DEF TracerTyped, TracingTypeOK
<1>1. SUFFICES /\ now' \in 0 .. MaxTime /\ active' \in Nodes /\ ids' \in 0 .. MaxLaunches
               /\ tracing' = tracing /\ launch' \in [Launchers -> Launches]
               /\ Maps' /\ HaveIds' /\ truth' \in [Kernels -> Int]
  BY <1>0 DEF TracerTyped, TracingTypeOK
<1>2. AtRest \in Launches /\ AtRest.at = "out"
  BY TraceBounds, PathAssumption DEF AtRest
<1>. HIDE DEF Maps
<1>3. CASE TimePasses
  <2>1. now' \in 0 .. MaxTime
    BY <1>0, <1>3, TraceBounds DEF TimePasses
  <2>2. UNCHANGED <<tracing, active, corKey, records, timers, launch, ids, truth>>
    BY <1>3 DEF TimePasses
  <2>3. Maps'
    BY <1>0, <2>2 DEF Maps
  <2>. QED  BY <1>0, <2>1, <2>2, <2>3
<1>4. ASSUME NEW t \in Launchers, NEW k \in Kernels, NEW n \in Path[t],
             LaunchEnters(t, k, n)
      PROVE  /\ now' \in 0 .. MaxTime /\ active' \in Nodes /\ ids' \in 0 .. MaxLaunches
             /\ tracing' = tracing /\ launch' \in [Launchers -> Launches]
             /\ Maps' /\ HaveIds' /\ truth' \in [Kernels -> Int]
  <2>. DEFINE l == [at |-> IF tracing THEN "record" ELSE "in", id |-> ids + 1,
                    kernel |-> k, began |-> now, traced |-> tracing]
  <2>1. /\ ids < MaxLaunches /\ ids' = ids + 1 /\ launch' = [launch EXCEPT ![t] = l]
        /\ active' = IF tracing THEN n ELSE active
        /\ UNCHANGED <<tracing, now, corKey, records, timers, truth>>
    BY <1>4 DEF LaunchEnters
  <2>2. n \in Nodes
    BY PathAssumption
  <2>3. l \in Launches /\ l.id = ids + 1
    BY <1>0, <2>1, TraceBounds
  <2>4. Maps'
    BY <1>0, <2>1 DEF Maps
  <2>. HIDE DEF l
  <2>5. launch' \in [Launchers -> Launches] /\ HaveIds'
    <3>1. \A u \in Launchers : launch'[u] = IF u = t THEN l ELSE launch[u]
      BY <1>0, <2>1
    <3>2. \A u \in Launchers : launch'[u] \in Launches
      <4>. HIDE DEF Launches
      <4>. QED  BY <1>0, <2>3, <3>1
    <3>3. launch' \in [Launchers -> Launches]
      <4>. HIDE DEF Launches
      <4>. QED  BY <1>0, <2>1, <2>3
    <3>4. HaveIds'
      BY <1>0, <2>1, <2>3, <3>1
    <3>. QED  BY <3>3, <3>4
  <2>. QED  BY <1>0, <2>1, <2>2, <2>4, <2>5, TraceBounds
<1>5. ASSUME NEW t \in Launchers, RecordLaunch(t)
      PROVE  /\ now' \in 0 .. MaxTime /\ active' \in Nodes /\ ids' \in 0 .. MaxLaunches
             /\ tracing' = tracing /\ launch' \in [Launchers -> Launches]
             /\ Maps' /\ HaveIds' /\ truth' \in [Kernels -> Int]
  <2>. DEFINE key == <<active, launch[t].kernel>>
              id == launch[t].id
  <2>1. /\ launch[t].at = "record"
        /\ corKey' = Insert(corKey, id, key)
        /\ records' = Insert(records, key, 0)
        /\ timers' = Assign(timers, key, now)
        /\ launch' = [launch EXCEPT ![t].at = "in"]
        /\ UNCHANGED <<tracing, now, active, ids, truth>>
    BY <1>5 DEF RecordLaunch
  <2>2. key \in Keys /\ id \in Ids
    BY <1>0, <2>1 DEF Keys, Ids
  <2>3. launch' \in [Launchers -> Launches] /\ HaveIds'
    BY <1>0, <2>1
  <2>. HIDE DEF key, id
  <2>4. /\ DOMAIN records' = DOMAIN records \cup {key}
        /\ records' \in [DOMAIN records' -> Int]
    BY <1>0, <2>1 DEF Maps, Insert
  <2>5. timers' \in [DOMAIN records' -> 0 .. MaxTime]
    BY <1>0, <2>1, <2>4 DEF Maps, Assign
  <2>6. DOMAIN corKey' \subseteq Ids /\ corKey' \in [DOMAIN corKey' -> DOMAIN records']
    BY <1>0, <2>1, <2>2, <2>4 DEF Maps, Insert
  <2>7. DOMAIN records' \subseteq Keys
    BY <1>0, <2>2, <2>4 DEF Maps
  <2>8. Range(corKey') \subseteq Keys
    BY <2>6, <2>7 DEF Range
  <2>9. IsFiniteSet(DOMAIN records')
    BY <1>0, <2>4, FS_AddElement DEF Maps
  <2>10. DOMAIN records' = DOMAIN timers'
    BY <2>5
  <2>11. Maps'
    BY <2>4, <2>5, <2>6, <2>7, <2>8, <2>9, <2>10 DEF Maps
  <2>. QED  BY <1>0, <2>1, <2>3, <2>11
<1>6. ASSUME NEW t \in Launchers, LaunchEnds(t)
      PROVE  /\ now' \in 0 .. MaxTime /\ active' \in Nodes /\ ids' \in 0 .. MaxLaunches
             /\ tracing' = tracing /\ launch' \in [Launchers -> Launches]
             /\ Maps' /\ HaveIds' /\ truth' \in [Kernels -> Int]
  <2>. DEFINE l == launch[t]
  <2>1. /\ launch' = [launch EXCEPT ![t] = AtRest]
        /\ IF tracing /\ l.id \in DOMAIN corKey
           THEN records' = [records EXCEPT ![corKey[l.id]] = @ + Elapsed(corKey[l.id])]
           ELSE UNCHANGED records
        /\ truth' = IF tracing /\ l.traced
                    THEN [truth EXCEPT ![l.kernel] = @ + now - l.began] ELSE truth
        /\ UNCHANGED <<tracing, now, active, corKey, timers, ids>>
    BY <1>6 DEF LaunchEnds
  <2>2. l.kernel \in Kernels /\ l.began \in Int /\ now \in Int
    BY <1>0
  <2>3. truth' \in [Kernels -> Int]
    <3>. HIDE DEF l
    <3>. QED  BY <1>0, <2>1, <2>2
  <2>4. launch' \in [Launchers -> Launches] /\ HaveIds'
    <3>1. \A u \in Launchers : launch'[u] = IF u = t THEN AtRest ELSE launch[u]
      BY <1>0, <2>1
    <3>2. launch' \in [Launchers -> Launches]
      <4>. HIDE DEF Launches
      <4>. QED  BY <1>0, <1>2, <2>1
    <3>3. HaveIds'
      BY <1>0, <1>2, <2>1, <3>1
    <3>. QED  BY <3>2, <3>3
  <2>5. DOMAIN records' = DOMAIN records /\ records' \in [DOMAIN records' -> Int]
    <3>1. CASE tracing /\ l.id \in DOMAIN corKey
      <4>. DEFINE key == corKey[l.id]
                  d == Elapsed(key)
      <4>1. key \in DOMAIN records
        BY <1>0, <3>1 DEF Maps
      <4>2. d \in Int
        BY <1>0, <4>1 DEF Maps, Elapsed
      <4>3. records' = [records EXCEPT ![key] = @ + d]
        BY <2>1, <3>1
      <4>. HIDE DEF key, d
      <4>. QED  BY <1>0, <4>1, <4>2, <4>3 DEF Maps
    <3>2. CASE ~(tracing /\ l.id \in DOMAIN corKey)
      BY <1>0, <2>1, <3>2 DEF Maps
    <3>. QED  BY <3>1, <3>2
  <2>6. Maps'
    BY <1>0, <2>1, <2>5 DEF Maps
  <2>. QED  BY <1>0, <2>1, <2>3, <2>4, <2>6
<1>. QED  BY <1>3, <1>4, <1>5, <1>6 DEF Launching

\* When the rest of tracing, or of the samplers, stays as it is.
LEMMA TracerStays ==
  ASSUME TracerTyped, tracing' \in BOOLEAN,
         UNCHANGED <<now, active, corKey, records, timers, launch, ids, truth>>
  PROVE  TracerTyped'
BY DEF TracerTyped, TracingTypeOK

\* A step of the request, the exit or a launch that leaves the samplers alone.
LEMMA SamplerStays ==
  ASSUME SamplerTyped, UNCHANGED sampler
  PROVE  SamplerTyped'
BY DEF SamplerTyped, SamplerTypeOK, sampler

\* When the events are switched, and the collecting thread started or joined.
LEMMA SamplerSwitched ==
  ASSUME SamplerTyped, evt' \in [Pids -> Events], cpuOn' \in BOOLEAN,
         cpu' \in {"none", "check", cpu}, samplers' \subseteq samplers,
         UNCHANGED <<timeout, alive, deleted, written, mutex, left, cur, got,
                     inserted>>
  PROVE  SamplerTyped'
BY DEF SamplerTyped, SamplerTypeOK, Events

\* The initial states.
LEMMA InitTypes ==
  ASSUME Init
  PROVE  TypeInv
PROOF
<1>1. SamplerTyped
  <2>1. Nobody \in Pids
    BY PidsAssumption DEF Nobody
  <2>2. SamplerInit
    BY DEF Init
  <2>3. got \in [DOMAIN got -> Gotten] /\ DOMAIN got \subseteq Pids
    BY <2>2 DEF SamplerInit, None
  <2>4. evt \in [Pids -> Events]
    BY <2>2, RingAssumption DEF SamplerInit, Events
  <2>5. /\ timeout \in BOOLEAN /\ deleted \in BOOLEAN /\ cpuOn \in BOOLEAN
        /\ alive = Pids /\ samplers = {} /\ left = {} /\ cur = Nobody
        /\ mutex = "free" /\ cpu = "none" /\ inserted = {}
        /\ written = [p \in Pids |-> {}]
    BY <2>2, Zenon DEF SamplerInit
  <2>6. written \in [Pids -> SUBSET RingRecords]
    BY <2>5
  <2>7. \A q \in DOMAIN got : got[q] \in [names : Int, intact : BOOLEAN]
    BY <2>3 DEF Gotten
  <2>. QED  BY <2>1, <2>3, <2>4, <2>5, <2>6, <2>7
            DEF Events, SamplerTyped, SamplerTypeOK
<1>2. TracerTyped
  <2>1. (CHOOSE n \in Nodes : TRUE) \in Nodes
    BY PathAssumption
  <2>2. (CHOOSE k \in Kernels : TRUE) \in Kernels
    BY PathAssumption
  <2>3. /\ AtRest.at = "out"
        /\ AtRest \in [at : {"out", "record", "in"}, id : 0 .. MaxLaunches,
                       kernel : Kernels, began : 0 .. MaxTime, traced : BOOLEAN]
    BY <2>2, TraceBounds DEF AtRest
  <2>4. launch = [t \in Launchers |-> AtRest]
    BY DEF Init, TracingInit
  <2>5. \A t \in Launchers : launch[t] = AtRest
    BY <2>4
  <2>6. launch \in [Launchers -> [at : {"out", "record", "in"}, id : 0 .. MaxLaunches,
                                  kernel : Kernels, began : 0 .. MaxTime,
                                  traced : BOOLEAN]]
    BY <2>3, <2>4
  <2>7. corKey = Nothing /\ records = Nothing /\ timers = Nothing
    BY DEF Init, TracingInit
  <2>8. DOMAIN Nothing = {} /\ Range(Nothing) = {}
    BY DEF Nothing, Range
  <2>9. \A S : Nothing \in [{} -> S]
    BY DEF Nothing
  <2>10. \A t \in Launchers : launch[t].at # "out" => launch[t].id \in 1 .. ids
    BY <2>3, <2>5
  <2>11. /\ tracing \in BOOLEAN /\ now \in 0 .. MaxTime /\ active \in Nodes
         /\ ids \in 0 .. MaxLaunches /\ truth \in [Kernels -> Int]
    <3>1. TracingInit
      BY DEF Init
    <3>2. /\ tracing = FALSE /\ now = 0 /\ active = CHOOSE n \in Nodes : TRUE
          /\ ids = 0 /\ truth = [k \in Kernels |-> 0]
      BY <3>1, Zenon DEF TracingInit
    <3>3. active \in Nodes
      BY <2>1, <3>2, Zenon
    <3>4. now \in 0 .. MaxTime /\ ids \in 0 .. MaxLaunches
      BY <3>2, TraceBounds
    <3>5. truth \in [Kernels -> Int]
      BY <3>2
    <3>. QED  BY <3>2, <3>3, <3>4, <3>5, Zenon
  <2>. QED  BY <2>6, <2>7, <2>8, <2>9, <2>10, <2>11, FS_EmptySet, Zenon
            DEF TracerTyped, TracingTypeOK
<1>3. ControlTyped
  <2>1. /\ conf \in Settings /\ started = FALSE /\ copier = "none" /\ server = "none"
        /\ request = "none" /\ duration = TRUE /\ client = "idle" /\ issued = 0
        /\ refused = FALSE /\ exit = "injected" /\ dead = FALSE
    BY Zenon DEF Init
  <2>2. issued \in 0 .. Requests
    BY <2>1, SettingsAssumption
  <2>. QED  BY <2>1, <2>2 DEF ControlTyped
<1>. QED  BY <1>1, <1>2, <1>3 DEF TypeInv
\* Of the collecting thread's and the samplers' side, of the program.
LEMMA ProgramTypes ==
  ASSUME TypeInv, Program
  PROVE  TypeInv'
PROOF
<1>. USE DEF TypeInv
<1>1. CASE Launching /\ UNCHANGED <<sampler, started, control>>
  <2>1. TracerTyped'
    BY <1>1, LaunchTypes
  <2>2. SamplerTyped'
    BY <1>1, SamplerStays
  <2>3. ControlTyped'
    BY <1>1 DEF ControlTyped, control
  <2>. QED  BY <2>1, <2>2, <2>3
<1>2. ASSUME NEW p \in Pids, RegisterSampler(p), left' \in {left, left \cup {p}},
             UNCHANGED <<timeout, alive, deleted, evt, written, cpuOn, mutex, cpu,
                         cur, got, inserted, tracer, started, control>>
      PROVE  TypeInv'
  <2>1. TracerTyped'
    BY <1>2, TracerStays DEF tracer, TracerTyped, TracingTypeOK
  <2>2. SamplerTyped'
    BY <1>2 DEF SamplerTyped, SamplerTypeOK, RegisterSampler
  <2>3. ControlTyped'
    BY <1>2 DEF ControlTyped, control
  <2>. QED  BY <2>1, <2>2, <2>3
<1>3. ASSUME NEW p \in Pids, alive' = alive \ {p},
             UNCHANGED <<timeout, samplers, deleted, evt, written, cpuOn, mutex, cpu,
                         left, cur, got, inserted, tracer, started, control>>
      PROVE  TypeInv'
  <2>1. TracerTyped'
    BY <1>3, TracerStays DEF tracer, TracerTyped, TracingTypeOK
  <2>2. SamplerTyped'
    BY <1>3 DEF SamplerTyped, SamplerTypeOK
  <2>3. ControlTyped'
    BY <1>3 DEF ControlTyped, control
  <2>. QED  BY <2>1, <2>2, <2>3
<1>. QED  BY <1>1, <1>2, <1>3 DEF Program

\* Every step keeps the types.
LEMMA TypeStep ==
  ASSUME TypeInv, [Next]_vars
  PROVE  TypeInv'
PROOF
<1>. USE DEF TypeInv
<1>0. evt \in [Pids -> Events] /\ cpuOn \in BOOLEAN /\ samplers \subseteq Pids
  BY DEF SamplerTyped, SamplerTypeOK, Events
<1>1. tracing \in BOOLEAN /\ started \in BOOLEAN
  BY DEF TracerTyped, TracingTypeOK, ControlTyped
<1>2. /\ conf.noRPC \in BOOLEAN /\ conf.noSampling \in BOOLEAN
      /\ conf.enableCPUSampling \in BOOLEAN
  BY ConfTypes
<1>3. CASE UNCHANGED vars
  <2>1. UNCHANGED sampler /\ UNCHANGED tracer /\ UNCHANGED started /\ UNCHANGED control
    BY <1>3 DEF vars
  <2>. QED  BY <1>1, <2>1, SamplerStays, TracerStays DEF tracer, control, ControlTyped
<1>4. CASE InitializeInjection
  <2>1. TracerTyped'
    BY <1>1, <1>4, TracerStays DEF InitializeInjection
  <2>2. SamplerTyped'
    <3>1. CASE conf.noRPC
      BY <1>0, <1>4, <3>1, SwitchFacts, SamplerSwitched DEF InitializeInjection
    <3>2. CASE ~conf.noRPC
      BY <1>0, <1>4, <3>2, SamplerSwitched DEF InitializeInjection
    <3>. QED  BY <1>2, <3>1, <3>2
  <2>3. ControlTyped'
    BY <1>4 DEF InitializeInjection, ControlTyped
  <2>. QED  BY <2>1, <2>2, <2>3
<1>5. CASE Program
  BY <1>5, ProgramTypes
<1>6. CASE Time
  <2>1. TracerTyped' /\ SamplerTyped'
    BY <1>6, LaunchTypes, SamplerStays DEF Time
  <2>. QED  BY <1>6, <2>1 DEF Time, control, ControlTyped
<1>7. CASE IssuePCSampling
  <2>1. TracerTyped' /\ SamplerTyped'
    BY <1>1, <1>7, TracerStays, SamplerStays DEF IssuePCSampling, tracer
  <2>2. issued' \in 0 .. Requests
    BY <1>7, SettingsAssumption DEF IssuePCSampling, ControlTyped
  <2>. QED  BY <1>7, <2>1, <2>2 DEF IssuePCSampling, ControlTyped
<1>8. CASE EraseEnded
  <2>1. evt' \in [Pids -> Events] /\ samplers' \subseteq samplers
    BY <1>0, <1>8, DeleteFacts DEF EraseEnded
  <2>2. TracerTyped' /\ SamplerTyped'
    BY <1>0, <1>1, <1>8, <2>1, TracerStays, SamplerSwitched DEF EraseEnded, tracer
  <2>. QED  BY <1>8, <2>2 DEF EraseEnded, Step, ControlTyped
<1>9. CASE Start \/ Stop
  <2>1. TracerTyped' /\ SamplerTyped'
    BY <1>1, <1>2, <1>9, TracerStays, SamplerStays DEF Start, Stop
  <2>2. started' \in BOOLEAN
    BY <1>1, <1>2, <1>9 DEF Start, Stop
  <2>3. /\ request' \in {"spawn", "join"}
        /\ UNCHANGED <<conf, server, issued, exit, copier, duration, client, refused, dead>>
    BY <1>9 DEF Start, Stop, Step
  <2>. QED  BY <2>1, <2>2, <2>3 DEF ControlTyped
<1>10. CASE SpawnCopier
  <2>1. TracerTyped' /\ SamplerTyped'
    BY <1>1, <1>10, TracerStays, SamplerStays DEF SpawnCopier, tracer
  <2>2. /\ request' = "enable"
        /\ UNCHANGED <<conf, server, issued, exit, started, duration, client, refused>>
    BY <1>10 DEF SpawnCopier, Step
  <2>3. copier' \in {"runs", copier} /\ dead' \in BOOLEAN
    <3>1. \/ UNCHANGED <<copier, dead>>
          \/ dead' = (copier # "none") /\ copier' = Spawned(copier)
      BY <1>10 DEF SpawnCopier
    <3>2. dead \in BOOLEAN
      BY DEF ControlTyped
    <3>. QED  BY <3>1, <3>2 DEF Spawned
  <2>. QED  BY <2>1, <2>2, <2>3 DEF ControlTyped
<1>11. CASE EnableCPUSampling
  <2>1. TracerTyped'
    BY <1>1, <1>11, TracerStays DEF EnableCPUSampling, tracer
  <2>2. SamplerTyped'
    <3>1. CASE conf.enableCPUSampling
      BY <1>0, <1>11, <3>1, SwitchFacts, SamplerSwitched DEF EnableCPUSampling
    <3>2. CASE ~conf.enableCPUSampling
      BY <1>0, <1>11, <3>2, SamplerSwitched DEF EnableCPUSampling
    <3>. QED  BY <1>2, <3>1, <3>2
  <2>3. /\ request' = "check"
        /\ UNCHANGED <<conf, server, issued, exit, started, copier, duration, client,
                       refused>>
    BY <1>11 DEF EnableCPUSampling, Step
  <2>4. dead' \in BOOLEAN
    <3>1. dead' = dead \/ dead' = (cpu # "none")
      BY <1>11 DEF EnableCPUSampling
    <3>2. dead \in BOOLEAN
      BY DEF ControlTyped
    <3>. QED  BY <3>1, <3>2
  <2>. QED  BY <2>1, <2>2, <2>3, <2>4 DEF ControlTyped
<1>12. CASE CheckDuration
  <2>1. TracerTyped' /\ SamplerTyped'
    BY <1>1, <1>12, TracerStays, SamplerStays DEF CheckDuration, tracer
  <2>. QED  BY <1>12, <2>1 DEF CheckDuration, Step, ControlTyped
<1>13. CASE DisableCPUSampling
  <2>1. TracerTyped'
    BY <1>1, <1>13, TracerStays DEF DisableCPUSampling, tracer
  <2>2. SamplerTyped'
    <3>1. CASE conf.enableCPUSampling
      BY <1>0, <1>13, <3>1, SwitchFacts, SamplerSwitched DEF DisableCPUSampling
    <3>2. CASE ~conf.enableCPUSampling
      BY <1>0, <1>13, <3>2, SamplerSwitched DEF DisableCPUSampling
    <3>. QED  BY <1>2, <3>1, <3>2
  <2>. QED  BY <1>13, <2>1, <2>2 DEF DisableCPUSampling, Step, ControlTyped
<1>14. CASE JoinThreads
  <2>1. TracerTyped' /\ SamplerTyped'
    BY <1>0, <1>1, <1>14, TracerStays, SamplerSwitched DEF JoinThreads, tracer
  <2>. QED  BY <1>14, <2>1 DEF JoinThreads, Step, ControlTyped
<1>15. CASE CopierEnds
  <2>1. TracerTyped' /\ SamplerTyped'
    BY <1>1, <1>15, TracerStays, SamplerStays DEF CopierEnds, tracer
  <2>. QED  BY <1>15, <2>1 DEF CopierEnds, ControlTyped
<1>16. CASE ExitBegins
  <2>1. TracerTyped' /\ SamplerTyped'
    BY <1>1, <1>2, <1>16, TracerStays, SamplerStays DEF ExitBegins
  <2>. QED  BY <1>1, <1>2, <1>16, <2>1 DEF ExitBegins, Leave, ControlTyped
<1>17. CASE SamplingIsOver \/ Shutdown
  <2>1. TracerTyped' /\ SamplerTyped'
    BY <1>1, <1>17, TracerStays, SamplerStays DEF SamplingIsOver, Shutdown, tracer
  <2>. QED  BY <1>17, <2>1 DEF SamplingIsOver, Shutdown, Leave, ControlTyped
<1>18. CASE ExitDisables
  <2>1. TracerTyped'
    BY <1>1, <1>18, TracerStays DEF ExitDisables, tracer
  <2>2. SamplerTyped'
    <3>1. CASE conf.enableCPUSampling
      BY <1>0, <1>18, <3>1, SwitchFacts, SamplerSwitched DEF ExitDisables
    <3>2. CASE ~conf.enableCPUSampling
      BY <1>0, <1>18, <3>2, SamplerSwitched DEF ExitDisables
    <3>. QED  BY <1>2, <3>1, <3>2
  <2>. QED  BY <1>18, <2>1, <2>2 DEF ExitDisables, Leave, ControlTyped
<1>19. CASE ExitJoins
  <2>1. TracerTyped' /\ SamplerTyped'
    BY <1>0, <1>1, <1>19, TracerStays, SamplerSwitched DEF ExitJoins, tracer
  <2>. QED  BY <1>19, <2>1 DEF ExitJoins, Leave, ControlTyped
<1>20. CASE DeleteCollection
  <2>1. TracerTyped'
    BY <1>1, <1>20, TracerStays DEF DeleteCollection, tracer
  <2>2. SamplerTyped'
    BY <1>20 DEF DeleteCollection, SamplerTyped, SamplerTypeOK
  <2>. QED  BY <1>20, <2>1, <2>2 DEF DeleteCollection, Leave, ControlTyped
<1>21. CASE Sampling
  <2>1. SamplerTyped'
    BY <1>21, CollectorTypes DEF Sampling
  <2>2. TracerTyped'
    BY <1>1, <1>21, TracerStays DEF Sampling, tracer
  <2>. QED  BY <1>21, <2>1, <2>2 DEF Sampling, control, ControlTyped
<1>. QED  BY <1>3, <1>4, <1>5, <1>6, <1>7, <1>8, <1>9, <1>10, <1>11, <1>12,
             <1>13, <1>14, <1>15, <1>16, <1>17, <1>18, <1>19, <1>20, <1>21
          DEF Next, Request, Exit

\* Every value stays of its type: no pid, record, key or id comes up that was not
\* there, and every key of the correlation map has a record and a timer.
THEOREM LifecycleTypes == Spec => []TypeOK
PROOF
<1>1. Init => TypeInv
  BY InitTypes
<1>2. TypeInv /\ [Next]_vars => TypeInv'
  BY TypeStep
<1>3. TypeInv => TypeOK
  BY DEF TypeInv, TypeOK, SamplerTyped, TracerTyped, ControlTyped
<1>. QED  BY <1>1, <1>2, <1>3, PTL DEF Spec
-----------------------------------------------------------------------------
(* What is left of a request.                                              *)

\* The collecting thread and the kernel enable no sampler and unwrite no record;
\* the thread ends only when the samplers are off, and is not started here.
LEMMA CollectorFacts ==
  ASSUME SamplerTyped, CollectorThread \/ \E p \in Pids : Tick(p)
  PROVE  /\ \A p \in Pids : /\ evt'[p].enabled = evt[p].enabled
                            /\ evt[p].head <= evt'[p].head
         /\ cpu = "none" <=> cpu' = "none"
         /\ cpu' = "done" => cpu = "done" \/ ~cpuOn
PROOF
<1>0. evt \in [Pids -> Events]
  BY DEF SamplerTyped, SamplerTypeOK, Events
<1>1. CASE Collect /\ UNCHANGED <<timeout, alive, samplers, deleted, evt, written, cpuOn, cur>>
  BY <1>0, <1>1, RingAssumption DEF Collect, Events
<1>2. CASE Unlock /\ UNCHANGED <<timeout, alive, samplers, deleted, evt, written, cpuOn, cur>>
  BY <1>0, <1>2, RingAssumption DEF Unlock, Events
<1>3. CASE Read
  BY <1>0, <1>3, RingAssumption DEF Read, Events
<1>4. CASE Update
  BY <1>0, <1>4, RingAssumption DEF Update, Events
<1>5. CASE \E p \in Pids : Reports(p)
  BY <1>0, <1>5, RingAssumption DEF Reports, Events
<1>6. CASE \E p \in Pids : TimesOut(p)
  BY <1>0, <1>6, RingAssumption DEF TimesOut, Events
<1>7. CASE \E p \in Pids : Tick(p)
  <2>1. PICK p \in Pids : Tick(p)
    BY <1>7
  <2>2. PICK k \in Kinds :
          evt' = [evt EXCEPT ![p].head = @ + k.cells, ![p].pending = TRUE]
    BY <2>1 DEF Tick
  <2>3. k.cells \in Nat
    BY KindsAssumption, RingAssumption
  <2>4. \A q \in Pids : /\ evt'[q].enabled = evt[q].enabled
                        /\ evt'[q].head = IF q = p THEN evt[q].head + k.cells
                                         ELSE evt[q].head
    BY <1>0, <2>2 DEF Events
  <2>5. cpu' = cpu
    BY <2>1 DEF Tick
  <2>. QED  BY <1>0, <2>3, <2>4, <2>5 DEF Events
<1>. QED  BY <1>1, <1>2, <1>3, <1>4, <1>5, <1>6, <1>7 DEF CollectorThread

\* The initial states.
LEMMA InitControl ==
  ASSUME Init
  PROVE  ControlInv
PROOF
<1>1. \A p \in Pids : evt[p].enabled = FALSE
  BY DEF Init, SamplerInit
<1>2. deleted = FALSE /\ cpuOn = FALSE /\ cpu = "none"
  BY DEF Init, SamplerInit
<1>3. tracing = FALSE
  BY DEF Init, TracingInit
<1>4. /\ started = FALSE /\ copier = "none" /\ server = "none" /\ request = "none"
      /\ refused = FALSE /\ exit = "injected" /\ dead = FALSE
  BY Zenon DEF Init
<1>. QED  BY <1>1, <1>2, <1>3, <1>4 DEF ControlInv, ExitInv, PhaseInv, AllOff, Disabled

\* Every step keeps the invariant.
LEMMA ControlStep ==
  ASSUME TypeInv, ControlInv, [Next]_vars
  PROVE  ControlInv'
PROOF
<1>. USE DEF ControlInv, ExitInv
<1>0. evt \in [Pids -> Events] /\ cpuOn \in BOOLEAN /\ samplers \subseteq Pids
  BY DEF TypeInv, SamplerTyped, SamplerTypeOK, Events
<1>1. /\ tracing \in BOOLEAN /\ started \in BOOLEAN /\ refused \in BOOLEAN
      /\ dead \in BOOLEAN /\ deleted \in BOOLEAN
      /\ \A p \in Pids : evt[p].enabled \in BOOLEAN
  BY <1>0 DEF TypeInv, TracerTyped, TracingTypeOK, ControlTyped, SamplerTyped,
              SamplerTypeOK, Events
<1>2. /\ conf.noRPC \in BOOLEAN /\ conf.noSampling \in BOOLEAN
      /\ conf.enableCPUSampling \in BOOLEAN
  BY ConfTypes DEF TypeInv
<1>3. CASE UNCHANGED vars
  <2>1. UNCHANGED <<evt, samplers, conf, server, request, dead, refused, exit,
                    deleted, cpu, started, tracing, copier, cpuOn>>
    BY <1>3 DEF vars, sampler, tracer, control
  <2>. QED  BY <2>1 DEF PhaseInv, AllOff, Disabled
<1>4. CASE InitializeInjection
  <2>1. CASE conf.noRPC
    <3>1. \A p \in Pids : evt'[p].enabled => p \in samplers
      BY <1>0, <1>4, <2>1, SwitchFacts DEF InitializeInjection
    <3>. QED  BY <1>4, <2>1, <3>1 DEF InitializeInjection
  <2>2. CASE ~conf.noRPC
    <3>1. UNCHANGED <<evt, samplers, conf, request, dead, refused,
                      deleted, cpu, started, tracing, copier, cpuOn>>
      BY <1>4, <2>2 DEF InitializeInjection
    <3>2. exit = "injected" /\ exit' = "no"
      BY <1>4 DEF InitializeInjection
    <3>. QED  BY <2>2, <3>1, <3>2 DEF PhaseInv, AllOff, Disabled
  <2>. QED  BY <1>2, <2>1, <2>2
<1>5. CASE Program
  <2>1. UNCHANGED <<evt, conf, server, request, dead, refused, exit,
                    deleted, cpu, started, copier, cpuOn>>
        /\ samplers \subseteq samplers'
    BY <1>5 DEF Program, sampler, control, RegisterSampler
  <2>2. tracing' = tracing
    BY <1>5, LaunchTypes DEF Program, tracer, TypeInv
  <2>. QED  BY <2>1, <2>2 DEF PhaseInv, AllOff, Disabled
<1>6. CASE Time
  <2>1. UNCHANGED <<evt, samplers, conf, server, request, dead, refused, exit,
                    deleted, cpu, started, tracing, copier, cpuOn>>
    BY <1>6 DEF Time, TimePasses, sampler, control
  <2>. QED  BY <2>1 DEF PhaseInv, AllOff, Disabled
<1>7. CASE IssuePCSampling
  <2>1. UNCHANGED <<evt, samplers, conf, server, dead, refused, exit,
                    deleted, cpu, started, tracing, copier, cpuOn>>
    BY <1>7 DEF IssuePCSampling, sampler, tracer
  <2>2. server = "up" /\ exit = "no" /\ request = "none" /\ request' = "erase"
    BY <1>7 DEF IssuePCSampling
  <2>. QED  BY <2>1, <2>2 DEF PhaseInv, AllOff, Disabled
<1>8. CASE EraseEnded
  <2>1. \A p \in Pids : /\ evt'[p].enabled => p \in samplers'
                        /\ evt'[p].enabled => evt[p].enabled
    BY <1>0, <1>8, DeleteFacts DEF EraseEnded
  <2>2. UNCHANGED <<conf, server, dead, refused, exit,
                    deleted, cpu, started, tracing, copier, cpuOn>>
    BY <1>8 DEF EraseEnded, Step, tracer
  <2>3. request = "erase" /\ request' = "start"
    BY <1>8 DEF EraseEnded, Step
  <2>. QED  BY <2>1, <2>2, <2>3 DEF PhaseInv, AllOff, Disabled
<1>9. CASE Start
  <2>1. UNCHANGED <<evt, samplers, conf, server, dead, refused, exit,
                    deleted, cpu, copier, cpuOn>>
    BY <1>9 DEF Start, Step, sampler
  <2>2. /\ request = "start" /\ request' = "spawn"
        /\ started' = (started \/ ~conf.noSampling)
        /\ tracing' = (tracing \/ conf.noSampling)
    BY <1>9 DEF Start, Step
  <2>. QED  BY <1>2, <2>1, <2>2 DEF PhaseInv, AllOff, Disabled
<1>10. CASE SpawnCopier
  <2>1. UNCHANGED <<evt, samplers, conf, server, refused, exit,
                    deleted, cpu, cpuOn, started, tracing>>
    BY <1>10 DEF SpawnCopier, Step, sampler, tracer
  <2>2. /\ request = "spawn" /\ request' = "enable"
        /\ IF conf.noSampling THEN UNCHANGED <<copier, dead>>
           ELSE dead' = (copier # "none") /\ copier' = Spawned(copier)
    BY <1>10 DEF SpawnCopier, Step
  <2>3. ~refused => copier = "none" /\ ~dead
    BY <2>2 DEF PhaseInv
  <2>4. ~refused => ~dead' /\ copier' = IF conf.noSampling THEN "none" ELSE "runs"
    BY <1>2, <2>2, <2>3 DEF Spawned
  <2>. QED  BY <1>1, <2>1, <2>2, <2>4 DEF PhaseInv, Disabled
<1>11. CASE EnableCPUSampling
  <2>1. UNCHANGED <<samplers, conf, server, refused, exit,
                    deleted, copier, started, tracing>>
    BY <1>11 DEF EnableCPUSampling, Step, tracer
  <2>2. request = "enable" /\ request' = "check"
    BY <1>11 DEF EnableCPUSampling, Step
  <2>3. (~conf.noRPC /\ exit \notin {"delete", "over"}) \/ refused
    BY <2>2
  <2>4. CASE conf.enableCPUSampling
    <3>1. /\ cpuOn' = TRUE
          /\ \A p \in Pids : evt'[p].enabled => p \in samplers
      BY <1>0, <1>11, <2>4, SwitchFacts DEF EnableCPUSampling
    <3>2. /\ dead' = (cpu # "none")
          /\ cpu' = IF cpu = "none" THEN "check" ELSE cpu
      BY <1>11, <2>4 DEF EnableCPUSampling
    <3>3. ~refused => cpu = "none" /\ ~dead' /\ cpu' = "check"
      BY <2>2, <3>2 DEF PhaseInv
    <3>. QED  BY <1>1, <2>1, <2>2, <2>3, <2>4, <3>1, <3>3 DEF PhaseInv
  <2>5. CASE ~conf.enableCPUSampling
    <3>1. UNCHANGED <<evt, cpuOn, cpu, dead>>
      BY <1>11, <2>5 DEF EnableCPUSampling
    <3>. QED  BY <1>1, <2>1, <2>2, <2>3, <2>5, <3>1 DEF PhaseInv, Disabled
  <2>. QED  BY <1>2, <2>4, <2>5
<1>12. CASE CheckDuration
  <2>1. UNCHANGED <<evt, samplers, conf, server, dead, exit, deleted, cpu, cpuOn,
                    copier, started, tracing>>
    BY <1>12 DEF CheckDuration, Step, sampler, tracer
  <2>2. /\ request = "check"
        /\ \/ request' = "sleep" /\ refused' = refused
           \/ request' = "none" /\ refused' = TRUE
    BY <1>12 DEF CheckDuration, Step
  <2>. QED  BY <1>1, <1>2, <2>1, <2>2 DEF PhaseInv, Disabled
<1>13. CASE DisableCPUSampling
  <2>1. UNCHANGED <<samplers, conf, server, refused, dead, exit,
                    deleted, copier, cpu, started, tracing>>
    BY <1>13 DEF DisableCPUSampling, Step, tracer
  <2>2. request = "sleep" /\ request' = "stop"
    BY <1>13 DEF DisableCPUSampling, Step
  <2>3. CASE conf.enableCPUSampling
    <3>1. cpuOn' = FALSE /\ \A p \in Pids : ~evt'[p].enabled
      BY <1>0, <1>13, <2>3, SwitchFacts DEF DisableCPUSampling
    <3>. QED  BY <1>1, <2>1, <2>2, <3>1 DEF PhaseInv, Disabled
  <2>4. CASE ~conf.enableCPUSampling
    <3>1. UNCHANGED <<evt, cpuOn>>
      BY <1>13, <2>4 DEF DisableCPUSampling
    <3>. QED  BY <1>1, <2>1, <2>2, <2>4, <3>1 DEF PhaseInv, Disabled
  <2>. QED  BY <1>2, <2>3, <2>4
<1>14. CASE Stop
  <2>1. UNCHANGED <<evt, samplers, conf, server, dead, refused, exit,
                    deleted, cpu, copier, cpuOn>>
    BY <1>14 DEF Stop, Step, sampler
  <2>2. /\ request = "stop" /\ request' = "join"
        /\ started' = (started /\ conf.noSampling)
        /\ tracing' = (tracing /\ ~conf.noSampling)
    BY <1>14 DEF Stop, Step
  <2>. QED  BY <1>1, <1>2, <2>1, <2>2 DEF PhaseInv, Disabled
<1>15. CASE JoinThreads
  <2>1. /\ UNCHANGED <<evt, samplers, conf, server, dead, refused, exit,
                       deleted, cpuOn, started, tracing>>
        /\ copier' = "none" /\ cpu' = "none"
    BY <1>15 DEF JoinThreads, Step, tracer
  <2>2. request = "join" /\ request' = "none"
    BY <1>15 DEF JoinThreads, Step
  <2>. QED  BY <2>1, <2>2 DEF PhaseInv, AllOff, Disabled
<1>16. CASE CopierEnds
  <2>1. UNCHANGED <<evt, samplers, conf, server, dead, refused, exit, request,
                    deleted, cpu, cpuOn, started, tracing>>
    BY <1>16 DEF CopierEnds, sampler, tracer
  <2>2. copier = "runs" /\ ~started /\ copier' = "done"
    BY <1>16 DEF CopierEnds
  <2>. QED  BY <1>2, <2>1, <2>2 DEF PhaseInv, AllOff, Disabled
<1>17. CASE ExitBegins
  <2>1. UNCHANGED <<evt, samplers, conf, server, dead, refused, request,
                    deleted, cpu, cpuOn, copier>>
    BY <1>17 DEF ExitBegins, Leave, sampler
  <2>2. exit = "no" /\ exit' = "wait"
    BY <1>17 DEF ExitBegins, Leave
  <2>3. ~conf.noRPC => UNCHANGED <<started, tracing>>
    BY <1>1, <1>17 DEF ExitBegins
  <2>. QED  BY <2>1, <2>2, <2>3 DEF PhaseInv, AllOff, Disabled
<1>18. CASE SamplingIsOver
  <2>1. UNCHANGED <<evt, samplers, conf, server, dead, refused, request,
                    deleted, cpu, cpuOn, copier, started, tracing>>
    BY <1>18 DEF SamplingIsOver, Leave, sampler, tracer
  <2>2. exit = "wait" /\ exit' = IF conf.noRPC THEN "disable" ELSE "shutdown"
    BY <1>18 DEF SamplingIsOver, Leave
  <2>. QED  BY <2>1, <2>2 DEF PhaseInv, AllOff, Disabled
<1>19. CASE Shutdown
  <2>1. UNCHANGED <<evt, samplers, conf, dead, refused, request,
                    deleted, cpu, cpuOn, copier, started, tracing>>
    BY <1>19 DEF Shutdown, Leave, sampler, tracer
  <2>2. exit = "shutdown" /\ exit' = "delete" /\ request = "none"
    BY <1>19 DEF Shutdown, Leave
  <2>. QED  BY <1>2, <2>1, <2>2 DEF PhaseInv, AllOff, Disabled
<1>20. CASE ExitDisables
  <2>1. UNCHANGED <<samplers, conf, server, dead, refused, request, deleted, cpu>>
    BY <1>20 DEF ExitDisables, Leave
  <2>2. exit = "disable" /\ exit' = "join" /\ conf.noRPC
    BY <1>2, <1>20 DEF ExitDisables, Leave
  <2>3. \A p \in Pids : evt'[p].enabled => p \in samplers
    <3>1. CASE conf.enableCPUSampling
      BY <1>0, <1>20, <3>1, SwitchFacts DEF ExitDisables
    <3>2. CASE ~conf.enableCPUSampling
      BY <1>20, <3>2 DEF ExitDisables
    <3>. QED  BY <1>2, <3>1, <3>2
  <2>. QED  BY <2>1, <2>2, <2>3
<1>21. CASE ExitJoins
  <2>1. UNCHANGED <<evt, samplers, conf, server, dead, refused, request, deleted>>
    BY <1>21 DEF ExitJoins, Leave
  <2>2. exit = "join" /\ exit' = "delete" /\ cpu' = "none" /\ conf.noRPC
    BY <1>2, <1>21 DEF ExitJoins, Leave
  <2>. QED  BY <2>1, <2>2
<1>22. CASE DeleteCollection
  <2>1. UNCHANGED <<evt, samplers, conf, server, dead, refused, request,
                    cpu, cpuOn, copier, started, tracing>>
    BY <1>22 DEF DeleteCollection, Leave, tracer
  <2>2. exit = "delete" /\ exit' = "over"
    BY <1>22 DEF DeleteCollection, Leave
  <2>. QED  BY <2>1, <2>2 DEF PhaseInv, AllOff, Disabled
<1>23. CASE Sampling
  <2>1. UNCHANGED <<conf, server, dead, refused, request, exit, copier, started, tracing>>
    BY <1>23 DEF Sampling, control, tracer
  <2>2. UNCHANGED <<samplers, deleted, cpuOn>>
    BY <1>23, CollectorTypes DEF Sampling, TypeInv
  <2>3. /\ \A p \in Pids : evt'[p].enabled = evt[p].enabled
        /\ cpu = "none" <=> cpu' = "none"
        /\ cpu' = "done" => cpu = "done" \/ ~cpuOn
    BY <1>23, CollectorFacts DEF Sampling, TypeInv
  <2>. QED  BY <2>1, <2>2, <2>3 DEF PhaseInv, AllOff, Disabled
<1>. QED  BY <1>3, <1>4, <1>5, <1>6, <1>7, <1>8, <1>9, <1>10, <1>11, <1>12, <1>13,
             <1>14, <1>15, <1>16, <1>17, <1>18, <1>19, <1>20, <1>21, <1>22, <1>23
          DEF Next, Request, Exit

\* Of a request that was not refused nothing is left when it returns, for any
\* settings, threads and number of requests: so no later request assigns a
\* joinable handle.
THEOREM RequestLeavesNothing == Spec => []NothingLeftOn
PROOF
<1>1. Init => TypeInv /\ ControlInv
  BY InitTypes, InitControl
<1>2. TypeInv /\ ControlInv /\ [Next]_vars => TypeInv' /\ ControlInv'
  BY TypeStep, ControlStep
<1>3. TypeInv /\ ControlInv => NothingLeftOn
  BY ConfTypes DEF TypeInv, ControlInv, ExitInv, PhaseInv, AllOff, Disabled, NothingLeftOn
<1>. QED  BY <1>1, <1>2, <1>3, PTL DEF Spec

\* The samplers are deleted only when nobody can come to them any more.
THEOREM CollectionOutlivesUse == Spec => []CollectionIsAlive
PROOF
<1>1. Init => TypeInv /\ ControlInv
  BY InitTypes, InitControl
<1>2. TypeInv /\ ControlInv /\ [Next]_vars => TypeInv' /\ ControlInv'
  BY TypeStep, ControlStep
<1>3. ControlInv => CollectionIsAlive
  BY DEF ControlInv, ExitInv, CollectionIsAlive
<1>. QED  BY <1>1, <1>2, <1>3, PTL DEF Spec

-----------------------------------------------------------------------------
(* What reaches the trees.                                                 *)

\* Two numbers that fall on one place of the ring are one, or a round apart.
LEMMA RoundLemma ==
  ASSUME NEW a \in Nat, NEW b \in Nat, a <= b, (b - a) % RingCells = 0
  PROVE  b = a \/ b >= a + RingCells
PROOF
<1>1. RingCells \in Nat \ {0}
  BY RingAssumption
<1>2. SUFFICES ASSUME b - a < RingCells PROVE b = a
  BY <1>1
<1>3. (b - a) % RingCells = b - a
  BY <1>1, <1>2
<1>. QED  BY <1>3

\* A record whose cells have not been written over is what is at its place.
LEMMA KeptCell ==
  ASSUME NEW p \in Pids, evt[p].head \in Nat, NEW q \in Nat, q < evt[p].head
  PROVE  /\ Cell(p, q) # Blank
         /\ Cell(p, q) = q \/ evt[p].head > q + RingCells
PROOF
<1>1. (q - q) % RingCells = 0
  <2>1. q - q = 0
    OBVIOUS
  <2>. QED  BY <2>1, RingAssumption
<1>2. q \in 0 .. evt[p].head - 1
  OBVIOUS
<1>3. /\ Cell(p, q) # Blank /\ q <= Cell(p, q)
      /\ Cell(p, q) \in 0 .. evt[p].head - 1
      /\ (Cell(p, q) - q) % RingCells = 0
  BY <1>1, <1>2, CellFacts
<1>. DEFINE c == Cell(p, q)
<1>4. c \in Nat /\ c < evt[p].head
  BY <1>3
<1>5. c = q \/ c >= q + RingCells
  BY <1>3, <1>4, RoundLemma
<1>. HIDE DEF c
<1>6. c = q \/ evt[p].head > q + RingCells
  BY <1>4, <1>5, RingAssumption
<1>. QED  BY <1>3, <1>6 DEF c

\* What is read at an offset with a whole, new record is nothing or that record, a
\* sample.
LEMMA IntactRead ==
  ASSUME SamplerTyped, RecordInv, NEW p \in Pids, Intact(p),
         NEW v \in Seen(p, Cell(p, evt[p].offset)), v # Blank
  PROVE  \E r \in written[p] : r.at = v /\ r.sample
PROOF
<1>1. evt[p].offset \in Nat /\ evt[p].head \in Nat
  BY DEF SamplerTyped, SamplerTypeOK
<1>2. /\ evt[p].offset < evt[p].head
      /\ evt[p].head <= evt[p].offset + RingCells
      /\ \A r \in written[p] : r.at = evt[p].offset => ~Crosses(r)
  BY DEF Intact
<1>3. Cell(p, evt[p].offset) = evt[p].offset
  <2>1. ~(evt[p].head > evt[p].offset + RingCells)
    BY <1>1, <1>2, RingAssumption
  <2>. QED  BY <1>1, <1>2, <2>1, KeptCell
<1>. DEFINE starting == {r \in written[p] : r.at = evt[p].offset}
<1>4. starting # {}
  BY <1>2 DEF RecordInv
<1>5. v \in {IF ~r.sample THEN Blank
             ELSE IF Crosses(r) THEN Wrong ELSE evt[p].offset : r \in starting}
  BY <1>3, <1>4 DEF Seen
<1>6. PICK r \in starting :
        v = IF ~r.sample THEN Blank
            ELSE IF Crosses(r) THEN Wrong ELSE evt[p].offset
  BY <1>5
<1>7. r \in written[p] /\ r.at = evt[p].offset /\ ~Crosses(r)
  BY <1>2, <1>6
<1>. QED  BY <1>6, <1>7

\* The ring's invariant, over a step of the collecting thread or the kernel.
LEMMA RecordStep ==
  ASSUME SamplerTyped, RecordInv, CollectorThread \/ \E p \in Pids : Tick(p)
  PROVE  /\ RecordInv'
         /\ \A p \in Pids : written[p] \subseteq written'[p]
PROOF
<1>0. /\ evt \in [Pids -> Events] /\ cur \in Pids
      /\ written \in [Pids -> SUBSET RingRecords]
  BY DEF SamplerTyped, SamplerTypeOK, Events
<1>1. ASSUME NEW p \in Pids, Tick(p)
      PROVE  RecordInv' /\ \A q \in Pids : written[q] \subseteq written'[q]
  <2>1. PICK k \in Kinds :
          /\ evt' = [evt EXCEPT ![p].head = @ + k.cells, ![p].pending = TRUE]
          /\ written' = [written EXCEPT ![p] =
               @ \cup {[at |-> evt[p].head, cells |-> k.cells, sample |-> k.sample]}]
    BY <1>1 DEF Tick
  <2>2. k.cells \in Nat \ {0}
    BY KindsAssumption, RingAssumption
  <2>. DEFINE new == [at |-> evt[p].head, cells |-> k.cells, sample |-> k.sample]
  <2>3. /\ evt'[p].head = evt[p].head + k.cells
        /\ evt'[p].offset = evt[p].offset
        /\ \A q \in Pids \ {p} : evt'[q] = evt[q]
    BY <1>0, <2>1 DEF Events
  <2>4. /\ written'[p] = written[p] \cup {new}
        /\ \A q \in Pids \ {p} : written'[q] = written[q]
    BY <1>0, <2>1
  <2>5. new.at = evt[p].head /\ new.cells = k.cells
    OBVIOUS
  <2>. HIDE DEF new
  <2>6. evt[p].head \in Nat /\ evt[p].offset \in Nat
    BY <1>0 DEF Events
  <2>7. \A r \in written[p] : r.at \in Nat /\ r.cells \in Nat
    BY <1>0, RingAssumption DEF RingRecords
  <2>8. evt'[p].offset <= evt'[p].head
    BY <2>2, <2>3, <2>6 DEF RecordInv
  <2>9. \A r \in written'[p] : r.at + r.cells <= evt'[p].head
    BY <2>2, <2>3, <2>4, <2>5, <2>6, <2>7 DEF RecordInv
  <2>10. \E r \in written'[p] : r.at = evt'[p].offset
    <3>1. CASE evt[p].offset < evt[p].head
      BY <2>3, <2>4, <3>1 DEF RecordInv
    <3>2. CASE evt[p].offset = evt[p].head
      BY <2>3, <2>4, <2>5, <3>2
    <3>. QED  BY <2>6, <3>1, <3>2 DEF RecordInv
  <2>. QED  BY <2>3, <2>4, <2>8, <2>9, <2>10 DEF RecordInv
<1>2. CASE Read
  <2>1. written' = written /\ evt' = [evt EXCEPT ![cur].offset = evt[cur].head]
    BY <1>2 DEF Read
  <2>2. /\ evt'[cur].head = evt[cur].head /\ evt'[cur].offset = evt[cur].head
        /\ \A q \in Pids \ {cur} : evt'[q] = evt[q]
    BY <1>0, <2>1 DEF Events
  <2>3. evt[cur].head \in Nat
    BY <1>0 DEF Events
  <2>. QED  BY <2>1, <2>2, <2>3 DEF RecordInv
<1>3. ASSUME NEW p \in Pids, Reports(p)
      PROVE  RecordInv' /\ \A q \in Pids : written[q] \subseteq written'[q]
  <2>1. written' = written /\ evt' = [evt EXCEPT ![p].pending = FALSE]
    BY <1>3 DEF Reports
  <2>2. \A q \in Pids : evt'[q].head = evt[q].head /\ evt'[q].offset = evt[q].offset
    BY <1>0, <2>1 DEF Events
  <2>. QED  BY <2>1, <2>2 DEF RecordInv
<1>4. CASE UNCHANGED <<evt, written>>
  BY <1>4 DEF RecordInv
<1>. QED  BY <1>1, <1>2, <1>3, <1>4 DEF CollectorThread, Update, TimesOut

\* A step that writes records at most, and neither reads nor passes on a stack.
LEMMA OtherStacks ==
  ASSUME SamplerTyped, SamplerTyped', ReadInv, StackIsOneSample,
         UNCHANGED <<timeout, got>>, inserted' \in {inserted, {}},
         \A p \in Pids : evt[p].head <= evt'[p].head,
         \A p \in Pids : written[p] \subseteq written'[p]
  PROVE  ReadInv' /\ StackIsOneSample'
PROOF
<1>0. DOMAIN got \subseteq Pids /\ inserted \subseteq Stacks
  BY DEF SamplerTyped, SamplerTypeOK
<1>1. \A p \in Pids : evt[p].head \in Nat /\ evt'[p].head \in Nat
  BY DEF SamplerTyped, SamplerTypeOK
<1>2. ReadInv'
  BY <1>0 DEF ReadInv
<1>3. ASSUME NEW s \in inserted
      PROVE  /\ s.intact =>
                  /\ \E r \in written'[s.pid] : r.at = s.names /\ r.sample
                  /\ s.pcs = s.names \/ evt'[s.pid].head > s.names + RingCells
             /\ ~timeout => s.names # Blank
  <2>1. s.pid \in Pids /\ s.names \in Int
    BY <1>0 DEF Stacks
  <2>2. ASSUME s.intact
        PROVE  /\ \E r \in written[s.pid] : r.at = s.names /\ r.sample
               /\ s.pcs = s.names \/ evt[s.pid].head > s.names + RingCells
    BY <2>2 DEF StackIsOneSample
  <2>3. ~timeout => s.names # Blank
    BY DEF StackIsOneSample
  <2>4. evt[s.pid].head > s.names + RingCells =>
          evt'[s.pid].head > s.names + RingCells
    BY <1>1, <2>1, RingAssumption
  <2>5. written[s.pid] \subseteq written'[s.pid]
    BY <2>1
  <2>. QED  BY <2>2, <2>3, <2>4, <2>5
<1>4. StackIsOneSample'
  <2>1. inserted' \subseteq inserted /\ timeout' = timeout
    OBVIOUS
  <2>. QED  BY <1>3, <2>1 DEF StackIsOneSample
<1>. QED  BY <1>2, <1>4

\* Of the collecting thread's step.
LEMMA CollectorStacks ==
  ASSUME SamplerTyped, SamplerTyped', StackInv, CollectorThread
  PROVE  StackInv'
PROOF
<1>. USE DEF StackInv
<1>0. /\ evt \in [Pids -> Events] /\ DOMAIN got \subseteq Pids /\ cur \in Pids
      /\ got \in [DOMAIN got -> Gotten]
      /\ written \in [Pids -> SUBSET RingRecords]
  BY DEF SamplerTyped, SamplerTypeOK, Events
<1>1. UNCHANGED timeout /\ \A p \in Pids : evt[p].head <= evt'[p].head
  BY CollectorTypes, CollectorFacts
<1>2. RecordInv' /\ \A p \in Pids : written[p] \subseteq written'[p]
  BY RecordStep
<1>3. got' = got /\ inserted' \in {inserted, {}} => ReadInv' /\ StackIsOneSample'
  BY <1>1, <1>2, OtherStacks
<1>4. \A p \in DOMAIN got :
        /\ got[p].intact =>
             \E r \in written'[p] : r.at = got[p].names /\ r.sample
        /\ ~timeout' => got[p].names # Blank
  BY <1>0, <1>1, <1>2 DEF ReadInv
<1>5. inserted' = inserted => StackIsOneSample'
  <2>1. ASSUME inserted' = inserted PROVE StackIsOneSample'
    <3>1. inserted \subseteq Stacks
      BY DEF SamplerTyped, SamplerTypeOK
    <3>2. \A p \in Pids : evt[p].head \in Nat /\ evt'[p].head \in Nat
      BY DEF SamplerTyped, SamplerTypeOK
    <3>3. SUFFICES ASSUME NEW s \in inserted
                   PROVE  /\ s.intact =>
                               /\ \E r \in written'[s.pid] : r.at = s.names /\ r.sample
                               /\ \/ s.pcs = s.names
                                  \/ evt'[s.pid].head > s.names + RingCells
                          /\ ~timeout => s.names # Blank
      BY <1>1, <2>1 DEF StackIsOneSample
    <3>4. s.pid \in Pids /\ s.names \in Int
      BY <3>1 DEF Stacks
    <3>5. ASSUME s.intact
          PROVE  /\ \E r \in written[s.pid] : r.at = s.names /\ r.sample
                 /\ s.pcs = s.names \/ evt[s.pid].head > s.names + RingCells
      BY <3>5 DEF StackIsOneSample
    <3>6. ~timeout => s.names # Blank
      BY DEF StackIsOneSample
    <3>7. evt[s.pid].head > s.names + RingCells =>
            evt'[s.pid].head > s.names + RingCells
      BY <1>1, <3>2, <3>4, RingAssumption
    <3>8. written[s.pid] \subseteq written'[s.pid]
      BY <1>2, <3>4
    <3>. QED  BY <3>5, <3>6, <3>7, <3>8
  <2>. QED  BY <2>1
<1>6. CASE Collect
  <2>1. \/ got' = got /\ inserted' = {}
        \/ got' = None /\ inserted' = inserted
    BY <1>6 DEF Collect
  <2>2. got' = None => ReadInv'
    BY DEF ReadInv, None
  <2>. QED  BY <1>2, <1>3, <1>5, <2>1, <2>2
<1>7. CASE Unlock
  BY <1>2, <1>3, <1>7 DEF Unlock
<1>8. CASE Read
  <2>1. inserted' = inserted
    BY <1>8 DEF Read
  <2>2. PICK v \in Seen(cur, Cell(cur, evt[cur].offset)) :
          IF v = Blank THEN UNCHANGED <<left, got>>
          ELSE /\ got' = [q \in DOMAIN got \cup {cur} |->
                            IF q = cur THEN [names |-> v, intact |-> Intact(cur)]
                            ELSE got[q]]
               /\ left' = left \ {cur}
    BY <1>8 DEF Read
  <2>3. CASE v = Blank
    BY <1>2, <1>3, <2>1, <2>2, <2>3
  <2>4. CASE v # Blank
    <3>1. got' = [q \in DOMAIN got \cup {cur} |->
                   IF q = cur THEN [names |-> v, intact |-> Intact(cur)]
                   ELSE got[q]]
      BY <2>2, <2>4
    <3>2. Intact(cur) => \E r \in written'[cur] : r.at = v /\ r.sample
      BY <1>0, <1>2, <2>4, IntactRead
    <3>3. /\ DOMAIN got' = DOMAIN got \cup {cur}
          /\ got'[cur].names = v /\ got'[cur].intact = Intact(cur)
          /\ \A q \in DOMAIN got \ {cur} : got'[q] = got[q]
      BY <3>1
    <3>4. ReadInv'
      BY <1>4, <2>4, <3>2, <3>3 DEF ReadInv
    <3>. QED  BY <1>2, <1>5, <2>1, <3>4
  <2>. QED  BY <2>3, <2>4
<1>9. CASE Update
  <2>1. /\ got' = None /\ UNCHANGED <<evt, written>>
        /\ inserted' = {[pid |-> p, names |-> got[p].names, intact |-> got[p].intact,
                         pcs |-> Pcs(p, got[p].names)] : p \in DOMAIN got}
    BY <1>9 DEF Update
  <2>2. ReadInv'
    BY <2>1 DEF ReadInv, None
  <2>3. ASSUME NEW p \in DOMAIN got, got[p].intact
        PROVE  \/ Pcs(p, got[p].names) = got[p].names
               \/ evt[p].head > got[p].names + RingCells
    <3>1. PICK r \in written[p] : r.at = got[p].names
      BY <2>3 DEF ReadInv
    <3>2. /\ p \in Pids /\ evt[p].head \in Nat
          /\ r.at \in Nat /\ r.cells \in 1 .. RingCells
      BY <1>0 DEF RingRecords, Events
    <3>3. r.at + r.cells <= evt[p].head
      BY <3>2 DEF RecordInv
    <3>4. r.at < evt[p].head
      BY <3>2, <3>3, RingAssumption
    <3>5. Cell(p, r.at) = r.at \/ evt[p].head > r.at + RingCells
      BY <3>2, <3>4, KeptCell
    <3>. QED  BY <3>1, <3>5 DEF Pcs
  <2>4. StackIsOneSample'
    <3>1. SUFFICES ASSUME NEW p \in DOMAIN got
                   PROVE  /\ got[p].intact =>
                               /\ \E r \in written'[p] : r.at = got[p].names /\ r.sample
                               /\ \/ Pcs(p, got[p].names) = got[p].names
                                  \/ evt'[p].head > got[p].names + RingCells
                          /\ ~timeout' => got[p].names # Blank
      BY <2>1 DEF StackIsOneSample
    <3>. QED  BY <1>4, <2>1, <2>3
  <2>. QED  BY <1>2, <2>2, <2>4
<1>10. CASE \E p \in Pids : Reports(p)
  BY <1>2, <1>3, <1>10 DEF Reports
<1>11. CASE \E p \in Pids : TimesOut(p)
  <2>1. PICK p \in Pids : TimesOut(p)
    BY <1>11
  <2>2. /\ timeout /\ inserted' = inserted
        /\ got' = [q \in DOMAIN got \cup {p} |-> IF q = p THEN Unset ELSE got[q]]
    BY <2>1 DEF TimesOut
  <2>3. /\ DOMAIN got' = DOMAIN got \cup {p} /\ got'[p].intact = FALSE
        /\ \A q \in DOMAIN got \ {p} : got'[q] = got[q]
    BY <2>2 DEF Unset
  <2>4. ReadInv'
    BY <1>1, <1>4, <2>2, <2>3 DEF ReadInv
  <2>. QED  BY <1>2, <1>5, <2>2, <2>4
<1>. QED  BY <1>6, <1>7, <1>8, <1>9, <1>10, <1>11 DEF CollectorThread

\* Every step keeps the invariant.
LEMMA StackStep ==
  ASSUME TypeInv, TypeInv', StackInv, [Next]_vars
  PROVE  StackInv'
PROOF
<1>. USE DEF StackInv
<1>0. SamplerTyped /\ SamplerTyped' /\ evt \in [Pids -> Events]
  BY DEF TypeInv, SamplerTyped, SamplerTypeOK, Events
<1>1. \A p \in Pids : evt[p].head \in Nat
  BY <1>0 DEF Events
<1>2. ASSUME UNCHANGED <<timeout, got, inserted, written>>,
             \/ evt' = evt
             \/ \E on \in BOOLEAN : Switch(on)
             \/ \E ended : DeleteSamplers(ended)
      PROVE  StackInv'
  <2>1. ASSUME NEW on \in BOOLEAN, Switch(on)
        PROVE  \A p \in Pids :
                 evt'[p].head = evt[p].head /\ evt'[p].offset = evt[p].offset
    BY <1>0, <2>1, SwitchFacts
  <2>2. ASSUME NEW ended, DeleteSamplers(ended)
        PROVE  \A p \in Pids :
                 evt'[p].head = evt[p].head /\ evt'[p].offset = evt[p].offset
    BY <1>0, <2>2, DeleteFacts
  <2>3. \A p \in Pids :
          evt'[p].head = evt[p].head /\ evt'[p].offset = evt[p].offset
    BY <1>2, <2>1, <2>2
  <2>4. RecordInv'
    BY <1>2, <2>3 DEF RecordInv
  <2>5. \A p \in Pids : evt[p].head <= evt'[p].head
    BY <1>1, <2>3
  <2>. QED  BY <1>0, <1>2, <2>4, <2>5, OtherStacks
<1>3. CASE \/ UNCHANGED vars \/ Time \/ IssuePCSampling \/ Start \/ Stop
           \/ SpawnCopier \/ CheckDuration \/ CopierEnds \/ ExitBegins
           \/ SamplingIsOver \/ Shutdown
  <2>1. UNCHANGED sampler
    BY <1>3 DEF vars, Time, IssuePCSampling, Start, Stop, SpawnCopier, CheckDuration,
                CopierEnds, ExitBegins, SamplingIsOver, Shutdown
  <2>. QED  BY <1>2, <2>1 DEF sampler
<1>4. CASE JoinThreads \/ ExitJoins \/ DeleteCollection \/ Program
  <2>1. UNCHANGED <<timeout, got, inserted, written, evt>>
    BY <1>4 DEF JoinThreads, ExitJoins, DeleteCollection, Program, sampler
  <2>. QED  BY <1>2, <2>1
<1>5. CASE EraseEnded
  BY <1>2, <1>5 DEF EraseEnded
<1>6. CASE InitializeInjection \/ EnableCPUSampling \/ DisableCPUSampling \/ ExitDisables
  <2>1. UNCHANGED <<timeout, got, inserted, written>>
    BY <1>6 DEF InitializeInjection, EnableCPUSampling, DisableCPUSampling, ExitDisables
  <2>2. evt' = evt \/ Switch(TRUE) \/ Switch(FALSE)
    BY <1>6 DEF InitializeInjection, EnableCPUSampling, DisableCPUSampling, ExitDisables
  <2>. QED  BY <1>2, <2>1, <2>2
<1>7. CASE CollectorThread
  BY <1>0, <1>7, CollectorStacks
<1>8. CASE \E p \in Pids : Tick(p)
  <2>1. UNCHANGED <<timeout, got, inserted>>
    BY <1>8 DEF Tick
  <2>2. \A p \in Pids : evt[p].head <= evt'[p].head
    BY <1>0, <1>8, CollectorFacts
  <2>3. RecordInv' /\ \A p \in Pids : written[p] \subseteq written'[p]
    BY <1>0, <1>8, RecordStep
  <2>. QED  BY <1>0, <2>1, <2>2, <2>3, OtherStacks
<1>. QED  BY <1>3, <1>4, <1>5, <1>6, <1>7, <1>8 DEF Next, Request, Exit, Sampling

\* For a ring of any size and records of any sizes and kinds: a stack that was read
\* where there was a new record, in one piece and not written over, is one of the
\* thread's samples, with its pcs unless the kernel has gone round the ring before
\* they are read; and without a timeout no stack is unset.
THEOREM StacksAreSamples == Spec => []StackIsOneSample
PROOF
<1>1. Init => TypeInv /\ StackInv
  <2>1. ASSUME Init PROVE StackInv
    <3>1. /\ got = None /\ inserted = {} /\ written = [p \in Pids |-> {}]
          /\ \A p \in Pids : evt[p].offset = 0 /\ evt[p].head = 0
      BY <2>1 DEF Init, SamplerInit
    <3>2. RecordInv
      BY <3>1 DEF RecordInv
    <3>. QED  BY <3>1, <3>2 DEF StackInv, ReadInv, StackIsOneSample, None
  <2>. QED  BY <2>1, InitTypes
<1>2. TypeInv /\ StackInv /\ [Next]_vars => TypeInv' /\ StackInv'
  BY TypeStep, StackStep
<1>3. StackInv => StackIsOneSample
  BY DEF StackInv
<1>. QED  BY <1>1, <1>2, <1>3, PTL DEF Spec

-----------------------------------------------------------------------------
(* Sums: what Reported(entries) is, by its recursion over sets of entries. *)

\* One equation for every set: no entries sum up to nothing, and some entry's
\* samples are added to the sum of the others.
Sums(S, f) ==
  f = [s \in SUBSET S |->
         IF s = {} THEN 0 ELSE Plus(Samples(AnyEntry(s)), f[s \ {AnyEntry(s)}])]

\* There is a function that satisfies it.
LEMMA SumsExist ==
  ASSUME NEW S, IsFiniteSet(S)
  PROVE  \E f : Sums(S, f)
PROOF
<1>. DEFINE Body(f, s) == IF s = {} THEN 0
                          ELSE Plus(Samples(AnyEntry(s)), f[s \ {AnyEntry(s)}])
            Upto(n) == {s \in SUBSET S : Cardinality(s) <= n}
            Good(n, f) == \A s \in Upto(n) : f[s] = Body(f, s)
            T == {n \in Nat : \A f : ~Good(n, f)}
<1>1. \A s \in SUBSET S : IsFiniteSet(s) /\ Cardinality(s) \in Nat
  BY FS_Subset, FS_CardinalityType
<1>2. \A s \in SUBSET S : s # {} =>
        /\ s \ {AnyEntry(s)} \in SUBSET S
        /\ Cardinality(s \ {AnyEntry(s)}) = Cardinality(s) - 1
  BY <1>1, FS_RemoveElement DEF AnyEntry
<1>3. T = {}
  <2>1. SUFFICES ASSUME T # {} PROVE FALSE
    OBVIOUS
  <2>2. T \subseteq Nat
    OBVIOUS
  <2>3. PICK k \in T : \A m \in T : k <= m
    <3>. HIDE DEF T
    <3>. QED  BY <2>1, <2>2, LeastNat, Zenon
  <2>4. k \in Nat /\ \A f : ~Good(k, f)
    BY <2>3
  <2>5. CASE k = 0
    <3>. DEFINE f == [s \in SUBSET S |-> 0]
    <3>1. \A s \in Upto(0) : s = {}
      BY <1>1, FS_EmptySet
    <3>2. Good(0, f)
      BY <3>1
    <3>. QED  BY <2>4, <2>5, <3>2
  <2>6. CASE k # 0
    <3>1. k - 1 \in Nat /\ ~(k <= k - 1)
      BY <2>4, <2>6
    <3>2. k - 1 \notin T
      <4>. HIDE DEF T
      <4>. QED  BY <2>3, <3>1
    <3>3. PICK f : Good(k - 1, f)
      BY <3>1, <3>2
    <3>. DEFINE g == [s \in SUBSET S |-> Body(f, s)]
    <3>4. \A s \in SUBSET S : g[s] = Body(f, s)
      OBVIOUS
    <3>. HIDE DEF g
    <3>5. \A s \in Upto(k - 1) : g[s] = f[s]
      BY <3>3, <3>4
    <3>6. ASSUME NEW s \in Upto(k) PROVE g[s] = Body(g, s)
      <4>1. CASE s = {}
        BY <3>4, <4>1
      <4>2. CASE s # {}
        <5>1. s \ {AnyEntry(s)} \in Upto(k - 1)
          BY <1>1, <1>2, <2>4, <4>2
        <5>2. g[s \ {AnyEntry(s)}] = f[s \ {AnyEntry(s)}]
          BY <3>5, <5>1
        <5>. QED  BY <3>4, <4>2, <5>2
      <4>. QED  BY <4>1, <4>2
    <3>7. Good(k, g)
      BY <3>6
    <3>. QED  BY <2>4, <3>7
  <2>. QED  BY <2>5, <2>6
<1>4. Cardinality(S) \in Nat /\ \A s \in SUBSET S : s \in Upto(Cardinality(S))
  BY FS_Subset, FS_CardinalityType
<1>5. PICK f : Good(Cardinality(S), f)
  BY <1>3, <1>4
<1>. DEFINE g == [s \in SUBSET S |-> Body(f, s)]
<1>6. \A s \in SUBSET S : g[s] = f[s]
  BY <1>4, <1>5
<1>7. \A s \in SUBSET S : Body(f, s) = Body(g, s)
  <2>. HIDE DEF g
  <2>. QED  BY <1>2, <1>6
<1>8. g = [s \in SUBSET S |-> Body(g, s)]
  <2>1. g = [s \in SUBSET S |-> Body(f, s)]
    OBVIOUS
  <2>. HIDE DEF g
  <2>. QED  BY <1>7, <2>1
<1>9. Sums(S, g)
  <2>. HIDE DEF g
  <2>. QED  BY <1>8 DEF Sums
<1>. QED  BY <1>9

\* Reported is that function's value.
LEMMA ReportedIsSum ==
  ASSUME NEW S, IsFiniteSet(S)
  PROVE  \E f : Sums(S, f) /\ Reported(S) = f[S]
PROOF
<1>. DEFINE f == CHOOSE f : Sums(S, f)
<1>1. Sums(S, f)
  BY SumsExist, Zenon
<1>2. Reported(S) = f[S]
  BY Zenon DEF Reported, MapThenFoldSet, Sums
<1>. QED  BY <1>1, <1>2
\* Such a function's values are numbers, and any entry may be added last.
LEMMA SumFacts ==
  ASSUME NEW S, NEW f, IsFiniteSet(S) /\ (\A e \in S : e.samples \in Int) /\ Sums(S, f)
  PROVE  \A s \in SUBSET S :
           f[s] \in Int /\ \A e \in s : f[s] = e.samples + f[s \ {e}]
PROOF
<1>. DEFINE Fact(s) == f[s] \in Int /\ \A e \in s : f[s] = e.samples + f[s \ {e}]
            T == {n \in Nat : \E s \in SUBSET S : Cardinality(s) = n /\ ~Fact(s)}
<1>1. \A s \in SUBSET S : IsFiniteSet(s) /\ Cardinality(s) \in Nat
  BY FS_Subset, FS_CardinalityType
<1>2. \A s \in SUBSET S : \A e \in s :
        s \ {e} \in SUBSET S /\ Cardinality(s \ {e}) = Cardinality(s) - 1
  BY <1>1, FS_RemoveElement
<1>3. \A s \in SUBSET S :
        f[s] = IF s = {} THEN 0 ELSE AnyEntry(s).samples + f[s \ {AnyEntry(s)}]
  BY DEF Sums, Plus, Samples
<1>4. \A s \in SUBSET S : s # {} => AnyEntry(s) \in s
  BY DEF AnyEntry
<1>5. T = {}
  <2>1. SUFFICES ASSUME T # {} PROVE FALSE
    OBVIOUS
  <2>2. T \subseteq Nat
    OBVIOUS
  <2>3. PICK k \in T : \A m \in T : k <= m
    <3>. HIDE DEF T
    <3>. QED  BY <2>1, <2>2, LeastNat, Zenon
  <2>4. PICK s \in SUBSET S : Cardinality(s) = k /\ ~Fact(s)
    BY <2>3
  <2>5. k \in Nat
    BY <2>3
  <2>6. ASSUME NEW r \in SUBSET S, Cardinality(r) < k PROVE Fact(r)
    <3>1. Cardinality(r) \in Nat /\ ~(k <= Cardinality(r))
      BY <1>1, <2>5, <2>6
    <3>2. Cardinality(r) \notin T
      <4>. HIDE DEF T
      <4>. QED  BY <2>3, <3>1
    <3>. QED  BY <3>1, <3>2
  <2>7. ASSUME NEW e \in s
        PROVE  f[s \ {e}] \in Int /\ \A x \in s \ {e} : f[s \ {e}] = x.samples + f[(s \ {e}) \ {x}]
    <3>1. s \ {e} \in SUBSET S /\ Cardinality(s \ {e}) < k
      BY <1>2, <2>4, <2>5
    <3>2. Fact(s \ {e})
      <4>. HIDE DEF Fact
      <4>. QED  BY <2>6, <3>1
    <3>. QED  BY <3>2
  <2>8. s # {}
    <3>1. s = {} => f[s] = 0 /\ \A e \in s : FALSE
      BY <1>3
    <3>2. s = {} => Fact(s)
      BY <3>1
    <3>. QED  BY <2>4, <3>2
  <2>. DEFINE c == AnyEntry(s)
  <2>9. c \in s /\ f[s] = c.samples + f[s \ {c}]
    BY <1>3, <1>4, <2>8
  <2>. HIDE DEF c
  <2>10. f[s] \in Int
    <3>1. f[s \ {c}] \in Int
      BY <2>7, <2>9
    <3>2. c.samples \in Int
      BY <2>9
    <3>. QED  BY <2>9, <3>1, <3>2
  <2>11. ASSUME NEW e \in s PROVE f[s] = e.samples + f[s \ {e}]
    <3>1. CASE e = c
      BY <2>9, <3>1
    <3>2. CASE e # c
      <4>1. f[s \ {c}] = e.samples + f[(s \ {c}) \ {e}] /\ f[(s \ {c}) \ {e}] \in Int
        <5>1. e \in s \ {c}
          BY <3>2
        <5>3. f[s \ {c}] = e.samples + f[(s \ {c}) \ {e}]
          BY <2>7, <2>9, <5>1
        <5>4. f[(s \ {c}) \ {e}] \in Int
          <6>1. /\ s \ {c} \in SUBSET S
                /\ Cardinality(s \ {c}) = Cardinality(s) - 1
            BY <1>2, <2>9
          <6>2. /\ (s \ {c}) \ {e} \in SUBSET S
                /\ Cardinality((s \ {c}) \ {e}) = Cardinality(s \ {c}) - 1
            BY <1>2, <5>1, <6>1
          <6>. QED  BY <1>1, <2>4, <2>6, <6>1, <6>2
        <5>. QED  BY <5>3, <5>4
      <4>2. f[s \ {e}] = c.samples + f[(s \ {e}) \ {c}]
        <5>1. c \in s \ {e}
          BY <2>9, <3>2
        <5>. QED  BY <2>7, <5>1
      <4>3. (s \ {c}) \ {e} = (s \ {e}) \ {c}
        OBVIOUS
      <4>4. c.samples \in Int /\ e.samples \in Int
        BY <2>9
      <4>. DEFINE q == f[(s \ {c}) \ {e}]
      <4>5. f[s] = c.samples + (e.samples + q) /\ f[s \ {e}] = c.samples + q /\ q \in Int
        BY <2>9, <4>1, <4>2, <4>3
      <4>. HIDE DEF q
      <4>. QED  BY <4>4, <4>5
    <3>. QED  BY <3>1, <3>2
  <2>. QED  BY <2>4, <2>10, <2>11
<1>6. ASSUME NEW s \in SUBSET S PROVE Fact(s)
  BY <1>1, <1>5
<1>. QED  BY <1>6

\* Two such functions agree where both are defined.
LEMMA SumsAgree ==
  ASSUME NEW S, NEW R, IsFiniteSet(S), R \subseteq S,
         NEW f, Sums(S, f), NEW g, Sums(R, g)
  PROVE  \A s \in SUBSET R : f[s] = g[s]
PROOF
<1>. DEFINE T == {n \in Nat : \E s \in SUBSET R : Cardinality(s) = n /\ f[s] # g[s]}
<1>1. \A s \in SUBSET R : IsFiniteSet(s) /\ Cardinality(s) \in Nat
  BY FS_Subset, FS_CardinalityType
<1>2. \A s \in SUBSET R : s # {} =>
        /\ s \ {AnyEntry(s)} \in SUBSET R
        /\ Cardinality(s \ {AnyEntry(s)}) = Cardinality(s) - 1
  BY <1>1, FS_RemoveElement DEF AnyEntry
<1>3. T = {}
  <2>1. SUFFICES ASSUME T # {} PROVE FALSE
    OBVIOUS
  <2>2. T \subseteq Nat
    OBVIOUS
  <2>3. PICK k \in T : \A m \in T : k <= m
    <3>. HIDE DEF T
    <3>. QED  BY <2>1, <2>2, LeastNat, Zenon
  <2>4. PICK s \in SUBSET R : Cardinality(s) = k /\ f[s] # g[s]
    BY <2>3
  <2>5. /\ f[s] = IF s = {} THEN 0 ELSE Plus(Samples(AnyEntry(s)), f[s \ {AnyEntry(s)}])
        /\ g[s] = IF s = {} THEN 0 ELSE Plus(Samples(AnyEntry(s)), g[s \ {AnyEntry(s)}])
    BY DEF Sums
  <2>. DEFINE r == s \ {AnyEntry(s)}
  <2>6. s # {} /\ f[r] # g[r]
    BY <2>4, <2>5
  <2>7. r \in SUBSET R /\ Cardinality(r) = k - 1 /\ Cardinality(r) \in Nat /\ k \in Nat
    BY <1>1, <1>2, <2>3, <2>4, <2>6
  <2>. HIDE DEF r
  <2>8. k - 1 \in T /\ ~(k <= k - 1)
    BY <2>6, <2>7
  <2>. HIDE DEF T
  <2>. QED  BY <2>3, <2>8
<1>. QED  BY <1>1, <1>3

\* The sum of the samples of a finite set of entries is a number, 0 if there are
\* none, and what any one entry has together with the sum of the others.
LEMMA ReportedFacts ==
  ASSUME NEW S, IsFiniteSet(S), \A e \in S : e.samples \in Int
  PROVE  /\ Reported({}) = 0 /\ Reported(S) \in Int
         /\ \A e \in S : Reported(S) = e.samples + Reported(S \ {e})
PROOF
<1>1. Reported({}) = 0
  <2>1. PICK f : Sums({}, f) /\ Reported({}) = f[{}]
    BY FS_EmptySet, ReportedIsSum
  <2>. QED  BY <2>1 DEF Sums
<1>2. PICK f : Sums(S, f) /\ Reported(S) = f[S]
  BY ReportedIsSum
<1>3. f[S] \in Int /\ \A e \in S : f[S] = e.samples + f[S \ {e}]
  <2>1. \A s \in SUBSET S : f[s] \in Int /\ \A e \in s : f[s] = e.samples + f[s \ {e}]
    <3>1. IsFiniteSet(S) /\ (\A e \in S : e.samples \in Int) /\ Sums(S, f)
      BY <1>2
    <3>. QED  BY <3>1, SumFacts
  <2>2. S \in SUBSET S
    OBVIOUS
  <2>. QED  BY <2>1, <2>2, Zenon
<1>4. ASSUME NEW e \in S PROVE Reported(S \ {e}) = f[S \ {e}]
  <2>1. IsFiniteSet(S \ {e}) /\ S \ {e} \subseteq S
    BY FS_RemoveElement
  <2>2. PICK g : Sums(S \ {e}, g) /\ Reported(S \ {e}) = g[S \ {e}]
    BY <2>1, ReportedIsSum
  <2>. DEFINE R == S \ {e}
  <2>3. R \subseteq S /\ Sums(R, g)
    BY <2>1, <2>2
  <2>4. \A s \in SUBSET R : f[s] = g[s]
    <3>. HIDE DEF R
    <3>. QED  BY <1>2, <2>3, SumsAgree
  <2>. QED  BY <2>2, <2>4
<1>. QED  BY <1>1, <1>2, <1>3, <1>4

\* One entry that is not in a set, added to it.
LEMMA ReportedAdds ==
  ASSUME NEW S, IsFiniteSet(S), \A x \in S : x.samples \in Int,
         NEW e, e \notin S, e.samples \in Int
  PROVE  Reported(S \cup {e}) = e.samples + Reported(S) /\ Reported(S) \in Int
PROOF
<1>. DEFINE R == S \cup {e}
<1>1. IsFiniteSet(R) /\ \A x \in R : x.samples \in Int
  BY FS_AddElement
<1>2. R \ {e} = S /\ e \in R
  OBVIOUS
<1>. HIDE DEF R
<1>3. Reported(R) = e.samples + Reported(S)
  BY <1>1, <1>2, ReportedFacts
<1>. QED  BY <1>3, ReportedFacts DEF R
-----------------------------------------------------------------------------
(* What tracing reports.                                                   *)

\* The entries of a reply that are of kernel k, from the records f.
Entry(key, v) == [node |-> key[1], kernel |-> key[2], samples |-> v]
Among(D, f, k) == {Entry(key, f[key]) : key \in {o \in D : o[2] = k}}
EntriesOf(f, k) == Among(DOMAIN f, f, k)

\* The entries of a reply for one kernel are made from the records of its keys.
LEMMA ReplyEntries ==
  TimeIsNotInvented <=>
    \A k \in Kernels : Reported(EntriesOf(records, k)) <= truth[k]
PROOF
<1>1. \A k : {r \in RPCCopyTracingData : r.kernel = k} = EntriesOf(records, k)
  BY DEF RPCCopyTracingData, EntriesOf, Among, Entry
<1>. QED  BY <1>1 DEF TimeIsNotInvented

\* Every key has one entry.
LEMMA EntriesFinite ==
  ASSUME NEW f, NEW k, NEW D, D \subseteq DOMAIN f, IsFiniteSet(D)
  PROVE  IsFiniteSet(Among(D, f, k))
PROOF
<1>. DEFINE C == {o \in D : o[2] = k}
            T == {Entry(o, f[o]) : o \in C}
            m == [o \in C |-> Entry(o, f[o])]
<1>1. IsFiniteSet(C)
  BY FS_Subset
<1>2. m \in Surjection(C, T)
  BY DEF Surjection
<1>3. IsFiniteSet(T)
  <2>. HIDE DEF C, T, m
  <2>. QED  BY <1>1, <1>2, FS_Surjection
<1>. QED  BY <1>3 DEF Among

\* They have a sum.
LEMMA EntriesSum ==
  ASSUME NEW f, IsFiniteSet(DOMAIN f), f \in [DOMAIN f -> Int], NEW k
  PROVE  Reported(EntriesOf(f, k)) \in Int
PROOF
<1>1. IsFiniteSet(EntriesOf(f, k))
  BY EntriesFinite DEF EntriesOf
<1>2. \A e \in EntriesOf(f, k) : e.samples \in Int
  BY DEF EntriesOf, Among, Entry
<1>. QED  BY <1>1, <1>2, ReportedFacts

\* The records f become g: d is added to one key's duration, or its record is made
\* with it.
Changed(f, g, key, d) ==
  /\ IsFiniteSet(DOMAIN f) /\ DOMAIN f \subseteq Keys /\ f \in [DOMAIN f -> Int]
  /\ key \in Keys /\ d \in Int
  /\ DOMAIN g = DOMAIN f \cup {key} /\ g[key] \in Int
  /\ g[key] = d + (IF key \in DOMAIN f THEN f[key] ELSE 0)
  /\ \A o \in DOMAIN f \ {key} : g[o] = f[o]

\* The sum for the key's kernel changes by d, and that for any other does not.
LEMMA SumChanges ==
  ASSUME NEW f, NEW g, NEW key, NEW d, Changed(f, g, key, d), NEW k
  PROVE  /\ Reported(EntriesOf(f, k)) \in Int
         /\ Reported(EntriesOf(g, k)) =
              Reported(EntriesOf(f, k)) + (IF key[2] = k THEN d ELSE 0)
PROOF
<1>. USE DEF Changed
<1>. DEFINE D == DOMAIN f \ {key}
            Rest == Among(D, f, k)
            old == Entry(key, f[key])
            new == Entry(key, g[key])
<1>1. IsFiniteSet(D) /\ D \subseteq DOMAIN f
  BY FS_RemoveElement
<1>2. IsFiniteSet(Rest)
  <2>. HIDE DEF D
  <2>. QED  BY <1>1, EntriesFinite
<1>3. \A e \in Rest : e.samples \in Int
  BY DEF Among, Entry
<1>4. \A v : Entry(key, v) \notin Rest /\ Entry(key, v).samples = v
  <2>1. \A o \in Keys : o = <<o[1], o[2]>>
    BY DEF Keys
  <2>2. \A v, w : \A o \in Keys : Entry(o, v) = Entry(key, w) => o = key
    <3>1. SUFFICES ASSUME NEW v, NEW w, NEW o \in Keys, Entry(o, v) = Entry(key, w)
                   PROVE  o = key
      OBVIOUS
    <3>2. Entry(o, v).node = o[1] /\ Entry(o, v).kernel = o[2]
      BY DEF Entry
    <3>3. Entry(key, w).node = key[1] /\ Entry(key, w).kernel = key[2]
      BY DEF Entry
    <3>4. o[1] = key[1] /\ o[2] = key[2]
      BY <3>1, <3>2, <3>3
    <3>. QED  BY <2>1, <3>4
  <2>3. \A v : Entry(key, v) \notin Rest
    BY <2>2 DEF Among
  <2>4. \A v : Entry(key, v).samples = v
    BY DEF Entry
  <2>. QED  BY <2>3, <2>4
<1>5. CASE key[2] # k
  <2>1. EntriesOf(f, k) = Rest /\ EntriesOf(g, k) = Rest
    BY <1>5 DEF EntriesOf, Among
  <2>. HIDE DEF Rest
  <2>2. Reported(Rest) \in Int
    BY <1>2, <1>3, ReportedFacts
  <2>. QED  BY <1>5, <2>1, <2>2
<1>6. CASE key[2] = k
  <2>1. EntriesOf(g, k) = Rest \cup {new}
    BY <1>6 DEF EntriesOf, Among
  <2>2. EntriesOf(f, k) = IF key \in DOMAIN f THEN Rest \cup {old} ELSE Rest
    BY <1>6 DEF EntriesOf, Among
  <2>3. key \in DOMAIN f => f[key] \in Int
    OBVIOUS
  <2>4. new \notin Rest /\ new.samples = g[key] /\ old \notin Rest /\ old.samples = f[key]
    BY <1>4
  <2>. HIDE DEF Rest, new, old
  <2>5. Reported(Rest \cup {new}) = g[key] + Reported(Rest) /\ Reported(Rest) \in Int
    BY <1>2, <1>3, <2>4, ReportedAdds
  <2>6. CASE key \in DOMAIN f
    <3>1. Reported(Rest \cup {old}) = f[key] + Reported(Rest)
      BY <1>2, <1>3, <2>3, <2>4, <2>6, ReportedAdds
    <3>2. g[key] = d + f[key]
      BY <2>6
    <3>. QED  BY <1>6, <2>1, <2>2, <2>3, <2>5, <2>6, <3>1, <3>2
  <2>7. CASE key \notin DOMAIN f
    <3>1. g[key] = d
      BY <2>7
    <3>. QED  BY <1>6, <2>1, <2>2, <2>5, <2>7, <3>1
  <2>. QED  BY <2>6, <2>7
<1>. QED  BY <1>5, <1>6
\* Of a launch's steps, and the clock's.
LEMMA LaunchTrace ==
  ASSUME TracerTyped, TracerTyped', TraceInv, Launching \/ TimePasses
  PROVE  TraceInv'
PROOF
<1>. DEFINE Sum(f, k) == Reported(EntriesOf(f, k))
<1>0. /\ now \in Int /\ ids \in Int /\ truth \in [Kernels -> Int]
      /\ IsFiniteSet(DOMAIN records) /\ DOMAIN records \subseteq Keys
      /\ records \in [DOMAIN records -> Int] /\ timers \in [DOMAIN records -> Int]
      /\ corKey \in [DOMAIN corKey -> DOMAIN records]
      /\ launch \in [Launchers -> [at : {"out", "record", "in"}, id : 0 .. MaxLaunches,
                                   kernel : Kernels, began : 0 .. MaxTime,
                                   traced : BOOLEAN]]
      /\ \A t \in Launchers : launch[t].at # "out" => launch[t].id \in 1 .. ids
  BY TraceBounds DEF TracerTyped, TracingTypeOK
<1>1. \A t \in Launchers :
        /\ launch[t].id \in Int /\ launch[t].began \in Int /\ launch[t].kernel \in Kernels
        /\ launch[t].traced \in BOOLEAN
  BY <1>0
<1>2. LaunchInv /\ \A k \in Kernels : Sum(records, k) <= truth[k]
  BY ReplyEntries DEF TraceInv
<1>3. TimeIsNotInvented' <=> \A k \in Kernels : Sum(records', k) <= truth'[k]
  <2>1. \A k : {r \in RPCCopyTracingData' : r.kernel = k} = EntriesOf(records', k)
    BY DEF RPCCopyTracingData, EntriesOf, Among, Entry
  <2>. QED  BY <2>1 DEF TimeIsNotInvented
<1>4. SUFFICES LaunchInv' /\ \A k \in Kernels : Sum(records', k) <= truth'[k]
  BY <1>3 DEF TraceInv
<1>5. CASE TimePasses
  <2>1. now' = now + 1 /\ UNCHANGED <<corKey, records, timers, launch, ids, truth>>
    BY <1>5 DEF TimePasses
  <2>2. LaunchInv'
    <3>1. \A key \in DOMAIN records : timers[key] <= now'
      BY <1>0, <1>2, <2>1 DEF LaunchInv
    <3>2. \A t \in Launchers : launch[t].began <= now'
      BY <1>0, <1>1, <1>2, <2>1 DEF LaunchInv
    <3>. QED  BY <1>2, <2>1, <3>1, <3>2 DEF LaunchInv
  <2>. QED  BY <1>2, <2>1, <2>2
<1>6. ASSUME NEW t \in Launchers, NEW k \in Kernels, NEW n \in Path[t],
             LaunchEnters(t, k, n)
      PROVE  LaunchInv' /\ \A q \in Kernels : Sum(records', q) <= truth'[q]
  <2>. DEFINE l == [at |-> IF tracing THEN "record" ELSE "in", id |-> ids + 1,
                    kernel |-> k, began |-> now, traced |-> tracing]
  <2>1. /\ launch' = [launch EXCEPT ![t] = l] /\ ids' = ids + 1
        /\ UNCHANGED <<now, corKey, records, timers, truth>>
    BY <1>6 DEF LaunchEnters
  <2>2. /\ l.id = ids + 1 /\ l.began = now
        /\ l.at = "record" => l.traced
    BY DEF TracerTyped, TracingTypeOK
  <2>3. ids + 1 \notin DOMAIN corKey
    BY <1>0, <1>2 DEF LaunchInv
  <2>. HIDE DEF l
  <2>4. \A u \in Launchers : launch'[u] = IF u = t THEN l ELSE launch[u]
    BY <1>0, <2>1
  <2>5. DOMAIN corKey' \subseteq 1 .. ids'
    BY <1>0, <1>2, <2>1 DEF LaunchInv
  <2>6. \A u, w \in Launchers :
          u # w /\ launch'[u].at # "out" /\ launch'[w].at # "out" =>
            launch'[u].id # launch'[w].id
    <3>1. \A u \in Launchers : launch[u].at # "out" => launch[u].id # ids + 1
      BY <1>0
    <3>. QED  BY <1>2, <2>2, <2>4, <3>1 DEF LaunchInv
  <2>7. ASSUME NEW u \in Launchers
        PROVE  /\ launch'[u].began <= now'
               /\ launch'[u].at = "record" =>
                    launch'[u].traced /\ launch'[u].id \notin DOMAIN corKey'
               /\ launch'[u].at = "in" /\ launch'[u].id \in DOMAIN corKey' =>
                    /\ launch'[u].traced
                    /\ corKey'[launch'[u].id][2] = launch'[u].kernel
                    /\ launch'[u].began <= timers'[corKey'[launch'[u].id]]
    <3>1. CASE u = t
      BY <1>0, <2>1, <2>2, <2>3, <2>4, <3>1
    <3>2. CASE u # t
      BY <1>2, <2>1, <2>4, <3>2 DEF LaunchInv
    <3>. QED  BY <3>1, <3>2
  <2>8. \A key \in DOMAIN records' : timers'[key] <= now'
    BY <1>2, <2>1 DEF LaunchInv
  <2>9. LaunchInv'
    BY <2>5, <2>6, <2>7, <2>8 DEF LaunchInv
  <2>. QED  BY <1>2, <2>1, <2>9
<1>7. ASSUME NEW t \in Launchers, RecordLaunch(t)
      PROVE  LaunchInv' /\ \A q \in Kernels : Sum(records', q) <= truth'[q]
  <2>. DEFINE key == <<active, launch[t].kernel>>
              id == launch[t].id
  <2>1. /\ launch[t].at = "record"
        /\ corKey' = Insert(corKey, id, key)
        /\ records' = Insert(records, key, 0)
        /\ timers' = Assign(timers, key, now)
        /\ launch' = [launch EXCEPT ![t].at = "in"]
        /\ UNCHANGED <<now, ids, truth>>
    BY <1>7 DEF RecordLaunch
  <2>2. key \in Keys /\ key[2] = launch[t].kernel
    BY <1>1 DEF TracerTyped, TracingTypeOK, Keys
  <2>3. id \in 1 .. ids /\ id \notin DOMAIN corKey /\ launch[t].traced
        /\ launch[t].began <= now
    BY <1>0, <1>2, <2>1 DEF LaunchInv
  <2>. HIDE DEF key
  <2>4. /\ DOMAIN corKey' = DOMAIN corKey \cup {id} /\ corKey'[id] = key
        /\ \A i \in DOMAIN corKey : corKey'[i] = corKey[i]
    BY <2>1, <2>3 DEF Insert
  <2>5. DOMAIN timers = DOMAIN records
    BY <1>0
  <2>6. /\ DOMAIN records' = DOMAIN records \cup {key}
        /\ \A o \in DOMAIN records : records'[o] = records[o]
        /\ key \notin DOMAIN records => records'[key] = 0
    BY <2>1 DEF Insert
  <2>7. /\ timers'[key] = now
        /\ \A o \in DOMAIN records \ {key} : timers'[o] = timers[o]
    BY <2>1, <2>5 DEF Assign
  <2>8. \A o \in DOMAIN records : timers[o] <= timers'[o] /\ timers'[o] \in Int
    BY <1>0, <1>2, <2>7 DEF LaunchInv
  <2>9. \A u \in Launchers :
          /\ launch'[u].at = IF u = t THEN "in" ELSE launch[u].at
          /\ launch'[u].id = launch[u].id /\ launch'[u].began = launch[u].began
          /\ launch'[u].kernel = launch[u].kernel /\ launch'[u].traced = launch[u].traced
    BY <1>0, <2>1
  <2>10. ASSUME NEW u \in Launchers
         PROVE  /\ launch'[u].began <= now'
                /\ launch'[u].at = "record" =>
                     launch'[u].traced /\ launch'[u].id \notin DOMAIN corKey'
                /\ launch'[u].at = "in" /\ launch'[u].id \in DOMAIN corKey' =>
                     /\ launch'[u].traced
                     /\ corKey'[launch'[u].id][2] = launch'[u].kernel
                     /\ launch'[u].began <= timers'[corKey'[launch'[u].id]]
    <3>1. CASE u = t
      <4>1. launch'[t].at = "in" /\ launch'[t].id = id
        BY <2>9
      <4>2. timers'[corKey'[id]] = now
        BY <2>4, <2>7
      <4>. QED  BY <2>1, <2>2, <2>3, <2>4, <2>9, <3>1, <4>1, <4>2
    <3>2. CASE u # t
      <4>1. launch'[u].at # "out" => launch'[u].id # id
        BY <1>2, <2>1, <2>9, <3>2 DEF LaunchInv
      <4>2. launch'[u].began <= now'
        BY <1>2, <2>1, <2>9 DEF LaunchInv
      <4>3. launch'[u].at = "record" =>
              launch'[u].traced /\ launch'[u].id \notin DOMAIN corKey'
        BY <1>2, <2>4, <2>9, <3>2, <4>1 DEF LaunchInv
      <4>4. ASSUME launch'[u].at = "in", launch'[u].id \in DOMAIN corKey'
            PROVE  /\ launch'[u].traced
                   /\ corKey'[launch'[u].id][2] = launch'[u].kernel
                   /\ launch'[u].began <= timers'[corKey'[launch'[u].id]]
        <5>. DEFINE i == launch[u].id
        <5>1. i \in DOMAIN corKey /\ launch[u].at = "in"
          BY <2>4, <2>9, <3>2, <4>1, <4>4
        <5>2. /\ launch[u].traced /\ corKey[i][2] = launch[u].kernel
              /\ launch[u].began <= timers[corKey[i]]
          BY <1>2, <5>1 DEF LaunchInv
        <5>3. corKey[i] \in DOMAIN records /\ corKey'[i] = corKey[i]
          BY <1>0, <2>4, <5>1
        <5>4. launch[u].began <= timers'[corKey[i]]
          BY <1>0, <1>1, <2>8, <5>2, <5>3
        <5>. QED  BY <2>9, <5>2, <5>3, <5>4
      <4>. QED  BY <4>2, <4>3, <4>4
    <3>. QED  BY <3>1, <3>2
  <2>11. \A u, w \in Launchers :
           u # w /\ launch'[u].at # "out" /\ launch'[w].at # "out" =>
             launch'[u].id # launch'[w].id
    BY <1>2, <2>1, <2>9 DEF LaunchInv
  <2>12. DOMAIN corKey' \subseteq 1 .. ids'
    BY <1>2, <2>1, <2>3, <2>4 DEF LaunchInv
  <2>13. \A o \in DOMAIN records' : timers'[o] <= now'
    <3>1. \A o \in DOMAIN records \ {key} : timers'[o] <= now
      BY <1>2, <2>7 DEF LaunchInv
    <3>2. timers'[key] <= now
      BY <1>0, <2>7
    <3>. QED  BY <2>1, <2>6, <3>1, <3>2
  <2>14. LaunchInv'
    BY <2>10, <2>11, <2>12, <2>13 DEF LaunchInv
  <2>15. \A q \in Kernels : Sum(records', q) = Sum(records, q)
    <3>1. records'[key] = 0 + (IF key \in DOMAIN records THEN records[key] ELSE 0)
      BY <1>0, <2>6
    <3>2. records'[key] \in Int
      BY <1>0, <2>6
    <3>3. \A o \in DOMAIN records \ {key} : records'[o] = records[o]
      BY <2>6
    <3>4. \A q : /\ Reported(EntriesOf(records, q)) \in Int
                 /\ Reported(EntriesOf(records', q)) =
                      Reported(EntriesOf(records, q)) + (IF key[2] = q THEN 0 ELSE 0)
      <4>1. Changed(records, records', key, 0)
        BY <1>0, <2>2, <2>6, <3>1, <3>2, <3>3 DEF Changed
      <4>. QED  BY <4>1, SumChanges
    <3>. QED  BY <3>4
  <2>. QED  BY <1>2, <2>1, <2>14, <2>15
<1>8. ASSUME NEW t \in Launchers, LaunchEnds(t)
      PROVE  LaunchInv' /\ \A q \in Kernels : Sum(records', q) <= truth'[q]
  <2>. DEFINE l == launch[t]
              key == corKey[l.id]
              d == now - timers[key]
              hit == tracing /\ l.id \in DOMAIN corKey
  <2>1. /\ launch[t].at = "in"
        /\ launch' = [launch EXCEPT ![t] = AtRest]
        /\ IF hit THEN records' = [records EXCEPT ![key] = @ + d]
           ELSE UNCHANGED records
        /\ truth' = IF tracing /\ l.traced
                    THEN [truth EXCEPT ![l.kernel] = @ + now - l.began] ELSE truth
        /\ UNCHANGED <<now, corKey, timers, ids>>
    BY <1>8 DEF LaunchEnds, Elapsed
  <2>2. l.began <= now /\ l.kernel \in Kernels /\ l.began \in Int
    BY <1>1, <1>2 DEF LaunchInv
  <2>3. hit => /\ l.traced /\ key \in DOMAIN records /\ key[2] = l.kernel
               /\ l.began <= timers[key] /\ timers[key] \in Int
    BY <1>0, <1>2, <2>1 DEF LaunchInv
  <2>4. DOMAIN records' = DOMAIN records
    BY <2>1
  <2>. HIDE DEF l, key, d, hit
  <2>5. \A u \in Launchers : launch'[u] = IF u = t THEN AtRest ELSE launch[u]
    BY <1>0, <2>1
  <2>6. LaunchInv'
    <3>1. AtRest.at = "out" /\ AtRest.began <= now
      <4>1. now \in 0 .. MaxTime
        BY DEF TracerTyped, TracingTypeOK
      <4>. QED  BY <4>1, TraceBounds DEF AtRest
    <3>. QED  BY <1>2, <2>1, <2>4, <2>5, <3>1 DEF LaunchInv
  <2>7. \A q \in Kernels :
          /\ truth[q] \in Int /\ truth'[q] \in Int /\ truth[q] <= truth'[q]
          /\ tracing /\ l.traced /\ q = l.kernel => truth'[q] = truth[q] + now - l.began
    BY <1>0, <2>1, <2>2
  <2>8. CASE ~hit
    <3>1. ASSUME NEW q \in Kernels PROVE Sum(records', q) <= truth'[q]
      <4>1. records' = records
        BY <2>1, <2>8
      <4>2. Reported(EntriesOf(records, q)) \in Int
        BY <1>0, EntriesSum
      <4>. QED  BY <1>2, <2>7, <4>1, <4>2
    <3>. QED  BY <2>6, <3>1
  <2>9. CASE hit
    <3>1. /\ d \in Int /\ d <= now - l.began
      BY <1>0, <2>2, <2>3, <2>9 DEF d
    <3>2. /\ key \in Keys /\ DOMAIN records' = DOMAIN records \cup {key}
          /\ records'[key] \in Int
          /\ records'[key] = d + (IF key \in DOMAIN records THEN records[key] ELSE 0)
          /\ \A o \in DOMAIN records \ {key} : records'[o] = records[o]
      <4>1. records' = [records EXCEPT ![key] = @ + d]
        BY <2>1, <2>9
      <4>2. key \in DOMAIN records /\ records[key] \in Int
        BY <1>0, <2>3, <2>9
      <4>3. DOMAIN records' = DOMAIN records \cup {key} /\ key \in Keys
        BY <1>0, <2>4, <4>2
      <4>4. records'[key] = records[key] + d
        BY <4>1, <4>2
      <4>5. \A o \in DOMAIN records \ {key} : records'[o] = records[o]
        BY <4>1
      <4>. QED  BY <3>1, <4>2, <4>3, <4>4, <4>5
    <3>3. \A q : /\ Reported(EntriesOf(records, q)) \in Int
                 /\ Reported(EntriesOf(records', q)) =
                      Reported(EntriesOf(records, q)) + (IF key[2] = q THEN d ELSE 0)
      <4>1. Changed(records, records', key, d)
        BY <1>0, <3>1, <3>2 DEF Changed
      <4>. QED  BY <4>1, SumChanges
    <3>4. tracing /\ l.traced /\ key[2] = l.kernel
      BY <2>3, <2>9 DEF hit
    <3>5. ASSUME NEW q \in Kernels PROVE Sum(records', q) <= truth'[q]
      <4>1. CASE q = l.kernel
        BY <1>0, <1>2, <2>2, <2>7, <3>1, <3>3, <3>4, <4>1
      <4>2. CASE q # l.kernel
        BY <1>2, <2>7, <3>3, <3>4, <4>2
      <4>. QED  BY <4>1, <4>2
    <3>. QED  BY <2>6, <3>5
  <2>. QED  BY <2>8, <2>9
<1>. QED  BY <1>5, <1>6, <1>7, <1>8 DEF Launching

\* Every step keeps the invariant.
LEMMA TraceStep ==
  ASSUME TypeInv, TypeInv', TraceInv, [Next]_vars
  PROVE  TraceInv'
PROOF
<1>1. CASE Launching \/ TimePasses
  BY <1>1, LaunchTrace DEF TypeInv
<1>2. CASE UNCHANGED <<now, corKey, records, timers, launch, ids, truth>>
  BY <1>2 DEF TraceInv, LaunchInv, TimeIsNotInvented, RPCCopyTracingData
<1>3. CASE \/ UNCHANGED vars \/ IssuePCSampling \/ EraseEnded \/ SpawnCopier
           \/ EnableCPUSampling \/ CheckDuration \/ DisableCPUSampling \/ JoinThreads
           \/ CopierEnds \/ SamplingIsOver \/ ExitDisables \/ ExitJoins \/ Shutdown
           \/ DeleteCollection \/ Sampling
  <2>1. UNCHANGED tracer
    BY <1>3 DEF vars, IssuePCSampling, EraseEnded, SpawnCopier, EnableCPUSampling,
                CheckDuration, DisableCPUSampling, JoinThreads, CopierEnds, SamplingIsOver,
                ExitDisables, ExitJoins, Shutdown, DeleteCollection, Sampling
  <2>. QED  BY <1>2, <2>1 DEF tracer
<1>4. CASE InitializeInjection \/ Start \/ Stop \/ ExitBegins
  BY <1>2, <1>4 DEF InitializeInjection, Start, Stop, ExitBegins
<1>5. CASE Program
  BY <1>1, <1>2, <1>5 DEF Program, tracer
<1>6. CASE Time
  BY <1>1, <1>6 DEF Time
<1>. QED  BY <1>3, <1>4, <1>5, <1>6 DEF Next, Request, Exit

\* No kernel is ever reported to have run longer than its traced launches took,
\* for any threads, call paths and kernels: whichever launches overlap, and whenever
\* tracing is started and stopped.
THEOREM NoTimeIsInvented == Spec => []TimeIsNotInvented
PROOF
<1>1. Init => TypeInv /\ TraceInv
  <2>1. ASSUME Init PROVE TraceInv
    <3>1. /\ now = 0 /\ ids = 0 /\ corKey = Nothing /\ records = Nothing
          /\ launch = [t \in Launchers |-> AtRest] /\ truth = [k \in Kernels |-> 0]
      BY <2>1, Zenon DEF Init, TracingInit
    <3>2. DOMAIN Nothing = {}
      BY DEF Nothing
    <3>3. \A t \in Launchers : launch[t].at = "out" /\ launch[t].began = 0
      BY <3>1 DEF AtRest
    <3>4. LaunchInv
      BY <3>1, <3>2, <3>3 DEF LaunchInv
    <3>5. \A k : EntriesOf(records, k) = {}
      BY <3>1, <3>2 DEF EntriesOf, Among
    <3>6. Reported({}) = 0
      BY FS_EmptySet, ReportedFacts
    <3>7. TimeIsNotInvented
      BY <3>1, <3>5, <3>6, ReplyEntries
    <3>. QED  BY <3>4, <3>7 DEF TraceInv
  <2>. QED  BY <2>1, InitTypes
<1>2. TypeInv /\ TraceInv /\ [Next]_vars => TypeInv' /\ TraceInv'
  BY TypeStep, TraceStep
<1>3. TraceInv => TimeIsNotInvented
  BY DEF TraceInv
<1>. QED  BY <1>1, <1>2, <1>3, PTL DEF Spec

=============================================================================
