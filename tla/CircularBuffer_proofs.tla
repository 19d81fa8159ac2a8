------------------------ MODULE CircularBuffer_proofs -----------------------
(***************************************************************************)
(* Proofs about CircularBuffer, for every number of slots, collectors,     *)
(* contexts and batches.                                                   *)
(***************************************************************************)
EXTENDS CircularBuffer, FiniteSetTheorems, TLAPS

-----------------------------------------------------------------------------
(* The operators.                                                          *)

\* Two offsets of the ring add up to one that wraps at most once.
LEMMA WrapLemma ==
  ASSUME NEW g \in Slots, NEW u \in 0 .. circularbufCount
  PROVE  (g + u) % circularbufCount
           = IF g + u < circularbufCount THEN g + u ELSE g + u - circularbufCount
PROOF
<1> USE CountAssumption DEF Slots
<1>1. CASE g + u < circularbufCount
  <2>1. \A a \in 0 .. circularbufCount - 1 : a % circularbufCount = a
    BY SMT
  <2>. QED  BY <1>1, <2>1
<1>2. CASE g + u >= circularbufCount
  <2>1. ASSUME NEW a \in circularbufCount .. 2 * circularbufCount - 1
        PROVE  a % circularbufCount = a - circularbufCount
    BY SMTT(30)
  <2>2. g + u \in circularbufCount .. 2 * circularbufCount - 1
    BY <1>2
  <2>3. (g + u) % circularbufCount = g + u - circularbufCount
    BY <2>1, <2>2
  <2>. QED  BY <1>2, <2>3
<1>. QED  BY <1>1, <1>2

\* NextSlot goes to the following slot, and from the last one to slot 0.
LEMMA NextSlotLemma ==
  ASSUME NEW i \in Slots
  PROVE  /\ NextSlot(i) \in Slots
         /\ NextSlot(i) = IF i + 1 = circularbufCount THEN 0 ELSE i + 1
PROOF
<1>1. 1 \in 0 .. circularbufCount
  BY CountAssumption
<1>2. NextSlot(i) = IF i + 1 < circularbufCount THEN i + 1
                    ELSE i + 1 - circularbufCount
  BY <1>1, WrapLemma DEF NextSlot
<1>. QED  BY <1>2, CountAssumption DEF Slots

\* A set of collectors that gains or loses one thread changes its size by one.
LEMMA CollectorSets ==
  ASSUME NEW S \in SUBSET Collectors, NEW c \in Collectors
  PROVE  /\ Cardinality(S) \in Nat
         /\ c \notin S => Cardinality(S \cup {c}) = Cardinality(S) + 1
         /\ c \in S => Cardinality(S \ {c}) = Cardinality(S) - 1
PROOF
<1>1. IsFiniteSet(S)
  BY CollectorsAssumption, FS_Subset
<1>. QED  BY <1>1, FS_CardinalityType, FS_AddElement, FS_RemoveElement

-----------------------------------------------------------------------------
(* Types.  That CUPTI's batches stay within the bound needs the threads    *)
(* that are still due one.                                                 *)

BatchBound == batches + Cardinality(Due) =< MaxBatches

TypeInv == TypeOK /\ BatchBound

LEMMA TypeInit == Init => TypeInv
PROOF
<1>1. ASSUME Init PROVE Due = {}
  BY <1>1 DEF Init, Due
<1>2. ASSUME Init PROVE BatchBound
  <2>1. Cardinality(Due) = 0
    BY <1>1, <1>2, FS_EmptySet
  <2>. QED  BY <1>2, <2>1, BoundAssumption DEF Init, BatchBound
<1>3. ASSUME Init PROVE TypeOK
  <2>1. 0 \in Slots /\ 0 \in Batches /\ 0 \in PcIds
    BY CountAssumption, BoundAssumption DEF Slots, Batches, PcIds
  <2>2. tracker \in Tracking
    BY <1>3 DEF Init, Tracking
  <2>3. <<>> \in Seq(Buffers) /\ <<>> \in Seq(Batches \X PcIds)
    OBVIOUS
  <2>. QED  BY <1>3, <2>1, <2>2, <2>3 DEF Init, TypeOK
<1>. QED  BY <1>2, <1>3 DEF TypeInv

\* A bit stored in a tracker leaves a tracker.
LEMMA StoreBitType ==
  ASSUME tracker \in Tracking, NEW w \in Tracking, NEW i \in Slots,
         NEW b \in BOOLEAN
  PROVE  StoreBit(w, i, b) \in Tracking
PROOF
<1>1. ASSUME NEW j \in Slots
      PROVE  (IF j = i THEN b ELSE IF j \div WordBits = i \div WordBits
                                  THEN w[j] ELSE tracker[j]) \in BOOLEAN
  BY <1>1 DEF Tracking
<1>. QED  BY <1>1 DEF StoreBit, Tracking

\* Only mishaps are noted, and what was noted stays.
LEMMA NoteLemma ==
  ASSUME mishaps \subseteq Mishaps, NEW m \in Mishaps, NEW b \in BOOLEAN,
         Note(m, b)
  PROVE  /\ mishaps' \subseteq Mishaps /\ mishaps \subseteq mishaps'
         /\ b => m \in mishaps'
PROOF BY DEF Note

\* Nothing is ever taken back.
LEMMA MishapsStay == [Next]_vars => mishaps \subseteq mishaps'
PROOF BY DEF Next, Collect, Lock, Spin, LeaveSpin, Claim, Fill, Push, ConfPush,
             SetActive, Copier, ReadStarted, LockQueue, CopyFront, FreeSlot,
             EndDrain, Request, StartSampling, SpawnCopier, StopSampling,
             JoinCopier, vars, Note

\* Every step keeps the types.
LEMMA TypeStep == TypeInv /\ [Next]_vars => TypeInv'
PROOF
<1> SUFFICES ASSUME TypeInv, [Next]_vars PROVE TypeInv'
  OBVIOUS
<1> USE CountAssumption, BoundAssumption
    DEF TypeInv, TypeOK, BatchBound, Buffers, Batches, PcIds
<1>0. ASSUME Due' = Due, batches' = batches PROVE BatchBound'
  BY <1>0
<1>c. /\ Cardinality(Due) \in Nat
      /\ \A c \in Collectors :
           /\ c \notin Due => Cardinality(Due \cup {c}) = Cardinality(Due) + 1
           /\ c \in Due => Cardinality(Due \ {c}) = Cardinality(Due) - 1
  <2>1. Due \in SUBSET Collectors
    BY DEF Due
  <2>2. Cardinality(Due) \in Nat
    BY <2>1, CollectorsAssumption, FS_Subset, FS_CardinalityType
  <2>. QED  BY <2>1, <2>2, CollectorSets
<1>1. ASSUME NEW c \in Collectors, Lock(c) PROVE TypeInv'
  <2>1. Due' = Due \cup {c} /\ c \notin Due
    BY <1>1 DEF Lock, Due
  <2>2. Cardinality(Due') = Cardinality(Due) + 1
    BY <2>1, <1>c
  <2>3. BatchBound'
    BY <1>1, <1>c, <2>2 DEF Lock, bufVars
  <2>. QED  BY <1>1, <2>3 DEF Lock, ringVars, bufVars, copyVars
<1>2. ASSUME NEW c \in Collectors, Spin(c) PROVE TypeInv'
  BY <1>2 DEF Spin, Due, bufVars, colVars, copyVars
<1>3. ASSUME NEW c \in Collectors, LeaveSpin(c) PROVE TypeInv'
  <2>1. Due' = Due
    BY <1>3 DEF LeaveSpin, Due
  <2>. QED  BY <1>3, <2>1 DEF LeaveSpin, ringVars, bufVars, copyVars
<1>4. ASSUME NEW c \in Collectors, Claim(c) PROVE TypeInv'
  <2>1. Due' = Due
    BY <1>4 DEF Claim, Due
  <2>2. tracker' \in Tracking
    BY <1>4, StoreBitType DEF Claim
  <2>3. mishaps' \subseteq Mishaps
    BY <1>4, NoteLemma DEF Claim, Mishaps
  <2>. QED
    BY <1>4, <2>1, <2>2, <2>3, NextSlotLemma DEF Claim, bufVars, copyVars
<1>5. ASSUME NEW c \in Collectors, Fill(c) PROVE TypeInv'
  <2>1. Due' = Due \ {c} /\ c \in Due
    BY <1>5 DEF Fill, Due
  <2>2. Cardinality(Due') = Cardinality(Due) - 1 /\ Cardinality(Due') \in Nat
    BY <2>1, <1>c, CollectorSets DEF Due
  <2>3. batches + 1 =< MaxBatches
    BY <2>2, <1>c
  <2>4. batches' = batches + 1 /\ batches' \in Batches
    BY <1>5, <2>3 DEF Fill
  <2>5. BatchBound'
    BY <2>2, <2>4, <1>c
  <2>6. data' \in [Buffers -> Batches]
    BY <1>5, <2>4 DEF Fill
  <2>7. pc' \in [Collectors -> {"idle", "spin", "claim", "fill", "push"}]
    BY <1>5 DEF Fill
  <2>. QED  BY <1>5, <2>4, <2>5, <2>6, <2>7 DEF Fill, ringVars, copyVars
<1>6. ASSUME NEW c \in Collectors, Push(c) PROVE TypeInv'
  <2>1. Due' = Due
    BY <1>6 DEF Push, Due
  <2>2. slot[c] \in Buffers
    BY <1>6
  <2>3. mishaps' \subseteq Mishaps
    <3>1. Note("overtaken", Overtakes(c)) /\ Overtakes(c) \in BOOLEAN
      BY <1>6 DEF Push, Overtakes
    <3>. QED  BY <3>1, NoteLemma DEF Mishaps
  <2>. QED  BY <1>6, <2>1, <2>2, <2>3 DEF Push, Enqueue, ringVars, copyVars
<1>7. ASSUME NEW c \in Collectors, NEW x \in Contexts, ConfPush(c, x)
      PROVE  TypeInv'
  <2>1. Due' = Due
    BY <1>7 DEF ConfPush, Due, colVars
  <2>2. batches' = batches + 1 /\ batches' \in Batches
    BY <1>7, <1>c DEF ConfPush
  <2>3. BatchBound'
    BY <1>7, <1>c, <2>1, <2>2 DEF ConfPush
  <2>4. queue' \in Seq(Buffers) /\ owed' \in Nat
    BY <1>7 DEF ConfPush, Enqueue
  <2>5. data' \in [Buffers -> Batches] /\ live' \subseteq Contexts
    BY <1>7, <2>2 DEF ConfPush
  <2>6. mishaps' \subseteq Mishaps
    BY <1>7, NoteLemma DEF ConfPush, Mishaps
  <2>. QED  BY <1>7, <2>2, <2>3, <2>4, <2>5, <2>6
            DEF ConfPush, ringVars, colVars, copyVars
<1>8. ASSUME NEW p \in PcIds, SetActive(p) PROVE TypeInv'
  BY <1>8 DEF SetActive, Due, ringVars, bufVars, colVars, copyVars
<1>9. CASE ReadStarted
  BY <1>9 DEF ReadStarted, Due, ringVars, bufVars, colVars
<1>10. CASE LockQueue
  BY <1>10 DEF LockQueue, Due, ringVars, bufVars, colVars
<1>11. CASE CopyFront
  <2>1. Head(queue) \in Buffers /\ Tail(queue) \in Seq(Buffers)
    BY <1>11 DEF CopyFront
  <2>2. <<data[Head(queue)], parent[Head(queue)]>> \in Batches \X PcIds
    BY <2>1
  <2>3. reply' \in Seq(Batches \X PcIds) /\ owed' \in Nat
    BY <1>11, <2>2 DEF CopyFront
  <2>4. Due' = Due /\ batches' = batches
    BY <1>11 DEF CopyFront, Due, bufVars, colVars
  <2>. QED  BY <1>11, <2>1, <2>3, <2>4 DEF CopyFront, ringVars, bufVars, colVars
<1>12. CASE FreeSlot
  <2>1. tracker' \in Tracking
    BY <1>12, StoreBitType DEF FreeSlot
  <2>2. mishaps' \subseteq Mishaps
    BY <1>12, NoteLemma DEF FreeSlot, Mishaps
  <2>. QED
    BY <1>12, <2>1, <2>2, NextSlotLemma DEF FreeSlot, Due, bufVars, colVars
<1>13. CASE EndDrain
  BY <1>13 DEF EndDrain, Due, ringVars, bufVars, colVars
<1>14. CASE Request
  BY <1>14 DEF Request, StartSampling, SpawnCopier, StopSampling, JoinCopier,
               Due, ringVars, bufVars, colVars, copyVars
<1>15. CASE UNCHANGED vars
  BY <1>15 DEF vars, Due, ringVars, bufVars, colVars, copyVars
<1>. QED
  BY <1>1, <1>2, <1>3, <1>4, <1>5, <1>6, <1>7, <1>8, <1>9, <1>10, <1>11,
     <1>12, <1>13, <1>14, <1>15 DEF Next, Collect, Copier

\* Every reachable state has the types: no index leaves the ring, and no
\* buffer is queued that is neither a slot nor a configuration buffer.
THEOREM TypeCorrect == Spec => []TypeOK
PROOF
<1>1. TypeInv => TypeOK
  BY DEF TypeInv
<1>. QED  BY <1>1, TypeInit, TypeStep, PTL DEF Spec

-----------------------------------------------------------------------------
(* The request.  Nothing is assumed of the ring here: whatever the slots   *)
(* come to hold, a copy thread that ends leaves nothing it owes.           *)

RequestInv ==
  /\ owed =< Len(queue)
  /\ started <=> rpc \in {"waiting", "sleeping"}
  /\ rpc \in {"idle", "waiting"} => cpc = "none"
  /\ rpc = "sleeping" => ~toBreak /\ cpc \notin {"none", "done"}
  /\ cpc = "done" => rpc = "joining" /\ owed = 0

LEMMA RequestInit == Init => RequestInv
PROOF BY DEF Init, RequestInv

LEMMA RequestStep == TypeInv /\ RequestInv /\ [Next]_vars => RequestInv'
PROOF
<1> SUFFICES ASSUME TypeInv, RequestInv, [Next]_vars PROVE RequestInv'
  OBVIOUS
<1> USE DEF RequestInv
<1>0. /\ queue \in Seq(Buffers) /\ owed \in Nat
      /\ started \in BOOLEAN /\ toBreak \in BOOLEAN
      /\ rpc \in {"idle", "waiting", "sleeping", "joining"}
      /\ cpc \in {"none", "check", "lock", "drain", "clear", "done"}
  BY DEF TypeInv, TypeOK
<1>1. ASSUME NEW b \in Buffers, Enqueue(b), cpc' = cpc,
             UNCHANGED <<started, rpc, toBreak>>
      PROVE  RequestInv'
  <2>1. Len(queue') = Len(queue) + 1
    BY <1>0, <1>1 DEF Enqueue
  <2>2. owed' =< Len(queue')
    BY <1>0, <1>1, <2>1 DEF Enqueue
  <2>. QED  BY <1>0, <1>1, <2>2 DEF Enqueue
<1>2. ASSUME NEW c \in Collectors, Collect(c) PROVE RequestInv'
  <2>1. CASE Push(c)
    <3>1. slot[c] \in Buffers
      BY DEF TypeInv, TypeOK, Buffers
    <3>. QED  BY <1>1, <2>1, <3>1 DEF Push, copyVars
  <2>2. ASSUME NEW x \in Contexts, ConfPush(c, x) PROVE RequestInv'
    <3>1. x \in Buffers
      BY DEF Buffers
    <3>. QED  BY <1>1, <2>2, <3>1 DEF ConfPush, copyVars
  <2>3. CASE Lock(c) \/ Spin(c) \/ LeaveSpin(c) \/ Claim(c) \/ Fill(c)
    <3>1. UNCHANGED <<queue, owed, started, rpc, cpc, toBreak>>
      BY <2>3 DEF Lock, Spin, LeaveSpin, Claim, Fill, copyVars
    <3>. QED  BY <3>1
  <2>. QED  BY <1>2, <2>1, <2>2, <2>3 DEF Collect
<1>3. ASSUME NEW p \in PcIds, SetActive(p) PROVE RequestInv'
  BY <1>3 DEF SetActive, copyVars
<1>4. CASE Copier
  <2>1. CASE ReadStarted
    BY <1>0, <2>1 DEF ReadStarted
  <2>2. CASE LockQueue
    BY <1>0, <2>2 DEF LockQueue
  <2>3. CASE CopyFront
    <3>1. Len(queue') = Len(queue) - 1 /\ Len(queue) > 0
      BY <1>0, <2>3 DEF CopyFront
    <3>2. owed' =< Len(queue')
      BY <1>0, <2>3, <3>1 DEF CopyFront
    <3>. QED  BY <1>0, <2>3, <3>2 DEF CopyFront
  <2>4. CASE FreeSlot
    BY <1>0, <2>4 DEF FreeSlot
  <2>5. CASE EndDrain
    <3>1. owed = 0
      BY <1>0, <2>5 DEF EndDrain
    <3>. QED  BY <1>0, <2>5, <3>1 DEF EndDrain
  <2>. QED  BY <1>4, <2>1, <2>2, <2>3, <2>4, <2>5 DEF Copier
<1>5. CASE Request
  BY <1>0, <1>5
  DEF Request, StartSampling, SpawnCopier, StopSampling, JoinCopier, copyVars
<1>6. CASE UNCHANGED vars
  BY <1>6 DEF vars, copyVars
<1>. QED  BY <1>2, <1>3, <1>4, <1>5, <1>6 DEF Next

\* A request whose copy thread has ended holds every buffer that was queued
\* while its sampling was on: the copy thread reads g_pcSamplingStarted before
\* it drains the queue, never after.
THEOREM ReplyIsComplete == Spec => []ReplyComplete
PROOF
<1>1. RequestInv => ReplyComplete
  BY DEF RequestInv, ReplyComplete
<1>. QED
  BY <1>1, TypeInit, TypeStep, RequestInit, RequestStep, PTL DEF Spec

-----------------------------------------------------------------------------
(* The ring, for any number of collectors, as long as slots at most        *)
(* overtake each other in the queue.                                       *)

\* g_circularBufferMutex has one holder, and the slot it is about to mark is
\* still free.
Holders == At("spin") \cup At("claim")

MutexInv == /\ \A c, d \in Holders : c = d
            /\ At("claim") # {} => ~tracker[put]

SoundRing == MutexInv /\ InWindow

RingInv == InStep => SoundRing

LEMMA InFlightSize ==
  ASSUME TypeOK
  PROVE  Cardinality(InFlight) \in Nat /\ Len(queue) \in Nat
PROOF
<1>1. InFlight \in SUBSET Collectors
  BY DEF InFlight
<1>2. Len(queue) \in Nat
  BY DEF TypeOK
<1>. QED  BY <1>1, <1>2, CollectorsAssumption, FS_Subset, FS_CardinalityType

\* The distances from g_get number the slots of the ring.
LEMMA AheadLemma ==
  ASSUME get \in Slots
  PROVE  /\ \A i \in Slots : Ahead(i) \in 0 .. circularbufCount - 1
         /\ \A i, j \in Slots : Ahead(i) = Ahead(j) => i = j
         /\ Ahead(get) = 0
PROOF BY CountAssumption DEF Ahead, Distance, Slots

\* g_put is the first slot that is not in the window, or g_get when it is full.
LEMMA PutLemma ==
  ASSUME TypeOK, InWindow
  PROVE  /\ Used \in Nat
         /\ Used < circularbufCount => Ahead(put) = Used
         /\ Used = circularbufCount => put = get
         /\ tracker[put] <=> Used = circularbufCount
PROOF
<1>1. Cardinality(InFlight) \in Nat /\ Len(queue) \in Nat
  BY InFlightSize
<1>2. Used \in 0 .. circularbufCount
  BY <1>1, CountAssumption DEF Used, InWindow
<1>3. get \in Slots /\ put \in Slots
  BY DEF TypeOK
<1>4. put = IF get + Used < circularbufCount THEN get + Used
            ELSE get + Used - circularbufCount
  BY <1>2, <1>3, WrapLemma DEF InWindow
<1>5. Used < circularbufCount => Ahead(put) = Used
  BY <1>2, <1>3, <1>4, CountAssumption DEF Ahead, Distance, Slots
<1>6. Used = circularbufCount => put = get
  BY <1>2, <1>3, <1>4, CountAssumption DEF Slots
<1>7. tracker[put] <=> Ahead(put) < Used
  BY <1>3 DEF InWindow
<1>8. Ahead(get) = 0
  BY <1>3, AheadLemma
<1>9. tracker[put] <=> Used = circularbufCount
  BY <1>2, <1>5, <1>6, <1>7, <1>8, CountAssumption
<1>. QED  BY <1>2, <1>5, <1>6, <1>9

\* What a step does to the number of used slots says what it does to the
\* window, when tracker, get and put are left alone.
LEMMA WindowFrame ==
  ASSUME InWindow, Used' = Used, UNCHANGED <<put, get, tracker>>
  PROVE  InWindow'
PROOF BY DEF InWindow, Ahead, Distance

LEMMA SoundInit == Init => SoundRing
PROOF
<1> SUFFICES ASSUME Init PROVE SoundRing
  OBVIOUS
<1>1. InFlight = {} /\ Holders = {} /\ At("claim") = {}
  BY DEF Init, InFlight, Holders, At
<1>2. Used = 0
  BY <1>1, FS_EmptySet DEF Init, Used
<1>3. TypeOK
  BY TypeInit DEF TypeInv
<1>4. get + Used = 0 /\ 0 \in Slots /\ 0 \in 0 .. circularbufCount
  BY <1>2, CountAssumption DEF Init, Slots
<1>5. put = (get + Used) % circularbufCount
  BY <1>4, WrapLemma, CountAssumption DEF Init
<1>6. \A i \in Slots : tracker[i] <=> Ahead(i) < Used
  BY <1>2, <1>3, AheadLemma DEF Init, TypeOK
<1>. QED  BY <1>1, <1>2, <1>5, <1>6, CountAssumption DEF SoundRing, MutexInv, InWindow

\* A slot is claimed: the first one behind the window joins it.
LEMMA ClaimKeepsRing ==
  ASSUME InStep', TypeOK, SoundRing, NEW c \in Collectors, Claim(c)
  PROVE  /\ SoundRing'
         /\ Ahead(put) = Used /\ Used' = Used + 1 /\ put \in Slots
PROOF
<1>1. /\ get \in Slots /\ put \in Slots /\ slot[c] \in Slots
      /\ tracker \in Tracking
      /\ pc \in [Collectors -> {"idle", "spin", "claim", "fill", "push"}]
  BY DEF TypeOK
<1>2. ~tracker[put] /\ c \in Holders /\ c \in At("claim")
  BY DEF SoundRing, MutexInv, Claim, At, Holders
<1>3. Used \in Nat /\ Used < circularbufCount /\ Ahead(put) = Used
  <2>1. InWindow /\ Used =< circularbufCount
    BY DEF SoundRing, InWindow
  <2>. QED  BY <1>2, <2>1, PutLemma, CountAssumption
<1>4. tracker' = [tracker EXCEPT ![put] = TRUE]
  BY DEF Claim, KeepsOthers, Note, InStep
<1>5. Used' = Used + 1
  <2>1. InFlight' = InFlight \cup {c} /\ c \notin InFlight
    BY <1>1 DEF InFlight, Claim
  <2>2. Cardinality(InFlight') = Cardinality(InFlight) + 1
    BY <2>1, CollectorSets DEF InFlight
  <2>3. Cardinality(InFlight) \in Nat /\ Len(queue) \in Nat
    BY InFlightSize
  <2>. QED  BY <2>2, <2>3 DEF Used, Claim, copyVars
<1>6. \A i \in Slots : tracker'[i] <=> Ahead(i) < Used + 1
  <2> TAKE i \in Slots
  <2>1. Ahead(i) \in Nat /\ (Ahead(i) = Ahead(put) <=> i = put)
    BY <1>1, AheadLemma
  <2>2. tracker[i] <=> Ahead(i) < Used
    BY DEF SoundRing, InWindow
  <2>3. i = put => Ahead(i) < Used + 1
    BY <1>3
  <2>4. i # put => (Ahead(i) < Used + 1 <=> Ahead(i) < Used)
    BY <2>1, <1>3
  <2>5. tracker'[i] <=> (i = put \/ tracker[i])
    BY <1>1, <1>4 DEF Tracking
  <2>. QED  BY <2>2, <2>3, <2>4, <2>5
<1>7. put' = (get + (Used + 1)) % circularbufCount
  <2>1. Used \in 0 .. circularbufCount /\ Used + 1 \in 0 .. circularbufCount
    BY <1>3, CountAssumption
  <2>2. put = IF get + Used < circularbufCount THEN get + Used
              ELSE get + Used - circularbufCount
    BY <1>1, <2>1, WrapLemma DEF SoundRing, InWindow
  <2>3. (get + (Used + 1)) % circularbufCount
          = IF get + (Used + 1) < circularbufCount THEN get + (Used + 1)
            ELSE get + (Used + 1) - circularbufCount
    BY <1>1, <2>1, WrapLemma
  <2>4. put' = IF put + 1 = circularbufCount THEN 0 ELSE put + 1
    BY <1>1, NextSlotLemma DEF Claim
  <2>. QED  BY <1>1, <1>3, <2>2, <2>3, <2>4, CountAssumption DEF Slots
<1>8. \A i \in Slots : Ahead(i)' = Ahead(i)
  BY DEF Claim, Ahead, Distance
<1>9. InWindow'
  <2>1. Used' =< circularbufCount
    BY <1>3, <1>5, CountAssumption
  <2>2. \A i \in Slots : tracker'[i] <=> Ahead(i)' < Used'
    BY <1>5, <1>6, <1>8
  <2>3. put' = (get' + Used') % circularbufCount
    BY <1>5, <1>7 DEF Claim
  <2>. QED  BY <2>1, <2>2, <2>3 DEF InWindow
<1>10. MutexInv'
  <2>1. Holders' \subseteq Holders \ {c}
    BY <1>1 DEF Holders, At, Claim
  <2>2. Holders' = {}
    BY <1>2, <2>1 DEF SoundRing, MutexInv
  <2>. QED  BY <2>2 DEF MutexInv, Holders
<1>. QED  BY <1>1, <1>3, <1>5, <1>9, <1>10 DEF SoundRing

\* A slot is freed: the window loses its first one.
LEMMA FreeKeepsRing ==
  ASSUME InStep', TypeOK, SoundRing, FreeSlot
  PROVE  /\ SoundRing'
         /\ Used' = Used - 1
         /\ \A i \in Slots :
              i # get => Distance(get', i) = Distance(get, i) - 1
PROOF
<1>1. /\ get \in Slots /\ put \in Slots /\ tracker \in Tracking
      /\ get' \in Slots
      /\ get' = IF get + 1 = circularbufCount THEN 0 ELSE get + 1
  BY NextSlotLemma DEF TypeOK, FreeSlot
<1>2. tracker' = [tracker EXCEPT ![get] = FALSE]
  BY DEF FreeSlot, KeepsOthers, Note, InStep
<1>3. /\ Used \in 1 .. circularbufCount
      /\ Used' = Used - 1
  <2>1. InFlight' = InFlight
    BY DEF InFlight, FreeSlot, colVars
  <2>2. Cardinality(InFlight) \in Nat /\ Len(queue) \in Nat
    BY InFlightSize
  <2>3. Used = Len(queue) + Cardinality(InFlight) + 1
    BY DEF Used, FreeSlot
  <2>4. Used' = Len(queue) + Cardinality(InFlight)
    BY <2>1, <2>2 DEF Used, FreeSlot
  <2>. QED  BY <2>2, <2>3, <2>4 DEF SoundRing, InWindow
<1>4. \A i \in Slots : Ahead(i)' = IF i = get THEN circularbufCount - 1
                                   ELSE Ahead(i) - 1
  BY <1>1, CountAssumption DEF Ahead, Distance, Slots
<1>5. \A i \in Slots : tracker'[i] <=> Ahead(i)' < Used - 1
  <2> TAKE i \in Slots
  <2>1. Ahead(i) \in Nat
    BY <1>1, AheadLemma
  <2>2. tracker[i] <=> Ahead(i) < Used
    BY DEF SoundRing, InWindow
  <2>3. CASE i = get
    <3>1. ~tracker'[i]
      BY <1>1, <1>2, <2>3 DEF Tracking
    <3>2. ~(Ahead(i)' < Used - 1)
      BY <1>3, <1>4, <2>3, CountAssumption
    <3>. QED  BY <3>1, <3>2
  <2>4. CASE i # get
    <3>1. tracker'[i] = tracker[i]
      BY <1>1, <1>2, <2>4 DEF Tracking
    <3>2. Ahead(i)' < Used - 1 <=> Ahead(i) < Used
      BY <1>3, <1>4, <2>1, <2>4
    <3>. QED  BY <3>1, <3>2, <2>2
  <2>. QED  BY <2>3, <2>4
<1>6. put' = (get' + (Used - 1)) % circularbufCount
  <2>1. Used \in 0 .. circularbufCount /\ Used - 1 \in 0 .. circularbufCount
    BY <1>3, CountAssumption
  <2>2. put = IF get + Used < circularbufCount THEN get + Used
              ELSE get + Used - circularbufCount
    BY <1>1, <2>1, WrapLemma DEF SoundRing, InWindow
  <2>3. (get' + (Used - 1)) % circularbufCount
          = IF get' + (Used - 1) < circularbufCount THEN get' + (Used - 1)
            ELSE get' + (Used - 1) - circularbufCount
    BY <1>1, <2>1, WrapLemma
  <2>4. put' = put
    BY DEF FreeSlot
  <2>. QED  BY <1>1, <1>3, <2>2, <2>3, <2>4, CountAssumption DEF Slots
<1>7. InWindow'
  BY <1>3, <1>5, <1>6, CountAssumption DEF InWindow
<1>8. MutexInv'
  <2>1. UNCHANGED <<put, pc>>
    BY DEF FreeSlot, colVars
  <2>2. ~tracker[put] => ~tracker'[put]
    BY <1>1, <1>2 DEF Tracking
  <2>. QED  BY <2>1, <2>2 DEF SoundRing, MutexInv, Holders, At
<1>. QED  BY <1>3, <1>4, <1>7, <1>8 DEF SoundRing, Ahead

\* Every step that queues a slot, if it queues anything, and loses no bit
\* keeps the ring.
LEMMA SoundStep ==
  TypeInv /\ RequestInv /\ SoundRing /\ InStep' /\ [Next]_vars => SoundRing'
PROOF
<1> SUFFICES ASSUME TypeInv, RequestInv, SoundRing, InStep', [Next]_vars
             PROVE  SoundRing'
  OBVIOUS
<1>t. TypeOK /\ pc \in [Collectors -> {"idle", "spin", "claim", "fill", "push"}]
  BY DEF TypeInv, TypeOK
<1>m. ASSUME UNCHANGED <<pc, put, tracker>> PROVE MutexInv'
  BY <1>m DEF SoundRing, MutexInv, Holders, At
<1>w. ASSUME UNCHANGED <<pc, put, get, tracker, queue, cpc>> PROVE SoundRing'
  <2>1. Used' = Used
    BY <1>w DEF Used, InFlight
  <2>2. InWindow'
    BY <1>w, <2>1, WindowFrame DEF SoundRing
  <2>. QED  BY <1>w, <1>m, <2>2 DEF SoundRing
<1>1. ASSUME NEW c \in Collectors, Lock(c) PROVE SoundRing'
  <2>1. Used' = Used
    <3>1. InFlight' = InFlight
      BY <1>1, <1>t DEF Lock, InFlight
    <3>. QED  BY <1>1, <3>1 DEF Lock, Used, copyVars
  <2>2. InWindow'
    BY <1>1, <2>1, WindowFrame DEF Lock, SoundRing, ringVars
  <2>3. Holders = {} /\ Holders' \subseteq {c} /\ At("claim")' = {}
    BY <1>1, <1>t DEF Lock, Holders, At
  <2>. QED  BY <2>2, <2>3 DEF SoundRing, MutexInv
<1>2. ASSUME NEW c \in Collectors, Spin(c) PROVE SoundRing'
  BY <1>2, <1>w DEF Spin, colVars, copyVars
<1>3. ASSUME NEW c \in Collectors, LeaveSpin(c) PROVE SoundRing'
  <2>1. Used' = Used
    <3>1. InFlight' = InFlight
      BY <1>3, <1>t DEF LeaveSpin, InFlight
    <3>. QED  BY <1>3, <3>1 DEF LeaveSpin, Used, copyVars
  <2>2. InWindow'
    BY <1>3, <2>1, WindowFrame DEF LeaveSpin, SoundRing, ringVars
  <2>3. Holders' = Holders
    BY <1>3, <1>t DEF LeaveSpin, Holders, At
  <2>4. ~tracker'[put']
    BY <1>3 DEF LeaveSpin, ringVars
  <2>. QED  BY <2>2, <2>3, <2>4 DEF SoundRing, MutexInv
<1>4. ASSUME NEW c \in Collectors, Claim(c) PROVE SoundRing'
  BY <1>4, <1>t, ClaimKeepsRing
<1>5. ASSUME NEW c \in Collectors, Fill(c) PROVE SoundRing'
  <2>1. Used' = Used
    <3>1. InFlight' = InFlight
      BY <1>5, <1>t DEF Fill, InFlight
    <3>. QED  BY <1>5, <3>1 DEF Fill, Used, copyVars
  <2>2. InWindow'
    BY <1>5, <2>1, WindowFrame DEF Fill, SoundRing, ringVars
  <2>3. Holders' = Holders /\ At("claim")' = At("claim")
    BY <1>5, <1>t DEF Fill, Holders, At
  <2>4. UNCHANGED <<put, tracker>>
    BY <1>5 DEF Fill, ringVars
  <2>. QED  BY <2>2, <2>3, <2>4 DEF SoundRing, MutexInv
<1>6. ASSUME NEW c \in Collectors, Push(c) PROVE SoundRing'
  <2>1. Used' = Used
    <3>1. InFlight' = InFlight \ {c} /\ c \in InFlight
      BY <1>6, <1>t DEF Push, InFlight
    <3>2. Cardinality(InFlight') = Cardinality(InFlight) - 1
      BY <3>1, CollectorSets DEF InFlight
    <3>3. Len(queue') = Len(queue) + 1
      BY <1>6 DEF Push, Enqueue, TypeInv, TypeOK
    <3>4. Cardinality(InFlight) \in Nat /\ Len(queue) \in Nat
      BY <1>t, InFlightSize
    <3>. QED  BY <1>6, <3>2, <3>3, <3>4 DEF Push, Used, copyVars
  <2>2. InWindow'
    BY <1>6, <2>1, WindowFrame DEF Push, SoundRing, ringVars
  <2>3. Holders' = Holders /\ At("claim")' = At("claim")
    BY <1>6, <1>t DEF Push, Holders, At
  <2>4. UNCHANGED <<put, tracker>>
    BY <1>6 DEF Push, ringVars
  <2>. QED  BY <2>2, <2>3, <2>4 DEF SoundRing, MutexInv
<1>7. ASSUME NEW p \in PcIds, SetActive(p) PROVE SoundRing'
  BY <1>7, <1>w DEF SetActive, ringVars, colVars, copyVars
<1>8. CASE CopyFront
  <2>1. Used' = Used
    <3>1. Len(queue') = Len(queue) - 1
      BY <1>8 DEF CopyFront, TypeInv, TypeOK
    <3>2. InFlight' = InFlight
      BY <1>8 DEF CopyFront, InFlight, colVars
    <3>3. Cardinality(InFlight) \in Nat /\ Len(queue) \in Nat
      BY <1>t, InFlightSize
    <3>. QED  BY <1>8, <3>1, <3>2, <3>3 DEF CopyFront, Used
  <2>2. InWindow'
    BY <1>8, <2>1, WindowFrame DEF CopyFront, SoundRing, ringVars
  <2>. QED  BY <1>8, <1>m, <2>2 DEF CopyFront, SoundRing, ringVars, colVars
<1>9. CASE FreeSlot
  BY <1>9, <1>t, FreeKeepsRing
<1>10. CASE ReadStarted \/ LockQueue \/ EndDrain \/ Request
  <2>1. UNCHANGED <<pc, put, get, tracker, queue>>
    BY <1>10 DEF ReadStarted, LockQueue, EndDrain, Request, StartSampling,
                 SpawnCopier, StopSampling, JoinCopier, ringVars, colVars
  <2>2. (cpc' = "clear") <=> (cpc = "clear")
    <3>1. CASE ReadStarted \/ LockQueue \/ EndDrain
      BY <3>1 DEF ReadStarted, LockQueue, EndDrain
    <3>2. CASE SpawnCopier
      BY <3>2 DEF SpawnCopier, RequestInv
    <3>3. CASE StartSampling \/ StopSampling \/ JoinCopier
      BY <3>3 DEF StartSampling, StopSampling, JoinCopier, copyVars
    <3>. QED  BY <1>10, <3>1, <3>2, <3>3 DEF Request
  <2>3. Used' = Used
    BY <2>1, <2>2 DEF Used, InFlight
  <2>4. InWindow'
    BY <2>1, <2>3, WindowFrame DEF SoundRing
  <2>. QED  BY <2>1, <2>4, <1>m DEF SoundRing
<1>11. CASE UNCHANGED vars
  BY <1>11, <1>w DEF vars, ringVars, colVars, copyVars
<1>12. ~ \E c \in Collectors, x \in Contexts : ConfPush(c, x)
  BY DEF ConfPush, Note, InStep
<1>. QED
  BY <1>1, <1>2, <1>3, <1>4, <1>5, <1>6, <1>7, <1>8, <1>9, <1>10, <1>11, <1>12
  DEF Next, Collect, Copier

LEMMA RingInit == Init => RingInv
PROOF BY SoundInit DEF RingInv

LEMMA RingStep == TypeInv /\ RequestInv /\ RingInv /\ [Next]_vars => RingInv'
PROOF
<1> SUFFICES ASSUME TypeInv, RequestInv, RingInv, [Next]_vars, InStep'
             PROVE  SoundRing'
  BY DEF RingInv
<1>1. InStep
  BY MishapsStay DEF InStep
<1>. QED  BY <1>1, SoundStep DEF RingInv

\* However many threads collect, and in whatever order they queue what they
\* claimed, the ring is never overcommitted and g_put is the number of used
\* slots ahead of g_get, until a buffer without a slot is queued or a store to
\* the tracker loses a bit.
THEOREM RingWindow == Spec => []Window
PROOF
<1>1. RingInv => Window
  BY DEF RingInv, SoundRing, Window
<1>. QED
  BY <1>1, TypeInit, TypeStep, RequestInit, RequestStep, RingInit, RingStep,
     PTL DEF Spec

\* Until then the warning that the ring is too small is only raised by a full
\* ring.
THEOREM WarningIsTrue == Spec => SpinOnlyWhenFull
PROOF
<1>1. TypeInv /\ RingInv /\ [Next]_vars
        => (InStep /\ fasterThanStore' /\ ~fasterThanStore
              => Used = circularbufCount)
  <2> SUFFICES ASSUME TypeInv, RingInv, [Next]_vars, InStep,
                      fasterThanStore', ~fasterThanStore
               PROVE  Used = circularbufCount
    OBVIOUS
  <2>1. tracker[put]
    BY DEF Next, Collect, Lock, Spin, LeaveSpin, Claim, Fill, Push, ConfPush,
           SetActive, Copier, ReadStarted, LockQueue, CopyFront, FreeSlot,
           EndDrain, Request, StartSampling, SpawnCopier, StopSampling,
           JoinCopier, vars, ringVars
  <2>2. TypeOK /\ InWindow
    BY DEF TypeInv, RingInv, SoundRing
  <2>. QED  BY <2>1, <2>2, PutLemma
<1>. QED
  BY <1>1, TypeInit, TypeStep, RequestInit, RequestStep, RingInit, RingStep,
     PTL DEF Spec, SpinOnlyWhenFull

-----------------------------------------------------------------------------
(* The order.  Until a mishap the slots, counted from g_get, are: the one   *)
(* being freed, the queued ones in the order of the queue, and the ones     *)
(* that are claimed and not queued, one each.  So slot g_get, which the     *)
(* copy thread frees, is the one it has just copied; and the slot that is   *)
(* queued next, having nobody's before it, is the first behind the queue.   *)

Freeing == IF cpc = "clear" THEN 1 ELSE 0

\* The first place behind the queue.
Behind == Len(queue) + Freeing

OrderInv ==
  /\ \A k \in DOMAIN queue :
       queue[k] \in Slots /\ Ahead(queue[k]) = k - 1 + Freeing
  /\ \A c \in InFlight : Ahead(slot[c]) >= Behind /\ Ahead(slot[c]) < Used
  /\ \A c, d \in InFlight : slot[c] = slot[d] => c = d
  /\ \A j \in Behind .. Used - 1 : \E c \in InFlight : Ahead(slot[c]) = j

CalmInv == mishaps = {} => OrderInv

\* With nothing claimed and nothing queued there is nothing to order.
LEMMA OrderInit == Init => OrderInv
PROOF
<1> SUFFICES ASSUME Init PROVE OrderInv
  OBVIOUS
<1>1. InFlight = {} /\ queue = <<>> /\ Freeing = 0
  BY DEF Init, InFlight, Freeing
<1>2. Cardinality(InFlight) = 0
  BY <1>1, FS_EmptySet
<1>3. Behind = 0 /\ Used = 0
  BY <1>1, <1>2 DEF Init, Behind, Used
<1>. QED  BY <1>1, <1>3 DEF OrderInv

\* Nothing that the order speaks of changes.
LEMMA OrderFrame ==
  ASSUME OrderInv, InFlight' = InFlight, UNCHANGED <<slot, queue, get>>,
         (cpc' = "clear") <=> (cpc = "clear")
  PROVE  OrderInv'
PROOF
<1>1. Used' = Used /\ Freeing' = Freeing
  BY DEF Used, Freeing
<1>2. Behind' = Behind
  BY <1>1 DEF Behind
<1>. QED  BY <1>1, <1>2 DEF OrderInv, Ahead, Distance

\* A slot is claimed: the place at the end of the window is its.
LEMMA ClaimKeepsOrder ==
  ASSUME InStep', TypeOK, SoundRing, OrderInv, NEW c \in Collectors, Claim(c)
  PROVE  OrderInv'
PROOF
<1>t. /\ pc \in [Collectors -> {"idle", "spin", "claim", "fill", "push"}]
      /\ slot \in [Collectors -> Slots] /\ queue \in Seq(Buffers)
      /\ Len(queue) \in Nat
  BY DEF TypeOK
<1>1. Ahead(put) = Used /\ Used' = Used + 1 /\ put \in Slots
  BY ClaimKeepsRing
<1>u. Used \in Nat
  BY PutLemma DEF SoundRing
<1>2. /\ UNCHANGED <<queue, get, cpc>> /\ slot' = [slot EXCEPT ![c] = put]
      /\ InFlight' = InFlight \cup {c} /\ c \notin InFlight
  BY <1>t DEF Claim, copyVars, InFlight
<1>3. Freeing' = Freeing /\ Behind' = Behind /\ Freeing \in {0, 1}
  BY <1>2 DEF Freeing, Behind
<1>4. \A i : Ahead(i)' = Ahead(i)
  BY <1>2 DEF Ahead, Distance
<1>5. /\ slot'[c] = put
      /\ \A d \in InFlight : d # c /\ slot'[d] = slot[d] /\ slot[d] # put
  BY <1>t, <1>1, <1>2, <1>u DEF OrderInv, InFlight
<1>6. Behind \in Nat /\ Behind =< Used
  <2>1. Cardinality(InFlight) \in Nat
    BY InFlightSize
  <2>. QED  BY <1>t, <2>1 DEF Behind, Used, Freeing
<1>7. \A k \in DOMAIN queue' :
        queue'[k] \in Slots /\ Distance(get', queue'[k]) = k - 1 + Freeing'
  BY <1>2, <1>3 DEF OrderInv, Ahead
<1>8. ASSUME NEW d \in InFlight'
      PROVE  Distance(get', slot'[d]) >= Behind' /\ Distance(get', slot'[d]) < Used'
  <2>1. CASE d = c
    BY <2>1, <1>1, <1>2, <1>3, <1>5, <1>6, <1>u DEF Ahead
  <2>2. CASE d # c
    <3>1. d \in InFlight /\ slot'[d] = slot[d]
      BY <2>2, <1>2, <1>5
    <3>2. Ahead(slot[d]) >= Behind /\ Ahead(slot[d]) < Used
      BY <3>1 DEF OrderInv
    <3>3. Ahead(slot[d]) \in Int
      BY <3>1, <1>t, AheadLemma DEF InFlight, TypeOK
    <3>. QED  BY <3>1, <3>2, <3>3, <1>1, <1>2, <1>3, <1>u DEF Ahead
  <2>. QED  BY <2>1, <2>2
<1>9. \A d, e \in InFlight' : slot'[d] = slot'[e] => d = e
  BY <1>2, <1>5 DEF OrderInv
<1>10. ASSUME NEW j \in Behind' .. Used' - 1
       PROVE  \E d \in InFlight' : Distance(get', slot'[d]) = j
  <2>1. CASE j = Used
    BY <2>1, <1>1, <1>2, <1>5 DEF Ahead
  <2>2. CASE j # Used
    <3>1. j \in Behind .. Used - 1
      BY <2>2, <1>1, <1>3, <1>6, <1>u
    <3>2. PICK d \in InFlight : Ahead(slot[d]) = j
      BY <3>1 DEF OrderInv
    <3>. QED  BY <3>2, <1>2, <1>5 DEF Ahead
  <2>. QED  BY <2>1, <2>2
<1>. QED  BY <1>7, <1>8, <1>9, <1>10 DEF OrderInv, Ahead

\* The first claimed slot is queued: its place is the first behind the queue.
LEMMA PushKeepsOrder ==
  ASSUME TypeOK, InWindow, OrderInv, NEW c \in Collectors, Push(c), ~Overtakes(c)
  PROVE  OrderInv'
PROOF
<1>t. /\ pc \in [Collectors -> {"idle", "spin", "claim", "fill", "push"}]
      /\ slot \in [Collectors -> Slots] /\ queue \in Seq(Buffers)
      /\ Len(queue) \in Nat /\ get \in Slots
  BY DEF TypeOK
<1>u. Used \in Nat
  BY PutLemma
<1>1. /\ queue' = Append(queue, slot[c]) /\ UNCHANGED <<slot, get, cpc>>
      /\ InFlight' = InFlight \ {c} /\ c \in InFlight
  BY <1>t DEF Push, Enqueue, ringVars, copyVars, InFlight
<1>2. Freeing' = Freeing /\ Freeing \in {0, 1} /\ Behind \in Nat
      /\ Behind' = Behind + 1
  BY <1>t, <1>1 DEF Freeing, Behind
<1>3. \A i : Ahead(i)' = Ahead(i)
  BY <1>1 DEF Ahead, Distance
<1>4. \A d \in InFlight : slot[d] \in Slots /\ Ahead(slot[d]) \in Int
  BY <1>t, AheadLemma DEF InFlight
<1>5. Used' = Used
  <2>1. Cardinality(InFlight') = Cardinality(InFlight) - 1
    BY <1>1, CollectorSets DEF InFlight
  <2>2. Cardinality(InFlight) \in Nat
    BY InFlightSize
  <2>. QED  BY <1>1, <1>t, <2>1, <2>2 DEF Used
<1>6. Ahead(slot[c]) = Behind
  <2>1. Ahead(slot[c]) >= Behind /\ Ahead(slot[c]) < Used
    BY <1>1 DEF OrderInv
  <2>2. Behind \in Behind .. Used - 1
    BY <2>1, <1>1, <1>2, <1>4, <1>u
  <2>3. PICK d \in InFlight : Ahead(slot[d]) = Behind
    BY <2>2 DEF OrderInv
  <2>4. ~(Ahead(slot[d]) < Ahead(slot[c]))
    BY <2>3 DEF Overtakes
  <2>. QED  BY <2>1, <2>3, <2>4, <1>1, <1>2, <1>4
<1>7. \A d \in InFlight' : Ahead(slot[d]) # Behind
  BY <1>1, <1>4, <1>6, <1>t, AheadLemma DEF OrderInv
<1>8. ASSUME NEW k \in DOMAIN queue'
      PROVE  queue'[k] \in Slots /\ Ahead(queue'[k]) = k - 1 + Freeing
  <2>1. k \in 1 .. Len(queue) + 1
    BY <1>1, <1>t
  <2>2. CASE k = Len(queue) + 1
    BY <2>2, <1>1, <1>2, <1>4, <1>6, <1>t DEF Behind
  <2>3. CASE k # Len(queue) + 1
    <3>1. k \in DOMAIN queue /\ queue'[k] = queue[k]
      BY <2>1, <2>3, <1>1, <1>t
    <3>. QED  BY <3>1 DEF OrderInv
  <2>. QED  BY <2>2, <2>3
<1>9. ASSUME NEW d \in InFlight'
      PROVE  Ahead(slot[d]) >= Behind + 1 /\ Ahead(slot[d]) < Used
  BY <1>1, <1>2, <1>4, <1>7 DEF OrderInv
<1>10. ASSUME NEW j \in Behind + 1 .. Used - 1
       PROVE  \E d \in InFlight' : Ahead(slot[d]) = j
  <2>1. j \in Behind .. Used - 1 /\ j # Behind
    BY <1>2, <1>u
  <2>2. PICK d \in InFlight : Ahead(slot[d]) = j
    BY <2>1 DEF OrderInv
  <2>3. d # c
    BY <2>1, <2>2, <1>6
  <2>. QED  BY <2>2, <2>3, <1>1
<1>11. \A d, e \in InFlight' : slot[d] = slot[e] => d = e
  BY <1>1 DEF OrderInv
<1>. QED
  BY <1>1, <1>2, <1>3, <1>5, <1>8, <1>9, <1>10, <1>11 DEF OrderInv, Ahead

\* The front of the queue becomes the slot that is being freed.
LEMMA CopyKeepsOrder ==
  ASSUME TypeOK, OrderInv, CopyFront
  PROVE  OrderInv'
PROOF
<1>t. queue \in Seq(Buffers) /\ Len(queue) \in Nat
  BY DEF TypeOK
<1>1. UNCHANGED <<pc, slot, get>> /\ queue # <<>> /\ queue' = Tail(queue)
  BY DEF CopyFront, ringVars, colVars
<1>2. Freeing = 0 /\ Freeing' = 1 /\ InFlight' = InFlight
  BY <1>1 DEF CopyFront, Freeing, InFlight
<1>3. Len(queue') = Len(queue) - 1
  BY <1>1, <1>t
<1>4. Behind' = Behind
  BY <1>2, <1>3, <1>t DEF Behind
<1>5. Used' = Used
  <2>1. Cardinality(InFlight) \in Nat
    BY InFlightSize
  <2>. QED  BY <1>2, <1>3, <1>t, <2>1 DEF Used, CopyFront
<1>6. ASSUME NEW k \in DOMAIN queue'
      PROVE  queue'[k] \in Slots /\ Ahead(queue'[k]) = k - 1 + Freeing'
  <2>1. k \in Int /\ k + 1 \in DOMAIN queue /\ queue'[k] = queue[k + 1]
    BY <1>1, <1>t
  <2>. QED  BY <2>1, <1>2 DEF OrderInv
<1>. QED  BY <1>1, <1>2, <1>4, <1>5, <1>6 DEF OrderInv, Ahead, Distance

\* The slot that was copied is freed, and all the others are one place nearer.
LEMMA FreeKeepsOrder ==
  ASSUME InStep', TypeOK, SoundRing, OrderInv, FreeSlot
  PROVE  OrderInv'
PROOF
<1>t. /\ queue \in Seq(Buffers) /\ Len(queue) \in Nat /\ get \in Slots
      /\ slot \in [Collectors -> Slots]
  BY DEF TypeOK
<1>1. UNCHANGED <<pc, slot, queue>>
  BY DEF FreeSlot, colVars
<1>2. Freeing = 1 /\ Freeing' = 0 /\ InFlight' = InFlight
  BY <1>1 DEF FreeSlot, Freeing, InFlight
<1>3. /\ Used' = Used - 1 /\ Used \in Nat
      /\ Ahead(get) = 0
      /\ \A i \in Slots : /\ Ahead(i) \in Int
                          /\ i # get => Distance(get', i) = Ahead(i) - 1
  BY <1>t, AheadLemma, PutLemma, FreeKeepsRing DEF Ahead, SoundRing
<1>4. Behind = Len(queue) + 1 /\ Behind' = Behind - 1 /\ Behind \in Nat
  BY <1>1, <1>2, <1>t DEF Behind
<1>5. ASSUME NEW k \in DOMAIN queue'
      PROVE  queue'[k] \in Slots /\ Distance(get', queue'[k]) = k - 1 + Freeing'
  <2>1. k \in DOMAIN queue /\ k \in Nat /\ k >= 1 /\ queue'[k] = queue[k]
    BY <1>1, <1>t
  <2>2. queue[k] \in Slots /\ Ahead(queue[k]) = k
    BY <2>1, <1>2 DEF OrderInv
  <2>. QED  BY <2>1, <2>2, <1>2, <1>3
<1>6. \A d \in InFlight :
        slot[d] \in Slots /\ Distance(get', slot[d]) = Ahead(slot[d]) - 1
  <2> TAKE d \in InFlight
  <2>1. slot[d] \in Slots /\ Ahead(slot[d]) >= Behind
    BY <1>t DEF OrderInv, InFlight
  <2>2. slot[d] # get
    BY <2>1, <1>3, <1>4, <1>t
  <2>. QED  BY <2>1, <2>2, <1>3
<1>7. ASSUME NEW d \in InFlight'
      PROVE  Distance(get', slot[d]) >= Behind' /\ Distance(get', slot[d]) < Used'
  <2>1. d \in InFlight /\ Ahead(slot[d]) >= Behind /\ Ahead(slot[d]) < Used
    BY <1>2 DEF OrderInv
  <2>. QED  BY <2>1, <1>3, <1>4, <1>6
<1>8. ASSUME NEW j \in Behind' .. Used' - 1
      PROVE  \E d \in InFlight' : Distance(get', slot[d]) = j
  <2>1. j + 1 \in Behind .. Used - 1
    BY <1>3, <1>4
  <2>2. PICK d \in InFlight : Ahead(slot[d]) = j + 1
    BY <2>1 DEF OrderInv
  <2>. QED  BY <2>2, <1>2, <1>3, <1>4, <1>6
<1>9. \A d, e \in InFlight' : slot'[d] = slot'[e] => d = e
  BY <1>1, <1>2 DEF OrderInv
<1>. QED  BY <1>1, <1>5, <1>7, <1>8, <1>9 DEF OrderInv, Ahead

\* Every step without a mishap keeps the order.
LEMMA OrderStep ==
  /\ TypeInv /\ RequestInv /\ SoundRing /\ OrderInv
  /\ mishaps' = {} /\ [Next]_vars
  => OrderInv'
PROOF
<1> SUFFICES ASSUME TypeInv, RequestInv, SoundRing, OrderInv, mishaps' = {},
                    [Next]_vars
             PROVE  OrderInv'
  OBVIOUS
<1>t. /\ TypeOK /\ InStep'
      /\ pc \in [Collectors -> {"idle", "spin", "claim", "fill", "push"}]
  BY DEF TypeInv, TypeOK, InStep
<1>1. ASSUME NEW c \in Collectors, Lock(c) \/ Spin(c) \/ LeaveSpin(c) \/ Fill(c)
      PROVE  OrderInv'
  <2>1. UNCHANGED <<slot, queue, get, cpc>>
    BY <1>1 DEF Lock, Spin, LeaveSpin, Fill, ringVars, colVars, copyVars
  <2>2. InFlight' = InFlight
    BY <1>1, <1>t DEF Lock, Spin, LeaveSpin, Fill, InFlight, colVars
  <2>. QED  BY <2>1, <2>2, OrderFrame
<1>2. ASSUME NEW c \in Collectors, Claim(c) PROVE OrderInv'
  BY <1>2, <1>t, ClaimKeepsOrder
<1>3. ASSUME NEW c \in Collectors, Push(c) PROVE OrderInv'
  <2>1. ~Overtakes(c)
    BY <1>3 DEF Push, Note
  <2>. QED  BY <1>3, <1>t, <2>1, PushKeepsOrder DEF SoundRing
<1>4. ASSUME NEW p \in PcIds, SetActive(p) PROVE OrderInv'
  <2>1. UNCHANGED <<pc, slot, queue, get, cpc>>
    BY <1>4 DEF SetActive, ringVars, colVars, copyVars
  <2>. QED  BY <2>1, OrderFrame DEF InFlight
<1>5. CASE CopyFront
  BY <1>5, <1>t, CopyKeepsOrder
<1>6. CASE FreeSlot
  BY <1>6, <1>t, FreeKeepsOrder
<1>7. CASE ReadStarted \/ LockQueue \/ EndDrain \/ Request
  <2>1. UNCHANGED <<pc, slot, get, queue>>
    BY <1>7 DEF ReadStarted, LockQueue, EndDrain, Request, StartSampling,
                 SpawnCopier, StopSampling, JoinCopier, ringVars, colVars
  <2>2. (cpc' = "clear") <=> (cpc = "clear")
    <3>1. CASE ReadStarted \/ LockQueue \/ EndDrain
      BY <3>1 DEF ReadStarted, LockQueue, EndDrain
    <3>2. CASE SpawnCopier
      BY <3>2 DEF SpawnCopier, RequestInv
    <3>3. CASE StartSampling \/ StopSampling \/ JoinCopier
      BY <3>3 DEF StartSampling, StopSampling, JoinCopier, copyVars
    <3>. QED  BY <1>7, <3>1, <3>2, <3>3 DEF Request
  <2>. QED  BY <2>1, <2>2, OrderFrame DEF InFlight
<1>8. CASE UNCHANGED vars
  <2>1. UNCHANGED <<pc, slot, queue, get, cpc>>
    BY <1>8 DEF vars, ringVars, colVars, copyVars
  <2>. QED  BY <2>1, OrderFrame DEF InFlight
<1>9. ~ \E c \in Collectors, x \in Contexts : ConfPush(c, x)
  BY DEF ConfPush, Note
<1>. QED
  BY <1>1, <1>2, <1>3, <1>4, <1>5, <1>6, <1>7, <1>8, <1>9
  DEF Next, Collect, Copier

FullInv == TypeInv /\ RequestInv /\ RingInv /\ CalmInv

LEMMA FullInit == Init => FullInv
PROOF BY TypeInit, RequestInit, RingInit, OrderInit DEF FullInv, CalmInv

LEMMA FullStep == FullInv /\ [Next]_vars => FullInv'
PROOF
<1> SUFFICES ASSUME FullInv, [Next]_vars PROVE FullInv'
  OBVIOUS
<1>1. TypeInv' /\ RequestInv' /\ RingInv'
  BY TypeStep, RequestStep, RingStep DEF FullInv
<1>2. ASSUME mishaps' = {} PROVE OrderInv'
  <2>1. mishaps = {} /\ InStep
    BY <1>2, MishapsStay DEF InStep
  <2>. QED  BY <1>2, <2>1, OrderStep DEF FullInv, CalmInv, RingInv
<1>. QED  BY <1>1, <1>2 DEF FullInv, CalmInv

\* In the window, in order: so every used slot is somebody's, and only one's.
LEMMA InOrder ==
  ASSUME FullInv, mishaps = {}
  PROVE  UsedIsTracked /\ Exclusive
PROOF
<1>o. OrderInv /\ InWindow
  BY DEF FullInv, CalmInv, RingInv, SoundRing, InStep
<1>t. /\ TypeOK /\ get \in Slots /\ queue \in Seq(Buffers)
      /\ Len(queue) \in Nat /\ Freeing \in {0, 1}
      /\ slot \in [Collectors -> Slots]
  BY DEF FullInv, TypeInv, TypeOK, Freeing
<1>q. \A k \in DOMAIN queue :
        /\ k \in 1 .. Len(queue) /\ queue[k] \in Slots
        /\ Ahead(queue[k]) = k - 1 + Freeing
  BY <1>t, <1>o DEF OrderInv
<1>a. \A i \in Slots : Ahead(i) \in Nat
  BY <1>t, AheadLemma
<1>f. \A c \in InFlight : /\ slot[c] \in Slots /\ Ahead(slot[c]) \in Nat
                          /\ Ahead(slot[c]) >= Behind
                          /\ Ahead(slot[c]) < Used
  BY <1>t, <1>o, <1>a DEF OrderInv, InFlight
<1>u. /\ Used \in Nat /\ Behind = Len(queue) + Freeing /\ Behind \in Nat
      /\ Behind =< Used
  <2>1. Cardinality(InFlight) \in Nat
    BY <1>t, InFlightSize
  <2>. QED  BY <1>t, <2>1 DEF Used, Behind, Freeing
<1>1. ASSUME NEW i \in Slots
      PROVE  tracker[i] <=> i \in Needed \cup BeingFreed
  <2>1. /\ Ahead(i) \in Nat
        /\ \A j \in Slots : Ahead(i) = Ahead(j) => i = j
        /\ Ahead(get) = 0
        /\ tracker[i] <=> Ahead(i) < Used
    BY <1>t, <1>o, AheadLemma DEF InWindow
  <2>2. ASSUME Ahead(i) < Used PROVE i \in Needed \cup BeingFreed
    <3>1. CASE Ahead(i) < Freeing
      <4>1. Freeing = 1 /\ i = get
        BY <1>t, <2>1, <3>1
      <4>. QED  BY <4>1 DEF Freeing, BeingFreed
    <3>2. CASE Ahead(i) >= Freeing /\ Ahead(i) < Behind
      <4>1. Ahead(i) - Freeing + 1 \in DOMAIN queue
        BY <1>t, <1>u, <2>1, <3>2
      <4>2. i = queue[Ahead(i) - Freeing + 1]
        BY <1>t, <1>q, <2>1, <4>1
      <4>. QED  BY <4>1, <4>2 DEF Needed
    <3>3. CASE Ahead(i) >= Behind
      <4>1. Ahead(i) \in Behind .. Used - 1
        BY <1>u, <2>1, <2>2, <3>3
      <4>2. PICK c \in InFlight : Ahead(slot[c]) = Ahead(i)
        BY <1>o, <4>1 DEF OrderInv
      <4>3. i = slot[c]
        BY <1>f, <2>1, <4>2
      <4>. QED  BY <4>2, <4>3 DEF Needed
    <3>. QED  BY <1>t, <1>u, <2>1, <3>1, <3>2, <3>3
  <2>3. ASSUME i \in Needed \cup BeingFreed PROVE Ahead(i) < Used
    <3>1. CASE i \in BeingFreed
      BY <1>t, <1>u, <2>1, <3>1 DEF BeingFreed, Freeing
    <3>2. ASSUME NEW k \in DOMAIN queue, i = queue[k] PROVE Ahead(i) < Used
      BY <1>t, <1>q, <1>u, <3>2
    <3>3. ASSUME NEW c \in InFlight, i = slot[c] PROVE Ahead(i) < Used
      BY <1>f, <3>3
    <3>. QED  BY <2>3, <3>1, <3>2, <3>3 DEF Needed
  <2>. QED  BY <2>1, <2>2, <2>3
<1>2. \A c, d \in InFlight : slot[c] = slot[d] => c = d
  BY <1>o DEF OrderInv
<1>3. \A c \in InFlight, k \in DOMAIN queue : slot[c] # queue[k]
  BY <1>t, <1>q, <1>f, <1>u
<1>4. \A k, m \in DOMAIN queue : queue[k] = queue[m] => k = m
  BY <1>t, <1>q
<1>. QED  BY <1>1, <1>2, <1>3, <1>4 DEF UsedIsTracked, Exclusive

\* However many threads collect: as long as no slot overtakes another, only
\* slots are queued and no bit is lost, the tracker says of every slot what
\* gpu_profiler.h says it says.
THEOREM TrackerStaysRight == Spec => []TrackerIsRight
PROOF
<1>1. FullInv => TrackerIsRight
  BY InOrder DEF TrackerIsRight
<1>. QED  BY <1>1, FullInit, FullStep, PTL DEF Spec

\* And no slot is in two hands.
THEOREM SlotsAreExclusive == Spec => []NoSlotShared
PROOF
<1>1. FullInv => NoSlotShared
  BY InOrder DEF NoSlotShared
<1>. QED  BY <1>1, FullInit, FullStep, PTL DEF Spec

-----------------------------------------------------------------------------
(* The ring implements the promise of SampleFifo: Push is Send, CopyFront  *)
(* is Receive, no other step touches a queued buffer, and only a mishap    *)
(* drops the promise.                                                      *)

Chan == [k \in DOMAIN queue |-> Item(queue[k])]

\* What buffers q of batches d and parents p hold is a sequence as long as q.
Contents(d, p, q) == [k \in DOMAIN q |-> <<d[q[k]], p[q[k]]>>]

LEMMA ContentsType ==
  ASSUME NEW d \in [Buffers -> Batches], NEW p \in [Buffers -> PcIds],
         NEW q \in Seq(Buffers)
  PROVE  /\ Contents(d, p, q) \in Seq(Batches \X PcIds)
         /\ Len(Contents(d, p, q)) = Len(q)
PROOF BY DEF Contents

LEMMA ChanType ==
  ASSUME TypeOK, TypeOK'
  PROVE  /\ Chan \in Seq(Batches \X PcIds) /\ Chan' \in Seq(Batches \X PcIds)
         /\ Len(Chan) = Len(queue) /\ Len(Chan') = Len(queue')
PROOF
<1>1. Chan = Contents(data, parent, queue)
  BY DEF Chan, Contents, Item
<1>2. Chan' = Contents(data', parent', queue')
  BY DEF Chan, Contents, Item
<1>3. /\ data \in [Buffers -> Batches] /\ data' \in [Buffers -> Batches]
      /\ parent \in [Buffers -> PcIds] /\ parent' \in [Buffers -> PcIds]
      /\ queue \in Seq(Buffers) /\ queue' \in Seq(Buffers)
  BY DEF TypeOK
<1>. QED  BY <1>1, <1>2, <1>3, ContentsType

\* Sequences as long as each other with the same elements are the same.
LEMMA SameSequence ==
  ASSUME NEW S, NEW s \in Seq(S), NEW t \in Seq(S), Len(s) = Len(t),
         \A k \in 1 .. Len(s) : s[k] = t[k]
  PROVE  s = t
PROOF OBVIOUS

LEMMA FifoStep ==
  ASSUME FullInv, FullInv', [Next]_vars, mishaps' = {}
  PROVE  Fifo!Receive \/ (\E x \in Batches \X PcIds : Fifo!Send(x))
           \/ UNCHANGED <<Chan, reply>>
PROOF
<1>t. /\ TypeOK /\ TypeOK' /\ queue \in Seq(Buffers) /\ Len(queue) \in Nat
      /\ data \in [Buffers -> Batches] /\ parent \in [Buffers -> PcIds]
      /\ slot \in [Collectors -> Slots] /\ activePC \in PcIds
      /\ Slots \subseteq Buffers
  BY DEF FullInv, TypeInv, TypeOK, Buffers
<1>n. Exclusive
  BY MishapsStay, InOrder
<1>0. ASSUME UNCHANGED <<data, parent, queue, reply>>
      PROVE  UNCHANGED <<Chan, reply>>
  BY <1>0 DEF Chan, Item
<1>1. ASSUME NEW c \in Collectors,
             Lock(c) \/ Spin(c) \/ LeaveSpin(c) \/ Claim(c)
      PROVE  UNCHANGED <<Chan, reply>>
  BY <1>0, <1>1 DEF Lock, Spin, LeaveSpin, Claim, bufVars, copyVars
<1>2. ASSUME NEW c \in Collectors, Fill(c)
      PROVE  UNCHANGED <<Chan, reply>>
  <2>1. \A k \in DOMAIN queue : queue[k] # slot[c] /\ queue[k] \in Buffers
    BY <1>2, <1>n, <1>t DEF Exclusive, InFlight, Fill
  <2>2. UNCHANGED <<parent, queue, reply>>
    BY <1>2 DEF Fill, copyVars
  <2>3. \A k \in DOMAIN queue : data'[queue[k]] = data[queue[k]]
    BY <1>2, <1>t, <2>1 DEF Fill
  <2>. QED  BY <2>2, <2>3 DEF Chan, Item
<1>3. ASSUME NEW c \in Collectors, Push(c)
      PROVE  \E x \in Batches \X PcIds : Fifo!Send(x)
  <2>1. /\ queue' = Append(queue, slot[c]) /\ slot[c] \in Buffers
        /\ data' = data /\ parent' = [parent EXCEPT ![slot[c]] = activePC]
        /\ reply' = reply
    BY <1>3, <1>t DEF Push, Enqueue, copyVars
  <2>2. \A k \in DOMAIN queue : queue[k] # slot[c] /\ queue[k] \in Buffers
    BY <1>3, <1>n, <1>t DEF Exclusive, InFlight, Push
  <2> DEFINE x == <<data[slot[c]], activePC>>
  <2>3. x \in Batches \X PcIds
    BY <1>t, <2>1
  <2>4. Chan' = Append(Chan, x)
    <3>1. /\ Chan \in Seq(Batches \X PcIds) /\ Chan' \in Seq(Batches \X PcIds)
          /\ Len(Chan) = Len(queue) /\ Len(Chan') = Len(queue')
      BY <1>t, ChanType
    <3>2. Len(Chan') = Len(Chan) + 1
      BY <1>t, <2>1, <3>1
    <3>3. ASSUME NEW k \in 1 .. Len(Chan) + 1
          PROVE  Chan'[k] = Append(Chan, x)[k]
      <4>1. CASE k = Len(Chan) + 1
        <5>1. k \in DOMAIN queue' /\ queue'[k] = slot[c]
          BY <1>t, <2>1, <3>1, <4>1
        <5>2. Chan'[k] = <<data'[slot[c]], parent'[slot[c]]>>
          BY <5>1 DEF Chan, Item
        <5>. QED  BY <1>t, <2>1, <3>1, <4>1, <5>2
      <4>2. CASE k # Len(Chan) + 1
        <5>1. /\ k \in DOMAIN queue' /\ k \in DOMAIN queue
              /\ queue'[k] = queue[k] /\ k \in 1 .. Len(Chan)
          BY <1>t, <2>1, <3>1, <4>2
        <5>2. Chan'[k] = <<data'[queue[k]], parent'[queue[k]]>>
          BY <5>1 DEF Chan, Item
        <5>3. Chan[k] = <<data[queue[k]], parent[queue[k]]>>
          BY <5>1 DEF Chan, Item
        <5>4. parent'[queue[k]] = parent[queue[k]]
          BY <1>t, <2>1, <2>2, <5>1
        <5>5. Append(Chan, x)[k] = Chan[k]
          BY <2>3, <3>1, <5>1
        <5>. QED  BY <2>1, <5>2, <5>3, <5>4, <5>5
      <4>. QED  BY <4>1, <4>2
    <3>4. Append(Chan, x) \in Seq(Batches \X PcIds)
          /\ Len(Append(Chan, x)) = Len(Chan) + 1
      BY <2>3, <3>1
    <3>. QED  BY <3>1, <3>2, <3>3, <3>4
  <2>. QED  BY <2>1, <2>3, <2>4 DEF Fifo!Send, Chan
<1>4. CASE CopyFront
  <2>1. /\ queue # <<>> /\ queue' = Tail(queue) /\ UNCHANGED <<data, parent>>
        /\ reply' = Append(reply, Item(Head(queue)))
    BY <1>4 DEF CopyFront, bufVars, Item
  <2>2. /\ Chan \in Seq(Batches \X PcIds) /\ Chan' \in Seq(Batches \X PcIds)
        /\ Len(Chan) = Len(queue) /\ Len(Chan') = Len(queue')
    BY <1>t, ChanType
  <2>3. Chan # <<>> /\ Head(Chan) = Item(Head(queue))
    BY <1>t, <2>1, <2>2 DEF Chan
  <2>4. Chan' = Tail(Chan)
    <3>1. Len(Chan') = Len(Chan) - 1 /\ Len(Chan) > 0
      BY <1>t, <2>1, <2>2
    <3>2. ASSUME NEW k \in 1 .. Len(Chan) - 1 PROVE Chan'[k] = Tail(Chan)[k]
      <4>1. /\ k \in DOMAIN queue' /\ k + 1 \in DOMAIN queue
            /\ queue'[k] = queue[k + 1]
        BY <1>t, <2>1, <2>2
      <4>2. Chan'[k] = Item(queue[k + 1])
        BY <2>1, <4>1 DEF Chan, Item
      <4>3. Tail(Chan)[k] = Chan[k + 1]
        BY <2>2, <3>1
      <4>. QED  BY <4>1, <4>2, <4>3 DEF Chan
    <3>3. Tail(Chan) \in Seq(Batches \X PcIds) /\ Len(Tail(Chan)) = Len(Chan) - 1
      BY <2>2, <3>1
    <3>4. Len(Chan') = Len(Tail(Chan)) /\ 1 .. Len(Chan') = 1 .. Len(Chan) - 1
      BY <3>1, <3>3
    <3>. QED  BY <2>2, <3>2, <3>3, <3>4, SameSequence
  <2>5. reply' = Append(reply, Head(Chan))
    BY <2>1, <2>3
  <2>. QED  BY <2>3, <2>4, <2>5 DEF Fifo!Receive, Chan
<1>5. CASE (\E p \in PcIds : SetActive(p)) \/ ReadStarted \/ LockQueue
           \/ FreeSlot \/ EndDrain \/ Request
  <2>1. UNCHANGED <<data, parent, queue, reply>>
    BY <1>5 DEF SetActive, ReadStarted, LockQueue, FreeSlot, EndDrain, Request,
                StartSampling, SpawnCopier, StopSampling, JoinCopier, bufVars,
                copyVars
  <2>. QED  BY <2>1, <1>0
<1>6. CASE UNCHANGED vars
  BY <1>6, <1>0 DEF vars, bufVars, copyVars
<1>7. ~ \E c \in Collectors, x \in Contexts : ConfPush(c, x)
  BY DEF ConfPush, Note
<1>. QED
  BY <1>1, <1>2, <1>3, <1>4, <1>5, <1>6, <1>7
  DEF Next, Collect, Copier

\* Until a mishap every batch reaches the reply once, whole, with its call path
\* and in order; and nothing but a mishap ends that.
THEOREM RingImplementsFifo == Spec => ImplementsFifo
PROOF
<1>1. Init => Fifo!Init
  BY DEF Init, Fifo!Init
<1>2. FullInv /\ FullInv' /\ [Next]_vars => [Fifo!Next]_(Fifo!fifoVars)
  <2> SUFFICES ASSUME FullInv, FullInv', [Next]_vars
               PROVE  [Fifo!Next]_(Fifo!fifoVars)
    OBVIOUS
  <2>1. CASE mishaps' # {}
    BY <2>1 DEF Fifo!Next, Fifo!Drop
  <2>2. CASE mishaps' = {}
    <3>1. mishaps = {}
      BY <2>2, MishapsStay
    <3>2. CASE UNCHANGED <<Chan, reply>>
      BY <2>2, <3>1, <3>2 DEF Fifo!fifoVars, Chan
    <3>3. CASE Fifo!Receive \/ \E x \in Batches \X PcIds : Fifo!Send(x)
      BY <2>2, <3>1, <3>3 DEF Fifo!Next
    <3>4. Fifo!Receive \/ (\E x \in Batches \X PcIds : Fifo!Send(x))
            \/ UNCHANGED <<Chan, reply>>
      BY <2>2, FifoStep
    <3>. QED  BY <3>2, <3>3, <3>4
  <2>. QED  BY <2>1, <2>2
<1>. QED
  BY <1>1, <1>2, FullInit, FullStep, PTL DEF Spec, ImplementsFifo, Fifo!Spec
=============================================================================
