----------------------- MODULE SignalProfiler_proofs ------------------------
(***************************************************************************)
(* Proof that the dumps of SignalProfiler miss nothing, and that they show *)
(* what was collected until a slot is used again: for a ring of any size,  *)
(* and any number of batches and signals.                                  *)
(***************************************************************************)
EXTENDS SignalProfiler, Integers, SequenceTheorems, TLAPS

SignalSpec == SignalInit /\ [][SignalNext]_sigVars

-----------------------------------------------------------------------------
(* The inductive invariant.                                                *)

Threads == {"app", "prof"}

\* Every value is of its type.
SignalTyped ==
  /\ mode \in [noRPC : BOOLEAN, started : BOOLEAN, alive : BOOLEAN]
  /\ prof \in {"none", "start", "collect", "join", "done"}
  /\ copier \in {"none", "look", "drain", "last", "ended"}
  /\ ring \in [put : Slots, get : Slots, used : [Slots -> BOOLEAN],
               data : [Places -> Nat]]
  /\ taken \in [Threads -> [slot : Slots, at : {"out", "fill", "push"}, batch : Nat]]
  /\ vector \in Seq(Places) /\ queue \in Seq(Places) /\ queued \in Seq(Nat)
  /\ dumps \in Seq([owed : Nat, batches : Seq(Nat)])
  /\ batch \in Nat /\ owed \in Nat

\* The slots of what was queued, in that order.
Items == vector \o queue

\* Until a slot is used again, a slot belongs to one thread or to one batch that
\* was queued, and the batch is in it; whatever Drain frees.
ContentInv ==
  /\ Len(Items) = Len(queued) /\ ring.data[Conf] = 0
  /\ batch <= circularbufCount =>
       /\ batch < circularbufCount => ring.put = batch
       /\ \A a \in Threads : taken[a].at # "out" => taken[a].slot < batch
       /\ \A a, b \in Threads :
            a # b /\ taken[a].at # "out" /\ taken[b].at # "out" =>
              taken[a].slot # taken[b].slot
       /\ \A i \in 1 .. Len(Items) :
            /\ Items[i] # Conf => Items[i] < batch
            /\ ring.data[Items[i]] = queued[i]
            /\ \A a \in Threads : taken[a].at # "out" => taken[a].slot # Items[i]

\* The copy thread drains once more after sampling has ended, and sampling does
\* not begin again after that in a process that is alive.
OwedInv ==
  /\ owed <= Len(queued)
  /\ mode.alive =>
       /\ copier \in {"last", "ended"} => ~mode.started
       /\ copier = "ended" => owed <= Len(vector)
       /\ prof = "collect" => mode.started
       /\ mode.noRPC => copier # "none" /\ prof \in {"none", "start"}
       /\ mode.noRPC /\ exit = "none" => mode.started

\* What was dumped is what had been queued first.
DumpInv ==
  \A k \in 1 .. Len(dumps) :
    LET d == dumps[k].batches IN
    /\ dumps[k].owed <= Len(d) /\ Len(d) <= Len(queued)
    /\ batch <= circularbufCount => \A i \in 1 .. Len(d) : d[i] = queued[i]

SignalInv == SignalTyped /\ ContentInv /\ OwedInv /\ DumpInv
-----------------------------------------------------------------------------
(* Types.                                                                  *)

\* A place of the ring.
LEMMA SlotLemma ==
  ASSUME NEW n \in Nat
  PROVE  /\ n % circularbufCount \in Slots /\ 0 \in Slots
         /\ n < circularbufCount => n % circularbufCount = n
BY SignalAssumption DEF Slots

\* A place to collect into is a slot or a configured buffer.
LEMMA PlaceLemma ==
  /\ circularbufCount \in Nat /\ Conf \in Places /\ Conf \notin Slots
  /\ \A p \in Places : p \in Nat /\ (p \in Slots \/ p = Conf)
  /\ \A p \in Slots : p \in Nat /\ p \in Places /\ p < circularbufCount
BY SignalAssumption DEF Places, Slots, Conf

\* Each dump is one.
LEMMA DumpTyped ==
  ASSUME SignalTyped, NEW k \in 1 .. Len(dumps)
  PROVE  dumps[k].owed \in Nat /\ dumps[k].batches \in Seq(Nat)
PROOF
<1>. DEFINE T == [owed : Nat, batches : Seq(Nat)]
<1>1. dumps \in Seq(T)
  BY DEF SignalTyped
<1>. HIDE DEF T
<1>2. dumps[k] \in T
  BY <1>1, ElementOfSeq
<1>. QED  BY <1>2 DEF T

\* A dump has a batch for every slot of the vector, in its order.
LEMMA DumpLemma ==
  ASSUME SignalTyped, DumpPCSamples
  PROVE  \E d \in Seq(Nat) :
           /\ dumps' = Append(dumps, [owed |-> owed, batches |-> d])
           /\ Len(d) = Len(vector)
           /\ \A i \in 1 .. Len(vector) : d[i] = ring.data[vector[i]]
PROOF
<1>. DEFINE d == [i \in DOMAIN vector |-> ring.data[vector[i]]]
<1>1. dumps' = Append(dumps, [owed |-> owed, batches |-> d])
  BY DEF DumpPCSamples
<1>2. PICK n \in Nat : n = Len(vector) /\ DOMAIN vector = 1 .. n
  BY DEF SignalTyped
<1>3. \A i \in 1 .. n : ring.data[vector[i]] \in Nat
  BY <1>2 DEF SignalTyped
<1>4. d \in [1 .. n -> Nat]
  BY <1>2, <1>3
<1>5. \A i \in 1 .. n : d[i] = ring.data[vector[i]]
  BY <1>2
<1>. HIDE DEF d
<1>6. d \in Seq(Nat) /\ Len(d) = n
  BY <1>4
<1>. QED  BY <1>1, <1>2, <1>5, <1>6

\* The initial states.
LEMMA InitTyped ==
  ASSUME SignalInit
  PROVE  SignalTyped
PROOF
<1>1. /\ mode \in [noRPC : BOOLEAN, started : BOOLEAN, alive : BOOLEAN]
      /\ copier \in {"look", "none"}
  BY DEF SignalInit
<1>2. 0 \in Slots
  BY SlotLemma
<1>3. /\ prof = "none"
      /\ ring = [put |-> 0, get |-> 0, used |-> [s \in Slots |-> FALSE],
                 data |-> [s \in Places |-> 0]]
      /\ taken = [a \in {"app", "prof"} |-> Free]
      /\ queue = <<>> /\ vector = <<>> /\ queued = <<>> /\ dumps = <<>>
      /\ batch = 0 /\ owed = 0
  BY DEF SignalInit
<1>4. /\ ring \in [put : Slots, get : Slots, used : [Slots -> BOOLEAN],
                   data : [Places -> Nat]]
      /\ taken \in [Threads -> [slot : Slots, at : {"out", "fill", "push"}, batch : Nat]]
  BY <1>2, <1>3, PlaceLemma DEF Free, Threads
<1>5. /\ vector \in Seq(Places) /\ queue \in Seq(Places) /\ queued \in Seq(Nat)
      /\ dumps \in Seq([owed : Nat, batches : Seq(Nat)])
  BY <1>3
<1>. QED  BY <1>1, <1>3, <1>4, <1>5 DEF SignalTyped

\* Every step keeps the types.
LEMMA TypedStep ==
  ASSUME SignalTyped, [SignalNext]_sigVars
  PROVE  SignalTyped'
PROOF
<1>. USE DEF SignalTyped
<1>0. circularbufCount \in Nat /\ Len(queued) \in Nat
  BY SignalAssumption
<1>1. CASE UNCHANGED sigVars
  BY <1>1 DEF sigVars
<1>2. ASSUME NEW a \in Threads, TakeSlot(a)
      PROVE  SignalTyped'
  <2>1. ring.put \in Slots /\ (ring.put + 1) % circularbufCount \in Slots
    <3>1. ring.put \in Slots /\ ring.put + 1 \in Nat
      BY <1>0 DEF Slots
    <3>. QED  BY <3>1, SlotLemma
  <2>2. ring' = [ring EXCEPT !.used[ring.put] = TRUE,
                             !.put = (@ + 1) % circularbufCount]
    BY <1>2 DEF TakeSlot
  <2>3. ring' \in [put : Slots, get : Slots, used : [Slots -> BOOLEAN],
                   data : [Places -> Nat]]
    BY <2>1, <2>2
  <2>4. /\ taken' \in [Threads -> [slot : Slots, at : {"out", "fill", "push"}, batch : Nat]]
        /\ batch' \in Nat
    BY <1>2, <2>1 DEF TakeSlot
  <2>. QED  BY <1>2, <2>3, <2>4 DEF TakeSlot
<1>3. ASSUME NEW a \in Threads, FillSlot(a)
      PROVE  SignalTyped'
  <2>1. taken[a].slot \in Slots /\ taken[a].batch \in Nat
    OBVIOUS
  <2>2. ring' \in [put : Slots, get : Slots, used : [Slots -> BOOLEAN],
                   data : [Places -> Nat]]
    BY <1>3, <2>1 DEF FillSlot
  <2>3. taken' \in [Threads -> [slot : Slots, at : {"out", "fill", "push"}, batch : Nat]]
    BY <1>3 DEF FillSlot
  <2>. QED  BY <1>3, <2>2, <2>3 DEF FillSlot
<1>4. ASSUME NEW a \in Threads, PushSlot(a)
      PROVE  SignalTyped'
  <2>1. queue' \in Seq(Places)
    <3>1. taken[a].slot \in Places
      BY PlaceLemma
    <3>. QED  BY <1>4, <3>1, AppendProperties DEF PushSlot
  <2>2. queued' \in Seq(Nat)
    <3>1. ring.data[taken[a].slot] \in Nat
      BY PlaceLemma
    <3>. QED  BY <1>4, <3>1, AppendProperties DEF PushSlot
  <2>3. taken' \in [Threads -> [slot : Slots, at : {"out", "fill", "push"}, batch : Nat]]
    BY <1>4, SlotLemma DEF PushSlot, Free
  <2>. QED  BY <1>4, <2>1, <2>2, <2>3 DEF PushSlot
<1>15. ASSUME NEW a \in Threads, PushConf(a)
       PROVE  SignalTyped'
  <2>1. ring.data[Conf] \in Nat
    BY PlaceLemma
  <2>2. queue' \in Seq(Places) /\ queued' \in Seq(Nat)
    BY <1>15, <2>1, PlaceLemma, AppendProperties DEF PushConf
  <2>. QED  BY <1>15, <2>2 DEF PushConf
<1>5. CASE Look
  BY <1>5 DEF Look
<1>6. CASE Drain
  <2>1. vector' = vector \o queue /\ queue' = <<>> /\ ring' = Drained
    BY <1>6 DEF Drain
  <2>2. vector' \in Seq(Places) /\ queue' \in Seq(Places)
    BY <2>1, ConcatProperties
  <2>3. ring' \in [put : Slots, get : Slots, used : [Slots -> BOOLEAN],
                   data : [Places -> Nat]]
    <3>1. PICK n \in Nat : n = Len(queue)
      OBVIOUS
    <3>. DEFINE freed == {(ring.get + k) % circularbufCount : k \in 0 .. n - 1}
    <3>2. ring' = [ring EXCEPT !.get = (@ + n) % circularbufCount,
                               !.used = [s \in Slots |-> @[s] /\ s \notin freed]]
      BY <2>1, <3>1 DEF Drained
    <3>. HIDE DEF freed
    <3>3. (ring.get + n) % circularbufCount \in Slots
      <4>1. ring.get + n \in Nat
        BY <1>0 DEF Slots
      <4>. QED  BY <4>1, SlotLemma
    <3>. QED  BY <3>2, <3>3
  <2>4. copier' \in {"none", "look", "drain", "last", "ended"}
    BY <1>6 DEF Drain
  <2>. QED  BY <1>6, <2>2, <2>3, <2>4 DEF Drain
<1>7. CASE Signal
  BY <1>7 DEF Signal
<1>8. CASE StartSampling
  BY <1>8 DEF StartSampling
<1>9. CASE StopSampling
  BY <1>0, <1>9 DEF StopSampling
<1>10. ASSUME DumpPCSamples, UNCHANGED <<mode, copier, ring, taken, queue, vector,
                                         batch, queued, owed>>,
              prof' \in {"none", "start", "collect", "join", "done"}
       PROVE  SignalTyped'
  <2>1. PICK d \in Seq(Nat) : dumps' = Append(dumps, [owed |-> owed, batches |-> d])
    BY <1>10, DumpLemma
  <2>2. dumps' \in Seq([owed : Nat, batches : Seq(Nat)])
    <3>1. [owed |-> owed, batches |-> d] \in [owed : Nat, batches : Seq(Nat)]
      OBVIOUS
    <3>. QED  BY <2>1, <3>1, AppendProperties
  <2>. QED  BY <1>10, <2>2
<1>11. CASE JoinAndDump
  BY <1>10, <1>11 DEF JoinAndDump
<1>12. CASE ExitStops
  BY <1>0, <1>12 DEF ExitStops
<1>13. CASE ExitWaits
  BY <1>13 DEF ExitWaits
<1>14. CASE ExitDumps
  <2>1. CASE mode.noRPC
    BY <1>10, <1>14, <2>1 DEF ExitDumps
  <2>2. CASE ~mode.noRPC
    BY <1>14, <2>2 DEF ExitDumps
  <2>. QED  BY <2>1, <2>2
<1>. QED  BY <1>1, <1>2, <1>3, <1>4, <1>5, <1>6, <1>7, <1>8, <1>9, <1>11, <1>12,
             <1>13, <1>14, <1>15
          DEF SignalNext, Collector, Profiling, Exit, Threads
-----------------------------------------------------------------------------
(* What was queued, and what a dump has to have of it.                     *)

\* The lengths are numbers.
LEMMA Lengths ==
  ASSUME SignalTyped
  PROVE  /\ Items \in Seq(Places) /\ Len(Items) = Len(vector) + Len(queue)
         /\ Len(vector) \in Nat /\ Len(queue) \in Nat /\ Len(queued) \in Nat
         /\ \A i \in 1 .. Len(vector) : i \in 1 .. Len(Items) /\ Items[i] = vector[i]
PROOF
<1>1. vector \in Seq(Places) /\ queue \in Seq(Places) /\ queued \in Seq(Nat)
  BY DEF SignalTyped
<1>2. PICK m \in Nat, n \in Nat : m = Len(vector) /\ n = Len(queue)
  BY <1>1
<1>3. /\ Items \in Seq(Places) /\ Len(Items) = m + n
      /\ \A i \in 1 .. m + n : Items[i] = IF i <= m THEN vector[i] ELSE queue[i - m]
  BY <1>1, <1>2, ConcatProperties DEF Items
<1>4. \A i \in 1 .. m : i \in 1 .. m + n /\ Items[i] = vector[i]
  BY <1>3
<1>5. Len(queued) \in Nat
  BY <1>1
<1>. QED  BY <1>2, <1>3, <1>4, <1>5

\* What was queued stays, and more may come to its end.
LEMMA QueuedGrows ==
  ASSUME SignalTyped, [SignalNext]_sigVars
  PROVE  /\ Len(queued) <= Len(queued') /\ Len(queued') \in Nat
         /\ \A i \in 1 .. Len(queued) : queued'[i] = queued[i]
         /\ batch <= batch' /\ batch \in Nat /\ batch' \in Nat
PROOF
<1>0. Len(queued) \in Nat /\ batch \in Nat /\ queued \in Seq(Nat)
  BY DEF SignalTyped
<1>1. ASSUME NEW a \in Threads, TakeSlot(a)
      PROVE  queued' = queued /\ batch' = batch + 1
  BY <1>1 DEF TakeSlot
<1>2. ASSUME NEW a \in Threads, PushSlot(a)
      PROVE  /\ Len(queued') = Len(queued) + 1 /\ batch' = batch
             /\ \A i \in 1 .. Len(queued) : queued'[i] = queued[i]
  <2>1. ring.data[taken[a].slot] \in Nat
    BY PlaceLemma DEF SignalTyped
  <2>. QED  BY <1>0, <1>2, <2>1, AppendProperties DEF PushSlot
<1>4. ASSUME NEW a \in Threads, PushConf(a)
      PROVE  /\ Len(queued') = Len(queued) + 1 /\ batch' = batch
             /\ \A i \in 1 .. Len(queued) : queued'[i] = queued[i]
  <2>1. ring.data[Conf] \in Nat
    BY PlaceLemma DEF SignalTyped
  <2>. QED  BY <1>0, <1>4, <2>1, AppendProperties DEF PushConf
<1>3. \/ UNCHANGED <<queued, batch>>
      \/ \E a \in Threads : TakeSlot(a) \/ PushSlot(a) \/ PushConf(a)
  BY DEF SignalNext, Collector, Profiling, Exit, Threads, FillSlot, Look, Drain, Signal,
         StartSampling, StopSampling, JoinAndDump, ExitStops, ExitWaits, ExitDumps, sigVars
<1>. QED  BY <1>0, <1>1, <1>2, <1>3, <1>4

\* Every step keeps the invariant of what is owed.
LEMMA OwedStep ==
  ASSUME SignalTyped, ContentInv, OwedInv, [SignalNext]_sigVars
  PROVE  OwedInv'
PROOF
<1>. USE DEF OwedInv
<1>0. /\ Len(vector) \in Nat /\ Len(queue) \in Nat /\ Len(queued) \in Nat /\ owed \in Nat
      /\ Len(queued) = Len(vector) + Len(queue)
      /\ mode \in [noRPC : BOOLEAN, started : BOOLEAN, alive : BOOLEAN]
  BY Lengths DEF SignalTyped, ContentInv
<1>1. CASE UNCHANGED sigVars
  BY <1>1 DEF sigVars
<1>2. CASE Collector
  <2>1. UNCHANGED <<mode, prof, copier, exit, vector, owed>>
    BY <1>2 DEF Collector, TakeSlot, FillSlot, PushSlot, PushConf
  <2>2. owed <= Len(queued')
    <3>1. Len(queued) <= Len(queued') /\ Len(queued') \in Nat
      BY QueuedGrows
    <3>. QED  BY <1>0, <3>1
  <2>. QED  BY <2>1, <2>2
<1>3. CASE Look
  BY <1>3 DEF Look
<1>4. CASE Drain
  <2>1. UNCHANGED <<mode, prof, exit, owed, queued>> /\ vector' = Items
    BY <1>4 DEF Drain, Items
  <2>2. Len(vector') = Len(queued)
    BY <2>1 DEF ContentInv
  <2>3. /\ copier \in {"drain", "last"}
        /\ copier' = IF copier = "last" THEN "ended" ELSE "look"
    BY <1>4 DEF Drain
  <2>. QED  BY <2>1, <2>2, <2>3
<1>5. CASE Signal
  BY <1>5 DEF Signal
<1>6. CASE StartSampling /\ mode.alive
  <2>1. /\ prof = "start" /\ prof' = "collect"
        /\ mode' = [mode EXCEPT !.started = TRUE, !.alive = copier = "none"]
        /\ copier' = IF copier = "none" THEN "look" ELSE copier
        /\ UNCHANGED <<exit, vector, queued, owed>>
    BY <1>6 DEF StartSampling
  <2>2. mode'.started /\ mode'.noRPC = mode.noRPC /\ (mode'.alive <=> copier = "none")
    BY <1>0, <2>1
  <2>3. mode.noRPC => copier # "none"
    BY <1>6
  <2>. QED  BY <2>1, <2>2, <2>3
<1>7. CASE StopSampling
  <2>1. /\ prof = "collect" /\ prof' = "join" /\ owed' = Len(queued)
        /\ mode' = [mode EXCEPT !.started = FALSE]
        /\ UNCHANGED <<copier, exit, vector, queued>>
    BY <1>7 DEF StopSampling
  <2>2. ~mode'.started /\ mode'.noRPC = mode.noRPC /\ mode'.alive = mode.alive
    BY <1>0, <2>1
  <2>3. owed' <= Len(queued')
    BY <1>0, <2>1
  <2>. QED  BY <2>1, <2>2, <2>3
<1>8. CASE JoinAndDump
  BY <1>8 DEF JoinAndDump
<1>9. CASE ExitStops /\ mode.alive
  <2>1. /\ exit = "none" /\ exit' = "wait"
        /\ UNCHANGED <<prof, copier, vector, queued>>
    BY <1>9 DEF ExitStops
  <2>2. CASE mode.noRPC
    <3>1. owed' = Len(queued) /\ mode' = [mode EXCEPT !.started = FALSE]
      BY <1>9, <2>2 DEF ExitStops
    <3>2. ~mode'.started /\ mode'.noRPC = mode.noRPC /\ mode'.alive = mode.alive
      BY <1>0, <3>1
    <3>3. owed' <= Len(queued')
      BY <1>0, <2>1, <3>1
    <3>. QED  BY <1>9, <2>1, <2>2, <3>2, <3>3
  <2>3. CASE ~mode.noRPC
    <3>1. UNCHANGED <<mode, owed>>
      BY <1>9, <2>3 DEF ExitStops
    <3>. QED  BY <2>1, <2>3, <3>1
  <2>. QED  BY <2>2, <2>3
<1>10. CASE ExitWaits
  BY <1>10 DEF ExitWaits
<1>11. CASE ExitDumps
  BY <1>11 DEF ExitDumps
<1>. QED  BY <1>1, <1>2, <1>3, <1>4, <1>5, <1>6, <1>7, <1>8, <1>9, <1>10, <1>11
          DEF SignalNext, Profiling, Exit

\* Every step keeps what was dumped.
LEMMA DumpStep ==
  ASSUME SignalTyped, ContentInv, OwedInv, DumpInv, [SignalNext]_sigVars
  PROVE  DumpInv'
PROOF
<1>0. /\ Len(queued) <= Len(queued') /\ Len(queued') \in Nat /\ Len(queued) \in Nat
      /\ \A i \in 1 .. Len(queued) : queued'[i] = queued[i]
      /\ batch <= batch' /\ batch \in Nat /\ batch' \in Nat /\ circularbufCount \in Nat
  BY QueuedGrows, Lengths, SignalAssumption
<1>1. dumps \in Seq([owed : Nat, batches : Seq(Nat)])
  BY DEF SignalTyped
<1>2. ASSUME NEW k \in 1 .. Len(dumps)
      PROVE  LET d == dumps[k].batches IN
             /\ dumps[k].owed <= Len(d) /\ Len(d) <= Len(queued')
             /\ batch' <= circularbufCount => \A i \in 1 .. Len(d) : d[i] = queued'[i]
  <2>. DEFINE d == dumps[k].batches
  <2>1. /\ dumps[k].owed <= Len(d) /\ Len(d) <= Len(queued)
        /\ batch <= circularbufCount => \A i \in 1 .. Len(d) : d[i] = queued[i]
    BY DEF DumpInv
  <2>2. d \in Seq(Nat)
    BY DumpTyped
  <2>3. PICK n \in Nat : n = Len(d)
    BY <2>2
  <2>. HIDE DEF d
  <2>4. n <= Len(queued')
    BY <1>0, <2>1, <2>3
  <2>5. batch' <= circularbufCount => \A i \in 1 .. n : d[i] = queued'[i]
    BY <1>0, <2>1, <2>3
  <2>. QED  BY <2>1, <2>3, <2>4, <2>5 DEF d
<1>3. CASE UNCHANGED dumps
  BY <1>2, <1>3 DEF DumpInv
<1>4. CASE /\ DumpPCSamples /\ UNCHANGED <<queued, batch>>
           /\ mode.alive /\ copier = "ended"
  <2>1. PICK d \in Seq(Nat) :
          /\ dumps' = Append(dumps, [owed |-> owed, batches |-> d])
          /\ Len(d) = Len(vector)
          /\ \A i \in 1 .. Len(vector) : d[i] = ring.data[vector[i]]
    BY <1>4, DumpLemma
  <2>. DEFINE e == [owed |-> owed, batches |-> d]
  <2>2. e \in [owed : Nat, batches : Seq(Nat)] /\ e.owed = owed /\ e.batches = d
    BY <2>1 DEF SignalTyped
  <2>. HIDE DEF e
  <2>3. PICK n \in Nat : n = Len(dumps)
    BY <1>1
  <2>4. /\ dumps' = Append(dumps, e) /\ Len(dumps') = n + 1
        /\ \A k \in 1 .. n : dumps'[k] = dumps[k]
        /\ dumps'[n + 1] = e
    <3>1. dumps' = Append(dumps, e)
      BY <2>1 DEF e
    <3>. QED  BY <1>1, <2>2, <2>3, <3>1, AppendProperties
  <2>5. PICK v \in Nat : v = Len(vector)
    BY Lengths
  <2>6. owed <= v
    BY <1>4, <2>5 DEF OwedInv
  <2>7. v <= Len(queued') /\ v <= Len(queued)
    BY <1>0, <2>5, Lengths DEF ContentInv
  <2>8. batch' <= circularbufCount => \A i \in 1 .. v : d[i] = queued'[i]
    <3>1. SUFFICES ASSUME batch <= circularbufCount, NEW i \in 1 .. v
                   PROVE  d[i] = queued[i]
      BY <1>4
    <3>2. i \in 1 .. Len(Items) /\ Items[i] = vector[i]
      BY <2>5, Lengths
    <3>3. ring.data[Items[i]] = queued[i]
      BY <3>1, <3>2 DEF ContentInv
    <3>. QED  BY <2>1, <2>5, <3>2, <3>3
  <2>9. ASSUME NEW k \in 1 .. n + 1
        PROVE  /\ dumps'[k].owed <= Len(dumps'[k].batches)
               /\ Len(dumps'[k].batches) <= Len(queued')
               /\ batch' <= circularbufCount =>
                    \A i \in 1 .. Len(dumps'[k].batches) :
                      dumps'[k].batches[i] = queued'[i]
    <3>1. CASE k = n + 1
      <4>1. dumps'[k].owed = owed /\ dumps'[k].batches = d /\ Len(d) = v
        BY <2>1, <2>2, <2>4, <2>5, <3>1
      <4>. QED  BY <2>6, <2>7, <2>8, <4>1
    <3>2. CASE k # n + 1
      <4>1. k \in 1 .. Len(dumps) /\ dumps'[k] = dumps[k]
        BY <2>3, <2>4, <3>2
      <4>. QED  BY <1>2, <4>1
    <3>. QED  BY <3>1, <3>2
  <2>. QED  BY <2>4, <2>9 DEF DumpInv
<1>5. CASE JoinAndDump /\ mode.alive
  BY <1>4, <1>5 DEF JoinAndDump
<1>6. CASE ExitDumps /\ mode.alive
  <2>1. CASE mode.noRPC
    BY <1>4, <1>6, <2>1 DEF ExitDumps
  <2>2. CASE ~mode.noRPC
    BY <1>3, <1>6, <2>2 DEF ExitDumps
  <2>. QED  BY <2>1, <2>2
<1>7. \/ UNCHANGED dumps
      \/ mode.alive /\ (JoinAndDump \/ ExitDumps)
  BY DEF SignalNext, Collector, Profiling, Exit, TakeSlot, FillSlot, PushSlot, PushConf,
         Look, Drain, Signal, StartSampling, StopSampling, ExitStops, ExitWaits, sigVars
<1>. QED  BY <1>3, <1>5, <1>6, <1>7
-----------------------------------------------------------------------------
(* What is in the slots.                                                   *)

\* A step that moves no batch keeps it.
LEMMA ContentStays ==
  ASSUME ContentInv, Items' = Items,
         UNCHANGED <<taken, queued, batch>>,
         ring'.put = ring.put, ring'.data = ring.data
  PROVE  ContentInv'
BY DEF ContentInv

\* Every step keeps the slots' contents.
LEMMA ContentStep ==
  ASSUME SignalTyped, SignalTyped', ContentInv, [SignalNext]_sigVars
  PROVE  ContentInv'
PROOF
<1>0. /\ circularbufCount \in Nat /\ batch \in Nat
      /\ ring \in [put : Slots, get : Slots, used : [Slots -> BOOLEAN], data : [Places -> Nat]]
      /\ taken \in [Threads -> [slot : Slots, at : {"out", "fill", "push"}, batch : Nat]]
      /\ vector \in Seq(Places) /\ queue \in Seq(Places) /\ queued \in Seq(Nat)
      /\ \A s \in Slots : s \in Nat /\ s # Conf
      /\ \A p \in Places : p \in Nat
  <2>1. /\ circularbufCount \in Nat /\ \A s \in Slots : s \in Nat /\ s # Conf
        /\ \A p \in Places : p \in Nat
    BY PlaceLemma
  <2>. QED  BY <2>1 DEF SignalTyped
<1>1. PICK n \in Nat : n = Len(Items) /\ n = Len(queued)
  BY Lengths DEF ContentInv
<1>2. Items \in [1 .. n -> Places]
  <2>1. Items \in Seq(Places)
    BY Lengths
  <2>2. Items \in [1 .. Len(Items) -> Places]
    BY <2>1, LenProperties
  <2>. QED  BY <1>1, <2>2
<1>3. CASE UNCHANGED <<ring, taken, queue, vector, queued, batch>>
  BY <1>3, ContentStays DEF Items
<1>4. ASSUME NEW a \in Threads, TakeSlot(a)
      PROVE  ContentInv'
  <2>1. /\ taken[a].at = "out" /\ batch' = batch + 1
        /\ taken' = [taken EXCEPT ![a] = [slot |-> ring.put, at |-> "fill",
                                          batch |-> batch + 1]]
        /\ ring' = [ring EXCEPT !.used[ring.put] = TRUE,
                                !.put = (@ + 1) % circularbufCount]
        /\ Items' = Items /\ queued' = queued
    BY <1>4 DEF TakeSlot, Items
  <2>14. ring'.data[Conf] = 0
    BY <1>0, <2>1 DEF ContentInv
  <2>2. SUFFICES ASSUME batch + 1 <= circularbufCount
                 PROVE  /\ batch + 1 < circularbufCount => ring'.put = batch + 1
                        /\ \A b \in Threads :
                             taken'[b].at # "out" => taken'[b].slot < batch + 1
                        /\ \A b, c \in Threads :
                             b # c /\ taken'[b].at # "out" /\ taken'[c].at # "out" =>
                               taken'[b].slot # taken'[c].slot
                        /\ \A i \in 1 .. n :
                             /\ Items[i] # Conf => Items[i] < batch + 1
                             /\ ring'.data[Items[i]] = queued[i]
                             /\ \A b \in Threads :
                                  taken'[b].at # "out" => taken'[b].slot # Items[i]
    BY <1>1, <2>1, <2>14 DEF ContentInv
  <2>3. ring.put = batch
    BY <1>0, <2>2 DEF ContentInv
  <2>4. ring'.data = ring.data /\ ring'.put = (batch + 1) % circularbufCount
    BY <1>0, <2>1, <2>3
  <2>5. batch + 1 < circularbufCount => (batch + 1) % circularbufCount = batch + 1
    BY <1>0, SlotLemma
  <2>6. \A b \in Threads : IF b = a THEN taken'[b].slot = batch
                           ELSE taken'[b] = taken[b]
    BY <1>0, <2>1, <2>3
  <2>7. \A b \in Threads : taken[b].at # "out" => taken[b].slot < batch /\ taken[b].slot \in Nat
    BY <1>0, <2>2 DEF ContentInv
  <2>8. \A i \in 1 .. n :
          /\ Items[i] # Conf => Items[i] < batch
          /\ Items[i] \in Nat /\ ring.data[Items[i]] = queued[i]
          /\ \A b \in Threads : taken[b].at # "out" => taken[b].slot # Items[i]
    <3>1. \A i \in 1 .. n : Items[i] \in Nat
      BY <1>0, <1>2
    <3>. QED  BY <1>0, <1>1, <2>2, <3>1 DEF ContentInv
  <2>9. \A b, c \in Threads :
          b # c /\ taken[b].at # "out" /\ taken[c].at # "out" =>
            taken[b].slot # taken[c].slot
    BY <1>0, <2>2 DEF ContentInv
  <2>10. ASSUME NEW b \in Threads, taken'[b].at # "out"
         PROVE  taken'[b].slot < batch + 1
    <3>1. CASE b = a
      BY <1>0, <2>6, <3>1
    <3>2. CASE b # a
      <4>1. taken[b].slot < batch /\ taken[b].slot \in Nat /\ taken'[b].slot = taken[b].slot
        BY <2>6, <2>7, <2>10, <3>2
      <4>. QED  BY <1>0, <4>1
    <3>. QED  BY <3>1, <3>2
  <2>11. ASSUME NEW b \in Threads, NEW c \in Threads, b # c,
                taken'[b].at # "out", taken'[c].at # "out"
         PROVE  taken'[b].slot # taken'[c].slot
    <3>1. ASSUME NEW e \in Threads, taken[e].at # "out" PROVE taken[e].slot # batch
      <4>1. taken[e].slot < batch /\ taken[e].slot \in Nat /\ batch \in Nat
        BY <1>0, <2>7, <3>1
      <4>. QED  BY <4>1
    <3>2. CASE b = a
      BY <2>6, <2>11, <3>1, <3>2
    <3>3. CASE c = a
      BY <2>6, <2>11, <3>1, <3>3
    <3>4. CASE b # a /\ c # a
      BY <2>6, <2>9, <2>11, <3>4
    <3>. QED  BY <3>2, <3>3, <3>4
  <2>12. ASSUME NEW i \in 1 .. n
         PROVE  /\ Items[i] # Conf => Items[i] < batch + 1
                /\ ring'.data[Items[i]] = queued[i]
                /\ \A b \in Threads : taken'[b].at # "out" => taken'[b].slot # Items[i]
    <3>. DEFINE item == Items[i]
    <3>1. /\ item # Conf => item < batch
          /\ item \in Nat /\ ring.data[item] = queued[i]
          /\ \A b \in Threads : taken[b].at # "out" => taken[b].slot # item
      BY <2>8
    <3>. HIDE DEF item
    <3>2. item # batch
      <4>1. batch # Conf
        BY <1>0, <2>2 DEF Conf
      <4>. QED  BY <1>0, <3>1, <4>1
    <3>3. item # Conf => item < batch + 1
      BY <1>0, <3>1
    <3>4. \A b \in Threads : taken'[b].at # "out" => taken'[b].slot # item
      BY <2>6, <3>1, <3>2
    <3>5. ring'.data[item] = queued[i]
      BY <2>4, <3>1
    <3>. QED  BY <3>3, <3>4, <3>5 DEF item
  <2>. QED  BY <2>4, <2>5, <2>10, <2>11, <2>12
<1>5. ASSUME NEW a \in Threads, FillSlot(a)
      PROVE  ContentInv'
  <2>1. /\ taken[a].at = "fill"
        /\ ring' = [ring EXCEPT !.data[taken[a].slot] = taken[a].batch]
        /\ taken' = [taken EXCEPT ![a].at = "push"]
        /\ Items' = Items /\ queued' = queued /\ batch' = batch
    BY <1>5 DEF FillSlot, Items
  <2>2. /\ ring'.put = ring.put
        /\ \A s \in Places : s # taken[a].slot => ring'.data[s] = ring.data[s]
    BY <1>0, <2>1
  <2>3. \A b \in Threads : /\ taken'[b].slot = taken[b].slot
                           /\ taken'[b].at = "out" <=> taken[b].at = "out"
    BY <1>0, <2>1
  <2>4. ASSUME batch <= circularbufCount, NEW i \in 1 .. n
        PROVE  ring'.data[Items[i]] = queued[i]
    <3>1. ring.data[Items[i]] = queued[i] /\ taken[a].slot # Items[i]
      BY <1>1, <2>1, <2>4 DEF ContentInv
    <3>2. Items[i] \in Places
      BY <1>2
    <3>. QED  BY <2>2, <3>1, <3>2
  <2>5. ring'.data[Conf] = 0
    <3>1. taken[a].slot # Conf /\ Conf \in Places
      BY <1>0, PlaceLemma
    <3>. QED  BY <2>2, <3>1 DEF ContentInv
  <2>. QED  BY <1>1, <2>1, <2>2, <2>3, <2>4, <2>5 DEF ContentInv
<1>6. ASSUME NEW place \in Places, NEW data \in Nat, data = ring.data[place],
             vector' = vector, queue' = Append(queue, place),
             queued' = Append(queued, data), ring' = ring, batch' = batch,
             \A b \in Threads : taken'[b] = taken[b] \/ taken'[b].at = "out",
             place = Conf \/ \E a \in Threads : /\ taken[a].at # "out"
                                                /\ taken[a].slot = place
                                                /\ taken'[a].at = "out"
      PROVE  ContentInv'
  <2>1. Items' = Append(Items, place)
    <3>1. Items' = vector \o Append(queue, place)
      BY <1>6 DEF Items
    <3>2. Append(queue, place) = queue \o <<place>> /\ <<place>> \in Seq(Places)
      BY <1>0, AppendIsConcat
    <3>3. Append(Items, place) = Items \o <<place>>
      BY Lengths, AppendIsConcat
    <3>. DEFINE one == <<place>>
    <3>. HIDE DEF one
    <3>4. (vector \o queue) \o one = vector \o (queue \o one)
      <4>1. vector \in Seq(Places) /\ queue \in Seq(Places) /\ one \in Seq(Places)
        BY <1>0, <3>2 DEF one
      <4>2. \A s, t, u \in Seq(Places) : (s \o t) \o u = s \o (t \o u)
        BY ConcatAssociative
      <4>. QED  BY <4>1, <4>2, Zenon
    <3>. USE DEF one
    <3>. QED  BY <3>1, <3>2, <3>3, <3>4 DEF Items
  <2>2. /\ Len(Items') = n + 1 /\ Items'[n + 1] = place
        /\ \A i \in 1 .. n : Items'[i] = Items[i]
    <3>1. Items \in Seq(Places)
      BY Lengths
    <3>. DEFINE s == Items
    <3>2. s \in Seq(Places) /\ n = Len(s)
      BY <1>1, <3>1
    <3>. HIDE DEF s
    <3>3. /\ Len(Append(s, place)) = n + 1 /\ Append(s, place)[n + 1] = place
          /\ \A i \in 1 .. n : Append(s, place)[i] = s[i]
      BY <3>2, AppendProperties
    <3>. QED  BY <2>1, <3>3 DEF s
  <2>3. /\ Len(queued') = n + 1 /\ queued'[n + 1] = data
        /\ \A i \in 1 .. n : queued'[i] = queued[i]
    <3>1. /\ Len(Append(queued, data)) = n + 1 /\ Append(queued, data)[n + 1] = data
          /\ \A i \in 1 .. n : Append(queued, data)[i] = queued[i]
      BY <1>0, <1>1, AppendProperties
    <3>. QED  BY <1>6, <3>1
  <2>4. ASSUME batch <= circularbufCount, NEW i \in 1 .. n + 1
        PROVE  /\ Items'[i] # Conf => Items'[i] < batch
               /\ ring.data[Items'[i]] = queued'[i]
               /\ \A b \in Threads : taken'[b].at # "out" => taken'[b].slot # Items'[i]
    <3>1. CASE i \in 1 .. n
      <4>1. /\ Items[i] # Conf => Items[i] < batch
            /\ ring.data[Items[i]] = queued[i]
            /\ \A b \in Threads : taken[b].at # "out" => taken[b].slot # Items[i]
        BY <1>1, <2>4, <3>1 DEF ContentInv
      <4>2. \A b \in Threads : taken'[b].at # "out" => taken'[b] = taken[b]
        BY <1>6
      <4>. QED  BY <2>2, <2>3, <3>1, <4>1, <4>2
    <3>2. CASE i = n + 1
      <4>1. Items'[i] = place /\ queued'[i] = ring.data[place]
        BY <1>6, <2>2, <2>3, <3>2
      <4>2. CASE place = Conf
        <5>1. \A b \in Threads : taken'[b].at # "out" => taken'[b].slot # Conf
          <6>1. \A b \in Threads : taken[b].slot # Conf
            BY <1>0
          <6>. QED  BY <1>6, <6>1
        <5>. QED  BY <4>1, <4>2, <5>1
      <4>3. ASSUME NEW a \in Threads, taken[a].at # "out", taken[a].slot = place,
                   taken'[a].at = "out"
            PROVE  /\ place < batch
                   /\ \A b \in Threads : taken'[b].at # "out" => taken'[b].slot # place
        <5>1. place < batch
          BY <2>4, <4>3 DEF ContentInv
        <5>2. ASSUME NEW b \in Threads, taken'[b].at # "out"
              PROVE  taken'[b].slot # place
          <6>1. b # a /\ taken'[b] = taken[b]
            BY <1>6, <4>3, <5>2
          <6>. QED  BY <2>4, <4>3, <5>2, <6>1 DEF ContentInv
        <5>. QED  BY <5>1, <5>2
      <4>. QED  BY <1>6, <4>1, <4>2, <4>3
    <3>. QED  BY <3>1, <3>2
  <2>5. ASSUME batch <= circularbufCount
        PROVE  /\ batch < circularbufCount => ring.put = batch
               /\ \A b \in Threads : taken'[b].at # "out" => taken'[b].slot < batch
               /\ \A b, c \in Threads :
                    b # c /\ taken'[b].at # "out" /\ taken'[c].at # "out" =>
                      taken'[b].slot # taken'[c].slot
    <3>1. \A b \in Threads : taken'[b].at # "out" => taken'[b] = taken[b]
      BY <1>6
    <3>. QED  BY <2>5, <3>1 DEF ContentInv
  <2>6. ring.data[Conf] = 0
    BY DEF ContentInv
  <2>. QED  BY <1>6, <2>2, <2>3, <2>4, <2>5, <2>6 DEF ContentInv
<1>9. ASSUME NEW a \in Threads, PushSlot(a)
      PROVE  ContentInv'
  <2>1. /\ taken[a].at = "push" /\ vector' = vector
        /\ queue' = Append(queue, taken[a].slot)
        /\ queued' = Append(queued, ring.data[taken[a].slot])
        /\ taken' = [taken EXCEPT ![a] = Free]
        /\ ring' = ring /\ batch' = batch
    BY <1>9 DEF PushSlot
  <2>2. taken[a].slot \in Places /\ ring.data[taken[a].slot] \in Nat
    BY <1>0, PlaceLemma
  <2>3. /\ taken'[a].at = "out"
        /\ \A b \in Threads : taken'[b] = taken[b] \/ taken'[b].at = "out"
    BY <1>0, <2>1 DEF Free
  <2>. QED  BY <1>6, <2>1, <2>2, <2>3
<1>10. ASSUME NEW a \in Threads, PushConf(a)
       PROVE  ContentInv'
  <2>1. /\ vector' = vector /\ queue' = Append(queue, Conf)
        /\ queued' = Append(queued, ring.data[Conf])
        /\ UNCHANGED <<taken, ring, batch>>
    BY <1>10 DEF PushConf
  <2>2. Conf \in Places /\ ring.data[Conf] \in Nat
    BY <1>0, PlaceLemma
  <2>. QED  BY <1>6, <2>1, <2>2
<1>7. CASE Drain
  <2>1. /\ vector' = vector \o queue /\ queue' = <<>> /\ ring' = Drained
        /\ UNCHANGED <<taken, queued, batch>>
    BY <1>7 DEF Drain
  <2>2. Items' = Items
    <3>1. Items' = (vector \o queue) \o <<>> /\ vector \o queue \in Seq(Places)
      BY <1>0, <2>1, ConcatProperties DEF Items
    <3>. QED  BY <3>1, ConcatEmptySeq DEF Items
  <2>3. ring'.put = ring.put /\ ring'.data = ring.data
    BY <1>0, <2>1 DEF Drained
  <2>. QED  BY <2>1, <2>2, <2>3, ContentStays
<1>8. \/ UNCHANGED <<ring, taken, queue, vector, queued, batch>>
      \/ Drain
      \/ \E a \in Threads : TakeSlot(a) \/ FillSlot(a) \/ PushSlot(a) \/ PushConf(a)
  BY DEF SignalNext, Collector, Profiling, Exit, Look, Signal, StartSampling, StopSampling,
         JoinAndDump, ExitStops, ExitWaits, ExitDumps, sigVars, Threads
<1>. QED  BY <1>3, <1>4, <1>5, <1>7, <1>8, <1>9, <1>10

\* A dump misses nothing that was queued before sampling ended, and shows every
\* batch as it was collected while no slot has been used twice: whichever thread
\* collects, and whenever signals and the exit come.
THEOREM DumpsAreComplete == SignalSpec => []DumpMissesOnlyOverrun
PROOF
<1>1. SignalInit => SignalInv
  <2>1. ASSUME SignalInit PROVE ContentInv /\ OwedInv /\ DumpInv
    <3>1. /\ queue = <<>> /\ vector = <<>> /\ queued = <<>> /\ dumps = <<>>
          /\ batch = 0 /\ owed = 0 /\ prof = "none" /\ exit = "none"
          /\ taken = [a \in {"app", "prof"} |-> Free] /\ ring.put = 0
          /\ ring.data[Conf] = 0
      BY <2>1, PlaceLemma DEF SignalInit
    <3>2. /\ mode.noRPC => mode.started /\ copier = "look"
          /\ copier \in {"look", "none"}
      BY <2>1 DEF SignalInit
    <3>3. Items = <<>> /\ Len(Items) = 0 /\ Len(queued) = 0 /\ Len(dumps) = 0
      BY <3>1 DEF Items
    <3>4. \A a \in Threads : taken[a].at = "out"
      BY <3>1 DEF Threads, Free
    <3>. QED  BY <3>1, <3>2, <3>3, <3>4 DEF ContentInv, OwedInv, DumpInv
  <2>. QED  BY <2>1, InitTyped DEF SignalInv
<1>2. SignalInv /\ [SignalNext]_sigVars => SignalInv'
  BY TypedStep, ContentStep, OwedStep, DumpStep DEF SignalInv
<1>3. SignalInv => DumpMissesOnlyOverrun
  <2>1. ASSUME SignalInv, NEW k \in DOMAIN dumps
        PROVE  LET d == dumps[k].batches IN
               /\ Len(d) >= dumps[k].owed
               /\ batch <= circularbufCount => \A i \in DOMAIN d : d[i] = queued[i]
    <3>. DEFINE d == dumps[k].batches
    <3>1. dumps \in Seq([owed : Nat, batches : Seq(Nat)])
      BY <2>1 DEF SignalInv, SignalTyped
    <3>2. k \in 1 .. Len(dumps)
      BY <2>1, <3>1
    <3>3. d \in Seq(Nat) /\ dumps[k].owed \in Nat
      BY <2>1, <3>2, DumpTyped DEF SignalInv
    <3>4. /\ dumps[k].owed <= Len(d)
          /\ batch <= circularbufCount => \A i \in 1 .. Len(d) : d[i] = queued[i]
      BY <2>1, <3>2 DEF SignalInv, DumpInv
    <3>. HIDE DEF d
    <3>5. PICK m \in Nat : m = Len(d) /\ DOMAIN d = 1 .. m
      BY <3>3
    <3>. QED  BY <3>3, <3>4, <3>5 DEF d
  <2>. QED  BY <2>1 DEF DumpMissesOnlyOverrun
<1>. QED  BY <1>1, <1>2, <1>3, PTL DEF SignalSpec

=============================================================================
