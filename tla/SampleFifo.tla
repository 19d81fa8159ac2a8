----------------------------- MODULE SampleFifo -----------------------------
(***************************************************************************)
(* What the sample pipeline of samprof promises, and all it promises: a    *)
(* batch of PC samples handed over by a launching thread reaches the reply *)
(* of the profiling request once, whole, with the call path it was handed  *)
(* over with, and in the order of the hand-overs, until the promise is     *)
(* dropped for good.  CircularBuffer, the ring of gpu_profiler.cpp, is     *)
(* shown to implement it, and to drop it only for the reasons it names.    *)
(***************************************************************************)
EXTENDS Sequences

CONSTANT Items      \* a batch together with the CPU call path it belongs to

VARIABLES chan,     \* handed over and not yet copied
          out,      \* copied into a reply
          kept      \* the promise still stands

fifoVars == <<chan, out, kept>>

Init == chan = <<>> /\ out = <<>> /\ kept = TRUE

Send(x) == chan' = Append(chan, x) /\ UNCHANGED out

Receive == /\ chan # <<>>
           /\ out' = Append(out, Head(chan))
           /\ chan' = Tail(chan)

\* From here on nothing is promised.
Drop == ~kept'

Next == \/ kept /\ kept' /\ (Receive \/ \E x \in Items : Send(x))
        \/ Drop

Spec == Init /\ [][Next]_fifoVars
=============================================================================
