----------------------------- MODULE ContextSet -----------------------------
(***************************************************************************)
(* What the calling context trees of samprof promise: for every thread a   *)
(* set of call paths, closed under prefixes, that only grows; an unwinding *)
(* that has come to an end names a path of its thread, and the one the     *)
(* stack had.  CallingContextTree, the trees of calling_ctx_tree.h as      *)
(* DoBackTrace and UpdateCCT build them, is shown to implement it.         *)
(***************************************************************************)
EXTENDS Sequences

CONSTANTS Threads,   \* threads that launch kernels
          Frames,    \* pcs of stack frames
          Stacks     \* the call paths each thread may have

VARIABLES contexts,  \* the paths known of each thread
          named      \* the path its last unwinding has named

setVars == <<contexts, named>>

Init == /\ contexts = [t \in Threads |-> {}]
        /\ named = [t \in Threads |-> <<>>]

\* A thread is seen for the first time: the empty path.
Root(t) == /\ contexts[t] = {}
           /\ contexts' = [contexts EXCEPT ![t] = {<<>>}]
           /\ UNCHANGED named

\* A path becomes known whose caller is.
Extend(t, p, f) == /\ p \in contexts[t]
                   /\ contexts' = [contexts EXCEPT ![t] = @ \cup {Append(p, f)}]
                   /\ UNCHANGED named

Name(t, p) == /\ p \in contexts[t]
              /\ named' = [named EXCEPT ![t] = p]
              /\ UNCHANGED contexts

Next == \E t \in Threads :
          \/ Root(t)
          \/ \E p \in contexts[t], f \in Frames : Extend(t, p, f)
          \/ \E p \in Stacks[t] : Name(t, p)

Spec == Init /\ [][Next]_setVars
=============================================================================
