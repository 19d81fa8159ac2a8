---------------------- MODULE CallingContextTree_proofs ---------------------
(***************************************************************************)
(* Proofs about CallingContextTree, for all threads, frames, launches and  *)
(* stacks, and any number of nodes: its types, that parents and children   *)
(* agree, what going up from a node by its parentID gives (PathTo), that   *)
(* it is the stack which was unwound, and that the trees implement         *)
(* ContextSet.                                                             *)
(***************************************************************************)
EXTENDS CallingContextTree, Integers, SequenceTheorems, NaturalsInduction,
        WellFoundedInduction, TLAPS

-----------------------------------------------------------------------------
(* Types.  That a walk finds a node to look into needs to know where it is. *)

Placed(a) == walk[a].at \in {"look", "search", "insert", "link", "end"}
Walking(a) == walk[a].at \in {"search", "insert", "link"}
Holding(a) == walk[a].at \in {"root", "link"}

WalkInv ==
  \A a \in Actors :
    /\ Placed(a) => root[TreeOf(a)] # Null
    /\ Walking(a) => walk[a].node \in Nodes
    /\ Holding(a) => walk[a].new \in Nodes
    /\ At(a, "link") => walk[a].own # <<>>

TypeInv == TypeOK /\ WalkInv

\* A walker that drops a frame changes nothing else.
LEMMA PopLemma ==
  ASSUME NEW w \in Walker, w.own # <<>>
  PROVE  /\ Pop(w) \in Walker
         /\ Pop(w).at = w.at /\ Pop(w).node = w.node
         /\ Pop(w).new = w.new /\ Pop(w).leaf = w.leaf
PROOF
<1>1. w.main # <<>> => Tail(w.main) \in Seq(Pcs)
  BY DEF Walker
<1>2. Tail(w.own) \in Seq(Pcs)
  BY DEF Walker
<1>. QED  BY <1>1, <1>2 DEF Pop, Walker

\* The frame in hand is a pc.
LEMMA FrameLemma ==
  ASSUME TypeOK, NEW a \in Actors, walk[a].own # <<>>
  PROVE  Frame(a) \in Pcs
PROOF
<1>1. walk[a] \in Walker
  BY DEF TypeOK
<1>2. walk[a].main \in Seq(Pcs) /\ walk[a].own \in Seq(Pcs)
  BY <1>1 DEF Walker
<1>. QED  BY <1>2 DEF Frame

\* Every walk goes down in a tree of some thread.
LEMMA TreeOfLemma ==
  ASSUME TypeOK, NEW a \in Actors
  PROVE  TreeOf(a) \in Threads /\ (a # Sampler => a \in Threads /\ TreeOf(a) = a)
PROOF BY DEF TypeOK, TreeOf, Actors

Places == {"out", "tree", "root", "look", "search", "insert", "link", "end"}

\* A walker that is changed field by field stays one.
LEMMA WalkerLemma ==
  ASSUME NEW w \in Walker, NEW p \in Places, NEW n \in Ids, NEW m \in Ids,
         NEW q \in Seq(Pcs)
  PROVE  /\ [w EXCEPT !.at = p] \in Walker
         /\ [w EXCEPT !.at = p, !.own = q] \in Walker
         /\ [w EXCEPT !.at = p, !.node = n] \in Walker
         /\ [w EXCEPT !.at = p, !.new = n] \in Walker
         /\ [w EXCEPT !.at = p, !.leaf = n] \in Walker
         /\ [w EXCEPT !.at = p, !.new = n, !.leaf = m] \in Walker
PROOF BY DEF Walker, Places

\* A step that changes one walker, and the id it holds to one that is taken.
LEMMA WalkLemma ==
  ASSUME TypeOK, NEW a \in Actors, NEW w \in Walker,
         walk' = [walk EXCEPT ![a] = w]
  PROVE  /\ walk' \in [Actors -> Walker] /\ walk'[a] = w
         /\ \A b \in Actors \ {a} : walk'[b] = walk[b]
         /\ w.new = walk[a].new => \A b \in Actors : walk'[b].new < nextId
PROOF BY DEF TypeOK

\* A step that only moves one walker on.
LEMMA GoToLemma ==
  ASSUME TypeOK, NEW a \in Actors, NEW p \in Places, GoTo(a, p)
  PROVE  /\ walk' \in [Actors -> Walker]
         /\ \A b \in Actors : walk'[b].new < nextId
PROOF
<1>1. [walk[a] EXCEPT !.at = p] \in Walker
  <2>1. walk[a] \in Walker /\ Null \in Ids /\ <<>> \in Seq(Pcs)
    BY DEF TypeOK, Ids
  <2>. QED  BY <2>1, WalkerLemma
<1>2. walk' = [walk EXCEPT ![a] = [walk[a] EXCEPT !.at = p]]
  BY DEF GoTo, TypeOK
<1>3. [walk[a] EXCEPT !.at = p].new = walk[a].new
  BY DEF TypeOK, Walker
<1>. QED  BY <1>1, <1>2, <1>3, WalkLemma

LEMMA TypeInit == TreeAssumption /\ Init => TypeInv
PROOF
<1> SUFFICES ASSUME TreeAssumption, Init PROVE TypeInv
  OBVIOUS
<1>1. Idle \in Walker
  BY DEF Idle, Walker, Ids
<1>2. \A t \in Threads : call[t] \in Calls[t]
  BY DEF Init, TreeAssumption
<1>3. call \in [Threads -> Launch]
  BY <1>2 DEF Init, TreeAssumption
<1>4. sampled \in Threads
  BY DEF Init, TreeAssumption
<1>5. nextId \in 1 .. MaxNodes + 1 /\ \A a \in Actors : walk[a].new < nextId
  BY DEF Init, TreeAssumption, Idle, Null
<1>6. last \in [Threads -> [id : Ids, path : Seq(Pcs)]]
  <2>1. <<>> \in Seq(Pcs)
    OBVIOUS
  <2>. QED  BY <2>1 DEF Init, Ids
<1>7. TypeOK
  BY <1>1, <1>2, <1>3, <1>4, <1>5, <1>6 DEF Init, TypeOK, Ids
<1>8. WalkInv
  BY DEF Init, WalkInv, Idle, Placed, Walking, Holding, At
<1>. QED  BY <1>7, <1>8 DEF TypeInv

LEMMA TypeStep == TreeAssumption /\ TypeInv /\ [Next]_vars => TypeInv'
PROOF
<1> SUFFICES ASSUME TreeAssumption, TypeInv, [Next]_vars PROVE TypeInv'
  OBVIOUS
<1>a. /\ walk \in [Actors -> Walker]
      /\ root \in [Threads -> Ids] /\ sampled \in Threads
      /\ nextId \in 1 .. MaxNodes + 1 /\ MaxNodes \in Nat
      /\ \A a \in Actors : walk[a].new < nextId
      /\ Null \in Ids /\ Nodes \subseteq Ids /\ Ids \subseteq Nat
      /\ <<>> \in Seq(Pcs)
      /\ nodeMap \in [Threads -> SUBSET Nodes]
      /\ pc \in [Nodes -> Pcs \cup {NoPc}] /\ parentID \in [Nodes -> Ids]
      /\ childNodes \in [Nodes -> SUBSET Nodes]
      /\ pc2Child \in [Nodes -> [Pcs -> Ids]]
  BY DEF Nodes, Null, TypeInv, TypeOK, Ids, TreeAssumption
<1>b. /\ Threads \subseteq Actors /\ Sampler \in Actors /\ Sampler \notin Threads
  BY DEF Actors, TreeAssumption
<1>c. \A a \in Actors : TreeOf(a) \in Threads /\ (a # Sampler => a \in Threads)
  BY TreeOfLemma DEF TypeInv
<1>1. ASSUME NEW t \in Threads, Enter(t) PROVE TypeInv'
  <2>a. walk' \in [Actors -> Walker] /\ \A b \in Actors : walk'[b].new < nextId
    BY <1>1, <1>b, GoToLemma DEF Enter, Places, TypeInv
  <2>b. call' \in [Threads -> Launch] /\ \A u \in Threads : call'[u] \in Calls[u]
    BY <1>1 DEF Enter, TypeInv, TypeOK, TreeAssumption
  <2>1. TypeOK'
    BY <1>1, <1>a, <2>a, <2>b DEF Enter, TypeInv, TypeOK, treeVars, idVars
  <2>2. WalkInv'
    BY <1>1, <1>a, <1>b DEF Enter, GoTo, TypeInv, WalkInv, Placed, Walking, Holding, At, TreeOf, treeVars, idVars
  <2>. QED  BY <2>1, <2>2 DEF TypeInv
<1>2. ASSUME NEW t \in Threads, Sample(t) PROVE TypeInv'
  <2>a. PICK p \in Sampled[t] :
          walk' = [walk EXCEPT ![Sampler] = [Idle EXCEPT !.at = "tree", !.own = p]]
    BY <1>2 DEF Sample
  <2> DEFINE w == [Idle EXCEPT !.at = "tree", !.own = p]
  <2>b. p \in Seq(Pcs)
    BY DEF TreeAssumption
  <2>c. w \in Walker /\ w.new = Null
    <3>1. Idle \in Walker
      BY <1>a DEF Idle, Walker
    <3>2. w \in Walker
      BY <1>a, <2>b, <3>1, WalkerLemma DEF Places
    <3>3. w.new = Null
      BY DEF Idle
    <3>. QED  BY <3>2, <3>3
  <2> HIDE DEF w
  <2>d. /\ walk' \in [Actors -> Walker] /\ walk'[Sampler] = w
        /\ \A b \in Actors \ {Sampler} : walk'[b] = walk[b]
    BY <1>b, <2>a, <2>c, WalkLemma DEF TypeInv, w
  <2>e. \A b \in Actors : walk'[b].new < nextId
    BY <1>a, <2>c, <2>d DEF Null
  <2>1. TypeOK'
    BY <1>2, <1>a, <2>d, <2>e DEF Sample, TypeInv, TypeOK, treeVars, idVars
  <2>2. WalkInv'
    BY <1>2, <1>a, <1>b DEF Sample, Idle, TypeInv, WalkInv, Placed, Walking, Holding, At, TreeOf, treeVars, idVars
  <2>. QED  BY <2>1, <2>2 DEF TypeInv
<1>3. ASSUME NEW a \in Actors, HasTree(a) PROVE TypeInv'
  <2>a. walk' \in [Actors -> Walker] /\ \A b \in Actors : walk'[b].new < nextId
    BY <1>3, <1>b, GoToLemma DEF HasTree, Places, TypeInv
  <2>1. TypeOK'
    BY <1>3, <1>a, <2>a DEF HasTree, TypeInv, TypeOK, treeVars, idVars
  <2>2. WalkInv'
    BY <1>3, <1>a, <1>b DEF HasTree, GoTo, TypeInv, WalkInv, Placed, Walking, Holding, At, TreeOf, treeVars, idVars
  <2>. QED  BY <2>1, <2>2 DEF TypeInv
<1>4. ASSUME NEW a \in Actors, NewRoot(a) PROVE TypeInv'
  <2>a. nextId \in Nodes /\ nextId' = nextId + 1 /\ nextId' \in 1 .. MaxNodes + 1
    BY <1>4, <1>a DEF NewRoot, TakeId, Nodes
  <2> DEFINE w == [walk[a] EXCEPT !.at = "root", !.new = nextId]
  <2>b. w \in Walker /\ w.new = nextId
    <3>1. w \in Walker
      BY <1>a, <2>a, WalkerLemma DEF Places
    <3>2. w.new = nextId
      BY <1>a DEF Walker
    <3>. QED  BY <3>1, <3>2
  <2>c. walk' = [walk EXCEPT ![a] = w]
    BY <1>4, <1>a DEF NewRoot
  <2> HIDE DEF w
  <2>d. /\ walk' \in [Actors -> Walker] /\ walk'[a] = w
        /\ \A b \in Actors \ {a} : walk'[b] = walk[b]
    BY <2>b, <2>c, WalkLemma DEF TypeInv
  <2>e. \A b \in Actors : walk'[b].new < nextId'
    <3>1. \A b \in Actors : walk[b].new \in Nat
      BY <1>a DEF Walker
    <3>2. walk'[a].new < nextId'
      BY <2>a, <2>b, <2>d DEF Nodes
    <3>3. ASSUME NEW b \in Actors \ {a} PROVE walk'[b].new < nextId'
      <4>1. walk'[b].new = walk[b].new /\ walk[b].new < nextId
        BY <1>a, <2>a, <2>b, <2>d
      <4>. QED  BY <2>a, <3>1, <4>1 DEF Nodes
    <3>. QED  BY <3>2, <3>3
  <2>1. TypeOK'
    BY <1>4, <1>a, <2>a, <2>d, <2>e DEF NewRoot, TypeInv, TypeOK, treeVars, idVars
  <2>2. WalkInv'
    BY <1>4, <1>a, <1>b DEF NewRoot, TakeId, TypeInv, WalkInv, Placed, Walking, Holding, At, TreeOf, treeVars, idVars
  <2>. QED  BY <2>1, <2>2 DEF TypeInv
<1>5. ASSUME NEW a \in Actors, SetRoot(a) PROVE TypeInv'
  <2>0. walk[a].new \in Nodes /\ walk[a].new # Null
    BY <1>5, <1>a DEF SetRoot, TypeInv, WalkInv, At, Holding, Nodes, Null
  <2>a. walk' \in [Actors -> Walker] /\ \A b \in Actors : walk'[b].new < nextId
    BY <1>5, GoToLemma DEF SetRoot, Places, TypeInv
  <2>b. root' \in [Threads -> Ids] /\ nodeMap' \in [Threads -> SUBSET Nodes]
    <3>1. CASE root[TreeOf(a)] = Null
      <4>1. /\ root' = [root EXCEPT ![TreeOf(a)] = walk[a].new]
            /\ nodeMap' = [nodeMap EXCEPT ![TreeOf(a)] = {walk[a].new}]
        BY <1>5, <3>1 DEF SetRoot
      <4>. QED  BY <1>a, <1>c, <2>0, <4>1
    <3>2. CASE root[TreeOf(a)] # Null
      BY <1>5, <1>a, <3>2 DEF SetRoot
    <3>. QED  BY <3>1, <3>2
  <2>1. TypeOK'
    BY <1>5, <1>a, <2>a, <2>b DEF SetRoot, TypeInv, TypeOK, idVars
  <2>2. WalkInv'
    BY <1>5, <1>a, <1>b, <1>c, <2>0 DEF SetRoot, GoTo, TypeInv, WalkInv, Placed, Walking, Holding, At, TreeOf, idVars
  <2>. QED  BY <2>1, <2>2 DEF TypeInv
<1>6. ASSUME NEW t \in Threads, FakeBackTrace(t) PROVE TypeInv'
  <2>a. walk' \in [Actors -> Walker] /\ \A b \in Actors : walk'[b].new < nextId
    BY <1>6, <1>b, GoToLemma DEF FakeBackTrace, Places, TypeInv
  <2>1. TypeOK'
    BY <1>6, <1>a, <2>a DEF FakeBackTrace, TypeInv, TypeOK, treeVars
  <2>2. WalkInv'
    BY <1>6, <1>a, <1>b DEF FakeBackTrace, GoTo, TypeInv, WalkInv, Placed, Walking, Holding, At, TreeOf, treeVars
  <2>. QED  BY <2>1, <2>2 DEF TypeInv
<1>7. ASSUME NEW t \in Threads, UseCached(t) PROVE TypeInv'
  <2>1. call[t].rsp \in Rsps
    BY <1>7 DEF TypeInv, TypeOK, Launch
  <2>a. walk' \in [Actors -> Walker] /\ \A b \in Actors : walk'[b].new < nextId
    BY <1>7, <1>b, GoToLemma DEF UseCached, Places, TypeInv
  <2>2. TypeOK'
    BY <1>7, <1>a, <2>1, <2>a DEF UseCached, TypeInv, TypeOK, treeVars
  <2>3. WalkInv'
    BY <1>7, <1>a, <1>b DEF UseCached, GoTo, TypeInv, WalkInv, Placed, Walking, Holding, At, TreeOf, treeVars
  <2>. QED  BY <2>2, <2>3 DEF TypeInv
<1>8. ASSUME NEW t \in Threads, Unwind(t) PROVE TypeInv'
  <2>1. call[t].main \in Seq(Pcs) /\ call[t].own \in Seq(Pcs)
    BY <1>8 DEF TypeInv, TypeOK, Launch
  <2>2. root[t] \in Nodes
    BY <1>8, <1>a, <1>b DEF Unwind, TypeInv, WalkInv, Placed, At, TreeOf, Ids
  <2> DEFINE w == [Idle EXCEPT !.at = "search", !.main = call[t].main,
                               !.own = call[t].own, !.node = root[t]]
  <2>a. w \in Walker /\ w.new = Null
    BY <1>a, <2>1, <2>2 DEF Idle, Walker
  <2>b. walk' = [walk EXCEPT ![t] = w]
    BY <1>8 DEF Unwind
  <2> HIDE DEF w
  <2>c. /\ walk' \in [Actors -> Walker] /\ walk'[t] = w
        /\ \A b \in Actors \ {t} : walk'[b] = walk[b]
    BY <1>b, <2>a, <2>b, WalkLemma DEF TypeInv
  <2>d. \A b \in Actors : walk'[b].new < nextId
    BY <1>a, <2>a, <2>c DEF Null
  <2>3. TypeOK'
    BY <1>8, <1>a, <2>c, <2>d DEF Unwind, TypeInv, TypeOK, treeVars, idVars
  <2>4. WalkInv'
    BY <1>8, <1>a, <1>b, <2>2 DEF Unwind, Idle, TypeInv, WalkInv, Placed, Walking, Holding, At, TreeOf, treeVars, idVars
  <2>. QED  BY <2>3, <2>4 DEF TypeInv
<1>9. ASSUME StartUpdate PROVE TypeInv'
  <2>2. root[sampled] \in Nodes
    BY <1>9, <1>a, <1>b DEF StartUpdate, TypeInv, WalkInv, Placed, At, TreeOf, Ids
  <2> DEFINE w == [walk[Sampler] EXCEPT !.at = "search", !.node = root[sampled]]
  <2>a. w \in Walker /\ w.new = walk[Sampler].new
    <3>1. w \in Walker
      BY <1>a, <1>b, <2>2, WalkerLemma DEF Places
    <3>2. w.new = walk[Sampler].new
      BY <1>a, <1>b DEF Walker
    <3>. QED  BY <3>1, <3>2
  <2>b. walk' = [walk EXCEPT ![Sampler] = w]
    BY <1>9, <1>a, <1>b DEF StartUpdate
  <2> HIDE DEF w
  <2>c. walk' \in [Actors -> Walker] /\ \A b \in Actors : walk'[b].new < nextId
    BY <1>b, <2>a, <2>b, WalkLemma DEF TypeInv
  <2>3. TypeOK'
    BY <1>9, <1>a, <2>c DEF StartUpdate, TypeInv, TypeOK, treeVars, idVars
  <2>4. WalkInv'
    BY <1>9, <1>a, <1>b, <2>2 DEF StartUpdate, TypeInv, WalkInv, Placed, Walking, Holding, At, TreeOf, treeVars, idVars
  <2>. QED  BY <2>3, <2>4 DEF TypeInv
<1>10. ASSUME NEW a \in Actors, Descend(a) PROVE TypeInv'
  <2>1. Frame(a) \in Pcs
    BY <1>10, FrameLemma DEF Descend, TypeInv
  <2>2. walk[a].node \in Nodes
    BY <1>10 DEF Descend, TypeInv, WalkInv, Walking, At
  <2>3. Child(a) \in Nodes
    BY <1>10, <2>1, <2>2 DEF Descend, Child, TypeInv, TypeOK, Ids
  <2> DEFINE w == [Pop(walk[a]) EXCEPT !.node = Child(a)]
  <2>4. /\ w \in Walker /\ w.at = "search" /\ w.node = Child(a)
        /\ w.new = walk[a].new
    BY <1>10, <1>a, <2>3, PopLemma DEF Descend, Walker, At
  <2>5. walk' = [walk EXCEPT ![a] = w]
    BY <1>10 DEF Descend
  <2> HIDE DEF w
  <2>a. walk' \in [Actors -> Walker] /\ \A b \in Actors : walk'[b].new < nextId
    BY <2>4, <2>5, WalkLemma DEF TypeInv
  <2>b. kind' \in [Nodes -> {"CXX", "PY", "C2P"}]
    BY <1>10, <2>3 DEF Descend, TypeInv, TypeOK
  <2>6. TypeOK'
    BY <1>10, <1>a, <2>a, <2>b DEF Descend, TypeInv, TypeOK, idVars
  <2>7. WalkInv'
    BY <1>10, <1>a, <1>b, <2>3, <2>4, <2>5 DEF Descend, TypeInv, WalkInv, Placed, Walking, Holding, At, TreeOf, idVars
  <2>. QED  BY <2>6, <2>7 DEF TypeInv
<1>11. ASSUME NEW a \in Actors, Miss(a) PROVE TypeInv'
  <2>a. walk' \in [Actors -> Walker] /\ \A b \in Actors : walk'[b].new < nextId
    BY <1>11, <1>b, GoToLemma DEF Miss, Places, TypeInv
  <2>1. TypeOK'
    BY <1>11, <1>a, <2>a DEF Miss, TypeInv, TypeOK, treeVars, idVars
  <2>2. WalkInv'
    BY <1>11, <1>a, <1>b DEF Miss, GoTo, TypeInv, WalkInv, Placed, Walking, Holding, At, TreeOf, treeVars, idVars
  <2>. QED  BY <2>1, <2>2 DEF TypeInv
<1>12. ASSUME NEW t \in Threads, OldPath(t) PROVE TypeInv'
  <2>1. walk[t].node \in Nodes
    BY <1>12, <1>b DEF OldPath, TypeInv, WalkInv, Walking, At
  <2> DEFINE w == [walk[t] EXCEPT !.at = "end", !.leaf = walk[t].node]
  <2>a. w \in Walker /\ w.new = walk[t].new
    <3>1. w \in Walker
      BY <1>a, <1>b, <2>1, WalkerLemma DEF Places
    <3>2. w.new = walk[t].new
      BY <1>a, <1>b DEF Walker
    <3>. QED  BY <3>1, <3>2
  <2>b. walk' = [walk EXCEPT ![t] = w]
    BY <1>12, <1>a, <1>b DEF OldPath
  <2> HIDE DEF w
  <2>c. walk' \in [Actors -> Walker] /\ \A b \in Actors : walk'[b].new < nextId
    BY <1>b, <2>a, <2>b, WalkLemma DEF TypeInv
  <2>2. TypeOK'
    BY <1>12, <1>a, <2>1, <2>c DEF OldPath, TypeInv, TypeOK, treeVars
  <2>3. WalkInv'
    BY <1>12, <1>a, <1>b, <2>1 DEF OldPath, TypeInv, WalkInv, Placed, Walking, Holding, At, TreeOf, treeVars
  <2>. QED  BY <2>2, <2>3 DEF TypeInv
<1>13. ASSUME NEW a \in Actors, NewNode(a) PROVE TypeInv'
  <2>1. Frame(a) \in Pcs /\ KindOf(a, Frame(a)) \in {"CXX", "PY", "C2P"}
    BY <1>13, FrameLemma DEF NewNode, TypeInv, KindOf
  <2>2. nextId \in Nodes /\ nextId' = nextId + 1 /\ nextId' \in 1 .. MaxNodes + 1
    BY <1>13, <1>a DEF NewNode, TakeId, Nodes
  <2>3. a # Sampler => call[a].rsp \in Rsps
    BY <1>c DEF TypeInv, TypeOK, Launch
  <2> DEFINE w == [walk[a] EXCEPT !.at = "link", !.new = nextId]
             v == [walk[a] EXCEPT !.at = "link", !.new = nextId, !.leaf = nextId]
  <2>a. w \in Walker /\ v \in Walker
    BY <1>a, <2>2, WalkerLemma DEF Places
  <2>b. /\ w.at = "link" /\ w.new = nextId /\ w.own = walk[a].own /\ w.node = walk[a].node
        /\ v.at = "link" /\ v.new = nextId /\ v.own = walk[a].own /\ v.node = walk[a].node
    BY <1>a DEF Walker
  <2>c. walk' = [walk EXCEPT ![a] = w] \/ walk' = [walk EXCEPT ![a] = v]
    BY <1>13, <1>a DEF NewNode
  <2>d. \/ active' = active /\ esp2pcId' = esp2pcId
        \/ /\ a # Sampler /\ active' = nextId
           /\ esp2pcId' = [esp2pcId EXCEPT ![call[a].rsp] = nextId]
    BY <1>13 DEF NewNode, idVars
  <2>4. /\ active' \in Ids
        /\ esp2pcId' \in [Rsps -> Ids]
    BY <1>a, <2>2, <2>3, <2>d DEF TypeInv, TypeOK
  <2> HIDE DEF w, v
  <2>5. /\ walk' \in [Actors -> Walker]
        /\ walk'[a].at = "link" /\ walk'[a].new = nextId
        /\ walk'[a].own = walk[a].own /\ walk'[a].node = walk[a].node
        /\ \A b \in Actors \ {a} : walk'[b] = walk[b]
    BY <1>a, <2>a, <2>b, <2>c
  <2>e. \A b \in Actors : walk'[b].new < nextId'
    <3>1. \A b \in Actors : walk[b].new \in Nat
      BY <1>a DEF Walker
    <3>2. walk'[a].new < nextId'
      BY <2>2, <2>5 DEF Nodes
    <3>3. ASSUME NEW b \in Actors \ {a} PROVE walk'[b].new < nextId'
      <4>1. walk'[b].new = walk[b].new /\ walk[b].new < nextId
        BY <1>a, <2>2, <2>5
      <4>. QED  BY <2>2, <3>1, <4>1 DEF Nodes
    <3>. QED  BY <3>2, <3>3
  <2>f. pc' \in [Nodes -> Pcs \cup {NoPc}] /\ kind' \in [Nodes -> {"CXX", "PY", "C2P"}]
    BY <1>13, <2>1, <2>2 DEF NewNode, TypeInv, TypeOK
  <2>6. TypeOK'
    BY <1>13, <1>a, <2>2, <2>4, <2>5, <2>e, <2>f DEF NewNode, TypeInv, TypeOK
  <2>7. WalkInv'
    BY <1>13, <1>a, <1>b, <2>2, <2>5 DEF NewNode, TypeInv, WalkInv, Placed, Walking, Holding, At, TreeOf
  <2>. QED  BY <2>6, <2>7 DEF TypeInv
<1>14. ASSUME NEW a \in Actors, InsertNode(a) PROVE TypeInv'
  <2>1. /\ walk[a].own # <<>>
        /\ walk[a].new \in Nodes /\ walk[a].node \in Nodes
    BY <1>14 DEF InsertNode, TypeInv, WalkInv, Walking, Holding, At
  <2> DEFINE w == [Pop(walk[a]) EXCEPT !.at = "insert", !.node = walk[a].new]
  <2>2. /\ w \in Walker /\ w.at = "insert" /\ w.node = walk[a].new
        /\ w.new = walk[a].new
    <3>1. /\ Pop(walk[a]) \in Walker
          /\ Pop(walk[a]).new = walk[a].new
      BY <1>a, <2>1, PopLemma
    <3>2. w \in Walker
      BY <1>a, <2>1, <3>1, WalkerLemma DEF Places
    <3>. QED  BY <3>1, <3>2 DEF Walker
  <2>3. walk' = [walk EXCEPT ![a] = w]
    BY <1>14 DEF InsertNode
  <2> HIDE DEF w
  <2>a. walk' \in [Actors -> Walker] /\ \A b \in Actors : walk'[b].new < nextId
    BY <2>2, <2>3, WalkLemma DEF TypeInv
  <2> DEFINE n == walk[a].new  parent == walk[a].node
  <2>f. UNCHANGED <<conf, nextId, root, pc, kind, idVars, call, sampled, last>>
    BY <1>14 DEF InsertNode
  <2>b. childNodes' \in [Nodes -> SUBSET Nodes]
    BY <1>14, <1>a, <2>1 DEF InsertNode
  <2>4. TypeOK'
    <3>1. CASE pc2Child[parent][pc[n]] # Null
      <4>1. UNCHANGED <<nodeMap, parentID, pc2Child>>
        BY <1>14, <3>1 DEF InsertNode
      <4>. QED  BY <1>a, <2>a, <2>b, <2>f, <4>1 DEF TypeInv, TypeOK, idVars
    <3>2. CASE pc2Child[parent][pc[n]] = Null
      <4>1. /\ pc2Child' = [pc2Child EXCEPT ![parent][pc[n]] = n]
            /\ parentID' = [parentID EXCEPT ![n] = parent]
            /\ nodeMap' = [nodeMap EXCEPT ![TreeOf(a)] = @ \cup {n}]
        BY <1>14, <3>2 DEF InsertNode
      <4>2. parentID' \in [Nodes -> Ids]
        BY <1>a, <2>1, <4>1
      <4>3. nodeMap' \in [Threads -> SUBSET Nodes]
        BY <1>a, <1>c, <2>1, <4>1
      <4>4. pc2Child' \in [Nodes -> [Pcs -> Ids]]
        BY <1>a, <2>1, <4>1
      <4>. QED
        BY <1>a, <2>a, <2>b, <2>f, <4>2, <4>3, <4>4 DEF TypeInv, TypeOK, idVars
    <3>. QED  BY <3>1, <3>2
  <2>5. WalkInv'
    BY <1>14, <1>a, <1>b, <2>1, <2>2, <2>3 DEF InsertNode, TypeInv, WalkInv, Placed, Walking, Holding, At, TreeOf, idVars
  <2>. QED  BY <2>4, <2>5 DEF TypeInv
<1>15. ASSUME NEW a \in Actors, End(a) PROVE TypeInv'
  <2>1. Idle \in Walker /\ Idle.at = "out" /\ Idle.new = Null
    BY <1>a DEF Idle, Walker
  <2>2. a # Sampler => /\ call[a].main \o call[a].own \in Seq(Pcs)
                       /\ walk[a].leaf \in Ids
    BY <1>a, <1>c DEF TypeInv, TypeOK, Launch, Walker
  <2>3. last' \in [Threads -> [id : Ids, path : Seq(Pcs)]]
    BY <1>15, <1>c, <2>2 DEF End, TypeInv, TypeOK
  <2>4. walk' = [walk EXCEPT ![a] = Idle]
    BY <1>15 DEF End
  <2>5. TypeOK'
    BY <1>15, <1>a, <1>b, <2>1, <2>3, <2>4 DEF End, TypeInv, TypeOK, treeVars, idVars, Null
  <2>6. WalkInv'
    BY <1>15, <1>a, <1>b, <2>1, <2>4 DEF End, TypeInv, WalkInv, Placed, Walking, Holding, At, TreeOf, treeVars, idVars
  <2>. QED  BY <2>5, <2>6 DEF TypeInv
<1>16. CASE UNCHANGED vars
  BY <1>16 DEF vars, treeVars, idVars, TypeInv, TypeOK, WalkInv, Placed, Walking, Holding, At, TreeOf
<1>. QED
  BY <1>1, <1>2, <1>3, <1>4, <1>5, <1>6, <1>7, <1>8, <1>9, <1>10, <1>11, <1>12,
     <1>13, <1>14, <1>15, <1>16 DEF Next, BackTrace, Update, Walk

\* The configuration, the counter, the trees, the cache and the walks keep the
\* types TypeOK gives them, with or without Calm.
THEOREM TypesAreCorrect == Spec => []TypeOK
PROOF
<1>1. TypeInv => TypeOK
  BY DEF TypeInv
<1>2. (Init => TypeInv) /\ (TypeInv /\ [Next]_vars => TypeInv')
  BY TreeAssumption, TypeInit, TypeStep
<1>. QED  BY <1>1, <1>2, PTL DEF Spec

-----------------------------------------------------------------------------
(* The shape of the trees, while the CPU sampler keeps out of the trees    *)
(* that are being unwound into.  Nodes that are in no tree yet are blank,  *)
(* each is held by one walk, and a walk that is about to link a node still *)
(* finds nothing where it looked.                                          *)

Listed(n) == \E t \in Threads : n \in nodeMap[t]

Exclusive == At(Sampler, "out") \/ At(sampled, "out")

Numbered == \A t \in Threads : \A n \in nodeMap[t] : n < nextId

Disjoint == \A t, u \in Threads : \A n \in nodeMap[t] : n \in nodeMap[u] => t = u

Blank == \A n \in Nodes :
           ~Listed(n) => /\ parentID[n] = Null
                         /\ childNodes[n] = {}
                         /\ \A p \in Pcs : pc2Child[n][p] = Null

Rooted == \A t \in Threads : root[t] = Null => nodeMap[t] = {}

Shape == Numbered /\ Disjoint /\ Blank /\ Rooted /\ TreeConsistent

Fresh == /\ \A a \in Actors : Holding(a) => ~Listed(walk[a].new)
         /\ \A a, b \in Actors :
              Holding(a) /\ Holding(b) /\ walk[a].new = walk[b].new => a = b

Place ==
  \A a \in Actors :
    /\ Walking(a) => walk[a].node \in nodeMap[TreeOf(a)]
    /\ (At(a, "insert") \/ At(a, "link")) /\ walk[a].own # <<>> => Child(a) = Null
    /\ At(a, "link") => pc[walk[a].new] = Frame(a)

Known(n) ==
  n = Null \/ Listed(n) \/ \E t \in Threads : At(t, "link") /\ walk[t].new = n

Roles == Known(active) /\ \A r \in Rsps : Known(esp2pcId[r])

TreeInv == Exclusive /\ Shape /\ Fresh /\ Place /\ Roles

LEMMA RolesLemma == Roles => ActiveIsKnown
PROOF BY DEF Roles, Known, Listed, ActiveIsKnown

\* Two walks that are under way are in two trees.
LEMMA ExclusiveLemma ==
  ASSUME TreeAssumption, TypeOK, Exclusive, NEW a \in Actors, NEW b \in Actors,
         ~At(a, "out"), ~At(b, "out"), TreeOf(a) = TreeOf(b)
  PROVE  a = b
PROOF BY DEF Exclusive, TreeOf, Actors, TypeOK

\* What a step does to the walker it moves on.
LEMMA MoveLemma ==
  ASSUME TypeOK, NEW a \in Actors, NEW p, GoTo(a, p)
  PROVE  /\ walk'[a].at = p /\ walk'[a].node = walk[a].node
         /\ walk'[a].new = walk[a].new /\ walk'[a].leaf = walk[a].leaf
         /\ walk'[a].main = walk[a].main /\ walk'[a].own = walk[a].own
         /\ \A b \in Actors \ {a} : walk'[b] = walk[b]
PROOF BY DEF GoTo, TypeOK, Walker

\* A step that leaves trees and counter alone leaves their shape.
LEMMA ShapeKept ==
  ASSUME Shape,
         UNCHANGED <<nextId, root, nodeMap, pc, parentID, childNodes, pc2Child>>
  PROVE  Shape'
PROOF BY DEF Shape, Numbered, Disjoint, Blank, Rooted, TreeConsistent, Listed

LEMMA TreeInit == TreeAssumption /\ Init => TreeInv
PROOF
<1> SUFFICES ASSUME TreeAssumption, Init PROVE TreeInv
  OBVIOUS
<1>1. Sampler \in Actors /\ Idle.at = "out"
  BY DEF Actors, Idle
<1>2. \A a \in Actors : walk[a].at = "out"
  BY <1>1 DEF Init
<1>3. Exclusive /\ Fresh /\ Place
  BY <1>1, <1>2 DEF Exclusive, Fresh, Place, At, Holding, Walking
<1>4. Shape
  BY DEF Init, Shape, Numbered, Disjoint, Blank, Rooted, TreeConsistent
<1>5. Roles
  BY DEF Init, Roles, Known
<1>. QED  BY <1>3, <1>4, <1>5 DEF TreeInv

LEMMA TreeStep ==
  TreeAssumption /\ Calm /\ TypeInv /\ TreeInv /\ [Next]_vars => TreeInv'
PROOF
<1> SUFFICES ASSUME TreeAssumption, Calm, TypeInv, TreeInv, [Next]_vars
             PROVE  TreeInv'
  OBVIOUS
<1>a. /\ walk \in [Actors -> Walker]
      /\ root \in [Threads -> Ids] /\ sampled \in Threads
      /\ nextId \in Nat
      /\ \A a \in Actors : walk[a].new < nextId
      /\ Null \in Ids /\ Nodes \subseteq Ids /\ Ids \subseteq Nat
      /\ nodeMap \in [Threads -> SUBSET Nodes]
      /\ pc \in [Nodes -> Pcs \cup {NoPc}] /\ parentID \in [Nodes -> Ids]
      /\ pc2Child \in [Nodes -> [Pcs -> Ids]]
      /\ esp2pcId \in [Rsps -> Ids]
  BY DEF Nodes, Null, TypeInv, TypeOK, Ids, TreeAssumption
<1>b. /\ Threads \subseteq Actors /\ Sampler \in Actors /\ Sampler \notin Threads
      /\ \A a \in Actors : a # Sampler => a \in Threads
  BY DEF Actors, TreeAssumption
<1>c. \A a \in Actors : TreeOf(a) \in Threads
  BY TreeOfLemma DEF TypeInv
<1>d. TypeOK /\ WalkInv /\ Exclusive /\ Shape /\ Fresh /\ Place /\ Roles
  BY DEF TypeInv, TreeInv
<1>e. \A t \in Threads : root[t] # Null => root[t] \in nodeMap[t]
  BY <1>d DEF Shape, TreeConsistent
<1>1. ASSUME NEW t \in Threads, Enter(t) PROVE TreeInv'
  <2>1. /\ walk'[t].at = "tree" /\ walk[t].at = "out"
        /\ \A b \in Actors \ {t} : walk'[b] = walk[b]
    BY <1>1, <1>b, <1>d, MoveLemma DEF Enter, At
  <2>2. UNCHANGED <<nextId, root, nodeMap, pc, parentID, childNodes,
                    pc2Child, active, esp2pcId, sampled>>
    BY <1>1 DEF Enter, treeVars, idVars
  <2>3. Exclusive'
    <3>1. At(Sampler, "out") \/ sampled # t
      BY <1>1 DEF Enter
    <3>. QED  BY <1>a, <1>b, <1>d, <2>1, <2>2, <3>1 DEF Exclusive, At
  <2>4. Shape'
    BY <1>d, <2>2, ShapeKept
  <2>5. Fresh'
    BY <1>d, <2>1, <2>2 DEF Fresh, Holding, Listed
  <2>6. Place'
    BY <1>d, <2>1, <2>2 DEF Place, Walking, At, Child, Frame, TreeOf
  <2>7. Roles'
    BY <1>b, <1>d, <2>1, <2>2 DEF Roles, Known, Listed, At
  <2>. QED  BY <2>3, <2>4, <2>5, <2>6, <2>7 DEF TreeInv
<1>2. ASSUME NEW t \in Threads, Sample(t) PROVE TreeInv'
  <2>1. /\ walk'[Sampler].at = "tree" /\ walk[Sampler].at = "out"
        /\ \A b \in Actors \ {Sampler} : walk'[b] = walk[b]
    BY <1>2, <1>a, <1>b DEF Sample, At, Idle
  <2>2. UNCHANGED <<nextId, root, nodeMap, pc, parentID, childNodes,
                    pc2Child, active, esp2pcId>>
    BY <1>2 DEF Sample, treeVars, idVars
  <2>3. Exclusive'
    BY <1>2, <1>b, <2>1 DEF Sample, Exclusive, At
  <2>4. Shape'
    BY <1>d, <2>2, ShapeKept
  <2>5. Fresh'
    BY <1>d, <2>1, <2>2 DEF Fresh, Holding, Listed
  <2>6. Place'
    BY <1>d, <2>1, <2>2 DEF Place, Walking, At, Child, Frame, TreeOf
  <2>7. Roles'
    BY <1>b, <1>d, <2>1, <2>2 DEF Roles, Known, Listed, At
  <2>. QED  BY <2>3, <2>4, <2>5, <2>6, <2>7 DEF TreeInv
<1>3. ASSUME NEW a \in Actors, HasTree(a) PROVE TreeInv'
  <2>1. /\ walk'[a].at = "look" /\ walk[a].at = "tree"
        /\ \A b \in Actors \ {a} : walk'[b] = walk[b]
    BY <1>3, <1>d, MoveLemma DEF HasTree, At
  <2>2. UNCHANGED <<nextId, root, nodeMap, pc, parentID, childNodes,
                    pc2Child, active, esp2pcId, sampled>>
    BY <1>3 DEF HasTree, treeVars, idVars
  <2>3. Exclusive'
    BY <1>a, <1>b, <1>d, <2>1, <2>2 DEF Exclusive, At
  <2>4. Shape'
    BY <1>d, <2>2, ShapeKept
  <2>5. Fresh'
    BY <1>d, <2>1, <2>2 DEF Fresh, Holding, Listed
  <2>6. Place'
    BY <1>d, <2>1, <2>2 DEF Place, Walking, At, Child, Frame, TreeOf
  <2>7. Roles'
    BY <1>b, <1>d, <2>1, <2>2 DEF Roles, Known, Listed, At
  <2>. QED  BY <2>3, <2>4, <2>5, <2>6, <2>7 DEF TreeInv
<1>4. ASSUME NEW a \in Actors, NewRoot(a) PROVE TreeInv'
  <2>1. /\ walk'[a].at = "root" /\ walk[a].at = "tree" /\ walk'[a].new = nextId
        /\ \A b \in Actors \ {a} : walk'[b] = walk[b]
    BY <1>4, <1>a DEF NewRoot, At, Walker
  <2>2. UNCHANGED <<root, nodeMap, pc, parentID, childNodes,
                    pc2Child, active, esp2pcId, sampled>>
    BY <1>4 DEF NewRoot, treeVars, idVars
  <2>3. Exclusive'
    BY <1>a, <1>b, <1>d, <2>1, <2>2 DEF Exclusive, At
  <2>4. Shape'
    <3>1. nextId' = nextId + 1
      BY <1>4 DEF NewRoot, TakeId
    <3>2. \A t \in Threads : \A n \in nodeMap[t] : n < nextId'
      BY <1>a, <1>d, <3>1 DEF Shape, Numbered, Nodes
    <3>. QED
      BY <1>d, <2>2, <3>2 DEF Shape, Numbered, Disjoint, Blank, Rooted, TreeConsistent, Listed
  <2>5. Fresh'
    <3>1. ~Listed(nextId)
      BY <1>a, <1>d DEF Shape, Numbered, Listed
    <3>2. \A b \in Actors : walk[b].new # nextId
      BY <1>a
    <3>. QED  BY <1>d, <2>1, <2>2, <3>1, <3>2 DEF Fresh, Holding, Listed
  <2>6. Place'
    BY <1>d, <2>1, <2>2 DEF Place, Walking, At, Child, Frame, TreeOf
  <2>7. Roles'
    BY <1>b, <1>d, <2>1, <2>2 DEF Roles, Known, Listed, At
  <2>. QED  BY <2>3, <2>4, <2>5, <2>6, <2>7 DEF TreeInv
<1>5. ASSUME NEW a \in Actors, SetRoot(a) PROVE TreeInv'
  <2> DEFINE t == TreeOf(a)  n == walk[a].new
  <2>1. /\ walk'[a].at = "look" /\ walk[a].at = "root"
        /\ \A b \in Actors \ {a} : walk'[b] = walk[b]
    BY <1>5, <1>d, MoveLemma DEF SetRoot, At
  <2>2. UNCHANGED <<nextId, pc, parentID, childNodes,
                    pc2Child, active, esp2pcId, sampled>>
    BY <1>5 DEF SetRoot, idVars
  <2>3. Exclusive'
    BY <1>a, <1>b, <1>d, <2>1, <2>2 DEF Exclusive, At
  <2>4. CASE root[t] # Null
    <3>1. UNCHANGED <<root, nodeMap>>
      BY <1>5, <2>4 DEF SetRoot
    <3>2. Shape'
      BY <1>d, <2>2, <3>1, ShapeKept
    <3>3. Fresh'
      BY <1>d, <2>1, <3>1 DEF Fresh, Holding, Listed
    <3>4. Place'
      BY <1>d, <2>1, <2>2, <3>1 DEF Place, Walking, At, Child, Frame, TreeOf
    <3>5. Roles'
      BY <1>b, <1>d, <2>1, <2>2, <3>1 DEF Roles, Known, Listed, At
    <3>. QED  BY <2>3, <3>2, <3>3, <3>4, <3>5 DEF TreeInv
  <2>5. CASE root[t] = Null
    <3>1. t \in Threads /\ n \in Nodes /\ n < nextId /\ n # Null
      BY <1>a, <1>c, <1>d, <2>1 DEF WalkInv, Holding, Nodes, Null
    <3>2. nodeMap[t] = {}
      BY <1>d, <2>5, <3>1 DEF Shape, Rooted
    <3>3. /\ root' = [root EXCEPT ![t] = n]
          /\ nodeMap' = [nodeMap EXCEPT ![t] = {n}]
      BY <1>5, <2>5 DEF SetRoot
    <3>4. /\ root'[t] = n /\ nodeMap'[t] = {n}
          /\ \A u \in Threads \ {t} : root'[u] = root[u] /\ nodeMap'[u] = nodeMap[u]
      BY <1>a, <3>1, <3>3
    <3>5. ~Listed(n)
      BY <1>d, <2>1 DEF Fresh, Holding
    <3>6. parentID[n] = Null /\ childNodes[n] = {} /\ \A p \in Pcs : pc2Child[n][p] = Null
      BY <1>d, <3>1, <3>5 DEF Shape, Blank
    <3> HIDE DEF t, n
    <3>7. Shape'
      <4>1. Numbered' /\ Disjoint' /\ Rooted'
        BY <1>d, <2>2, <3>1, <3>4, <3>5 DEF Shape, Numbered, Disjoint, Rooted, Listed
      <4>2. Blank'
        BY <1>d, <2>2, <3>1, <3>2, <3>4 DEF Shape, Blank, Listed
      <4>3. TreeConsistent'
        BY <1>d, <2>2, <3>1, <3>4, <3>6 DEF Shape, TreeConsistent
      <4>. QED  BY <4>1, <4>2, <4>3 DEF Shape
    <3>8. Fresh'
      <4>1. \A b \in Actors \ {a} : Holding(b) => walk[b].new # n
        BY <1>d, <2>1 DEF Fresh, Holding, n
      <4>. QED  BY <1>d, <2>1, <3>4, <4>1 DEF Fresh, Holding, Listed
    <3>9. Place'
      <4>1. \A b \in Actors \ {a} : Walking(b) => TreeOf(b) # t
        BY <1>d, <3>2 DEF Place
      <4>. QED  BY <1>c, <1>d, <2>1, <2>2, <3>4, <4>1 DEF Place, Walking, At, Child, Frame, TreeOf
    <3>10. Roles'
      BY <1>b, <1>d, <2>1, <2>2, <3>2, <3>4 DEF Roles, Known, Listed, At
    <3>. QED  BY <2>3, <3>7, <3>8, <3>9, <3>10 DEF TreeInv
  <2>. QED  BY <2>4, <2>5
<1>6. ASSUME NEW t \in Threads, FakeBackTrace(t) PROVE TreeInv'
  <2>1. /\ walk'[t].at = "out" /\ walk[t].at = "look"
        /\ \A b \in Actors \ {t} : walk'[b] = walk[b]
    BY <1>6, <1>b, <1>d, MoveLemma DEF FakeBackTrace, At
  <2>2. /\ UNCHANGED <<nextId, root, nodeMap, pc, parentID, childNodes,
                       pc2Child, esp2pcId, sampled>>
        /\ active' = root[t]
    BY <1>6 DEF FakeBackTrace, treeVars
  <2>3. Exclusive'
    BY <1>a, <1>b, <1>d, <2>1, <2>2 DEF Exclusive, At
  <2>4. Shape'
    BY <1>d, <2>2, ShapeKept
  <2>5. Fresh'
    BY <1>d, <2>1, <2>2 DEF Fresh, Holding, Listed
  <2>6. Place'
    BY <1>d, <2>1, <2>2 DEF Place, Walking, At, Child, Frame, TreeOf
  <2>7. Roles'
    BY <1>b, <1>d, <1>e, <2>1, <2>2 DEF Roles, Known, Listed, At
  <2>. QED  BY <2>3, <2>4, <2>5, <2>6, <2>7 DEF TreeInv
<1>7. ASSUME NEW t \in Threads, UseCached(t) PROVE TreeInv'
  <2>1. /\ walk'[t].at = "out" /\ walk[t].at = "look"
        /\ \A b \in Actors \ {t} : walk'[b] = walk[b]
    BY <1>7, <1>b, <1>d, MoveLemma DEF UseCached, At
  <2>2. /\ UNCHANGED <<nextId, root, nodeMap, pc, parentID, childNodes,
                       pc2Child, esp2pcId, sampled>>
        /\ active' = esp2pcId[call[t].rsp] /\ call[t].rsp \in Rsps
    BY <1>7, <1>d DEF UseCached, treeVars, TypeOK, Launch
  <2>3. Exclusive'
    BY <1>a, <1>b, <1>d, <2>1, <2>2 DEF Exclusive, At
  <2>4. Shape'
    BY <1>d, <2>2, ShapeKept
  <2>5. Fresh'
    BY <1>d, <2>1, <2>2 DEF Fresh, Holding, Listed
  <2>6. Place'
    BY <1>d, <2>1, <2>2 DEF Place, Walking, At, Child, Frame, TreeOf
  <2>7. Roles'
    BY <1>b, <1>d, <2>1, <2>2 DEF Roles, Known, Listed, At
  <2>. QED  BY <2>3, <2>4, <2>5, <2>6, <2>7 DEF TreeInv
<1>8. ASSUME NEW t \in Threads, Unwind(t) PROVE TreeInv'
  <2>1. /\ walk'[t].at = "search" /\ walk[t].at = "look" /\ walk'[t].node = root[t]
        /\ \A b \in Actors \ {t} : walk'[b] = walk[b]
    BY <1>8, <1>a, <1>b DEF Unwind, At, Idle
  <2>2. UNCHANGED <<nextId, root, nodeMap, pc, parentID, childNodes,
                    pc2Child, active, esp2pcId, sampled>>
    BY <1>8 DEF Unwind, treeVars, idVars
  <2>3. Exclusive'
    BY <1>a, <1>b, <1>d, <2>1, <2>2 DEF Exclusive, At
  <2>4. Shape'
    BY <1>d, <2>2, ShapeKept
  <2>5. Fresh'
    BY <1>d, <2>1, <2>2 DEF Fresh, Holding, Listed
  <2>6. Place'
    <3>1. TreeOf(t) = t /\ root[t] \in nodeMap[t]
      BY <1>b, <1>d, <1>e, <2>1 DEF WalkInv, Placed, TreeOf
    <3>. QED
      BY <1>d, <2>1, <2>2, <3>1 DEF Place, Walking, At, Child, Frame, TreeOf
  <2>7. Roles'
    BY <1>b, <1>d, <2>1, <2>2 DEF Roles, Known, Listed, At
  <2>. QED  BY <2>3, <2>4, <2>5, <2>6, <2>7 DEF TreeInv
<1>9. ASSUME StartUpdate PROVE TreeInv'
  <2>1. /\ walk'[Sampler].at = "search" /\ walk[Sampler].at = "look"
        /\ walk'[Sampler].node = root[sampled]
        /\ \A b \in Actors \ {Sampler} : walk'[b] = walk[b]
    BY <1>9, <1>a, <1>b DEF StartUpdate, At, Walker
  <2>2. UNCHANGED <<nextId, root, nodeMap, pc, parentID, childNodes,
                    pc2Child, active, esp2pcId, sampled>>
    BY <1>9 DEF StartUpdate, treeVars, idVars
  <2>3. Exclusive'
    BY <1>a, <1>b, <1>d, <2>1, <2>2 DEF Exclusive, At
  <2>4. Shape'
    BY <1>d, <2>2, ShapeKept
  <2>5. Fresh'
    BY <1>d, <2>1, <2>2 DEF Fresh, Holding, Listed
  <2>6. Place'
    <3>1. TreeOf(Sampler) = sampled /\ root[sampled] \in nodeMap[sampled]
      BY <1>a, <1>b, <1>d, <1>e, <2>1 DEF WalkInv, Placed, TreeOf
    <3>. QED
      BY <1>d, <2>1, <2>2, <3>1 DEF Place, Walking, At, Child, Frame, TreeOf
  <2>7. Roles'
    BY <1>b, <1>d, <2>1, <2>2 DEF Roles, Known, Listed, At
  <2>. QED  BY <2>3, <2>4, <2>5, <2>6, <2>7 DEF TreeInv
<1>10. ASSUME NEW a \in Actors, Descend(a) PROVE TreeInv'
  <2>1. /\ Frame(a) \in Pcs /\ walk[a].own # <<>> /\ walk[a].at = "search"
        /\ Child(a) # Null
    BY <1>10, <1>d, FrameLemma DEF Descend, At
  <2>2. Child(a) \in nodeMap[TreeOf(a)]
    <3>1. walk[a].node \in nodeMap[TreeOf(a)]
      BY <1>d, <2>1 DEF Place, Walking
    <3>. QED  BY <1>c, <1>d, <2>1, <3>1 DEF Shape, TreeConsistent, Child
  <2>3. /\ walk'[a].at = "search" /\ walk'[a].node = Child(a)
        /\ \A b \in Actors \ {a} : walk'[b] = walk[b]
    <3>1. Pop(walk[a]) \in Walker /\ Pop(walk[a]).at = "search"
      BY <1>a, <2>1, PopLemma
    <3>. QED  BY <1>10, <1>a, <3>1 DEF Descend, Walker
  <2>4. UNCHANGED <<nextId, root, nodeMap, pc, parentID, childNodes,
                    pc2Child, active, esp2pcId, sampled>>
    BY <1>10 DEF Descend, idVars
  <2>5. Exclusive'
    BY <1>a, <1>b, <1>d, <2>1, <2>3, <2>4 DEF Exclusive, At
  <2>6. Shape'
    BY <1>d, <2>4, ShapeKept
  <2>7. Fresh'
    BY <1>d, <2>3, <2>4 DEF Fresh, Holding, Listed
  <2>8. Place'
    <3>1. TreeOf(a)' = TreeOf(a)
      BY <2>4 DEF TreeOf
    <3>2. walk'[a].node \in nodeMap'[TreeOf(a)']
      BY <2>2, <2>3, <2>4, <3>1
    <3>. QED
      BY <1>d, <2>3, <2>4, <3>2 DEF Place, Walking, At, Child, Frame, TreeOf
  <2>9. Roles'
    BY <1>b, <1>d, <2>1, <2>3, <2>4 DEF Roles, Known, Listed, At
  <2>. QED  BY <2>5, <2>6, <2>7, <2>8, <2>9 DEF TreeInv
<1>11. ASSUME NEW a \in Actors, Miss(a) PROVE TreeInv'
  <2>1. /\ walk'[a].at = "insert" /\ walk[a].at = "search" /\ walk'[a].node = walk[a].node
        /\ walk'[a].main = walk[a].main /\ walk'[a].own = walk[a].own
        /\ \A b \in Actors \ {a} : walk'[b] = walk[b]
    BY <1>11, <1>d, MoveLemma DEF Miss, At
  <2>2. UNCHANGED <<nextId, root, nodeMap, pc, parentID, childNodes,
                    pc2Child, active, esp2pcId, sampled>>
    BY <1>11 DEF Miss, treeVars, idVars
  <2>3. Exclusive'
    BY <1>a, <1>b, <1>d, <2>1, <2>2 DEF Exclusive, At
  <2>4. Shape'
    BY <1>d, <2>2, ShapeKept
  <2>5. Fresh'
    BY <1>d, <2>1, <2>2 DEF Fresh, Holding, Listed
  <2>6. Place'
    <3>1. Child(a) = Null
      BY <1>11 DEF Miss
    <3>. QED
      BY <1>d, <2>1, <2>2, <3>1 DEF Place, Walking, At, Child, Frame, TreeOf
  <2>7. Roles'
    BY <1>b, <1>d, <2>1, <2>2 DEF Roles, Known, Listed, At
  <2>. QED  BY <2>3, <2>4, <2>5, <2>6, <2>7 DEF TreeInv
<1>12. ASSUME NEW t \in Threads, OldPath(t) PROVE TreeInv'
  <2>1. /\ walk'[t].at = "end" /\ walk[t].at = "search"
        /\ \A b \in Actors \ {t} : walk'[b] = walk[b]
    BY <1>12, <1>a, <1>b DEF OldPath, At, Walker
  <2>2. /\ UNCHANGED <<nextId, root, nodeMap, pc, parentID, childNodes,
                       pc2Child, esp2pcId, sampled>>
        /\ active' = walk[t].node
    BY <1>12 DEF OldPath, treeVars
  <2>3. Exclusive'
    BY <1>a, <1>b, <1>d, <2>1, <2>2 DEF Exclusive, At
  <2>4. Shape'
    BY <1>d, <2>2, ShapeKept
  <2>5. Fresh'
    BY <1>d, <2>1, <2>2 DEF Fresh, Holding, Listed
  <2>6. Place'
    BY <1>d, <2>1, <2>2 DEF Place, Walking, At, Child, Frame, TreeOf
  <2>7. Roles'
    <3>1. Listed(walk[t].node)
      BY <1>b, <1>c, <1>d, <2>1 DEF Place, Walking, Listed
    <3>. QED  BY <1>b, <1>d, <2>1, <2>2, <3>1 DEF Roles, Known, Listed, At
  <2>. QED  BY <2>3, <2>4, <2>5, <2>6, <2>7 DEF TreeInv
<1>13. ASSUME NEW a \in Actors, NewNode(a) PROVE TreeInv'
  <2>1. /\ walk'[a].at = "link" /\ walk[a].at = "insert" /\ walk'[a].new = nextId
        /\ walk'[a].node = walk[a].node /\ walk[a].own # <<>>
        /\ walk'[a].main = walk[a].main /\ walk'[a].own = walk[a].own
        /\ \A b \in Actors \ {a} : walk'[b] = walk[b]
    BY <1>13, <1>a DEF NewNode, At, Walker
  <2>2. /\ UNCHANGED <<root, nodeMap, parentID, childNodes, pc2Child, sampled>>
        /\ nextId' = nextId + 1 /\ nextId \in Nodes
        /\ pc' = [pc EXCEPT ![nextId] = Frame(a)]
    BY <1>13 DEF NewNode, TakeId
  <2>3. pc'[nextId] = Frame(a) /\ \A n \in Nodes \ {nextId} : pc'[n] = pc[n]
    BY <1>a, <2>2
  <2>4. ~Listed(nextId) /\ \A b \in Actors : walk[b].new # nextId
    BY <1>a, <1>d DEF Shape, Numbered, Listed
  <2>5. Exclusive'
    BY <1>a, <1>b, <1>d, <2>1, <2>2 DEF Exclusive, At
  <2>6. Shape'
    <3>1. \A t \in Threads : \A n \in nodeMap[t] : n < nextId' /\ pc'[n] = pc[n]
      BY <1>a, <1>d, <2>2, <2>3 DEF Shape, Numbered, Nodes
    <3>. QED
      BY <1>d, <2>2, <3>1 DEF Shape, Numbered, Disjoint, Blank, Rooted, TreeConsistent, Listed
  <2>7. Fresh'
    BY <1>d, <2>1, <2>2, <2>4 DEF Fresh, Holding, Listed
  <2>8. Place'
    <3>1. Frame(a)' = Frame(a) /\ TreeOf(a)' = TreeOf(a)
      BY <2>1, <2>2 DEF Frame, TreeOf
    <3>2. Child(a) = Null
      BY <1>d, <2>1 DEF Place, At
    <3>3. Child(a)' = Null
      BY <2>1, <2>2, <3>1, <3>2 DEF Child
    <3>4. \A b \in Actors \ {a} :
            At(b, "link") => pc'[walk[b].new] = pc[walk[b].new]
      BY <1>d, <2>3, <2>4 DEF WalkInv, Holding, At
    <3>5. /\ Walking(a)' => walk'[a].node \in nodeMap'[TreeOf(a)']
          /\ At(a, "link")' => pc'[walk'[a].new] = Frame(a)'
      BY <1>d, <2>1, <2>2, <2>3, <3>1 DEF Place, Walking
    <3>6. ASSUME NEW b \in Actors \ {a}
          PROVE  /\ Walking(b)' => walk'[b].node \in nodeMap'[TreeOf(b)']
                 /\ (At(b, "insert") \/ At(b, "link"))' /\ walk'[b].own # <<>> => Child(b)' = Null
                 /\ At(b, "link")' => pc'[walk'[b].new] = Frame(b)'
      BY <1>d, <2>1, <2>2, <3>4 DEF Place, Walking, At, Child, Frame, TreeOf
    <3>. QED  BY <3>3, <3>5, <3>6 DEF Place
  <2>9. Roles'
    <3>1. \/ active' = active /\ esp2pcId' = esp2pcId
          \/ /\ a # Sampler /\ active' = nextId
             /\ esp2pcId' = [esp2pcId EXCEPT ![call[a].rsp] = nextId]
      BY <1>13 DEF NewNode, idVars
    <3>2. ASSUME NEW n, Known(n) PROVE Known(n)'
      BY <1>b, <2>1, <2>2, <3>2 DEF Known, Listed, At
    <3>3. ASSUME NEW n, n = nextId, a # Sampler PROVE Known(n)'
      BY <1>b, <2>1, <3>3 DEF Known, At
    <3>4. CASE active' = active /\ esp2pcId' = esp2pcId
      BY <1>d, <3>2, <3>4 DEF Roles, Known, Listed, At
    <3>5. CASE /\ a # Sampler /\ active' = nextId
               /\ esp2pcId' = [esp2pcId EXCEPT ![call[a].rsp] = nextId]
      <4>1. \A r \in Rsps : esp2pcId'[r] = nextId \/ esp2pcId'[r] = esp2pcId[r]
        BY <1>a, <3>5
      <4>2. Known(active)'
        BY <3>3, <3>5 DEF Known, Listed, At
      <4>3. ASSUME NEW r \in Rsps PROVE Known(esp2pcId[r])'
        <5>1. CASE esp2pcId'[r] = nextId
          BY <3>3, <3>5, <5>1 DEF Known, Listed, At
        <5>2. CASE esp2pcId'[r] = esp2pcId[r]
          <6>1. Known(esp2pcId[r])
            BY <1>d DEF Roles
          <6>. QED  BY <3>2, <5>2, <6>1 DEF Known, Listed, At
        <5>. QED  BY <4>1, <5>1, <5>2
      <4>. QED  BY <4>2, <4>3 DEF Roles
    <3>. QED  BY <3>1, <3>4, <3>5
  <2>. QED  BY <2>5, <2>6, <2>7, <2>8, <2>9 DEF TreeInv
<1>14. ASSUME NEW a \in Actors, InsertNode(a) PROVE TreeInv'
  <2> DEFINE t == TreeOf(a)  n == walk[a].new  parent == walk[a].node
  <2>1. /\ walk[a].at = "link" /\ walk[a].own # <<>>
        /\ t \in Threads /\ n \in Nodes /\ n # Null /\ n < nextId
        /\ parent \in nodeMap[t] /\ parent \in Nodes
    BY <1>14, <1>a, <1>c, <1>d
       DEF InsertNode, WalkInv, Place, Walking, Holding, At, Nodes, Null
  <2>2. Frame(a) \in Pcs /\ pc[n] = Frame(a) /\ pc2Child[parent][pc[n]] = Null
    BY <1>d, <2>1, FrameLemma DEF Place, At, Child
  <2>3. /\ walk'[a].at = "insert" /\ walk'[a].node = n
        /\ \A b \in Actors \ {a} : walk'[b] = walk[b]
    <3>1. Pop(walk[a]) \in Walker
      BY <1>a, <2>1, PopLemma
    <3>. QED  BY <1>14, <1>a, <3>1 DEF InsertNode, Walker
  <2>4. /\ UNCHANGED <<nextId, root, pc, active, esp2pcId, sampled>>
        /\ pc2Child' = [pc2Child EXCEPT ![parent][pc[n]] = n]
        /\ parentID' = [parentID EXCEPT ![n] = parent]
        /\ childNodes' = [childNodes EXCEPT ![parent] = @ \cup {n}]
        /\ nodeMap' = [nodeMap EXCEPT ![t] = @ \cup {n}]
    BY <1>14, <2>2 DEF InsertNode, idVars
  <2>5. ~Listed(n)
    BY <1>d, <2>1 DEF Fresh, Holding
  <2>6. /\ n # parent /\ parentID[n] = Null /\ childNodes[n] = {}
        /\ \A p \in Pcs : pc2Child[n][p] = Null
    BY <1>d, <2>1, <2>5 DEF Shape, Blank, Listed
  <2>7. /\ pc2Child'[parent][pc[n]] = n /\ pc2Child'[n] = pc2Child[n]
        /\ \A p \in Pcs \ {pc[n]} : pc2Child'[parent][p] = pc2Child[parent][p]
        /\ \A m \in Nodes \ {parent} : pc2Child'[m] = pc2Child[m]
    BY <1>a, <2>1, <2>2, <2>4, <2>6
  <2>8. /\ parentID'[n] = parent
        /\ \A m \in Nodes \ {n} : parentID'[m] = parentID[m]
    BY <1>a, <2>1, <2>4
  <2>c. /\ childNodes'[parent] = childNodes[parent] \cup {n}
        /\ \A m \in Nodes \ {parent} : childNodes'[m] = childNodes[m]
    <3>1. childNodes \in [Nodes -> SUBSET Nodes]
      BY <1>d DEF TypeOK
    <3>. QED  BY <2>1, <2>4, <3>1
  <2>9. /\ nodeMap'[t] = nodeMap[t] \cup {n}
        /\ \A u \in Threads \ {t} : nodeMap'[u] = nodeMap[u]
    BY <1>a, <2>1, <2>4
  <2>10. \A m : Listed(m) => Listed(m)'
    BY <2>9 DEF Listed
  <2>11. \A b \in Actors \ {a} : walk[b].at # "out" => TreeOf(b) # t
    BY <1>d, <2>1, ExclusiveLemma DEF At
  <2> HIDE DEF t, n, parent
  <2>12. Exclusive'
    BY <1>a, <1>b, <1>d, <2>1, <2>3, <2>4 DEF Exclusive, At
  <2>13. Shape'
    <3>1. Numbered' /\ Rooted'
      BY <1>d, <2>1, <2>4, <2>9 DEF Shape, Numbered, Rooted
    <3>2. Disjoint'
      BY <1>d, <2>1, <2>5, <2>9 DEF Shape, Disjoint, Listed
    <3>3. Blank'
      <4>1. ASSUME NEW m \in Nodes, ~Listed(m)'
            PROVE  m # n /\ m # parent /\ ~Listed(m)
        BY <2>1, <2>9, <2>10, <4>1 DEF Listed
      <4>2. ASSUME NEW m \in Nodes, ~Listed(m)'
            PROVE  /\ parentID'[m] = Null /\ childNodes'[m] = {}
                   /\ \A p \in Pcs : pc2Child'[m][p] = Null
        BY <1>d, <2>7, <2>8, <2>c, <4>1, <4>2 DEF Shape, Blank
      <4>. QED  BY <4>2 DEF Blank
    <3>4. TreeConsistent'
      <4>1. ASSUME NEW u \in Threads, root'[u] # Null
            PROVE  root'[u] \in nodeMap'[u] /\ parentID'[root'[u]] = Null
        <5>1. root[u] \in nodeMap[u] /\ parentID[root[u]] = Null
          BY <1>d, <2>4, <4>1 DEF Shape, TreeConsistent
        <5>2. root[u] # n /\ root[u] \in Nodes
          BY <1>a, <2>5, <5>1 DEF Listed
        <5>. QED  BY <2>4, <2>8, <2>9, <5>1, <5>2
      <4>2. ASSUME NEW u \in Threads, NEW m \in nodeMap'[u], m # root'[u]
            PROVE  parentID'[m] \in nodeMap'[u] /\ pc2Child'[parentID'[m]][pc'[m]] = m
        <5>1. CASE m = n
          <6>1. u = t
            BY <2>1, <2>5, <2>9, <5>1 DEF Listed
          <6>. QED  BY <2>1, <2>4, <2>7, <2>8, <2>9, <5>1, <6>1
        <5>2. CASE m # n
          <6>1. m \in nodeMap[u] /\ m \in Nodes
            <7>1. nodeMap'[u] \subseteq nodeMap[u] \cup {n}
              BY <2>9
            <7>. QED  BY <1>a, <5>2, <7>1
          <6>2. parentID[m] \in nodeMap[u] /\ pc2Child[parentID[m]][pc[m]] = m
            BY <1>d, <2>4, <4>2, <6>1 DEF Shape, TreeConsistent
          <6>3. parentID[m] \in Nodes /\ m # Null /\ pc[m] \in Pcs \cup {NoPc}
            BY <1>a, <6>1, <6>2 DEF Nodes, Null
          <6>4. pc2Child'[parentID[m]][pc[m]] = m
            <7>1. CASE parentID[m] # parent
              BY <2>7, <6>2, <6>3, <7>1
            <7>2. CASE parentID[m] = parent
              <8>1. pc[m] # pc[n]
                BY <2>2, <6>2, <6>3, <7>2 DEF parent, n
              <8>2. pc2Child'[parent][pc[m]] = pc2Child[parent][pc[m]]
                BY <1>a, <2>1, <2>4, <8>1
              <8>. QED  BY <6>2, <7>2, <8>2
            <7>. QED  BY <7>1, <7>2
          <6>. QED  BY <2>4, <2>8, <2>9, <5>2, <6>1, <6>2, <6>4
        <5>. QED  BY <5>1, <5>2
      <4>3. ASSUME NEW u \in Threads, NEW m \in nodeMap'[u], NEW p \in Pcs,
                   pc2Child'[m][p] # Null
            PROVE  pc2Child'[m][p] \in nodeMap'[u]
        <5>1. m # n
          BY <2>6, <2>7, <4>3
        <5>2. m \in nodeMap[u] /\ m \in Nodes
          BY <1>a, <2>9, <5>1
        <5>3. CASE m = parent /\ p = pc[n]
          <6>1. u = t
            BY <1>d, <2>1, <5>2, <5>3 DEF Shape, Disjoint
          <6>. QED  BY <2>7, <2>9, <5>3, <6>1
        <5>4. CASE ~(m = parent /\ p = pc[n])
          <6>1. pc2Child'[m][p] = pc2Child[m][p]
            BY <2>7, <5>2, <5>4
          <6>2. pc2Child[m][p] \in nodeMap[u]
            BY <1>d, <4>3, <5>2, <6>1 DEF Shape, TreeConsistent
          <6>. QED  BY <2>9, <6>1, <6>2
        <5>. QED  BY <5>3, <5>4
      <4>4. ASSUME NEW u \in Threads, NEW m \in nodeMap'[u], NEW k \in childNodes'[m]
            PROVE  k \in nodeMap'[u] /\ parentID'[k] = m
        <5>1. CASE m = parent /\ k = n
          <6>1. parent \in nodeMap[u]
            BY <2>1, <2>6, <2>9, <5>1
          <6>2. u = t
            BY <1>d, <2>1, <6>1 DEF Shape, Disjoint
          <6>. QED  BY <2>8, <2>9, <5>1, <6>2
        <5>2. CASE ~(m = parent /\ k = n)
          <6>1. m # n
            BY <2>6, <2>c, <4>4, <2>1
          <6>2. m \in nodeMap[u] /\ m \in Nodes
            BY <1>a, <2>9, <6>1
          <6>3. k \in childNodes[m]
            BY <2>c, <4>4, <5>2, <6>2
          <6>4. k \in nodeMap[u] /\ parentID[k] = m
            BY <1>d, <6>2, <6>3 DEF Shape, TreeConsistent
          <6>5. k # n /\ k \in Nodes
            BY <1>a, <2>5, <6>4 DEF Listed
          <6>. QED  BY <2>8, <2>9, <6>4, <6>5
        <5>. QED  BY <5>1, <5>2
      <4>. QED  BY <4>1, <4>2, <4>3, <4>4 DEF TreeConsistent
    <3>. QED  BY <3>1, <3>2, <3>3, <3>4 DEF Shape
  <2>14. Fresh'
    <3>1. \A b \in Actors \ {a} : Holding(b) => walk[b].new # n
      BY <1>d, <2>1 DEF Fresh, Holding, n
    <3>. QED  BY <1>d, <2>3, <2>9, <3>1 DEF Fresh, Holding, Listed
  <2>15. Place'
    <3>1. TreeOf(a)' = t
      BY <2>4 DEF TreeOf, t
    <3>2. walk'[a].node \in nodeMap'[TreeOf(a)']
      BY <2>3, <2>9, <3>1
    <3>3. walk'[a].own # <<>> => Child(a)' = Null
      <4>1. walk'[a].own # <<>> => Frame(a)' \in Pcs
        <5>1. ASSUME TypeOK', walk'[a].own # <<>> PROVE Frame(a)' \in Pcs
          <6>1. walk'[a] \in Walker
            BY <5>1 DEF TypeOK
          <6>2. walk'[a].main \in Seq(Pcs) /\ walk'[a].own \in Seq(Pcs)
            BY <6>1 DEF Walker
          <6>. QED  BY <5>1, <6>2 DEF Frame
        <5>2. TypeOK'
          BY TypeStep DEF TypeInv
        <5>. QED  BY <5>1, <5>2
      <4>. QED  BY <2>3, <2>6, <2>7, <4>1 DEF Child
    <3>4. ASSUME NEW b \in Actors \ {a}
          PROVE  /\ Walking(b)' => walk'[b].node \in nodeMap'[TreeOf(b)']
                 /\ (At(b, "insert") \/ At(b, "link"))' /\ walk'[b].own # <<>> => Child(b)' = Null
                 /\ At(b, "link")' => pc'[walk'[b].new] = Frame(b)'
      <4>1. /\ walk'[b] = walk[b] /\ TreeOf(b)' = TreeOf(b) /\ Frame(b)' = Frame(b)
            /\ TreeOf(b) \in Threads
        BY <1>c, <2>3, <2>4 DEF TreeOf, Frame
      <4>2. Walking(b) => /\ walk[b].node \in nodeMap[TreeOf(b)]
                          /\ walk[b].node \in Nodes /\ TreeOf(b) # t
        BY <1>d, <2>11 DEF Place, WalkInv, Walking
      <4>3. Walking(b) => walk[b].node # parent
        BY <1>d, <2>1, <4>1, <4>2 DEF Shape, Disjoint
      <4>4. Walking(b) => Child(b)' = Child(b)
        BY <2>7, <4>1, <4>2, <4>3 DEF Child
      <4>. QED  BY <1>d, <2>4, <2>9, <4>1, <4>2, <4>4 DEF Place, Walking, At
    <3>. QED  BY <2>3, <3>2, <3>3, <3>4 DEF Place, At
  <2>16. Roles'
    <3>1. ASSUME NEW m, Known(m) PROVE Known(m)'
      <4>1. CASE \E u \in Threads : At(u, "link") /\ walk[u].new = m
        <5>1. PICK u \in Threads : At(u, "link") /\ walk[u].new = m
          BY <4>1
        <5>2. CASE u = a
          BY <2>1, <2>9, <5>1, <5>2 DEF Known, Listed, n
        <5>3. CASE u # a
          BY <1>b, <2>3, <5>1, <5>3 DEF Known, At
        <5>. QED  BY <5>2, <5>3
      <4>. QED  BY <2>10, <3>1, <4>1 DEF Known
    <3>. QED  BY <1>d, <2>4, <3>1 DEF Roles, Known, Listed, At
  <2>. QED  BY <2>12, <2>13, <2>14, <2>15, <2>16 DEF TreeInv
<1>15. ASSUME NEW a \in Actors, End(a) PROVE TreeInv'
  <2>1. /\ walk'[a].at = "out" /\ walk[a].at # "link"
        /\ \A b \in Actors \ {a} : walk'[b] = walk[b]
    BY <1>15, <1>a DEF End, At, Idle
  <2>2. UNCHANGED <<nextId, root, nodeMap, pc, parentID, childNodes,
                    pc2Child, active, esp2pcId, sampled>>
    BY <1>15 DEF End, treeVars, idVars
  <2>3. Exclusive'
    BY <1>a, <1>b, <1>d, <2>1, <2>2 DEF Exclusive, At
  <2>4. Shape'
    BY <1>d, <2>2, ShapeKept
  <2>5. Fresh'
    BY <1>d, <2>1, <2>2 DEF Fresh, Holding, Listed
  <2>6. Place'
    BY <1>d, <2>1, <2>2 DEF Place, Walking, At, Child, Frame, TreeOf
  <2>7. Roles'
    BY <1>b, <1>d, <2>1, <2>2 DEF Roles, Known, Listed, At
  <2>. QED  BY <2>3, <2>4, <2>5, <2>6, <2>7 DEF TreeInv
<1>16. CASE UNCHANGED vars
  <2>1. UNCHANGED <<nextId, root, nodeMap, pc, parentID, childNodes,
                    pc2Child, active, esp2pcId, sampled, walk>>
    BY <1>16 DEF vars, treeVars, idVars
  <2>2. Shape'
    BY <1>d, <2>1, ShapeKept
  <2>3. Exclusive' /\ Fresh' /\ Place' /\ Roles'
    BY <1>d, <2>1 DEF Exclusive, Fresh, Place, Roles, Known, Walking, Holding, At,
                      Child, Frame, TreeOf, Listed
  <2>. QED  BY <2>2, <2>3 DEF TreeInv
<1>. QED
  BY <1>1, <1>2, <1>3, <1>4, <1>5, <1>6, <1>7, <1>8, <1>9, <1>10, <1>11, <1>12,
     <1>13, <1>14, <1>15, <1>16 DEF Next, BackTrace, Update, Walk

\* While the CPU sampler keeps out of the trees that are being unwound into,
\* parents and children of every tree agree, for any number of threads that
\* unwind at once.
THEOREM TreesAreConsistent == Calm => (Spec => []TreeConsistent)
PROOF
<1>1. TreeInv => TreeConsistent
  BY DEF TreeInv, Shape
<1>2. ASSUME Calm PROVE Spec => []TreeConsistent
  <2>1. /\ Init => TypeInv /\ TreeInv
        /\ TypeInv /\ TreeInv /\ [Next]_vars => TypeInv' /\ TreeInv'
    BY <1>2, TreeAssumption, TypeInit, TypeStep, TreeInit, TreeStep
  <2>. QED  BY <1>1, <2>1, PTL DEF Spec
<1>. QED  BY <1>2

\* Likewise the node that samples are attributed to, and those stack pointers
\* stand for, are in a tree, or in the hands of a thread about to link them.
THEOREM ActiveNodesAreKnown == Calm => (Spec => []ActiveIsKnown)
PROOF
<1>1. TreeInv => ActiveIsKnown
  BY RolesLemma DEF TreeInv
<1>2. ASSUME Calm PROVE Spec => []ActiveIsKnown
  <2>1. /\ Init => TypeInv /\ TreeInv
        /\ TypeInv /\ TreeInv /\ [Next]_vars => TypeInv' /\ TreeInv'
    BY <1>2, TreeAssumption, TypeInit, TypeStep, TreeInit, TreeStep
  <2>. QED  BY <1>1, <2>1, PTL DEF Spec
<1>. QED  BY <1>2

-----------------------------------------------------------------------------
(* Lemmas about sequences.                                                 *)

\* Taking the head of one sequence to the end of another.
LEMMA MoveHead ==
  ASSUME NEW S, NEW s \in Seq(S), NEW q \in Seq(S), q # <<>>
  PROVE  /\ Head(q) \in S /\ Tail(q) \in Seq(S)
         /\ Append(s, Head(q)) \o Tail(q) = s \o q
PROOF
<1>1. Head(q) \in S /\ Tail(q) \in Seq(S)
  BY HeadTailProperties
<1>2. Append(s, Head(q)) = s \o <<Head(q)>>
  BY <1>1, AppendIsConcat
<1>3. <<Head(q)>> \o Tail(q) = q
  BY <1>1
<1>4. <<Head(q)>> \in Seq(S)
  BY <1>1
<1>5. (s \o <<Head(q)>>) \o Tail(q) = s \o (<<Head(q)>> \o Tail(q))
  BY <1>1, <1>4, ConcatAssociative
<1>. QED  BY <1>1, <1>2, <1>3, <1>5

\* Taking the first element off a sequence that was made longer.
LEMMA TailLemma ==
  ASSUME NEW S, NEW s \in Seq(S), NEW e \in S
  PROVE  /\ Append(s, e) \in Seq(S) /\ Append(s, e) # <<>>
         /\ s # <<>> => Tail(Append(s, e)) = Append(Tail(s), e)
         /\ Tail(<<e>> \o s) = s
PROOF
<1>1. Append(s, e) \in Seq(S) /\ Append(s, e) # <<>>
  BY AppendProperties
<1>2. s # <<>> => Tail(Append(s, e)) = Append(Tail(s), e)
  BY HeadTailAppend
<1>3. Tail(<<e>> \o s) = s
  OBVIOUS
<1>. QED  BY <1>1, <1>2, <1>3

-----------------------------------------------------------------------------
(* What going up from a node gives, for any parents f with smaller ids and *)
(* any pcs v.                                                              *)

Upward(f) == f \in [Nodes -> Ids] /\ \A n \in Nodes : f[n] < n

Labels == Pcs \cup {NoPc}

PathsBy(f, v) == CHOOSE g : g = [n \in Ids |->
                   IF n = Null THEN <<>> ELSE Append(g[f[n]], v[n])]

\* Every set of numbers has a least one: the induction that the proofs use.
LEMMA LeastNat ==
  ASSUME NEW T, T \subseteq Nat, T # {}
  PROVE  \E n \in T : \A m \in T : n <= m
PROOF
<1>. DEFINE R == {ss \in Nat \X Nat : ss[1] < ss[2]}
<1>1. IsWellFoundedOn(R, Nat)
  BY NatLessThanWellFounded, Zenon DEF OpToRel
<1>. HIDE DEF R
<1>2. PICK n \in T : \A m \in T : ~ (<<m, n>> \in R)
  BY <1>1, WFMin, Zenon
<1>3. \A m \in T : ~(m < n)
  BY <1>2 DEF R
<1>. QED  BY <1>3

\* The recursion comes to an end.
LEMMA PathsExist ==
  ASSUME MaxNodes \in Nat, NEW f, Upward(f), NEW v
  PROVE  \A n \in Ids : PathsBy(f, v)[n] =
           IF n = Null THEN <<>> ELSE Append(PathsBy(f, v)[f[n]], v[n])
PROOF
<1>. DEFINE Good(k, g) == g = [n \in 0 .. k |->
                            IF n = Null THEN <<>> ELSE Append(g[f[n]], v[n])]
            T == {k \in 0 .. MaxNodes : \A g : ~Good(k, g)}
<1>1. T = {}
  <2>1. SUFFICES ASSUME T # {} PROVE FALSE
    OBVIOUS
  <2>2. T \subseteq Nat
    OBVIOUS
  <2>3. PICK k \in T : \A m \in T : k <= m
    BY <2>1, <2>2, LeastNat, Zenon
  <2>4. k \in 0 .. MaxNodes /\ \A g : ~Good(k, g)
    BY <2>3
  <2>5. CASE k = 0
    <3>. DEFINE g == [n \in 0 .. 0 |-> <<>>]
    <3>1. Good(0, g)
      BY DEF Null
    <3>. QED  BY <2>4, <2>5, <3>1
  <2>6. CASE k # 0
    <3>1. k - 1 \in 0 .. MaxNodes /\ k - 1 < k /\ k \in Nodes
      BY <2>4, <2>6 DEF Nodes
    <3>2. ~(k <= k - 1)
      BY <2>4
    <3>3. k - 1 \notin T
      <4>. HIDE DEF T
      <4>. QED  BY <2>3, <3>2
    <3>10. PICK g : Good(k - 1, g)
      BY <3>1, <3>3
    <3>. DEFINE h == [n \in 0 .. k |-> IF n = k THEN Append(g[f[k]], v[k]) ELSE g[n]]
    <3>4. \A n \in Nodes : f[n] \in 0 .. n - 1
      BY DEF Upward, Ids, Nodes, Null
    <3>5. \A n \in 0 .. k - 1 : h[n] = g[n]
      BY <2>4
    <3>6. \A n \in 0 .. k : h[n] = IF n = Null THEN <<>> ELSE Append(h[f[n]], v[n])
      <4>1. ASSUME NEW n \in 0 .. k - 1
            PROVE h[n] = IF n = Null THEN <<>> ELSE Append(h[f[n]], v[n])
        <5>1. g[n] = IF n = Null THEN <<>> ELSE Append(g[f[n]], v[n])
          BY <3>10
        <5>2. n # Null => f[n] \in 0 .. k - 1
          BY <2>4, <3>4 DEF Nodes, Null
        <5>. HIDE DEF h
        <5>. QED  BY <3>5, <5>1, <5>2
      <4>2. h[k] = Append(h[f[k]], v[k])
        <5>1. f[k] \in 0 .. k - 1
          BY <3>1, <3>4
        <5>2. h[k] = Append(g[f[k]], v[k])
          BY <2>4
        <5>. HIDE DEF h
        <5>. QED  BY <3>5, <5>1, <5>2
      <4>. HIDE DEF h
      <4>3. k # Null
        BY <2>6 DEF Null
      <4>4. \A n \in 0 .. k : n = k \/ n \in 0 .. k - 1
        BY <2>4
      <4>. HIDE DEF T
      <4>. QED  BY <4>1, <4>2, <4>3, <4>4
    <3>7. h = [n \in 0 .. k |-> h[n]]
      OBVIOUS
    <3>. HIDE DEF h
    <3>8. Good(k, h)
      BY <3>6, <3>7
    <3>. QED  BY <2>4, <3>8
  <2>. QED  BY <2>5, <2>6
<1>2. \E g : Good(MaxNodes, g)
  <2>1. MaxNodes \in 0 .. MaxNodes
    OBVIOUS
  <2>. HIDE DEF Good
  <2>. QED  BY <1>1, <2>1
<1>3. Ids = 0 .. MaxNodes
  BY DEF Ids, Nodes, Null
<1>4. PathsBy(f, v) = [n \in Ids |->
         IF n = Null THEN <<>> ELSE Append(PathsBy(f, v)[f[n]], v[n])]
  BY <1>2, <1>3, Zenon DEF PathsBy
<1>. HIDE DEF Good
<1>. QED  BY <1>4

LEMMA PathToLemma ==
  PathTo = PathsBy(parentID, pc)
PROOF BY DEF PathTo, PathsBy

LEMMA PathToPrime ==
  PathTo' = PathsBy(parentID', pc')
PROOF BY DEF PathTo, PathsBy

\* Paths are sequences of pcs, and only nothing has the empty one.
LEMMA PathsType ==
  ASSUME MaxNodes \in Nat, NEW f, Upward(f), NEW v \in [Nodes -> Labels]
  PROVE  \A n \in Ids : /\ PathsBy(f, v)[n] \in Seq(Labels)
                        /\ n # Null => PathsBy(f, v)[n] # <<>>
PROOF
<1>. DEFINE P == PathsBy(f, v)
            T == {n \in Ids : P[n] \notin Seq(Labels)}
<1>1. \A n \in Ids : P[n] = IF n = Null THEN <<>> ELSE Append(P[f[n]], v[n])
  BY PathsExist
<1>2. \A n \in Ids : n # Null => f[n] \in Ids /\ f[n] < n /\ v[n] \in Labels
  BY DEF Upward, Ids
<1>3. Ids \subseteq Nat
  BY DEF Ids, Nodes, Null
<1>. HIDE DEF P
<1>4. T = {}
  <2>1. SUFFICES ASSUME T # {} PROVE FALSE
    OBVIOUS
  <2>2. T \subseteq Nat
    BY <1>3
  <2>3. PICK k \in T : \A m \in T : k <= m
    BY <2>1, <2>2, LeastNat, Zenon
  <2>4. k \in Ids /\ P[k] \notin Seq(Labels) /\ k \in Nat
    BY <2>2, <2>3
  <2>5. k # Null
    <3>1. <<>> \in Seq(Labels)
      OBVIOUS
    <3>. HIDE DEF T
    <3>. QED  BY <1>1, <2>4, <3>1
  <2>6. f[k] \in Ids /\ f[k] < k /\ f[k] \in Nat /\ v[k] \in Labels
    BY <1>2, <1>3, <2>4, <2>5
  <2>7. f[k] \notin T
    <3>1. ~(k <= f[k])
      BY <2>4, <2>6
    <3>. HIDE DEF T
    <3>. QED  BY <2>3, <3>1
  <2>8. P[f[k]] \in Seq(Labels)
    BY <2>6, <2>7
  <2>9. P[k] = Append(P[f[k]], v[k])
    BY <1>1, <2>4, <2>5
  <2>10. Append(P[f[k]], v[k]) \in Seq(Labels)
    BY <2>6, <2>8, AppendProperties
  <2>. QED  BY <2>4, <2>9, <2>10
<1>5. ASSUME NEW n \in Ids, n # Null PROVE P[n] # <<>>
  <2>1. P[n] = Append(P[f[n]], v[n]) /\ f[n] \in Ids /\ v[n] \in Labels
    BY <1>1, <1>2, <1>5
  <2>2. P[f[n]] \in Seq(Labels)
    BY <1>4, <2>1
  <2>. QED  BY <2>1, <2>2, AppendProperties
<1>. QED  BY <1>4, <1>5 DEF P

\* Paths do not change where parents and pcs do not.
LEMMA PathsKept ==
  ASSUME MaxNodes \in Nat, NEW f, Upward(f), NEW v, NEW g, Upward(g), NEW w,
         NEW C \in SUBSET Ids,
         \A n \in C : n # Null => f[n] \in C \cup {Null} /\ g[n] = f[n] /\ w[n] = v[n]
  PROVE  \A n \in C : PathsBy(g, w)[n] = PathsBy(f, v)[n]
PROOF
<1>. DEFINE P == PathsBy(f, v)  Q == PathsBy(g, w)
            T == {n \in C : Q[n] # P[n]}
<1>1. \A n \in Ids : P[n] = IF n = Null THEN <<>> ELSE Append(P[f[n]], v[n])
  BY PathsExist
<1>2. \A n \in Ids : Q[n] = IF n = Null THEN <<>> ELSE Append(Q[g[n]], w[n])
  BY PathsExist
<1>3. \A n \in Ids : n # Null => f[n] < n
  BY DEF Upward, Ids
<1>4. Ids \subseteq Nat /\ Null \in Ids
  BY DEF Ids, Nodes, Null
<1>. HIDE DEF P, Q
<1>5. SUFFICES ASSUME T # {} PROVE FALSE
  BY DEF P, Q
<1>6. T \subseteq Nat
  BY <1>4
<1>7. PICK k \in T : \A m \in T : k <= m
  BY <1>5, <1>6, LeastNat, Zenon
<1>8. k \in C /\ Q[k] # P[k] /\ k \in Nat /\ k \in Ids
  BY <1>6, <1>7
<1>9. k # Null
  BY <1>1, <1>2, <1>8
<1>10. f[k] < k /\ f[k] \in C \cup {Null} /\ f[k] \in Nat /\ g[k] = f[k] /\ w[k] = v[k]
  BY <1>3, <1>4, <1>8, <1>9
<1>11. f[k] \notin T
  <2>1. ~(k <= f[k])
    BY <1>8, <1>10
  <2>. HIDE DEF T
  <2>. QED  BY <1>7, <2>1
<1>12. Q[f[k]] = P[f[k]]
  BY <1>1, <1>2, <1>4, <1>10, <1>11
<1>. QED  BY <1>1, <1>2, <1>8, <1>9, <1>10, <1>12

-----------------------------------------------------------------------------
(* The invariant.  Parents have smaller ids than their children, and are   *)
(* the nodes that find them; what a walk has gone down and what it has     *)
(* left to do make up the stack that was unwound.                          *)

Numbering ==
  /\ \A n \in Nodes : parentID[n] < n
  /\ \A n \in Nodes, p \in Pcs :
       pc2Child[n][p] # Null => /\ parentID[pc2Child[n][p]] = n
                                /\ pc[pc2Child[n][p]] = p
  /\ \A n \in Nodes : n >= nextId => pc[n] = NoPc
  /\ \A t \in Threads : root[t] # Null => pc[root[t]] = NoPc
  /\ \A a \in Actors : /\ At(a, "root") => pc[walk[a].new] = NoPc
                       /\ At(a, "link") => walk[a].node < walk[a].new

Whole(c) == <<NoPc>> \o (c.main \o c.own)

\* The last frame's node becomes the leaf before it is linked.
Unwound(t) ==
  /\ Walking(t) =>
       /\ PathTo[walk[t].node] \o (walk[t].main \o walk[t].own) = Whole(call[t])
       /\ walk[t].own = <<>> => walk[t].main = <<>>
  /\ At(t, "search") => walk[t].leaf = Null
  /\ At(t, "insert") /\ walk[t].own = <<>> => walk[t].leaf = walk[t].node
  /\ At(t, "insert") /\ walk[t].own # <<>> /\ walk[t].leaf # Null
       => Len(walk[t].own) = 1
  /\ At(t, "link") /\ Len(walk[t].own) = 1 => walk[t].leaf = walk[t].new
  /\ At(t, "link") /\ walk[t].leaf # Null => Len(walk[t].own) = 1
  /\ At(t, "end") => /\ walk[t].leaf \in nodeMap[t]
                     /\ PathTo[walk[t].leaf] = Whole(call[t])

Making(t, r) == /\ At(t, "insert") \/ At(t, "link")
                /\ call[t].rsp = r /\ walk[t].leaf = esp2pcId[r]

Made(t, r) == /\ esp2pcId[r] \in nodeMap[t]
              /\ \E c \in Calls[t] : c.rsp = r /\ PathTo[esp2pcId[r]] = Whole(c)

Founded(r) == esp2pcId[r] = Null \/ \E t \in Threads : Making(t, r) \/ Made(t, r)

PathInv == /\ Numbering
           /\ \A t \in Threads : Unwound(t)
           /\ \A r \in Rsps : Founded(r)
           /\ PathIsWhole

\* The invariant of trees and paths together.
AllInv == TypeInv /\ TreeInv /\ PathInv

\* Going up by parentID, from the types and the order of ids alone.
LEMMA Ascent ==
  ASSUME TypeOK, Numbering
  PROVE  Upward(parentID) /\ pc \in [Nodes -> Labels]
PROOF BY DEF Upward, TypeOK, Numbering, Labels

LEMMA AscentPrime ==
  ASSUME TypeOK', Numbering'
  PROVE  Upward(parentID)' /\ pc' \in [Nodes -> Labels]
PROOF BY DEF Upward, TypeOK, Numbering, Labels

LEMMA PathInit == TreeAssumption /\ Init => PathInv
PROOF
<1>. SUFFICES ASSUME TreeAssumption, Init PROVE PathInv
  OBVIOUS
<1>1. \A a \in Actors : walk[a].at = "out"
  BY DEF Init, Idle
<1>2. Numbering
  BY <1>1 DEF Init, Numbering, At, Nodes, Null
<1>3. \A t \in Threads : Unwound(t)
  BY <1>1 DEF Unwound, Walking, At, Actors
<1>4. \A r \in Rsps : Founded(r)
  BY DEF Init, Founded
<1>5. PathIsWhole
  BY DEF Init, PathIsWhole
<1>. QED  BY <1>2, <1>3, <1>4, <1>5 DEF PathInv

-----------------------------------------------------------------------------
(* What a step does to the nodes that are listed: nothing.                 *)

LEMMA ListedKept ==
  ASSUME TreeAssumption, Calm, TypeInv, TreeInv, [Next]_vars
  PROVE  \A t \in Threads : \A n \in nodeMap[t] :
           n \in nodeMap'[t] /\ pc'[n] = pc[n] /\ parentID'[n] = parentID[n]
PROOF
<1>a. /\ walk \in [Actors -> Walker] /\ nextId \in Nat
      /\ nodeMap \in [Threads -> SUBSET Nodes]
      /\ pc \in [Nodes -> Pcs \cup {NoPc}] /\ parentID \in [Nodes -> Ids]
      /\ \A a \in Actors : TreeOf(a) \in Threads
  BY TreeOfLemma DEF TypeInv, TypeOK
<1>b. \A t \in Threads : \A n \in nodeMap[t] : n < nextId /\ n \in Nodes
  BY <1>a DEF TreeInv, Shape, Numbered
<1>c. \A a \in Actors : Holding(a) => ~Listed(walk[a].new)
  BY DEF TreeInv, Fresh
<1>1. ASSUME UNCHANGED <<nodeMap, pc, parentID>>
      PROVE  \A t \in Threads : \A n \in nodeMap[t] :
               n \in nodeMap'[t] /\ pc'[n] = pc[n] /\ parentID'[n] = parentID[n]
  BY <1>1
<1>2. ASSUME NEW a \in Actors, SetRoot(a)
      PROVE  \A t \in Threads : \A n \in nodeMap[t] :
               n \in nodeMap'[t] /\ pc'[n] = pc[n] /\ parentID'[n] = parentID[n]
  <2>1. UNCHANGED <<pc, parentID>>
    BY <1>2 DEF SetRoot
  <2>2. CASE root[TreeOf(a)] # Null
    BY <1>2, <1>1, <2>1, <2>2 DEF SetRoot
  <2>3. CASE root[TreeOf(a)] = Null
    <3>1. nodeMap[TreeOf(a)] = {}
      BY <1>a, <2>3 DEF TreeInv, Shape, Rooted
    <3>2. \A t \in Threads : t # TreeOf(a) => nodeMap'[t] = nodeMap[t]
      BY <1>a, <1>2, <2>3 DEF SetRoot
    <3>. QED  BY <2>1, <3>1, <3>2
  <2>. QED  BY <2>2, <2>3
<1>3. ASSUME NEW a \in Actors, NewNode(a)
      PROVE  \A t \in Threads : \A n \in nodeMap[t] :
               n \in nodeMap'[t] /\ pc'[n] = pc[n] /\ parentID'[n] = parentID[n]
  <2>1. UNCHANGED <<nodeMap, parentID>>
    BY <1>3 DEF NewNode
  <2>2. \A n \in Nodes : n # nextId => pc'[n] = pc[n]
    BY <1>a, <1>3 DEF NewNode
  <2>3. \A t \in Threads : \A n \in nodeMap[t] : n # nextId
    BY <1>a, <1>b
  <2>. QED  BY <1>b, <2>1, <2>2, <2>3
<1>4. ASSUME NEW a \in Actors, InsertNode(a)
      PROVE  \A t \in Threads : \A n \in nodeMap[t] :
               n \in nodeMap'[t] /\ pc'[n] = pc[n] /\ parentID'[n] = parentID[n]
  <2>1. /\ UNCHANGED pc /\ ~Listed(walk[a].new)
        /\ \A t \in Threads : nodeMap[t] \subseteq nodeMap'[t]
        /\ \A n \in Nodes : n # walk[a].new => parentID'[n] = parentID[n]
    BY <1>4, <1>a, <1>c DEF InsertNode, Holding, At
  <2>. QED  BY <1>b, <2>1 DEF Listed
<1>. QED
  BY <1>1, <1>2, <1>3, <1>4 DEF Next, BackTrace, Update, Walk, vars, treeVars,
     Enter, Sample, HasTree, NewRoot, FakeBackTrace, UseCached, Unwind,
     StartUpdate, Descend, Miss, OldPath, End

\* Nor to the paths to them, as long as parents have smaller ids.
LEMMA PathsStay ==
  ASSUME TreeAssumption, Calm, TypeInv, TreeInv, Numbering, [Next]_vars,
         TypeOK', Numbering'
  PROVE  \A t \in Threads : \A n \in nodeMap[t] : PathTo'[n] = PathTo[n]
PROOF
<1>1. Upward(parentID) /\ Upward(parentID)'
  BY Ascent, AscentPrime DEF TypeInv
<1>2. \A t \in Threads : \A n \in nodeMap[t] :
        n \in nodeMap'[t] /\ pc'[n] = pc[n] /\ parentID'[n] = parentID[n]
  BY ListedKept
<1>3. ASSUME NEW t \in Threads, NEW n \in nodeMap[t] PROVE PathTo'[n] = PathTo[n]
  <2>1. nodeMap[t] \in SUBSET Ids
    BY DEF TypeInv, TypeOK, Ids
  <2>2. \A k \in nodeMap[t] : parentID[k] \in nodeMap[t] \cup {Null}
    <3>1. nodeMap[t] \subseteq Nodes /\ Null \notin Nodes
      BY DEF TypeInv, TypeOK, Nodes, Null
    <3>. QED  BY <3>1 DEF TreeInv, Shape, TreeConsistent
  <2>3. MaxNodes \in Nat
    BY DEF TreeAssumption
  <2>4. Upward(parentID')
    BY <1>1 DEF Upward
  <2>5. \A k \in nodeMap[t] : PathsBy(parentID', pc')[k] = PathsBy(parentID, pc)[k]
    <3>. DEFINE C == nodeMap[t]  f == parentID  g == parentID'  v == pc  w == pc'
    <3>1. \A k \in C : k # Null =>
            f[k] \in C \cup {Null} /\ g[k] = f[k] /\ w[k] = v[k]
      BY <1>2, <2>2
    <3>2. C \in SUBSET Ids /\ Upward(f) /\ Upward(g)
      BY <1>1, <2>1, <2>4
    <3>. HIDE DEF C, f, g, v, w
    <3>3. \A k \in C : PathsBy(g, w)[k] = PathsBy(f, v)[k]
      BY <2>3, <3>1, <3>2, PathsKept
    <3>. QED  BY <3>3 DEF C, f, g, v, w
  <2>. QED  BY <2>5, PathToLemma, PathToPrime
<1>. QED  BY <1>3

\* The path to a node is that to its parent and its own pc.
LEMMA PathAt ==
  ASSUME TreeAssumption, TypeOK, Numbering
  PROVE  /\ PathTo[Null] = <<>>
         /\ \A n \in Nodes : /\ PathTo[n] = Append(PathTo[parentID[n]], pc[n])
                             /\ PathTo[n] \in Seq(Labels) /\ PathTo[n] # <<>>
PROOF
<1>1. Upward(parentID) /\ pc \in [Nodes -> Labels] /\ MaxNodes \in Nat
  BY Ascent DEF TreeAssumption
<1>2. Null \in Ids /\ \A n \in Nodes : n \in Ids /\ n # Null
  BY DEF Ids, Nodes, Null
<1>3. \A n \in Ids : PathTo[n] =
        IF n = Null THEN <<>> ELSE Append(PathTo[parentID[n]], pc[n])
  BY <1>1, PathsExist, PathToLemma
<1>4. \A n \in Ids : PathTo[n] \in Seq(Labels) /\ (n # Null => PathTo[n] # <<>>)
  BY <1>1, PathsType, PathToLemma
<1>. QED  BY <1>2, <1>3, <1>4

LEMMA PathAtPrime ==
  ASSUME TreeAssumption, TypeOK', Numbering'
  PROVE  /\ PathTo'[Null] = <<>>
         /\ \A n \in Nodes : /\ PathTo'[n] = Append(PathTo'[parentID'[n]], pc'[n])
                             /\ PathTo'[n] \in Seq(Labels) /\ PathTo'[n] # <<>>
PROOF
<1>1. Upward(parentID)' /\ pc' \in [Nodes -> Labels] /\ MaxNodes \in Nat
  BY AscentPrime DEF TreeAssumption
<1>2. Null \in Ids /\ \A n \in Nodes : n \in Ids /\ n # Null
  BY DEF Ids, Nodes, Null
<1>3. Upward(parentID')
  BY <1>1 DEF Upward
<1>4. \A n \in Ids : PathTo'[n] =
        IF n = Null THEN <<>> ELSE Append(PathTo'[parentID'[n]], pc'[n])
  BY <1>1, <1>3, PathsExist, PathToPrime
<1>5. \A n \in Ids : PathTo'[n] \in Seq(Labels) /\ (n # Null => PathTo'[n] # <<>>)
  BY <1>1, <1>3, PathsType, PathToPrime
<1>. QED  BY <1>2, <1>4, <1>5

-----------------------------------------------------------------------------
(* Every step keeps the order of the ids.                                  *)

\* A step that leaves the nodes alone, and leads nobody to where one is made.
LEMMA NumberingKept ==
  ASSUME Numbering, UNCHANGED <<nextId, root, pc, parentID, pc2Child>>,
         \A a \in Actors : \/ walk'[a] = walk[a]
                           \/ walk'[a].at \notin {"root", "link"}
  PROVE  Numbering'
PROOF BY DEF Numbering, At

LEMMA NumberingStep ==
  ASSUME TreeAssumption, Calm, AllInv, [Next]_vars
  PROVE  Numbering'
PROOF
<1>a. /\ walk \in [Actors -> Walker] /\ nextId \in Nat
      /\ root \in [Threads -> Ids]
      /\ nodeMap \in [Threads -> SUBSET Nodes]
      /\ pc \in [Nodes -> Pcs \cup {NoPc}] /\ parentID \in [Nodes -> Ids]
      /\ pc2Child \in [Nodes -> [Pcs -> Ids]]
      /\ \A a \in Actors : walk[a].new < nextId
  BY DEF AllInv, TypeInv, TypeOK
<1>b. /\ Threads \subseteq Actors /\ Sampler \in Actors
      /\ \A a \in Actors : TreeOf(a) \in Threads
  BY TreeOfLemma DEF Actors, AllInv, TypeInv
<1>c. TypeOK /\ WalkInv /\ Shape /\ Fresh /\ Place /\ Numbering
  BY DEF AllInv, TypeInv, TreeInv, PathInv
<1>d. \A t \in Threads : \A n \in nodeMap[t] :
        n \in nodeMap'[t] /\ pc'[n] = pc[n] /\ parentID'[n] = parentID[n]
  BY ListedKept DEF AllInv
<1>e. \A t \in Threads : \A n \in nodeMap[t] : n < nextId /\ n \in Nodes
  BY <1>a, <1>c DEF Shape, Numbered
<1>f. \A n \in Nodes, p \in Pcs : pc2Child[n][p] # Null =>
        \E t \in Threads : pc2Child[n][p] \in nodeMap[t]
  <2>1. SUFFICES ASSUME NEW n \in Nodes, NEW p \in Pcs, pc2Child[n][p] # Null
                 PROVE  \E t \in Threads : pc2Child[n][p] \in nodeMap[t]
    OBVIOUS
  <2>2. PICK t \in Threads : n \in nodeMap[t]
    BY <1>c, <2>1 DEF Shape, Blank, Listed
  <2>. QED  BY <1>c, <2>1, <2>2 DEF Shape, TreeConsistent
<1>g. \A t \in Threads : root[t] # Null => root[t] \in nodeMap[t]
  BY <1>c DEF Shape, TreeConsistent
<1>1. ASSUME NEW t \in Threads, Enter(t) PROVE Numbering'
  <2>1. /\ walk'[t].at = "tree" /\ \A b \in Actors \ {t} : walk'[b] = walk[b]
    BY <1>1, <1>b, <1>c, MoveLemma DEF Enter
  <2>. QED  BY <1>1, <1>c, <2>1, NumberingKept DEF Enter, treeVars
<1>2. ASSUME NEW t \in Threads, Sample(t) PROVE Numbering'
  <2>1. /\ walk'[Sampler].at = "tree"
        /\ \A b \in Actors \ {Sampler} : walk'[b] = walk[b]
    BY <1>2, <1>a, <1>b DEF Sample, Idle
  <2>. QED  BY <1>2, <1>c, <2>1, NumberingKept DEF Sample, treeVars
<1>3. ASSUME NEW a \in Actors, HasTree(a) PROVE Numbering'
  <2>1. /\ walk'[a].at = "look" /\ \A b \in Actors \ {a} : walk'[b] = walk[b]
    BY <1>3, <1>c, MoveLemma DEF HasTree
  <2>. QED  BY <1>3, <1>c, <2>1, NumberingKept DEF HasTree, treeVars
<1>4. ASSUME NEW a \in Actors, NewRoot(a) PROVE Numbering'
  <2>1. /\ walk'[a].at = "root" /\ walk'[a].new = nextId
        /\ \A b \in Actors \ {a} : walk'[b] = walk[b]
    BY <1>4, <1>a DEF NewRoot, Walker
  <2>2. /\ nextId \in Nodes /\ nextId' = nextId + 1
        /\ UNCHANGED <<root, pc, parentID, pc2Child>>
    BY <1>4 DEF NewRoot, TakeId, treeVars
  <2>3. \A n \in Nodes : n >= nextId' => n >= nextId
    BY <1>a, <2>2 DEF Nodes
  <2>4. pc[nextId] = NoPc
    BY <1>a, <1>c, <2>2 DEF Numbering
  <2>. QED  BY <1>c, <2>1, <2>2, <2>3, <2>4 DEF Numbering, At
<1>5. ASSUME NEW a \in Actors, SetRoot(a) PROVE Numbering'
  <2>1. /\ walk'[a].at = "look" /\ walk[a].at = "root"
        /\ \A b \in Actors \ {a} : walk'[b] = walk[b]
    BY <1>5, <1>c, MoveLemma DEF SetRoot, At
  <2>2. UNCHANGED <<nextId, pc, parentID, pc2Child>>
    BY <1>5 DEF SetRoot
  <2>3. \A t \in Threads : root'[t] = root[t] \/ root'[t] = walk[a].new
    BY <1>5, <1>a DEF SetRoot
  <2>4. pc[walk[a].new] = NoPc
    BY <1>c, <2>1 DEF Numbering, At
  <2>. QED  BY <1>c, <2>1, <2>2, <2>3, <2>4 DEF Numbering, At
<1>6. ASSUME NEW t \in Threads, FakeBackTrace(t) PROVE Numbering'
  <2>1. /\ walk'[t].at = "out" /\ \A b \in Actors \ {t} : walk'[b] = walk[b]
    BY <1>6, <1>b, <1>c, MoveLemma DEF FakeBackTrace
  <2>. QED  BY <1>6, <1>c, <2>1, NumberingKept DEF FakeBackTrace, treeVars
<1>7. ASSUME NEW t \in Threads, UseCached(t) PROVE Numbering'
  <2>1. /\ walk'[t].at = "out" /\ \A b \in Actors \ {t} : walk'[b] = walk[b]
    BY <1>7, <1>b, <1>c, MoveLemma DEF UseCached
  <2>. QED  BY <1>7, <1>c, <2>1, NumberingKept DEF UseCached, treeVars
<1>8. ASSUME NEW t \in Threads, Unwind(t) PROVE Numbering'
  <2>1. /\ walk'[t].at = "search" /\ \A b \in Actors \ {t} : walk'[b] = walk[b]
    BY <1>8, <1>a, <1>b DEF Unwind, Idle
  <2>. QED  BY <1>8, <1>c, <2>1, NumberingKept DEF Unwind, treeVars
<1>9. ASSUME StartUpdate PROVE Numbering'
  <2>1. /\ walk'[Sampler].at = "search"
        /\ \A b \in Actors \ {Sampler} : walk'[b] = walk[b]
    BY <1>9, <1>a, <1>b DEF StartUpdate, Walker
  <2>. QED  BY <1>9, <1>c, <2>1, NumberingKept DEF StartUpdate, treeVars
<1>10. ASSUME NEW a \in Actors, Descend(a) PROVE Numbering'
  <2>1. Pop(walk[a]) \in Walker /\ Pop(walk[a]).at = "search"
    BY <1>10, <1>a, PopLemma DEF Descend, At
  <2>2. /\ walk'[a].at = "search" /\ \A b \in Actors \ {a} : walk'[b] = walk[b]
    BY <1>10, <1>a, <2>1 DEF Descend, Walker
  <2>. QED  BY <1>10, <1>c, <2>2, NumberingKept DEF Descend
<1>11. ASSUME NEW a \in Actors, Miss(a) PROVE Numbering'
  <2>1. /\ walk'[a].at = "insert" /\ \A b \in Actors \ {a} : walk'[b] = walk[b]
    BY <1>11, <1>c, MoveLemma DEF Miss
  <2>. QED  BY <1>11, <1>c, <2>1, NumberingKept DEF Miss, treeVars
<1>12. ASSUME NEW t \in Threads, OldPath(t) PROVE Numbering'
  <2>1. /\ walk'[t].at = "end" /\ \A b \in Actors \ {t} : walk'[b] = walk[b]
    BY <1>12, <1>a, <1>b DEF OldPath, Walker
  <2>. QED  BY <1>12, <1>c, <2>1, NumberingKept DEF OldPath, treeVars
<1>13. ASSUME NEW a \in Actors, NewNode(a) PROVE Numbering'
  <2>1. /\ walk'[a].at = "link" /\ walk[a].at = "insert"
        /\ walk'[a].new = nextId /\ walk'[a].node = walk[a].node
        /\ \A b \in Actors \ {a} : walk'[b] = walk[b]
    BY <1>13, <1>a DEF NewNode, At, Walker
  <2>2. /\ nextId \in Nodes /\ nextId' = nextId + 1
        /\ UNCHANGED <<root, parentID, pc2Child>>
        /\ \A n \in Nodes : n # nextId => pc'[n] = pc[n]
    BY <1>13, <1>a DEF NewNode, TakeId
  <2>3. walk[a].node < nextId
    BY <1>b, <1>c, <1>e, <2>1 DEF Place, Walking
  <2>4. \A n \in Nodes : n >= nextId' => pc'[n] = NoPc
    <3>1. ASSUME NEW n \in Nodes, n >= nextId' PROVE n >= nextId /\ n # nextId
      BY <1>a, <2>2, <3>1 DEF Nodes
    <3>. QED  BY <1>c, <2>2, <3>1 DEF Numbering
  <2>5. \A n \in Nodes, p \in Pcs : pc2Child[n][p] # Null =>
          /\ parentID[pc2Child[n][p]] = n
          /\ pc'[pc2Child[n][p]] = p
    BY <1>c, <1>d, <1>f DEF Numbering
  <2>6. \A t \in Threads : root[t] # Null => pc'[root[t]] = NoPc
    BY <1>c, <1>d, <1>g DEF Numbering
  <2>7. ASSUME NEW b \in Actors, walk[b].at = "root"
        PROVE  pc'[walk[b].new] = NoPc
    <3>1. walk[b].new \in Nodes /\ walk[b].new # nextId /\ pc[walk[b].new] = NoPc
      BY <1>a, <1>c, <2>7 DEF WalkInv, Holding, Numbering, At
    <3>. QED  BY <2>2, <3>1
  <2>. QED
    BY <1>c, <2>1, <2>2, <2>3, <2>4, <2>5, <2>6, <2>7 DEF Numbering, At
<1>14. ASSUME NEW a \in Actors, InsertNode(a) PROVE Numbering'
  <2>. DEFINE n == walk[a].new  parent == walk[a].node
  <2>1. walk[a].at = "link" /\ walk[a].own # <<>> /\ parent < n /\ n \in Nodes
        /\ parent \in Nodes
    BY <1>14, <1>c DEF InsertNode, At, WalkInv, Numbering, Holding, Walking
  <2>2. Pop(walk[a]) \in Walker /\ Pop(walk[a]).at = "link"
    BY <1>a, <2>1, PopLemma
  <2>3. walk'[a].at = "insert" /\ \A b \in Actors \ {a} : walk'[b] = walk[b]
    BY <1>14, <1>a, <2>2 DEF InsertNode, Walker
  <2>4. UNCHANGED <<nextId, root, pc>>
    BY <1>14 DEF InsertNode
  <2>5. pc[n] = Frame(a) /\ pc[n] \in Pcs /\ Child(a) = Null
    BY <1>c, <2>1, FrameLemma DEF Place, At
  <2>6. pc2Child[parent][pc[n]] = Null
    BY <2>5 DEF Child
  <2>7. /\ parentID' = [parentID EXCEPT ![n] = parent]
        /\ pc2Child' = [pc2Child EXCEPT ![parent][pc[n]] = n]
    BY <1>14, <2>6 DEF InsertNode
  <2>. HIDE DEF n, parent
  <2>8. parentID'[n] = parent /\ \A k \in Nodes : k # n => parentID'[k] = parentID[k]
    BY <1>a, <2>1, <2>7
  <2>9. \A k \in Nodes, p \in Pcs :
          pc2Child'[k][p] = IF k = parent /\ p = pc[n] THEN n ELSE pc2Child[k][p]
    BY <1>a, <2>1, <2>5, <2>7
  <2>10. \A k \in Nodes, p \in Pcs : pc2Child[k][p] # Null =>
          /\ parentID'[pc2Child[k][p]] = k
          /\ pc'[pc2Child[k][p]] = p
    BY <1>c, <1>d, <1>f DEF Numbering
  <2>11. \A k \in Nodes, p \in Pcs : pc2Child'[k][p] # Null =>
          /\ parentID'[pc2Child'[k][p]] = k
          /\ pc'[pc2Child'[k][p]] = p
    BY <2>4, <2>8, <2>9, <2>10
  <2>. QED
    BY <1>c, <2>1, <2>3, <2>4, <2>8, <2>11 DEF Numbering, At
<1>15. ASSUME NEW a \in Actors, End(a) PROVE Numbering'
  <2>1. /\ walk'[a].at = "out" /\ \A b \in Actors \ {a} : walk'[b] = walk[b]
    BY <1>15, <1>a DEF End, Idle
  <2>. QED  BY <1>15, <1>c, <2>1, NumberingKept DEF End, treeVars
<1>16. CASE UNCHANGED vars
  BY <1>16, <1>c, NumberingKept DEF vars, treeVars
<1>. QED
  BY <1>1, <1>2, <1>3, <1>4, <1>5, <1>6, <1>7, <1>8, <1>9, <1>10, <1>11, <1>12,
     <1>13, <1>14, <1>15, <1>16 DEF Next, BackTrace, Update, Walk

-----------------------------------------------------------------------------
(* Every step keeps what a walk has gone down, and what it has left, the   *)
(* stack that was unwound.                                                 *)

\* A launch's path, from the virtual root.
LEMMA WholeLemma ==
  ASSUME NEW c \in Launch
  PROVE  /\ c.main \o c.own \in Seq(Pcs) /\ Whole(c) \in Seq(Labels)
         /\ Tail(Whole(c)) = c.main \o c.own
PROOF
<1>1. c.main \in Seq(Pcs) /\ c.own \in Seq(Pcs)
  BY DEF Launch
<1>2. c.main \o c.own \in Seq(Pcs)
  BY <1>1, ConcatProperties
<1>3. c.main \o c.own \in Seq(Labels) /\ NoPc \in Labels
  BY <1>2, SeqMonotonic DEF Labels
<1>4. <<NoPc>> \in Seq(Labels)
  BY <1>3
<1>. QED  BY <1>2, <1>3, <1>4, TailLemma, ConcatProperties DEF Whole

\* The last frame is the one that leaves nothing.
LEMMA OneLeft ==
  ASSUME NEW s \in Seq(Pcs), s # <<>>
  PROVE  Tail(s) = <<>> <=> Len(s) = 1
PROOF
<1>1. PICK n \in Nat : n = Len(s)
  OBVIOUS
<1>2. Len(Tail(s)) = n - 1 /\ Tail(s) \in Seq(Pcs)
  BY <1>1, HeadTailProperties
<1>3. n = 1 => Tail(s) = <<>>
  <2>1. Tail(s) # <<>> => Len(Tail(s)) \in Nat \ {0}
    BY <1>2, EmptySeq
  <2>2. n = 1 => Len(Tail(s)) = 0
    BY <1>2
  <2>. QED  BY <2>1, <2>2
<1>4. Tail(s) = <<>> => n = 1
  BY <1>1, <1>2
<1>. QED  BY <1>1, <1>3, <1>4

\* Frame and Pop take the first of what is left, main frames first.
LEMMA FrameSplit ==
  ASSUME NEW w \in Walker, w.own # <<>>
  PROVE  LET q == w.main \o w.own  v == Pop(w) IN
         /\ q \in Seq(Pcs) /\ q # <<>>
         /\ Head(q) = IF w.main # <<>> THEN Head(w.main) ELSE Head(w.own)
         /\ v.main \o v.own = Tail(q)
         /\ v.own = <<>> => v.main = <<>> /\ Len(w.own) = 1
         /\ v.own # <<>> /\ Len(w.own) = 1 => Len(v.own) = 1
PROOF
<1>1. w.main \in Seq(Pcs) /\ w.own \in Seq(Pcs)
  BY DEF Walker
<1>2. w.main \o w.own \in Seq(Pcs) /\ w.main \o w.own # <<>>
  BY <1>1, ConcatProperties, ConcatEqualIffEmpty
<1>3. CASE w.main = <<>>
  <2>1. w.main \o w.own = w.own /\ Tail(w.own) \in Seq(Pcs)
    BY <1>1, <1>3, ConcatEmptySeq, HeadTailProperties
  <2>2. Pop(w).main = <<>> /\ Pop(w).own = Tail(w.own)
    BY <1>3 DEF Pop, Walker
  <2>3. <<>> \o Tail(w.own) = Tail(w.own)
    BY <2>1, ConcatEmptySeq
  <2>4. Tail(w.own) = <<>> <=> Len(w.own) = 1
    BY <1>1, OneLeft
  <2>. QED  BY <1>2, <1>3, <2>1, <2>2, <2>3, <2>4
<1>4. CASE w.main # <<>>
  <2>1. Pop(w).main = Tail(w.main) /\ Pop(w).own = w.own
    BY <1>4 DEF Pop, Walker
  <2>2. /\ Head(w.main) \in Pcs /\ Tail(w.main) \in Seq(Pcs)
        /\ <<Head(w.main)>> \in Seq(Pcs)
    BY <1>1, <1>4, HeadTailProperties
  <2>3. w.main = <<Head(w.main)>> \o Tail(w.main)
    BY <1>1, <1>4
  <2>4. w.main \o w.own = <<Head(w.main)>> \o (Tail(w.main) \o w.own)
    <3>. DEFINE h == <<Head(w.main)>>  x == Tail(w.main)  y == w.own
    <3>1. h \in Seq(Pcs) /\ x \in Seq(Pcs) /\ y \in Seq(Pcs) /\ w.main = h \o x
      BY <1>1, <2>2, <2>3
    <3>. HIDE DEF h, x, y
    <3>2. (h \o x) \o y = h \o (x \o y)
      BY <3>1, ConcatAssociative
    <3>3. w.main \o y = h \o (x \o y)
      BY <3>1, <3>2
    <3>. QED  BY <3>3 DEF h, x, y
  <2>5. Tail(w.main) \o w.own \in Seq(Pcs)
    BY <1>1, <2>2, ConcatProperties
  <2>6. Tail(w.main \o w.own) = Tail(w.main) \o w.own
    <3>1. Tail(<<Head(w.main)>> \o (Tail(w.main) \o w.own)) = Tail(w.main) \o w.own
      BY <2>2, <2>5, TailLemma
    <3>. QED  BY <2>4, <3>1, Zenon
  <2>7. Head(w.main \o w.own) = Head(w.main)
    BY <2>4, <2>5
  <2>. QED  BY <1>2, <1>4, <2>1, <2>6, <2>7
<1>. QED  BY <1>3, <1>4

\* One frame further down.
LEMMA GoDown ==
  ASSUME NEW w \in Walker, w.own # <<>>, NEW s \in Seq(Labels),
         NEW e, e = IF w.main # <<>> THEN Head(w.main) ELSE Head(w.own)
  PROVE  Append(s, e) \o (Pop(w).main \o Pop(w).own) = s \o (w.main \o w.own)
PROOF
<1>. DEFINE q == w.main \o w.own
<1>1. q \in Seq(Pcs) /\ q # <<>> /\ Head(q) = e /\ Pop(w).main \o Pop(w).own = Tail(q)
  BY FrameSplit
<1>. HIDE DEF q
<1>2. q \in Seq(Labels)
  BY <1>1, SeqMonotonic DEF Labels
<1>3. Append(s, Head(q)) \o Tail(q) = s \o q
  BY <1>1, <1>2, MoveHead
<1>. QED  BY <1>1, <1>3 DEF q

\* A step of somebody else.
LEMMA OthersUnwound ==
  ASSUME TreeAssumption, Calm, AllInv, [Next]_vars, TypeOK', Numbering',
         NEW t \in Threads, walk'[t] = walk[t], call'[t] = call[t]
  PROVE  Unwound(t)'
PROOF
<1>1. Unwound(t)
  BY DEF AllInv, PathInv
<1>2. \A n \in nodeMap[t] : n \in nodeMap'[t] /\ PathTo'[n] = PathTo[n]
  BY PathsStay, ListedKept DEF AllInv, PathInv
<1>3. Walking(t) => walk[t].node \in nodeMap[t]
  <2>1. t \in Actors /\ TreeOf(t) = t
    BY DEF TreeOf, Actors, TreeAssumption
  <2>. QED  BY <2>1 DEF AllInv, TreeInv, Place
<1>. QED  BY <1>1, <1>2, <1>3 DEF Unwound, Walking, At

LEMMA UnwoundStep ==
  ASSUME TreeAssumption, Calm, AllInv, [Next]_vars, NEW t \in Threads
  PROVE  Unwound(t)'
PROOF
<1>a. /\ walk \in [Actors -> Walker] /\ call \in [Threads -> Launch]
      /\ nodeMap \in [Threads -> SUBSET Nodes]
      /\ pc2Child \in [Nodes -> [Pcs -> Ids]] /\ parentID \in [Nodes -> Ids]
  BY DEF AllInv, TypeInv, TypeOK
<1>b. t \in Actors /\ t # Sampler /\ TreeOf(t) = t /\ Threads \subseteq Actors
  BY DEF Actors, TreeOf, TreeAssumption
<1>c. /\ TypeOK /\ WalkInv /\ Shape /\ Fresh /\ Place /\ Numbering
      /\ Unwound(t)
  BY DEF AllInv, TypeInv, TreeInv, PathInv
<1>d. TypeOK' /\ Numbering'
  BY TypeStep, NumberingStep DEF AllInv, TypeInv
<1>e. \A n \in nodeMap[t] : n \in nodeMap'[t] /\ PathTo'[n] = PathTo[n] /\ n \in Nodes
  BY <1>a, <1>d, PathsStay, ListedKept DEF AllInv, PathInv
<1>f. /\ PathTo[Null] = <<>>
      /\ \A n \in Nodes : /\ PathTo[n] = Append(PathTo[parentID[n]], pc[n])
                          /\ PathTo[n] \in Seq(Labels) /\ PathTo[n] # <<>>
  BY <1>c, PathAt
<1>g. Walking(t) => walk[t].node \in nodeMap[t] /\ walk[t].node \in Nodes
  BY <1>a, <1>b, <1>c DEF Place
<1>h. ASSUME walk'[t].at \in {"out", "tree", "root", "look"} PROVE Unwound(t)'
  BY <1>h DEF Unwound, Walking, At
<1>o. ASSUME walk'[t] = walk[t], call'[t] = call[t] PROVE Unwound(t)'
  BY <1>d, <1>o, OthersUnwound
<1>1. ASSUME NEW u \in Threads, Enter(u) PROVE Unwound(t)'
  <2>1. CASE u = t
    BY <1>1, <1>b, <1>c, <1>h, <2>1, MoveLemma DEF Enter
  <2>2. CASE u # t
    BY <1>1, <1>a, <1>b, <1>o, <2>2 DEF Enter, GoTo
  <2>. QED  BY <2>1, <2>2
<1>2. ASSUME NEW u \in Threads, Sample(u) PROVE Unwound(t)'
  BY <1>2, <1>a, <1>b, <1>o DEF Sample
<1>3. ASSUME NEW u \in Actors, HasTree(u) PROVE Unwound(t)'
  BY <1>3, <1>b, <1>c, <1>h, <1>o, MoveLemma DEF HasTree
<1>4. ASSUME NEW u \in Actors, NewRoot(u) PROVE Unwound(t)'
  <2>1. CASE u = t
    <3>1. walk'[t].at = "root"
      BY <1>4, <1>a, <1>b, <2>1 DEF NewRoot, Walker
    <3>. QED  BY <3>1, <1>h
  <2>2. CASE u # t
    BY <1>4, <1>a, <1>b, <1>o, <2>2 DEF NewRoot
  <2>. QED  BY <2>1, <2>2
<1>5. ASSUME NEW u \in Actors, SetRoot(u) PROVE Unwound(t)'
  BY <1>5, <1>b, <1>c, <1>h, <1>o, MoveLemma DEF SetRoot
<1>6. ASSUME NEW u \in Threads, FakeBackTrace(u) PROVE Unwound(t)'
  BY <1>6, <1>b, <1>c, <1>h, <1>o, MoveLemma DEF FakeBackTrace
<1>7. ASSUME NEW u \in Threads, UseCached(u) PROVE Unwound(t)'
  BY <1>7, <1>b, <1>c, <1>h, <1>o, MoveLemma DEF UseCached
<1>8. ASSUME NEW u \in Threads, Unwind(u) PROVE Unwound(t)'
  <2>1. CASE u = t
    <3>1. /\ walk'[t].at = "search" /\ walk'[t].node = root[t]
          /\ walk'[t].main = call[t].main /\ walk'[t].own = call[t].own
          /\ walk'[t].leaf = Null /\ call'[t] = call[t]
      BY <1>8, <1>a, <1>b, <2>1 DEF Unwind, Idle
    <3>2. call[t].own # <<>>
      BY <1>c DEF TypeOK, TreeAssumption
    <3>3. root[t] # Null /\ root[t] \in nodeMap[t] /\ parentID[root[t]] = Null
      BY <1>8, <1>b, <1>c, <2>1
         DEF WalkInv, Placed, Shape, TreeConsistent, Unwind, At
    <3>4. PathTo'[root[t]] = Append(<<>>, NoPc)
      BY <1>c, <1>e, <1>f, <3>3 DEF Numbering
    <3>5. PathTo'[root[t]] = <<NoPc>>
      BY <3>4
    <3>6. PathTo'[walk'[t].node] \o (walk'[t].main \o walk'[t].own) = Whole(call'[t])
      BY <3>1, <3>5 DEF Whole
    <3>. QED  BY <3>1, <3>2, <3>6 DEF Unwound, Walking, At
  <2>2. CASE u # t
    BY <1>8, <1>a, <1>b, <1>o, <2>2 DEF Unwind
  <2>. QED  BY <2>1, <2>2
<1>9. ASSUME StartUpdate PROVE Unwound(t)'
  BY <1>9, <1>a, <1>b, <1>o DEF StartUpdate
<1>10. ASSUME NEW u \in Actors, Descend(u) PROVE Unwound(t)'
  <2>1. CASE u = t
    <3>. DEFINE c == Child(t)  w == walk[t]
    <3>1. w.at = "search" /\ w.own # <<>> /\ c # Null /\ w \in Walker
      BY <1>10, <1>a, <1>b, <2>1 DEF Descend, At
    <3>2. Pop(w) \in Walker /\ Pop(w).at = "search" /\ Pop(w).leaf = w.leaf
      BY <3>1, PopLemma
    <3>3. /\ walk'[t].at = "search" /\ walk'[t].node = c
          /\ walk'[t].main = Pop(w).main /\ walk'[t].own = Pop(w).own
          /\ walk'[t].leaf = w.leaf /\ call'[t] = call[t]
      BY <1>10, <1>a, <1>b, <2>1, <3>2 DEF Descend, Walker
    <3>4. w.node \in nodeMap[t] /\ w.node \in Nodes /\ Frame(t) \in Pcs
      BY <1>b, <1>c, <1>g, <3>1, FrameLemma DEF Walking
    <3>5. c \in nodeMap[t] /\ c \in Nodes
      BY <1>a, <1>c, <3>1, <3>4 DEF Shape, TreeConsistent, Child
    <3>6. parentID[c] = w.node /\ pc[c] = Frame(t)
      BY <1>c, <3>1, <3>4 DEF Numbering, Child
    <3>7. PathTo'[c] = Append(PathTo[w.node], Frame(t))
      BY <1>e, <1>f, <3>5, <3>6
    <3>8. PathTo[w.node] \o (w.main \o w.own) = Whole(call[t]) /\ w.leaf = Null
      BY <1>c, <3>1 DEF Unwound, Walking, At
    <3>9. PathTo[w.node] \in Seq(Labels)
      BY <1>f, <3>4
    <3>10. Append(PathTo[w.node], Frame(t)) \o (Pop(w).main \o Pop(w).own) = Whole(call[t])
      BY <3>1, <3>8, <3>9, GoDown DEF Frame
    <3>11. Pop(w).own = <<>> => Pop(w).main = <<>>
      BY <3>1, FrameSplit
    <3>. HIDE DEF c, w
    <3>. QED  BY <3>3, <3>7, <3>8, <3>10, <3>11 DEF Unwound, Walking, At
  <2>2. CASE u # t
    BY <1>10, <1>a, <1>b, <1>o, <2>2 DEF Descend
  <2>. QED  BY <2>1, <2>2
<1>11. ASSUME NEW u \in Actors, Miss(u) PROVE Unwound(t)'
  <2>1. CASE u = t
    <3>1. /\ walk[t].at = "search" /\ walk[t].own # <<>> /\ walk'[t].at = "insert"
          /\ walk'[t].node = walk[t].node /\ walk'[t].leaf = walk[t].leaf
          /\ walk'[t].main = walk[t].main /\ walk'[t].own = walk[t].own
          /\ call'[t] = call[t]
      BY <1>11, <1>b, <1>c, <2>1, MoveLemma DEF Miss, At
    <3>2. PathTo'[walk[t].node] = PathTo[walk[t].node]
      BY <1>e, <1>g, <3>1 DEF Walking
    <3>. QED  BY <1>c, <3>1, <3>2 DEF Unwound, Walking, At
  <2>2. CASE u # t
    BY <1>11, <1>b, <1>c, <1>o, <2>2, MoveLemma DEF Miss
  <2>. QED  BY <2>1, <2>2
<1>12. ASSUME NEW u \in Threads, OldPath(u) PROVE Unwound(t)'
  <2>1. CASE u = t
    <3>1. /\ walk[t].at = "search" /\ walk[t].own = <<>> /\ walk'[t].at = "end"
          /\ walk'[t].leaf = walk[t].node /\ call'[t] = call[t]
      BY <1>12, <1>a, <1>b, <2>1 DEF OldPath, At, Walker
    <3>2. /\ walk[t].node \in nodeMap'[t]
          /\ PathTo'[walk[t].node] = PathTo[walk[t].node]
          /\ PathTo[walk[t].node] \in Seq(Labels)
      BY <1>e, <1>f, <1>g, <3>1 DEF Walking
    <3>3. PathTo[walk[t].node] \o (<<>> \o <<>>) = Whole(call[t])
      BY <1>c, <3>1 DEF Unwound, Walking, At
    <3>4. PathTo[walk[t].node] = Whole(call[t])
      BY <3>2, <3>3
    <3>. QED  BY <3>1, <3>2, <3>4 DEF Unwound, Walking, At
  <2>2. CASE u # t
    BY <1>12, <1>a, <1>b, <1>o, <2>2 DEF OldPath
  <2>. QED  BY <2>1, <2>2
<1>13. ASSUME NEW u \in Actors, NewNode(u) PROVE Unwound(t)'
  <2>1. CASE u = t
    <3>1. /\ walk[t].at = "insert" /\ walk[t].own # <<>> /\ walk'[t].at = "link"
          /\ walk'[t].node = walk[t].node /\ call'[t] = call[t]
          /\ walk'[t].main = walk[t].main /\ walk'[t].own = walk[t].own
          /\ walk'[t].new = nextId
      BY <1>13, <1>a, <1>b, <2>1 DEF NewNode, At, Walker
    <3>2. PathTo'[walk[t].node] = PathTo[walk[t].node]
      BY <1>e, <1>g, <3>1 DEF Walking
    <3>3. walk'[t].leaf = IF Len(walk[t].own) = 1 THEN nextId ELSE walk[t].leaf
      BY <1>13, <1>a, <1>b, <2>1 DEF NewNode, Walker
    <3>4. /\ PathTo[walk[t].node] \o (walk[t].main \o walk[t].own) = Whole(call[t])
          /\ walk[t].leaf # Null => Len(walk[t].own) = 1
      BY <1>c, <3>1 DEF Unwound, Walking, At
    <3>. QED  BY <3>1, <3>2, <3>3, <3>4 DEF Unwound, Walking, At
  <2>2. CASE u # t
    BY <1>13, <1>a, <1>b, <1>o, <2>2 DEF NewNode
  <2>. QED  BY <2>1, <2>2
<1>14. ASSUME NEW u \in Actors, InsertNode(u) PROVE Unwound(t)'
  <2>1. CASE u = t
    <3>. DEFINE n == walk[t].new  w == walk[t]
    <3>1. w.at = "link" /\ w.own # <<>> /\ w \in Walker /\ n \in Nodes
      BY <1>14, <1>a, <1>b, <1>c, <2>1 DEF InsertNode, At, WalkInv, Holding
    <3>2. Pop(w) \in Walker /\ Pop(w).at = "link" /\ Pop(w).leaf = w.leaf
      BY <3>1, PopLemma
    <3>3. /\ walk'[t].at = "insert" /\ walk'[t].node = n
          /\ walk'[t].main = Pop(w).main /\ walk'[t].own = Pop(w).own
          /\ walk'[t].leaf = w.leaf /\ call'[t] = call[t]
      BY <1>14, <1>a, <1>b, <2>1, <3>2 DEF InsertNode, Walker
    <3>4. w.node \in nodeMap[t] /\ w.node \in Nodes
      BY <1>g, <3>1 DEF Walking
    <3>5. pc[n] = Frame(t) /\ pc[n] \in Pcs /\ Child(t) = Null
      BY <1>b, <1>c, <3>1, FrameLemma DEF Place, At
    <3>6. parentID' = [parentID EXCEPT ![n] = w.node] /\ pc' = pc
      BY <1>14, <2>1, <3>5 DEF InsertNode, Child
    <3>7. parentID'[n] = w.node /\ pc'[n] = Frame(t)
      BY <1>a, <3>1, <3>5, <3>6
    <3>8. PathTo'[n] = Append(PathTo[w.node], Frame(t))
      BY <1>d, <1>e, <3>1, <3>4, <3>7, PathAtPrime
    <3>9. /\ PathTo[w.node] \o (w.main \o w.own) = Whole(call[t])
          /\ Len(w.own) = 1 => w.leaf = n
          /\ w.leaf # Null => Len(w.own) = 1
      BY <1>c, <3>1 DEF Unwound, Walking, At
    <3>10. PathTo[w.node] \in Seq(Labels)
      BY <1>f, <3>4
    <3>11. Append(PathTo[w.node], Frame(t)) \o (Pop(w).main \o Pop(w).own) = Whole(call[t])
      BY <3>1, <3>9, <3>10, GoDown DEF Frame
    <3>12. /\ Pop(w).own = <<>> => Pop(w).main = <<>> /\ Len(w.own) = 1
           /\ Pop(w).own # <<>> /\ Len(w.own) = 1 => Len(Pop(w).own) = 1
      BY <3>1, FrameSplit
    <3>. HIDE DEF n, w
    <3>. QED  BY <3>3, <3>8, <3>9, <3>11, <3>12 DEF Unwound, Walking, At
  <2>2. CASE u # t
    BY <1>14, <1>a, <1>b, <1>o, <2>2 DEF InsertNode
  <2>. QED  BY <2>1, <2>2
<1>15. ASSUME NEW u \in Actors, End(u) PROVE Unwound(t)'
  <2>1. CASE u = t
    <3>1. walk'[t].at = "out"
      BY <1>15, <1>a, <1>b, <2>1 DEF End, Idle
    <3>. QED  BY <3>1, <1>h
  <2>2. CASE u # t
    BY <1>15, <1>a, <1>b, <1>o, <2>2 DEF End
  <2>. QED  BY <2>1, <2>2
<1>16. CASE UNCHANGED vars
  BY <1>16, <1>o DEF vars
<1>. QED
  BY <1>1, <1>2, <1>3, <1>4, <1>5, <1>6, <1>7, <1>8, <1>9, <1>10, <1>11, <1>12,
     <1>13, <1>14, <1>15, <1>16 DEF Next, BackTrace, Update, Walk

-----------------------------------------------------------------------------
(* An unwinding ends with its path in the tree; a stack pointer stands for *)
(* such a path, or for one that is being made.                             *)

LEMMA LeafLemma ==
  ASSUME TreeAssumption, AllInv, NEW t \in Threads, End(t)
  PROVE  walk[t].leaf \in nodeMap[t] /\ PathTo[walk[t].leaf] = Whole(call[t])
PROOF
<1>a. t \in Actors /\ t # Sampler /\ TreeOf(t) = t
  BY DEF Actors, TreeOf, TreeAssumption
<1>b. TypeOK /\ Numbering /\ Place /\ Unwound(t) /\ nodeMap[t] \subseteq Nodes
  BY DEF AllInv, TypeInv, TypeOK, TreeInv, PathInv
<1>1. CASE At(t, "end")
  BY <1>1, <1>b DEF Unwound
<1>2. CASE At(t, "insert") /\ walk[t].own = <<>>
  <2>1. /\ walk[t].leaf = walk[t].node /\ walk[t].main = <<>>
        /\ walk[t].node \in nodeMap[t]
    BY <1>2, <1>a, <1>b DEF Unwound, Walking, At, Place
  <2>2. PathTo[walk[t].node] \o (<<>> \o <<>>) = Whole(call[t])
    BY <1>2, <1>b, <2>1 DEF Unwound, Walking, At
  <2>3. PathTo[walk[t].node] \in Seq(Labels)
    BY <1>b, <2>1, PathAt
  <2>4. PathTo[walk[t].node] = Whole(call[t])
    BY <2>2, <2>3
  <2>. QED  BY <2>1, <2>4
<1>. QED  BY <1>1, <1>2, <1>a DEF End

LEMMA FoundedStep ==
  ASSUME TreeAssumption, Calm, AllInv, [Next]_vars, NEW r \in Rsps
  PROVE  Founded(r)'
PROOF
<1>a. /\ walk \in [Actors -> Walker] /\ call \in [Threads -> Launch]
      /\ nodeMap \in [Threads -> SUBSET Nodes] /\ esp2pcId \in [Rsps -> Ids]
      /\ \A t \in Threads : call[t] \in Calls[t]
  BY DEF AllInv, TypeInv, TypeOK
<1>b. /\ Threads \subseteq Actors /\ Sampler \notin Threads
      /\ \A a \in Actors : a # Sampler => a \in Threads
  BY DEF Actors, TreeAssumption
<1>c. TypeOK /\ WalkInv /\ Founded(r) /\ Numbering /\ \A t \in Threads : Unwound(t)
  BY DEF AllInv, TypeInv, TreeInv, PathInv
<1>d. \A t \in Threads : \A n \in nodeMap[t] :
        n \in nodeMap'[t] /\ PathTo'[n] = PathTo[n]
  BY TypeStep, NumberingStep, PathsStay, ListedKept DEF AllInv, TypeInv, PathInv
<1>e. ASSUME esp2pcId'[r] = esp2pcId[r],
             \A t \in Threads : Making(t, r) => Making(t, r)' \/ Made(t, r)
      PROVE  Founded(r)'
  <2>1. ASSUME NEW t \in Threads, Made(t, r) PROVE Made(t, r)'
    BY <1>d, <1>e, <2>1 DEF Made
  <2>. QED  BY <1>c, <1>e, <2>1 DEF Founded
<1>f. ASSUME UNCHANGED esp2pcId, NEW a \in Actors,
             \A b \in Actors \ {a} : walk'[b] = walk[b],
             \A t \in Threads \ {a} : call'[t] = call[t],
             walk[a].at \notin {"insert", "link"}
      PROVE  Founded(r)'
  <2>1. ASSUME NEW t \in Threads, Making(t, r) PROVE Making(t, r)'
    <3>1. t # a
      BY <1>f, <2>1 DEF Making, At
    <3>. QED  BY <1>b, <1>f, <2>1, <3>1 DEF Making, At
  <2>. QED  BY <1>e, <1>f, <2>1
<1>1. ASSUME NEW t \in Threads, Enter(t) PROVE Founded(r)'
  <2>1. /\ \A b \in Actors \ {t} : walk'[b] = walk[b]
        /\ \A b \in Threads \ {t} : call'[b] = call[b]
        /\ walk[t].at = "out" /\ UNCHANGED esp2pcId
    BY <1>1, <1>a, <1>b, <1>c, MoveLemma DEF Enter, At, idVars
  <2>. QED  BY <1>b, <1>f, <2>1
<1>2. ASSUME NEW t \in Threads, Sample(t) PROVE Founded(r)'
  <2>1. /\ \A b \in Actors \ {Sampler} : walk'[b] = walk[b]
        /\ UNCHANGED <<call, esp2pcId>> /\ walk[Sampler].at = "out"
        /\ Sampler \in Actors
    BY <1>2, <1>a DEF Sample, At, Actors, idVars
  <2>. QED  BY <1>f, <2>1
<1>3. ASSUME NEW a \in Actors, HasTree(a) PROVE Founded(r)'
  <2>1. /\ \A b \in Actors \ {a} : walk'[b] = walk[b]
        /\ UNCHANGED <<call, esp2pcId>> /\ walk[a].at = "tree"
    BY <1>3, <1>c, MoveLemma DEF HasTree, At, idVars
  <2>. QED  BY <1>f, <2>1
<1>4. ASSUME NEW a \in Actors, NewRoot(a) PROVE Founded(r)'
  <2>1. /\ \A b \in Actors \ {a} : walk'[b] = walk[b]
        /\ UNCHANGED <<call, esp2pcId>> /\ walk[a].at = "tree"
    BY <1>4, <1>a DEF NewRoot, At, idVars
  <2>. QED  BY <1>f, <2>1
<1>5. ASSUME NEW a \in Actors, SetRoot(a) PROVE Founded(r)'
  <2>1. /\ \A b \in Actors \ {a} : walk'[b] = walk[b]
        /\ UNCHANGED <<call, esp2pcId>> /\ walk[a].at = "root"
    BY <1>5, <1>c, MoveLemma DEF SetRoot, At, idVars
  <2>. QED  BY <1>f, <2>1
<1>6. ASSUME NEW t \in Threads, FakeBackTrace(t) PROVE Founded(r)'
  <2>1. /\ \A b \in Actors \ {t} : walk'[b] = walk[b]
        /\ UNCHANGED <<call, esp2pcId>> /\ walk[t].at = "look"
    BY <1>6, <1>b, <1>c, MoveLemma DEF FakeBackTrace, At
  <2>. QED  BY <1>b, <1>f, <2>1
<1>7. ASSUME NEW t \in Threads, UseCached(t) PROVE Founded(r)'
  <2>1. /\ \A b \in Actors \ {t} : walk'[b] = walk[b]
        /\ UNCHANGED <<call, esp2pcId>> /\ walk[t].at = "look"
    BY <1>7, <1>b, <1>c, MoveLemma DEF UseCached, At
  <2>. QED  BY <1>b, <1>f, <2>1
<1>8. ASSUME NEW t \in Threads, Unwind(t) PROVE Founded(r)'
  <2>1. /\ \A b \in Actors \ {t} : walk'[b] = walk[b]
        /\ UNCHANGED <<call, esp2pcId>> /\ walk[t].at = "look"
    BY <1>8, <1>a, <1>b DEF Unwind, At, idVars
  <2>. QED  BY <1>b, <1>f, <2>1
<1>9. ASSUME StartUpdate PROVE Founded(r)'
  <2>1. /\ \A b \in Actors \ {Sampler} : walk'[b] = walk[b]
        /\ UNCHANGED <<call, esp2pcId>> /\ walk[Sampler].at = "look"
        /\ Sampler \in Actors
    BY <1>9, <1>a DEF StartUpdate, At, Actors, idVars
  <2>. QED  BY <1>f, <2>1
<1>10. ASSUME NEW a \in Actors, Descend(a) PROVE Founded(r)'
  <2>1. /\ \A b \in Actors \ {a} : walk'[b] = walk[b]
        /\ UNCHANGED <<call, esp2pcId>> /\ walk[a].at = "search"
    BY <1>10, <1>a DEF Descend, At, idVars
  <2>. QED  BY <1>f, <2>1
<1>11. ASSUME NEW a \in Actors, Miss(a) PROVE Founded(r)'
  <2>1. /\ \A b \in Actors \ {a} : walk'[b] = walk[b]
        /\ UNCHANGED <<call, esp2pcId>> /\ walk[a].at = "search"
    BY <1>11, <1>c, MoveLemma DEF Miss, At, idVars
  <2>. QED  BY <1>f, <2>1
<1>12. ASSUME NEW t \in Threads, OldPath(t) PROVE Founded(r)'
  <2>1. /\ \A b \in Actors \ {t} : walk'[b] = walk[b]
        /\ UNCHANGED <<call, esp2pcId>> /\ walk[t].at = "search"
    BY <1>12, <1>a, <1>b DEF OldPath, At
  <2>. QED  BY <1>b, <1>f, <2>1
<1>13. ASSUME NEW a \in Actors, NewNode(a) PROVE Founded(r)'
  <2>1. /\ \A b \in Actors \ {a} : walk'[b] = walk[b]
        /\ UNCHANGED call /\ walk'[a].at = "link" /\ walk[a].at = "insert"
        /\ walk[a].own # <<>>
    BY <1>13, <1>a DEF NewNode, At, Walker
  <2>2. CASE a # Sampler /\ Len(walk[a].own) = 1
    <3>1. /\ a \in Threads /\ walk'[a].leaf = nextId
          /\ esp2pcId' = [esp2pcId EXCEPT ![call[a].rsp] = nextId]
      BY <1>13, <1>a, <1>b, <2>2 DEF NewNode, Walker
    <3>2. CASE r = call[a].rsp
      <4>1. Making(a, r)'
        BY <1>a, <2>1, <3>1, <3>2 DEF Making, At
      <4>. QED  BY <3>1, <4>1 DEF Founded
    <3>3. CASE r # call[a].rsp
      <4>1. esp2pcId'[r] = esp2pcId[r]
        BY <1>a, <3>1, <3>3
      <4>2. ASSUME NEW t \in Threads, Making(t, r) PROVE Making(t, r)'
        BY <1>b, <2>1, <3>3, <4>1, <4>2 DEF Making, At
      <4>. QED  BY <1>e, <4>1, <4>2
    <3>. QED  BY <3>2, <3>3
  <2>3. CASE ~(a # Sampler /\ Len(walk[a].own) = 1)
    <3>1. UNCHANGED esp2pcId /\ walk'[a].leaf = walk[a].leaf
      BY <1>13, <1>a, <2>3 DEF NewNode, Walker, idVars
    <3>2. ASSUME NEW t \in Threads, Making(t, r) PROVE Making(t, r)'
      BY <1>b, <2>1, <3>1, <3>2 DEF Making, At
    <3>. QED  BY <1>e, <3>1, <3>2
  <2>. QED  BY <2>2, <2>3
<1>14. ASSUME NEW a \in Actors, InsertNode(a) PROVE Founded(r)'
  <2>1. Pop(walk[a]) \in Walker /\ Pop(walk[a]).leaf = walk[a].leaf
    BY <1>14, <1>a, <1>c, PopLemma DEF InsertNode, WalkInv
  <2>2. /\ \A b \in Actors \ {a} : walk'[b] = walk[b]
        /\ UNCHANGED <<call, esp2pcId>> /\ walk'[a].at = "insert"
        /\ walk'[a].leaf = walk[a].leaf
    BY <1>14, <1>a, <2>1 DEF InsertNode, Walker, idVars
  <2>3. ASSUME NEW t \in Threads, Making(t, r) PROVE Making(t, r)'
    BY <1>b, <2>2, <2>3 DEF Making, At
  <2>. QED  BY <1>e, <2>2, <2>3
<1>15. ASSUME NEW a \in Actors, End(a) PROVE Founded(r)'
  <2>1. /\ \A b \in Actors \ {a} : walk'[b] = walk[b]
        /\ UNCHANGED <<call, esp2pcId>>
    BY <1>15, <1>a DEF End, idVars
  <2>2. ASSUME NEW t \in Threads, Making(t, r) PROVE Making(t, r)' \/ Made(t, r)
    <3>1. CASE t # a
      BY <1>b, <2>1, <2>2, <3>1 DEF Making, At
    <3>2. CASE t = a
      <4>1. /\ esp2pcId[r] = walk[t].leaf /\ call[t].rsp = r
            /\ walk[t].leaf \in nodeMap[t] /\ PathTo[walk[t].leaf] = Whole(call[t])
        BY <1>15, <2>2, <3>2, LeafLemma DEF Making
      <4>. QED  BY <1>a, <4>1 DEF Made
    <3>. QED  BY <3>1, <3>2
  <2>. QED  BY <1>e, <2>1, <2>2
<1>16. CASE UNCHANGED vars
  BY <1>16, <1>e DEF vars, idVars, Making, At
<1>. QED
  BY <1>1, <1>2, <1>3, <1>4, <1>5, <1>6, <1>7, <1>8, <1>9, <1>10, <1>11, <1>12,
     <1>13, <1>14, <1>15, <1>16 DEF Next, BackTrace, Update, Walk

LEMMA LastStep ==
  ASSUME TreeAssumption, Calm, AllInv, [Next]_vars
  PROVE  PathIsWhole'
PROOF
<1>a. \A t \in Threads : \A n \in nodeMap[t] :
        n \in nodeMap'[t] /\ PathTo'[n] = PathTo[n]
  BY TypeStep, NumberingStep, PathsStay, ListedKept DEF AllInv, TypeInv, PathInv
<1>b. PathIsWhole /\ last \in [Threads -> [id : Ids, path : Seq(Pcs)]]
  BY DEF AllInv, PathInv, TypeInv, TypeOK
<1>1. ASSUME NEW t \in Threads, last'[t] = last[t]
      PROVE  last'[t].id # Null => /\ last'[t].id \in nodeMap'[t]
                                   /\ PathTo'[last'[t].id] = <<NoPc>> \o last'[t].path
  BY <1>1, <1>a, <1>b DEF PathIsWhole
<1>2. ASSUME NEW a \in Actors, End(a) PROVE PathIsWhole'
  <2>1. ASSUME NEW t \in Threads
        PROVE  last'[t].id # Null => /\ last'[t].id \in nodeMap'[t]
                                     /\ PathTo'[last'[t].id] = <<NoPc>> \o last'[t].path
    <3>1. CASE t # a \/ a = Sampler
      BY <1>1, <1>2, <1>b, <3>1 DEF End
    <3>2. CASE t = a /\ a # Sampler
      <4>1. walk[t].leaf \in nodeMap[t] /\ PathTo[walk[t].leaf] = Whole(call[t])
        BY <1>2, <3>2, LeafLemma
      <4>. DEFINE x == walk[t].leaf  y == call[t].main \o call[t].own
      <4>2. last' = [last EXCEPT ![t] = [id |-> x, path |-> y]]
        BY <1>2, <3>2 DEF End
      <4>. HIDE DEF x, y
      <4>6. last'[t].id = x /\ last'[t].path = y
        BY <1>b, <4>2
      <4>3. /\ last'[t].id = walk[t].leaf
            /\ last'[t].path = call[t].main \o call[t].own
        BY <4>6 DEF x, y
      <4>4. <<NoPc>> \o last'[t].path = Whole(call[t])
        BY <4>3 DEF Whole
      <4>5. /\ walk[t].leaf \in nodeMap'[t]
            /\ PathTo'[walk[t].leaf] = Whole(call[t])
        BY <1>a, <4>1
      <4>. QED  BY <4>3, <4>4, <4>5
    <3>. QED  BY <3>1, <3>2
  <2>. QED  BY <2>1 DEF PathIsWhole
<1>3. ASSUME UNCHANGED last PROVE PathIsWhole'
  BY <1>1, <1>3 DEF PathIsWhole
<1>. QED
  BY <1>2, <1>3 DEF Next, BackTrace, Update, Walk, vars, Enter, Sample, HasTree,
     NewRoot, SetRoot, FakeBackTrace, UseCached, Unwind, StartUpdate, Descend,
     Miss, OldPath, NewNode, InsertNode

LEMMA AllInit == TreeAssumption /\ Init => AllInv
PROOF BY TypeInit, TreeInit, PathInit DEF AllInv

LEMMA AllStep == TreeAssumption /\ Calm /\ AllInv /\ [Next]_vars => AllInv'
PROOF
<1>. SUFFICES ASSUME TreeAssumption, Calm, AllInv, [Next]_vars PROVE AllInv'
  OBVIOUS
<1>1. TypeInv' /\ TreeInv'
  BY TypeStep, TreeStep DEF AllInv
<1>2. Numbering' /\ PathIsWhole'
  BY NumberingStep, LastStep
<1>3. \A t \in Threads : Unwound(t)'
  BY UnwoundStep
<1>4. \A r \in Rsps : Founded(r)'
  BY FoundedStep
<1>. QED  BY <1>1, <1>2, <1>3, <1>4 DEF AllInv, PathInv

-----------------------------------------------------------------------------
(* The theorems.                                                           *)

\* While the CPU sampler keeps out of the trees that are being unwound into,
\* the node an unwinding has left its launch with stands in its thread's tree
\* for good, and going up from it by parentID gives the stack DoBackTrace
\* unwound: the main thread's frames, then the thread's own.
THEOREM PathsAreWhole == Calm => (Spec => []PathIsWhole)
PROOF
<1>1. AllInv => PathIsWhole
  BY DEF AllInv, PathInv
<1>2. ASSUME Calm PROVE Spec => []PathIsWhole
  <2>1. (Init => AllInv) /\ (AllInv /\ [Next]_vars => AllInv')
    BY <1>2, TreeAssumption, AllInit, AllStep
  <2>. QED  BY <1>1, <2>1, PTL DEF Spec
<1>. QED  BY <1>2

LEMMA FoundedLemma ==
  ASSUME TreeAssumption, \A r \in Rsps : Founded(r)
  PROVE  CacheIsFounded
PROOF
<1>1. ASSUME NEW c \in Launch PROVE Whole(c) = <<NoPc>> \o c.main \o c.own
  <2>. DEFINE h == <<NoPc>>  x == c.main  y == c.own
  <2>1. x \in Seq(Pcs) /\ y \in Seq(Pcs) /\ h \in Seq(Labels)
    BY DEF Launch, Labels
  <2>. HIDE DEF h, x, y
  <2>2. x \in Seq(Labels) /\ y \in Seq(Labels)
    BY <2>1, SeqMonotonic DEF Labels
  <2>3. (h \o x) \o y = h \o (x \o y)
    BY <2>1, <2>2, ConcatAssociative
  <2>. QED  BY <2>3 DEF Whole, h, x, y
<1>2. \A t \in Threads : Calls[t] \subseteq Launch
  BY DEF TreeAssumption
<1>3. ASSUME NEW r \in Rsps, esp2pcId[r] # Null
      PROVE  \/ \E t \in Threads : walk[t].leaf = esp2pcId[r]
             \/ \E t \in Threads : \E c \in Calls[t] :
                  c.rsp = r /\ PathTo[esp2pcId[r]] = <<NoPc>> \o c.main \o c.own
  <2>1. PICK t \in Threads : Making(t, r) \/ Made(t, r)
    BY <1>3 DEF Founded
  <2>2. CASE Making(t, r)
    BY <2>2 DEF Making
  <2>3. CASE Made(t, r)
    <3>1. PICK c \in Calls[t] : c.rsp = r /\ PathTo[esp2pcId[r]] = Whole(c)
      BY <2>3 DEF Made
    <3>2. Whole(c) = <<NoPc>> \o c.main \o c.own
      BY <1>1, <1>2
    <3>. QED  BY <3>1, <3>2
  <2>. QED  BY <2>1, <2>2, <2>3
<1>. QED  BY <1>3, Zenon DEF CacheIsFounded

\* Likewise a stack pointer in esp2pcIdMap stands for the path of some launch
\* with that stack pointer, from when the unwinding that entered it has ended.
THEOREM CachedPathsAreFounded == Calm => (Spec => []CacheIsFounded)
PROOF
<1>1. AllInv => CacheIsFounded
  BY TreeAssumption, FoundedLemma DEF AllInv, PathInv
<1>2. ASSUME Calm PROVE Spec => []CacheIsFounded
  <2>1. (Init => AllInv) /\ (AllInv /\ [Next]_vars => AllInv')
    BY <1>2, TreeAssumption, AllInit, AllStep
  <2>. QED  BY <1>1, <2>1, PTL DEF Spec
<1>. QED  BY <1>2

-----------------------------------------------------------------------------
(* The trees implement ContextSet: a tree is the set of the paths to its   *)
(* nodes.  Making a root is Root, linking a node is Extend, the end of an  *)
(* unwinding is Name; everything else leaves the paths alone.              *)

Paths == [t \in Threads |-> PathsOf(t)]
Names == [t \in Threads |-> last[t].path]

\* A tree that gets no node keeps its paths.
LEMMA PathsOfKept ==
  ASSUME TreeAssumption, Calm, AllInv, [Next]_vars, NEW t \in Threads,
         nodeMap'[t] = nodeMap[t]
  PROVE  PathsOf(t)' = PathsOf(t)
PROOF
<1>1. \A n \in nodeMap[t] : PathTo'[n] = PathTo[n]
  BY TypeStep, NumberingStep, PathsStay DEF AllInv, TypeInv, PathInv
<1>. QED  BY <1>1 DEF PathsOf

LEMMA StutterLemma ==
  ASSUME TreeAssumption, Calm, AllInv, [Next]_vars, UNCHANGED <<nodeMap, last>>
  PROVE  Paths' = Paths /\ Names' = Names
PROOF
<1>1. \A t \in Threads : PathsOf(t)' = PathsOf(t)
  BY PathsOfKept
<1>. QED  BY <1>1 DEF Paths, Names

LEMMA RootLemma ==
  ASSUME TreeAssumption, Calm, AllInv, [Next]_vars, NEW a \in Actors, SetRoot(a)
  PROVE  \/ Paths' = Paths /\ Names' = Names
         \/ \E t \in Threads : /\ Paths[t] = {}
                               /\ Paths' = [Paths EXCEPT ![t] = {<<>>}]
                               /\ Names' = Names
PROOF
<1>a. /\ nodeMap \in [Threads -> SUBSET Nodes] /\ TreeOf(a) \in Threads
      /\ TypeOK /\ WalkInv /\ TypeOK' /\ Numbering'
  BY TreeOfLemma, TypeStep, NumberingStep DEF AllInv, TypeInv, TypeOK
<1>1. UNCHANGED last
  BY DEF SetRoot
<1>2. CASE root[TreeOf(a)] # Null
  <2>1. UNCHANGED nodeMap
    BY <1>2 DEF SetRoot
  <2>. QED  BY <1>1, <2>1, StutterLemma
<1>3. CASE root[TreeOf(a)] = Null
  <2>. DEFINE t == TreeOf(a)  n == walk[a].new
  <2>1. n \in Nodes /\ ~Listed(n)
    BY <1>a DEF SetRoot, WalkInv, Holding, At, AllInv, TreeInv, Fresh
  <2>2. nodeMap[t] = {} /\ parentID[n] = Null /\ pc[n] = NoPc
    BY <1>3, <1>a, <2>1 DEF AllInv, TreeInv, Shape, Rooted, Blank, PathInv,
                            Numbering, SetRoot, At
  <2>3. nodeMap' = [nodeMap EXCEPT ![t] = {n}] /\ UNCHANGED <<parentID, pc>>
    BY <1>3 DEF SetRoot
  <2>4. t \in Threads
    BY <1>a
  <2>. HIDE DEF t, n
  <2>5. PathTo'[n] = Append(<<>>, NoPc)
    BY <1>a, <2>1, <2>2, <2>3, PathAtPrime
  <2>6. Tail(PathTo'[n]) = <<>>
    BY <2>5
  <2>7. nodeMap'[t] = {n} /\ \A u \in Threads \ {t} : nodeMap'[u] = nodeMap[u]
    BY <1>a, <2>3, <2>4
  <2>8. \A u \in Threads \ {t} : PathsOf(u)' = PathsOf(u)
    BY <2>7, PathsOfKept
  <2>9. \A u \in Threads : u = t => PathsOf(u) = {} /\ PathsOf(u)' = {<<>>}
    <3>1. {Tail(PathTo'[k]) : k \in {n}} = {<<>>}
      BY <2>6
    <3>2. {Tail(PathTo[k]) : k \in {}} = {}
      OBVIOUS
    <3>. QED  BY <2>2, <2>7, <3>1, <3>2 DEF PathsOf
  <2>10. Paths[t] = {} /\ Paths' = [Paths EXCEPT ![t] = {<<>>}]
    BY <2>4, <2>8, <2>9 DEF Paths
  <2>. QED  BY <1>1, <2>4, <2>10 DEF Names
<1>. QED  BY <1>2, <1>3

LEMMA ExtendLemma ==
  ASSUME TreeAssumption, Calm, AllInv, [Next]_vars, NEW a \in Actors, InsertNode(a)
  PROVE  \E t \in Threads : \E p \in Paths[t] : \E f \in Pcs :
           /\ Paths' = [Paths EXCEPT ![t] = @ \cup {Append(p, f)}]
           /\ Names' = Names
PROOF
<1>. DEFINE t == TreeOf(a)  n == walk[a].new  parent == walk[a].node  f == Frame(a)
            p == Tail(PathTo[parent])
<1>a. /\ nodeMap \in [Threads -> SUBSET Nodes] /\ t \in Threads
      /\ parentID \in [Nodes -> Ids]
      /\ TypeOK /\ WalkInv /\ Place /\ Numbering /\ TypeOK' /\ Numbering'
  BY TreeOfLemma, TypeStep, NumberingStep
     DEF AllInv, TypeInv, TypeOK, TreeInv, PathInv
<1>1. /\ UNCHANGED <<last, pc>> /\ n \in Nodes /\ parent \in nodeMap[t]
      /\ walk[a].own # <<>>
  BY <1>a DEF InsertNode, At, WalkInv, Holding, Walking, Place
<1>2. f \in Pcs /\ pc[n] = f /\ pc2Child[parent][pc[n]] = Null
  BY <1>a, <1>1, FrameLemma DEF Place, At, InsertNode, Child
<1>3. /\ parentID' = [parentID EXCEPT ![n] = parent]
      /\ nodeMap' = [nodeMap EXCEPT ![t] = @ \cup {n}]
  BY <1>2 DEF InsertNode
<1>4. parent \in Nodes /\ p = Tail(PathTo[parent])
  BY <1>a, <1>1
<1>. HIDE DEF t, n, parent, f, p
<1>5. PathTo'[n] = Append(PathTo'[parent], f)
  <2>1. parentID'[n] = parent /\ pc'[n] = f
    BY <1>a, <1>1, <1>2, <1>3
  <2>. QED  BY <1>a, <1>1, <2>1, PathAtPrime
<1>6. \A u \in Threads : \A k \in nodeMap[u] : PathTo'[k] = PathTo[k]
  BY <1>a, PathsStay DEF AllInv, PathInv
<1>7. PathTo[parent] \in Seq(Labels) /\ PathTo[parent] # <<>> /\ f \in Labels
  BY <1>a, <1>2, <1>4, PathAt DEF Labels
<1>8. Tail(PathTo'[n]) = Append(p, f)
  <2>1. PathTo'[n] = Append(PathTo[parent], f)
    BY <1>a, <1>1, <1>5, <1>6
  <2>2. Tail(Append(PathTo[parent], f)) = Append(Tail(PathTo[parent]), f)
    BY <1>7, TailLemma
  <2>. QED  BY <1>4, <2>1, <2>2
<1>9. /\ nodeMap'[t] = nodeMap[t] \cup {n}
      /\ \A u \in Threads \ {t} : nodeMap'[u] = nodeMap[u]
  BY <1>a, <1>3
<1>10. \A u \in Threads \ {t} : PathsOf(u)' = PathsOf(u)
  BY <1>9, PathsOfKept
<1>11. \A u \in Threads : u = t => PathsOf(u)' = PathsOf(u) \cup {Append(p, f)}
  <2>1. {Tail(PathTo'[k]) : k \in nodeMap[t] \cup {n}}
          = {Tail(PathTo[k]) : k \in nodeMap[t]} \cup {Append(p, f)}
    BY <1>a, <1>6, <1>8
  <2>. QED  BY <1>9, <2>1 DEF PathsOf
<1>12. Paths' = [Paths EXCEPT ![t] = @ \cup {Append(p, f)}]
  BY <1>a, <1>10, <1>11 DEF Paths
<1>13. p \in Paths[t]
  BY <1>a, <1>1, <1>4 DEF Paths, PathsOf
<1>. QED  BY <1>a, <1>1, <1>2, <1>12, <1>13 DEF Names

LEMMA NameLemma ==
  ASSUME TreeAssumption, Calm, AllInv, [Next]_vars, NEW a \in Actors, End(a)
  PROVE  \/ Paths' = Paths /\ Names' = Names
         \/ \E t \in Threads : \E p \in {c.main \o c.own : c \in Calls[t]} :
              /\ p \in Paths[t] /\ Names' = [Names EXCEPT ![t] = p]
              /\ Paths' = Paths
PROOF
<1>1. UNCHANGED nodeMap
  BY DEF End, treeVars
<1>2. Paths' = Paths
  <2>1. \A t \in Threads : PathsOf(t)' = PathsOf(t)
    BY <1>1, PathsOfKept
  <2>. QED  BY <2>1 DEF Paths
<1>3. CASE a = Sampler
  BY <1>2, <1>3 DEF End, Names
<1>4. CASE a # Sampler
  <2>1. a \in Threads
    BY <1>4 DEF Actors
  <2>2. walk[a].leaf \in nodeMap[a] /\ PathTo[walk[a].leaf] = Whole(call[a])
    BY <2>1, LeafLemma
  <2>3. call[a] \in Calls[a] /\ call[a] \in Launch
    BY <2>1 DEF AllInv, TypeInv, TypeOK
  <2>. DEFINE p == call[a].main \o call[a].own
  <2>4. Tail(Whole(call[a])) = p
    BY <2>3, WholeLemma
  <2>5. last' = [last EXCEPT ![a] = [id |-> walk[a].leaf, path |-> p]]
    BY <1>4 DEF End
  <2>6. last \in [Threads -> [id : Ids, path : Seq(Pcs)]]
    BY DEF AllInv, TypeInv, TypeOK
  <2>7. p \in {c.main \o c.own : c \in Calls[a]}
    BY <2>3
  <2>. HIDE DEF p
  <2>8. p \in Paths[a]
    BY <2>1, <2>2, <2>4 DEF Paths, PathsOf
  <2>9. Names' = [Names EXCEPT ![a] = p]
    BY <2>1, <2>5, <2>6 DEF Names
  <2>. QED  BY <1>2, <2>1, <2>7, <2>8, <2>9
<1>. QED  BY <1>3, <1>4

LEMMA ContextStep ==
  ASSUME TreeAssumption, Calm, AllInv, [Next]_vars
  PROVE  [Contexts!Next]_<<Paths, Names>>
PROOF
<1>1. ASSUME UNCHANGED <<nodeMap, last>> PROVE [Contexts!Next]_<<Paths, Names>>
  BY <1>1, StutterLemma
<1>2. ASSUME NEW a \in Actors, SetRoot(a) PROVE [Contexts!Next]_<<Paths, Names>>
  <2>1. CASE Paths' = Paths /\ Names' = Names
    BY <2>1
  <2>2. CASE \E t \in Threads : /\ Paths[t] = {}
                                /\ Paths' = [Paths EXCEPT ![t] = {<<>>}]
                                /\ Names' = Names
    <3>1. PICK t \in Threads : /\ Paths[t] = {}
                               /\ Paths' = [Paths EXCEPT ![t] = {<<>>}]
                               /\ Names' = Names
      BY <2>2
    <3>2. Contexts!Root(t)
      BY <3>1 DEF Contexts!Root, Paths, Names
    <3>. QED  BY <3>2 DEF Contexts!Next
  <2>. QED  BY <1>2, <2>1, <2>2, RootLemma
<1>3. ASSUME NEW a \in Actors, InsertNode(a) PROVE [Contexts!Next]_<<Paths, Names>>
  <2>3. PICK t \in Threads : \E q \in Paths[t] : \E f \in Pcs :
           /\ Paths' = [Paths EXCEPT ![t] = @ \cup {Append(q, f)}]
           /\ Names' = Names
    BY <1>3, ExtendLemma
  <2>1. PICK p \in Paths[t], f \in Pcs :
           /\ Paths' = [Paths EXCEPT ![t] = @ \cup {Append(p, f)}]
           /\ Names' = Names
    BY <2>3
  <2>2. Contexts!Extend(t, p, f)
    BY <2>1 DEF Contexts!Extend, Paths, Names
  <2>. QED  BY <2>1, <2>2 DEF Contexts!Next, Paths
<1>4. ASSUME NEW a \in Actors, End(a) PROVE [Contexts!Next]_<<Paths, Names>>
  <2>1. CASE Paths' = Paths /\ Names' = Names
    BY <2>1
  <2>2. CASE \E t \in Threads : \E p \in {c.main \o c.own : c \in Calls[t]} :
              /\ p \in Paths[t] /\ Names' = [Names EXCEPT ![t] = p]
              /\ Paths' = Paths
    <3>3. PICK t \in Threads : \E q \in {c.main \o c.own : c \in Calls[t]} :
              /\ q \in Paths[t] /\ Names' = [Names EXCEPT ![t] = q]
              /\ Paths' = Paths
      BY <2>2
    <3>1. PICK p \in {c.main \o c.own : c \in Calls[t]} :
              /\ p \in Paths[t] /\ Names' = [Names EXCEPT ![t] = p]
              /\ Paths' = Paths
      BY <3>3
    <3>2. Contexts!Name(t, p)
      BY <3>1 DEF Contexts!Name, Paths, Names
    <3>. QED  BY <3>1, <3>2 DEF Contexts!Next
  <2>. QED  BY <1>4, <2>1, <2>2, NameLemma
<1>. QED
  BY <1>1, <1>2, <1>3, <1>4 DEF Next, BackTrace, Update, Walk, vars, treeVars,
     Enter, Sample, HasTree, NewRoot, FakeBackTrace, UseCached, Unwind,
     StartUpdate, Descend, Miss, OldPath, NewNode

\* The trees of all threads implement ContextSet: sets of call paths closed
\* under callers that only grow, in which every unwinding that ends finds the
\* stack it unwound.
THEOREM TreesImplementContexts == Calm => (Spec => ImplementsContexts)
PROOF
<1>. SUFFICES ASSUME Calm PROVE Spec => ImplementsContexts
  OBVIOUS
<1>1. Init => Contexts!Init
  BY DEF Init, Contexts!Init, PathsOf
<1>2. AllInv /\ [Next]_vars => [Contexts!Next]_<<Paths, Names>>
  BY TreeAssumption, ContextStep
<1>3. [Contexts!Next]_<<Paths, Names>> <=> [Contexts!Next]_(Contexts!setVars)
  BY DEF Contexts!setVars, Paths, Names
<1>4. (Init => AllInv) /\ (AllInv /\ [Next]_vars => AllInv')
  BY TreeAssumption, AllInit, AllStep
<1>. QED
  BY <1>1, <1>2, <1>3, <1>4, PTL DEF Spec, ImplementsContexts, Contexts!Spec
=============================================================================
