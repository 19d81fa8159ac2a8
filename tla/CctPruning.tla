----------------------------- MODULE CctPruning -----------------------------
(***************************************************************************)
(* What a reply does with a calling context tree: with PRUNE_CCT the       *)
(* frames that are not critical are left out, then every node of the tree  *)
(* becomes a message, and the client prints the messages from the root.    *)
(*                                                                         *)
(* PruneTreeRecursively goes through the tree depth first: toVisit has the *)
(* children it still has to look at, in the order the calls on its stack   *)
(* get to them, each with the node of the new tree it is looked at below.  *)
(***************************************************************************)
EXTENDS Naturals, Sequences, FiniteSets, Functions

CONSTANT Trees   \* the trees that may have been collected

\* A node without a parent has the parentID 0, which is no node's id.
NoNode == 0

\* A tree has the ids of its nodes, a root, and for each node a parent (but the
\* root), a pc, a count of samples, a frame (its nodeType and what the patterns
\* find in its funcName) and its childNodes in the order of insertion.  A child
\* has a larger id than its parent.  A Python frame is named after a function
\* and a line of Python, which the pattern of the C++ operators does not match:
\* so a name that operators' names were added to still matches what it matched.
IsTree(T) ==
  /\ IsFiniteSet(T.ids) /\ T.ids \subseteq Nat \ {NoNode}
  /\ T.root \in T.ids
  /\ \A i \in T.ids \ {T.root} : T.parent[i] \in T.ids /\ T.parent[i] < i
  /\ \A i \in T.ids :
       /\ T.childNodes[i] \in Seq(T.ids)
       /\ IsInjective(T.childNodes[i])
       /\ Range(T.childNodes[i]) = {j \in T.ids \ {T.root} : T.parent[j] = i}
       /\ T.frame[i].type = "PY" => "torch" \notin T.frame[i].words

ASSUME TreesAreTrees == \A T \in Trees : IsTree(T)

VARIABLES
  stage,      \* idle, build (the tree), reply (it is sent), print
  oldCCT,     \* the tree that was collected
  pruneCCT,   \* the configuration
  newCCT,     \* nodeMap of the tree that is built
  toVisit,    \* children of oldCCT yet to be looked at
  visited,    \* history: nodes of oldCCT that were looked at
  CCT,        \* the message
  nodeQueue,  \* the client's queue: ids of nodes yet to be printed
  printed     \* ids of nodes in the order they are printed

cctVars == <<stage, oldCCT, pruneCCT, newCCT, toVisit, visited, CCT, nodeQueue, printed>>

-----------------------------------------------------------------------------
(* IsCriticalNode: Python frames of a network's passes, then operators of  *)
(* the two frameworks, then leaves.                                        *)

PyCritical(f) ==
  /\ f.type = "PY" /\ "python3" \notin f.words
  /\ \/ "backward" \in f.words
     \/ {"pyFileName", "loss"} \subseteq f.words
     \/ "forward" \in f.words

IsTorchOP(f) == ~PyCritical(f) /\ "torch" \in f.words

\* Fault: a leaf is critical only by its name.
NamedNode(f, children) == PyCritical(f) \/ f.words \cap {"torch", "tf"} # {}

IsCriticalNode(f, children) ==
  PyCritical(f) \/ f.words \cap {"torch", "tf"} # {} \/ children = <<>>

-----------------------------------------------------------------------------
\* A node of the tree that is built: name is the set of frames whose names it
\* bears, childIDs and childPCs are the keys of its two maps of children.
NewNode(p, i) ==
  [parentID |-> p, childIDs |-> {}, childPCs |-> {}, name |-> {i}, samples |-> 1]

\* insertNode with ignoreDupPC: a child stays in id2ChildNodes when another has
\* its pc in pc2ChildNodes.
AddChild(T, tree, p, i) ==
  [k \in DOMAIN tree \cup {i} |->
     IF k = i THEN NewNode(p, i)
     ELSE IF k = p THEN [tree[p] EXCEPT !.childIDs = @ \cup {i},
                                        !.childPCs = @ \cup {T.pc[i]}]
     ELSE tree[k]]

\* The node keeps its name; the operator's goes after it.
Rename(tree, p, i) == [tree EXCEPT ![p].name = @ \cup {i}]

\* The children of node i, to be looked at below node p of the new tree.
ChildNodes(T, p, i) ==
  [k \in DOMAIN T.childNodes[i] |-> [below |-> p, node |-> T.childNodes[i][k]]]

\* The tree as it was collected, for a reply that is not pruned.
Collected(T) ==
  [i \in T.ids |->
     [parentID |-> IF i = T.root THEN NoNode ELSE T.parent[i],
      childIDs |-> Range(T.childNodes[i]),
      childPCs |-> {T.pc[j] : j \in Range(T.childNodes[i])},
      name |-> {i}, samples |-> T.samples[i]]]

-----------------------------------------------------------------------------
NoTree == [ids |-> {}]

CctInit ==
  /\ stage = "idle" /\ pruneCCT = FALSE
  /\ oldCCT = NoTree /\ newCCT = <<>> /\ CCT = NoTree
  /\ toVisit = <<>> /\ visited = {} /\ nodeQueue = <<>> /\ printed = <<>>

\* CopyCPUCCT2ProtoCPUCCTV2 begins with a pruned tree that has the root ...
PruneCPUCCT(T) ==
  /\ stage' = "build"
  /\ oldCCT' = T /\ pruneCCT' = TRUE
  /\ newCCT' = [i \in {T.root} |-> NewNode(NoNode, i)]
  /\ toVisit' = ChildNodes(T, T.root, T.root)
  /\ visited' = {T.root}
  /\ UNCHANGED <<CCT, nodeQueue, printed>>

\* ... or with the collected one.
CopyCPUCCT(T) ==
  /\ stage' = "build"
  /\ oldCCT' = T /\ pruneCCT' = FALSE
  /\ newCCT' = Collected(T)
  /\ visited' = T.ids
  /\ UNCHANGED <<toVisit, CCT, nodeQueue, printed>>

\* currOldNode is the parent of the child that is looked at.
Child == Head(toVisit).node
CurrNewNode == Head(toVisit).below
Siblings == oldCCT.childNodes[oldCCT.parent[Child]]

\* The child is looked at: PruneTreeRecursively goes on with its children, below
\* node p, and then with those that were left.
PruneTreeRecursively(p) ==
  /\ stage = "build"
  /\ toVisit' = ChildNodes(oldCCT, p, Child) \o Tail(toVisit)
  /\ visited' = visited \cup {Child}
  /\ UNCHANGED <<stage, oldCCT, pruneCCT, CCT, nodeQueue, printed>>

IsCriticalChild == IsCriticalNode(oldCCT.frame[Child], oldCCT.childNodes[Child])

\* An only child that is an operator, in the new tree below another.
ContinuesOP ==
  /\ Len(Siblings) = 1
  /\ IsTorchOP(oldCCT.frame[CurrNewNode]) /\ IsTorchOP(oldCCT.frame[Child])

SkipChild ==
  /\ toVisit # <<>> /\ ~IsCriticalChild
  /\ PruneTreeRecursively(CurrNewNode)
  /\ UNCHANGED newCCT

MergeChild ==
  /\ toVisit # <<>> /\ IsCriticalChild /\ ContinuesOP
  /\ newCCT' = Rename(newCCT, CurrNewNode, Child)
  /\ PruneTreeRecursively(CurrNewNode)

InsertChild ==
  /\ toVisit # <<>> /\ IsCriticalChild /\ ~ContinuesOP
  /\ newCCT' = AddChild(oldCCT, newCCT, CurrNewNode, Child)
  /\ PruneTreeRecursively(Child)

-----------------------------------------------------------------------------
\* The messages: ids and pcs of children come out of two maps.
ProtoNode(T, i, node) ==
  [id |-> i, pc |-> T.pc[i], parentid |-> node.parentID,
   parentpc |-> IF i = T.root THEN 0 ELSE T.pc[node.parentID],
   samples |-> node.samples, funcname |-> node.name,
   childids |-> node.childIDs, childpcs |-> node.childPCs]

Message(T, tree) ==
  [rootid |-> T.root, rootpc |-> T.pc[T.root],
   nodemap |-> [i \in DOMAIN tree |-> ProtoNode(T, i, tree[i])]]

\* The first version, which nothing calls, leaves the samples unset.
CopyCPUCCT2ProtoCPUCCT(T, tree) ==
  [Message(T, tree) EXCEPT
     !.nodemap = [i \in DOMAIN tree |-> [ProtoNode(T, i, tree[i]) EXCEPT !.samples = 0]]]

CopyCPUCCT2ProtoCPUCCTV2 ==
  /\ stage = "build" /\ toVisit = <<>> /\ stage' = "reply"
  /\ CCT' = Message(oldCCT, newCCT)
  /\ UNCHANGED <<oldCCT, pruneCCT, newCCT, toVisit, visited, nodeQueue, printed>>

PrintSamplingResults ==
  /\ stage = "reply" /\ stage' = "print"
  /\ nodeQueue' = <<CCT.rootid>>
  /\ UNCHANGED <<oldCCT, pruneCCT, newCCT, toVisit, visited, CCT, printed>>

\* The sequences that have each element of the finite set S once.
Orders(S) == Bijection(1 .. Cardinality(S), S)

\* The client prints the node in front; its children, which a hash map gave in
\* any order, go to the end.
PrintNode ==
  /\ stage = "print" /\ nodeQueue # <<>>
  /\ printed' = Append(printed, Head(nodeQueue))
  /\ \E childids \in Orders(CCT.nodemap[Head(nodeQueue)].childids) :
       nodeQueue' = Tail(nodeQueue) \o childids
  /\ UNCHANGED <<stage, oldCCT, pruneCCT, newCCT, toVisit, visited, CCT>>

CctNext ==
  \/ stage = "idle" /\ \E T \in Trees : PruneCPUCCT(T) \/ CopyCPUCCT(T)
  \/ SkipChild \/ MergeChild \/ InsertChild
  \/ CopyCPUCCT2ProtoCPUCCTV2 \/ PrintSamplingResults \/ PrintNode

-----------------------------------------------------------------------------
(* What is promised.                                                       *)

\* For each node of T its nearest proper ancestor in S.
NearestAbove(T, S) ==
  LET near[i \in T.ids] == IF i = T.root THEN NoNode
                           ELSE IF T.parent[i] \in S THEN T.parent[i]
                           ELSE near[T.parent[i]]
  IN  near

Critical(T) ==
  {i \in T.ids : i = T.root \/ IsCriticalNode(T.frame[i], T.childNodes[i])}

\* An operator that continues another is merged with it.
Merged(T) ==
  {i \in Critical(T) \ {T.root} :
     /\ Cardinality({j \in T.ids \ {T.root} : T.parent[j] = T.parent[i]}) = 1
     /\ IsTorchOP(T.frame[i])
     /\ IsTorchOP(T.frame[NearestAbove(T, Critical(T))[i]])}

Kept(T) == Critical(T) \ Merged(T)

Leaves(T) == {i \in T.ids : Range(T.childNodes[i]) = {}}

\* The nodes of a pruned tree are the critical frames but those merged, each
\* below the nearest ancestor that is left; a merged one's name is on that
\* ancestor and on no other, and every leaf's, where a launch was made, on one.
PrunedWell(T, nodemap) ==
  LET near == NearestAbove(T, Kept(T))
  IN  /\ DOMAIN nodemap = Kept(T)
      /\ \A i \in Kept(T) \ {T.root} : nodemap[i].parentid = near[i]
      /\ \A i \in Merged(T) : \A q \in Kept(T) : i \in nodemap[q].funcname <=> q = near[i]
      /\ \A i \in Leaves(T) : \E q \in Kept(T) : i \in nodemap[q].funcname

\* A message names as the children of a node those that name it as their parent.
LinksAgree(M) ==
  /\ M.rootid \in DOMAIN M.nodemap
  /\ \A i \in DOMAIN M.nodemap :
       M.nodemap[i].childids = {j \in DOMAIN M.nodemap \ {M.rootid} :
                                  M.nodemap[j].parentid = i}

\* Pruning keeps every critical frame below the nearest one above it, merges
\* what it says it merges and loses no leaf's name, in whatever order the tree
\* is gone through; the links of a reply, pruned or not, agree, and the client
\* prints no node twice and, when it is done, each one.
PruningKeepsContexts ==
  /\ stage \in {"reply", "print"} =>
       /\ LinksAgree(CCT)
       /\ pruneCCT => PrunedWell(oldCCT, CCT.nodemap)
       /\ ~pruneCCT => DOMAIN CCT.nodemap = oldCCT.ids
  /\ stage = "print" =>
       /\ IsInjective(printed) /\ Range(printed) \subseteq DOMAIN CCT.nodemap
       /\ nodeQueue = <<>> => Range(printed) = DOMAIN CCT.nodemap
=============================================================================
