------------------------- MODULE CallingContextTree -------------------------
(***************************************************************************)
(* The CPU calling context trees, one for each launching thread.           *)
(*                                                                         *)
(* DoBackTrace runs on the launching thread itself, UpdateCCT for any of   *)
(* them on the thread of the CPU sampler.  Both walk down the tree along   *)
(* an unwound stack and, from the first frame the tree does not know,      *)
(* insert one node a frame.  Only the insertion of a node into its parent  *)
(* is done under the tree's mutex; the walk is not.                        *)
(***************************************************************************)
EXTENDS Naturals, Sequences, FiniteSets

CONSTANTS
  Threads,    \* threads that launch kernels
  Sampler,    \* the thread of CollectCPUSamplerData
  Pcs,        \* program counters of frames
  NoPc,       \* the pc of a virtual root
  PyPcs,      \* those that DoBackTrace knows to be Python frames
  EvalPcs,    \* those the CPU sampler takes for Python's interpreter
  Rsps,       \* values of %rsp at a launch
  Calls,      \* for each thread, the launches it makes: its %rsp, the frames
              \* of the main thread it takes first, and its own, outermost first
  Sampled,    \* for each thread, the stacks the CPU sampler gets, up to the
              \* first frame without a name or with an excluded one
  Confs,      \* values of ProfilerConf::checkRSP and ::fakeBT to look at
  Calm,       \* TRUE: the CPU sampler does not touch the tree of a thread that
              \* is in DoBackTrace, nor the other way round
  MaxNodes    \* bound: nodes of all trees

Nodes == 1 .. MaxNodes
Null == 0
Actors == Threads \cup {Sampler}
Launch == [rsp : Rsps, main : Seq(Pcs), own : Seq(Pcs)]

ASSUME TreeAssumption ==
  /\ Sampler \notin Threads /\ Threads # {}
  /\ NoPc \notin Pcs /\ PyPcs \subseteq Pcs /\ EvalPcs \subseteq Pcs
  /\ \A t \in Threads : Calls[t] # {}
  /\ \A t \in Threads : \A c \in Calls[t] : c \in Launch /\ c.own # <<>>
  /\ \A t \in Threads : \A p \in Sampled[t] : p \in Seq(Pcs)
  /\ Confs \subseteq [checkRSP : BOOLEAN, fakeBT : BOOLEAN]
  /\ Calm \in BOOLEAN /\ MaxNodes \in Nat

VARIABLES
  conf,        \* the configuration
  nextId,      \* g_CPUCCTNodeId
  root,        \* the root of each thread's tree in g_CPUCCTMap, or Null
  nodeMap,     \* the nodes in each tree's nodeMap
  pc, kind,    \* of each node: pc and nodeType,
  parentID,    \*   parentID, 0 while it has none,
  childNodes,  \*   childNodes,
  pc2Child,    \*   pc2ChildNodes
  active,      \* g_activeCPUPCID
  esp2pcId,    \* g_esp2pcIdMap; Null: no entry
  walk,        \* where each actor is: place, frames left (the main thread's
               \* and its own), parent node, new node, node it has made active
  call,        \* the launch each thread is in or was last in
  sampled,     \* the thread whose stack the CPU sampler works on
  last         \* history: the node and path of each thread's last unwinding

treeVars == <<root, nodeMap, pc, kind, parentID, childNodes, pc2Child>>
idVars   == <<active, esp2pcId>>
vars == <<conf, nextId, treeVars, idVars, walk, call, sampled, last>>

Idle == [at |-> "out", main |-> <<>>, own |-> <<>>, node |-> Null,
         new |-> Null, leaf |-> Null]

Init ==
  /\ conf \in Confs
  /\ nextId = 1
  /\ root = [t \in Threads |-> Null]
  /\ nodeMap = [t \in Threads |-> {}]
  /\ pc = [n \in Nodes |-> NoPc]
  /\ kind = [n \in Nodes |-> "CXX"]
  /\ parentID = [n \in Nodes |-> Null]
  /\ childNodes = [n \in Nodes |-> {}]
  /\ pc2Child = [n \in Nodes |-> [p \in Pcs |-> Null]]
  /\ active = Null
  /\ esp2pcId = [r \in Rsps |-> Null]
  /\ walk = [a \in Actors |-> Idle]
  /\ call = [t \in Threads |-> CHOOSE c \in Calls[t] : TRUE]
  /\ sampled = CHOOSE t \in Threads : TRUE
  /\ last = [t \in Threads |-> [id |-> Null, path |-> <<>>]]

-----------------------------------------------------------------------------
At(a, place) == walk[a].at = place
GoTo(a, place) == walk' = [walk EXCEPT ![a].at = place]

TreeOf(a) == IF a = Sampler THEN sampled ELSE a

\* Fault: the thread's own frames come first.
FrameOwnFirst(a) == Head(walk[a].own)

\* TOP2: the main thread's frames come first; POP2 likewise.
Frame(a) == IF walk[a].main # <<>> THEN Head(walk[a].main)
                                   ELSE Head(walk[a].own)
Pop(w) == IF w.main # <<>> THEN [w EXCEPT !.main = Tail(@)]
                           ELSE [w EXCEPT !.own = Tail(@)]

Child(a) == pc2Child[walk[a].node][Frame(a)]

\* The type of the node a frame gets from each of the two.
KindOf(a, p) ==
  IF a = Sampler THEN IF p \in EvalPcs THEN "C2P" ELSE "CXX"
                 ELSE IF p \in PyPcs THEN "PY" ELSE "CXX"

\* ++g_CPUCCTNodeId under its mutex.
TakeId == /\ nextId \in Nodes
          /\ nextId' = nextId + 1

-----------------------------------------------------------------------------
(* Both: the tree is made if the thread has none.                          *)

\* Thread t launches a kernel while sampling or tracing is on.
Enter(t) ==
  /\ At(t, "out")
  /\ Calm => At(Sampler, "out") \/ sampled # t
  /\ \E c \in Calls[t] :
       call' = [call EXCEPT ![t] = c]
  /\ GoTo(t, "tree")
  /\ UNCHANGED <<conf, nextId, treeVars, idVars, sampled, last>>

\* The CPU sampler has a stack of thread t.
Sample(t) ==
  /\ At(Sampler, "out")
  /\ Calm => At(t, "out")
  /\ sampled' = t
  /\ \E p \in Sampled[t] :
       walk' = [walk EXCEPT ![Sampler] = [Idle EXCEPT !.at = "tree", !.own = p]]
  /\ UNCHANGED <<conf, nextId, treeVars, idVars, call, last>>

HasTree(a) ==
  /\ At(a, "tree")
  /\ root[TreeOf(a)] # Null
  /\ GoTo(a, "look")
  /\ UNCHANGED <<conf, nextId, treeVars, idVars, call, sampled, last>>

\* Fault: the id is read after the counter has moved on.
NewRootAhead(a) ==
  /\ At(a, "tree")
  /\ root[TreeOf(a)] = Null
  /\ TakeId
  /\ walk' = [walk EXCEPT ![a].at = "root", ![a].new = nextId + 1]
  /\ UNCHANGED <<conf, treeVars, idVars, call, sampled, last>>

\* A virtual root; the tree is not in g_CPUCCTMap yet.
NewRoot(a) ==
  /\ At(a, "tree")
  /\ root[TreeOf(a)] = Null
  /\ TakeId
  /\ walk' = [walk EXCEPT ![a].at = "root", ![a].new = nextId]
  /\ UNCHANGED <<conf, treeVars, idVars, call, sampled, last>>

\* g_CPUCCTMap.insert keeps a tree that is there.
SetRoot(a) ==
  /\ At(a, "root")
  /\ LET t == TreeOf(a) IN
       IF root[t] = Null
       THEN /\ root' = [root EXCEPT ![t] = walk[a].new]
            /\ nodeMap' = [nodeMap EXCEPT ![t] = {walk[a].new}]
       ELSE UNCHANGED <<root, nodeMap>>
  /\ GoTo(a, "look")
  /\ UNCHANGED <<conf, nextId, pc, kind, parentID, childNodes, pc2Child,
                 idVars, call, sampled, last>>

-----------------------------------------------------------------------------
(* DoBackTrace: does it unwind?                                            *)

\* fakeBT: every launch belongs to the root.
FakeBackTrace(t) ==
  /\ At(t, "look") /\ conf.fakeBT
  /\ active' = root[t]
  /\ GoTo(t, "out")
  /\ UNCHANGED <<conf, nextId, treeVars, esp2pcId, call, sampled, last>>

Cached(t) == conf.checkRSP /\ esp2pcId[call[t].rsp] # Null

\* The stack pointer has been seen before.
UseCached(t) ==
  /\ At(t, "look") /\ ~conf.fakeBT
  /\ Cached(t)
  /\ active' = esp2pcId[call[t].rsp]
  /\ GoTo(t, "out")
  /\ UNCHANGED <<conf, nextId, treeVars, esp2pcId, call, sampled, last>>

\* GenerateCallStacks, and the main thread's stack if it was asked for.
Unwind(t) ==
  /\ At(t, "look") /\ ~conf.fakeBT
  /\ ~Cached(t)
  /\ walk' = [walk EXCEPT ![t] = [Idle EXCEPT !.at = "search",
                !.main = call[t].main, !.own = call[t].own, !.node = root[t]]]
  /\ UNCHANGED <<conf, nextId, treeVars, idVars, call, sampled, last>>

\* UpdateCCT starts from the root.
StartUpdate ==
  /\ At(Sampler, "look")
  /\ walk' = [walk EXCEPT ![Sampler].at = "search",
                          ![Sampler].node = root[sampled]]
  /\ UNCHANGED <<conf, nextId, treeVars, idVars, call, sampled, last>>

-----------------------------------------------------------------------------
(* Both: the walk down, and the insertion of what is left.                 *)

\* Fault: the walk does not go down.
DescendInPlace(a) ==
  /\ At(a, "search") /\ walk[a].own # <<>>
  /\ Child(a) # Null
  /\ walk' = [walk EXCEPT ![a] = Pop(@)]
  /\ UNCHANGED <<conf, nextId, treeVars, idVars, call, sampled, last>>

\* The frame's node is there.  DoBackTrace turns what the CPU sampler took for
\* the interpreter into the Python frame that it is.
Descend(a) ==
  /\ At(a, "search") /\ walk[a].own # <<>>
  /\ Child(a) # Null
  /\ kind' = IF /\ a # Sampler
                /\ kind[Child(a)] = "C2P" /\ Frame(a) \in PyPcs
             THEN [kind EXCEPT ![Child(a)] = "PY"] ELSE kind
  /\ walk' = [walk EXCEPT ![a] = [Pop(@) EXCEPT !.node = Child(a)]]
  /\ UNCHANGED <<conf, nextId, root, nodeMap, pc, parentID, childNodes,
                 pc2Child, idVars, call, sampled, last>>

Miss(a) ==
  /\ At(a, "search") /\ walk[a].own # <<>>
  /\ Child(a) = Null
  /\ GoTo(a, "insert")
  /\ UNCHANGED <<conf, nextId, treeVars, idVars, call, sampled, last>>

\* The whole path was known.
OldPath(t) ==
  /\ At(t, "search") /\ walk[t].own = <<>>
  /\ active' = walk[t].node
  /\ walk' = [walk EXCEPT ![t].at = "end", ![t].leaf = walk[t].node]
  /\ UNCHANGED <<conf, nextId, treeVars, esp2pcId, call, sampled, last>>

\* Fault: the stack pointer stands for the parent of the last node.
NewNodeParent(a) ==
  /\ At(a, "insert") /\ walk[a].own # <<>>
  /\ TakeId
  /\ pc' = [pc EXCEPT ![nextId] = Frame(a)]
  /\ kind' = [kind EXCEPT ![nextId] = KindOf(a, Frame(a))]
  /\ IF a # Sampler /\ Len(walk[a].own) = 1
     THEN /\ active' = nextId
          /\ esp2pcId' = [esp2pcId EXCEPT ![call[a].rsp] = walk[a].node]
          /\ walk' = [walk EXCEPT ![a].at = "link", ![a].new = nextId,
                                  ![a].leaf = nextId]
     ELSE /\ walk' = [walk EXCEPT ![a].at = "link", ![a].new = nextId]
          /\ UNCHANGED idVars
  /\ UNCHANGED <<conf, root, nodeMap, parentID, childNodes, pc2Child, call,
                 sampled, last>>

\* A new node; that of the last frame becomes the active one, and the one the
\* stack pointer stands for.
NewNode(a) ==
  /\ At(a, "insert") /\ walk[a].own # <<>>
  /\ TakeId
  /\ pc' = [pc EXCEPT ![nextId] = Frame(a)]
  /\ kind' = [kind EXCEPT ![nextId] = KindOf(a, Frame(a))]
  /\ IF a # Sampler /\ Len(walk[a].own) = 1
     THEN /\ active' = nextId
          /\ esp2pcId' = [esp2pcId EXCEPT ![call[a].rsp] = nextId]
          /\ walk' = [walk EXCEPT ![a].at = "link", ![a].new = nextId,
                                  ![a].leaf = nextId]
     ELSE /\ walk' = [walk EXCEPT ![a].at = "link", ![a].new = nextId]
          /\ UNCHANGED idVars
  /\ UNCHANGED <<conf, root, nodeMap, parentID, childNodes, pc2Child, call,
                 sampled, last>>

\* Fault: the child does not learn of its parent.
InsertNodeFatherless(a) ==
  /\ At(a, "link")
  /\ LET n == walk[a].new  parent == walk[a].node IN
       /\ childNodes' = [childNodes EXCEPT ![parent] = @ \cup {n}]
       /\ IF pc2Child[parent][pc[n]] # Null
          THEN UNCHANGED <<nodeMap, pc2Child>>
          ELSE /\ pc2Child' = [pc2Child EXCEPT ![parent][pc[n]] = n]
               /\ nodeMap' = [nodeMap EXCEPT ![TreeOf(a)] = @ \cup {n}]
       /\ walk' = [walk EXCEPT ![a] = [Pop(@) EXCEPT !.at = "insert", !.node = n]]
  /\ UNCHANGED <<conf, nextId, root, pc, kind, parentID, idVars, call, sampled,
                 last>>

\* Fault: the node is not entered in nodeMap.
InsertNodeUnlisted(a) ==
  /\ At(a, "link")
  /\ LET n == walk[a].new  parent == walk[a].node IN
       /\ childNodes' = [childNodes EXCEPT ![parent] = @ \cup {n}]
       /\ IF pc2Child[parent][pc[n]] # Null
          THEN UNCHANGED <<parentID, pc2Child>>
          ELSE /\ pc2Child' = [pc2Child EXCEPT ![parent][pc[n]] = n]
               /\ parentID' = [parentID EXCEPT ![n] = parent]
       /\ walk' = [walk EXCEPT ![a] = [Pop(@) EXCEPT !.at = "insert", !.node = n]]
  /\ UNCHANGED <<conf, nextId, root, nodeMap, pc, kind, idVars, call, sampled,
                 last>>

\* insertNode: addChild and nodeMap, under cctMutex.  Ids are never used twice;
\* a pc may be, and then only childNodes gets the node.  The caller looks at
\* neither and goes on below it.
InsertNode(a) ==
  /\ At(a, "link")
  /\ LET n == walk[a].new  parent == walk[a].node IN
       /\ childNodes' = [childNodes EXCEPT ![parent] = @ \cup {n}]
       /\ IF pc2Child[parent][pc[n]] # Null
          THEN UNCHANGED <<nodeMap, parentID, pc2Child>>
          ELSE /\ pc2Child' = [pc2Child EXCEPT ![parent][pc[n]] = n]
               /\ parentID' = [parentID EXCEPT ![n] = parent]
               /\ nodeMap' = [nodeMap EXCEPT ![TreeOf(a)] = @ \cup {n}]
       /\ walk' = [walk EXCEPT ![a] = [Pop(@) EXCEPT !.at = "insert", !.node = n]]
  /\ UNCHANGED <<conf, nextId, root, pc, kind, idVars, call, sampled, last>>

\* Nothing is left to insert, or (for the CPU sampler) to look for.
End(a) ==
  /\ \/ At(a, "insert") /\ walk[a].own = <<>>
     \/ At(a, "end")
     \/ At(a, "search") /\ a = Sampler /\ walk[a].own = <<>>
  /\ walk' = [walk EXCEPT ![a] = Idle]
  /\ last' = IF a = Sampler THEN last
             ELSE [last EXCEPT ![a] = [id |-> walk[a].leaf,
                                       path |-> call[a].main \o call[a].own]]
  /\ UNCHANGED <<conf, nextId, treeVars, idVars, call, sampled>>

-----------------------------------------------------------------------------
BackTrace(t) == \/ Enter(t) \/ FakeBackTrace(t) \/ UseCached(t) \/ Unwind(t)
                \/ OldPath(t)

Update == \/ StartUpdate
          \/ \E t \in Threads : Sample(t)

Walk(a) == \/ HasTree(a) \/ NewRoot(a) \/ SetRoot(a) \/ Descend(a) \/ Miss(a)
           \/ NewNode(a) \/ InsertNode(a) \/ End(a)

Next == \/ \E t \in Threads : BackTrace(t)
        \/ Update
        \/ \E a \in Actors : Walk(a)

Spec == Init /\ [][Next]_vars

-----------------------------------------------------------------------------
(* Properties.                                                             *)

Ids == Nodes \cup {Null}

Walker == [at : {"out", "tree", "root", "look", "search", "insert", "link",
                 "end"},
           main : Seq(Pcs), own : Seq(Pcs), node : Ids, new : Ids, leaf : Ids]

TypeOK ==
  /\ conf \in Confs
  /\ nextId \in 1 .. MaxNodes + 1
  /\ root \in [Threads -> Ids]
  /\ nodeMap \in [Threads -> SUBSET Nodes]
  /\ pc \in [Nodes -> Pcs \cup {NoPc}]
  /\ kind \in [Nodes -> {"CXX", "PY", "C2P"}]
  /\ parentID \in [Nodes -> Ids]
  /\ childNodes \in [Nodes -> SUBSET Nodes]
  /\ pc2Child \in [Nodes -> [Pcs -> Ids]]
  /\ active \in Ids
  /\ esp2pcId \in [Rsps -> Ids]
  /\ walk \in [Actors -> Walker]
  /\ \A a \in Actors : walk[a].new < nextId
  /\ call \in [Threads -> Launch]
  /\ \A t \in Threads : call[t] \in Calls[t]
  /\ sampled \in Threads
  /\ last \in [Threads -> [id : Ids, path : Seq(Pcs)]]

\* Every node of a tree but its root is the child of a node of that tree, which
\* finds it under its pc; every child found that way, or met in childNodes as
\* the pruning does, is in the tree, and in childNodes of its parent only.
TreeConsistent ==
  \A t \in Threads :
    /\ root[t] # Null => root[t] \in nodeMap[t] /\ parentID[root[t]] = Null
    /\ \A n \in nodeMap[t] \ {root[t]} :
         /\ parentID[n] \in nodeMap[t]
         /\ pc2Child[parentID[n]][pc[n]] = n
    /\ \A n \in nodeMap[t], p \in Pcs :
         pc2Child[n][p] # Null => pc2Child[n][p] \in nodeMap[t]
    /\ \A n \in nodeMap[t] :
         \A m \in childNodes[n] : m \in nodeMap[t] /\ parentID[m] = n

\* What a reader of the reply finds who goes up from a node by its parentID.
\* Parents have smaller ids.
PathTo[n \in Ids] ==
  IF n = Null THEN <<>> ELSE Append(PathTo[parentID[n]], pc[n])

\* "the CPU CCT is guaranteed to be accurate": the node an unwinding has left
\* the launch with stands in its thread's tree, and going up from it gives the
\* stack that was unwound, for good.
PathIsWhole ==
  \A t \in Threads :
    last[t].id # Null => /\ last[t].id \in nodeMap[t]
                         /\ PathTo[last[t].id] = <<NoPc>> \o last[t].path

\* The node samples are attributed to, and those that stack pointers stand for,
\* are in a tree or will be before the thread that made them goes on.
ActiveIsKnown ==
  \A n \in {active} \cup {esp2pcId[r] : r \in Rsps} :
    \/ n = Null
    \/ \E t \in Threads : n \in nodeMap[t]
    \/ \E t \in Threads : At(t, "link") /\ walk[t].new = n

\* A stack pointer stands for a path that some launch with it has had, once the
\* unwinding that made its node has come to an end.
CacheIsFounded ==
  \A r \in Rsps : LET n == esp2pcId[r] IN
    \/ n = Null
    \/ \E t \in Threads : walk[t].leaf = n
    \/ \E t \in Threads : \E c \in Calls[t] :
         c.rsp = r /\ PathTo[n] = <<NoPc>> \o c.main \o c.own

PathsOf(t) == {Tail(PathTo[n]) : n \in nodeMap[t]}

Contexts == INSTANCE ContextSet
  WITH Frames <- Pcs,
       Stacks <- [t \in Threads |-> {c.main \o c.own : c \in Calls[t]}],
       contexts <- [t \in Threads |-> PathsOf(t)],
       named <- [t \in Threads |-> last[t].path]

\* The trees are prefix-closed sets of call paths that only grow, and every
\* unwinding ends with its path in its thread's set.
ImplementsContexts == Contexts!Spec
=============================================================================
