------------------------- MODULE CctPruning_proofs --------------------------
(***************************************************************************)
(* Proof that a pruned tree keeps the contexts, that the links of every    *)
(* reply agree and that the client prints each of its nodes once: for any  *)
(* trees, of any size and shape.                                           *)
(***************************************************************************)
EXTENDS CctPruning, Integers, FiniteSetTheorems, SequenceTheorems, TLAPS

CctSpec == CctInit /\ [][CctNext]_cctVars

-----------------------------------------------------------------------------
(* The inductive invariant.                                                *)

\* The nearest ancestor of a node that pruning keeps.
Near(T) == NearestAbove(T, Kept(T))

\* Nodes that were not looked at, but their parents were.
Frontier(T, seen) == {i \in T.ids \ seen : T.parent[i] \in seen}

Call(p, i) == [below |-> p, node |-> i]

CctTyped ==
  /\ stage \in {"idle", "build", "reply", "print"}
  /\ pruneCCT \in BOOLEAN
  /\ stage # "idle" => oldCCT \in Trees

\* What is yet to be looked at are the children of what was, each once, and each
\* below its nearest ancestor that is kept.
Visits(T, seen, todo) ==
  /\ seen \subseteq T.ids /\ T.root \in seen
  /\ \A i \in seen \ {T.root} : T.parent[i] \in seen
  /\ todo \in Seq([below : T.ids, node : T.ids])
  /\ IsInjective(todo)
  /\ Range(todo) = {Call(Near(T)[i], i) : i \in Frontier(T, seen)}

\* A node of the new tree when the nodes seen were looked at: it has the kept
\* ones it is nearest to as its children, and the names of the merged ones.
Up(T, i) == IF i = T.root THEN NoNode ELSE Near(T)[i]
Below(T, seen, i) == {j \in (Kept(T) \cap seen) \ {T.root} : Near(T)[j] = i}
Names(T, seen, i) == {i} \cup {m \in Merged(T) \cap seen : Near(T)[m] = i}

BuiltNode(T, seen, i) ==
  [parentID |-> Up(T, i),
   childIDs |-> Below(T, seen, i), childPCs |-> {T.pc[j] : j \in Below(T, seen, i)},
   name |-> Names(T, seen, i), samples |-> 1]

\* What was looked at and is kept is in the new tree.
Builds(T, seen, tree) == tree = [i \in Kept(T) \cap seen |-> BuiltNode(T, seen, i)]

\* Of what was printed or is in the queue each is there once, and the children
\* of what was printed, and no others, are there.
Prints(M, out, queue) ==
  LET nodes == DOMAIN M.nodemap
  IN  /\ out \in Seq(nodes) /\ queue \in Seq(nodes)
      /\ IsInjective(out \o queue) /\ M.rootid \in Range(out \o queue)
      /\ \A i \in nodes \ {M.rootid} :
           i \in Range(out \o queue) <=> M.nodemap[i].parentid \in Range(out)

CctInv ==
  /\ CctTyped
  /\ stage # "idle" =>
       /\ Visits(oldCCT, visited, toVisit)
       /\ ~pruneCCT \/ stage # "build" => toVisit = <<>>
       /\ IF pruneCCT THEN Builds(oldCCT, visited, newCCT) ELSE newCCT = Collected(oldCCT)
  /\ stage = "idle" => toVisit = <<>>
  /\ stage # "print" => printed = <<>>
  /\ stage \in {"reply", "print"} => CCT = Message(oldCCT, newCCT)
  /\ stage = "print" => Prints(CCT, printed, nodeQueue)

-----------------------------------------------------------------------------
(* Trees.                                                                  *)

\* Every set of numbers has a least one: the induction that the proofs use.
LEMMA LeastNat ==
  ASSUME NEW P, P \subseteq Nat, P # {}
  PROVE  \E n \in P : \A m \in P : n <= m
PROOF
<1>. DEFINE R == {ss \in Nat \X Nat : ss[1] < ss[2]}
<1>1. IsWellFoundedOn(R, Nat)
  BY NatLessThanWellFounded, Zenon DEF OpToRel
<1>. HIDE DEF R
<1>2. PICK n \in P : \A m \in P : ~ (<<m, n>> \in R)
  BY <1>1, WFMin, Zenon
<1>3. \A m \in P : ~(m < n)
  BY <1>2 DEF R
<1>. QED  BY <1>3

\* A tree has a largest id, or any number above it.
LEMMA IdsBounded ==
  ASSUME NEW T, IsTree(T)
  PROVE  \E m \in Nat : \A i \in T.ids : i <= m
PROOF
<1>1. IsFiniteSet(T.ids) /\ T.ids \subseteq Nat
  BY DEF IsTree
<1>2. PICK n \in Nat : n = Cardinality(T.ids) /\ ExistsBijection(1 .. n, T.ids)
  BY <1>1, FS_CardinalityType
<1>3. PICK f : f \in Bijection(1 .. n, T.ids)
  BY <1>2 DEF ExistsBijection
<1>4. f \in [1 .. n -> T.ids] /\ \A i \in T.ids : \E k \in 1 .. n : f[k] = i
  BY <1>3 DEF Bijection, Injection, Surjection
<1>. DEFINE Bounded(k) == \E m \in Nat : \A j \in 1 .. k : f[j] <= m
            P == {k \in 0 .. n : ~Bounded(k)}
<1>5. SUFFICES ASSUME P # {} PROVE FALSE
  <2>1. n \in 0 .. n
    OBVIOUS
  <2>2. CASE P = {}
    <3>1. Bounded(n)
      BY <2>1, <2>2
    <3>. QED  BY <1>4, <3>1
  <2>. QED  BY <2>2
<1>6. PICK k \in P : \A j \in P : k <= j
  <2>1. P \subseteq Nat
    OBVIOUS
  <2>. HIDE DEF P
  <2>. QED  BY <1>5, <2>1, LeastNat, Zenon
<1>7. k \in 0 .. n /\ ~Bounded(k)
  BY <1>6
<1>8. k # 0
  <2>1. Bounded(0)
    OBVIOUS
  <2>. QED  BY <1>7, <2>1
<1>9. Bounded(k - 1)
  <2>1. k - 1 \in 0 .. n /\ ~(k <= k - 1)
    BY <1>7, <1>8
  <2>2. k - 1 \notin P
    <3>. HIDE DEF P
    <3>. QED  BY <1>6, <2>1
  <2>. QED  BY <2>1, <2>2
<1>10. PICK m \in Nat : \A j \in 1 .. k - 1 : f[j] <= m
  BY <1>9
<1>11. f[k] \in Nat
  BY <1>1, <1>4, <1>7, <1>8
<1>12. \A j \in 1 .. k : f[j] \in Nat /\ f[j] <= m + f[k]
  <2>1. ASSUME NEW j \in 1 .. k PROVE f[j] \in Nat /\ f[j] <= m + f[k]
    <3>1. f[j] \in Nat
      BY <1>1, <1>4, <1>7
    <3>2. j = k \/ f[j] <= m
      BY <1>7, <1>10
    <3>. QED  BY <1>11, <3>1, <3>2
  <2>. QED  BY <2>1
<1>13. Bounded(k)
  BY <1>10, <1>11, <1>12
<1>. QED  BY <1>7, <1>13

\* The recursion of NearestAbove comes to an end.
LEMMA NearUnfolds ==
  ASSUME NEW T, IsTree(T), NEW S
  PROVE  \A i \in T.ids : NearestAbove(T, S)[i] =
           IF i = T.root THEN NoNode
           ELSE IF T.parent[i] \in S THEN T.parent[i]
           ELSE NearestAbove(T, S)[T.parent[i]]
PROOF
<1>. DEFINE Step(g, i) == IF i = T.root THEN NoNode
                          ELSE IF T.parent[i] \in S THEN T.parent[i]
                          ELSE g[T.parent[i]]
            Ids(k) == {i \in T.ids : i <= k}
            Good(k, g) == g = [i \in Ids(k) |-> Step(g, i)]
            P == {k \in Nat : \A g : ~Good(k, g)}
<1>1. T.ids \subseteq Nat \ {0} /\ T.root \in T.ids
  BY DEF IsTree, NoNode
<1>2. \A i \in T.ids : i # T.root => T.parent[i] \in T.ids /\ T.parent[i] < i
  BY DEF IsTree
<1>3. P = {}
  <2>1. SUFFICES ASSUME P # {} PROVE FALSE
    OBVIOUS
  <2>2. PICK k \in P : \A m \in P : k <= m
    <3>1. P \subseteq Nat
      OBVIOUS
    <3>. HIDE DEF P
    <3>. QED  BY <2>1, <3>1, LeastNat, Zenon
  <2>3. k \in Nat /\ \A g : ~Good(k, g)
    BY <2>2
  <2>4. CASE k = 0
    <3>. DEFINE g == [i \in {} |-> 0]
    <3>1. Ids(0) = {}
      BY <1>1
    <3>2. Good(0, g)
      BY <3>1
    <3>. QED  BY <2>3, <2>4, <3>2
  <2>5. CASE k # 0
    <3>1. k - 1 \in Nat /\ ~(k <= k - 1)
      BY <2>3, <2>5
    <3>2. k - 1 \notin P
      <4>. HIDE DEF P
      <4>. QED  BY <2>2, <3>1
    <3>3. PICK g : Good(k - 1, g)
      BY <3>1, <3>2
    <3>. DEFINE h == [i \in Ids(k) |-> IF i = k THEN Step(g, i) ELSE g[i]]
    <3>4. \A i \in Ids(k - 1) : i \in Ids(k) /\ i # k /\ h[i] = g[i] /\ g[i] = Step(g, i)
      <4>1. ASSUME NEW i \in Ids(k - 1) PROVE i \in Ids(k) /\ i # k
        BY <1>1, <2>3
      <4>2. \A i \in Ids(k - 1) : g[i] = Step(g, i)
        <5>. HIDE DEF Step, Ids
        <5>. QED  BY <3>3
      <4>. QED  BY <4>1, <4>2
    <3>5. \A i \in Ids(k) : i # T.root => T.parent[i] \in Ids(k - 1)
      <4>1. ASSUME NEW i \in Ids(k), i # T.root PROVE T.parent[i] \in Ids(k - 1)
        <5>1. i \in Nat /\ T.parent[i] \in Nat /\ i <= k /\ T.parent[i] < i
          BY <1>1, <1>2, <4>1
        <5>2. T.parent[i] <= k - 1
          BY <2>3, <5>1
        <5>. QED  BY <1>2, <4>1, <5>2
      <4>. QED  BY <4>1
    <3>6. \A i \in Ids(k) : Step(h, i) = Step(g, i)
      <4>. HIDE DEF h, Ids
      <4>. QED  BY <3>4, <3>5
    <3>7. \A i \in Ids(k) : h[i] = Step(g, i)
      <4>1. ASSUME NEW i \in Ids(k) PROVE i = k \/ i \in Ids(k - 1)
        BY <1>1, <2>3
      <4>. HIDE DEF Step
      <4>. QED  BY <3>4, <4>1
    <3>8. h = [i \in Ids(k) |-> h[i]]
      OBVIOUS
    <3>9. Good(k, h)
      <4>. HIDE DEF h, Step, Ids
      <4>. QED  BY <3>6, <3>7, <3>8
    <3>. QED  BY <2>3, <3>9
  <2>. QED  BY <2>4, <2>5
<1>4. PICK m \in Nat : \A i \in T.ids : i <= m
  BY IdsBounded
<1>5. Ids(m) = T.ids
  BY <1>4
<1>6. \E g : Good(m, g)
  <2>1. m \notin P
    <3>. HIDE DEF P
    <3>. QED  BY <1>3
  <2>. QED  BY <1>4, <2>1
<1>7. NearestAbove(T, S) = CHOOSE g : g = [i \in T.ids |-> Step(g, i)]
  BY DEF NearestAbove
<1>8. NearestAbove(T, S) = [i \in T.ids |-> Step(NearestAbove(T, S), i)]
  <2>. HIDE DEF Step, Ids
  <2>. QED  BY <1>5, <1>6, <1>7, Zenon
<1>9. \A i \in T.ids : NearestAbove(T, S)[i] = Step(NearestAbove(T, S), i)
  <2>. HIDE DEF Step
  <2>. QED  BY <1>8
<1>. QED  BY <1>9

\* What a tree is.
LEMMA TreeLemma ==
  ASSUME NEW T, IsTree(T)
  PROVE  /\ T.ids \subseteq Nat \ {NoNode} /\ T.root \in T.ids
         /\ \A i \in T.ids : i # T.root => T.parent[i] \in T.ids /\ T.parent[i] < i
BY DEF IsTree

\* The nearest ancestor in a set of nodes with the root is one of them, and has
\* a smaller id.
LEMMA NearIn ==
  ASSUME NEW T, IsTree(T), NEW S, T.root \in S
  PROVE  \A i \in T.ids \ {T.root} :
           /\ NearestAbove(T, S)[i] \in S \cap T.ids
           /\ NearestAbove(T, S)[i] < i
PROOF
<1>. DEFINE N == NearestAbove(T, S)
            P == {i \in T.ids \ {T.root} : ~(N[i] \in S \cap T.ids /\ N[i] < i)}
<1>1. \A i \in T.ids \ {T.root} :
        N[i] = IF T.parent[i] \in S THEN T.parent[i] ELSE N[T.parent[i]]
  BY NearUnfolds
<1>. HIDE DEF N
<1>2. SUFFICES ASSUME P # {} PROVE FALSE
  BY DEF N
<1>3. PICK i \in P : \A j \in P : i <= j
  <2>1. P \subseteq Nat
    BY TreeLemma
  <2>. HIDE DEF P
  <2>. QED  BY <1>2, <2>1, LeastNat, Zenon
<1>4. /\ i \in T.ids \ {T.root} /\ i \in Nat
      /\ T.parent[i] \in T.ids /\ T.parent[i] \in Nat /\ T.parent[i] < i
  BY <1>3, TreeLemma
<1>5. CASE T.parent[i] \in S
  BY <1>1, <1>3, <1>4, <1>5
<1>6. CASE T.parent[i] \notin S
  <2>1. T.parent[i] # T.root /\ ~(i <= T.parent[i])
    BY <1>4, <1>6
  <2>2. T.parent[i] \notin P
    <3>. HIDE DEF P
    <3>. QED  BY <1>3, <2>1
  <2>3. N[T.parent[i]] \in S \cap T.ids /\ N[T.parent[i]] < T.parent[i]
    BY <1>4, <2>1, <2>2
  <2>4. N[T.parent[i]] \in Nat
    BY <2>3, TreeLemma
  <2>. QED  BY <1>1, <1>3, <1>4, <1>6, <2>3, <2>4
<1>. QED  BY <1>5, <1>6

\* It is in every set of nodes with the parent that goes up to the root.
LEMMA NearUp ==
  ASSUME NEW T, IsTree(T), NEW S, T.root \in S,
         NEW U, U \subseteq T.ids, \A i \in U \ {T.root} : T.parent[i] \in U
  PROVE  \A i \in T.ids \ {T.root} : T.parent[i] \in U => NearestAbove(T, S)[i] \in U
PROOF
<1>. DEFINE N == NearestAbove(T, S)
            P == {i \in T.ids \ {T.root} : T.parent[i] \in U /\ N[i] \notin U}
<1>1. \A i \in T.ids \ {T.root} :
        N[i] = IF T.parent[i] \in S THEN T.parent[i] ELSE N[T.parent[i]]
  BY NearUnfolds
<1>. HIDE DEF N
<1>2. SUFFICES ASSUME P # {} PROVE FALSE
  BY DEF N
<1>3. PICK i \in P : \A j \in P : i <= j
  <2>1. P \subseteq Nat
    BY TreeLemma
  <2>. HIDE DEF P
  <2>. QED  BY <1>2, <2>1, LeastNat, Zenon
<1>4. /\ i \in T.ids \ {T.root} /\ i \in Nat /\ T.parent[i] \in U
      /\ T.parent[i] \in T.ids /\ T.parent[i] \in Nat /\ T.parent[i] < i
  BY <1>3, TreeLemma
<1>5. T.parent[i] \notin S /\ N[T.parent[i]] \notin U
  BY <1>1, <1>3, <1>4
<1>6. T.parent[i] # T.root /\ ~(i <= T.parent[i]) /\ T.parent[T.parent[i]] \in U
  BY <1>4, <1>5
<1>7. T.parent[i] \in P
  BY <1>4, <1>5, <1>6
<1>. QED
  <2>. HIDE DEF P
  <2>. QED  BY <1>3, <1>6, <1>7

\* The root is critical and is not merged.
LEMMA RootKept ==
  ASSUME NEW T, IsTree(T)
  PROVE  /\ T.root \in Critical(T) /\ T.root \in Kept(T)
         /\ Critical(T) \subseteq T.ids /\ Kept(T) \subseteq T.ids
         /\ Merged(T) \subseteq T.ids \ {T.root}
         /\ Critical(T) = Kept(T) \cup Merged(T) /\ Kept(T) \cap Merged(T) = {}
BY TreeLemma DEF Critical, Kept, Merged

Operators(T) == {i \in T.ids : IsTorchOP(T.frame[i])}

\* What a node's nearest critical ancestor is, an operator or not, its nearest
\* kept one is: an operator that was merged is below another one.
LEMMA SameKind ==
  ASSUME NEW T, IsTree(T)
  PROVE  \A i \in T.ids \ {T.root} :
           NearestAbove(T, Critical(T))[i] \in Operators(T)
             <=> Near(T)[i] \in Operators(T)
PROOF
<1>. DEFINE N == NearestAbove(T, Critical(T))
            K == NearestAbove(T, Kept(T))
            P == {i \in T.ids \ {T.root} : ~(N[i] \in Operators(T) <=> K[i] \in Operators(T))}
<1>1. \A i \in T.ids \ {T.root} :
        /\ N[i] = IF T.parent[i] \in Critical(T) THEN T.parent[i] ELSE N[T.parent[i]]
        /\ K[i] = IF T.parent[i] \in Kept(T) THEN T.parent[i] ELSE K[T.parent[i]]
  BY NearUnfolds
<1>2. \A i \in Merged(T) : i \in Operators(T) /\ N[i] \in Operators(T)
  <2>1. \A i \in Merged(T) : N[i] \in T.ids
    BY RootKept, NearIn
  <2>. QED  BY <2>1, RootKept DEF Merged, Operators
<1>. HIDE DEF N, K
<1>3. SUFFICES ASSUME P # {} PROVE FALSE
  BY DEF N, K, Near
<1>4. PICK i \in P : \A j \in P : i <= j
  <2>1. P \subseteq Nat
    BY TreeLemma
  <2>. HIDE DEF P
  <2>. QED  BY <1>3, <2>1, LeastNat, Zenon
<1>5. /\ i \in T.ids \ {T.root} /\ i \in Nat
      /\ T.parent[i] \in T.ids /\ T.parent[i] \in Nat /\ T.parent[i] < i
  BY <1>4, TreeLemma
<1>6. ~(N[i] \in Operators(T) <=> K[i] \in Operators(T))
  BY <1>4
<1>7. T.parent[i] # T.root =>
        (N[T.parent[i]] \in Operators(T) <=> K[T.parent[i]] \in Operators(T))
  <2>1. ~(i <= T.parent[i])
    BY <1>5
  <2>2. T.parent[i] \notin P
    <3>. HIDE DEF P
    <3>. QED  BY <1>4, <2>1
  <2>. QED  BY <1>5, <2>2
<1>8. CASE T.parent[i] \in Kept(T)
  BY <1>1, <1>5, <1>6, <1>8, RootKept
<1>9. CASE T.parent[i] \in Merged(T)
  BY <1>1, <1>2, <1>5, <1>6, <1>7, <1>9, RootKept
<1>10. CASE T.parent[i] \notin Critical(T)
  BY <1>1, <1>5, <1>6, <1>7, <1>10, RootKept
<1>. QED  BY <1>8, <1>9, <1>10, RootKept

\* A node is an only child, by the length of childNodes or by the parents.
LEMMA OnlyChild ==
  ASSUME NEW T, IsTree(T), NEW i \in T.ids \ {T.root}
  PROVE  Len(T.childNodes[T.parent[i]]) = 1
           <=> Cardinality({j \in T.ids \ {T.root} : T.parent[j] = T.parent[i]}) = 1
PROOF
<1>. DEFINE R == {j \in T.ids \ {T.root} : T.parent[j] = T.parent[i]}
<1>1. PICK s : s = T.childNodes[T.parent[i]]
  OBVIOUS
<1>2. T.parent[i] \in T.ids /\ IsFiniteSet(T.ids)
  BY TreeLemma DEF IsTree
<1>3. s \in Seq(T.ids) /\ IsInjective(s) /\ Range(s) = R
  BY <1>1, <1>2 DEF IsTree
<1>4. PICK n \in Nat : n = Len(s) /\ DOMAIN s = 1 .. n
  BY <1>3
<1>5. IsFiniteSet(R) /\ i \in R
  <2>1. R \in SUBSET T.ids
    OBVIOUS
  <2>. HIDE DEF R
  <2>2. IsFiniteSet(R)
    BY <1>2, <2>1, FS_Subset
  <2>. QED  BY <2>2 DEF R
<1>. HIDE DEF R
<1>6. Cardinality(R) = 1 <=> \E x : R = {x}
  BY <1>5, FS_Singleton
<1>7. \A x : x \in R <=> \E k \in 1 .. n : x = s[k]
  BY <1>3, <1>4 DEF Range
<1>8. \A k, l \in 1 .. n : s[k] = s[l] => k = l
  BY <1>3, <1>4 DEF IsInjective
<1>9. ASSUME n = 1 PROVE R = {s[1]}
  BY <1>7, <1>9
<1>10. ASSUME NEW x, R = {x} PROVE n = 1
  <2>1. PICK k \in 1 .. n : x = s[k]
    BY <1>7, <1>10
  <2>2. \A l \in 1 .. n : l = k
    BY <1>7, <1>8, <1>10, <2>1
  <2>. QED  BY <2>1, <2>2
<1>11. Len(s) = 1 <=> n = 1
  BY <1>4
<1>. QED  BY <1>1, <1>6, <1>9, <1>10, <1>11 DEF R

-----------------------------------------------------------------------------
(* Sequences without repetition.                                           *)

\* Elements of one sequence or the other are those of the two put together.
LEMMA JoinLemma ==
  ASSUME NEW S, NEW s \in Seq(S), NEW t \in Seq(S)
  PROVE  /\ s \o t \in Seq(S)
         /\ Range(s \o t) = Range(s) \cup Range(t)
         /\ IsInjective(s) /\ IsInjective(t) /\ Range(s) \cap Range(t) = {}
              => IsInjective(s \o t)
         /\ IsInjective(s \o t) => IsInjective(s) /\ Range(s) \cap Range(t) = {}
PROOF
<1>1. PICK m \in Nat : m = Len(s) /\ DOMAIN s = 1 .. m
  BY LenProperties
<1>2. PICK n \in Nat : n = Len(t) /\ DOMAIN t = 1 .. n
  BY LenProperties
<1>3. PICK u : u = s \o t
  OBVIOUS
<1>4. u \in Seq(S) /\ Len(u) = m + n
  BY <1>1, <1>2, <1>3, ConcatProperties
<1>5. DOMAIN u = 1 .. (m + n)
  BY <1>4, LenProperties
<1>6. \A i \in 1 .. (m + n) : u[i] = IF i <= m THEN s[i] ELSE t[i - m]
  BY <1>1, <1>2, <1>3, ConcatProperties
<1>7. \A i \in 1 .. m : i \in 1 .. (m + n) /\ u[i] = s[i]
  BY <1>6
<1>8. \A i \in 1 .. n : m + i \in 1 .. (m + n) /\ u[m + i] = t[i]
  BY <1>6
<1>9. \A i \in 1 .. (m + n) : i \in 1 .. m \/ \E j \in 1 .. n : i = m + j
  <2>1. ASSUME NEW i \in 1 .. (m + n), i \notin 1 .. m PROVE i - m \in 1 .. n /\ i = m + (i - m)
    BY <2>1
  <2>. QED  BY <2>1
<1>10. Range(u) = Range(s) \cup Range(t)
  <2>1. \A i \in 1 .. (m + n) : u[i] \in Range(s) \cup Range(t)
    <3>1. \A i \in 1 .. m : s[i] \in Range(s)
      BY <1>1 DEF Range
    <3>2. \A i \in 1 .. n : t[i] \in Range(t)
      BY <1>2 DEF Range
    <3>. QED  BY <1>7, <1>8, <1>9, <3>1, <3>2
  <2>2. \A i \in 1 .. (m + n) : u[i] \in Range(u)
    BY <1>5 DEF Range
  <2>3. Range(s) \subseteq Range(u)
    <3>1. \A x \in Range(s) : \E i \in 1 .. m : x = s[i]
      BY <1>1 DEF Range
    <3>. QED  BY <1>7, <2>2, <3>1
  <2>4. Range(t) \subseteq Range(u)
    <3>1. \A x \in Range(t) : \E i \in 1 .. n : x = t[i]
      BY <1>2 DEF Range
    <3>. QED  BY <1>8, <2>2, <3>1
  <2>5. \A x \in Range(u) : \E i \in 1 .. (m + n) : x = u[i]
    BY <1>5 DEF Range
  <2>. QED  BY <2>1, <2>3, <2>4, <2>5
<1>11. ASSUME IsInjective(s), IsInjective(t), Range(s) \cap Range(t) = {}
       PROVE  IsInjective(u)
  <2>1. \A i \in 1 .. m, j \in 1 .. n : s[i] # t[j]
    BY <1>1, <1>2, <1>11 DEF Range
  <2>2. \A i, j \in 1 .. m : s[i] = s[j] => i = j
    BY <1>1, <1>11 DEF IsInjective
  <2>3. \A i, j \in 1 .. n : t[i] = t[j] => i = j
    BY <1>2, <1>11 DEF IsInjective
  <2>4. ASSUME NEW i \in 1 .. (m + n), NEW j \in 1 .. (m + n), u[i] = u[j] PROVE i = j
    <3>1. CASE i \in 1 .. m /\ j \in 1 .. m
      BY <1>7, <2>2, <2>4, <3>1
    <3>2. CASE i \in 1 .. m /\ j \notin 1 .. m
      <4>1. PICK k \in 1 .. n : j = m + k
        BY <1>9, <3>2
      <4>2. u[i] = s[i] /\ u[j] = t[k]
        BY <1>7, <1>8, <3>2, <4>1
      <4>. QED  BY <2>1, <2>4, <3>2, <4>2
    <3>3. CASE i \notin 1 .. m /\ j \in 1 .. m
      <4>1. PICK k \in 1 .. n : i = m + k
        BY <1>9, <3>3
      <4>2. u[i] = t[k] /\ u[j] = s[j]
        BY <1>7, <1>8, <3>3, <4>1
      <4>. QED  BY <2>1, <2>4, <3>3, <4>2
    <3>4. CASE i \notin 1 .. m /\ j \notin 1 .. m
      <4>1. PICK k \in 1 .. n, l \in 1 .. n : i = m + k /\ j = m + l
        BY <1>9, <3>4
      <4>. QED  BY <1>8, <2>3, <2>4, <4>1
    <3>. QED  BY <3>1, <3>2, <3>3, <3>4
  <2>. QED  BY <1>5, <2>4 DEF IsInjective
<1>12. ASSUME IsInjective(u) PROVE IsInjective(s) /\ Range(s) \cap Range(t) = {}
  <2>1. \A i, j \in 1 .. (m + n) : u[i] = u[j] => i = j
    BY <1>5, <1>12 DEF IsInjective
  <2>2. \A i, j \in 1 .. m : s[i] = s[j] => i = j
    BY <1>7, <2>1
  <2>3. ASSUME NEW i \in 1 .. m, NEW j \in 1 .. n, s[i] = t[j] PROVE FALSE
    <3>1. i = m + j
      BY <1>7, <1>8, <2>1, <2>3
    <3>. QED  BY <3>1
  <2>4. \A x \in Range(s) : \E i \in 1 .. m : x = s[i]
    BY <1>1 DEF Range
  <2>5. \A x \in Range(t) : \E j \in 1 .. n : x = t[j]
    BY <1>2 DEF Range
  <2>6. Range(s) \cap Range(t) = {}
    BY <2>3, <2>4, <2>5
  <2>. QED  BY <1>1, <2>2, <2>6 DEF IsInjective
<1>. QED  BY <1>3, <1>4, <1>10, <1>11, <1>12

\* Taking the first element.
LEMMA TakeLemma ==
  ASSUME NEW S, NEW s \in Seq(S), s # <<>>
  PROVE  /\ Head(s) \in S /\ Tail(s) \in Seq(S)
         /\ Range(s) = {Head(s)} \cup Range(Tail(s))
         /\ IsInjective(s) => IsInjective(Tail(s)) /\ Head(s) \notin Range(Tail(s))
PROOF
<1>1. PICK t : t = Tail(s)
  OBVIOUS
<1>2. PICK x : x = Head(s) /\ x = s[1]
  OBVIOUS
<1>3. x \in S /\ t \in Seq(S) /\ Len(t) = Len(s) - 1 /\ \A i \in 1 .. Len(t) : t[i] = s[i + 1]
  BY <1>1, <1>2, HeadTailProperties
<1>4. PICK n \in Nat : n = Len(s) /\ DOMAIN s = 1 .. n
  BY LenProperties
<1>5. n # 0
  BY <1>4, EmptySeq
<1>6. Len(t) = n - 1 /\ DOMAIN t = 1 .. (n - 1)
  BY <1>3, <1>4, LenProperties
<1>7. \A i \in 1 .. (n - 1) : i + 1 \in 1 .. n /\ t[i] = s[i + 1]
  BY <1>3, <1>4, <1>6
<1>8. \A i \in 1 .. n : i = 1 \/ \E j \in 1 .. (n - 1) : i = j + 1
  <2>1. ASSUME NEW i \in 1 .. n, i # 1 PROVE i - 1 \in 1 .. (n - 1) /\ i = (i - 1) + 1
    BY <2>1
  <2>. QED  BY <2>1
<1>9. 1 \in 1 .. n /\ \A j \in 1 .. (n - 1) : j + 1 # 1
  BY <1>4, <1>5
<1>10. Range(s) = {x} \cup Range(t)
  <2>1. \A i \in 1 .. n : s[i] \in Range(s)
    BY <1>4 DEF Range
  <2>2. \A j \in 1 .. (n - 1) : t[j] \in Range(t)
    BY <1>6 DEF Range
  <2>3. \A y \in Range(s) : \E i \in 1 .. n : y = s[i]
    BY <1>4 DEF Range
  <2>4. \A y \in Range(t) : \E j \in 1 .. (n - 1) : y = t[j]
    BY <1>6 DEF Range
  <2>5. Range(s) \subseteq {x} \cup Range(t)
    <3>1. ASSUME NEW y \in Range(s), y # x PROVE y \in Range(t)
      <4>1. PICK i \in 1 .. n : y = s[i]
        BY <2>3
      <4>2. PICK j \in 1 .. (n - 1) : i = j + 1
        BY <1>2, <1>8, <3>1, <4>1
      <4>. QED  BY <1>7, <2>2, <4>1, <4>2
    <3>. QED  BY <3>1
  <2>6. {x} \cup Range(t) \subseteq Range(s)
    BY <1>2, <1>7, <1>9, <2>1, <2>4
  <2>. QED  BY <2>5, <2>6
<1>11. ASSUME IsInjective(s) PROVE IsInjective(t) /\ x \notin Range(t)
  <2>1. \A i, j \in 1 .. n : s[i] = s[j] => i = j
    BY <1>4, <1>11 DEF IsInjective
  <2>2. ASSUME NEW i \in 1 .. (n - 1), NEW j \in 1 .. (n - 1), t[i] = t[j] PROVE i = j
    <3>1. i + 1 = j + 1
      BY <1>7, <2>1, <2>2
    <3>. QED  BY <3>1
  <2>3. \A j \in 1 .. (n - 1) : t[j] # x
    BY <1>2, <1>7, <1>9, <2>1
  <2>. QED  BY <1>6, <2>2, <2>3 DEF IsInjective, Range
<1>. QED  BY <1>1, <1>2, <1>3, <1>10, <1>11

-----------------------------------------------------------------------------
(* Going through the tree.                                                 *)

Kids(T, i) == {j \in T.ids \ {T.root} : T.parent[j] = i}

\* The children of a node are in the sequence that goes to toVisit, each once.
LEMMA KidsLemma ==
  ASSUME NEW T, IsTree(T), NEW p \in T.ids, NEW i \in T.ids
  PROVE  /\ ChildNodes(T, p, i) \in Seq([below : T.ids, node : T.ids])
         /\ IsInjective(ChildNodes(T, p, i))
         /\ Range(ChildNodes(T, p, i)) = {Call(p, j) : j \in Kids(T, i)}
PROOF
<1>1. PICK s : s = T.childNodes[i]
  OBVIOUS
<1>2. s \in Seq(T.ids) /\ IsInjective(s) /\ Range(s) = Kids(T, i)
  BY <1>1 DEF IsTree, Kids
<1>3. PICK n \in Nat : n = Len(s) /\ DOMAIN s = 1 .. n /\ s \in [1 .. n -> T.ids]
  BY <1>2, LenProperties
<1>4. PICK c : c = [k \in 1 .. n |-> Call(p, s[k])]
  OBVIOUS
<1>5. c = ChildNodes(T, p, i)
  BY <1>1, <1>3, <1>4 DEF ChildNodes, Call
<1>6. \A k \in 1 .. n : s[k] \in T.ids /\ c[k] = Call(p, s[k])
  BY <1>3, <1>4
<1>7. \A j \in T.ids : Call(p, j) \in [below : T.ids, node : T.ids]
  BY DEF Call
<1>8. c \in [1 .. n -> [below : T.ids, node : T.ids]]
  BY <1>4, <1>6, <1>7
<1>9. DOMAIN c = 1 .. n
  BY <1>4
<1>10. c \in Seq([below : T.ids, node : T.ids])
  <2>1. PICK C : C = [below : T.ids, node : T.ids]
    OBVIOUS
  <2>2. c \in [1 .. n -> C]
    BY <1>8, <2>1
  <2>3. c \in Seq(C)
    BY <1>3, <2>2
  <2>. QED  BY <2>1, <2>3
<1>11. \A j, k : Call(p, j) = Call(p, k) => j = k
  BY DEF Call
<1>12. IsInjective(c)
  BY <1>2, <1>3, <1>6, <1>9, <1>11 DEF IsInjective
<1>13. Range(c) = {Call(p, j) : j \in Kids(T, i)}
  <2>1. \A j \in Kids(T, i) : \E k \in 1 .. n : j = s[k]
    BY <1>2, <1>3 DEF Range
  <2>2. \A k \in 1 .. n : s[k] \in Kids(T, i)
    BY <1>2, <1>3 DEF Range
  <2>3. Range(c) = {c[k] : k \in 1 .. n}
    BY <1>9 DEF Range
  <2>. QED  BY <1>6, <2>1, <2>2, <2>3
<1>. QED  BY <1>5, <1>10, <1>12, <1>13

\* The children of the root are the first to be looked at.
LEMMA VisitsRoot ==
  ASSUME NEW T, IsTree(T)
  PROVE  Visits(T, {T.root}, ChildNodes(T, T.root, T.root))
PROOF
<1>1. T.root \in T.ids
  BY TreeLemma
<1>2. Frontier(T, {T.root}) = Kids(T, T.root)
  BY DEF Frontier, Kids
<1>3. \A j \in Kids(T, T.root) : Near(T)[j] = T.root
  BY NearUnfolds, RootKept DEF Near, Kids
<1>4. {Call(Near(T)[j], j) : j \in Kids(T, T.root)} = {Call(T.root, j) : j \in Kids(T, T.root)}
  BY <1>3
<1>5. Range(ChildNodes(T, T.root, T.root)) = {Call(Near(T)[j], j) : j \in Frontier(T, {T.root})}
  BY <1>1, <1>2, <1>4, KidsLemma
<1>6. /\ ChildNodes(T, T.root, T.root) \in Seq([below : T.ids, node : T.ids])
      /\ IsInjective(ChildNodes(T, T.root, T.root))
  BY <1>1, KidsLemma
<1>. QED  BY <1>1, <1>5, <1>6 DEF Visits

\* What is in front of toVisit.
LEMMA HeadLemma ==
  ASSUME NEW T, IsTree(T), NEW seen, NEW todo, Visits(T, seen, todo), todo # <<>>
  PROVE  /\ Head(todo).node \in Frontier(T, seen) \ {T.root}
         /\ T.parent[Head(todo).node] \in seen
         /\ Head(todo).below = Near(T)[Head(todo).node]
         /\ Head(todo).below \in Kept(T) \cap seen
         /\ Head(todo).below \in T.ids /\ Head(todo).below # Head(todo).node
PROOF
<1>1. todo \in Seq([below : T.ids, node : T.ids])
  BY DEF Visits
<1>2. Head(todo) \in Range(todo)
  BY <1>1, TakeLemma
<1>3. PICK i \in Frontier(T, seen) : Head(todo) = Call(Near(T)[i], i)
  BY <1>2 DEF Visits
<1>4. Head(todo).node = i /\ Head(todo).below = Near(T)[i]
  BY <1>3 DEF Call
<1>5. i \in T.ids \ {T.root} /\ T.parent[i] \in seen
  BY <1>3 DEF Frontier, Visits
<1>6. seen \subseteq T.ids /\ \A k \in seen \ {T.root} : T.parent[k] \in seen
  BY DEF Visits
<1>7. T.root \in Kept(T) /\ Kept(T) \subseteq T.ids
  BY RootKept
<1>8. Near(T)[i] \in Kept(T) /\ Near(T)[i] < i
  BY <1>5, <1>7, NearIn DEF Near
<1>9. Near(T)[i] \in seen
  BY <1>5, <1>6, <1>7, NearUp DEF Near
<1>10. Near(T)[i] # i
  BY <1>5, <1>7, <1>8, TreeLemma
<1>. QED  BY <1>4, <1>5, <1>6, <1>7, <1>8, <1>9, <1>10, <1>3

\* A child is looked at, and its children are next, below p if that is their
\* nearest ancestor that is kept.
LEMMA VisitsChild ==
  ASSUME NEW T, IsTree(T), NEW seen, NEW todo, Visits(T, seen, todo), todo # <<>>,
         NEW p \in T.ids, \A i \in Kids(T, Head(todo).node) : Near(T)[i] = p
  PROVE  Visits(T, seen \cup {Head(todo).node},
                ChildNodes(T, p, Head(todo).node) \o Tail(todo))
PROOF
<1>. DEFINE C == [below : T.ids, node : T.ids]
<1>1. PICK j : j = Head(todo).node
  OBVIOUS
<1>2. /\ j \in Frontier(T, seen) /\ j \in T.ids \ {T.root} /\ j \notin seen
      /\ T.parent[j] \in seen /\ Head(todo) = Call(Near(T)[j], j)
  <2>1. /\ j \in Frontier(T, seen) /\ j # T.root /\ T.parent[j] \in seen
        /\ Head(todo).below = Near(T)[j]
    BY <1>1, HeadLemma
  <2>2. Head(todo) \in [below : T.ids, node : T.ids]
    BY TakeLemma DEF Visits
  <2>3. Head(todo) = Call(Near(T)[j], j)
    BY <1>1, <2>1, <2>2 DEF Call
  <2>. QED  BY <2>1, <2>3 DEF Frontier
<1>3. /\ todo \in Seq(C) /\ IsInjective(todo)
      /\ Range(todo) = {Call(Near(T)[i], i) : i \in Frontier(T, seen)}
  BY DEF Visits
<1>4. PICK kids : kids = ChildNodes(T, p, j)
  OBVIOUS
<1>5. kids \in Seq(C) /\ IsInjective(kids) /\ Range(kids) = {Call(p, i) : i \in Kids(T, j)}
  BY <1>2, <1>4, KidsLemma
<1>. HIDE DEF C
<1>6. PICK t : t = Tail(todo)
  OBVIOUS
<1>7. /\ t \in Seq(C) /\ Range(todo) = {Head(todo)} \cup Range(t)
      /\ IsInjective(t) /\ Head(todo) \notin Range(t)
  BY <1>3, <1>6, TakeLemma
<1>8. \A a, b, c, d : Call(a, b) = Call(c, d) => b = d
  BY DEF Call
<1>9. Range(t) = {Call(Near(T)[i], i) : i \in Frontier(T, seen) \ {j}}
  <2>1. ASSUME NEW x \in Range(t)
        PROVE  x \in {Call(Near(T)[i], i) : i \in Frontier(T, seen) \ {j}}
    <3>1. PICK i \in Frontier(T, seen) : x = Call(Near(T)[i], i)
      BY <1>3, <1>7
    <3>2. i # j
      BY <1>2, <1>7, <3>1
    <3>. QED  BY <3>1, <3>2
  <2>2. ASSUME NEW i \in Frontier(T, seen) \ {j} PROVE Call(Near(T)[i], i) \in Range(t)
    <3>1. Call(Near(T)[i], i) \in Range(todo)
      BY <1>3
    <3>2. Call(Near(T)[i], i) # Head(todo)
      BY <1>2, <1>8
    <3>. QED  BY <1>7, <3>1, <3>2
  <2>. QED  BY <2>1, <2>2
<1>10. Frontier(T, seen \cup {j}) = (Frontier(T, seen) \ {j}) \cup Kids(T, j)
  <2>1. \A i \in Kids(T, j) : i \in T.ids /\ i # j /\ i \notin seen /\ T.parent[i] = j
    <3>1. ASSUME NEW i \in Kids(T, j) PROVE i \in T.ids /\ i # j /\ i \notin seen /\ T.parent[i] = j
      <4>1. i \in T.ids \ {T.root} /\ T.parent[i] = j /\ j < i
        BY TreeLemma DEF Kids
      <4>2. i # j
        BY <1>2, <4>1, TreeLemma
      <4>3. i \notin seen
        BY <1>2, <4>1 DEF Visits
      <4>. QED  BY <4>1, <4>2, <4>3
    <3>. QED  BY <3>1
  <2>2. \A i \in T.ids \ seen : i # T.root
    BY DEF Visits
  <2>. QED  BY <1>2, <2>1, <2>2 DEF Frontier, Kids
<1>11. \A i \in Kids(T, j) : Near(T)[i] = p /\ i \notin Frontier(T, seen)
  <2>1. \A i \in Kids(T, j) : Near(T)[i] = p
    BY <1>1
  <2>. QED  BY <1>2, <2>1 DEF Kids, Frontier
<1>12. Range(kids) \cap Range(t) = {}
  BY <1>5, <1>8, <1>9, <1>11
<1>13. /\ kids \o t \in Seq(C) /\ IsInjective(kids \o t)
       /\ Range(kids \o t) = Range(kids) \cup Range(t)
  BY <1>5, <1>7, <1>12, JoinLemma
<1>14. Range(kids \o t) = {Call(Near(T)[i], i) : i \in Frontier(T, seen \cup {j})}
  BY <1>5, <1>9, <1>10, <1>11, <1>13
<1>15. /\ seen \cup {j} \subseteq T.ids /\ T.root \in seen \cup {j}
       /\ \A i \in (seen \cup {j}) \ {T.root} : T.parent[i] \in seen \cup {j}
  BY <1>2 DEF Visits
<1>16. Visits(T, seen \cup {j}, kids \o t)
  BY <1>13, <1>14, <1>15 DEF Visits, C
<1>. QED  BY <1>1, <1>4, <1>6, <1>16

\* When nothing is left to be looked at, everything was.
LEMMA AllVisited ==
  ASSUME NEW T, IsTree(T), NEW seen, Visits(T, seen, <<>>)
  PROVE  seen = T.ids
PROOF
<1>. DEFINE P == T.ids \ seen
<1>1. seen \subseteq T.ids /\ T.root \in seen /\ Frontier(T, seen) = {}
  <2>1. Range(<<>>) = {}
    BY DEF Range
  <2>2. \A i \in Frontier(T, seen) : Call(Near(T)[i], i) \in Range(<<>>)
    BY DEF Visits
  <2>. QED  BY <2>1, <2>2 DEF Visits
<1>2. SUFFICES ASSUME P # {} PROVE FALSE
  BY <1>1
<1>3. PICK i \in P : \A j \in P : i <= j
  <2>1. P \subseteq Nat
    BY TreeLemma
  <2>. HIDE DEF P
  <2>. QED  BY <1>2, <2>1, LeastNat, Zenon
<1>4. i \in T.ids \ {T.root} /\ T.parent[i] \in T.ids /\ ~(i <= T.parent[i])
  <2>1. i \in T.ids \ {T.root}
    BY <1>1, <1>3
  <2>2. i \in Nat /\ T.parent[i] \in Nat /\ T.parent[i] < i
    BY <2>1, TreeLemma
  <2>. QED  BY <2>1, <2>2, TreeLemma
<1>5. T.parent[i] \in seen
  <2>1. T.parent[i] \notin P
    <3>. HIDE DEF P
    <3>. QED  BY <1>3, <1>4
  <2>. QED  BY <1>4, <2>1
<1>. QED  BY <1>1, <1>3, <1>4, <1>5 DEF Frontier

-----------------------------------------------------------------------------
(* What is built.                                                          *)

\* A critical node is merged if the code's three conditions hold.
LEMMA MergedLemma ==
  ASSUME NEW T, IsTree(T), NEW i \in T.ids \ {T.root}, i \in Critical(T)
  PROVE  i \in Merged(T) <=> /\ Len(T.childNodes[T.parent[i]]) = 1
                             /\ IsTorchOP(T.frame[Near(T)[i]]) /\ IsTorchOP(T.frame[i])
PROOF
<1>1. NearestAbove(T, Critical(T))[i] \in T.ids /\ Near(T)[i] \in T.ids
  BY NearIn, RootKept DEF Near
<1>2. NearestAbove(T, Critical(T))[i] \in Operators(T) <=> Near(T)[i] \in Operators(T)
  BY SameKind
<1>3. i \in Merged(T) <=>
        /\ Cardinality({j \in T.ids \ {T.root} : T.parent[j] = T.parent[i]}) = 1
        /\ i \in Operators(T) /\ NearestAbove(T, Critical(T))[i] \in Operators(T)
  BY <1>1, Zenon DEF Merged, Operators
<1>4. Len(T.childNodes[T.parent[i]]) = 1
        <=> Cardinality({j \in T.ids \ {T.root} : T.parent[j] = T.parent[i]}) = 1
  BY OnlyChild
<1>. QED  BY <1>1, <1>2, <1>3, <1>4, Zenon DEF Operators

\* The nearest kept ancestor of a node's children.
LEMMA NearKids ==
  ASSUME NEW T, IsTree(T), NEW j \in T.ids \ {T.root}
  PROVE  \A i \in Kids(T, j) : Near(T)[i] = IF j \in Kept(T) THEN j ELSE Near(T)[j]
BY NearUnfolds DEF Near, Kids

\* The root alone.
LEMMA BuildsRoot ==
  ASSUME NEW T, IsTree(T)
  PROVE  Builds(T, {T.root}, [i \in {T.root} |-> NewNode(NoNode, i)])
PROOF
<1>1. Kept(T) \cap {T.root} = {T.root} /\ Merged(T) \cap {T.root} = {}
  BY RootKept
<1>2. BuiltNode(T, {T.root}, T.root) = NewNode(NoNode, T.root)
  BY <1>1 DEF BuiltNode, NewNode, Up, Below, Names
<1>. QED  BY <1>1, <1>2 DEF Builds

\* A node that is not critical changes nothing.
LEMMA BuildsSkip ==
  ASSUME NEW T, IsTree(T), NEW seen, NEW tree, Builds(T, seen, tree),
         NEW j, j \notin Critical(T)
  PROVE  Builds(T, seen \cup {j}, tree)
PROOF
<1>1. Kept(T) \cap (seen \cup {j}) = Kept(T) \cap seen
  BY RootKept
<1>2. Merged(T) \cap (seen \cup {j}) = Merged(T) \cap seen
  BY RootKept
<1>. QED  BY <1>1, <1>2 DEF Builds, BuiltNode, Below, Names

\* One that is merged adds its name to the nearest that is kept.
LEMMA BuildsMerge ==
  ASSUME NEW T, IsTree(T), NEW seen, NEW tree, Builds(T, seen, tree),
         NEW j \in Merged(T), Near(T)[j] \in Kept(T) \cap seen
  PROVE  Builds(T, seen \cup {j}, Rename(tree, Near(T)[j], j))
PROOF
<1>1. PICK p : p = Near(T)[j]
  OBVIOUS
<1>2. Kept(T) \cap (seen \cup {j}) = Kept(T) \cap seen
  BY RootKept
<1>3. tree = [i \in Kept(T) \cap seen |-> BuiltNode(T, seen, i)]
  BY DEF Builds
<1>4. ASSUME NEW i, i # p PROVE BuiltNode(T, seen \cup {j}, i) = BuiltNode(T, seen, i)
  <2>1. Names(T, seen \cup {j}, i) = Names(T, seen, i)
    BY <1>1, <1>4 DEF Names
  <2>2. Below(T, seen \cup {j}, i) = Below(T, seen, i)
    BY <1>2 DEF Below
  <2>. QED  BY <2>1, <2>2 DEF BuiltNode
<1>5. BuiltNode(T, seen \cup {j}, p) = [BuiltNode(T, seen, p) EXCEPT !.name = @ \cup {j}]
  <2>1. Names(T, seen \cup {j}, p) = Names(T, seen, p) \cup {j}
    BY <1>1 DEF Names
  <2>2. Below(T, seen \cup {j}, p) = Below(T, seen, p)
    BY <1>2 DEF Below
  <2>3. PICK u, b, c, n : /\ u = Up(T, p) /\ b = Below(T, seen, p)
                          /\ c = {T.pc[k] : k \in b} /\ n = Names(T, seen, p)
    OBVIOUS
  <2>4. /\ BuiltNode(T, seen, p) =
             [parentID |-> u, childIDs |-> b, childPCs |-> c, name |-> n, samples |-> 1]
        /\ BuiltNode(T, seen \cup {j}, p) =
             [parentID |-> u, childIDs |-> b, childPCs |-> c, name |-> n \cup {j}, samples |-> 1]
    BY <2>1, <2>2, <2>3, Zenon DEF BuiltNode
  <2>. QED  BY <2>4
<1>6. Rename(tree, p, j) = [tree EXCEPT ![p] = [tree[p] EXCEPT !.name = @ \cup {j}]]
  BY DEF Rename
<1>7. tree[p] = BuiltNode(T, seen, p)
  BY <1>1, <1>3
<1>8. Rename(tree, p, j) = [tree EXCEPT ![p] = BuiltNode(T, seen \cup {j}, p)]
  BY <1>5, <1>6, <1>7
<1>9. [tree EXCEPT ![p] = BuiltNode(T, seen \cup {j}, p)]
        = [i \in Kept(T) \cap seen |-> BuiltNode(T, seen \cup {j}, i)]
  BY <1>1, <1>3, <1>4
<1>. QED  BY <1>1, <1>2, <1>8, <1>9 DEF Builds

\* One that is kept is inserted below the nearest that is kept.
LEMMA BuildsInsert ==
  ASSUME NEW T, IsTree(T), NEW seen, NEW tree, Builds(T, seen, tree),
         NEW j \in Kept(T), j \notin seen, j # T.root,
         \A i \in T.ids \ {T.root} : i \in seen => Near(T)[i] # j,
         Near(T)[j] \in Kept(T) \cap seen, Near(T)[j] # j
  PROVE  Builds(T, seen \cup {j}, AddChild(T, tree, Near(T)[j], j))
PROOF
<1>1. PICK p : p = Near(T)[j]
  OBVIOUS
<1>2. Kept(T) \cap (seen \cup {j}) = (Kept(T) \cap seen) \cup {j}
  BY RootKept
<1>3. Merged(T) \cap (seen \cup {j}) = Merged(T) \cap seen
  BY RootKept
<1>4. tree = [i \in Kept(T) \cap seen |-> BuiltNode(T, seen, i)]
  BY DEF Builds
<1>5. ASSUME NEW i
      PROVE  /\ Names(T, seen \cup {j}, i) = Names(T, seen, i)
             /\ i # p => Below(T, seen \cup {j}, i) = Below(T, seen, i)
  BY <1>1, <1>2, <1>3 DEF Names, Below
<1>6. Below(T, seen \cup {j}, p) = Below(T, seen, p) \cup {j}
  BY <1>1, <1>2 DEF Below
<1>7. Below(T, seen, j) = {} /\ Names(T, seen, j) = {j} /\ Up(T, j) = p
  BY <1>1, RootKept DEF Below, Names, Up
<1>9. ASSUME NEW i, i # p PROVE BuiltNode(T, seen \cup {j}, i) = BuiltNode(T, seen, i)
  BY <1>5, <1>9 DEF BuiltNode
<1>10. BuiltNode(T, seen, j) = NewNode(p, j)
  BY <1>7 DEF BuiltNode, NewNode
<1>11. BuiltNode(T, seen \cup {j}, p) =
         [BuiltNode(T, seen, p) EXCEPT !.childIDs = @ \cup {j}, !.childPCs = @ \cup {T.pc[j]}]
  <2>1. {T.pc[k] : k \in Below(T, seen, p) \cup {j}}
          = {T.pc[k] : k \in Below(T, seen, p)} \cup {T.pc[j]}
    OBVIOUS
  <2>2. PICK u, b, c, n : /\ u = Up(T, p) /\ b = Below(T, seen, p)
                          /\ c = {T.pc[k] : k \in b} /\ n = Names(T, seen, p)
    OBVIOUS
  <2>3. /\ BuiltNode(T, seen, p) =
             [parentID |-> u, childIDs |-> b, childPCs |-> c, name |-> n, samples |-> 1]
        /\ BuiltNode(T, seen \cup {j}, p) =
             [parentID |-> u, childIDs |-> b \cup {j}, childPCs |-> c \cup {T.pc[j]},
              name |-> n, samples |-> 1]
    BY <1>5, <1>6, <2>1, <2>2, Zenon DEF BuiltNode
  <2>4. PICK b1, c1 : b1 = b \cup {j} /\ c1 = c \cup {T.pc[j]}
    OBVIOUS
  <2>5. PICK r : r = BuiltNode(T, seen, p)
    OBVIOUS
  <2>6. r.childIDs = b /\ r.childPCs = c
    BY <2>3, <2>5
  <2>7. [r EXCEPT !.childIDs = @ \cup {j}, !.childPCs = @ \cup {T.pc[j]}]
          = [r EXCEPT !.childIDs = b1, !.childPCs = c1]
    BY <2>4, <2>6
  <2>8. [r EXCEPT !.childIDs = b1, !.childPCs = c1] =
          [parentID |-> u, childIDs |-> b1, childPCs |-> c1, name |-> n, samples |-> 1]
    <3>1. [r EXCEPT !.childIDs = b1] =
            [parentID |-> u, childIDs |-> b1, childPCs |-> c, name |-> n, samples |-> 1]
      BY <2>3, <2>5
    <3>2. [[parentID |-> u, childIDs |-> b1, childPCs |-> c, name |-> n, samples |-> 1]
             EXCEPT !.childPCs = c1] =
            [parentID |-> u, childIDs |-> b1, childPCs |-> c1, name |-> n, samples |-> 1]
      OBVIOUS
    <3>3. [r EXCEPT !.childIDs = b1, !.childPCs = c1]
            = [[r EXCEPT !.childIDs = b1] EXCEPT !.childPCs = c1]
      OBVIOUS
    <3>. QED  BY <3>1, <3>2, <3>3
  <2>. QED  BY <2>3, <2>4, <2>5, <2>7, <2>8
<1>12. tree[p] = BuiltNode(T, seen, p) /\ DOMAIN tree = Kept(T) \cap seen /\ p # j
  BY <1>1, <1>4
<1>13. AddChild(T, tree, p, j) =
         [k \in (Kept(T) \cap seen) \cup {j} |->
            IF k = j THEN NewNode(p, j)
            ELSE IF k = p THEN BuiltNode(T, seen \cup {j}, p) ELSE tree[k]]
  BY <1>11, <1>12 DEF AddChild
<1>14. AddChild(T, tree, p, j) =
         [k \in (Kept(T) \cap seen) \cup {j} |-> BuiltNode(T, seen \cup {j}, k)]
  BY <1>4, <1>9, <1>10, <1>12, <1>13
<1>. QED  BY <1>1, <1>2, <1>14 DEF Builds

-----------------------------------------------------------------------------
(* What is printed.                                                        *)

\* The links of a message go from the root to every node and back.
Linked(M) ==
  /\ M.rootid \in DOMAIN M.nodemap /\ DOMAIN M.nodemap \subseteq Nat
  /\ \A i \in DOMAIN M.nodemap \ {M.rootid} :
       M.nodemap[i].parentid \in DOMAIN M.nodemap /\ M.nodemap[i].parentid < i
  /\ \A i \in DOMAIN M.nodemap : IsFiniteSet(M.nodemap[i].childids)
  /\ LinksAgree(M)

\* What a message says of a node.
LEMMA MessageLemma ==
  ASSUME NEW T, NEW tree
  PROVE  /\ Message(T, tree).rootid = T.root
         /\ DOMAIN Message(T, tree).nodemap = DOMAIN tree
         /\ \A i \in DOMAIN tree :
              /\ Message(T, tree).nodemap[i].parentid = tree[i].parentID
              /\ Message(T, tree).nodemap[i].childids = tree[i].childIDs
              /\ Message(T, tree).nodemap[i].funcname = tree[i].name
BY DEF Message, ProtoNode

\* The message of a pruned tree.
LEMMA PrunedLinks ==
  ASSUME NEW T, IsTree(T), NEW tree, Builds(T, T.ids, tree)
  PROVE  Linked(Message(T, tree)) /\ PrunedWell(T, Message(T, tree).nodemap)
PROOF
<1>1. PICK M : M = Message(T, tree)
  OBVIOUS
<1>2. Kept(T) \cap T.ids = Kept(T) /\ Kept(T) \subseteq T.ids /\ T.root \in Kept(T)
  BY RootKept
<1>3. tree = [i \in Kept(T) |-> BuiltNode(T, T.ids, i)]
  BY <1>2 DEF Builds
<1>4. M.rootid = T.root /\ DOMAIN M.nodemap = Kept(T)
  BY <1>1, <1>3, MessageLemma
<1>5. \A i \in Kept(T) :
        /\ M.nodemap[i].parentid = Up(T, i)
        /\ M.nodemap[i].childids = Below(T, T.ids, i)
        /\ M.nodemap[i].funcname = Names(T, T.ids, i)
  BY <1>1, <1>3, MessageLemma DEF BuiltNode
<1>6. \A i \in T.ids \ {T.root} : Near(T)[i] \in Kept(T) /\ Near(T)[i] < i
  BY <1>2, NearIn DEF Near
<1>7. \A i \in Kept(T) \ {T.root} : Up(T, i) = Near(T)[i]
  BY DEF Up
<1>8. \A i \in Kept(T) : IsFiniteSet(Below(T, T.ids, i))
  <2>1. IsFiniteSet(T.ids)
    BY DEF IsTree
  <2>2. ASSUME NEW i PROVE Below(T, T.ids, i) \in SUBSET T.ids
    BY DEF Below
  <2>. QED  BY <2>1, <2>2, FS_Subset
<1>9. \A i \in Kept(T) : Below(T, T.ids, i) = {j \in Kept(T) \ {T.root} : Up(T, j) = i}
  BY <1>2, <1>7 DEF Below
<1>10. LinksAgree(M)
  BY <1>2, <1>4, <1>5, <1>9 DEF LinksAgree
<1>11. Linked(M)
  <2>1. DOMAIN M.nodemap \subseteq Nat
    BY <1>2, <1>4, TreeLemma
  <2>2. \A i \in DOMAIN M.nodemap \ {M.rootid} :
          M.nodemap[i].parentid \in DOMAIN M.nodemap /\ M.nodemap[i].parentid < i
    BY <1>2, <1>4, <1>5, <1>6, <1>7
  <2>. QED  BY <1>2, <1>4, <1>5, <1>8, <1>10, <2>1, <2>2 DEF Linked
<1>12. \A i \in Merged(T) : \A q \in Kept(T) : i \in M.nodemap[q].funcname <=> q = Near(T)[i]
  <2>1. \A i \in Merged(T), q \in Kept(T) : i # q /\ i \in T.ids
    BY RootKept
  <2>. QED  BY <1>5, <2>1 DEF Names
<1>13. \A i \in Leaves(T) : \E q \in Kept(T) : i \in M.nodemap[q].funcname
  <2>1. ASSUME NEW i \in Leaves(T) PROVE i \in Critical(T)
    <3>1. T.childNodes[i] \in Seq(T.ids) /\ Range(T.childNodes[i]) = {} /\ i \in T.ids
      BY DEF Leaves, IsTree
    <3>2. T.childNodes[i] = <<>>
      BY <3>1, TakeLemma
    <3>. QED  BY <3>1, <3>2 DEF Critical, IsCriticalNode
  <2>2. ASSUME NEW i \in Leaves(T) PROVE \E q \in Kept(T) : i \in M.nodemap[q].funcname
    <3>1. CASE i \in Kept(T)
      BY <1>5, <3>1 DEF Names
    <3>2. CASE i \in Merged(T)
      BY <1>6, <1>12, <3>2, RootKept
    <3>. QED  BY <2>1, <2>2, <3>1, <3>2, RootKept
  <2>. QED  BY <2>2
<1>14. PrunedWell(T, M.nodemap)
  BY <1>4, <1>5, <1>7, <1>12, <1>13, Zenon DEF PrunedWell, Near
<1>. QED  BY <1>1, <1>11, <1>14

\* The message of a tree as it was collected.
LEMMA CollectedLinks ==
  ASSUME NEW T, IsTree(T)
  PROVE  /\ Linked(Message(T, Collected(T)))
         /\ DOMAIN Message(T, Collected(T)).nodemap = T.ids
PROOF
<1>1. PICK M : M = Message(T, Collected(T))
  OBVIOUS
<1>2. M.rootid = T.root /\ DOMAIN M.nodemap = T.ids /\ DOMAIN Collected(T) = T.ids
  BY <1>1, MessageLemma DEF Collected
<1>3. \A i \in T.ids :
        /\ i # T.root => M.nodemap[i].parentid = T.parent[i]
        /\ M.nodemap[i].childids = Kids(T, i)
  <2>1. \A i \in T.ids : Range(T.childNodes[i]) = Kids(T, i)
    BY DEF IsTree, Kids
  <2>2. \A i \in T.ids :
          /\ i # T.root => Collected(T)[i].parentID = T.parent[i]
          /\ Collected(T)[i].childIDs = Range(T.childNodes[i])
    BY DEF Collected
  <2>. QED  BY <1>1, <1>2, <2>1, <2>2, MessageLemma
<1>4. \A i \in T.ids : IsFiniteSet(Kids(T, i))
  <2>1. IsFiniteSet(T.ids)
    BY DEF IsTree
  <2>2. ASSUME NEW i PROVE Kids(T, i) \in SUBSET T.ids
    BY DEF Kids
  <2>. QED  BY <2>1, <2>2, FS_Subset
<1>5. LinksAgree(M)
  BY <1>2, <1>3, TreeLemma DEF LinksAgree, Kids
<1>6. Linked(M)
  <2>1. DOMAIN M.nodemap \subseteq Nat /\ M.rootid \in DOMAIN M.nodemap
    BY <1>2, TreeLemma
  <2>2. \A i \in DOMAIN M.nodemap \ {M.rootid} :
          M.nodemap[i].parentid \in DOMAIN M.nodemap /\ M.nodemap[i].parentid < i
    BY <1>2, <1>3, TreeLemma
  <2>. QED  BY <1>2, <1>3, <1>4, <1>5, <2>1, <2>2 DEF Linked
<1>. QED  BY <1>1, <1>2, <1>6

\* Only the root is in the queue.
LEMMA PrintsRoot ==
  ASSUME NEW M, Linked(M)
  PROVE  Prints(M, <<>>, <<M.rootid>>)
PROOF
<1>1. PICK D : D = DOMAIN M.nodemap
  OBVIOUS
<1>2. PICK r : r = M.rootid
  OBVIOUS
<1>3. r \in D
  BY <1>1, <1>2 DEF Linked
<1>4. <<>> \in Seq(D) /\ <<r>> \in Seq(D)
  BY <1>3
<1>5. <<>> \o <<r>> = <<r>>
  BY <1>4, ConcatEmptySeq
<1>6. Range(<<>>) = {} /\ Range(<<r>>) = {r} /\ IsInjective(<<r>>)
  BY DEF Range, IsInjective
<1>. QED  BY <1>1, <1>2, <1>4, <1>5, <1>6 DEF Prints

\* The node in front is printed, its children go to the end.
LEMMA PrintsNode ==
  ASSUME NEW M, Linked(M), NEW out, NEW queue, Prints(M, out, queue), queue # <<>>,
         NEW kids \in Orders(M.nodemap[Head(queue)].childids)
  PROVE  Prints(M, Append(out, Head(queue)), Tail(queue) \o kids)
PROOF
<1>1. PICK D : D = DOMAIN M.nodemap
  OBVIOUS
<1>2. PICK a : a = out \o queue
  OBVIOUS
<1>3. PICK h, t : h = Head(queue) /\ t = Tail(queue)
  OBVIOUS
<1>4. /\ out \in Seq(D) /\ queue \in Seq(D) /\ IsInjective(a) /\ M.rootid \in Range(a)
      /\ \A i \in D \ {M.rootid} : i \in Range(a) <=> M.nodemap[i].parentid \in Range(out)
  BY <1>1, <1>2 DEF Prints
<1>5. h \in D /\ t \in Seq(D) /\ Range(queue) = {h} \cup Range(t)
  BY <1>3, <1>4, TakeLemma
<1>6. a \in Seq(D) /\ h \notin Range(out)
  BY <1>2, <1>4, <1>5, JoinLemma
<1>7. PICK C : C = M.nodemap[h].childids
  OBVIOUS
<1>8. IsFiniteSet(C) /\ C = {i \in D \ {M.rootid} : M.nodemap[i].parentid = h}
  BY <1>1, <1>5, <1>7 DEF Linked, LinksAgree
<1>9. kids \in Seq(D) /\ IsInjective(kids) /\ Range(kids) = C
  <2>1. PICK n \in Nat : n = Cardinality(C)
    BY <1>8, FS_CardinalityType
  <2>2. kids \in Bijection(1 .. n, C)
    BY <1>3, <1>7, <2>1 DEF Orders
  <2>3. /\ kids \in [1 .. n -> C] /\ IsInjective(kids)
        /\ \A x \in C : \E k \in 1 .. n : kids[k] = x
    BY <2>2 DEF Bijection, Injection, Surjection
  <2>4. kids \in Seq(C)
    BY <2>1, <2>3
  <2>5. kids \in Seq(D)
    BY <1>8, <2>4, SeqMonotonic
  <2>6. Range(kids) = C
    BY <2>3 DEF Range
  <2>. QED  BY <2>3, <2>5, <2>6
<1>10. Range(a) \cap Range(kids) = {}
  BY <1>4, <1>6, <1>8, <1>9
<1>11. /\ a \o kids \in Seq(D) /\ IsInjective(a \o kids)
       /\ Range(a \o kids) = Range(a) \cup C
  BY <1>4, <1>6, <1>9, <1>10, JoinLemma
<1>12. PICK o : o = Append(out, h)
  OBVIOUS
<1>13. o \in Seq(D) /\ o = out \o <<h>> /\ <<h>> \in Seq(D)
  BY <1>4, <1>5, <1>12, AppendProperties, AppendIsConcat
<1>14. Range(o) = Range(out) \cup {h}
  <2>1. Range(<<h>>) = {h}
    BY DEF Range
  <2>. QED  BY <1>4, <1>13, <2>1, JoinLemma
<1>15. o \o (t \o kids) = a \o kids
  <2>1. \A x, y, z \in Seq(D) : (x \o y) \o z = x \o (y \o z)
    BY ConcatAssociative
  <2>2. <<h>> \o t = queue
    BY <1>3, <1>4, <1>5
  <2>3. o \o t = out \o (<<h>> \o t)
    BY <1>4, <1>5, <1>13, <2>1, Zenon
  <2>4. o \o t = a
    BY <1>2, <2>2, <2>3
  <2>5. (o \o t) \o kids = o \o (t \o kids)
    BY <1>5, <1>9, <1>13, <2>1, Zenon
  <2>. QED  BY <2>4, <2>5
<1>16. t \o kids \in Seq(D)
  BY <1>5, <1>9, JoinLemma
<1>17. \A i \in D \ {M.rootid} : i \in Range(a \o kids) <=> M.nodemap[i].parentid \in Range(o)
  BY <1>4, <1>8, <1>11, <1>14
<1>18. Prints(M, o, t \o kids)
  BY <1>1, <1>4, <1>11, <1>13, <1>15, <1>16, <1>17, Zenon DEF Prints
<1>. QED  BY <1>3, <1>12, <1>18

\* No node is printed twice, and when the queue is empty each was.
LEMMA PrintsAll ==
  ASSUME NEW M, Linked(M), NEW out, NEW queue, Prints(M, out, queue)
  PROVE  /\ IsInjective(out) /\ Range(out) \subseteq DOMAIN M.nodemap
         /\ queue = <<>> => Range(out) = DOMAIN M.nodemap
PROOF
<1>1. PICK D : D = DOMAIN M.nodemap
  OBVIOUS
<1>2. /\ out \in Seq(D) /\ queue \in Seq(D)
      /\ IsInjective(out \o queue) /\ M.rootid \in Range(out \o queue)
      /\ \A i \in D \ {M.rootid} :
           i \in Range(out \o queue) <=> M.nodemap[i].parentid \in Range(out)
  BY <1>1 DEF Prints
<1>3. IsInjective(out) /\ Range(out) \subseteq D
  <2>1. IsInjective(out)
    BY <1>2, JoinLemma
  <2>2. Range(out) \subseteq D
    BY <1>2, ElementOfSeq, LenProperties DEF Range
  <2>. QED  BY <2>1, <2>2
<1>4. ASSUME queue = <<>> PROVE Range(out) = D
  <2>1. out \o queue = out
    BY <1>2, <1>4, ConcatEmptySeq
  <2>. DEFINE P == D \ Range(out)
  <2>2. SUFFICES ASSUME P # {} PROVE FALSE
    BY <1>3
  <2>3. PICK i \in P : \A j \in P : i <= j
    <3>1. P \subseteq Nat
      BY <1>1 DEF Linked
    <3>. HIDE DEF P
    <3>. QED  BY <2>2, <3>1, LeastNat, Zenon
  <2>4. i \in D \ {M.rootid} /\ M.nodemap[i].parentid \notin Range(out)
    BY <1>2, <2>1, <2>3
  <2>5. M.nodemap[i].parentid \in D /\ M.nodemap[i].parentid < i /\ D \subseteq Nat
    BY <1>1, <2>4 DEF Linked
  <2>6. M.nodemap[i].parentid \in P /\ ~(i <= M.nodemap[i].parentid)
    BY <2>4, <2>5
  <2>. HIDE DEF P
  <2>. QED  BY <2>3, <2>6
<1>. QED  BY <1>1, <1>3, <1>4

-----------------------------------------------------------------------------
(* Every step preserves the invariant.                                     *)

\* A reply that is begun.
LEMMA BeginLemma ==
  ASSUME CctInv, stage = "idle", NEW T \in Trees, PruneCPUCCT(T) \/ CopyCPUCCT(T)
  PROVE  CctInv'
PROOF
<1>1. IsTree(T) /\ T.root \in T.ids
  BY TreesAreTrees, TreeLemma
<1>2. printed' = <<>> /\ stage' = "build" /\ oldCCT' = T
  BY DEF CctInv, PruneCPUCCT, CopyCPUCCT
<1>3. CASE PruneCPUCCT(T)
  <2>1. /\ pruneCCT' = TRUE /\ newCCT' = [i \in {T.root} |-> NewNode(NoNode, i)]
        /\ toVisit' = ChildNodes(T, T.root, T.root) /\ visited' = {T.root}
    BY <1>3 DEF PruneCPUCCT
  <2>2. Visits(T, visited', toVisit') /\ Builds(T, visited', newCCT')
    BY <1>1, <2>1, VisitsRoot, BuildsRoot
  <2>. QED  BY <1>2, <2>1, <2>2 DEF CctInv, CctTyped
<1>4. CASE CopyCPUCCT(T)
  <2>1. /\ pruneCCT' = FALSE /\ newCCT' = Collected(T) /\ visited' = T.ids
        /\ toVisit' = <<>>
    BY <1>4 DEF CopyCPUCCT, CctInv
  <2>2. Visits(T, T.ids, <<>>)
    <3>1. Frontier(T, T.ids) = {} /\ Range(<<>>) = {} /\ IsInjective(<<>>)
      BY DEF Frontier, Range, IsInjective
    <3>2. <<>> \in Seq([below : T.ids, node : T.ids])
      BY EmptySeq
    <3>. QED  BY <1>1, <3>1, <3>2, TreeLemma DEF Visits
  <2>. QED  BY <1>2, <2>1, <2>2 DEF CctInv, CctTyped
<1>. QED  BY <1>3, <1>4

\* A child that is looked at.
LEMMA ChildLemma ==
  ASSUME CctInv, SkipChild \/ MergeChild \/ InsertChild
  PROVE  CctInv'
PROOF
<1>1. PICK T, j, p : T = oldCCT /\ j = Child /\ p = CurrNewNode
  OBVIOUS
<1>2. stage = "build" /\ toVisit # <<>> /\ oldCCT \in Trees /\ pruneCCT = TRUE
  BY DEF CctInv, CctTyped, SkipChild, MergeChild, InsertChild, PruneTreeRecursively
<1>3. /\ IsTree(T) /\ T \in Trees
      /\ Visits(T, visited, toVisit) /\ Builds(T, visited, newCCT) /\ printed = <<>>
  BY <1>1, <1>2, TreesAreTrees DEF CctInv
<1>4. /\ j = Head(toVisit).node /\ p = Head(toVisit).below /\ p = Near(T)[j]
      /\ j \in T.ids \ {T.root} /\ j \notin visited /\ T.parent[j] \in visited
      /\ p \in Kept(T) \cap visited /\ p \in T.ids /\ p # j
  BY <1>1, <1>2, <1>3, HeadLemma DEF Frontier, Child, CurrNewNode
<1>5. \A i \in Kids(T, j) : Near(T)[i] = IF j \in Kept(T) THEN j ELSE p
  BY <1>3, <1>4, NearKids
<1>6. IsCriticalChild <=> j \in Critical(T)
  BY <1>1, <1>4, Zenon DEF IsCriticalChild, Critical
<1>7. j \in Critical(T) => (ContinuesOP <=> j \in Merged(T))
  BY <1>1, <1>3, <1>4, MergedLemma, Zenon DEF ContinuesOP, Siblings
<1>8. ASSUME NEW q \in T.ids, PruneTreeRecursively(q), \A i \in Kids(T, j) : Near(T)[i] = q,
             Builds(T, visited \cup {j}, newCCT')
      PROVE  CctInv'
  <2>1. /\ stage' = "build" /\ oldCCT' = T /\ pruneCCT' = TRUE /\ printed' = <<>>
        /\ toVisit' = ChildNodes(T, q, j) \o Tail(toVisit) /\ visited' = visited \cup {j}
    BY <1>1, <1>2, <1>3, <1>8 DEF PruneTreeRecursively
  <2>2. Visits(T, visited', toVisit')
    BY <1>2, <1>3, <1>4, <1>8, <2>1, VisitsChild
  <2>. QED  BY <1>3, <1>8, <2>1, <2>2 DEF CctInv, CctTyped
<1>9. CASE SkipChild
  <2>1. j \notin Critical(T) /\ PruneTreeRecursively(p) /\ newCCT' = newCCT
    BY <1>1, <1>6, <1>9 DEF SkipChild
  <2>2. Builds(T, visited \cup {j}, newCCT')
    BY <1>3, <2>1, BuildsSkip
  <2>3. \A i \in Kids(T, j) : Near(T)[i] = p
    BY <1>3, <1>5, <2>1, RootKept
  <2>. QED  BY <1>4, <1>8, <2>1, <2>2, <2>3
<1>10. CASE MergeChild
  <2>1. /\ j \in Merged(T) /\ PruneTreeRecursively(p) /\ newCCT' = Rename(newCCT, p, j)
    BY <1>1, <1>6, <1>7, <1>10 DEF MergeChild
  <2>2. Builds(T, visited \cup {j}, newCCT')
    BY <1>3, <1>4, <2>1, BuildsMerge
  <2>3. \A i \in Kids(T, j) : Near(T)[i] = p
    BY <1>3, <1>5, <2>1, RootKept
  <2>. QED  BY <1>4, <1>8, <2>1, <2>2, <2>3
<1>11. CASE InsertChild
  <2>1. /\ j \in Kept(T) /\ PruneTreeRecursively(j)
        /\ newCCT' = AddChild(T, newCCT, p, j)
    BY <1>1, <1>6, <1>7, <1>11 DEF InsertChild, Kept
  <2>2. \A i \in T.ids \ {T.root} : i \in visited => Near(T)[i] # j
    <3>1. /\ visited \subseteq T.ids
          /\ \A i \in visited \ {T.root} : T.parent[i] \in visited
      BY <1>3 DEF Visits
    <3>2. \A i \in T.ids \ {T.root} : T.parent[i] \in visited => Near(T)[i] \in visited
      BY <1>3, <3>1, NearUp, RootKept DEF Near
    <3>. QED  BY <1>4, <3>1, <3>2
  <2>3. Builds(T, visited \cup {j}, newCCT')
    BY <1>3, <1>4, <2>1, <2>2, BuildsInsert
  <2>4. \A i \in Kids(T, j) : Near(T)[i] = j
    BY <1>5, <2>1
  <2>. QED  BY <1>4, <1>8, <2>1, <2>3, <2>4
<1>. QED  BY <1>9, <1>10, <1>11

\* The message of what was built.
LEMMA ReplyLemma ==
  ASSUME CctInv, stage \in {"reply", "print"}
  PROVE  /\ Linked(CCT) /\ IsTree(oldCCT)
         /\ pruneCCT => PrunedWell(oldCCT, CCT.nodemap)
         /\ ~pruneCCT => DOMAIN CCT.nodemap = oldCCT.ids
PROOF
<1>1. /\ oldCCT \in Trees /\ CCT = Message(oldCCT, newCCT)
      /\ Visits(oldCCT, visited, <<>>)
      /\ IF pruneCCT THEN Builds(oldCCT, visited, newCCT) ELSE newCCT = Collected(oldCCT)
  BY DEF CctInv, CctTyped
<1>2. IsTree(oldCCT)
  BY <1>1, TreesAreTrees
<1>3. visited = oldCCT.ids
  BY <1>1, <1>2, AllVisited
<1>4. CASE pruneCCT
  BY <1>1, <1>2, <1>3, <1>4, PrunedLinks
<1>5. CASE ~pruneCCT
  BY <1>1, <1>2, <1>5, CollectedLinks
<1>. QED  BY <1>2, <1>4, <1>5

LEMMA InitInv ==
  ASSUME CctInit
  PROVE  CctInv
BY DEF CctInit, CctInv, CctTyped

LEMMA NextInv ==
  ASSUME CctInv, [CctNext]_cctVars
  PROVE  CctInv'
PROOF
<1>1. CASE stage = "idle" /\ \E T \in Trees : PruneCPUCCT(T) \/ CopyCPUCCT(T)
  BY <1>1, BeginLemma
<1>2. CASE SkipChild \/ MergeChild \/ InsertChild
  BY <1>2, ChildLemma
<1>3. CASE CopyCPUCCT2ProtoCPUCCTV2
  BY <1>3 DEF CctInv, CctTyped, CopyCPUCCT2ProtoCPUCCTV2
<1>4. CASE PrintSamplingResults
  <2>1. Linked(CCT)
    BY <1>4, ReplyLemma DEF PrintSamplingResults
  <2>2. Prints(CCT', printed', nodeQueue')
    BY <1>4, <2>1, PrintsRoot DEF PrintSamplingResults, CctInv
  <2>. QED  BY <1>4, <2>2 DEF PrintSamplingResults, CctInv, CctTyped
<1>5. CASE PrintNode
  <2>1. Linked(CCT) /\ Prints(CCT, printed, nodeQueue)
    BY <1>5, ReplyLemma DEF PrintNode, CctInv
  <2>2. PICK kids \in Orders(CCT.nodemap[Head(nodeQueue)].childids) :
          nodeQueue' = Tail(nodeQueue) \o kids
    BY <1>5 DEF PrintNode
  <2>3. Prints(CCT, printed', nodeQueue')
    BY <1>5, <2>1, <2>2, PrintsNode DEF PrintNode
  <2>. QED  BY <1>5, <2>3 DEF PrintNode, CctInv, CctTyped
<1>6. CASE UNCHANGED cctVars
  BY <1>6 DEF cctVars, CctInv, CctTyped
<1>. QED  BY <1>1, <1>2, <1>3, <1>4, <1>5, <1>6 DEF CctNext

\* The invariant holds of every reply about a tree, as it is built, sent and
\* printed: every value is of its type, and what was built agrees with what was
\* looked at.
THEOREM CctInvariant == CctSpec => []CctInv
PROOF
<1>1. CctInit => CctInv
  BY InitInv
<1>2. CctInv /\ [CctNext]_cctVars => CctInv'
  BY NextInv
<1>. QED  BY <1>1, <1>2, PTL DEF CctSpec

\* PruneCPUCCT, for any tree, leaves the critical frames but the operators that
\* continue another, each below the nearest ancestor that is left, and no leaf
\* is lost; the links of every message of CopyCPUCCT2ProtoCPUCCTV2 agree, and
\* PrintSamplingResults prints each of its nodes once.
THEOREM PruningIsRight == CctSpec => []PruningKeepsContexts
PROOF
<1>1. CctInv => PruningKeepsContexts
  <2>1. SUFFICES ASSUME CctInv PROVE PruningKeepsContexts
    OBVIOUS
  <2>2. ASSUME stage \in {"reply", "print"}
        PROVE  /\ LinksAgree(CCT)
               /\ pruneCCT => PrunedWell(oldCCT, CCT.nodemap)
               /\ ~pruneCCT => DOMAIN CCT.nodemap = oldCCT.ids
    BY <2>1, <2>2, ReplyLemma DEF Linked
  <2>3. ASSUME stage = "print"
        PROVE  /\ IsInjective(printed) /\ Range(printed) \subseteq DOMAIN CCT.nodemap
               /\ nodeQueue = <<>> => Range(printed) = DOMAIN CCT.nodemap
    <3>1. Linked(CCT) /\ Prints(CCT, printed, nodeQueue)
      BY <2>1, <2>3, ReplyLemma DEF CctInv
    <3>. QED  BY <3>1, PrintsAll
  <2>. QED  BY <2>2, <2>3 DEF PruningKeepsContexts
<1>. QED  BY <1>1, CctInvariant, PTL

=============================================================================
