------------------------------ MODULE MCParts ------------------------------
(***************************************************************************)
(* One instance for the parts that work on what they are given: a case is  *)
(* a listing to read or two messages to write, and each property says of   *)
(* every case what its part promises.  The replies about a tree and the    *)
(* profiler without RPC, which have states of their own, are initial cases *)
(* beside.                                                                 *)
(***************************************************************************)
EXTENDS CctPruning, CubinCallGraph, ProtoWire, SignalProfiler

CONSTANTS
  TreeSize,    \* nodes of the largest tree
  Sections,    \* sections of the longest listing
  Depth        \* nesting of messages

VARIABLE case
vars == <<case, cctVars, cubinVars, sigVars>>

-----------------------------------------------------------------------------
\* Trees of every shape; siblings have different pcs, cousins the same.
Frame(type, words) == [type |-> type, words |-> words]
SomeFrames == {Frame("CXX", {}), Frame("CXX", {"torch"}), Frame("PY", {"forward"}),
               Frame("PY", {"forward", "python3"})}
Shapes(n) == {p \in [2 .. n -> 1 .. n - 1] : \A i \in 2 .. n : p[i] < i}

Tree(n, p, frames) ==
  LET others  == [k \in 1 .. n - 1 |-> k + 1]
      kids(i) == SelectSeq(others, LAMBDA j : p[j] = i)
  IN  [ids |-> 1 .. n, root |-> 1, parent |-> p, samples |-> [i \in 1 .. n |-> i + 1],
       childNodes |-> [i \in 1 .. n |-> kids(i)],
       pc |-> [i \in 1 .. n |-> IF i = 1 THEN 0
                                ELSE Cardinality({j \in 2 .. i : p[j] = p[i]})],
       frame |-> [i \in 1 .. n |-> IF i = 1 THEN Frame("CXX", {}) ELSE frames[i]]]

MCTrees ==
  UNION {{Tree(n, p, f) : p \in Shapes(n), f \in [2 .. n -> SomeFrames]} : n \in 1 .. TreeSize}

-----------------------------------------------------------------------------
\* Sections of a function f call the next, their own weak function g, or neither.
\* After the code of f may come g, declared, sized or only labelled; it ends with
\* the section or before it.
SubLines(g, declared, end, n, code) ==
  (IF declared THEN <<Weak(g)>> ELSE <<>>) \o (IF end = None THEN <<>> ELSE <<Size(g, end)>>)
  \o <<Label(g)>> \o [k \in DOMAIN code |-> Inst(n + k - 1, code[k])]
  \o (IF end = g \o "_end" THEN <<Label(end), Inst(n + Len(code), None)>> ELSE <<>>)

Codes(f, g, next) ==
  {<<Inst(0, None)>>, <<Inst(0, None), Inst(1, g)>>, <<Inst(0, next)>>}

SomeSections(f, g, next) ==
  LET end == f \o "_end"
      subs(n) == {<<>>} \cup {SubLines(g, d, e, n, c) : d \in BOOLEAN,
                                 e \in {None, end, g \o "_end"}, c \in {<<next>>, <<None, None>>}}
  IN  UNION {{<<Header(f), Align(8), Size(f, end), Label(f)>> \o code \o sub \o <<Label(end)>> :
                sub \in subs(Len(code))} : code \in Codes(f, g, next)}

\* What nvdisasm prints of other sections, which end no function's.
OtherSection == <<Align(4), Label("f1"), Blank, Size("f1", "f1_end"), Label("f1_end")>>

Listings ==
  {<<a>> : a \in SomeSections("f1", "g1", "f2")}
  \cup IF Sections = 1 THEN {}
       ELSE {<<a, b>> : a \in SomeSections("f1", "g1", "f2"),
                        b \in SomeSections("f2", "g2", "f1") \cup SomeSections("f1", "g3", "f2")}

Cubin(crc, secs) == [cubin |-> TRUE, readable |-> TRUE, cubinCrc |-> crc, sass |-> secs]

\* Each listing alone, and a directory with files that are no cubins, cannot be
\* read, or have one crc.
MCDirectories ==
  {<<Cubin(1, l)>> : l \in Listings}
  \cup {<<[Cubin(3, <<a>>) EXCEPT !.cubin = FALSE], [Cubin(2, <<a>>) EXCEPT !.readable = FALSE],
           Cubin(2, <<OtherSection, a>>), Cubin(1, <<a, OtherSection>>), Cubin(1, <<b>>)>> :
           a \in SomeSections("f1", "g1", "f2"),
           b \in {<<Header("f1"), Align(8), Size("f1", "l"), Inst(0, None), Label("l")>>}}

-----------------------------------------------------------------------------
TakeMessages ==
  /\ case.part = "none"
  /\ \E type \in DOMAIN Schema : \E a, b \in Samples(type, Depth) :
       case' = [part |-> "messages", type |-> type, a |-> a, b |-> b]

-----------------------------------------------------------------------------
Init == /\ SignalInit
        /\ CctInit /\ CubinInit
        /\ case \in [part : {"none", "tree", "listing", "signals"}]

\* A part that has no state is looked at with the others as they began.
TakeCase == TakeMessages /\ UNCHANGED <<cctVars, cubinVars, sigVars>>

Reply == /\ case.part = "tree"
         /\ CctNext
         /\ UNCHANGED <<case, cubinVars, sigVars>>

ReadListings == /\ case.part = "listing"
                /\ CubinNext
                /\ UNCHANGED <<case, cctVars, sigVars>>

Profile == /\ case.part = "signals"
           /\ SignalNext
           /\ UNCHANGED <<case, cctVars, cubinVars>>

Next == TakeCase \/ Reply \/ ReadListings \/ Profile

Spec == Init /\ [][Next]_vars

-----------------------------------------------------------------------------
\* What the profiler or the tool writes is what the client or the tool reads.
MessagesSurvive ==
  case.part = "messages" => SurvivesTheWire(case.type, case.a, case.b)
=============================================================================
