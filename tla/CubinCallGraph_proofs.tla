----------------------- MODULE CubinCallGraph_proofs -----------------------
(***************************************************************************)
(* Theorems about CubinCallGraph: what has been read of a listing, and     *)
(* that the graphs are what the listings say.                              *)
(***************************************************************************)
EXTENDS CubinCallGraph, Integers, SequenceTheorems, NaturalsInduction,
  WellFoundedInduction, TLAPS

CubinSpec == CubinInit /\ [][CubinNext]_cubinVars

-----------------------------------------------------------------------------
(* What n lines of a section S have told.                                  *)

NamesAt(S, K) == {S[k].name : k \in K}

Upto(S, kind, n) == {k \in LinesOf(S, kind) : k <= n}

\* Labels that an instruction or the section's end came after, and the others.
Placed(S, n) ==
  {k \in Upto(S, "label", n) : Len(S) < n \/ \E j \in Upto(S, "inst", n) : k < j}
Unplaced(S, n) == Upto(S, "label", n) \ Placed(S, n)

Known(S, n) ==
  IF HasCode(S)
  THEN {S[k].name : k \in Upto(S, "header", n) \cup Upto(S, "weak", n)
                          \cup {j \in WeakSizes(S) : j <= n}}
  ELSE {}

Fields == {"weak", "parentFunctionName", "functionEndLabel", "instructions", "labelMap"}

\* The labels with their addresses, and the instructions with what they call.
Labelled(S, n, labelMap) ==
  /\ DOMAIN labelMap = NamesAt(S, Placed(S, n))
  /\ \A k \in Placed(S, n) : labelMap[S[k].name] = AddressAt(S, k)

Listed(S, n, instructions) ==
  /\ \A k \in Upto(S, "inst", n) :
       /\ S[k].address \in DOMAIN instructions
       /\ instructions[S[k].address] = S[k].callee
  /\ \A a \in DOMAIN instructions :
       \/ \E k \in Upto(S, "inst", n) : S[k].address = a
       \/ Len(S) < n /\ instructions[a] = None

\* The record of the section's function.
MainRead(S, n, F) ==
  /\ DOMAIN F = Fields /\ F.weak = FALSE
  /\ F.functionEndLabel = IF MainSize(S) <= n THEN S[MainSize(S)].end ELSE None
  /\ Labelled(S, n, F.labelMap) /\ Listed(S, n, F.instructions)

\* The record of its weak function g.
WeakRead(S, n, F, g) ==
  /\ DOMAIN F = Fields /\ F.weak = TRUE
  /\ F.parentFunctionName = Name(S) /\ F.instructions = NoEntries
  /\ \A k \in WeakSizes(S) :
       S[k].name = g => F.functionEndLabel = IF k <= n THEN S[k].end ELSE None
  /\ (\A k \in WeakSizes(S) : S[k].name # g) => F.functionEndLabel = None

SectionRead(S, n, fm) ==
  HasCode(S) /\ 1 <= n =>
    /\ Name(S) \in DOMAIN fm /\ MainRead(S, n, fm[Name(S)])
    /\ \A g \in Known(S, n) \ {Name(S)} : g \in DOMAIN fm /\ WeakRead(S, n, fm[g], g)

\* The labels that wait, whether the function's size is to come, its end label,
\* the last address and the last alignment.
Tracked(S, n, labels, sizeToCome, endLabel, last, align) ==
  /\ labels = NamesAt(S, Unplaced(S, n))
  /\ sizeToCome = IF n < MainSize(S) THEN TRUE ELSE FALSE
  /\ MainSize(S) <= n => endLabel = S[MainSize(S)].end
  /\ \A k \in Upto(S, "inst", n) :
       (\A j \in Upto(S, "inst", n) : j <= k) => last = S[k].address
  /\ \A k \in Upto(S, "align", n) :
       (\A j \in Upto(S, "align", n) : j <= k) => align = S[k].size

\* The variables of the loop within a section of code, and outside.
Inside(S, n) ==
  /\ inTextSection = TRUE /\ currentFunctionName = Name(S)
  /\ Tracked(S, n, currentLabels, isMainFunctionSize, functionEndLabel, lastAddress, alignSize)

Outside == inTextSection = FALSE /\ currentLabels = {} /\ isMainFunctionSize = TRUE

-----------------------------------------------------------------------------
(* The inductive invariant.                                                *)

\* How many lines of each section have been read.
LinesRead ==
  [i \in DOMAIN cubinSASS |->
     IF i < section THEN Len(cubinSASS[i]) + 1 ELSE IF i = section THEN line ELSE 0]

\* The map when n[i] lines of each section i have been read.
Mapped(secs, n, fm) ==
  /\ \A i \in DOMAIN secs : SectionRead(secs[i], n[i], fm)
  /\ DOMAIN fm = UNION {Known(secs[i], n[i]) : i \in DOMAIN secs}
  /\ \A i, j \in TextSections(secs) :
       i # j /\ 1 <= n[i] /\ 1 <= n[j] => Name(secs[i]) # Name(secs[j])

AtLine ==
  /\ section \in 1 .. Len(cubinSASS) + 1 /\ line \in Nat
  /\ section <= Len(cubinSASS) => line <= Len(Text)
  /\ section > Len(cubinSASS) => line = 0

InSection == section <= Len(cubinSASS) /\ HasCode(Text) /\ 1 <= line

ScanInv ==
  /\ InSection => Inside(Text, line)
  /\ ~InSection => Outside

MapInv == Mapped(cubinSASS, LinesRead, functionMap)

OpenFile == cnt < Len(cubinFilePath) /\ File.cubin /\ cubinSASS = GetCubinSASS(File)

ReadInv ==
  place = "FillCG" => OpenFile /\ IsListing(cubinSASS) /\ AtLine /\ MapInv /\ ScanInv

GraphInv ==
  \A c \in DOMAIN graphs : \E f \in Range(cubinFilePath) :
    /\ f.cubin /\ c = GetCubinCrc(f) /\ ~CannotEnd(GetCubinSASS(f))
    /\ graphs[c] = GraphOf(GetCubinSASS(f))

FilesInv ==
  /\ cubinFilePath \in Seq(Range(cubinFilePath)) /\ \A f \in Range(cubinFilePath) : IsFile(f)
  /\ cnt \in 0 .. Len(cubinFilePath)
  /\ graphFileSet \subseteq DOMAIN graphs
  /\ \A i \in 1 .. cnt : cubinFilePath[i].cubin /\ cubinFilePath[i] \notin noSass =>
                           GetCubinCrc(cubinFilePath[i]) \in DOMAIN graphs
  /\ place = "over" => cnt = Len(cubinFilePath)
  /\ place = "crash" => OpenFile /\ CannotEnd(cubinSASS)
  /\ place = "idle" => graphs = NoEntries
  /\ place \in {"idle", "main", "FillCG", "over", "crash"}

CubinInv == FilesInv /\ GraphInv /\ ReadInv

-----------------------------------------------------------------------------
(* Numbers and lines.                                                      *)

\* Every set of numbers has a least one.
LEMMA LeastNat ==
  ASSUME NEW P, P \subseteq Nat, P # {}
  PROVE  \E n \in P : \A m \in P : n <= m
PROOF
<1>. DEFINE R == {ss \in Nat \X Nat : ss[1] < ss[2]}
<1>1. IsWellFoundedOn(R, Nat)
  BY NatLessThanWellFounded, Zenon DEF OpToRel
<1>. HIDE DEF R
<1>2. PICK n \in P : \A m \in P : ~ (<<m, n>> \in R)
  BY <1>1, WFMin, Zenon
<1>3. \A m \in P : ~(m < n)
  BY <1>2 DEF R
<1>. QED  BY <1>3

\* First is the least of a set of numbers.
LEMMA FirstIsLeast ==
  ASSUME NEW K, K \subseteq Nat, K # {}
  PROVE  First(K) \in K /\ \A j \in K : First(K) <= j
PROOF
<1>1. \E k \in K : \A j \in K : k <= j
  BY LeastNat, Zenon
<1>. QED  BY <1>1, Zenon DEF First

\* Final is the greatest of a set of numbers up to n.
LEMMA FinalIsGreatest ==
  ASSUME NEW n \in Nat, NEW K, K \subseteq 1 .. n, K # {}
  PROVE  Final(K) \in K /\ \A j \in K : j <= Final(K)
PROOF
<1>. DEFINE Rest == {n - k : k \in K}
<1>0. \A k \in K : k \in Int /\ 1 <= k /\ k <= n /\ n - k \in Nat
  OBVIOUS
<1>1. Rest \subseteq Nat /\ Rest # {}
  BY <1>0
<1>2. PICK r \in Rest : \A m \in Rest : r <= m
  <2>. HIDE DEF Rest
  <2>. QED  BY <1>1, LeastNat, Zenon
<1>3. PICK k \in K : r = n - k
  BY <1>2
<1>4. \A j \in K : j <= k
  <2>. SUFFICES ASSUME NEW j \in K PROVE j <= k
    OBVIOUS
  <2>1. n - k <= n - j
    BY <1>2, <1>3
  <2>. QED  BY <2>1, <1>0
<1>. QED  BY <1>3, <1>4, Zenon DEF Final

\* A section is a sequence of lines.
LEMMA SectionLength ==
  ASSUME NEW S, S \in Seq(Lines)
  PROVE  Len(S) \in Nat /\ DOMAIN S = 1 .. Len(S)
PROOF
<1>. DEFINE L == Lines
<1>1. S \in Seq(L)
  OBVIOUS
<1>. HIDE DEF L
<1>. QED  BY <1>1, LenProperties, Zenon

\* Reading a line adds it to the lines of its kind.
LEMMA UptoStep ==
  ASSUME NEW S, S \in Seq(Lines), NEW n \in Nat, NEW kind
  PROVE  /\ n < Len(S) /\ S[n + 1].kind = kind =>
              Upto(S, kind, n + 1) = Upto(S, kind, n) \cup {n + 1}
         /\ Len(S) <= n \/ S[n + 1].kind # kind => Upto(S, kind, n + 1) = Upto(S, kind, n)
         /\ Upto(S, kind, n) \subseteq 1 .. n /\ Upto(S, kind, n) \subseteq DOMAIN S
PROOF
<1>1. PICK N \in Nat : N = Len(S) /\ DOMAIN S = 1 .. N
  BY SectionLength
<1>2. ASSUME n < N, S[n + 1].kind = kind
      PROVE  Upto(S, kind, n + 1) = Upto(S, kind, n) \cup {n + 1}
  BY <1>1, <1>2 DEF Upto, LinesOf
<1>3. ASSUME N <= n \/ S[n + 1].kind # kind
      PROVE  Upto(S, kind, n + 1) = Upto(S, kind, n)
  BY <1>1, <1>3 DEF Upto, LinesOf
<1>4. Upto(S, kind, n) \subseteq 1 .. n /\ Upto(S, kind, n) \subseteq DOMAIN S
  BY <1>1 DEF Upto, LinesOf
<1>. QED  BY <1>1, <1>2, <1>3, <1>4

\* The header of a section of code is its first line, its end label the last one,
\* and its size is between them, before the labels.
LEMMA TextLayout ==
  ASSUME NEW S, S \in Seq(Lines), IsTextSection(S)
  PROVE  /\ HasCode(S)
         /\ \A k \in DOMAIN S : S[k].kind = "header" <=> k = 1
         /\ MainSize(S) \in DOMAIN S /\ S[MainSize(S)].kind = "size"
         /\ \A k \in DOMAIN S : S[k].kind = "size" => MainSize(S) <= k
         /\ 1 < MainSize(S) /\ MainSize(S) < Len(S)
         /\ Len(S) \in DOMAIN S /\ S[Len(S)].kind = "label"
         /\ S[Len(S)].name = S[MainSize(S)].end
         /\ \A k \in DOMAIN S : S[k].kind = "label" => MainSize(S) < k
PROOF
<1>1. PICK N \in Nat : N = Len(S) /\ DOMAIN S = 1 .. N
  BY SectionLength
<1>2. LinesOf(S, "header") = {1}
  BY DEF IsTextSection
<1>3. \A k \in DOMAIN S : S[k].kind = "header" <=> k = 1
  BY <1>2 DEF LinesOf
<1>4. 1 \in DOMAIN S /\ S[1].kind = "header"
  BY <1>2 DEF LinesOf
<1>5. LinesOf(S, "size") # {} /\ LinesOf(S, "size") \subseteq Nat
  BY <1>1 DEF IsTextSection, LinesOf
<1>6. MainSize(S) \in LinesOf(S, "size") /\ \A k \in LinesOf(S, "size") : MainSize(S) <= k
  BY <1>5, FirstIsLeast, Zenon DEF MainSize
<1>7. MainSize(S) \in DOMAIN S /\ S[MainSize(S)].kind = "size"
  BY <1>6 DEF LinesOf
<1>8. N \in DOMAIN S
  BY <1>1, <1>4
<1>9. S[N] = Label(S[MainSize(S)].end)
  BY <1>1 DEF IsTextSection
<1>10. S[N].kind = "label" /\ S[N].name = S[MainSize(S)].end
  BY <1>9 DEF Label
<1>11. \A k \in DOMAIN S : S[k].kind = "label" => MainSize(S) < k
  BY DEF IsTextSection, LinesOf
<1>12. 1 < MainSize(S) /\ MainSize(S) < N
  BY <1>1, <1>3, <1>7, <1>8, <1>10, <1>11
<1>13. HasCode(S)
  BY <1>2 DEF HasCode
<1>14. \A k \in DOMAIN S : S[k].kind = "size" => MainSize(S) <= k
  BY <1>6 DEF LinesOf
<1>. QED  BY <1>1, <1>3, <1>7, <1>8, <1>10, <1>11, <1>12, <1>13, <1>14

\* What a line does to the labels that are placed: an instruction places all that
\* wait, a label waits, and so does the empty line after the section place all.
LEMMA PlacedStep ==
  ASSUME NEW S, S \in Seq(Lines), NEW n \in Nat
  PROVE  /\ n < Len(S) /\ S[n + 1].kind = "inst" =>
              Placed(S, n + 1) = Placed(S, n) \cup Unplaced(S, n) /\ Unplaced(S, n + 1) = {}
         /\ n < Len(S) /\ S[n + 1].kind = "label" =>
              Placed(S, n + 1) = Placed(S, n) /\ Unplaced(S, n + 1) = Unplaced(S, n) \cup {n + 1}
         /\ n < Len(S) /\ S[n + 1].kind \notin {"inst", "label"} =>
              Placed(S, n + 1) = Placed(S, n) /\ Unplaced(S, n + 1) = Unplaced(S, n)
         /\ n = Len(S) => Placed(S, n + 1) = Placed(S, n) \cup Unplaced(S, n)
PROOF
<1>1. PICK N \in Nat : N = Len(S) /\ DOMAIN S = 1 .. N
  BY SectionLength
<1>2. /\ Upto(S, "label", n) \subseteq 1 .. n /\ Upto(S, "inst", n) \subseteq 1 .. n
  BY UptoStep
<1>3. CASE n < N /\ S[n + 1].kind = "inst"
  <2>1. Upto(S, "label", n + 1) = Upto(S, "label", n) /\ n + 1 \in Upto(S, "inst", n + 1)
    <3>1. Upto(S, "label", n + 1) = Upto(S, "label", n)
      BY <1>1, <1>3, UptoStep
    <3>2. n + 1 \in Upto(S, "inst", n + 1)
      BY <1>1, <1>3 DEF Upto, LinesOf
    <3>. QED  BY <3>1, <3>2
  <2>2. Placed(S, n + 1) = Upto(S, "label", n)
    BY <1>2, <2>1 DEF Placed
  <2>. QED  BY <1>1, <1>3, <2>1, <2>2 DEF Unplaced, Placed
<1>4. CASE n < N /\ S[n + 1].kind = "label"
  <2>1. /\ Upto(S, "label", n + 1) = Upto(S, "label", n) \cup {n + 1}
        /\ Upto(S, "inst", n + 1) = Upto(S, "inst", n)
    BY <1>1, <1>4, UptoStep
  <2>2. Placed(S, n + 1) = Placed(S, n)
    BY <1>1, <1>2, <1>4, <2>1 DEF Placed
  <2>3. n + 1 \notin Placed(S, n)
    BY <1>2 DEF Placed
  <2>. QED  BY <1>1, <1>4, <2>1, <2>2, <2>3 DEF Unplaced
<1>5. CASE n < N /\ S[n + 1].kind \notin {"inst", "label"}
  <2>1. /\ Upto(S, "label", n + 1) = Upto(S, "label", n)
        /\ Upto(S, "inst", n + 1) = Upto(S, "inst", n)
    BY <1>1, <1>5, UptoStep
  <2>2. Placed(S, n + 1) = Placed(S, n)
    BY <1>1, <1>5, <2>1 DEF Placed
  <2>. QED  BY <1>1, <1>5, <2>1, <2>2 DEF Unplaced
<1>6. CASE n = N
  <2>1. Upto(S, "label", n + 1) = Upto(S, "label", n)
    BY <1>1, <1>6, UptoStep
  <2>2. Placed(S, n + 1) = Upto(S, "label", n)
    BY <1>1, <1>6, <2>1 DEF Placed
  <2>. QED  BY <1>1, <1>6, <2>1, <2>2 DEF Unplaced, Placed
<1>. QED  BY <1>1, <1>3, <1>4, <1>5, <1>6

\* A label that waits for its place gets the next instruction's ...
LEMMA NextAddress ==
  ASSUME NEW S, S \in Seq(Lines), NEW n \in Nat, n < Len(S), S[n + 1].kind = "inst",
         NEW k \in Unplaced(S, n)
  PROVE  AddressAt(S, k) = S[n + 1].address
PROOF
<1>1. PICK N \in Nat : N = Len(S) /\ DOMAIN S = 1 .. N
  BY SectionLength
<1>. DEFINE after == {j \in LinesOf(S, "inst") : k < j}
<1>2. k \in 1 .. n /\ \A j \in Upto(S, "inst", n) : ~(k < j)
  BY UptoStep DEF Unplaced, Placed
<1>3. n + 1 \in after
  BY <1>1, <1>2 DEF LinesOf
<1>4. \A j \in after : n + 1 <= j
  BY <1>1, <1>2 DEF Upto, LinesOf
<1>5. after \subseteq Nat
  BY <1>1 DEF LinesOf
<1>6. First(after) \in after /\ First(after) <= n + 1
  <2>. HIDE DEF after
  <2>. QED  BY <1>3, <1>5, FirstIsLeast
<1>7. First(after) = n + 1
  <2>1. First(after) \in Nat /\ n + 1 <= First(after)
    BY <1>4, <1>5, <1>6
  <2>. QED  BY <2>1, <1>6
<1>8. after # {}
  BY <1>3
<1>. QED  BY <1>7, <1>8, Zenon DEF AddressAt

\* ... and at the section's end what comes after the last one.
LEMMA EndAddress ==
  ASSUME NEW S, S \in Seq(Lines), NEW k \in Unplaced(S, Len(S))
  PROVE  AddressAt(S, k) = S[Final(LinesOf(S, "inst"))].address
                             + S[Final(LinesOf(S, "align"))].size
PROOF
<1>1. PICK N \in Nat : N = Len(S) /\ DOMAIN S = 1 .. N
  BY SectionLength
<1>2. Upto(S, "inst", Len(S)) = LinesOf(S, "inst")
  BY <1>1 DEF Upto, LinesOf
<1>3. {j \in LinesOf(S, "inst") : k < j} = {}
  BY <1>2 DEF Unplaced, Placed
<1>. QED  BY <1>3, Zenon DEF AddressAt

\* The names that a line makes known.
LEMMA KnownStep ==
  ASSUME NEW S, S \in Seq(Lines), IsTextSection(S), NEW n \in Nat
  PROVE  /\ n < Len(S) /\ S[n + 1].kind = "weak" => Known(S, n + 1) = Known(S, n) \cup {S[n + 1].name}
         /\ n + 1 \in WeakSizes(S) => Known(S, n + 1) = Known(S, n) \cup {S[n + 1].name}
         /\ /\ 1 <= n /\ n + 1 \notin WeakSizes(S)
            /\ Len(S) <= n \/ S[n + 1].kind # "weak"
            => Known(S, n + 1) = Known(S, n)
         /\ Known(S, 0) = {} /\ Known(S, 1) = {Name(S)}
         /\ 1 <= n => Name(S) \in Known(S, n)
         /\ Known(S, n) \subseteq FunctionsOf(S)
         /\ Len(S) <= n => Known(S, n) = FunctionsOf(S)
PROOF
<1>1. PICK N \in Nat : N = Len(S) /\ DOMAIN S = 1 .. N
  BY SectionLength
<1>2. HasCode(S) /\ 1 <= N /\ \A k \in DOMAIN S : S[k].kind = "header" <=> k = 1
  BY <1>1, TextLayout
<1>. DEFINE W(m) == {j \in WeakSizes(S) : j <= m}
            Heads(m) == IF 1 <= m THEN {1} ELSE {}
<1>3. \A m \in Nat : Upto(S, "header", m) = Heads(m)
  BY <1>1, <1>2 DEF Upto, LinesOf
<1>4. WeakSizes(S) \subseteq 1 .. N /\ \A k \in WeakSizes(S) : S[k].kind = "size"
  BY <1>1 DEF WeakSizes, LinesOf
<1>5. \A m \in Nat : Known(S, m) = {S[k].name : k \in Heads(m) \cup Upto(S, "weak", m) \cup W(m)}
  BY <1>2, <1>3, Zenon DEF Known
<1>6. 1 \notin WeakSizes(S)
  BY <1>1, <1>2, <1>4
<1>. HIDE DEF Known
<1>7. ASSUME n < N, S[n + 1].kind = "weak"
      PROVE  Known(S, n + 1) = Known(S, n) \cup {S[n + 1].name}
  <2>1. Upto(S, "weak", n + 1) = Upto(S, "weak", n) \cup {n + 1}
    BY <1>1, <1>7, UptoStep
  <2>2. W(n + 1) = W(n)
    BY <1>4, <1>7
  <2>3. Heads(n + 1) = Heads(n)
    BY <1>1, <1>2, <1>7
  <2>4. n + 1 \in Nat
    OBVIOUS
  <2>. QED  BY <1>5, <2>1, <2>2, <2>3, <2>4
<1>8. ASSUME n + 1 \in WeakSizes(S)
      PROVE  Known(S, n + 1) = Known(S, n) \cup {S[n + 1].name}
  <2>1. S[n + 1].kind = "size" /\ 1 <= n
    BY <1>4, <1>6, <1>8
  <2>2. Upto(S, "weak", n + 1) = Upto(S, "weak", n)
    BY <2>1, UptoStep
  <2>3. W(n + 1) = W(n) \cup {n + 1}
    BY <1>4, <1>8
  <2>4. Heads(n + 1) = Heads(n) /\ n + 1 \in Nat
    BY <2>1
  <2>. QED  BY <1>5, <2>2, <2>3, <2>4
<1>9. ASSUME 1 <= n, n + 1 \notin WeakSizes(S), N <= n \/ S[n + 1].kind # "weak"
      PROVE  Known(S, n + 1) = Known(S, n)
  <2>1. Upto(S, "weak", n + 1) = Upto(S, "weak", n)
    BY <1>1, <1>9, UptoStep
  <2>2. W(n + 1) = W(n)
    BY <1>4, <1>9
  <2>3. Heads(n + 1) = Heads(n) /\ n + 1 \in Nat
    BY <1>9
  <2>. QED  BY <1>5, <2>1, <2>2, <2>3
<1>10. Known(S, 0) = {} /\ Known(S, 1) = {Name(S)}
  <2>1. Upto(S, "weak", 0) = {} /\ W(0) = {} /\ Heads(0) = {}
    BY <1>4, UptoStep
  <2>2. Upto(S, "weak", 1) = {}
    BY <1>2 DEF Upto, LinesOf
  <2>3. W(1) = {} /\ Heads(1) = {1}
    BY <1>4, <1>6
  <2>. QED  BY <1>5, <2>1, <2>2, <2>3 DEF Name
<1>11. ASSUME 1 <= n PROVE Name(S) \in Known(S, n)
  BY <1>5, <1>11 DEF Name
<1>12. Known(S, n) \subseteq FunctionsOf(S)
  BY <1>2, <1>5 DEF FunctionsOf, WeakNames, Upto, Name
<1>13. ASSUME N <= n PROVE Known(S, n) = FunctionsOf(S)
  <2>1. Upto(S, "weak", n) = LinesOf(S, "weak") /\ W(n) = WeakSizes(S) /\ Heads(n) = {1}
    BY <1>1, <1>2, <1>4, <1>13 DEF Upto, LinesOf
  <2>2. Known(S, n) = {S[k].name : k \in {1} \cup LinesOf(S, "weak") \cup WeakSizes(S)}
    BY <1>5, <2>1
  <2>3. FunctionsOf(S) = {Name(S)} \cup {S[k].name : k \in LinesOf(S, "weak") \cup WeakSizes(S)}
    BY <1>2 DEF FunctionsOf, WeakNames
  <2>. QED  BY <2>2, <2>3 DEF Name
<1>. QED  BY <1>1, <1>7, <1>8, <1>9, <1>10, <1>11, <1>12, <1>13

-----------------------------------------------------------------------------
(* What each kind of line does to the functions of its section.            *)

\* The first size is the only one that is not a weak function's.
LEMMA SizeLines ==
  ASSUME NEW S, S \in Seq(Lines), IsTextSection(S), NEW k
  PROVE  /\ k \in WeakSizes(S) <=> k \in DOMAIN S /\ S[k].kind = "size" /\ k # MainSize(S)
         /\ k \in WeakSizes(S) => MainSize(S) < k
PROOF
<1>1. PICK N \in Nat : N = Len(S) /\ DOMAIN S = 1 .. N
  BY SectionLength
<1>2. MainSize(S) \in DOMAIN S /\ \A j \in DOMAIN S : S[j].kind = "size" => MainSize(S) <= j
  BY TextLayout
<1>. QED  BY <1>1, <1>2 DEF WeakSizes, LinesOf

\* The record of the section's function says the same after a line that is no
\* instruction and not its size.
LEMMA MainStays ==
  ASSUME NEW S, S \in Seq(Lines), IsTextSection(S), NEW n \in Nat, n < Len(S),
         S[n + 1].kind # "inst", n + 1 # MainSize(S), NEW F, MainRead(S, n, F)
  PROVE  MainRead(S, n + 1, F)
PROOF
<1>1. PICK N \in Nat : N = Len(S) /\ DOMAIN S = 1 .. N
  BY SectionLength
<1>2. Placed(S, n + 1) = Placed(S, n)
  BY PlacedStep
<1>3. Upto(S, "inst", n + 1) = Upto(S, "inst", n)
  BY UptoStep
<1>4. MainSize(S) <= n + 1 <=> MainSize(S) <= n
  BY <1>1, TextLayout
<1>5. ~(N < n) /\ ~(N < n + 1)
  BY <1>1
<1>. QED  BY <1>1, <1>2, <1>3, <1>4, <1>5 DEF MainRead, Labelled, Listed

\* The record of a weak function says the same after a line that is not its size.
LEMMA WeakStays ==
  ASSUME NEW S, S \in Seq(Lines), IsTextSection(S), NEW n \in Nat, NEW g,
         n + 1 \in WeakSizes(S) => S[n + 1].name # g, NEW F, WeakRead(S, n, F, g)
  PROVE  WeakRead(S, n + 1, F, g)
PROOF
<1>1. PICK N \in Nat : N = Len(S) /\ DOMAIN S = 1 .. N
  BY SectionLength
<1>2. \A k \in WeakSizes(S) : k \in Nat
  BY <1>1, SizeLines
<1>3. \A k \in WeakSizes(S) : S[k].name = g => (k <= n <=> k <= n + 1)
  BY <1>2
<1>. QED  BY <1>3 DEF WeakRead

\* A new record of the section's function, and of a weak one.
LEMMA MainIsNew ==
  ASSUME NEW S, S \in Seq(Lines), IsTextSection(S)
  PROVE  MainRead(S, 1, Function(None))
PROOF
<1>1. PICK N \in Nat : N = Len(S) /\ DOMAIN S = 1 .. N
  BY SectionLength
<1>2. S[1].kind = "header" /\ 1 < MainSize(S) /\ 1 <= N
  BY <1>1, TextLayout
<1>3. Upto(S, "label", 1) = {} /\ Upto(S, "inst", 1) = {}
  BY <1>2 DEF Upto, LinesOf
<1>4. Placed(S, 1) = {}
  BY <1>3 DEF Placed
<1>. DEFINE F == Function(None)
<1>5. /\ DOMAIN F = Fields /\ F.weak = FALSE /\ F.functionEndLabel = None
      /\ F.labelMap = NoEntries /\ F.instructions = NoEntries
  BY DEF Function, Fields
<1>6. DOMAIN NoEntries = {}
  BY DEF NoEntries
<1>7. ~(MainSize(S) <= 1)
  BY <1>1, <1>2, TextLayout
<1>8. DOMAIN F.labelMap = NamesAt(S, Placed(S, 1))
  BY <1>4, <1>5, <1>6 DEF NamesAt
<1>9. F.functionEndLabel = IF MainSize(S) <= 1 THEN S[MainSize(S)].end ELSE None
  BY <1>5, <1>7
<1>10. \A a \in DOMAIN F.instructions : FALSE
  BY <1>5, <1>6
<1>11. MainRead(S, 1, F)
  <2>. HIDE DEF F
  <2>. QED  BY <1>3, <1>4, <1>5, <1>8, <1>9, <1>10 DEF MainRead, Labelled, Listed
<1>. QED  BY <1>11

LEMMA WeakIsNew ==
  ASSUME NEW S, S \in Seq(Lines), IsTextSection(S), NEW n \in Nat, 1 <= n,
         NEW g, g \notin Known(S, n)
  PROVE  WeakRead(S, n, Function(Name(S)), g)
PROOF
<1>. DEFINE F == Function(Name(S))
<1>1. HasCode(S)
  BY TextLayout
<1>2. Name(S) # None
  BY <1>1 DEF IsTextSection, FunctionsOf
<1>3. /\ DOMAIN F = Fields /\ F.functionEndLabel = None
      /\ F.parentFunctionName = Name(S) /\ F.instructions = NoEntries
  BY DEF Function, Fields
<1>4. F.weak = TRUE
  BY <1>2 DEF Function
<1>5. \A k \in WeakSizes(S) : S[k].name = g => ~(k <= n)
  BY <1>1 DEF Known
<1>6. \A k \in WeakSizes(S) :
        S[k].name = g => F.functionEndLabel = IF k <= n THEN S[k].end ELSE None
  BY <1>3, <1>5
<1>7. WeakRead(S, n, F, g)
  <2>. HIDE DEF F
  <2>. QED  BY <1>3, <1>4, <1>6, Zenon DEF WeakRead
<1>. QED  BY <1>7

\* Sizes.
LEMMA MainIsSized ==
  ASSUME NEW S, S \in Seq(Lines), IsTextSection(S), NEW n \in Nat, n + 1 = MainSize(S),
         NEW F, MainRead(S, n, F)
  PROVE  MainRead(S, n + 1, [F EXCEPT !.functionEndLabel = S[n + 1].end])
PROOF
<1>1. PICK N \in Nat : N = Len(S) /\ DOMAIN S = 1 .. N
  BY SectionLength
<1>2. n < N /\ S[n + 1].kind = "size"
  BY <1>1, TextLayout
<1>3. Placed(S, n + 1) = Placed(S, n)
  BY <1>1, <1>2, PlacedStep
<1>4. Upto(S, "inst", n + 1) = Upto(S, "inst", n)
  BY <1>2, UptoStep
<1>. DEFINE E == [F EXCEPT !.functionEndLabel = S[n + 1].end]
<1>5. DOMAIN F = Fields
  BY DEF MainRead
<1>6. /\ DOMAIN E = Fields /\ E.weak = F.weak /\ E.labelMap = F.labelMap
      /\ E.instructions = F.instructions /\ E.functionEndLabel = S[n + 1].end
  BY <1>5 DEF Fields
<1>7. ~(N < n) /\ ~(N < n + 1) /\ MainSize(S) <= n + 1
  BY <1>2
<1>. HIDE DEF E
<1>. QED  BY <1>1, <1>3, <1>4, <1>6, <1>7 DEF MainRead, Labelled, Listed

LEMMA WeakIsSized ==
  ASSUME NEW S, S \in Seq(Lines), IsTextSection(S), NEW n \in Nat, n + 1 \in WeakSizes(S),
         NEW F, WeakRead(S, n, F, S[n + 1].name)
  PROVE  WeakRead(S, n + 1, [F EXCEPT !.functionEndLabel = S[n + 1].end], S[n + 1].name)
PROOF
<1>. DEFINE E == [F EXCEPT !.functionEndLabel = S[n + 1].end]
<1>1. DOMAIN F = Fields
  BY DEF WeakRead
<1>2. /\ DOMAIN E = Fields /\ E.weak = F.weak /\ E.parentFunctionName = F.parentFunctionName
      /\ E.instructions = F.instructions /\ E.functionEndLabel = S[n + 1].end
  BY <1>1 DEF Fields
<1>3. \A k \in WeakSizes(S) : S[k].name = S[n + 1].name => k = n + 1
  BY DEF IsTextSection
<1>. HIDE DEF E
<1>. QED  BY <1>2, <1>3 DEF WeakRead

\* The labels that an address is given to: those that were placed keep theirs.
LEMMA LabelsArePlaced ==
  ASSUME NEW S, S \in Seq(Lines), IsTextSection(S), NEW n \in Nat, NEW m \in Nat, NEW a,
         Placed(S, m) = Placed(S, n) \cup Unplaced(S, n),
         \A k \in Unplaced(S, n) : AddressAt(S, k) = a,
         NEW map, Labelled(S, n, map)
  PROVE  Labelled(S, m, Insert(map, NamesAt(S, Unplaced(S, n)), a))
PROOF
<1>. DEFINE K == NamesAt(S, Unplaced(S, n))
            M == Insert(map, K, a)
<1>1. DOMAIN map = NamesAt(S, Placed(S, n)) /\ \A k \in Placed(S, n) : map[S[k].name] = AddressAt(S, k)
  BY DEF Labelled
<1>2. /\ DOMAIN M = K \cup DOMAIN map
      /\ \A x \in DOMAIN map : M[x] = map[x]
      /\ \A x \in K \ DOMAIN map : M[x] = a
  <2>. HIDE DEF K
  <2>. QED  BY DEF Insert
<1>. HIDE DEF M
<1>3. DOMAIN M = NamesAt(S, Placed(S, m))
  BY <1>1, <1>2 DEF NamesAt
<1>4. \A j, k \in Placed(S, n) \cup Unplaced(S, n) : S[j].name = S[k].name => j = k
  BY DEF IsTextSection, Placed, Unplaced, Upto
<1>5. \A k \in Placed(S, n) : M[S[k].name] = AddressAt(S, k)
  BY <1>1, <1>2 DEF NamesAt
<1>6. \A k \in Unplaced(S, n) : S[k].name \notin DOMAIN map
  BY <1>1, <1>4 DEF Unplaced, NamesAt
<1>7. \A k \in Unplaced(S, n) : M[S[k].name] = AddressAt(S, k)
  BY <1>2, <1>6 DEF NamesAt
<1>8. \A k \in Placed(S, m) : M[S[k].name] = AddressAt(S, k)
  BY <1>5, <1>7
<1>9. Labelled(S, m, M)
  BY <1>3, <1>8 DEF Labelled
<1>. QED  BY <1>9 DEF M

\* An instruction of the section.
LEMMA MainRuns ==
  ASSUME NEW S, S \in Seq(Lines), IsTextSection(S), NEW n \in Nat, n < Len(S),
         S[n + 1].kind = "inst", NEW F, MainRead(S, n, F)
  PROVE  MainRead(S, n + 1,
           [F EXCEPT !.instructions = Insert(@, {S[n + 1].address}, S[n + 1].callee),
                     !.labelMap = Insert(@, NamesAt(S, Unplaced(S, n)), S[n + 1].address)])
PROOF
<1>1. PICK N \in Nat : N = Len(S) /\ DOMAIN S = 1 .. N
  BY SectionLength
<1>. DEFINE a == S[n + 1].address
            I == Insert(F.instructions, {a}, S[n + 1].callee)
            M == Insert(F.labelMap, NamesAt(S, Unplaced(S, n)), a)
            E == [F EXCEPT !.instructions = I, !.labelMap = M]
<1>2. DOMAIN F = Fields
  BY DEF MainRead
<1>3. /\ DOMAIN E = Fields /\ E.weak = F.weak /\ E.functionEndLabel = F.functionEndLabel
      /\ E.instructions = I /\ E.labelMap = M
  <2>. HIDE DEF I, M
  <2>. QED  BY <1>2 DEF Fields
<1>4. Labelled(S, n + 1, M)
  <2>1. Placed(S, n + 1) = Placed(S, n) \cup Unplaced(S, n)
    BY PlacedStep
  <2>2. \A k \in Unplaced(S, n) : AddressAt(S, k) = a
    BY NextAddress
  <2>3. n + 1 \in Nat /\ Labelled(S, n, F.labelMap)
    BY DEF MainRead
  <2>. HIDE DEF a
  <2>. QED  BY <2>1, <2>2, <2>3, LabelsArePlaced
<1>5. Upto(S, "inst", n + 1) = Upto(S, "inst", n) \cup {n + 1}
  BY UptoStep
<1>6. /\ \A k \in Upto(S, "inst", n) :
           S[k].address \in DOMAIN F.instructions /\ F.instructions[S[k].address] = S[k].callee
      /\ \A b \in DOMAIN F.instructions : \E k \in Upto(S, "inst", n) : S[k].address = b
  BY <1>1 DEF MainRead, Listed
<1>7. \A k \in Upto(S, "inst", n) : S[k].address # a
  <2>1. n + 1 \in LinesOf(S, "inst")
    BY <1>1 DEF LinesOf
  <2>2. \A k \in Upto(S, "inst", n) : k \in LinesOf(S, "inst") /\ k # n + 1
    BY <1>1 DEF Upto
  <2>. QED  BY <2>1, <2>2 DEF IsTextSection
<1>8. /\ DOMAIN I = {a} \cup DOMAIN F.instructions
      /\ \A x \in DOMAIN F.instructions : I[x] = F.instructions[x]
      /\ \A x \in {a} \ DOMAIN F.instructions : I[x] = S[n + 1].callee
  <2>. HIDE DEF a
  <2>. QED  BY DEF Insert
<1>9. a \notin DOMAIN F.instructions
  BY <1>6, <1>7
<1>10. \A k \in Upto(S, "inst", n + 1) : S[k].address \in DOMAIN I /\ I[S[k].address] = S[k].callee
  <2>. HIDE DEF I
  <2>. QED  BY <1>5, <1>6, <1>8, <1>9
<1>11. \A b \in DOMAIN I : \E k \in Upto(S, "inst", n + 1) : S[k].address = b
  <2>. HIDE DEF I
  <2>. QED  BY <1>5, <1>6, <1>8
<1>12. F.weak = FALSE /\ F.functionEndLabel = IF MainSize(S) <= n THEN S[MainSize(S)].end ELSE None
  BY DEF MainRead
<1>13. MainSize(S) <= n + 1 <=> MainSize(S) <= n
  <2>1. MainSize(S) # n + 1 /\ MainSize(S) \in Nat
    BY <1>1, TextLayout
  <2>. QED  BY <2>1
<1>. HIDE DEF I, M, E
<1>14. MainRead(S, n + 1, E)
  BY <1>3, <1>4, <1>10, <1>11, <1>12, <1>13 DEF MainRead, Listed
<1>. QED  BY <1>14 DEF E, I, M

\* The section's end.
LEMMA MainEnds ==
  ASSUME NEW S, S \in Seq(Lines), IsTextSection(S), NEW n \in Nat, n = Len(S),
         NEW a, a = S[Final(LinesOf(S, "inst"))].address + S[Final(LinesOf(S, "align"))].size,
         NEW F, MainRead(S, n, F)
  PROVE  MainRead(S, n + 1,
           [F EXCEPT !.instructions = Insert(@, {a}, None),
                     !.labelMap = Insert(@, NamesAt(S, Unplaced(S, n)), a)])
PROOF
<1>1. PICK N \in Nat : N = Len(S) /\ DOMAIN S = 1 .. N
  BY SectionLength
<1>. DEFINE I == Insert(F.instructions, {a}, None)
            M == Insert(F.labelMap, NamesAt(S, Unplaced(S, n)), a)
            E == [F EXCEPT !.instructions = I, !.labelMap = M]
<1>2. DOMAIN F = Fields
  BY DEF MainRead
<1>3. /\ DOMAIN E = Fields /\ E.weak = F.weak /\ E.functionEndLabel = F.functionEndLabel
      /\ E.instructions = I /\ E.labelMap = M
  <2>. HIDE DEF I, M
  <2>. QED  BY <1>2 DEF Fields
<1>4. Labelled(S, n + 1, M)
  <2>1. Placed(S, n + 1) = Placed(S, n) \cup Unplaced(S, n)
    BY PlacedStep
  <2>2. \A k \in Unplaced(S, n) : AddressAt(S, k) = a
    BY EndAddress
  <2>3. n + 1 \in Nat /\ Labelled(S, n, F.labelMap)
    BY DEF MainRead
  <2>. QED  BY <2>1, <2>2, <2>3, LabelsArePlaced
<1>5. Upto(S, "inst", n + 1) = Upto(S, "inst", n)
  BY UptoStep
<1>6. /\ \A k \in Upto(S, "inst", n) :
           S[k].address \in DOMAIN F.instructions /\ F.instructions[S[k].address] = S[k].callee
      /\ \A b \in DOMAIN F.instructions : \E k \in Upto(S, "inst", n) : S[k].address = b
  BY <1>1 DEF MainRead, Listed
<1>8. /\ DOMAIN I = {a} \cup DOMAIN F.instructions
      /\ \A x \in DOMAIN F.instructions : I[x] = F.instructions[x]
      /\ \A x \in {a} \ DOMAIN F.instructions : I[x] = None
  BY DEF Insert
<1>10. \A k \in Upto(S, "inst", n + 1) : S[k].address \in DOMAIN I /\ I[S[k].address] = S[k].callee
  <2>. HIDE DEF I
  <2>. QED  BY <1>5, <1>6, <1>8
<1>11. \A b \in DOMAIN I : (\E k \in Upto(S, "inst", n + 1) : S[k].address = b) \/ I[b] = None
  <2>. HIDE DEF I
  <2>. QED  BY <1>5, <1>6, <1>8
<1>12. F.weak = FALSE /\ F.functionEndLabel = IF MainSize(S) <= n THEN S[MainSize(S)].end ELSE None
  BY DEF MainRead
<1>13. (MainSize(S) <= n + 1 <=> MainSize(S) <= n) /\ N < n + 1
  BY <1>1, TextLayout
<1>. HIDE DEF I, M, E
<1>14. MainRead(S, n + 1, E)
  BY <1>1, <1>3, <1>4, <1>10, <1>11, <1>12, <1>13 DEF MainRead, Listed
<1>. QED  BY <1>14 DEF E, I, M

-----------------------------------------------------------------------------
(* What each kind of line does to the function map.                        *)

\* The names of a section that are in the map are those it has made known.
Ready(S, n, fm) == SectionRead(S, n, fm) /\ DOMAIN fm \cap FunctionsOf(S) \subseteq Known(S, n)

Grown(S, n, fm, fm2) ==
  /\ SectionRead(S, n + 1, fm2)
  /\ DOMAIN fm2 = DOMAIN fm \cup Known(S, n + 1)
  /\ \A x \in DOMAIN fm \ Known(S, n + 1) : fm2[x] = fm[x]

\* What a section has said is still there if its functions' records are.
LEMMA SectionKept ==
  ASSUME NEW S, S \in Seq(Lines), IsTextSection(S), NEW n \in Nat, NEW fm, NEW fm2,
         SectionRead(S, n, fm), \A x \in Known(S, n) : x \in DOMAIN fm2 /\ fm2[x] = fm[x]
  PROVE  SectionRead(S, n, fm2)
PROOF
<1>1. HasCode(S) /\ (1 <= n => Name(S) \in Known(S, n))
  BY TextLayout, KnownStep
<1>. QED  BY <1>1 DEF SectionRead

LEMMA ReadyHas ==
  ASSUME NEW S, S \in Seq(Lines), IsTextSection(S), NEW n \in Nat, 1 <= n, NEW fm, Ready(S, n, fm)
  PROVE  /\ Name(S) \in DOMAIN fm /\ MainRead(S, n, fm[Name(S)])
         /\ \A g \in Known(S, n) \ {Name(S)} : g \in DOMAIN fm /\ WeakRead(S, n, fm[g], g)
         /\ Known(S, n) \subseteq DOMAIN fm /\ Name(S) \in Known(S, n)
         /\ DOMAIN fm \cap FunctionsOf(S) \subseteq Known(S, n)
PROOF
<1>1. HasCode(S) /\ Name(S) \in Known(S, n)
  BY TextLayout, KnownStep
<1>. QED  BY <1>1 DEF Ready, SectionRead

\* The header.
LEMMA HeaderGrows ==
  ASSUME NEW S, S \in Seq(Lines), IsTextSection(S), NEW fm, Name(S) \notin DOMAIN fm
  PROVE  Grown(S, 0, fm, Insert(fm, {Name(S)}, Function(None)))
PROOF
<1>. DEFINE fm2 == Insert(fm, {Name(S)}, Function(None))
<1>1. Known(S, 0 + 1) = {Name(S)}
  BY KnownStep
<1>2. /\ DOMAIN fm2 = {Name(S)} \cup DOMAIN fm /\ fm2[Name(S)] = Function(None)
      /\ \A x \in DOMAIN fm : fm2[x] = fm[x]
  BY DEF Insert
<1>3. MainRead(S, 1, Function(None))
  BY MainIsNew
<1>. HIDE DEF fm2
<1>4. SectionRead(S, 0 + 1, fm2)
  BY <1>1, <1>2, <1>3 DEF SectionRead
<1>5. Grown(S, 0, fm, fm2)
  BY <1>1, <1>2, <1>4 DEF Grown
<1>. QED  BY <1>5 DEF fm2

\* A label, an alignment or another line, and the empty line after other sections.
LEMMA QuietLineGrows ==
  ASSUME NEW S, S \in Seq(Lines), IsTextSection(S), NEW n \in Nat, 1 <= n, n < Len(S),
         S[n + 1].kind \in {"label", "align", "other"}, NEW fm, Ready(S, n, fm)
  PROVE  Grown(S, n, fm, fm)
PROOF
<1>0. PICK N \in Nat : N = Len(S) /\ DOMAIN S = 1 .. N
  BY SectionLength
<1>1. n + 1 \notin WeakSizes(S) /\ n + 1 # MainSize(S)
  BY SizeLines, TextLayout
<1>2. Known(S, n + 1) = Known(S, n)
  BY <1>1, KnownStep
<1>3. MainRead(S, n + 1, fm[Name(S)])
  BY <1>1, MainStays, ReadyHas
<1>4. \A g \in Known(S, n) \ {Name(S)} : WeakRead(S, n + 1, fm[g], g)
  BY <1>1, WeakStays, ReadyHas
<1>5. SectionRead(S, n + 1, fm)
  BY <1>2, <1>3, <1>4, ReadyHas DEF SectionRead
<1>. QED  BY <1>2, <1>5, ReadyHas DEF Grown

\* An instruction.
LEMMA InstructionGrows ==
  ASSUME NEW S, S \in Seq(Lines), IsTextSection(S), NEW n \in Nat, 1 <= n, n < Len(S),
         S[n + 1].kind = "inst", NEW fm, Ready(S, n, fm)
  PROVE  Grown(S, n, fm,
           [fm EXCEPT ![Name(S)] =
              [fm[Name(S)] EXCEPT
                 !.instructions = Insert(@, {S[n + 1].address}, S[n + 1].callee),
                 !.labelMap = Insert(@, NamesAt(S, Unplaced(S, n)), S[n + 1].address)]])
PROOF
<1>. DEFINE E == [fm[Name(S)] EXCEPT
                    !.instructions = Insert(@, {S[n + 1].address}, S[n + 1].callee),
                    !.labelMap = Insert(@, NamesAt(S, Unplaced(S, n)), S[n + 1].address)]
            fm2 == [fm EXCEPT ![Name(S)] = E]
<1>1. n + 1 \notin WeakSizes(S)
  BY SizeLines
<1>2. Known(S, n + 1) = Known(S, n)
  BY <1>1, KnownStep
<1>3. MainRead(S, n + 1, E)
  BY MainRuns, ReadyHas
<1>4. \A g \in Known(S, n) \ {Name(S)} : WeakRead(S, n + 1, fm[g], g)
  BY <1>1, WeakStays, ReadyHas
<1>. HIDE DEF E
<1>5. /\ DOMAIN fm2 = DOMAIN fm /\ fm2[Name(S)] = E
      /\ \A x \in DOMAIN fm \ {Name(S)} : fm2[x] = fm[x]
  BY ReadyHas
<1>. HIDE DEF fm2
<1>6. SectionRead(S, n + 1, fm2)
  BY <1>2, <1>3, <1>4, <1>5, ReadyHas DEF SectionRead
<1>7. Grown(S, n, fm, fm2)
  BY <1>2, <1>5, <1>6, ReadyHas DEF Grown
<1>. QED  BY <1>7 DEF fm2, E

\* The empty line after the section.
LEMMA EndGrows ==
  ASSUME NEW S, S \in Seq(Lines), IsTextSection(S), NEW n \in Nat, 1 <= n, n = Len(S),
         NEW a, a = S[Final(LinesOf(S, "inst"))].address + S[Final(LinesOf(S, "align"))].size,
         NEW fm, Ready(S, n, fm)
  PROVE  Grown(S, n, fm,
           [fm EXCEPT ![Name(S)] =
              [fm[Name(S)] EXCEPT
                 !.instructions = Insert(@, {a}, None),
                 !.labelMap = Insert(@, NamesAt(S, Unplaced(S, n)), a)]])
PROOF
<1>. DEFINE E == [fm[Name(S)] EXCEPT
                    !.instructions = Insert(@, {a}, None),
                    !.labelMap = Insert(@, NamesAt(S, Unplaced(S, n)), a)]
            fm2 == [fm EXCEPT ![Name(S)] = E]
<1>0. PICK N \in Nat : N = Len(S) /\ DOMAIN S = 1 .. N
  BY SectionLength
<1>1. n + 1 \notin WeakSizes(S)
  BY <1>0, SizeLines
<1>2. Known(S, n + 1) = Known(S, n)
  BY <1>0, <1>1, KnownStep
<1>3. MainRead(S, n + 1, E)
  BY MainEnds, ReadyHas
<1>4. \A g \in Known(S, n) \ {Name(S)} : WeakRead(S, n + 1, fm[g], g)
  BY <1>1, WeakStays, ReadyHas
<1>. HIDE DEF E
<1>5. /\ DOMAIN fm2 = DOMAIN fm /\ fm2[Name(S)] = E
      /\ \A x \in DOMAIN fm \ {Name(S)} : fm2[x] = fm[x]
  BY ReadyHas
<1>. HIDE DEF fm2
<1>6. SectionRead(S, n + 1, fm2)
  BY <1>2, <1>3, <1>4, <1>5, ReadyHas DEF SectionRead
<1>7. Grown(S, n, fm, fm2)
  BY <1>2, <1>5, <1>6, ReadyHas DEF Grown
<1>. QED  BY <1>7 DEF fm2, E

\* A weak function that is declared: it is there, if it was not before.
LEMMA WeakIsDeclared ==
  ASSUME NEW S, S \in Seq(Lines), IsTextSection(S), NEW n \in Nat, 1 <= n,
         NEW g, g \in FunctionsOf(S), NEW fm, Ready(S, n, fm),
         NEW fm1, fm1 = Insert(fm, {g}, Function(Name(S)))
  PROVE  /\ DOMAIN fm1 = DOMAIN fm \cup {g} /\ \A x \in DOMAIN fm : fm1[x] = fm[x]
         /\ \A h \in (Known(S, n) \cup {g}) \ {Name(S)} : WeakRead(S, n, fm1[h], h)
PROOF
<1>1. /\ DOMAIN fm1 = DOMAIN fm \cup {g} /\ \A x \in DOMAIN fm : fm1[x] = fm[x]
      /\ g \notin DOMAIN fm => fm1[g] = Function(Name(S))
  BY DEF Insert
<1>2. \A h \in Known(S, n) \ {Name(S)} : WeakRead(S, n, fm1[h], h)
  BY <1>1, ReadyHas
<1>3. ASSUME g \notin Known(S, n) PROVE WeakRead(S, n, fm1[g], g)
  <2>1. g \notin DOMAIN fm
    BY <1>3, ReadyHas
  <2>2. WeakRead(S, n, Function(Name(S)), g)
    BY <1>3, WeakIsNew
  <2>. QED  BY <1>1, <2>1, <2>2
<1>. QED  BY <1>1, <1>2, <1>3

\* The declaration of a weak function.
LEMMA WeakLineGrows ==
  ASSUME NEW S, S \in Seq(Lines), IsTextSection(S), NEW n \in Nat, 1 <= n, n < Len(S),
         S[n + 1].kind = "weak", NEW fm, Ready(S, n, fm)
  PROVE  Grown(S, n, fm, Insert(fm, {S[n + 1].name}, Function(Name(S))))
PROOF
<1>. DEFINE g == S[n + 1].name
            fm2 == Insert(fm, {g}, Function(Name(S)))
<1>0. PICK N \in Nat : N = Len(S) /\ DOMAIN S = 1 .. N
  BY SectionLength
<1>1. n + 1 \notin WeakSizes(S) /\ n + 1 # MainSize(S)
  BY SizeLines, TextLayout
<1>2. Known(S, n + 1) = Known(S, n) \cup {g}
  BY KnownStep
<1>3. g \in FunctionsOf(S)
  <2>1. Known(S, n + 1) \subseteq FunctionsOf(S)
    BY KnownStep
  <2>. QED  BY <1>2, <2>1
<1>. HIDE DEF g
<1>4. /\ DOMAIN fm2 = DOMAIN fm \cup {g} /\ \A x \in DOMAIN fm : fm2[x] = fm[x]
      /\ \A h \in (Known(S, n) \cup {g}) \ {Name(S)} : WeakRead(S, n, fm2[h], h)
  BY <1>3, WeakIsDeclared
<1>. HIDE DEF fm2
<1>5. MainRead(S, n + 1, fm2[Name(S)])
  <2>1. MainRead(S, n, fm2[Name(S)])
    BY <1>4, ReadyHas
  <2>2. S[n + 1].kind # "inst"
    OBVIOUS
  <2>. QED  BY <1>1, <2>1, <2>2, MainStays
<1>6. \A h \in Known(S, n + 1) \ {Name(S)} : WeakRead(S, n + 1, fm2[h], h)
  BY <1>1, <1>2, <1>4, WeakStays
<1>7. Known(S, n + 1) \subseteq DOMAIN fm2 /\ Name(S) \in DOMAIN fm2
  BY <1>2, <1>4, ReadyHas
<1>8. SectionRead(S, n + 1, fm2)
  BY <1>5, <1>6, <1>7 DEF SectionRead
<1>9. Grown(S, n, fm, fm2)
  BY <1>2, <1>4, <1>8, ReadyHas DEF Grown
<1>. QED  BY <1>9 DEF fm2, g

\* The size of the section's function.
LEMMA MainSizeGrows ==
  ASSUME NEW S, S \in Seq(Lines), IsTextSection(S), NEW n \in Nat, 1 <= n,
         n + 1 = MainSize(S), NEW fm, Ready(S, n, fm)
  PROVE  Grown(S, n, fm, SetFunctionEndLabel(fm, Name(S), S[n + 1].end))
PROOF
<1>. DEFINE E == [fm[Name(S)] EXCEPT !.functionEndLabel = S[n + 1].end]
            fm2 == [fm EXCEPT ![Name(S)] = E]
<1>0. PICK N \in Nat : N = Len(S) /\ DOMAIN S = 1 .. N
  BY SectionLength
<1>1. n + 1 \notin WeakSizes(S) /\ S[n + 1].kind = "size"
  BY SizeLines, TextLayout
<1>2. Known(S, n + 1) = Known(S, n)
  BY <1>1, KnownStep
<1>3. MainRead(S, n + 1, E)
  BY MainIsSized, ReadyHas
<1>4. \A g \in Known(S, n) \ {Name(S)} : WeakRead(S, n + 1, fm[g], g)
  BY <1>1, WeakStays, ReadyHas
<1>. HIDE DEF E
<1>5. /\ DOMAIN fm2 = DOMAIN fm /\ fm2[Name(S)] = E
      /\ \A x \in DOMAIN fm \ {Name(S)} : fm2[x] = fm[x]
  BY ReadyHas
<1>. HIDE DEF fm2
<1>6. SectionRead(S, n + 1, fm2)
  BY <1>2, <1>3, <1>4, <1>5, ReadyHas DEF SectionRead
<1>7. Grown(S, n, fm, fm2)
  BY <1>2, <1>5, <1>6, ReadyHas DEF Grown
<1>. QED  BY <1>7 DEF fm2, E, SetFunctionEndLabel

\* The size of a weak one, declared or not.
LEMMA WeakSizeGrows ==
  ASSUME NEW S, S \in Seq(Lines), IsTextSection(S), NEW n \in Nat, 1 <= n,
         n + 1 \in WeakSizes(S), NEW fm, Ready(S, n, fm)
  PROVE  Grown(S, n, fm,
           SetFunctionEndLabel(Insert(fm, {S[n + 1].name}, Function(Name(S))),
                               S[n + 1].name, S[n + 1].end))
PROOF
<1>. DEFINE g == S[n + 1].name
            fm1 == Insert(fm, {g}, Function(Name(S)))
            E == [fm1[g] EXCEPT !.functionEndLabel = S[n + 1].end]
            fm2 == [fm1 EXCEPT ![g] = E]
<1>0. PICK N \in Nat : N = Len(S) /\ DOMAIN S = 1 .. N
  BY SectionLength
<1>1. n < Len(S) /\ S[n + 1].kind = "size" /\ n + 1 # MainSize(S)
  BY <1>0, SizeLines
<1>2. Known(S, n + 1) = Known(S, n) \cup {g}
  BY KnownStep
<1>3. g \in FunctionsOf(S)
  <2>1. Known(S, n + 1) \subseteq FunctionsOf(S)
    BY KnownStep
  <2>. QED  BY <1>2, <2>1
<1>4. g # Name(S) /\ \A k \in WeakSizes(S) : S[k].name = g => k = n + 1
  BY DEF IsTextSection
<1>5. /\ DOMAIN fm1 = DOMAIN fm \cup {g} /\ \A x \in DOMAIN fm : fm1[x] = fm[x]
      /\ \A h \in (Known(S, n) \cup {g}) \ {Name(S)} : WeakRead(S, n, fm1[h], h)
  <2>. HIDE DEF g
  <2>. QED  BY <1>3, WeakIsDeclared
<1>. HIDE DEF fm1
<1>6. WeakRead(S, n, fm1[g], g)
  BY <1>4, <1>5
<1>7. WeakRead(S, n + 1, E, g)
  BY <1>6, WeakIsSized
<1>. HIDE DEF E
<1>8. /\ DOMAIN fm2 = DOMAIN fm \cup {g} /\ fm2[g] = E
      /\ \A x \in DOMAIN fm \ {g} : fm2[x] = fm[x]
      /\ \A x \in DOMAIN fm1 \ {g} : fm2[x] = fm1[x]
  BY <1>5
<1>. HIDE DEF fm2
<1>9. MainRead(S, n + 1, fm2[Name(S)])
  <2>1. MainRead(S, n, fm2[Name(S)])
    BY <1>4, <1>8, ReadyHas
  <2>2. S[n + 1].kind # "inst"
    BY <1>1
  <2>. QED  BY <1>1, <2>1, <2>2, MainStays
<1>10. \A h \in Known(S, n + 1) \ {Name(S)} : WeakRead(S, n + 1, fm2[h], h)
  <2>1. SUFFICES ASSUME NEW h \in Known(S, n + 1) \ {Name(S)}, h # g
                 PROVE  WeakRead(S, n + 1, fm2[h], h)
    BY <1>7, <1>8
  <2>2. h \in Known(S, n) /\ h \in DOMAIN fm
    BY <1>2, <2>1, ReadyHas
  <2>3. WeakRead(S, n, fm2[h], h)
    BY <1>8, <2>1, <2>2, ReadyHas
  <2>. QED  BY <2>1, <2>3, WeakStays
<1>11. Known(S, n + 1) \subseteq DOMAIN fm2 /\ Name(S) \in DOMAIN fm2
  BY <1>2, <1>8, ReadyHas
<1>12. SectionRead(S, n + 1, fm2)
  BY <1>9, <1>10, <1>11 DEF SectionRead
<1>13. Grown(S, n, fm, fm2)
  BY <1>2, <1>8, <1>12, ReadyHas DEF Grown
<1>. QED  BY <1>13 DEF fm2, E, fm1, g, SetFunctionEndLabel

-----------------------------------------------------------------------------
(* What each kind of line does to the variables of the loop.               *)

LEMMA HeaderTracks ==
  ASSUME NEW S, S \in Seq(Lines), IsTextSection(S), NEW e, NEW la, NEW al
  PROVE  Tracked(S, 1, {}, TRUE, e, la, al)
PROOF
<1>1. PICK N \in Nat : N = Len(S) /\ DOMAIN S = 1 .. N
  BY SectionLength
<1>2. S[1].kind = "header" /\ 1 < MainSize(S) /\ MainSize(S) \in Nat
  BY <1>1, TextLayout
<1>3. Upto(S, "label", 1) = {} /\ Upto(S, "inst", 1) = {} /\ Upto(S, "align", 1) = {}
  BY <1>2 DEF Upto, LinesOf
<1>4. NamesAt(S, Unplaced(S, 1)) = {}
  BY <1>3 DEF Unplaced, NamesAt
<1>. QED  BY <1>2, <1>3, <1>4 DEF Tracked

LEMMA LabelTracks ==
  ASSUME NEW S, S \in Seq(Lines), IsTextSection(S), NEW n \in Nat, n < Len(S),
         S[n + 1].kind = "label", NEW L, NEW m, NEW e, NEW la, NEW al,
         Tracked(S, n, L, m, e, la, al)
  PROVE  Tracked(S, n + 1, L \cup {S[n + 1].name}, m, e, la, al)
PROOF
<1>1. PICK N \in Nat : N = Len(S) /\ DOMAIN S = 1 .. N
  BY SectionLength
<1>2. n + 1 \in DOMAIN S
  BY <1>1
<1>3. MainSize(S) < n + 1 /\ MainSize(S) \in Nat
  BY <1>1, <1>2, TextLayout
<1>4. Unplaced(S, n + 1) = Unplaced(S, n) \cup {n + 1}
  BY PlacedStep
<1>5. NamesAt(S, Unplaced(S, n + 1)) = L \cup {S[n + 1].name}
  BY <1>4 DEF NamesAt, Tracked
<1>6. Upto(S, "inst", n + 1) = Upto(S, "inst", n) /\ Upto(S, "align", n + 1) = Upto(S, "align", n)
  BY UptoStep
<1>7. ~(n < MainSize(S)) /\ ~(n + 1 < MainSize(S)) /\ MainSize(S) <= n
  BY <1>3
<1>. QED  BY <1>5, <1>6, <1>7 DEF Tracked

LEMMA InstructionTracks ==
  ASSUME NEW S, S \in Seq(Lines), IsTextSection(S), NEW n \in Nat, n < Len(S),
         S[n + 1].kind = "inst", NEW L, NEW m, NEW e, NEW la, NEW al,
         Tracked(S, n, L, m, e, la, al)
  PROVE  Tracked(S, n + 1, {}, m, e, S[n + 1].address, al)
PROOF
<1>1. PICK N \in Nat : N = Len(S) /\ DOMAIN S = 1 .. N
  BY SectionLength
<1>2. MainSize(S) \in Nat /\ MainSize(S) # n + 1
  BY <1>1, TextLayout
<1>3. (n < MainSize(S) <=> n + 1 < MainSize(S)) /\ (MainSize(S) <= n <=> MainSize(S) <= n + 1)
  BY <1>2
<1>4. NamesAt(S, Unplaced(S, n + 1)) = {}
  <2>1. Unplaced(S, n + 1) = {}
    BY PlacedStep
  <2>. QED  BY <2>1 DEF NamesAt
<1>5. Upto(S, "inst", n + 1) = Upto(S, "inst", n) \cup {n + 1} /\ Upto(S, "inst", n) \subseteq 1 .. n
  BY UptoStep
<1>6. \A k \in Upto(S, "inst", n + 1) :
        (\A j \in Upto(S, "inst", n + 1) : j <= k) => S[n + 1].address = S[k].address
  <2>1. SUFFICES ASSUME NEW k \in Upto(S, "inst", n + 1), n + 1 <= k PROVE k = n + 1
    BY <1>5
  <2>. QED  BY <1>5, <2>1
<1>7. Upto(S, "align", n + 1) = Upto(S, "align", n)
  BY UptoStep
<1>. QED  BY <1>3, <1>4, <1>6, <1>7 DEF Tracked

\* A line that is neither, with the alignment al2 after it.
LEMMA OtherTracks ==
  ASSUME NEW S, S \in Seq(Lines), IsTextSection(S), NEW n \in Nat, n < Len(S),
         S[n + 1].kind \notin {"label", "inst"}, NEW L, NEW m, NEW e, NEW la, NEW al,
         Tracked(S, n, L, m, e, la, al), NEW m2, NEW e2, NEW al2,
         IF S[n + 1].kind = "align" THEN al2 = S[n + 1].size ELSE al2 = al,
         IF n + 1 = MainSize(S) THEN m2 = FALSE /\ e2 = S[n + 1].end ELSE m2 = m /\ e2 = e
  PROVE  Tracked(S, n + 1, L, m2, e2, la, al2)
PROOF
<1>1. PICK N \in Nat : N = Len(S) /\ DOMAIN S = 1 .. N
  BY SectionLength
<1>2. MainSize(S) \in Nat
  BY <1>1, TextLayout
<1>3. Unplaced(S, n + 1) = Unplaced(S, n)
  BY PlacedStep
<1>4. Upto(S, "inst", n + 1) = Upto(S, "inst", n)
  BY UptoStep
<1>5. m2 = IF n + 1 < MainSize(S) THEN TRUE ELSE FALSE
  <2>1. CASE n + 1 = MainSize(S)
    <3>1. m2 = FALSE /\ ~(n + 1 < MainSize(S))
      BY <1>2, <2>1
    <3>. QED  BY <3>1
  <2>2. CASE n + 1 # MainSize(S)
    <3>1. n < MainSize(S) <=> n + 1 < MainSize(S)
      BY <1>2, <2>2
    <3>. QED  BY <2>2, <3>1 DEF Tracked
  <2>. QED  BY <2>1, <2>2
<1>6. MainSize(S) <= n + 1 => e2 = S[MainSize(S)].end
  <2>1. CASE n + 1 # MainSize(S)
    <3>1. MainSize(S) <= n <=> MainSize(S) <= n + 1
      BY <1>2, <2>1
    <3>. QED  BY <2>1, <3>1 DEF Tracked
  <2>. QED  BY <2>1
<1>7. \A k \in Upto(S, "align", n + 1) :
        (\A j \in Upto(S, "align", n + 1) : j <= k) => al2 = S[k].size
  <2>1. CASE S[n + 1].kind = "align"
    <3>1. Upto(S, "align", n + 1) = Upto(S, "align", n) \cup {n + 1}
          /\ Upto(S, "align", n) \subseteq 1 .. n
      BY <2>1, UptoStep
    <3>2. SUFFICES ASSUME NEW k \in Upto(S, "align", n + 1), n + 1 <= k PROVE k = n + 1
      BY <2>1, <3>1
    <3>. QED  BY <3>1, <3>2
  <2>2. CASE S[n + 1].kind # "align"
    <3>1. Upto(S, "align", n + 1) = Upto(S, "align", n)
      BY <2>2, UptoStep
    <3>. QED  BY <2>2, <3>1 DEF Tracked
  <2>. QED  BY <2>1, <2>2
<1>. QED  BY <1>3, <1>4, <1>5, <1>6, <1>7 DEF Tracked

\* Before the last line the end label is not among those that wait, ...
LEMMA EndIsToCome ==
  ASSUME NEW S, S \in Seq(Lines), IsTextSection(S), NEW n \in Nat, n < Len(S),
         NEW L, NEW m, NEW e, NEW la, NEW al, Tracked(S, n, L, m, e, la, al)
  PROVE  /\ S[MainSize(S)].end \notin L /\ (n <= MainSize(S) => L = {})
         /\ m = TRUE <=> n < MainSize(S)
         /\ MainSize(S) <= n => e = S[MainSize(S)].end
PROOF
<1>1. PICK N \in Nat : N = Len(S) /\ DOMAIN S = 1 .. N
  BY SectionLength
<1>2. /\ MainSize(S) \in Nat /\ N \in DOMAIN S /\ S[N].kind = "label"
      /\ S[N].name = S[MainSize(S)].end
      /\ \A k \in DOMAIN S : S[k].kind = "label" => MainSize(S) < k
  BY <1>1, TextLayout
<1>3. Unplaced(S, n) \subseteq {k \in LinesOf(S, "label") : k <= n}
  BY DEF Unplaced, Upto
<1>4. \A k \in Unplaced(S, n) : S[k].name # S[N].name
  <2>1. N \in LinesOf(S, "label")
    BY <1>2 DEF LinesOf
  <2>2. \A k \in Unplaced(S, n) : k # N
    BY <1>1, <1>3
  <2>. QED  BY <1>3, <2>1, <2>2 DEF IsTextSection
<1>5. n <= MainSize(S) => Unplaced(S, n) = {}
  BY <1>1, <1>2, <1>3 DEF LinesOf
<1>. QED  BY <1>2, <1>4, <1>5 DEF Tracked, NamesAt

\* ... and after it, it is, and the address to give it is the section's end.
LEMMA EndIsThere ==
  ASSUME NEW S, S \in Seq(Lines), IsTextSection(S), NEW n \in Nat, n = Len(S),
         NEW L, NEW m, NEW e, NEW la, NEW al, Tracked(S, n, L, m, e, la, al)
  PROVE  e \in L /\ la + al = S[Final(LinesOf(S, "inst"))].address
                                + S[Final(LinesOf(S, "align"))].size
PROOF
<1>1. PICK N \in Nat : N = Len(S) /\ DOMAIN S = 1 .. N
  BY SectionLength
<1>2. /\ MainSize(S) \in Nat /\ MainSize(S) < N /\ N \in DOMAIN S /\ S[N].kind = "label"
      /\ S[N].name = S[MainSize(S)].end
  BY <1>1, TextLayout
<1>3. N \in Unplaced(S, n)
  <2>1. N \in Upto(S, "label", n)
    BY <1>1, <1>2 DEF Upto, LinesOf
  <2>2. \A j \in Upto(S, "inst", n) : ~(N < j)
    BY <1>1 DEF Upto, LinesOf
  <2>3. ~(N < n)
    BY <1>1
  <2>. QED  BY <1>1, <2>1, <2>2, <2>3 DEF Unplaced, Placed
<1>4. e \in L
  BY <1>1, <1>2, <1>3 DEF Tracked, NamesAt
<1>5. Upto(S, "inst", n) = LinesOf(S, "inst") /\ Upto(S, "align", n) = LinesOf(S, "align")
  BY <1>1 DEF Upto, LinesOf
<1>. DEFINE I == LinesOf(S, "inst")  A == LinesOf(S, "align")
<1>6. I \subseteq 1 .. N /\ A \subseteq 1 .. N /\ I # {} /\ A # {}
  <2>1. I # {} /\ A # {}
    BY DEF IsTextSection
  <2>. QED  BY <1>1, <2>1 DEF LinesOf
<1>7. Final(I) \in I /\ \A j \in I : j <= Final(I)
  <2>. HIDE DEF I
  <2>. QED  BY <1>6, FinalIsGreatest, Zenon
<1>8. Final(A) \in A /\ \A j \in A : j <= Final(A)
  <2>. HIDE DEF A
  <2>. QED  BY <1>6, FinalIsGreatest, Zenon
<1>9. la = S[Final(I)].address
  BY <1>5, <1>7 DEF Tracked
<1>10. al = S[Final(A)].size
  BY <1>5, <1>8 DEF Tracked
<1>. QED  BY <1>4, <1>9, <1>10

-----------------------------------------------------------------------------
(* The sections of a listing.                                              *)

LEMMA SectionOf ==
  ASSUME NEW secs, IsListing(secs), NEW i \in DOMAIN secs
  PROVE  /\ secs[i] \in Seq(Lines) /\ i \in Nat /\ Len(secs) \in Nat
         /\ DOMAIN secs = 1 .. Len(secs)
         /\ HasCode(secs[i]) => IsTextSection(secs[i])
PROOF
<1>. DEFINE L == Seq(Lines)
<1>1. secs \in Seq(L) /\ (HasCode(secs[i]) => IsTextSection(secs[i]))
  BY DEF IsListing
<1>. HIDE DEF L
<1>2. DOMAIN secs = 1 .. Len(secs) /\ Len(secs) \in Nat /\ secs[i] \in L
  BY <1>1, LenProperties, ElementOfSeq
<1>. QED  BY <1>1, <1>2 DEF L

\* Functions of another section are not of this one, unless it has its name.
LEMMA SectionsApart ==
  ASSUME NEW secs, IsListing(secs), NEW i \in TextSections(secs), NEW s \in TextSections(secs),
         i # s, NEW m \in Nat, 1 <= m => Name(secs[i]) # Name(secs[s])
  PROVE  Known(secs[i], m) \cap FunctionsOf(secs[s]) = {}
PROOF
<1>1. /\ i \in DOMAIN secs /\ s \in DOMAIN secs /\ HasCode(secs[i]) /\ HasCode(secs[s])
      /\ secs[i] \in Seq(Lines) /\ IsTextSection(secs[i])
  BY SectionOf DEF TextSections
<1>2. CASE 1 <= m
  <2>1. Known(secs[i], m) \subseteq FunctionsOf(secs[i])
    BY <1>1, KnownStep
  <2>2. /\ WeakNames(secs[i]) \cap FunctionsOf(secs[s]) = {}
        /\ WeakNames(secs[s]) \cap FunctionsOf(secs[i]) = {}
    BY <1>1 DEF IsListing
  <2>. QED  BY <1>1, <1>2, <2>1, <2>2 DEF FunctionsOf
<1>3. CASE m = 0
  BY <1>1, <1>3, KnownStep
<1>. QED  BY <1>2, <1>3

\* What was known stays known.
LEMMA KnownGrows ==
  ASSUME NEW S, S \in Seq(Lines), NEW n \in Nat
  PROVE  Known(S, n) \subseteq Known(S, n + 1)
PROOF
<1>1. PICK N \in Nat : N = Len(S) /\ DOMAIN S = 1 .. N
  BY SectionLength
<1>2. \A kind : Upto(S, kind, n) \subseteq Upto(S, kind, n + 1)
  BY <1>1 DEF Upto, LinesOf
<1>3. {j \in WeakSizes(S) : j <= n} \subseteq {j \in WeakSizes(S) : j <= n + 1}
  BY <1>1 DEF WeakSizes, LinesOf
<1>. QED  BY <1>2, <1>3 DEF Known

\* Sections with no code do not matter to the map, and those that are read have
\* the functions they know there.
LEMMA MapHas ==
  ASSUME NEW secs, IsListing(secs), NEW n \in [DOMAIN secs -> Nat], NEW fm, Mapped(secs, n, fm)
  PROVE  /\ \A x \in DOMAIN fm : \E i \in TextSections(secs) : x \in Known(secs[i], n[i])
         /\ \A i \in TextSections(secs) : Known(secs[i], n[i]) \subseteq DOMAIN fm
         /\ \A i \in TextSections(secs) : 1 <= n[i] => Name(secs[i]) \in DOMAIN fm
PROOF
<1>1. DOMAIN fm = UNION {Known(secs[i], n[i]) : i \in DOMAIN secs}
  BY DEF Mapped
<1>2. \A i \in DOMAIN secs \ TextSections(secs) : Known(secs[i], n[i]) = {}
  BY DEF TextSections, Known
<1>3. \A i \in TextSections(secs) : 1 <= n[i] => Name(secs[i]) \in Known(secs[i], n[i])
  BY SectionOf, KnownStep DEF TextSections
<1>4. TextSections(secs) \subseteq DOMAIN secs
  BY DEF TextSections
<1>. QED  BY <1>1, <1>2, <1>3, <1>4

\* The section that is read on has none of its functions in the map but those
\* that it has made known.
LEMMA MapIsReady ==
  ASSUME NEW secs, IsListing(secs), NEW n \in [DOMAIN secs -> Nat], NEW fm, Mapped(secs, n, fm),
         NEW s \in TextSections(secs), 1 <= n[s] \/ Name(secs[s]) \notin DOMAIN fm
  PROVE  /\ \A i \in TextSections(secs) : i # s /\ 1 <= n[i] => Name(secs[i]) # Name(secs[s])
         /\ Ready(secs[s], n[s], fm)
PROOF
<1>1. s \in DOMAIN secs /\ TextSections(secs) \subseteq DOMAIN secs
  BY DEF TextSections
<1>2. \A i \in TextSections(secs) : i # s /\ 1 <= n[i] => Name(secs[i]) # Name(secs[s])
  <2>1. CASE 1 <= n[s]
    BY <2>1 DEF Mapped
  <2>2. CASE Name(secs[s]) \notin DOMAIN fm
    BY <2>2, MapHas
  <2>. QED  BY <2>1, <2>2
<1>3. ASSUME NEW x \in DOMAIN fm, x \in FunctionsOf(secs[s]) PROVE x \in Known(secs[s], n[s])
  <2>1. PICK i \in TextSections(secs) : x \in Known(secs[i], n[i])
    BY MapHas
  <2>2. n[i] \in Nat
    BY <1>1
  <2>. QED  BY <1>2, <1>3, <2>1, <2>2, SectionsApart
<1>4. SectionRead(secs[s], n[s], fm)
  BY <1>1 DEF Mapped
<1>. QED  BY <1>2, <1>3, <1>4 DEF Ready

\* A line of a section of code.
LEMMA MapGrows ==
  ASSUME NEW secs, IsListing(secs), NEW n \in [DOMAIN secs -> Nat], NEW fm, Mapped(secs, n, fm),
         NEW s \in TextSections(secs), 1 <= n[s] \/ Name(secs[s]) \notin DOMAIN fm,
         NEW fm2, Grown(secs[s], n[s], fm, fm2)
  PROVE  Mapped(secs, [n EXCEPT ![s] = n[s] + 1], fm2)
PROOF
<1>. DEFINE n2 == [n EXCEPT ![s] = n[s] + 1]
<1>1. /\ s \in DOMAIN secs /\ n[s] \in Nat /\ n[s] + 1 \in Nat
      /\ secs[s] \in Seq(Lines) /\ IsTextSection(secs[s]) /\ TextSections(secs) \subseteq DOMAIN secs
  BY SectionOf DEF TextSections
<1>2. /\ n2 \in [DOMAIN secs -> Nat] /\ n2[s] = n[s] + 1
      /\ \A i \in DOMAIN secs : i # s => n2[i] = n[i]
  BY <1>1
<1>. HIDE DEF n2
<1>3. \A i \in TextSections(secs) : i # s /\ 1 <= n[i] => Name(secs[i]) # Name(secs[s])
  BY MapIsReady
<1>4. /\ SectionRead(secs[s], n[s] + 1, fm2)
      /\ DOMAIN fm2 = DOMAIN fm \cup Known(secs[s], n[s] + 1)
      /\ \A x \in DOMAIN fm \ Known(secs[s], n[s] + 1) : fm2[x] = fm[x]
  BY DEF Grown
<1>5. Known(secs[s], n[s] + 1) \subseteq FunctionsOf(secs[s])
  BY <1>1, KnownStep
<1>6. ASSUME NEW i \in DOMAIN secs PROVE SectionRead(secs[i], n2[i], fm2)
  <2>1. CASE i = s
    BY <1>2, <1>4, <2>1
  <2>2. CASE ~HasCode(secs[i])
    BY <2>2 DEF SectionRead
  <2>3. CASE i # s /\ HasCode(secs[i])
    <3>1. i \in TextSections(secs) /\ n[i] \in Nat
      BY <2>3 DEF TextSections
    <3>2. Known(secs[i], n[i]) \cap FunctionsOf(secs[s]) = {}
      BY <1>3, <2>3, <3>1, SectionsApart
    <3>3. \A x \in Known(secs[i], n[i]) : x \in DOMAIN fm2 /\ fm2[x] = fm[x]
      BY <1>4, <1>5, <3>1, <3>2, MapHas
    <3>4. SectionRead(secs[i], n[i], fm)
      BY DEF Mapped
    <3>5. secs[i] \in Seq(Lines) /\ IsTextSection(secs[i])
      BY <2>3, SectionOf
    <3>6. SectionRead(secs[i], n[i], fm2)
      BY <3>1, <3>3, <3>4, <3>5, SectionKept
    <3>. QED  BY <1>2, <2>3, <3>6
  <2>. QED  BY <2>1, <2>2, <2>3
<1>7. DOMAIN fm2 = UNION {Known(secs[i], n2[i]) : i \in DOMAIN secs}
  <2>1. DOMAIN fm = UNION {Known(secs[i], n[i]) : i \in DOMAIN secs}
    BY DEF Mapped
  <2>2. Known(secs[s], n[s]) \subseteq Known(secs[s], n[s] + 1)
    BY <1>1, KnownGrows
  <2>. QED  BY <1>1, <1>2, <1>4, <2>1, <2>2
<1>8. ASSUME NEW i \in TextSections(secs), NEW j \in TextSections(secs), i # j,
             1 <= n2[i], 1 <= n2[j]
      PROVE  Name(secs[i]) # Name(secs[j])
  <2>1. \A k \in TextSections(secs) : k # s => n2[k] = n[k]
    BY <1>1, <1>2
  <2>. QED  BY <1>3, <1>8, <2>1 DEF Mapped
<1>9. Mapped(secs, n2, fm2)
  BY <1>6, <1>7, <1>8 DEF Mapped
<1>. QED  BY <1>9 DEF n2

\* A line of another section.
LEMMA MapStays ==
  ASSUME NEW secs, IsListing(secs), NEW n \in [DOMAIN secs -> Nat], NEW fm, Mapped(secs, n, fm),
         NEW s \in DOMAIN secs, ~HasCode(secs[s])
  PROVE  Mapped(secs, [n EXCEPT ![s] = n[s] + 1], fm)
PROOF
<1>. DEFINE n2 == [n EXCEPT ![s] = n[s] + 1]
<1>1. n2[s] = n[s] + 1 /\ \A i \in DOMAIN secs : i # s => n2[i] = n[i]
  OBVIOUS
<1>. HIDE DEF n2
<1>2. \A i \in DOMAIN secs : SectionRead(secs[i], n2[i], fm)
  BY <1>1 DEF Mapped, SectionRead
<1>3. \A i \in DOMAIN secs : Known(secs[i], n2[i]) = Known(secs[i], n[i])
  BY <1>1 DEF Known
<1>4. s \notin TextSections(secs) /\ TextSections(secs) \subseteq DOMAIN secs
  BY DEF TextSections
<1>5. Mapped(secs, n2, fm)
  BY <1>1, <1>2, <1>3, <1>4 DEF Mapped
<1>. QED  BY <1>5 DEF n2

\* A header whose name is there repeats the name of a section.
LEMMA NameIsRepeated ==
  ASSUME NEW secs, IsListing(secs), NEW n \in [DOMAIN secs -> Nat], NEW fm, Mapped(secs, n, fm),
         NEW s \in TextSections(secs), n[s] = 0, Name(secs[s]) \in DOMAIN fm
  PROVE  Duplicated(secs)
PROOF
<1>1. PICK i \in TextSections(secs) : Name(secs[s]) \in Known(secs[i], n[i])
  BY MapHas
<1>2. /\ i \in DOMAIN secs /\ s \in DOMAIN secs /\ HasCode(secs[i]) /\ HasCode(secs[s])
      /\ n[i] \in Nat /\ n[s] = 0 /\ secs[i] \in Seq(Lines) /\ IsTextSection(secs[i])
  BY SectionOf DEF TextSections
<1>3. i # s
  BY <1>1, <1>2, KnownStep
<1>4. Name(secs[s]) \in FunctionsOf(secs[i])
  BY <1>1, <1>2, KnownStep
<1>5. WeakNames(secs[i]) \cap FunctionsOf(secs[s]) = {}
  BY <1>2, <1>3 DEF IsListing
<1>6. Name(secs[s]) = Name(secs[i])
  BY <1>2, <1>4, <1>5 DEF FunctionsOf
<1>. QED  BY <1>3, <1>6 DEF Duplicated

-----------------------------------------------------------------------------
(* FillCG's steps.                                                         *)

\* Where the next line is.
LEMMA HereWeRead ==
  ASSUME IsListing(cubinSASS), AtLine, section <= Len(cubinSASS)
  PROVE  /\ section \in DOMAIN cubinSASS /\ Text \in Seq(Lines) /\ line \in Nat
         /\ Len(Text) \in Nat /\ line <= Len(Text)
         /\ LinesRead \in [DOMAIN cubinSASS -> Nat] /\ LinesRead[section] = line
         /\ HasCode(Text) => IsTextSection(Text) /\ section \in TextSections(cubinSASS)
PROOF
<1>1. DOMAIN cubinSASS = 1 .. Len(cubinSASS) /\ Len(cubinSASS) \in Nat
  BY LenProperties DEF IsListing
<1>2. section \in DOMAIN cubinSASS /\ line \in Nat /\ line <= Len(Text)
  BY <1>1 DEF AtLine
<1>3. Text \in Seq(Lines) /\ (HasCode(Text) => IsTextSection(Text))
  BY <1>2, SectionOf DEF Text
<1>4. Len(Text) \in Nat
  BY <1>3, SectionLength
<1>5. \A i \in DOMAIN cubinSASS : Len(cubinSASS[i]) \in Nat
  BY SectionOf, SectionLength
<1>6. LinesRead \in [DOMAIN cubinSASS -> Nat]
  BY <1>2, <1>5 DEF LinesRead
<1>7. LinesRead[section] = line
  BY <1>1, <1>2 DEF LinesRead
<1>. QED  BY <1>2, <1>3, <1>4, <1>6, <1>7 DEF TextSections, Text

\* A line is read.
LEMMA LineIsRead ==
  ASSUME IsListing(cubinSASS), AtLine, section <= Len(cubinSASS), GetLine,
         cubinSASS' = cubinSASS
  PROVE  /\ AtLine' /\ LinesRead' = [LinesRead EXCEPT ![section] = line + 1]
         /\ line < Len(Text) => line' = line + 1 /\ section' = section /\ Text' = Text
         /\ line = Len(Text) => line' = 0
PROOF
<1>1. DOMAIN cubinSASS = 1 .. Len(cubinSASS) /\ Len(cubinSASS) \in Nat
  BY LenProperties DEF IsListing
<1>2. PICK N \in Nat : N = Len(Text) /\ line <= N
  BY HereWeRead
<1>3. line \in Nat /\ section \in 1 .. Len(cubinSASS)
  BY <1>1, HereWeRead
<1>4. \A i \in DOMAIN cubinSASS : Len(cubinSASS[i]) \in Nat
  BY SectionOf, SectionLength
<1>5. CASE line < N
  <2>1. line' = line + 1 /\ section' = section
    BY <1>2, <1>5 DEF GetLine
  <2>2. Text' = Text
    BY <2>1 DEF Text
  <2>3. AtLine'
    BY <1>2, <1>3, <1>5, <2>1, <2>2 DEF AtLine
  <2>4. LinesRead' = [LinesRead EXCEPT ![section] = line + 1]
    <3>1. \A i \in DOMAIN cubinSASS :
            (IF i < section THEN Len(cubinSASS[i]) + 1 ELSE IF i = section THEN line + 1 ELSE 0)
            = IF i = section THEN line + 1
              ELSE IF i < section THEN Len(cubinSASS[i]) + 1 ELSE IF i = section THEN line ELSE 0
      BY <1>1, <1>3
    <3>. QED  BY <1>1, <1>3, <2>1, <3>1 DEF LinesRead
  <2>. QED  BY <1>2, <1>5, <2>1, <2>2, <2>3, <2>4
<1>6. CASE line = N
  <2>1. line' = 0 /\ section' = section + 1
    BY <1>2, <1>6 DEF GetLine
  <2>2. ASSUME section + 1 <= Len(cubinSASS) PROVE line' <= Len(Text')
    <3>1. Text' = cubinSASS[section + 1] /\ section + 1 \in DOMAIN cubinSASS
      BY <1>1, <1>3, <2>1, <2>2 DEF Text
    <3>2. Len(Text') \in Nat
      BY <1>4, <3>1
    <3>. QED  BY <2>1, <3>2
  <2>3. AtLine'
    BY <1>1, <1>3, <2>1, <2>2 DEF AtLine
  <2>4. Len(cubinSASS[section]) = line
    BY <1>2, <1>6 DEF Text
  <2>5. LinesRead' = [LinesRead EXCEPT ![section] = line + 1]
    <3>1. \A i \in DOMAIN cubinSASS :
            (IF i < section + 1 THEN Len(cubinSASS[i]) + 1 ELSE IF i = section + 1 THEN 0 ELSE 0)
            = IF i = section THEN line + 1
              ELSE IF i < section THEN Len(cubinSASS[i]) + 1 ELSE IF i = section THEN line ELSE 0
      BY <1>1, <1>3, <2>4
    <3>. QED  BY <1>1, <1>3, <2>1, <3>1 DEF LinesRead
  <2>. QED  BY <1>2, <1>6, <2>1, <2>3, <2>5
<1>. QED  BY <1>2, <1>3, <1>5, <1>6

\* What is to show of a line in a section of code, ...
LEMMA CodeIsRead ==
  ASSUME place = "FillCG", ReadInv, section <= Len(cubinSASS), HasCode(Text),
         1 <= line \/ Name(Text) \notin DOMAIN functionMap,
         GetLine, UNCHANGED mainVars, Grown(Text, line, functionMap, functionMap'),
         line < Len(Text) =>
           /\ inTextSection' = TRUE /\ currentFunctionName' = Name(Text)
           /\ Tracked(Text, line + 1, currentLabels', isMainFunctionSize', functionEndLabel',
                      lastAddress', alignSize'),
         line = Len(Text) =>
           inTextSection' = FALSE /\ currentLabels' = {} /\ isMainFunctionSize' = TRUE
  PROVE  ReadInv'
PROOF
<1>1. OpenFile /\ IsListing(cubinSASS) /\ AtLine /\ MapInv /\ cubinSASS' = cubinSASS
  BY DEF ReadInv, mainVars
<1>2. OpenFile'
  BY <1>1 DEF OpenFile, File, mainVars
<1>3. /\ AtLine' /\ LinesRead' = [LinesRead EXCEPT ![section] = line + 1]
      /\ line < Len(Text) => line' = line + 1 /\ section' = section /\ Text' = Text
      /\ line = Len(Text) => line' = 0
  BY <1>1, LineIsRead
<1>4. /\ section \in TextSections(cubinSASS) /\ line \in Nat
      /\ Len(Text) \in Nat /\ line <= Len(Text)
      /\ LinesRead \in [DOMAIN cubinSASS -> Nat] /\ LinesRead[section] = line
  BY <1>1, HereWeRead
<1>5. MapInv'
  <2>1. Mapped(cubinSASS, LinesRead, functionMap)
    BY <1>1 DEF MapInv
  <2>2. Mapped(cubinSASS, [LinesRead EXCEPT ![section] = LinesRead[section] + 1], functionMap')
    <3>1. Grown(cubinSASS[section], LinesRead[section], functionMap, functionMap')
      BY <1>4 DEF Text
    <3>2. 1 <= LinesRead[section] \/ Name(cubinSASS[section]) \notin DOMAIN functionMap
      BY <1>4 DEF Text
    <3>. QED  BY <1>1, <1>4, <2>1, <3>1, <3>2, MapGrows
  <2>. QED  BY <1>1, <1>3, <1>4, <2>2 DEF MapInv
<1>6. ScanInv'
  <2>1. CASE line < Len(Text)
    <3>1. InSection'
      BY <1>1, <1>3, <1>4, <2>1 DEF InSection
    <3>2. Inside(Text, line)'
      BY <1>3, <2>1 DEF Inside
    <3>. QED  BY <3>1, <3>2 DEF ScanInv
  <2>2. CASE line = Len(Text)
    <3>1. ~InSection'
      BY <1>3, <2>2 DEF InSection
    <3>. QED  BY <2>2, <3>1 DEF ScanInv, Outside
  <2>. QED  BY <1>4, <2>1, <2>2
<1>. QED  BY <1>1, <1>2, <1>3, <1>5, <1>6 DEF ReadInv

\* ... and of one in another section.
LEMMA OtherIsRead ==
  ASSUME place = "FillCG", ReadInv, section <= Len(cubinSASS), ~HasCode(Text),
         GetLine, UNCHANGED <<mainVars, functionMap, scanVars>>
  PROVE  ReadInv'
PROOF
<1>1. /\ OpenFile /\ IsListing(cubinSASS) /\ AtLine /\ MapInv /\ ScanInv
      /\ cubinSASS' = cubinSASS /\ functionMap' = functionMap
  BY DEF ReadInv, mainVars
<1>2. OpenFile'
  BY <1>1 DEF OpenFile, File, mainVars
<1>3. /\ AtLine' /\ LinesRead' = [LinesRead EXCEPT ![section] = line + 1]
      /\ line < Len(Text) => line' = line + 1 /\ section' = section /\ Text' = Text
      /\ line = Len(Text) => line' = 0
  BY <1>1, LineIsRead
<1>4. /\ section \in DOMAIN cubinSASS /\ line \in Nat /\ Len(Text) \in Nat /\ line <= Len(Text)
      /\ LinesRead \in [DOMAIN cubinSASS -> Nat] /\ LinesRead[section] = line
  BY <1>1, HereWeRead
<1>5. MapInv'
  <2>1. Mapped(cubinSASS, LinesRead, functionMap)
    BY <1>1 DEF MapInv
  <2>2. Mapped(cubinSASS, [LinesRead EXCEPT ![section] = LinesRead[section] + 1], functionMap)
    BY <1>1, <1>4, <2>1, MapStays DEF Text
  <2>. QED  BY <1>1, <1>3, <1>4, <2>2 DEF MapInv
<1>6. ~InSection'
  BY <1>3, <1>4 DEF InSection
<1>7. Outside'
  BY <1>1 DEF ScanInv, InSection, Outside, scanVars
<1>. QED  BY <1>1, <1>2, <1>3, <1>5, <1>6, <1>7 DEF ReadInv, ScanInv

\* What is known where a line is read.
LEMMA AtNextLine ==
  ASSUME place = "FillCG", ReadInv, Reading
  PROVE  /\ Text \in Seq(Lines) /\ line \in Nat /\ Len(Text) \in Nat /\ line <= Len(Text)
         /\ NextLine.kind = "header" => HasCode(Text) /\ line = 0 /\ NextLine.name = Name(Text)
         /\ HasCode(Text) => IsTextSection(Text)
         /\ HasCode(Text) /\ line = 0 => NextLine.kind = "header" /\ 0 < Len(Text)
         /\ inTextSection = (IF HasCode(Text) /\ 1 <= line THEN TRUE ELSE FALSE)
         /\ HasCode(Text) /\ 1 <= line =>
              /\ Ready(Text, line, functionMap) /\ currentFunctionName = Name(Text)
              /\ Tracked(Text, line, currentLabels, isMainFunctionSize, functionEndLabel,
                         lastAddress, alignSize)
         /\ line < Len(Text) => NextLine = Text[line + 1]
         /\ line = Len(Text) => NextLine = Blank
PROOF
<1>1. /\ IsListing(cubinSASS) /\ AtLine /\ MapInv /\ ScanInv /\ section <= Len(cubinSASS)
  BY DEF ReadInv, Reading
<1>2. /\ section \in DOMAIN cubinSASS /\ Text \in Seq(Lines) /\ line \in Nat
      /\ Len(Text) \in Nat /\ line <= Len(Text)
      /\ LinesRead \in [DOMAIN cubinSASS -> Nat] /\ LinesRead[section] = line
      /\ HasCode(Text) => IsTextSection(Text) /\ section \in TextSections(cubinSASS)
  BY <1>1, HereWeRead
<1>3. PICK N \in Nat : N = Len(Text) /\ DOMAIN Text = 1 .. N
  BY <1>2, SectionLength
<1>4. /\ line < Len(Text) => NextLine = Text[line + 1]
      /\ line = Len(Text) => NextLine = Blank
  BY <1>3 DEF NextLine
<1>5. Blank.kind # "header"
  BY DEF Blank
<1>6. ASSUME NextLine.kind = "header"
      PROVE  HasCode(Text) /\ line = 0 /\ NextLine.name = Name(Text)
  <2>1. line < N /\ Text[line + 1].kind = "header" /\ line + 1 \in DOMAIN Text
    BY <1>2, <1>3, <1>4, <1>5, <1>6
  <2>2. HasCode(Text)
    BY <2>1 DEF HasCode, LinesOf
  <2>3. line + 1 = 1
    BY <1>2, <2>1, <2>2, TextLayout
  <2>. QED  BY <1>2, <1>3, <1>4, <2>1, <2>2, <2>3 DEF Name
<1>7. ASSUME HasCode(Text), line = 0 PROVE NextLine.kind = "header" /\ 0 < N
  <2>1. Text[1].kind = "header" /\ 1 \in DOMAIN Text
    BY <1>2, <1>3, <1>7, TextLayout
  <2>. QED  BY <1>3, <1>4, <1>7, <2>1
<1>8. InSection <=> HasCode(Text) /\ 1 <= line
  BY <1>1 DEF InSection
<1>9. ASSUME HasCode(Text), 1 <= line
      PROVE  /\ Ready(Text, line, functionMap) /\ currentFunctionName = Name(Text)
             /\ Tracked(Text, line, currentLabels, isMainFunctionSize, functionEndLabel,
                        lastAddress, alignSize)
  <2>1. Inside(Text, line)
    BY <1>1, <1>8, <1>9 DEF ScanInv
  <2>2. Ready(cubinSASS[section], LinesRead[section], functionMap)
    BY <1>1, <1>2, <1>9, MapIsReady DEF MapInv
  <2>. QED  BY <1>2, <2>1, <2>2 DEF Inside, Text
<1>10. inTextSection = (IF HasCode(Text) /\ 1 <= line THEN TRUE ELSE FALSE)
  BY <1>1, <1>8 DEF ScanInv, Inside, Outside
<1>. QED  BY <1>2, <1>3, <1>4, <1>6, <1>7, <1>9, <1>10

\* The header of a section whose name is new.
LEMMA NewFunctionReads ==
  ASSUME place = "FillCG", ReadInv, NewFunction
  PROVE  ReadInv'
PROOF
<1>1. Reading /\ section <= Len(cubinSASS) /\ GetLine /\ UNCHANGED mainVars
  BY DEF NewFunction, Reading
<1>2. /\ HasCode(Text) /\ line = 0 /\ NextLine.name = Name(Text) /\ 0 < Len(Text)
      /\ Text \in Seq(Lines) /\ IsTextSection(Text)
  BY <1>1, AtNextLine DEF NewFunction
<1>3. currentLabels = {} /\ isMainFunctionSize = TRUE
  BY <1>2 DEF ReadInv, ScanInv, InSection, Outside
<1>4. Name(Text) \notin DOMAIN functionMap
  BY <1>2 DEF NewFunction
<1>5. Grown(Text, line, functionMap, functionMap')
  BY <1>2, <1>4, HeaderGrows DEF NewFunction
<1>6. Tracked(Text, line + 1, currentLabels', isMainFunctionSize', functionEndLabel',
              lastAddress', alignSize')
  <2>1. /\ currentLabels' = {} /\ isMainFunctionSize' = TRUE /\ line + 1 = 1
    BY <1>2, <1>3 DEF NewFunction
  <2>. QED  BY <1>2, <2>1, HeaderTracks
<1>7. inTextSection' = TRUE /\ currentFunctionName' = Name(Text)
  BY <1>2 DEF NewFunction
<1>8. line # Len(Text)
  BY <1>2
<1>. QED  BY <1>1, <1>2, <1>4, <1>5, <1>6, <1>7, <1>8, CodeIsRead

\* A line inside a section.
LEMMA InsideText ==
  ASSUME place = "FillCG", ReadInv, NEW kind, InText(kind)
  PROVE  /\ Reading /\ section <= Len(cubinSASS) /\ GetLine /\ NextLine.kind = kind
         /\ HasCode(Text) /\ 1 <= line
         /\ Text \in Seq(Lines) /\ IsTextSection(Text) /\ line \in Nat
         /\ line < Len(Text) => NextLine = Text[line + 1]
         /\ line < Len(Text) \/ (line = Len(Text) /\ kind = "other")
PROOF
<1>1. Reading /\ section <= Len(cubinSASS) /\ GetLine /\ NextLine.kind = kind /\ inTextSection
  BY DEF InText, Reading
<1>2. HasCode(Text) /\ 1 <= line
  BY <1>1, AtNextLine
<1>3. /\ Text \in Seq(Lines) /\ IsTextSection(Text) /\ line \in Nat /\ Len(Text) \in Nat
      /\ line <= Len(Text)
      /\ line < Len(Text) => NextLine = Text[line + 1]
      /\ line = Len(Text) => NextLine = Blank
  BY <1>1, <1>2, AtNextLine
<1>4. Blank.kind = "other"
  BY DEF Blank
<1>5. line < Len(Text) \/ line = Len(Text)
  BY <1>3
<1>6. line = Len(Text) => kind = "other"
  BY <1>1, <1>3, <1>4
<1>7. line < Len(Text) \/ (line = Len(Text) /\ kind = "other")
  BY <1>5, <1>6
<1>8. line < Len(Text) => NextLine = Text[line + 1]
  BY <1>3
<1>. QED  BY <1>1, <1>2, <1>3, <1>7, <1>8

LEMMA LabelReads ==
  ASSUME place = "FillCG", ReadInv, LabelLine
  PROVE  ReadInv'
PROOF
<1>1. InText("label") /\ UNCHANGED mainVars
  BY DEF LabelLine
<1>2. /\ Reading /\ section <= Len(cubinSASS) /\ GetLine /\ HasCode(Text) /\ 1 <= line
      /\ Text \in Seq(Lines) /\ IsTextSection(Text) /\ line \in Nat
      /\ line < Len(Text) /\ NextLine = Text[line + 1] /\ Text[line + 1].kind = "label"
  BY <1>1, InsideText
<1>3. /\ Ready(Text, line, functionMap) /\ currentFunctionName = Name(Text)
      /\ Tracked(Text, line, currentLabels, isMainFunctionSize, functionEndLabel,
                 lastAddress, alignSize) /\ inTextSection = TRUE
  BY <1>2, AtNextLine
<1>4. Grown(Text, line, functionMap, functionMap)
  BY <1>2, <1>3, QuietLineGrows
<1>5. Tracked(Text, line + 1, currentLabels', isMainFunctionSize', functionEndLabel',
              lastAddress', alignSize')
  BY <1>2, <1>3, LabelTracks DEF LabelLine
<1>6. /\ functionMap' = functionMap /\ inTextSection' = TRUE /\ currentFunctionName' = Name(Text)
  BY <1>3 DEF LabelLine
<1>7. line # Len(Text)
  BY <1>2
<1>. QED  BY <1>1, <1>2, <1>4, <1>5, <1>6, <1>7, CodeIsRead

LEMMA InstructionReads ==
  ASSUME place = "FillCG", ReadInv, InstructionLine
  PROVE  ReadInv'
PROOF
<1>1. InText("inst") /\ UNCHANGED mainVars
  BY DEF InstructionLine
<1>2. /\ Reading /\ section <= Len(cubinSASS) /\ GetLine /\ HasCode(Text) /\ 1 <= line
      /\ Text \in Seq(Lines) /\ IsTextSection(Text) /\ line \in Nat
      /\ line < Len(Text) /\ NextLine = Text[line + 1] /\ Text[line + 1].kind = "inst"
  BY <1>1, InsideText
<1>3. /\ Ready(Text, line, functionMap) /\ currentFunctionName = Name(Text)
      /\ Tracked(Text, line, currentLabels, isMainFunctionSize, functionEndLabel,
                 lastAddress, alignSize) /\ inTextSection = TRUE
  BY <1>2, AtNextLine
<1>4. Grown(Text, line, functionMap, functionMap')
  <2>1. currentLabels = NamesAt(Text, Unplaced(Text, line))
    BY <1>3 DEF Tracked
  <2>2. functionMap' =
          [functionMap EXCEPT ![Name(Text)] =
             [functionMap[Name(Text)] EXCEPT
                !.instructions = Insert(@, {Text[line + 1].address}, Text[line + 1].callee),
                !.labelMap = Insert(@, NamesAt(Text, Unplaced(Text, line)),
                                    Text[line + 1].address)]]
    BY <1>2, <1>3, <2>1 DEF InstructionLine, AddInstruction
  <2>3. Grown(Text, line, functionMap,
          [functionMap EXCEPT ![Name(Text)] =
             [functionMap[Name(Text)] EXCEPT
                !.instructions = Insert(@, {Text[line + 1].address}, Text[line + 1].callee),
                !.labelMap = Insert(@, NamesAt(Text, Unplaced(Text, line)),
                                    Text[line + 1].address)]])
    BY <1>2, <1>3, InstructionGrows, Zenon
  <2>. QED  BY <2>2, <2>3
<1>5. Tracked(Text, line + 1, currentLabels', isMainFunctionSize', functionEndLabel',
              lastAddress', alignSize')
  <2>1. /\ currentLabels' = {} /\ isMainFunctionSize' = isMainFunctionSize
        /\ functionEndLabel' = functionEndLabel /\ alignSize' = alignSize
        /\ lastAddress' = Text[line + 1].address
    BY <1>2 DEF InstructionLine
  <2>. QED  BY <1>2, <1>3, <2>1, InstructionTracks
<1>6. inTextSection' = TRUE /\ currentFunctionName' = Name(Text)
  BY <1>3 DEF InstructionLine
<1>7. line # Len(Text)
  BY <1>2
<1>. QED  BY <1>1, <1>2, <1>4, <1>5, <1>6, <1>7, CodeIsRead

\* A line that is neither, before the section's end.
LEMMA LineReads ==
  ASSUME place = "FillCG", ReadInv, NEW kind, kind \notin {"label", "inst"}, InText(kind),
         line < Len(Text), NEW fm, Grown(Text, line, functionMap, fm), NEW m, EndLabel(fm, m),
         IF kind = "align" THEN alignSize' = Text[line + 1].size ELSE alignSize' = alignSize,
         IF line + 1 = MainSize(Text)
         THEN m = FALSE /\ functionEndLabel' = Text[line + 1].end
         ELSE m = isMainFunctionSize /\ functionEndLabel' = functionEndLabel
  PROVE  ReadInv'
PROOF
<1>1. UNCHANGED <<mainVars, currentFunctionName, lastAddress>>
  BY DEF EndLabel
<1>2. /\ Reading /\ section <= Len(cubinSASS) /\ GetLine /\ HasCode(Text) /\ 1 <= line
      /\ Text \in Seq(Lines) /\ IsTextSection(Text) /\ line \in Nat
      /\ NextLine = Text[line + 1] /\ Text[line + 1].kind = kind
  BY InsideText
<1>3. /\ currentFunctionName = Name(Text)
      /\ Tracked(Text, line, currentLabels, isMainFunctionSize, functionEndLabel,
                 lastAddress, alignSize) /\ inTextSection = TRUE
  BY <1>2, AtNextLine
<1>4. functionEndLabel' \notin currentLabels
  <2>1. /\ Text[MainSize(Text)].end \notin currentLabels
        /\ line <= MainSize(Text) => currentLabels = {}
        /\ MainSize(Text) <= line => functionEndLabel = Text[MainSize(Text)].end
    BY <1>2, <1>3, EndIsToCome
  <2>2. MainSize(Text) \in Nat
    BY <1>2, TextLayout, SectionLength
  <2>3. CASE line + 1 = MainSize(Text)
    BY <2>1, <2>3
  <2>4. CASE line + 1 # MainSize(Text) /\ MainSize(Text) <= line
    BY <2>1, <2>4
  <2>5. CASE line + 1 # MainSize(Text) /\ line <= MainSize(Text)
    BY <2>1, <2>5
  <2>. QED  BY <1>2, <2>2, <2>3, <2>4, <2>5
<1>5. /\ functionMap' = fm /\ isMainFunctionSize' = m
      /\ currentLabels' = currentLabels /\ inTextSection' = inTextSection
  BY <1>4 DEF EndLabel
<1>6. Tracked(Text, line + 1, currentLabels', isMainFunctionSize', functionEndLabel',
              lastAddress', alignSize')
  BY <1>1, <1>2, <1>3, <1>5, OtherTracks
<1>7. line # Len(Text)
  BY <1>2
<1>. QED  BY <1>1, <1>2, <1>3, <1>5, <1>6, <1>7, CodeIsRead

LEMMA AlignReads ==
  ASSUME place = "FillCG", ReadInv, AlignLine
  PROVE  ReadInv'
PROOF
<1>1. /\ InText("align") /\ alignSize' = NextLine.size /\ functionEndLabel' = functionEndLabel
      /\ EndLabel(functionMap, isMainFunctionSize)
  BY DEF AlignLine
<1>2. /\ Reading /\ HasCode(Text) /\ 1 <= line /\ Text \in Seq(Lines) /\ IsTextSection(Text)
      /\ line \in Nat /\ line < Len(Text) /\ NextLine = Text[line + 1]
      /\ Text[line + 1].kind = "align"
  BY <1>1, InsideText
<1>3. Ready(Text, line, functionMap)
  BY <1>2, AtNextLine
<1>4. Grown(Text, line, functionMap, functionMap)
  BY <1>2, <1>3, QuietLineGrows
<1>5. line + 1 # MainSize(Text)
  BY <1>2, TextLayout
<1>. QED  BY <1>1, <1>2, <1>4, <1>5, LineReads

LEMMA WeakReads ==
  ASSUME place = "FillCG", ReadInv, WeakLine
  PROVE  ReadInv'
PROOF
<1>1. /\ InText("weak") /\ alignSize' = alignSize /\ functionEndLabel' = functionEndLabel
      /\ EndLabel(WithWeak(NextLine.name), isMainFunctionSize)
  BY DEF WeakLine
<1>2. /\ Reading /\ HasCode(Text) /\ 1 <= line /\ Text \in Seq(Lines) /\ IsTextSection(Text)
      /\ line \in Nat /\ line < Len(Text) /\ NextLine = Text[line + 1]
      /\ Text[line + 1].kind = "weak"
  BY <1>1, InsideText
<1>3. Ready(Text, line, functionMap) /\ currentFunctionName = Name(Text)
  BY <1>2, AtNextLine
<1>4. Grown(Text, line, functionMap, WithWeak(NextLine.name))
  BY <1>2, <1>3, WeakLineGrows DEF WithWeak
<1>5. line + 1 # MainSize(Text)
  BY <1>2, TextLayout
<1>. QED  BY <1>1, <1>2, <1>4, <1>5, LineReads

LEMMA MainSizeReads ==
  ASSUME place = "FillCG", ReadInv, MainSizeLine
  PROVE  ReadInv'
PROOF
<1>. DEFINE fm == SetFunctionEndLabel(functionMap, currentFunctionName, NextLine.end)
<1>1. /\ InText("size") /\ isMainFunctionSize /\ alignSize' = alignSize
      /\ functionEndLabel' = NextLine.end /\ EndLabel(fm, FALSE)
  BY DEF MainSizeLine
<1>2. /\ Reading /\ HasCode(Text) /\ 1 <= line /\ Text \in Seq(Lines) /\ IsTextSection(Text)
      /\ line \in Nat /\ line < Len(Text) /\ NextLine = Text[line + 1]
      /\ Text[line + 1].kind = "size"
  BY <1>1, InsideText
<1>3. /\ Ready(Text, line, functionMap) /\ currentFunctionName = Name(Text)
      /\ Tracked(Text, line, currentLabels, isMainFunctionSize, functionEndLabel,
                 lastAddress, alignSize)
  BY <1>2, AtNextLine
<1>4. line + 1 = MainSize(Text)
  <2>1. line < MainSize(Text)
    BY <1>1, <1>3 DEF Tracked
  <2>2. MainSize(Text) \in Nat /\ line + 1 \in DOMAIN Text
    BY <1>2, TextLayout, SectionLength
  <2>3. MainSize(Text) <= line + 1
    BY <1>2, <2>2, TextLayout
  <2>. QED  BY <1>2, <2>1, <2>2, <2>3
<1>5. Grown(Text, line, functionMap, fm)
  BY <1>2, <1>3, <1>4, MainSizeGrows
<1>. HIDE DEF fm
<1>. QED  BY <1>1, <1>2, <1>4, <1>5, LineReads

LEMMA WeakSizeReads ==
  ASSUME place = "FillCG", ReadInv, WeakSizeLine
  PROVE  ReadInv'
PROOF
<1>. DEFINE fm == SetFunctionEndLabel(WithWeak(NextLine.name), NextLine.name, NextLine.end)
<1>1. /\ InText("size") /\ ~isMainFunctionSize /\ alignSize' = alignSize
      /\ functionEndLabel' = functionEndLabel /\ EndLabel(fm, FALSE)
  BY DEF WeakSizeLine
<1>2. /\ Reading /\ HasCode(Text) /\ 1 <= line /\ Text \in Seq(Lines) /\ IsTextSection(Text)
      /\ line \in Nat /\ line < Len(Text) /\ NextLine = Text[line + 1]
      /\ Text[line + 1].kind = "size"
  BY <1>1, InsideText
<1>3. /\ Ready(Text, line, functionMap) /\ currentFunctionName = Name(Text)
      /\ Tracked(Text, line, currentLabels, isMainFunctionSize, functionEndLabel,
                 lastAddress, alignSize)
  BY <1>2, AtNextLine
<1>4. ~(line < MainSize(Text)) /\ isMainFunctionSize = FALSE
  BY <1>1, <1>3 DEF Tracked
<1>5. line + 1 # MainSize(Text) /\ line + 1 \in WeakSizes(Text)
  <2>1. MainSize(Text) \in Nat /\ line + 1 \in DOMAIN Text
    BY <1>2, TextLayout, SectionLength
  <2>2. line + 1 # MainSize(Text)
    BY <1>2, <1>4, <2>1
  <2>. QED  BY <1>2, <2>1, <2>2, SizeLines
<1>6. Grown(Text, line, functionMap, fm)
  BY <1>2, <1>3, <1>5, WeakSizeGrows DEF WithWeak
<1>. HIDE DEF fm
<1>. QED  BY <1>1, <1>2, <1>4, <1>5, <1>6, LineReads

\* Another line; the empty one after the section ends it.
LEMMA OtherReads ==
  ASSUME place = "FillCG", ReadInv, OtherLine
  PROVE  ReadInv'
PROOF
<1>1. /\ InText("other") /\ alignSize' = alignSize /\ functionEndLabel' = functionEndLabel
      /\ EndLabel(functionMap, isMainFunctionSize)
  BY DEF OtherLine
<1>2. /\ Reading /\ section <= Len(cubinSASS) /\ GetLine /\ NextLine.kind = "other"
      /\ HasCode(Text) /\ 1 <= line /\ Text \in Seq(Lines) /\ IsTextSection(Text)
      /\ line \in Nat /\ (line < Len(Text) \/ line = Len(Text))
      /\ line < Len(Text) => NextLine = Text[line + 1]
  BY <1>1, InsideText
<1>3. /\ Ready(Text, line, functionMap) /\ currentFunctionName = Name(Text)
      /\ Tracked(Text, line, currentLabels, isMainFunctionSize, functionEndLabel,
                 lastAddress, alignSize)
  BY <1>2, AtNextLine
<1>4. CASE line < Len(Text)
  <2>1. Text[line + 1].kind = "other"
    BY <1>2, <1>4
  <2>2. Grown(Text, line, functionMap, functionMap)
    BY <1>2, <1>3, <1>4, <2>1, QuietLineGrows
  <2>3. line + 1 # MainSize(Text)
    BY <1>2, <2>1, TextLayout
  <2>. QED  BY <1>1, <1>4, <2>2, <2>3, LineReads
<1>5. CASE line = Len(Text)
  <2>. DEFINE a == lastAddress + alignSize
  <2>1. /\ functionEndLabel \in currentLabels
        /\ a = Text[Final(LinesOf(Text, "inst"))].address
                 + Text[Final(LinesOf(Text, "align"))].size
    BY <1>2, <1>3, <1>5, EndIsThere
  <2>2. currentLabels = NamesAt(Text, Unplaced(Text, line))
    BY <1>3 DEF Tracked
  <2>3. /\ functionMap' = AddInstruction(functionMap, a, None)
        /\ currentLabels' = {} /\ inTextSection' = FALSE /\ isMainFunctionSize' = TRUE
        /\ UNCHANGED mainVars
    BY <1>1, <2>1 DEF EndLabel
  <2>. HIDE DEF a
  <2>4. functionMap' =
          [functionMap EXCEPT ![Name(Text)] =
             [functionMap[Name(Text)] EXCEPT
                !.instructions = Insert(@, {a}, None),
                !.labelMap = Insert(@, NamesAt(Text, Unplaced(Text, line)), a)]]
    BY <1>3, <2>2, <2>3 DEF AddInstruction
  <2>5. Grown(Text, line, functionMap,
          [functionMap EXCEPT ![Name(Text)] =
             [functionMap[Name(Text)] EXCEPT
                !.instructions = Insert(@, {a}, None),
                !.labelMap = Insert(@, NamesAt(Text, Unplaced(Text, line)), a)]])
    BY <1>2, <1>3, <1>5, <2>1, EndGrows, Zenon
  <2>6. Grown(Text, line, functionMap, functionMap')
    BY <2>4, <2>5
  <2>7. ~(line < Len(Text))
    BY <1>2, <1>5
  <2>. QED  BY <1>2, <2>3, <2>6, <2>7, CodeIsRead
<1>. QED  BY <1>2, <1>4, <1>5

LEMMA OutsideReads ==
  ASSUME place = "FillCG", ReadInv, OutsideText
  PROVE  ReadInv'
PROOF
<1>1. /\ Reading /\ section <= Len(cubinSASS) /\ NextLine.kind # "header" /\ ~inTextSection
      /\ GetLine /\ UNCHANGED <<mainVars, functionMap, scanVars>>
  BY DEF OutsideText, Reading
<1>2. ~HasCode(Text)
  <2>1. SUFFICES ASSUME HasCode(Text) PROVE FALSE
    OBVIOUS
  <2>2. line \in Nat /\ ~(1 <= line)
    BY <1>1, <2>1, AtNextLine
  <2>3. line = 0
    BY <2>2
  <2>. QED  BY <1>1, <2>1, <2>3, AtNextLine
<1>. QED  BY <1>1, <1>2, OtherIsRead

\* A name that comes twice.
LEMMA DuplicateIsThere ==
  ASSUME place = "FillCG", ReadInv, DuplicateName
  PROVE  Duplicated(cubinSASS)
PROOF
<1>1. /\ Reading /\ section <= Len(cubinSASS) /\ NextLine.kind = "header"
      /\ NextLine.name \in DOMAIN functionMap
  BY DEF DuplicateName, Reading
<1>2. IsListing(cubinSASS) /\ AtLine /\ Mapped(cubinSASS, LinesRead, functionMap)
  BY DEF ReadInv, MapInv
<1>3. HasCode(Text) /\ line = 0 /\ NextLine.name = Name(Text)
  BY <1>1, AtNextLine
<1>4. /\ section \in TextSections(cubinSASS) /\ LinesRead[section] = 0
      /\ LinesRead \in [DOMAIN cubinSASS -> Nat]
  BY <1>1, <1>2, <1>3, HereWeRead
<1>. QED  BY <1>1, <1>2, <1>3, <1>4, NameIsRepeated DEF Text

-----------------------------------------------------------------------------
(* When the listing is read, the map says what the listing does.           *)

\* All lines of section S are read.
Done(S) == Len(S) + 1

\* The instructions of the section and what they call, and one at its end.
Called(S, instructions) ==
  /\ \A k \in LinesOf(S, "inst") :
       /\ S[k].address \in DOMAIN instructions
       /\ instructions[S[k].address] = S[k].callee
  /\ \A a \in DOMAIN instructions :
       (\E k \in LinesOf(S, "inst") : S[k].address = a) \/ instructions[a] = None

\* The labels and the calls of a section are those of its function's record.
LEMMA MainIsRead ==
  ASSUME NEW S, S \in Seq(Lines), IsTextSection(S), NEW F, MainRead(S, Done(S), F)
  PROVE  /\ F.weak = FALSE
         /\ F.functionEndLabel = S[MainSize(S)].end /\ HasLabel(S, S[MainSize(S)].end)
         /\ \A l : l \in DOMAIN F.labelMap <=> HasLabel(S, l)
         /\ \A l : HasLabel(S, l) => F.labelMap[l] = AddressOf(S, l)
         /\ Called(S, F.instructions)
PROOF
<1>1. PICK N \in Nat : N = Len(S) /\ DOMAIN S = 1 .. N
  BY SectionLength
<1>2. /\ MainSize(S) \in DOMAIN S /\ N \in DOMAIN S /\ S[N].kind = "label"
      /\ S[N].name = S[MainSize(S)].end
  BY <1>1, TextLayout
<1>3. \A kind : Upto(S, kind, Done(S)) = LinesOf(S, kind)
  BY <1>1 DEF Upto, LinesOf, Done
<1>4. Placed(S, Done(S)) = LinesOf(S, "label")
  BY <1>1, <1>3 DEF Placed, Done
<1>5. MainSize(S) <= Done(S)
  BY <1>1, <1>2 DEF Done
<1>6. F.weak = FALSE /\ F.functionEndLabel = S[MainSize(S)].end
  BY <1>5 DEF MainRead
<1>7. HasLabel(S, S[MainSize(S)].end)
  BY <1>2 DEF HasLabel, LinesOf
<1>8. /\ DOMAIN F.labelMap = NamesAt(S, LinesOf(S, "label"))
      /\ \A k \in LinesOf(S, "label") : F.labelMap[S[k].name] = AddressAt(S, k)
  BY <1>4 DEF MainRead, Labelled
<1>9. \A l : l \in DOMAIN F.labelMap <=> HasLabel(S, l)
  BY <1>8 DEF HasLabel, NamesAt
<1>10. ASSUME NEW l, HasLabel(S, l) PROVE F.labelMap[l] = AddressOf(S, l)
  <2>. DEFINE k == CHOOSE k \in LinesOf(S, "label") : S[k].name = l
  <2>1. k \in LinesOf(S, "label") /\ S[k].name = l
    BY <1>10 DEF HasLabel
  <2>2. AddressOf(S, l) = AddressAt(S, k)
    BY DEF AddressOf
  <2>. HIDE DEF k
  <2>. QED  BY <1>8, <2>1, <2>2
<1>11. Called(S, F.instructions)
  BY <1>3 DEF MainRead, Listed, Called
<1>. QED  BY <1>6, <1>7, <1>9, <1>10, <1>11

\* The least of one number.
LEMMA FirstOfOne ==
  ASSUME NEW k \in Nat
  PROVE  First({k}) = k
PROOF
<1>1. First({k}) \in {k}
  BY FirstIsLeast
<1>. QED  BY <1>1

\* The function of a section ...
LEMMA MainNode ==
  ASSUME NEW S, S \in Seq(Lines), IsTextSection(S), NEW fm, Name(S) \in DOMAIN fm,
         MainRead(S, Done(S), fm[Name(S)])
  PROVE  /\ ~Endless(S, Name(S))
         /\ fm[Name(S)].functionEndLabel \in DOMAIN LabelsFor(fm, Name(S))
         /\ LabelsFor(fm, Name(S))[fm[Name(S)].functionEndLabel]
              = AddressOf(S, S[First(SizesOf(S, Name(S)))].end)
         /\ fm[Name(S)].weak = FALSE
PROOF
<1>. DEFINE F == fm[Name(S)]
<1>1. /\ F.weak = FALSE
      /\ F.functionEndLabel = S[MainSize(S)].end /\ HasLabel(S, S[MainSize(S)].end)
      /\ \A l : l \in DOMAIN F.labelMap <=> HasLabel(S, l)
      /\ \A l : HasLabel(S, l) => F.labelMap[l] = AddressOf(S, l)
  BY MainIsRead
<1>2. LabelsFor(fm, Name(S)) = F.labelMap
  BY <1>1 DEF LabelsFor
<1>3. SizesOf(S, Name(S)) = {MainSize(S)}
  BY DEF SizesOf
<1>4. MainSize(S) \in Nat
  BY TextLayout, SectionLength
<1>5. First(SizesOf(S, Name(S))) = MainSize(S)
  BY <1>3, <1>4, FirstOfOne
<1>6. ~Endless(S, Name(S))
  BY <1>1, <1>3 DEF Endless
<1>. QED  BY <1>1, <1>2, <1>5, <1>6

\* ... and a weak one.
LEMMA WeakNode ==
  ASSUME NEW S, S \in Seq(Lines), IsTextSection(S), NEW fm, Name(S) \in DOMAIN fm,
         MainRead(S, Done(S), fm[Name(S)]), NEW g \in FunctionsOf(S), g # Name(S),
         WeakRead(S, Done(S), fm[g], g)
  PROVE  /\ fm[g].functionEndLabel \in DOMAIN LabelsFor(fm, g) <=> ~Endless(S, g)
         /\ ~Endless(S, g) => LabelsFor(fm, g)[fm[g].functionEndLabel]
                                = AddressOf(S, S[First(SizesOf(S, g))].end)
         /\ fm[g].weak = TRUE
         /\ g \in DOMAIN LabelsFor(fm, g) <=> HasLabel(S, g)
         /\ HasLabel(S, g) => LabelsFor(fm, g)[g] = AddressOf(S, g)
PROOF
<1>. DEFINE F == fm[Name(S)]
<1>1. /\ \A l : l \in DOMAIN F.labelMap <=> HasLabel(S, l)
      /\ \A l : HasLabel(S, l) => F.labelMap[l] = AddressOf(S, l)
  BY MainIsRead
<1>2. fm[g].weak = TRUE /\ fm[g].parentFunctionName = Name(S)
  BY DEF WeakRead
<1>3. LabelsFor(fm, g) = F.labelMap
  BY <1>2 DEF LabelsFor
<1>4. SizesOf(S, g) = {k \in WeakSizes(S) : S[k].name = g}
  BY DEF SizesOf
<1>5. PICK N \in Nat : N = Len(S) /\ DOMAIN S = 1 .. N
  BY SectionLength
<1>6. \A k \in WeakSizes(S) : k \in Nat /\ k <= Done(S)
  BY <1>5, SizeLines DEF Done
<1>7. CASE \E k \in WeakSizes(S) : S[k].name = g
  <2>1. PICK k \in WeakSizes(S) : S[k].name = g
    BY <1>7
  <2>2. SizesOf(S, g) = {k}
    BY <1>4, <2>1 DEF IsTextSection
  <2>3. First(SizesOf(S, g)) = k
    BY <1>6, <2>2, FirstOfOne
  <2>4. fm[g].functionEndLabel = S[k].end
    BY <1>6, <2>1 DEF WeakRead
  <2>5. Endless(S, g) <=> ~HasLabel(S, S[k].end)
    BY <2>2 DEF Endless
  <2>. QED  BY <1>1, <1>2, <1>3, <2>3, <2>4, <2>5
<1>8. CASE \A k \in WeakSizes(S) : S[k].name # g
  <2>1. fm[g].functionEndLabel = None
    BY <1>8 DEF WeakRead
  <2>2. ~HasLabel(S, None)
    BY DEF IsTextSection, HasLabel
  <2>3. Endless(S, g)
    BY <1>4, <1>8 DEF Endless
  <2>. QED  BY <1>1, <1>2, <1>3, <2>1, <2>2, <2>3
<1>. QED  BY <1>7, <1>8

\* The map has a record of each function of the listing, and the node that is made
\* of it is the function's, if the function's end is said.
LEMMA NodesAreRight ==
  ASSUME NEW S, S \in Seq(Lines), IsTextSection(S), NEW fm, SectionRead(S, Done(S), fm),
         NEW f \in FunctionsOf(S)
  PROVE  /\ f \in DOMAIN fm
         /\ fm[f].functionEndLabel \in DOMAIN LabelsFor(fm, f) <=> ~Endless(S, f)
         /\ ~Endless(S, f) =>
              [funcName |-> f, addrEnd |-> LabelsFor(fm, f)[fm[f].functionEndLabel],
               addrBegin |-> IF fm[f].weak /\ f \in DOMAIN LabelsFor(fm, f)
                             THEN LabelsFor(fm, f)[f] ELSE 0] = FunctionNode(S, f)
PROOF
<1>1. PICK N \in Nat : N = Len(S) /\ DOMAIN S = 1 .. N
  BY SectionLength
<1>2. Done(S) \in Nat /\ 1 <= Done(S) /\ Len(S) <= Done(S)
  BY <1>1 DEF Done
<1>3. Known(S, Done(S)) = FunctionsOf(S) /\ HasCode(S)
  BY <1>2, KnownStep, TextLayout
<1>4. /\ Name(S) \in DOMAIN fm /\ MainRead(S, Done(S), fm[Name(S)])
      /\ \A g \in FunctionsOf(S) \ {Name(S)} : g \in DOMAIN fm /\ WeakRead(S, Done(S), fm[g], g)
  BY <1>2, <1>3 DEF SectionRead
<1>5. CASE f = Name(S)
  <2>1. /\ ~Endless(S, f) /\ f \in DOMAIN fm
        /\ fm[f].functionEndLabel \in DOMAIN LabelsFor(fm, f)
        /\ LabelsFor(fm, f)[fm[f].functionEndLabel] = AddressOf(S, S[First(SizesOf(S, f))].end)
        /\ fm[f].weak = FALSE
    BY <1>4, <1>5, MainNode
  <2>. QED  BY <1>5, <2>1, Zenon DEF FunctionNode
<1>6. CASE f # Name(S)
  <2>1. WeakRead(S, Done(S), fm[f], f) /\ f \in DOMAIN fm
    BY <1>4, <1>6
  <2>2. /\ fm[f].functionEndLabel \in DOMAIN LabelsFor(fm, f) <=> ~Endless(S, f)
        /\ ~Endless(S, f) => LabelsFor(fm, f)[fm[f].functionEndLabel]
                               = AddressOf(S, S[First(SizesOf(S, f))].end)
        /\ fm[f].weak = TRUE
        /\ f \in DOMAIN LabelsFor(fm, f) <=> HasLabel(S, f)
        /\ HasLabel(S, f) => LabelsFor(fm, f)[f] = AddressOf(S, f)
    BY <1>4, <1>6, <2>1, WeakNode
  <2>3. (IF fm[f].weak /\ f \in DOMAIN LabelsFor(fm, f) THEN LabelsFor(fm, f)[f] ELSE 0)
          = IF f # Name(S) /\ HasLabel(S, f) THEN AddressOf(S, f) ELSE 0
    BY <1>6, <2>2
  <2>. QED  BY <2>1, <2>2, <2>3 DEF FunctionNode
<1>. QED  BY <1>5, <1>6

\* What the map holds of a listing that is read.
Told(secs, fm) ==
  /\ IsListing(secs) /\ ~Duplicated(secs) /\ DOMAIN fm = Names(secs)
  /\ \A i \in TextSections(secs) : SectionRead(secs[i], Done(secs[i]), fm)

LEMMA ListingIsTold ==
  ASSUME place = "FillCG", ReadInv, ListingRead
  PROVE  Told(cubinSASS, functionMap)
PROOF
<1>1. /\ IsListing(cubinSASS) /\ AtLine /\ section > Len(cubinSASS)
      /\ Mapped(cubinSASS, LinesRead, functionMap)
  BY DEF ReadInv, MapInv, ListingRead
<1>2. \A i \in DOMAIN cubinSASS : LinesRead[i] = Done(cubinSASS[i])
  <2>1. SUFFICES ASSUME NEW i \in DOMAIN cubinSASS PROVE i < section
    BY DEF LinesRead, Done
  <2>2. i \in Nat /\ i <= Len(cubinSASS) /\ Len(cubinSASS) \in Nat
    BY <1>1, SectionOf
  <2>3. section \in Nat
    BY <1>1, <2>2 DEF AtLine
  <2>. QED  BY <1>1, <2>2, <2>3
<1>3. \A i \in DOMAIN cubinSASS : 1 <= Done(cubinSASS[i]) /\ Len(cubinSASS[i]) <= Done(cubinSASS[i])
                                   /\ Done(cubinSASS[i]) \in Nat
  BY <1>1, SectionOf, SectionLength DEF Done
<1>4. TextSections(cubinSASS) \subseteq DOMAIN cubinSASS
  BY DEF TextSections
<1>5. ~Duplicated(cubinSASS)
  BY <1>1, <1>2, <1>3, <1>4 DEF Duplicated, Mapped
<1>6. \A i \in DOMAIN cubinSASS : Known(cubinSASS[i], LinesRead[i]) = FunctionsOf(cubinSASS[i])
  <2>1. SUFFICES ASSUME NEW i \in DOMAIN cubinSASS
                 PROVE  Known(cubinSASS[i], Done(cubinSASS[i])) = FunctionsOf(cubinSASS[i])
    BY <1>2
  <2>2. CASE HasCode(cubinSASS[i])
    BY <1>1, <1>3, <2>2, SectionOf, KnownStep
  <2>3. CASE ~HasCode(cubinSASS[i])
    BY <2>3 DEF Known, FunctionsOf
  <2>. QED  BY <2>2, <2>3
<1>7. DOMAIN functionMap = Names(cubinSASS)
  BY <1>1, <1>6 DEF Mapped, Names
<1>8. \A i \in TextSections(cubinSASS) :
        SectionRead(cubinSASS[i], Done(cubinSASS[i]), functionMap)
  BY <1>1, <1>2, <1>4 DEF Mapped
<1>. QED  BY <1>1, <1>5, <1>7, <1>8 DEF Told

\* A function of the listing is one of a section of code.
LEMMA NamesHaveSections ==
  ASSUME NEW secs, IsListing(secs), NEW f
  PROVE  /\ f \in Names(secs) <=> \E i \in TextSections(secs) : f \in FunctionsOf(secs[i])
         /\ f \in Names(secs) => f # None
         /\ \A i \in TextSections(secs) : /\ i \in DOMAIN secs /\ secs[i] \in Seq(Lines)
                                          /\ IsTextSection(secs[i]) /\ HasCode(secs[i])
PROOF
<1>1. \A i \in TextSections(secs) : /\ i \in DOMAIN secs /\ secs[i] \in Seq(Lines)
                                    /\ IsTextSection(secs[i]) /\ HasCode(secs[i])
  BY SectionOf DEF TextSections
<1>2. \A i \in DOMAIN secs : f \in FunctionsOf(secs[i]) => i \in TextSections(secs)
  BY DEF TextSections, FunctionsOf
<1>3. f \in Names(secs) <=> \E i \in TextSections(secs) : f \in FunctionsOf(secs[i])
  BY <1>1, <1>2 DEF Names
<1>4. f \in Names(secs) => f # None
  BY <1>1, <1>3 DEF IsTextSection
<1>. QED  BY <1>1, <1>3, <1>4

\* The null pointer is read if the end of a function is not said.
LEMMA CrashIsRight ==
  ASSUME NEW secs, NEW fm, Told(secs, fm)
  PROVE  Crashes(fm) <=> CannotEnd(secs)
PROOF
<1>1. IsListing(secs) /\ ~Duplicated(secs) /\ DOMAIN fm = Names(secs)
  BY DEF Told
<1>2. \A i \in TextSections(secs) : \A f \in FunctionsOf(secs[i]) :
        fm[f].functionEndLabel \in DOMAIN LabelsFor(fm, f) <=> ~Endless(secs[i], f)
  BY <1>1, NamesHaveSections, NodesAreRight DEF Told
<1>3. CannotEnd(secs) <=>
        \E i \in TextSections(secs) : \E f \in FunctionsOf(secs[i]) : Endless(secs[i], f)
  BY <1>1, NamesHaveSections DEF CannotEnd, FunctionsOf, TextSections
<1>4. Crashes(fm) <=>
        \E i \in TextSections(secs) : \E f \in FunctionsOf(secs[i]) :
          fm[f].functionEndLabel \notin DOMAIN LabelsFor(fm, f)
  BY <1>1, NamesHaveSections DEF Crashes
<1>. QED  BY <1>2, <1>3, <1>4

\* The edges are the calls.
LEMMA EdgesAreRight ==
  ASSUME NEW secs, NEW fm, Told(secs, fm)
  PROVE  Edges(fm) = UNION {Calls(secs[i], Names(secs)) : i \in TextSections(secs)}
PROOF
<1>1. IsListing(secs) /\ DOMAIN fm = Names(secs)
  BY DEF Told
<1>. DEFINE EdgesOf(f) == {[src |-> f, pc |-> a, dst |-> fm[f].instructions[a]] :
                             a \in {b \in DOMAIN fm[f].instructions :
                                      fm[f].instructions[b] \in DOMAIN fm}}
<1>2. Edges(fm) = UNION {EdgesOf(f) : f \in Names(secs)}
  BY <1>1 DEF Edges
<1>3. ASSUME NEW i \in TextSections(secs)
      PROVE  /\ EdgesOf(Name(secs[i])) = Calls(secs[i], Names(secs))
             /\ \A f \in FunctionsOf(secs[i]) \ {Name(secs[i])} : EdgesOf(f) = {}
  <2>. DEFINE S == secs[i]
  <2>1. S \in Seq(Lines) /\ IsTextSection(S) /\ HasCode(S) /\ SectionRead(S, Done(S), fm)
    BY <1>1, NamesHaveSections DEF Told
  <2>2. Done(S) \in Nat /\ 1 <= Done(S) /\ Len(S) <= Done(S)
    BY <2>1, SectionLength DEF Done
  <2>3. Known(S, Done(S)) = FunctionsOf(S)
    BY <2>1, <2>2, KnownStep
  <2>. HIDE DEF S
  <2>4. /\ MainRead(S, Done(S), fm[Name(S)])
        /\ \A g \in FunctionsOf(S) \ {Name(S)} : WeakRead(S, Done(S), fm[g], g)
    BY <2>1, <2>2, <2>3 DEF SectionRead
  <2>5. ASSUME NEW f \in FunctionsOf(S) \ {Name(S)} PROVE EdgesOf(f) = {}
    <3>1. fm[f].instructions = NoEntries
      BY <2>4 DEF WeakRead
    <3>2. DOMAIN fm[f].instructions = {}
      BY <3>1 DEF NoEntries
    <3>. QED  BY <3>2
  <2>. DEFINE I == fm[Name(S)].instructions
  <2>6. Called(S, I)
    BY <2>1, <2>4, MainIsRead
  <2>7. None \notin DOMAIN fm
    BY <1>1, NamesHaveSections
  <2>8. EdgesOf(Name(S)) = {[src |-> Name(S), pc |-> a, dst |-> I[a]] :
                              a \in {b \in DOMAIN I : I[b] \in DOMAIN fm}}
    OBVIOUS
  <2>. HIDE DEF I, EdgesOf
  <2>9. ASSUME NEW a \in DOMAIN I, I[a] \in DOMAIN fm
        PROVE  [src |-> Name(S), pc |-> a, dst |-> I[a]] \in Calls(S, Names(secs))
    <3>1. PICK k \in LinesOf(S, "inst") : S[k].address = a
      BY <2>6, <2>7, <2>9 DEF Called
    <3>2. I[a] = S[k].callee
      BY <2>6, <3>1 DEF Called
    <3>. QED  BY <1>1, <2>9, <3>1, <3>2 DEF Calls
  <2>10. ASSUME NEW k \in LinesOf(S, "inst"), S[k].callee \in Names(secs)
         PROVE  [src |-> Name(S), pc |-> S[k].address, dst |-> S[k].callee] \in EdgesOf(Name(S))
    BY <1>1, <2>6, <2>8, <2>10 DEF Called
  <2>11. EdgesOf(Name(S)) = Calls(S, Names(secs))
    <3>1. EdgesOf(Name(S)) \subseteq Calls(S, Names(secs))
      BY <2>8, <2>9
    <3>2. Calls(S, Names(secs)) \subseteq EdgesOf(Name(S))
      BY <2>10 DEF Calls
    <3>. QED  BY <3>1, <3>2
  <2>. QED  BY <2>5, <2>11 DEF S
<1>. HIDE DEF EdgesOf
<1>4. \A i \in TextSections(secs) : Name(secs[i]) \in FunctionsOf(secs[i])
  BY <1>1, NamesHaveSections DEF FunctionsOf
<1>5. \A f \in Names(secs) : \E i \in TextSections(secs) : f \in FunctionsOf(secs[i])
  BY <1>1, NamesHaveSections
<1>6. \A i \in TextSections(secs) : Name(secs[i]) \in Names(secs)
  BY <1>1, <1>4, NamesHaveSections
<1>7. \A f \in Names(secs) : EdgesOf(f) # {} =>
        \E i \in TextSections(secs) : EdgesOf(f) = Calls(secs[i], Names(secs))
  BY <1>3, <1>5
<1>. QED  BY <1>2, <1>3, <1>6, <1>7

\* The graph is the listing's.
LEMMA GraphIsRight ==
  ASSUME NEW secs, NEW fm, Told(secs, fm), ~Crashes(fm)
  PROVE  [nodes |-> Nodes(fm), edges |-> Edges(fm)] = GraphOf(secs)
PROOF
<1>1. IsListing(secs) /\ ~Duplicated(secs) /\ DOMAIN fm = Names(secs)
  BY DEF Told
<1>. DEFINE NodeOf(f) ==
       [funcName |-> f, addrEnd |-> LabelsFor(fm, f)[fm[f].functionEndLabel],
        addrBegin |-> IF fm[f].weak /\ f \in DOMAIN LabelsFor(fm, f)
                      THEN LabelsFor(fm, f)[f] ELSE 0]
<1>2. Nodes(fm) = {NodeOf(f) : f \in Names(secs)}
  BY <1>1 DEF Nodes
<1>3. \A i \in TextSections(secs) : \A f \in FunctionsOf(secs[i]) :
        NodeOf(f) = FunctionNode(secs[i], f)
  <2>1. SUFFICES ASSUME NEW i \in TextSections(secs), NEW f \in FunctionsOf(secs[i])
                 PROVE  NodeOf(f) = FunctionNode(secs[i], f)
    OBVIOUS
  <2>2. /\ secs[i] \in Seq(Lines) /\ IsTextSection(secs[i])
        /\ SectionRead(secs[i], Done(secs[i]), fm) /\ f \in DOMAIN fm
    BY <1>1, NamesHaveSections DEF Told
  <2>3. fm[f].functionEndLabel \in DOMAIN LabelsFor(fm, f)
    BY <2>2 DEF Crashes
  <2>. QED  BY <2>2, <2>3, NodesAreRight
<1>. HIDE DEF NodeOf
<1>. DEFINE NodesOf(i) == {FunctionNode(secs[i], f) : f \in FunctionsOf(secs[i])}
<1>4. \A i \in DOMAIN secs : i \in TextSections(secs) \/ FunctionsOf(secs[i]) = {}
  BY DEF TextSections, FunctionsOf
<1>5. Nodes(fm) = UNION {NodesOf(i) : i \in DOMAIN secs}
  <2>1. ASSUME NEW x \in Nodes(fm) PROVE \E i \in DOMAIN secs : x \in NodesOf(i)
    <3>1. PICK f \in Names(secs) : x = NodeOf(f)
      BY <1>2
    <3>2. PICK i \in TextSections(secs) : f \in FunctionsOf(secs[i])
      BY <1>1, NamesHaveSections
    <3>. QED  BY <1>1, <1>3, <3>1, <3>2, NamesHaveSections
  <2>2. ASSUME NEW i \in DOMAIN secs, NEW x \in NodesOf(i) PROVE x \in Nodes(fm)
    <3>1. PICK f \in FunctionsOf(secs[i]) : x = FunctionNode(secs[i], f)
      OBVIOUS
    <3>2. i \in TextSections(secs)
      BY <1>4
    <3>3. f \in Names(secs)
      BY <1>1, <3>2, NamesHaveSections
    <3>. QED  BY <1>2, <1>3, <3>1, <3>2, <3>3
  <2>. HIDE DEF NodesOf
  <2>. QED  BY <2>1, <2>2
<1>6. GraphOf(secs) = [nodes |-> UNION {NodesOf(i) : i \in DOMAIN secs},
                       edges |-> UNION {Calls(secs[i], Names(secs)) : i \in TextSections(secs)}]
  BY <1>1 DEF GraphOf
<1>. HIDE DEF NodesOf
<1>. QED  BY <1>5, <1>6, EdgesAreRight

-----------------------------------------------------------------------------
(* The files.                                                              *)

\* Where the main loop is.
LEMMA FileIsThere ==
  ASSUME FilesInv, cnt < Len(cubinFilePath)
  PROVE  /\ cnt \in Nat /\ Len(cubinFilePath) \in Nat /\ cnt + 1 \in 0 .. Len(cubinFilePath)
         /\ \A i \in 1 .. cnt + 1 : i \in 1 .. cnt \/ i = cnt + 1
         /\ File = cubinFilePath[cnt + 1] /\ File \in Range(cubinFilePath)
         /\ IsFile(File) /\ IsListing(GetCubinSASS(File))
PROOF
<1>. DEFINE R == Range(cubinFilePath)
<1>1. cubinFilePath \in Seq(R) /\ cnt \in 0 .. Len(cubinFilePath)
  BY DEF FilesInv
<1>. HIDE DEF R
<1>2. PICK N \in Nat : N = Len(cubinFilePath) /\ DOMAIN cubinFilePath = 1 .. N
  BY <1>1, LenProperties
<1>3. cnt \in Nat /\ cnt + 1 \in 1 .. N
  BY <1>1, <1>2
<1>4. File = cubinFilePath[cnt + 1] /\ File \in Range(cubinFilePath)
  BY <1>2, <1>3 DEF File, Range
<1>5. IsFile(File)
  BY <1>4 DEF FilesInv
<1>6. IsListing(<<>>)
  BY DEF IsListing
<1>7. IsListing(GetCubinSASS(File))
  BY <1>5, <1>6 DEF GetCubinSASS, IsFile
<1>. QED  BY <1>2, <1>3, <1>4, <1>5, <1>7

\* A file that is done: it has a graph, needs none or had no listing.
LEMMA FileIsDone ==
  ASSUME FilesInv, GraphInv, cnt < Len(cubinFilePath),
         cnt' = cnt + 1, place' = "main", UNCHANGED <<cubinFilePath, graphFileSet>>,
         noSass \subseteq noSass', DOMAIN graphs \subseteq DOMAIN graphs',
         File.cubin /\ File \notin noSass' => GetCubinCrc(File) \in DOMAIN graphs'
  PROVE  FilesInv'
PROOF
<1>1. /\ cubinFilePath \in Seq(Range(cubinFilePath)) /\ \A f \in Range(cubinFilePath) : IsFile(f)
      /\ graphFileSet \subseteq DOMAIN graphs
      /\ \A i \in 1 .. cnt : cubinFilePath[i].cubin /\ cubinFilePath[i] \notin noSass =>
                               GetCubinCrc(cubinFilePath[i]) \in DOMAIN graphs
  BY DEF FilesInv
<1>2. /\ cnt + 1 \in 0 .. Len(cubinFilePath) /\ File = cubinFilePath[cnt + 1]
      /\ \A i \in 1 .. cnt + 1 : i \in 1 .. cnt \/ i = cnt + 1
  BY FileIsThere
<1>3. \A f : GetCubinCrc(f)' = GetCubinCrc(f) /\ IsFile(f)' = IsFile(f)
  BY DEF GetCubinCrc, IsFile
<1>4. \A i \in 1 .. cnt' : cubinFilePath[i].cubin /\ cubinFilePath[i] \notin noSass' =>
                             GetCubinCrc(cubinFilePath[i]) \in DOMAIN graphs'
  BY <1>1, <1>2
<1>5. /\ place' # "over" /\ place' # "crash" /\ place' # "idle"
      /\ place' \in {"idle", "main", "FillCG", "over", "crash"}
  OBVIOUS
<1>. QED  BY <1>1, <1>2, <1>4, <1>5 DEF FilesInv

LEMMA GraphsStay ==
  ASSUME GraphInv, UNCHANGED <<cubinFilePath, graphs>>
  PROVE  GraphInv'
PROOF
BY DEF GraphInv

\* A graph is written.
LEMMA GraphIsWritten ==
  ASSUME FilesInv, GraphInv, place = "FillCG", OpenFile, NEW graph, DumpGraph2File(graph),
         ~CannotEnd(cubinSASS), graph = GraphOf(cubinSASS)
  PROVE  FilesInv' /\ GraphInv' /\ place' = "main"
PROOF
<1>. DEFINE c0 == GetCubinCrc(File)
<1>1. /\ cnt < Len(cubinFilePath) /\ File.cubin /\ cubinSASS = GetCubinSASS(File)
  BY DEF OpenFile
<1>2. File \in Range(cubinFilePath)
  BY <1>1, FileIsThere
<1>3. /\ place' = "main" /\ cnt' = cnt + 1
      /\ UNCHANGED <<cubinFilePath, graphFileSet, noSass>>
      /\ graphs' = [c \in {c0} \cup DOMAIN graphs |-> IF c = c0 THEN graph ELSE graphs[c]]
  BY DEF DumpGraph2File
<1>. HIDE DEF c0
<1>4. /\ DOMAIN graphs' = {c0} \cup DOMAIN graphs /\ graphs'[c0] = graph
      /\ \A c \in DOMAIN graphs : c # c0 => graphs'[c] = graphs[c]
  BY <1>3
<1>5. FilesInv'
  BY <1>1, <1>3, <1>4, FileIsDone DEF c0
<1>6. \A c \in DOMAIN graphs' : \E f \in Range(cubinFilePath) :
         /\ f.cubin /\ c = GetCubinCrc(f) /\ ~CannotEnd(GetCubinSASS(f))
         /\ graphs'[c] = GraphOf(GetCubinSASS(f))
  <2>1. SUFFICES ASSUME NEW c \in DOMAIN graphs'
                 PROVE  \E f \in Range(cubinFilePath) :
                           /\ f.cubin /\ c = GetCubinCrc(f) /\ ~CannotEnd(GetCubinSASS(f))
                           /\ graphs'[c] = GraphOf(GetCubinSASS(f))
    OBVIOUS
  <2>2. CASE c = c0
    BY <1>1, <1>2, <1>4, <2>2, Zenon DEF c0
  <2>3. CASE c # c0
    <3>1. c \in DOMAIN graphs /\ graphs'[c] = graphs[c]
      BY <1>4, <2>3
    <3>. QED  BY <3>1 DEF GraphInv
  <2>. QED  BY <2>2, <2>3
<1>7. GraphInv'
  BY <1>3, <1>6 DEF GraphInv
<1>. QED  BY <1>3, <1>5, <1>7

\* A listing begins to be read.
LEMMA ReadingBegins ==
  ASSUME CubinInv, ReadListing
  PROVE  ReadInv'
PROOF
<1>1. /\ cnt < Len(cubinFilePath) /\ File.cubin
      /\ cubinSASS' = GetCubinSASS(File) /\ section' = 1 /\ line' = 0
      /\ functionMap' = NoEntries /\ inTextSection' = FALSE /\ isMainFunctionSize' = TRUE
      /\ currentLabels' = {} /\ UNCHANGED <<cubinFilePath, cnt>>
  BY DEF ReadListing, AtFile, ToDo
<1>2. IsListing(cubinSASS')
  BY <1>1, FileIsThere DEF CubinInv
<1>3. OpenFile'
  BY <1>1 DEF OpenFile, File, GetCubinSASS
<1>. DEFINE secs == cubinSASS'
<1>. HIDE DEF secs
<1>4. IsListing(secs)
  BY <1>2 DEF secs
<1>5. DOMAIN secs = 1 .. Len(secs) /\ Len(secs) \in Nat
  BY <1>4, LenProperties DEF IsListing
<1>6. AtLine'
  <2>1. 1 <= Len(secs) => Len(secs[1]) \in Nat
    BY <1>4, <1>5, SectionOf, SectionLength
  <2>2. 1 <= Len(secs) => 0 <= Len(secs[1])
    BY <1>5, <2>1
  <2>. QED  BY <1>1, <1>5, <2>2 DEF AtLine, Text, secs
<1>7. LinesRead' = [i \in DOMAIN secs |-> 0]
  <2>1. \A i \in DOMAIN secs : ~(i < 1)
    BY <1>5
  <2>. QED  BY <1>1, <2>1 DEF LinesRead, secs
<1>8. Mapped(secs, [i \in DOMAIN secs |-> 0], NoEntries)
  <2>. DEFINE n == [i \in DOMAIN secs |-> 0]
  <2>1. \A i \in DOMAIN secs : n[i] = 0
    OBVIOUS
  <2>. HIDE DEF n
  <2>2. \A i \in DOMAIN secs : SectionRead(secs[i], n[i], NoEntries)
    BY <2>1 DEF SectionRead
  <2>3. \A i \in DOMAIN secs : Known(secs[i], n[i]) = {}
    <3>1. SUFFICES ASSUME NEW i \in DOMAIN secs PROVE Known(secs[i], 0) = {}
      BY <2>1
    <3>2. CASE HasCode(secs[i])
      BY <1>4, <3>2, SectionOf, KnownStep
    <3>3. CASE ~HasCode(secs[i])
      BY <3>3 DEF Known
    <3>. QED  BY <3>2, <3>3
  <2>4. DOMAIN NoEntries = {}
    BY DEF NoEntries
  <2>5. TextSections(secs) \subseteq DOMAIN secs
    BY DEF TextSections
  <2>6. UNION {Known(secs[i], n[i]) : i \in DOMAIN secs} = {}
    BY <2>3
  <2>7. \A i \in TextSections(secs) : ~(1 <= n[i])
    BY <2>1, <2>5
  <2>8. Mapped(secs, n, NoEntries)
    BY <2>2, <2>4, <2>6, <2>7 DEF Mapped
  <2>. QED  BY <2>8 DEF n
<1>9. MapInv'
  BY <1>1, <1>7, <1>8 DEF MapInv, secs
<1>10. ScanInv'
  <2>1. ~InSection'
    BY <1>1 DEF InSection
  <2>. QED  BY <1>1, <2>1 DEF ScanInv, Outside
<1>. QED  BY <1>2, <1>3, <1>6, <1>9, <1>10 DEF ReadInv

\* A line that is read is nothing to the files.
LEMMA FilesStay ==
  ASSUME FilesInv, GraphInv, place = "FillCG", UNCHANGED mainVars
  PROVE  FilesInv' /\ GraphInv'
PROOF
<1>1. UNCHANGED <<cubinFilePath, graphs, graphFileSet, cnt, noSass, place>>
  BY DEF mainVars
<1>2. GraphInv'
  BY <1>1, GraphsStay
<1>3. FilesInv'
  BY <1>1 DEF FilesInv, GetCubinCrc
<1>. QED  BY <1>2, <1>3

-----------------------------------------------------------------------------
(* The theorems.                                                           *)

LEMMA CubinInitInv ==
  ASSUME CubinInit
  PROVE  CubinInv
PROOF
<1>1. /\ place = "idle" /\ graphs = NoEntries /\ graphFileSet = {} /\ cnt = 0
      /\ cubinFilePath = <<>>
  BY DEF CubinInit
<1>2. DOMAIN graphs = {}
  BY <1>1 DEF NoEntries
<1>3. Range(cubinFilePath) = {} /\ Len(cubinFilePath) = 0
  BY <1>1 DEF Range
<1>4. FilesInv
  BY <1>1, <1>2, <1>3 DEF FilesInv
<1>. QED  BY <1>1, <1>2, <1>4 DEF CubinInv, GraphInv, ReadInv

LEMMA CubinNextInv ==
  ASSUME CubinInv, [CubinNext]_cubinVars
  PROVE  CubinInv'
PROOF
<1>0. FilesInv /\ GraphInv /\ ReadInv
  BY DEF CubinInv
<1>1. CASE ToolStarts
  <2>1. /\ place' = "main" /\ cnt' = 0 /\ graphs' = graphs /\ graphFileSet' = DOMAIN graphs
        /\ noSass' = {} /\ place \in {"idle", "over", "crash"}
        /\ IF place = "idle" THEN cubinFilePath' \in Directories
                             ELSE cubinFilePath' = cubinFilePath
    BY <1>1 DEF ToolStarts
  <2>2. /\ cubinFilePath' \in Seq(Range(cubinFilePath'))
        /\ \A f \in Range(cubinFilePath') : IsFile(f)
    BY <1>0, <2>1, FilesAreListed DEF FilesInv
  <2>3. Len(cubinFilePath') \in Nat
    <3>. DEFINE R == Range(cubinFilePath')
    <3>1. cubinFilePath' \in Seq(R)
      BY <2>2
    <3>. HIDE DEF R
    <3>. QED  BY <3>1, LenProperties
  <2>4. FilesInv'
    <3>1. cnt' \in 0 .. Len(cubinFilePath')
      BY <2>1, <2>3
    <3>2. graphFileSet' \subseteq DOMAIN graphs'
      BY <2>1
    <3>3. \A i \in 1 .. cnt' : FALSE
      BY <2>1
    <3>. QED  BY <2>1, <2>2, <3>1, <3>2, <3>3 DEF FilesInv
  <2>5. GraphInv'
    <3>1. CASE place = "idle"
      <4>1. DOMAIN graphs' = {}
        BY <1>0, <2>1, <3>1 DEF FilesInv, NoEntries
      <4>. QED  BY <4>1 DEF GraphInv
    <3>2. CASE place # "idle"
      BY <1>0, <2>1, <3>2, GraphsStay
    <3>. QED  BY <3>1, <3>2
  <2>6. ReadInv'
    BY <2>1 DEF ReadInv
  <2>. QED  BY <2>4, <2>5, <2>6 DEF CubinInv
<1>2. CASE SkipFile
  <2>1. /\ cnt < Len(cubinFilePath) /\ cnt' = cnt + 1 /\ place' = "main" /\ ~ToDo
        /\ UNCHANGED <<cubinFilePath, graphs, graphFileSet, noSass>>
    BY <1>2 DEF SkipFile, AtFile
  <2>2. File.cubin => GetCubinCrc(File) \in DOMAIN graphs
    BY <1>0, <2>1 DEF ToDo, FilesInv
  <2>3. FilesInv'
    BY <1>0, <2>1, <2>2, FileIsDone
  <2>4. GraphInv'
    BY <1>0, <2>1, GraphsStay
  <2>. QED  BY <2>1, <2>3, <2>4 DEF CubinInv, ReadInv
<1>3. CASE NoListing
  <2>1. /\ cnt < Len(cubinFilePath) /\ cnt' = cnt + 1 /\ place' = "main"
        /\ noSass' = noSass \cup {File} /\ UNCHANGED <<cubinFilePath, graphs, graphFileSet>>
    BY <1>3 DEF NoListing, AtFile
  <2>2. FilesInv'
    BY <1>0, <2>1, FileIsDone
  <2>3. GraphInv'
    BY <1>0, <2>1, GraphsStay
  <2>. QED  BY <2>1, <2>2, <2>3 DEF CubinInv, ReadInv
<1>4. CASE ReadListing
  <2>1. /\ place' = "FillCG"
        /\ UNCHANGED <<cubinFilePath, graphs, graphFileSet, cnt, noSass>>
    BY <1>4 DEF ReadListing
  <2>2. FilesInv'
    BY <1>0, <2>1 DEF FilesInv, GetCubinCrc
  <2>3. GraphInv'
    BY <1>0, <2>1, GraphsStay
  <2>4. ReadInv'
    BY <1>4, ReadingBegins
  <2>. QED  BY <2>2, <2>3, <2>4 DEF CubinInv
<1>5. CASE ToolEnds
  <2>1. /\ place' = "over" /\ cnt = Len(cubinFilePath)
        /\ UNCHANGED <<cubinFilePath, graphs, graphFileSet, cnt, noSass>>
    BY <1>5 DEF ToolEnds
  <2>2. FilesInv'
    BY <1>0, <2>1 DEF FilesInv, GetCubinCrc
  <2>3. GraphInv'
    BY <1>0, <2>1, GraphsStay
  <2>. QED  BY <2>1, <2>2, <2>3 DEF CubinInv, ReadInv
<1>6. CASE DuplicateName
  <2>1. place = "FillCG" /\ DumpGraph2File(NoGraph)
    BY <1>6 DEF DuplicateName, Reading
  <2>2. Duplicated(cubinSASS)
    BY <1>0, <1>6, <2>1, DuplicateIsThere
  <2>3. ~CannotEnd(cubinSASS) /\ NoGraph = GraphOf(cubinSASS)
    BY <2>2 DEF CannotEnd, GraphOf
  <2>4. OpenFile
    BY <1>0, <2>1 DEF ReadInv
  <2>5. FilesInv' /\ GraphInv' /\ place' = "main"
    BY <1>0, <2>1, <2>3, <2>4, GraphIsWritten
  <2>. QED  BY <2>5 DEF CubinInv, ReadInv
<1>7. CASE FillCG
  <2>. DEFINE graph == [nodes |-> Nodes(functionMap), edges |-> Edges(functionMap)]
  <2>1. place = "FillCG" /\ ListingRead /\ ~Crashes(functionMap) /\ DumpGraph2File(graph)
    BY <1>7 DEF FillCG, ListingRead
  <2>2. Told(cubinSASS, functionMap)
    BY <1>0, <2>1, ListingIsTold
  <2>3. ~CannotEnd(cubinSASS) /\ graph = GraphOf(cubinSASS)
    BY <2>1, <2>2, CrashIsRight, GraphIsRight
  <2>4. OpenFile
    BY <1>0, <2>1 DEF ReadInv
  <2>. HIDE DEF graph
  <2>5. FilesInv' /\ GraphInv' /\ place' = "main"
    BY <1>0, <2>1, <2>3, <2>4, GraphIsWritten
  <2>. QED  BY <2>5 DEF CubinInv, ReadInv
<1>8. CASE NullPointer
  <2>1. /\ place = "FillCG" /\ ListingRead /\ Crashes(functionMap) /\ place' = "crash"
        /\ UNCHANGED <<cubinFilePath, graphs, graphFileSet, cnt, noSass, cubinSASS>>
    BY <1>8 DEF NullPointer, ListingRead
  <2>2. CannotEnd(cubinSASS)
    BY <1>0, <2>1, ListingIsTold, CrashIsRight
  <2>3. OpenFile
    BY <1>0, <2>1 DEF ReadInv
  <2>4. OpenFile'
    BY <2>1, <2>3 DEF OpenFile, File, GetCubinSASS
  <2>5. FilesInv'
    BY <1>0, <2>1, <2>2, <2>4 DEF FilesInv, GetCubinCrc
  <2>6. GraphInv'
    BY <1>0, <2>1, GraphsStay
  <2>. QED  BY <2>1, <2>5, <2>6 DEF CubinInv, ReadInv
<1>9. CASE \/ NewFunction \/ OutsideText \/ LabelLine \/ InstructionLine
           \/ AlignLine \/ WeakLine \/ MainSizeLine \/ WeakSizeLine \/ OtherLine
  <2>1. place = "FillCG" /\ UNCHANGED mainVars
    BY <1>9 DEF NewFunction, OutsideText, LabelLine, InstructionLine, AlignLine, WeakLine,
                MainSizeLine, WeakSizeLine, OtherLine, EndLabel, InText, Reading
  <2>2. ReadInv'
    BY <1>0, <1>9, <2>1, NewFunctionReads, OutsideReads, LabelReads, InstructionReads,
       AlignReads, WeakReads, MainSizeReads, WeakSizeReads, OtherReads
  <2>3. FilesInv' /\ GraphInv'
    BY <1>0, <2>1, FilesStay
  <2>. QED  BY <2>2, <2>3 DEF CubinInv
<1>10. CASE UNCHANGED cubinVars
  <2>1. UNCHANGED mainVars
    BY <1>10 DEF cubinVars
  <2>2. FilesInv'
    BY <1>0, <2>1 DEF FilesInv, GetCubinCrc, mainVars, OpenFile, File, GetCubinSASS
  <2>3. GraphInv'
    BY <1>0, <2>1, GraphsStay DEF mainVars
  <2>4. ReadInv'
    BY <1>0, <1>10 DEF cubinVars, mainVars, scanVars, ReadInv, OpenFile, File, GetCubinSASS,
       AtLine, Text, MapInv, LinesRead, ScanInv, InSection, Inside, Outside
  <2>. QED  BY <2>2, <2>3, <2>4 DEF CubinInv
<1>. QED
  BY <1>1, <1>2, <1>3, <1>4, <1>5, <1>6, <1>7, <1>8, <1>9, <1>10 DEF CubinNext

\* The inductive invariant: what the variables of FillCG hold of the lines that
\* have been read of each section, for every listing that nvdisasm may print, and
\* what the files hold of the listings before.
THEOREM CubinInvariant == CubinSpec => []CubinInv
PROOF
<1>1. CubinInit => CubinInv
  BY CubinInitInv
<1>2. CubinInv /\ [CubinNext]_cubinVars => CubinInv'
  BY CubinNextInv
<1>. QED  BY <1>1, <1>2, PTL DEF CubinSpec

\* For every directory of cubins and however often the tool is run and nvdisasm
\* fails: a graph is the one that the listing of a cubin with its crc tells, with
\* all its functions, addresses and calls; a run that gets through leaves a graph
\* for each cubin it could list; and it crashes only where a function's end is not said.
THEOREM GraphsAreRight == CubinSpec => []GraphsAreTheCode
PROOF
<1>1. CubinInv => GraphsAreTheCode
  <2>1. SUFFICES ASSUME CubinInv PROVE GraphsAreTheCode
    OBVIOUS
  <2>2. FilesInv /\ GraphInv
    BY <2>1 DEF CubinInv
  <2>3. ASSUME place = "over", NEW f \in Range(cubinFilePath) \ noSass, f.cubin
        PROVE  GetCubinCrc(f) \in DOMAIN graphs
    <3>. DEFINE R == Range(cubinFilePath)
    <3>1. cubinFilePath \in Seq(R)
      BY <2>2 DEF FilesInv
    <3>2. PICK i \in DOMAIN cubinFilePath : f = cubinFilePath[i]
      BY <2>3 DEF Range
    <3>. HIDE DEF R
    <3>3. DOMAIN cubinFilePath = 1 .. Len(cubinFilePath)
      BY <3>1, LenProperties
    <3>4. i \in 1 .. cnt
      BY <2>2, <2>3, <3>2, <3>3 DEF FilesInv
    <3>. QED  BY <2>2, <2>3, <3>2, <3>4 DEF FilesInv
  <2>4. place = "crash" => File.cubin /\ CannotEnd(GetCubinSASS(File))
    BY <2>2 DEF FilesInv, OpenFile
  <2>. QED  BY <2>2, <2>3, <2>4 DEF GraphsAreTheCode, GraphInv
<1>. QED  BY <1>1, CubinInvariant, PTL

=============================================================================
