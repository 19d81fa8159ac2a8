--------------------------- MODULE CubinCallGraph ---------------------------
(***************************************************************************)
(* The tool that reads what nvdisasm prints for the cubins of a directory  *)
(* and writes for each a graph of its functions and the calls among them.  *)
(*                                                                         *)
(* A line is a record: its kind, as the regular expressions tell kinds     *)
(* apart, and what they capture.  The pattern for the label of a weak      *)
(* function comes after the one for any label, and never gets a line.  A   *)
(* listing is a sequence of sections, each a sequence of lines, with an    *)
(* empty line after each; the tool itself appends the one after the last.  *)
(***************************************************************************)
EXTENDS Naturals, Sequences, FiniteSets, Functions

CONSTANT Directories   \* what the directory of cubins may hold, as readdir lists it

None == "none"

Header(f)    == [kind |-> "header", name |-> f]           \* //-- .text.f --
Align(k)     == [kind |-> "align", size |-> k]            \* .align k
Label(l)     == [kind |-> "label", name |-> l]            \* l:
Weak(f)      == [kind |-> "weak", name |-> f]             \* .weak f
Size(f, l)   == [kind |-> "size", name |-> f, end |-> l]  \* .size f,(l - f)
Inst(a, f)   == [kind |-> "inst", address |-> a, callee |-> f]  \* /*a*/ CALL f
Blank        == [kind |-> "other"]

Lines == [kind : {"header", "label", "weak"}, name : STRING] \cup [kind : {"align"}, size : Nat]
         \cup [kind : {"size"}, name : STRING, end : STRING]
         \cup [kind : {"inst"}, address : Nat, callee : STRING] \cup {Blank}

LinesOf(S, kind) == {k \in DOMAIN S : S[k].kind = kind}
HasCode(S) == LinesOf(S, "header") # {}
Name(S) == S[1].name

First(K) == CHOOSE k \in K : \A j \in K : k <= j
Final(K) == CHOOSE k \in K : \A j \in K : j <= k

\* The first size of a section is its function's, any other a weak one's.
MainSize(S)  == First(LinesOf(S, "size"))
WeakSizes(S) == LinesOf(S, "size") \ {MainSize(S)}
WeakNames(S) == {S[k].name : k \in LinesOf(S, "weak") \cup WeakSizes(S)} \ {Name(S)}
FunctionsOf(S) == IF HasCode(S) THEN {Name(S)} \cup WeakNames(S) ELSE {}

\* A section of code, as nvdisasm lays it out: the header, an alignment, the
\* function's size, and after it labels and instructions, at least one; the
\* label that the size names is the last line.
IsTextSection(S) ==
  /\ LinesOf(S, "header") = {1}
  /\ \A kind \in {"align", "size", "inst"} : LinesOf(S, kind) # {}
  /\ S[Len(S)] = Label(S[MainSize(S)].end)
  /\ \A k \in LinesOf(S, "label") : MainSize(S) < k
  /\ \A j, k \in LinesOf(S, "label") : S[j].name = S[k].name => j = k
  /\ \A j, k \in LinesOf(S, "inst") : S[j].address = S[k].address => j = k
  /\ \A j, k \in WeakSizes(S) : S[j].name = S[k].name => j = k
  /\ \A k \in WeakSizes(S) : S[k].name # Name(S)
  /\ None \notin FunctionsOf(S) \cup {S[k].name : k \in LinesOf(S, "label")}

\* Other sections have no header of a function.  A weak function is in one
\* section; the functions of two sections may have one name.
IsListing(secs) ==
  /\ secs \in Seq(Seq(Lines))
  /\ \A i \in DOMAIN secs : HasCode(secs[i]) => IsTextSection(secs[i])
  /\ \A i, j \in DOMAIN secs :
       i # j /\ HasCode(secs[i]) => WeakNames(secs[i]) \cap FunctionsOf(secs[j]) = {}

\* A file has a name that ends in .cubin or not, can be read or not, and has a
\* crc and what nvdisasm prints for it.
IsFile(f) == f.cubin \in BOOLEAN /\ f.readable \in BOOLEAN /\ IsListing(f.sass)

ASSUME FilesAreListed ==
  \A d \in Directories : d \in Seq(Range(d)) /\ \A f \in Range(d) : IsFile(f)

VARIABLES
  cubinFilePath,     \* the directory
  graphs,            \* the graph files, by crc
  graphFileSet,      \* the graphs there were when the tool began
  cnt,               \* how many files are done
  noSass,            \* history: files for which nvdisasm could not be run
  place,             \* idle, main, FillCG, over, crash
  cubinSASS,         \* the listing that is read,
  section, line,     \* and how far: this many lines of this section
  functionMap, inTextSection, isMainFunctionSize, alignSize, currentLabels,
  functionEndLabel, currentFunctionName, lastAddress

mainVars == <<cubinFilePath, graphs, graphFileSet, cnt, noSass, place, cubinSASS>>
scanVars == <<inTextSection, isMainFunctionSize, alignSize, currentLabels,
              functionEndLabel, currentFunctionName, lastAddress>>
cubinVars == <<mainVars, section, line, functionMap, scanVars>>

-----------------------------------------------------------------------------
NoEntries == [x \in {} |-> 0]
NoGraph == [nodes |-> {}, edges |-> {}]

CubinInit ==
  /\ place = "idle" /\ graphs = NoEntries /\ graphFileSet = {} /\ noSass = {} /\ cnt = 0
  /\ cubinFilePath = <<>> /\ cubinSASS = <<>> /\ section = 1 /\ line = 0
  /\ functionMap = NoEntries /\ inTextSection = FALSE /\ isMainFunctionSize = TRUE
  /\ alignSize = 0 /\ currentLabels = {} /\ lastAddress = 0
  /\ functionEndLabel = None /\ currentFunctionName = None

\* A run of the tool; it may be run on the directory again.
ToolStarts ==
  /\ place \in {"idle", "over", "crash"} /\ place' = "main"
  /\ cubinFilePath' \in IF place = "idle" THEN Directories ELSE {cubinFilePath}
  /\ graphFileSet' = DOMAIN graphs /\ cnt' = 0 /\ noSass' = {}
  /\ UNCHANGED <<graphs, cubinSASS, section, line, functionMap, scanVars>>

\* A file that cannot be read has the crc 0 and no listing.
GetCubinCrc(f) == IF f.readable THEN f.cubinCrc ELSE 0
GetCubinSASS(f) == IF f.readable THEN f.sass ELSE <<>>

File == cubinFilePath[cnt + 1]
AtFile == place = "main" /\ cnt < Len(cubinFilePath)
ToDo == File.cubin /\ GetCubinCrc(File) \notin graphFileSet

SkipFile ==
  /\ AtFile /\ ~ToDo /\ cnt' = cnt + 1
  /\ UNCHANGED <<cubinFilePath, graphs, graphFileSet, noSass, place, cubinSASS,
                 section, line, functionMap, scanVars>>

\* popen may fail.
NoListing ==
  /\ AtFile /\ ToDo /\ cnt' = cnt + 1 /\ noSass' = noSass \cup {File}
  /\ UNCHANGED <<cubinFilePath, graphs, graphFileSet, place, cubinSASS,
                 section, line, functionMap, scanVars>>

\* FillCG begins; lastAddress has no initial value.
ReadListing ==
  /\ AtFile /\ ToDo /\ place' = "FillCG"
  /\ cubinSASS' = GetCubinSASS(File) /\ section' = 1 /\ line' = 0
  /\ functionMap' = NoEntries /\ inTextSection' = FALSE /\ isMainFunctionSize' = TRUE
  /\ alignSize' = 0 /\ currentLabels' = {}
  /\ functionEndLabel' = None /\ currentFunctionName' = None
  /\ UNCHANGED <<cubinFilePath, graphs, graphFileSet, cnt, noSass, lastAddress>>

ToolEnds ==
  /\ place = "main" /\ cnt = Len(cubinFilePath) /\ place' = "over"
  /\ UNCHANGED <<cubinFilePath, graphs, graphFileSet, cnt, noSass, cubinSASS,
                 section, line, functionMap, scanVars>>

\* What FillCG returns is not looked at: its graph is written.
DumpGraph2File(graph) ==
  /\ place' = "main" /\ cnt' = cnt + 1
  /\ graphs' = [c \in {GetCubinCrc(File)} \cup DOMAIN graphs |->
                  IF c = GetCubinCrc(File) THEN graph ELSE graphs[c]]
  /\ UNCHANGED <<cubinFilePath, graphFileSet, noSass, cubinSASS,
                 section, line, functionMap, scanVars>>

-----------------------------------------------------------------------------
(* FillCG, one line a step.                                                *)

Text == cubinSASS[section]
Reading == place = "FillCG" /\ section <= Len(cubinSASS)

\* A line of the section, or the empty one after it.
NextLine == IF line < Len(Text) THEN Text[line + 1] ELSE Blank

\* Fault: the listing is read as it is, without a line after it.
GetLineBare ==
  IF line + 1 < Len(Text) \/ (line < Len(Text) /\ section < Len(cubinSASS))
  THEN line' = line + 1 /\ section' = section
  ELSE line' = 0 /\ section' = section + 1

GetLine ==
  IF line < Len(Text) THEN line' = line + 1 /\ section' = section
                      ELSE line' = 0 /\ section' = section + 1

Function(parent) ==
  [weak |-> parent # None, parentFunctionName |-> parent,
   functionEndLabel |-> None, instructions |-> NoEntries, labelMap |-> NoEntries]

\* insert of the maps: what is there stays.
Insert(map, K, v) == [x \in K \cup DOMAIN map |-> IF x \in DOMAIN map THEN map[x] ELSE v]

SetFunctionEndLabel(fm, f, l) == [fm EXCEPT ![f].functionEndLabel = l]

\* An instruction goes to the function of the section, with the labels before it.
AddInstruction(fm, a, callee) ==
  [fm EXCEPT ![currentFunctionName] =
     [fm[currentFunctionName] EXCEPT !.instructions = Insert(@, {a}, callee),
                                     !.labelMap = Insert(@, currentLabels, a)]]

NewFunction ==
  /\ Reading /\ NextLine.kind = "header" /\ NextLine.name \notin DOMAIN functionMap
  /\ GetLine
  /\ currentFunctionName' = NextLine.name /\ inTextSection' = TRUE
  /\ functionMap' = Insert(functionMap, {NextLine.name}, Function(None))
  /\ UNCHANGED <<mainVars, isMainFunctionSize, alignSize, currentLabels, functionEndLabel,
                 lastAddress>>

DuplicateName ==
  /\ Reading /\ NextLine.kind = "header" /\ NextLine.name \in DOMAIN functionMap
  /\ DumpGraph2File(NoGraph)

OutsideText ==
  /\ Reading /\ NextLine.kind # "header" /\ ~inTextSection
  /\ GetLine
  /\ UNCHANGED <<mainVars, functionMap, scanVars>>

InText(kind) == Reading /\ inTextSection /\ NextLine.kind = kind /\ GetLine

LabelLine ==
  /\ InText("label") /\ currentLabels' = currentLabels \cup {NextLine.name}
  /\ UNCHANGED <<mainVars, functionMap, inTextSection, isMainFunctionSize, alignSize,
                 functionEndLabel, currentFunctionName, lastAddress>>

InstructionLine ==
  /\ InText("inst")
  /\ functionMap' = AddInstruction(functionMap, NextLine.address, NextLine.callee)
  /\ currentLabels' = {} /\ lastAddress' = NextLine.address
  /\ UNCHANGED <<mainVars, inTextSection, isMainFunctionSize, alignSize, functionEndLabel,
                 currentFunctionName>>

\* A line that is no instruction ends the section if the end label was seen.
EndLabel(fm, isMain) ==
  /\ IF functionEndLabel' \in currentLabels
     THEN /\ functionMap' = AddInstruction(fm, lastAddress + alignSize', None)
          /\ currentLabels' = {} /\ inTextSection' = FALSE /\ isMainFunctionSize' = TRUE
     ELSE /\ functionMap' = fm /\ isMainFunctionSize' = isMain
          /\ UNCHANGED <<currentLabels, inTextSection>>
  /\ UNCHANGED <<mainVars, currentFunctionName, lastAddress>>

AlignLine ==
  /\ InText("align") /\ alignSize' = NextLine.size /\ UNCHANGED functionEndLabel
  /\ EndLabel(functionMap, isMainFunctionSize)

\* A weak function is new unless it was declared.
WithWeak(f) == Insert(functionMap, {f}, Function(currentFunctionName))

WeakLine ==
  /\ InText("weak") /\ UNCHANGED <<alignSize, functionEndLabel>>
  /\ EndLabel(WithWeak(NextLine.name), isMainFunctionSize)

MainSizeLine ==
  /\ InText("size") /\ isMainFunctionSize
  /\ UNCHANGED alignSize /\ functionEndLabel' = NextLine.end
  /\ EndLabel(SetFunctionEndLabel(functionMap, currentFunctionName, NextLine.end), FALSE)

WeakSizeLine ==
  /\ InText("size") /\ ~isMainFunctionSize /\ UNCHANGED <<alignSize, functionEndLabel>>
  /\ EndLabel(SetFunctionEndLabel(WithWeak(NextLine.name), NextLine.name, NextLine.end), FALSE)

OtherLine ==
  /\ InText("other") /\ UNCHANGED <<alignSize, functionEndLabel>>
  /\ EndLabel(functionMap, isMainFunctionSize)

-----------------------------------------------------------------------------
\* The labels of a function are with the function of its section.
LabelsFor(fm, f) == IF fm[f].weak THEN fm[fm[f].parentFunctionName].labelMap
                                  ELSE fm[f].labelMap

\* The end label is taken to be there: a null pointer is read if it is not.
Crashes(fm) == \E f \in DOMAIN fm : fm[f].functionEndLabel \notin DOMAIN LabelsFor(fm, f)

Nodes(fm) ==
  {[funcName |-> f, addrEnd |-> LabelsFor(fm, f)[fm[f].functionEndLabel],
    addrBegin |-> IF fm[f].weak /\ f \in DOMAIN LabelsFor(fm, f)
                  THEN LabelsFor(fm, f)[f] ELSE 0] : f \in DOMAIN fm}

\* Calls of functions that have a section or were declared weak.
Edges(fm) ==
  UNION {{[src |-> f, pc |-> a, dst |-> fm[f].instructions[a]] :
            a \in {b \in DOMAIN fm[f].instructions :
                     fm[f].instructions[b] \in DOMAIN fm}} : f \in DOMAIN fm}

ListingRead == place = "FillCG" /\ section > Len(cubinSASS)

FillCG ==
  /\ ListingRead /\ ~Crashes(functionMap)
  /\ DumpGraph2File([nodes |-> Nodes(functionMap), edges |-> Edges(functionMap)])

NullPointer ==
  /\ ListingRead /\ Crashes(functionMap) /\ place' = "crash"
  /\ UNCHANGED <<cubinFilePath, graphs, graphFileSet, cnt, noSass, cubinSASS,
                 section, line, functionMap, scanVars>>

CubinNext ==
  \/ ToolStarts \/ SkipFile \/ NoListing \/ ReadListing \/ ToolEnds
  \/ NewFunction \/ DuplicateName \/ OutsideText \/ LabelLine \/ InstructionLine
  \/ AlignLine \/ WeakLine \/ MainSizeLine \/ WeakSizeLine \/ OtherLine
  \/ FillCG \/ NullPointer

-----------------------------------------------------------------------------
(* What is promised: what a listing says of its functions.                 *)

\* The address that a label in line k names: the next instruction's or, if there
\* is none in the section, the last one's plus the alignment.
AddressAt(S, k) ==
  LET after == {j \in LinesOf(S, "inst") : k < j}
  IN  IF after # {} THEN S[First(after)].address
      ELSE S[Final(LinesOf(S, "inst"))].address + S[Final(LinesOf(S, "align"))].size

HasLabel(S, l) == \E k \in LinesOf(S, "label") : S[k].name = l
AddressOf(S, l) == AddressAt(S, CHOOSE k \in LinesOf(S, "label") : S[k].name = l)

SizesOf(S, f) ==
  IF f = Name(S) THEN {MainSize(S)} ELSE {k \in WeakSizes(S) : S[k].name = f}

\* A function of the section whose end the section does not say, or not where.
Endless(S, f) == \A k \in SizesOf(S, f) : ~HasLabel(S, S[k].end)

\* The function's beginning is only looked for if it is weak.
FunctionNode(S, f) ==
  [funcName |-> f, addrEnd |-> AddressOf(S, S[First(SizesOf(S, f))].end),
   addrBegin |-> IF f # Name(S) /\ HasLabel(S, f) THEN AddressOf(S, f) ELSE 0]

Calls(S, names) ==
  {[src |-> Name(S), pc |-> S[k].address, dst |-> S[k].callee] :
     k \in {j \in LinesOf(S, "inst") : S[j].callee \in names}}

TextSections(secs) == {i \in DOMAIN secs : HasCode(secs[i])}
Names(secs) == UNION {FunctionsOf(secs[i]) : i \in DOMAIN secs}

Duplicated(secs) == \E i, j \in TextSections(secs) : i # j /\ Name(secs[i]) = Name(secs[j])

CannotEnd(secs) ==
  /\ ~Duplicated(secs)
  /\ \E i \in DOMAIN secs : \E f \in FunctionsOf(secs[i]) : Endless(secs[i], f)

\* The graph has each function with its addresses and each call of one of them;
\* nothing if a name comes twice.
GraphOf(secs) ==
  IF Duplicated(secs) THEN NoGraph
  ELSE [nodes |-> UNION {{FunctionNode(secs[i], f) : f \in FunctionsOf(secs[i])} :
                           i \in DOMAIN secs},
        edges |-> UNION {Calls(secs[i], Names(secs)) : i \in TextSections(secs)}]

\* A graph is what the listing of a cubin with its crc says; a run gets through
\* the directory and leaves a graph for each cubin it could list, or it ends at
\* one of which a function's end is not said; and such a one never has a graph.
GraphsAreTheCode ==
  /\ \A c \in DOMAIN graphs : \E f \in Range(cubinFilePath) :
       /\ f.cubin /\ c = GetCubinCrc(f) /\ ~CannotEnd(GetCubinSASS(f))
       /\ graphs[c] = GraphOf(GetCubinSASS(f))
  /\ place = "over" => \A f \in Range(cubinFilePath) \ noSass :
                         f.cubin => GetCubinCrc(f) \in DOMAIN graphs
  /\ place = "crash" => File.cubin /\ CannotEnd(GetCubinSASS(File))
=============================================================================
