------------------------- MODULE ThreadSignals_proofs -------------------------
(***************************************************************************)
(* Proofs about ThreadSignals, for any finite set of threads, any main     *)
(* thread, launchers, threads that end, and both modes.                    *)
(***************************************************************************)
EXTENDS ThreadSignals, FiniteSetTheorems, TLAPS

-----------------------------------------------------------------------------
(* Stacks of handlers.  Each signal is blocked while its own handler runs, *)
(* so a stack has at most one place of each handler, in either order.      *)

None == "none"

Stack(s) ==
  /\ s \in Seq(Start \cup Stop)
  /\ Len(s) =< 2
  /\ Len(s) = 2 => (s[1] \in Start <=> s[2] \in Stop)

\* The place of the one handler in a stack, and of the other.
PlaceIn(s, places) ==
  IF Len(s) >= 1 /\ s[1] \in places THEN s[1]
  ELSE IF Len(s) = 2 /\ s[2] \in places THEN s[2] ELSE None

StartOf(t) == PlaceIn(frames[t], Start)
StopOf(t)  == PlaceIn(frames[t], Stop)

\* No place is in both handlers.
LEMMA PlacesLemma ==
  /\ Start \cap Stop = {} /\ None \notin Start /\ None \notin Stop
  /\ \A p \in Start : p # None /\ p \notin Stop
  /\ \A p \in Stop : p # None /\ p \notin Start
PROOF BY DEF Start, Stop, None

\* What changes in a stack when a handler goes on, returns, or is entered.
LEMMA CellsLemma ==
  ASSUME NEW s, Stack(s), NEW p \in Start \cup Stop
  PROVE  /\ Len(s) \in 0 .. 2
         /\ s # <<>> <=> Len(s) >= 1
         /\ s # <<>> =>
              LET g == <<p>> \o Tail(s) IN
              /\ g \in Seq(Start \cup Stop) /\ Len(g) = Len(s)
              /\ g[1] = p /\ Len(s) = 2 => g[2] = s[2]
         /\ s # <<>> =>
              /\ Tail(s) \in Seq(Start \cup Stop) /\ Len(Tail(s)) = Len(s) - 1
              /\ Len(s) = 2 => Tail(s)[1] = s[2]
         /\ LET g == <<p>> \o s IN
              /\ g \in Seq(Start \cup Stop) /\ Len(g) = Len(s) + 1
              /\ g[1] = p /\ Len(s) >= 1 => g[2] = s[1]
         /\ Head(s) = s[1]
         /\ Len(s) >= 1 => s[1] \in Start \cup Stop
         /\ Len(s) = 2 => s[2] \in Start \cup Stop
PROOF
<1>1. s \in Seq(Start \cup Stop) /\ Len(s) \in 0 .. 2
  <2>1. s \in Seq(Start \cup Stop)
    BY DEF Stack
  <2>2. PICK n \in Nat : n = Len(s)
    BY <2>1
  <2>3. n =< 2
    BY <2>2 DEF Stack
  <2>4. n \in 0 .. 2
    BY <2>3
  <2>. QED  BY <2>1, <2>2, <2>4
<1>2. <<p>> \in Seq(Start \cup Stop) /\ Len(<<p>>) = 1 /\ <<p>>[1] = p
  OBVIOUS
<1>3. ASSUME s # <<>>
      PROVE  /\ Tail(s) \in Seq(Start \cup Stop) /\ Len(Tail(s)) = Len(s) - 1
             /\ Len(s) = 2 => Tail(s)[1] = s[2]
  BY <1>1, <1>3
<1>4. ASSUME NEW r \in Seq(Start \cup Stop)
      PROVE  /\ <<p>> \o r \in Seq(Start \cup Stop) /\ Len(<<p>> \o r) = Len(r) + 1
             /\ (<<p>> \o r)[1] = p
             /\ Len(r) >= 1 => (<<p>> \o r)[2] = r[1]
  BY <1>2
<1>5. s # <<>> <=> Len(s) >= 1
  BY <1>1
<1>6. Head(s) = s[1]
  OBVIOUS
<1>7. /\ Len(s) >= 1 => s[1] \in Start \cup Stop
      /\ Len(s) = 2 => s[2] \in Start \cup Stop
  BY <1>1
<1>. QED  BY <1>1, <1>3, <1>4, <1>5, <1>6, <1>7

\* The place on top of a stack is the one of its handler.
LEMMA HeadLemma ==
  ASSUME NEW s, Stack(s), s # <<>>
  PROVE  /\ Head(s) \in Start \cup Stop
         /\ Head(s) \in Start => PlaceIn(s, Start) = Head(s)
         /\ Head(s) \in Stop => PlaceIn(s, Stop) = Head(s)
PROOF
<1>1. s \in Seq(Start \cup Stop) /\ Len(s) >= 1
  BY DEF Stack
<1>. QED  BY <1>1 DEF PlaceIn

\* A stack is empty when neither handler is in it.
LEMMA EmptyLemma ==
  ASSUME NEW s, Stack(s)
  PROVE  s = <<>> <=> PlaceIn(s, Start) = None /\ PlaceIn(s, Stop) = None
PROOF
<1>1. s \in Seq(Start \cup Stop)
  BY DEF Stack
<1>2. CASE s = <<>>
  BY <1>2 DEF PlaceIn
<1>3. CASE s # <<>>
  <2>1. Len(s) >= 1 /\ s[1] \in Start \cup Stop
    BY <1>1, <1>3
  <2>. QED  BY <1>3, <2>1, PlacesLemma DEF PlaceIn
<1>. QED  BY <1>2, <1>3

\* The places found are those of their handler.
LEMMA FoundLemma ==
  ASSUME NEW s, Stack(s)
  PROVE  /\ PlaceIn(s, Start) \in Start \cup {None}
         /\ PlaceIn(s, Stop) \in Stop \cup {None}
PROOF BY DEF PlaceIn

\* A handler goes on to a place of its own.
LEMMA GoLemma ==
  ASSUME NEW s, Stack(s), s # <<>>
  PROVE  /\ \A p \in Start : Head(s) \in Start =>
              /\ Stack(<<p>> \o Tail(s))
              /\ PlaceIn(<<p>> \o Tail(s), Start) = p
              /\ PlaceIn(<<p>> \o Tail(s), Stop) = PlaceIn(s, Stop)
         /\ \A p \in Stop : Head(s) \in Stop =>
              /\ Stack(<<p>> \o Tail(s))
              /\ PlaceIn(<<p>> \o Tail(s), Stop) = p
              /\ PlaceIn(<<p>> \o Tail(s), Start) = PlaceIn(s, Start)
PROOF
<1>1. ASSUME NEW p \in Start, Head(s) \in Start
      PROVE  /\ Stack(<<p>> \o Tail(s))
             /\ PlaceIn(<<p>> \o Tail(s), Start) = p
             /\ PlaceIn(<<p>> \o Tail(s), Stop) = PlaceIn(s, Stop)
  <2>. DEFINE g == <<p>> \o Tail(s)
  <2>1. /\ g \in Seq(Start \cup Stop) /\ Len(g) = Len(s) /\ Len(s) \in 1 .. 2
        /\ g[1] = p /\ (Len(s) = 2 => g[2] = s[2]) /\ s[1] \in Start
    BY <1>1, CellsLemma
  <2>. HIDE DEF g
  <2>. QED  BY <2>1, PlacesLemma DEF Stack, PlaceIn, g
<1>2. ASSUME NEW p \in Stop, Head(s) \in Stop
      PROVE  /\ Stack(<<p>> \o Tail(s))
             /\ PlaceIn(<<p>> \o Tail(s), Stop) = p
             /\ PlaceIn(<<p>> \o Tail(s), Start) = PlaceIn(s, Start)
  <2>. DEFINE g == <<p>> \o Tail(s)
  <2>1. /\ g \in Seq(Start \cup Stop) /\ Len(g) = Len(s) /\ Len(s) \in 1 .. 2
        /\ g[1] = p /\ (Len(s) = 2 => g[2] = s[2]) /\ s[1] \in Stop
    BY <1>2, CellsLemma
  <2>. HIDE DEF g
  <2>. QED  BY <2>1, PlacesLemma DEF Stack, PlaceIn, g
<1>. QED  BY <1>1, <1>2

\* A handler returns to what it interrupted.
LEMMA ReturnLemma ==
  ASSUME NEW s, Stack(s), s # <<>>
  PROVE  /\ Stack(Tail(s))
         /\ Head(s) \in Start =>
              /\ PlaceIn(Tail(s), Start) = None
              /\ PlaceIn(Tail(s), Stop) = PlaceIn(s, Stop)
         /\ Head(s) \in Stop =>
              /\ PlaceIn(Tail(s), Stop) = None
              /\ PlaceIn(Tail(s), Start) = PlaceIn(s, Start)
PROOF
<1>. DEFINE g == Tail(s)
<1>1. /\ g \in Seq(Start \cup Stop) /\ Len(g) = Len(s) - 1 /\ Len(s) \in 1 .. 2
      /\ Len(s) = 2 => g[1] = s[2]
      /\ Head(s) = s[1]
  <2>1. "startEnd" \in Start \cup Stop
    BY DEF Start
  <2>. QED  BY <2>1, CellsLemma
<1>. HIDE DEF g
<1>. QED  BY <1>1, PlacesLemma DEF Stack, PlaceIn, g

\* A signal interrupts the other handler and the program.
LEMMA PushLemma ==
  ASSUME NEW s, Stack(s)
  PROVE  /\ \A p \in Start : PlaceIn(s, Start) = None =>
              /\ Stack(<<p>> \o s)
              /\ PlaceIn(<<p>> \o s, Start) = p
              /\ PlaceIn(<<p>> \o s, Stop) = PlaceIn(s, Stop)
         /\ \A p \in Stop : PlaceIn(s, Stop) = None =>
              /\ Stack(<<p>> \o s)
              /\ PlaceIn(<<p>> \o s, Stop) = p
              /\ PlaceIn(<<p>> \o s, Start) = PlaceIn(s, Start)
PROOF
<1>1. ASSUME NEW p \in Start, PlaceIn(s, Start) = None
      PROVE  /\ Stack(<<p>> \o s)
             /\ PlaceIn(<<p>> \o s, Start) = p
             /\ PlaceIn(<<p>> \o s, Stop) = PlaceIn(s, Stop)
  <2>. DEFINE g == <<p>> \o s
  <2>1. /\ g \in Seq(Start \cup Stop) /\ Len(g) = Len(s) + 1 /\ Len(s) \in 0 .. 2
        /\ g[1] = p /\ (Len(s) >= 1 => g[2] = s[1])
        /\ Len(s) >= 1 => s[1] \in Start \cup Stop
        /\ Len(s) = 2 => s[2] \in Start \cup Stop
    BY CellsLemma
  <2>2. Len(s) =< 1 /\ (Len(s) = 1 => s[1] \in Stop /\ s[1] \notin Start)
    BY <1>1, <2>1, PlacesLemma DEF Stack, PlaceIn
  <2>. HIDE DEF g
  <2>. QED  BY <2>1, <2>2, PlacesLemma DEF Stack, PlaceIn, g
<1>2. ASSUME NEW p \in Stop, PlaceIn(s, Stop) = None
      PROVE  /\ Stack(<<p>> \o s)
             /\ PlaceIn(<<p>> \o s, Stop) = p
             /\ PlaceIn(<<p>> \o s, Start) = PlaceIn(s, Start)
  <2>. DEFINE g == <<p>> \o s
  <2>1. /\ g \in Seq(Start \cup Stop) /\ Len(g) = Len(s) + 1 /\ Len(s) \in 0 .. 2
        /\ g[1] = p /\ (Len(s) >= 1 => g[2] = s[1])
        /\ Len(s) >= 1 => s[1] \in Start \cup Stop
        /\ Len(s) = 2 => s[2] \in Start \cup Stop
    BY CellsLemma
  <2>2. Len(s) =< 1 /\ (Len(s) = 1 => s[1] \in Start /\ s[1] \notin Stop)
    <3>1. Len(s) >= 1 => s[1] \notin Stop
      BY <1>2, PlacesLemma DEF PlaceIn
    <3>2. Len(s) = 2 => s[2] \notin Stop
      BY <1>2, <2>1, <3>1, PlacesLemma DEF PlaceIn
    <3>3. ASSUME Len(s) = 2 PROVE FALSE
      <4>1. s[1] \in Start /\ s[2] \in Start
        BY <2>1, <3>1, <3>2, <3>3
      <4>2. s[1] \in Start <=> s[2] \in Stop
        BY <3>3 DEF Stack
      <4>. QED  BY <3>2, <3>3, <4>1, <4>2
    <3>4. PICK n \in 0 .. 2 : n = Len(s)
      BY <2>1
    <3>5. n = 0 \/ n = 1
      BY <3>3, <3>4
    <3>. QED  BY <2>1, <3>1, <3>4, <3>5, PlacesLemma
  <2>. HIDE DEF g
  <2>. QED  BY <2>1, <2>2, PlacesLemma DEF Stack, PlaceIn, g
<1>. QED  BY <1>1, <1>2

-----------------------------------------------------------------------------
(* Types.                                                                  *)

TypeInv ==
  /\ TypeOK
  /\ \A t \in Threads : Stack(frames[t])
  /\ toSignal # {} => rpc \in {"signalStart", "signalStop"}
  /\ noSampling => rpc = "idle"

\* What a step does to the stacks: thread t has its handlers at a and b, and
\* the other threads are where they were.
Moved(t, a, b) ==
  /\ frames' \in [Threads -> Seq(Start \cup Stop)]
  /\ \A u \in Threads :
       /\ Stack(frames'[u])
       /\ StartOf(u)' = IF u = t THEN a ELSE StartOf(u)
       /\ StopOf(u)' = IF u = t THEN b ELSE StopOf(u)

\* A thread at a place has its handler there.
LEMMA AtLemma ==
  ASSUME TypeInv, NEW t \in Threads
  PROVE  /\ \A p \in Start : At(t, p) => StartOf(t) = p
         /\ \A p \in Stop : At(t, p) => StopOf(t) = p
         /\ frames[t] = <<>> <=> StartOf(t) = None /\ StopOf(t) = None
         /\ StartOf(t) \in Start \cup {None} /\ StopOf(t) \in Stop \cup {None}
PROOF
<1>1. Stack(frames[t])
  BY DEF TypeInv
<1>. QED  BY <1>1, HeadLemma, EmptyLemma, FoundLemma DEF At, StartOf, StopOf

\* A handler runs where it is found.
LEMMA RunningLemma ==
  ASSUME TypeInv, NEW t \in Threads
  PROVE  /\ \A S \in SUBSET Start : Running(t, S) <=> StartOf(t) \in S
         /\ \A S \in SUBSET Stop : Running(t, S) <=> StopOf(t) \in S
PROOF
<1>. DEFINE s == frames[t]
<1>1. Stack(s) /\ s \in Seq(Start \cup Stop)
  BY DEF TypeInv, TypeOK, Stack
<1>2. Len(s) \in 0 .. 2 /\ (s # <<>> <=> Len(s) >= 1) /\ DOMAIN s = 1 .. Len(s)
      /\ (Len(s) >= 1 => s[1] \in Start \cup Stop)
      /\ (Len(s) = 2 => s[2] \in Start \cup Stop)
  <2>1. "startEnd" \in Start \cup Stop
    BY DEF Start
  <2>. QED  BY <1>1, <2>1, CellsLemma
<1>3. PICK n \in 0 .. 2 : n = Len(s)
  BY <1>2
<1>4. \A S : Running(t, S) <=> (n >= 1 /\ s[1] \in S) \/ (n = 2 /\ s[2] \in S)
  <2>1. DOMAIN s = 1 .. n
    BY <1>2, <1>3
  <2>2. \A S : Running(t, S) <=> \E k \in 1 .. n : s[k] \in S
    BY <2>1 DEF Running
  <2>. QED  BY <2>2
<1>5. /\ StartOf(t) = IF n >= 1 /\ s[1] \in Start THEN s[1]
                      ELSE IF n = 2 /\ s[2] \in Start THEN s[2] ELSE None
      /\ StopOf(t) = IF n >= 1 /\ s[1] \in Stop THEN s[1]
                     ELSE IF n = 2 /\ s[2] \in Stop THEN s[2] ELSE None
  BY <1>3 DEF StartOf, StopOf, PlaceIn
<1>6. n = 2 => (s[1] \in Start <=> s[2] \in Stop)
  BY <1>1, <1>3 DEF Stack
<1>7. /\ n >= 1 => s[1] \in Start \cup Stop
      /\ n = 2 => s[2] \in Start \cup Stop
  BY <1>2, <1>3
<1>. HIDE DEF s
<1>. QED  BY <1>4, <1>5, <1>6, <1>7, PlacesLemma

\* One step of one handler, and a step of none.
LEMMA MoveLemma ==
  ASSUME TypeInv, NEW t \in Threads
  PROVE  /\ \A p, q \in Start :
              At(t, p) /\ GoTo(t, q) => Moved(t, q, StopOf(t))
         /\ \A p, q \in Stop :
              At(t, p) /\ GoTo(t, q) => Moved(t, StartOf(t), q)
         /\ \A p \in Start :
              At(t, p) /\ Return(t) => Moved(t, None, StopOf(t))
         /\ \A p \in Stop :
              At(t, p) /\ Return(t) => Moved(t, StartOf(t), None)
         /\ UNCHANGED frames => Moved(t, StartOf(t), StopOf(t))
PROOF
<1>1. /\ frames \in [Threads -> Seq(Start \cup Stop)]
      /\ \A u \in Threads : Stack(frames[u])
  BY DEF TypeInv, TypeOK
<1>2. ASSUME NEW s, Stack(s), frames' = [frames EXCEPT ![t] = s]
      PROVE  Moved(t, PlaceIn(s, Start), PlaceIn(s, Stop))
  BY <1>1, <1>2 DEF Moved, StartOf, StopOf, Stack
<1>3. ASSUME NEW p \in Start \cup Stop, At(t, p)
      PROVE  frames[t] # <<>> /\ Head(frames[t]) = p
  BY <1>3 DEF At
<1>4. ASSUME NEW p \in Start, NEW q \in Start, At(t, p), GoTo(t, q)
      PROVE  Moved(t, q, StopOf(t))
  <2>1. frames' = [frames EXCEPT ![t] = <<q>> \o Tail(frames[t])]
    BY <1>4, <1>1 DEF GoTo
  <2>2. frames[t] # <<>> /\ Head(frames[t]) \in Start /\ Stack(frames[t])
    BY <1>1, <1>3, <1>4
  <2>3. /\ Stack(<<q>> \o Tail(frames[t]))
        /\ PlaceIn(<<q>> \o Tail(frames[t]), Start) = q
        /\ PlaceIn(<<q>> \o Tail(frames[t]), Stop) = StopOf(t)
    BY <2>2, GoLemma DEF StopOf
  <2>. QED  BY <1>2, <2>1, <2>3
<1>5. ASSUME NEW p \in Stop, NEW q \in Stop, At(t, p), GoTo(t, q)
      PROVE  Moved(t, StartOf(t), q)
  <2>1. frames' = [frames EXCEPT ![t] = <<q>> \o Tail(frames[t])]
    BY <1>5, <1>1 DEF GoTo
  <2>2. frames[t] # <<>> /\ Head(frames[t]) \in Stop /\ Stack(frames[t])
    BY <1>1, <1>3, <1>5
  <2>3. /\ Stack(<<q>> \o Tail(frames[t]))
        /\ PlaceIn(<<q>> \o Tail(frames[t]), Stop) = q
        /\ PlaceIn(<<q>> \o Tail(frames[t]), Start) = StartOf(t)
    BY <2>2, GoLemma DEF StartOf
  <2>. QED  BY <1>2, <2>1, <2>3
<1>6. ASSUME NEW p \in Start, At(t, p), Return(t)
      PROVE  Moved(t, None, StopOf(t))
  <2>1. frames' = [frames EXCEPT ![t] = Tail(frames[t])]
    BY <1>6, <1>1 DEF Return
  <2>. QED  BY <1>1, <1>2, <1>3, <1>6, <2>1, ReturnLemma DEF StopOf
<1>7. ASSUME NEW p \in Stop, At(t, p), Return(t)
      PROVE  Moved(t, StartOf(t), None)
  <2>1. frames' = [frames EXCEPT ![t] = Tail(frames[t])]
    BY <1>7, <1>1 DEF Return
  <2>. QED  BY <1>1, <1>2, <1>3, <1>7, <2>1, ReturnLemma DEF StartOf
<1>8. UNCHANGED frames => Moved(t, StartOf(t), StopOf(t))
  BY <1>1 DEF Moved, StartOf, StopOf
<1>. QED  BY <1>4, <1>5, <1>6, <1>7, <1>8

\* Where each step of a handler begins, and what it does to the stacks.
LEMMA HandlerLemma ==
  ASSUME TypeInv, NEW t \in Threads
  PROVE  /\ DeliverStart(t) =>
              /\ StartOf(t) = None
              /\ Moved(t, IF genCallStack THEN "genCheck" ELSE "startSync",
                       StopOf(t))
         /\ DeliverStop(t) =>
              StopOf(t) = None /\ Moved(t, StartOf(t), "stopSync")
         /\ StartSync(t) =>
              StartOf(t) = "startSync" /\ Moved(t, IF t = selectedTid THEN "startLead" ELSE "startFollow", StopOf(t))
         /\ StartLead(t) =>
              StartOf(t) = "startLead" /\ Moved(t, "startGo", StopOf(t))
         /\ StartGo(t) =>
              StartOf(t) = "startGo" /\ Moved(t, "startEnd", StopOf(t))
         /\ StartFollow(t) =>
              StartOf(t) = "startFollow" /\ Moved(t, "startEnd", StopOf(t))
         /\ StartEnd(t) =>
              StartOf(t) = "startEnd" /\ Moved(t, None, StopOf(t))
         /\ GenCheck(t) =>
              StartOf(t) = "genCheck" /\ Moved(t, IF genCallStack THEN "genUnwind" ELSE None, StopOf(t))
         /\ GenUnwind(t) =>
              StartOf(t) = "genUnwind" /\ Moved(t, None, StopOf(t))
         /\ StopSync(t) =>
              StopOf(t) = "stopSync" /\ Moved(t, StartOf(t), IF t = selectedTid THEN "stopLead" ELSE "stopFollow")
         /\ StopLead(t) =>
              StopOf(t) = "stopLead" /\ Moved(t, StartOf(t), "stopGo")
         /\ StopGo(t) =>
              StopOf(t) = "stopGo" /\ Moved(t, StartOf(t), "stopEnd")
         /\ StopFollow(t) =>
              StopOf(t) = "stopFollow" /\ Moved(t, StartOf(t), "stopEnd")
         /\ StopEnd(t) =>
              StopOf(t) = "stopEnd" /\ Moved(t, StartOf(t), None)
PROOF
<1>1. /\ {"startSync", "startLead", "startFollow", "startGo", "startEnd",
          "genCheck", "genUnwind"} \subseteq Start
      /\ {"stopSync", "stopLead", "stopFollow", "stopGo", "stopEnd"}
           \subseteq Stop
      /\ \A u \in Threads : Stack(frames[u])
      /\ frames \in [Threads -> Seq(Start \cup Stop)]
  BY DEF Start, Stop, TypeInv, TypeOK
<1>2. ASSUME NEW r, Stack(r), frames' = [frames EXCEPT ![t] = r]
      PROVE  Moved(t, PlaceIn(r, Start), PlaceIn(r, Stop))
  BY <1>1, <1>2 DEF Moved, StartOf, StopOf, Stack
<1>a. ASSUME DeliverStart(t)
      PROVE  /\ StartOf(t) = None
             /\ Moved(t, IF genCallStack THEN "genCheck" ELSE "startSync",
                      StopOf(t))
  <2>. DEFINE p == IF genCallStack THEN "genCheck" ELSE "startSync"
  <2>1. StartOf(t) = None
    <3>1. StartOf(t) \notin Start
      BY <1>a, RunningLemma DEF DeliverStart
    <3>. QED  BY <3>1, AtLemma
  <2>2. frames' = [frames EXCEPT ![t] = <<p>> \o frames[t]]
    BY <1>a, <1>1 DEF DeliverStart
  <2>3. p \in Start
    BY <1>1
  <2>. HIDE DEF p
  <2>4. /\ Stack(<<p>> \o frames[t])
        /\ PlaceIn(<<p>> \o frames[t], Start) = p
        /\ PlaceIn(<<p>> \o frames[t], Stop) = StopOf(t)
    BY <1>1, <2>1, <2>3, PushLemma DEF StartOf, StopOf
  <2>5. Moved(t, p, StopOf(t))
    BY <1>2, <2>2, <2>4
  <2>. QED  BY <2>1, <2>5 DEF p
<1>b. ASSUME DeliverStop(t)
      PROVE  StopOf(t) = None /\ Moved(t, StartOf(t), "stopSync")
  <2>1. StopOf(t) = None
    <3>1. StopOf(t) \notin Stop
      BY <1>b, RunningLemma DEF DeliverStop
    <3>. QED  BY <3>1, AtLemma
  <2>2. frames' = [frames EXCEPT ![t] = <<"stopSync">> \o frames[t]]
    BY <1>b, <1>1 DEF DeliverStop
  <2>3. /\ Stack(<<"stopSync">> \o frames[t])
        /\ PlaceIn(<<"stopSync">> \o frames[t], Stop) = "stopSync"
        /\ PlaceIn(<<"stopSync">> \o frames[t], Start) = StartOf(t)
    <3>1. "stopSync" \in Stop
      BY <1>1
    <3>. QED  BY <1>1, <2>1, <3>1, PushLemma DEF StartOf, StopOf
  <2>. QED  BY <1>2, <2>1, <2>2, <2>3
<1>3. StartSync(t) => StartOf(t) = "startSync" /\ Moved(t, IF t = selectedTid THEN "startLead" ELSE "startFollow", StopOf(t))
  BY <1>1, AtLemma, MoveLemma DEF StartSync
<1>4. StartLead(t) => StartOf(t) = "startLead" /\ Moved(t, "startGo", StopOf(t))
  BY <1>1, AtLemma, MoveLemma DEF StartLead
<1>5. StartGo(t) => StartOf(t) = "startGo" /\ Moved(t, "startEnd", StopOf(t))
  BY <1>1, AtLemma, MoveLemma DEF StartGo
<1>6. StartFollow(t) => StartOf(t) = "startFollow" /\ Moved(t, "startEnd", StopOf(t))
  BY <1>1, AtLemma, MoveLemma DEF StartFollow
<1>7. StartEnd(t) => StartOf(t) = "startEnd" /\ Moved(t, None, StopOf(t))
  BY <1>1, AtLemma, MoveLemma DEF StartEnd
<1>8. GenCheck(t) => StartOf(t) = "genCheck" /\ Moved(t, IF genCallStack THEN "genUnwind" ELSE None, StopOf(t))
  BY <1>1, AtLemma, MoveLemma DEF GenCheck
<1>9. GenUnwind(t) => StartOf(t) = "genUnwind" /\ Moved(t, None, StopOf(t))
  BY <1>1, AtLemma, MoveLemma DEF GenUnwind
<1>10. StopSync(t) => StopOf(t) = "stopSync" /\ Moved(t, StartOf(t), IF t = selectedTid THEN "stopLead" ELSE "stopFollow")
  BY <1>1, AtLemma, MoveLemma DEF StopSync
<1>11. StopLead(t) => StopOf(t) = "stopLead" /\ Moved(t, StartOf(t), "stopGo")
  BY <1>1, AtLemma, MoveLemma DEF StopLead
<1>12. StopGo(t) => StopOf(t) = "stopGo" /\ Moved(t, StartOf(t), "stopEnd")
  BY <1>1, AtLemma, MoveLemma DEF StopGo
<1>13. StopFollow(t) => StopOf(t) = "stopFollow" /\ Moved(t, StartOf(t), "stopEnd")
  BY <1>1, AtLemma, MoveLemma DEF StopFollow
<1>14. StopEnd(t) => StopOf(t) = "stopEnd" /\ Moved(t, StartOf(t), None)
  BY <1>1, AtLemma, MoveLemma DEF StopEnd
<1>. QED  BY <1>a, <1>b, <1>3, <1>4, <1>5, <1>6, <1>7, <1>8, <1>9, <1>10, <1>11, <1>12, <1>13, <1>14

\* There is room for the copies of the stack that one hand-shake makes.
LEMMA CopiesLemma == ThreadsAssumption => MaxCopies \in Nat /\ MaxCopies >= 1
PROOF
<1> SUFFICES ASSUME ThreadsAssumption PROVE MaxCopies \in Nat /\ MaxCopies >= 1
  OBVIOUS
<1>1. IsFiniteSet(Workers)
  BY FS_Subset DEF ThreadsAssumption
<1>2. Cardinality(Workers) \in Nat
  BY <1>1, FS_CardinalityType
<1>. QED  BY <1>2 DEF MaxCopies

LEMMA TypeInit == ThreadsAssumption /\ Init => TypeInv
PROOF
<1> SUFFICES ASSUME ThreadsAssumption, Init PROVE TypeInv
  OBVIOUS
<1>1. \A t \in Threads : frames[t] = <<>> /\ Stack(frames[t]) /\ Len(frames[t]) =< 2
  <2>1. Stack(<<>>) /\ Len(<<>>) =< 2
    BY DEF Stack
  <2>. QED  BY <2>1 DEF Init
<1>2. frames \in [Threads -> Seq(Start \cup Stop)]
  <2>1. <<>> \in Seq(Start \cup Stop)
    OBVIOUS
  <2>. QED  BY <2>1 DEF Init
<1>3. callStack \in 0 .. MaxCopies
  BY CopiesLemma DEF Init
<1>4. TypeOK
  BY <1>1, <1>2, <1>3 DEF Init, TypeOK, ThreadsAssumption, Signals
<1>. QED  BY <1>1, <1>4 DEF TypeInv, Init

LEMMA TypeStep == ThreadsAssumption /\ TypeInv /\ [Next]_vars => TypeInv'
PROOF
<1> SUFFICES ASSUME ThreadsAssumption, TypeInv, [Next]_vars PROVE TypeInv'
  OBVIOUS
<1>. USE DEF syncVars, sampVars, rpcVars, unwVars
<1>a. /\ noSampling \in Modes
      /\ app \in [Threads -> {"new", "enter", "run", "kill", "wait", "clear",
                              "ended"}]
      /\ pending \in [Threads -> SUBSET Signals]
      /\ tids \subseteq Launchers /\ known \subseteq Threads
      /\ synced \subseteq known
      /\ selectedTid \in Threads \cup {NoThread}
      /\ started \in BOOLEAN /\ cupti \in BOOLEAN
      /\ rpc \in {"idle", "signalStart", "awaitStart", "sleep", "signalStop",
                  "join"}
      /\ toSignal \subseteq tids
      /\ genCallStack \in BOOLEAN /\ callStack \in 0 .. MaxCopies
      /\ toSignal # {} => rpc \in {"signalStart", "signalStop"}
      /\ noSampling => rpc = "idle"
  BY DEF TypeInv, TypeOK
<1>b. /\ Launchers \subseteq Threads /\ Mortal \subseteq Threads
      /\ Workers \subseteq Threads /\ Main \in Threads
  BY DEF ThreadsAssumption
<1>c. MaxCopies \in Nat /\ MaxCopies >= 1
  BY CopiesLemma
<1>. DEFINE Stacks == /\ frames' \in [Threads -> Seq(Start \cup Stop)]
                      /\ \A t \in Threads : Stack(frames'[t])
<1>d. ASSUME NEW t \in Threads, NEW a, NEW b, Moved(t, a, b)
      PROVE  Stacks
  BY <1>d DEF Moved
<1>e. UNCHANGED frames => Stacks
  BY DEF TypeInv, TypeOK
<1>f. ASSUME Stacks PROVE \A t \in Threads : Len(frames'[t]) =< 2
  BY <1>f DEF Stack
<1>. HIDE DEF Stacks
<1>g. ASSUME NEW t \in Threads, Handle(t) PROVE TypeInv'
  <2>1. Stacks
    BY <1>d, <1>g, HandlerLemma DEF Handle
  <2>2. CASE DeliverStart(t) \/ DeliverStop(t)
    <3>1. pending' \in [Threads -> SUBSET Signals]
      BY <1>a, <2>2 DEF DeliverStart, DeliverStop
    <3>2. UNCHANGED <<noSampling, app, syncVars, sampVars, rpcVars, unwVars>>
      BY <2>2 DEF DeliverStart, DeliverStop
    <3>. QED  BY <1>a, <1>f, <2>1, <3>1, <3>2 DEF TypeInv, TypeOK, Stacks
  <2>3. CASE StartSync(t) \/ StopSync(t) \/ StartEnd(t) \/ StopEnd(t)
    BY <1>a, <1>f, <2>1, <2>3
       DEF TypeInv, TypeOK, StartSync, StopSync, StartEnd, StopEnd, Stacks
  <2>4. CASE StartLead(t) \/ StartFollow(t) \/ GenCheck(t) \/ StopLead(t)
             \/ StopFollow(t)
    BY <1>a, <1>f, <2>1, <2>4
       DEF TypeInv, TypeOK, StartLead, StartFollow, GenCheck, StopLead,
           StopFollow, Stacks
  <2>5. CASE StartGo(t) \/ StopGo(t)
    <3>1. started' \in BOOLEAN /\ cupti' \in BOOLEAN
      BY <1>a, <2>5 DEF StartGo, StopGo
    <3>2. UNCHANGED <<noSampling, app, pending, syncVars, rpcVars, unwVars>>
      BY <2>5 DEF StartGo, StopGo
    <3>. QED  BY <1>a, <1>f, <2>1, <3>1, <3>2 DEF TypeInv, TypeOK, Stacks
  <2>6. CASE GenUnwind(t)
    <3>1. callStack' \in 0 .. MaxCopies /\ genCallStack' \in BOOLEAN
      <4>1. PICK n \in Nat : n = MaxCopies
        BY <1>c
      <4>2. callStack \in 0 .. n
        BY <1>a, <4>1
      <4>3. callStack' = IF callStack < n THEN callStack + 1 ELSE callStack
        BY <2>6, <4>1 DEF GenUnwind
      <4>4. callStack' \in 0 .. n
        BY <4>2, <4>3
      <4>. QED  BY <2>6, <4>1, <4>4 DEF GenUnwind
    <3>. QED  BY <1>a, <1>f, <2>1, <2>6, <3>1
                 DEF TypeInv, TypeOK, GenUnwind, Stacks
  <2>. QED  BY <1>g, <2>2, <2>3, <2>4, <2>5, <2>6 DEF Handle
<1>h. ASSUME NEW t \in Threads, Program(t) PROVE TypeInv'
  <2>1. CASE EnterMap(t)
    BY <1>a, <1>e, <1>f, <2>1 DEF TypeInv, TypeOK, EnterMap, Stacks
  <2>2. CASE SignalMain(t)
    <3>1. pending' \in [Threads -> SUBSET Signals]
      BY <1>a, <2>2 DEF SignalMain, Signals
    <3>. QED  BY <1>a, <1>e, <1>f, <2>2, <3>1
                 DEF TypeInv, TypeOK, SignalMain, Stacks
  <2>3. CASE TakeStack(t)
    BY <1>a, <1>e, <1>f, <2>3 DEF TypeInv, TypeOK, TakeStack, Stacks
  <2>4. CASE ClearStack(t)
    BY <1>a, <1>c, <1>e, <1>f, <2>4 DEF TypeInv, TypeOK, ClearStack, Stacks
  <2>. QED  BY <1>h, <2>1, <2>2, <2>3, <2>4 DEF Program
<1>i. ASSUME NEW t \in Launchers, Register(t) PROVE TypeInv'
  BY <1>a, <1>b, <1>e, <1>f, <1>i DEF TypeInv, TypeOK, Register, Stacks
<1>j. ASSUME NEW t \in Mortal, End(t) PROVE TypeInv'
  BY <1>a, <1>b, <1>e, <1>f, <1>j DEF TypeInv, TypeOK, End, Stacks
<1>k. ASSUME NEW t \in Workers, AskMain(t) PROVE TypeInv'
  BY <1>a, <1>b, <1>e, <1>f, <1>k DEF TypeInv, TypeOK, AskMain, Stacks
<1>l. CASE Request
  BY <1>a, <1>b, <1>e, <1>f, <1>l
     DEF TypeInv, TypeOK, Request, EraseEnded, Stacks
<1>m. CASE TraceStart
  BY <1>a, <1>b, <1>e, <1>f, <1>m
     DEF TypeInv, TypeOK, TraceStart, EraseEnded, Stacks
<1>n. CASE TraceStop
  BY <1>a, <1>e, <1>f, <1>n DEF TypeInv, TypeOK, TraceStop, Stacks
<1>o. ASSUME NEW sig \in Signals, NEW place, NEW next, Signal(sig, place, next),
             place \in {"signalStart", "signalStop"},
             next \in {"awaitStart", "join"}
      PROVE  TypeInv'
  <2>1. noSampling = FALSE
    BY <1>a, <1>o DEF Signal, ThreadsAssumption
  <2>2. pending' \in [Threads -> SUBSET Signals]
    BY <1>a, <1>b, <1>o DEF Signal
  <2>3. toSignal' \subseteq tids /\ (toSignal' # {} => rpc' = rpc)
        /\ rpc' \in {place, next}
    BY <1>a, <1>o DEF Signal
  <2>. QED  BY <1>a, <1>e, <1>f, <1>o, <2>1, <2>2, <2>3
               DEF TypeInv, TypeOK, Signal, Stacks
<1>p. CASE Rpc
  <2>1. CASE SignalStart \/ SignalStop
    BY <1>o, <2>1 DEF SignalStart, SignalStop, Signals
  <2>2. CASE AwaitStart \/ WakeUp \/ Join
    BY <1>a, <1>e, <1>f, <2>2
       DEF TypeInv, TypeOK, AwaitStart, WakeUp, Join, Stacks
  <2>. QED  BY <1>p, <2>1, <2>2 DEF Rpc
<1>q. CASE UNCHANGED vars
  BY <1>a, <1>e, <1>f, <1>q DEF TypeInv, TypeOK, vars, Stacks
<1>. QED  BY <1>g, <1>h, <1>i, <1>j, <1>k, <1>l, <1>m, <1>n, <1>p, <1>q DEF Next

LEMMA TypeAlways == Spec => []TypeInv
PROOF
<1>1. ThreadsAssumption
  BY ThreadsAssumption
<1>. QED  BY <1>1, TypeInit, TypeStep, PTL DEF Spec

\* The types of ThreadSignals: whatever handlers, programs and requests do, a
\* thread is in at most one handler of each signal, only launching threads are
\* signalled, and no entry of the map is true that is not there.
THEOREM ThreadTypes == Spec => []TypeOK
PROOF
<1>1. TypeInv => TypeOK
  BY DEF TypeInv
<1>. QED  BY <1>1, TypeAlways, PTL

-----------------------------------------------------------------------------
(* The rounds of a request, when requests are calm and at most one worker  *)
(* asks for the main thread's stack.                                       *)

OneWorker == \A t, u \in Workers : t = u

Gen == {"genCheck", "genUnwind"}
Asks(t) == app[t] \in {"kill", "wait", "clear"}

\* Where the request stands, and whether sampling has started, say which
\* handler can still be anywhere.
Starting == ~noSampling /\ ~started /\ rpc \in {"signalStart", "awaitStart"}
Sampling == ~noSampling /\ started /\ rpc \in {"signalStart", "awaitStart", "sleep"}
Stopping == ~noSampling /\ started /\ rpc \in {"signalStop", "join"}
Stopped  == ~noSampling /\ ~started /\ rpc \in {"signalStop", "join", "idle"}

RoundInv ==
  /\ noSampling \/ Starting \/ Sampling \/ Stopping \/ Stopped
  /\ cupti <=> Sampling \/ Stopping
  /\ Sampling \/ Stopped => toSignal = {}

\* Where the two handlers can be in each round.
StartPlaces ==
  IF Starting THEN {None, "startSync", "startLead", "startFollow", "startGo"}
  ELSE IF Sampling THEN {None, "startFollow", "startEnd"} \cup Gen
  ELSE {None} \cup Gen

StopPlaces ==
  IF Stopping THEN {None, "stopSync", "stopLead", "stopFollow", "stopGo"}
  ELSE IF Stopped THEN {None, "stopFollow", "stopEnd"}
  ELSE {None}

PlaceInv ==
  \A t \in Threads :
    /\ StartOf(t) \in StartPlaces /\ StopOf(t) \in StopPlaces
    /\ StartOf(t) \in {"startLead", "startGo"} => t = selectedTid
    /\ StopOf(t) \in {"stopLead", "stopGo"} => t = selectedTid
    /\ StartOf(t) = "startGo" \/ StopOf(t) = "stopGo" => AllSynced

\* A true entry is a thread past its synchronisation.
SyncInv ==
  \A t \in Threads :
    t \in synced <=>
      \/ StartOf(t) \in {"startLead", "startFollow", "startGo", "startEnd"}
      \/ StopOf(t) \in {"stopLead", "stopFollow", "stopGo", "stopEnd"}

\* A thread is signalled once in a round, and only one the request knows.
SignalInv ==
  \A t \in Threads :
    /\ Starting =>
         /\ "USR1" \in pending[t] => t \in tids \ toSignal /\ StartOf(t) = None
         /\ StartOf(t) # None => t \in tids \ toSignal
    /\ Stopping =>
         /\ "USR2" \in pending[t] => t \in tids \ toSignal /\ StopOf(t) = None
         /\ StopOf(t) # None => t \in tids \ toSignal
    /\ ~Stopping => "USR2" \notin pending[t]

\* A thread with an entry is in the set, and only one that is just entering
\* is in the set without an entry.
KnownInv ==
  /\ known \subseteq tids
  /\ \A t \in Threads : t \in tids /\ t \notin known => app[t] = "enter"
  /\ \A t \in Threads : app[t] = "enter" => t \in tids
  /\ rpc \notin {"idle", "sleep"} => \A t \in Threads : app[t] # "enter"

\* The hand-shake: what a worker that asks can rely on, and the signal and the
\* handler it leads to, which are the main thread's.
AskInv ==
  /\ \A t \in Threads :
       /\ Asks(t) => t \in Workers /\ ~Starting
       /\ app[t] = "kill" => genCallStack /\ callStack = 0
       /\ app[t] = "wait" => callStack = IF genCallStack THEN 0 ELSE 1
       /\ app[t] = "clear" => ~genCallStack /\ callStack = 1
  /\ (\A t \in Threads : ~Asks(t)) => ~genCallStack /\ callStack = 0
  /\ \A t \in Threads :
       /\ StartOf(t) \in Gen =>
            /\ t = Main /\ "USR1" \notin pending[t] /\ genCallStack
            /\ \E u \in Workers : app[u] = "wait"
       /\ "USR1" \in pending[t] /\ ~Starting =>
            /\ t = Main /\ genCallStack
            /\ \E u \in Workers : app[u] = "wait"

CalmInv == /\ RoundInv /\ PlaceInv /\ SyncInv /\ SignalInv /\ KnownInv
           /\ AskInv

\* Rounds exclude each other, and where a handler is tells the round.
LEMMA RoundLemma ==
  ASSUME PlaceInv, NEW t \in Threads
  PROVE  /\ Starting => ~Sampling /\ ~Stopping /\ ~Stopped
         /\ Sampling => ~Stopping /\ ~Stopped
         /\ Stopping => ~Stopped
         /\ StartOf(t) \in {"startSync", "startLead", "startGo"} => Starting
         /\ StartOf(t) = "startEnd" => Sampling
         /\ StartOf(t) = "startFollow" => Starting \/ Sampling
         /\ StartOf(t) \in Gen => ~Starting
         /\ StopOf(t) \in {"stopSync", "stopLead", "stopGo"} => Stopping
         /\ StopOf(t) = "stopEnd" => Stopped
         /\ StopOf(t) = "stopFollow" => Stopping \/ Stopped
PROOF
<1>1. StartOf(t) \in StartPlaces /\ StopOf(t) \in StopPlaces
  BY DEF PlaceInv
<1>2. /\ Starting => ~Sampling /\ ~Stopping /\ ~Stopped
      /\ Sampling => ~Stopping /\ ~Stopped
      /\ Stopping => ~Stopped
  BY DEF Starting, Sampling, Stopping, Stopped
<1>. QED  BY <1>1, <1>2 DEF StartPlaces, StopPlaces, Gen, None

\* A step that leaves the request and sampling alone stays in its round.
LEMMA SameRound ==
  ASSUME RoundInv,
         UNCHANGED <<noSampling, started, cupti, rpc, toSignal>>
  PROVE  /\ Starting' = Starting /\ Sampling' = Sampling
         /\ Stopping' = Stopping /\ Stopped' = Stopped
         /\ StartPlaces' = StartPlaces /\ StopPlaces' = StopPlaces
         /\ RoundInv'
PROOF
<1>1. /\ Starting' = Starting /\ Sampling' = Sampling
      /\ Stopping' = Stopping /\ Stopped' = Stopped
  BY DEF Starting, Sampling, Stopping, Stopped
<1>2. StartPlaces' = StartPlaces /\ StopPlaces' = StopPlaces
  BY <1>1 DEF StartPlaces, StopPlaces
<1>. QED  BY <1>1, <1>2 DEF RoundInv

\* A step of a handler keeps the rounds.
LEMMA HandleStep ==
  ASSUME ThreadsAssumption, OneWorker, TypeInv, CalmInv,
         NEW t \in Threads, Handle(t), ~StartGo(t), ~StopGo(t)
  PROVE  CalmInv'
PROOF
<1>. USE DEF syncVars, sampVars, rpcVars, unwVars
<1>1. /\ app \in [Threads -> {"new", "enter", "run", "kill", "wait", "clear",
                              "ended"}]
      /\ pending \in [Threads -> SUBSET Signals]
      /\ started \in BOOLEAN /\ cupti \in BOOLEAN /\ noSampling \in BOOLEAN
      /\ genCallStack \in BOOLEAN
      /\ tids \subseteq Threads /\ toSignal \subseteq tids /\ Workers \subseteq Threads
  BY DEF TypeInv, TypeOK, ThreadsAssumption
<1>2. RoundInv /\ PlaceInv /\ SyncInv /\ SignalInv /\ KnownInv /\ AskInv
  BY DEF CalmInv
<1>r. UNCHANGED <<noSampling, started, cupti, rpc, toSignal>>
  BY DEF Handle, DeliverStart, StartSync, StartLead, StartFollow, StartEnd,
         GenCheck, GenUnwind, DeliverStop, StopSync, StopLead, StopFollow,
         StopEnd
<1>s. /\ Starting' = Starting /\ Sampling' = Sampling
      /\ Stopping' = Stopping /\ Stopped' = Stopped
      /\ StartPlaces' = StartPlaces /\ StopPlaces' = StopPlaces
      /\ RoundInv'
  BY <1>2, <1>r, SameRound
<1>3. CASE DeliverStart(t)
  <2>1. StartOf(t) = None /\ IF Starting THEN ~genCallStack /\ t \in tids \ toSignal ELSE t = Main /\ genCallStack
    BY <1>1, <1>2, <1>3, HandlerLemma, RoundLemma
       DEF DeliverStart, SignalInv, AskInv, RoundInv, Gen, None, Starting, Sampling, Stopping, Stopped
  <2>2. \A u \in Threads :
          /\ StartOf(u)' = IF u = t THEN (IF genCallStack THEN "genCheck" ELSE "startSync")
                     ELSE StartOf(u)
          /\ StopOf(u)' = StopOf(u)
    BY <1>2, <1>3, <2>1, HandlerLemma DEF Moved, AskInv, Gen
  <2>3. PlaceInv'
    BY <1>1, <1>2, <1>r, <1>s, <1>3, <2>1, <2>2, RoundLemma
       DEF DeliverStart, PlaceInv, StartPlaces, StopPlaces, Gen, AllSynced, None
  <2>4. SyncInv'
    BY <1>1, <1>2, <1>r, <1>s, <1>3, <2>1, <2>2, RoundLemma
       DEF DeliverStart, SyncInv, PlaceInv, StartPlaces, StopPlaces, Gen, None
  <2>5. SignalInv'
    BY <1>1, <1>2, <1>r, <1>s, <1>3, <2>1, <2>2, RoundLemma
       DEF DeliverStart, SignalInv, PlaceInv, StartPlaces, StopPlaces, Gen, None
  <2>6. KnownInv'
    BY <1>1, <1>2, <1>r, <1>s, <1>3, <2>1, <2>2, RoundLemma
       DEF DeliverStart, KnownInv
  <2>7. AskInv'
    BY <1>1, <1>2, <1>r, <1>s, <1>3, <2>1, <2>2, RoundLemma
       DEF DeliverStart, AskInv, Asks, Gen, OneWorker, None
  <2>. QED  BY <1>s, <2>3, <2>4, <2>5, <2>6, <2>7 DEF CalmInv
<1>4. CASE StartSync(t)
  <2>1. StartOf(t) = "startSync" /\ Starting /\ t \in tids \ toSignal
    BY <1>1, <1>2, <1>4, HandlerLemma, RoundLemma
       DEF StartSync, SignalInv, AskInv, RoundInv, Gen, None, Starting, Sampling, Stopping, Stopped
  <2>2. \A u \in Threads :
          /\ StartOf(u)' = IF u = t THEN (IF t = selectedTid THEN "startLead" ELSE "startFollow")
                     ELSE StartOf(u)
          /\ StopOf(u)' = StopOf(u)
    BY <1>2, <1>4, <2>1, HandlerLemma DEF Moved, AskInv, Gen
  <2>3. PlaceInv'
    BY <1>1, <1>2, <1>r, <1>s, <1>4, <2>1, <2>2, RoundLemma
       DEF StartSync, PlaceInv, StartPlaces, StopPlaces, Gen, AllSynced, None
  <2>4. SyncInv'
    BY <1>1, <1>2, <1>r, <1>s, <1>4, <2>1, <2>2, RoundLemma
       DEF StartSync, SyncInv, PlaceInv, StartPlaces, StopPlaces, Gen, None
  <2>5. SignalInv'
    BY <1>1, <1>2, <1>r, <1>s, <1>4, <2>1, <2>2, RoundLemma
       DEF StartSync, SignalInv, PlaceInv, StartPlaces, StopPlaces, Gen, None
  <2>6. KnownInv'
    BY <1>1, <1>2, <1>r, <1>s, <1>4, <2>1, <2>2, RoundLemma
       DEF StartSync, KnownInv
  <2>7. AskInv'
    BY <1>1, <1>2, <1>r, <1>s, <1>4, <2>1, <2>2, RoundLemma
       DEF StartSync, AskInv, Asks, Gen, OneWorker, None
  <2>. QED  BY <1>s, <2>3, <2>4, <2>5, <2>6, <2>7 DEF CalmInv
<1>5. CASE StartLead(t)
  <2>1. StartOf(t) = "startLead" /\ Starting /\ t = selectedTid
    BY <1>1, <1>2, <1>5, HandlerLemma, RoundLemma
       DEF StartLead, PlaceInv, SignalInv, AskInv, RoundInv, Gen, None, Starting, Sampling, Stopping, Stopped
  <2>2. \A u \in Threads :
          /\ StartOf(u)' = IF u = t THEN "startGo" ELSE StartOf(u)
          /\ StopOf(u)' = StopOf(u)
    BY <1>2, <1>5, <2>1, HandlerLemma DEF Moved, AskInv, Gen
  <2>3. PlaceInv'
    BY <1>1, <1>2, <1>r, <1>s, <1>5, <2>1, <2>2, RoundLemma
       DEF StartLead, PlaceInv, StartPlaces, StopPlaces, Gen, AllSynced, None
  <2>4. SyncInv'
    BY <1>1, <1>2, <1>r, <1>s, <1>5, <2>1, <2>2, RoundLemma
       DEF StartLead, SyncInv, PlaceInv, StartPlaces, StopPlaces, Gen, None
  <2>5. SignalInv'
    BY <1>1, <1>2, <1>r, <1>s, <1>5, <2>1, <2>2, RoundLemma
       DEF StartLead, SignalInv, PlaceInv, StartPlaces, StopPlaces, Gen, None
  <2>6. KnownInv'
    BY <1>1, <1>2, <1>r, <1>s, <1>5, <2>1, <2>2, RoundLemma
       DEF StartLead, KnownInv
  <2>7. AskInv'
    BY <1>1, <1>2, <1>r, <1>s, <1>5, <2>1, <2>2, RoundLemma
       DEF StartLead, AskInv, Asks, Gen, OneWorker, None
  <2>. QED  BY <1>s, <2>3, <2>4, <2>5, <2>6, <2>7 DEF CalmInv
<1>6. CASE StartFollow(t)
  <2>1. StartOf(t) = "startFollow" /\ Sampling
    BY <1>1, <1>2, <1>6, HandlerLemma, RoundLemma
       DEF StartFollow, SignalInv, AskInv, RoundInv, Gen, None, Starting, Sampling, Stopping, Stopped
  <2>2. \A u \in Threads :
          /\ StartOf(u)' = IF u = t THEN "startEnd" ELSE StartOf(u)
          /\ StopOf(u)' = StopOf(u)
    BY <1>2, <1>6, <2>1, HandlerLemma DEF Moved, AskInv, Gen
  <2>3. PlaceInv'
    BY <1>1, <1>2, <1>r, <1>s, <1>6, <2>1, <2>2, RoundLemma
       DEF StartFollow, PlaceInv, StartPlaces, StopPlaces, Gen, AllSynced, None
  <2>4. SyncInv'
    BY <1>1, <1>2, <1>r, <1>s, <1>6, <2>1, <2>2, RoundLemma
       DEF StartFollow, SyncInv, PlaceInv, StartPlaces, StopPlaces, Gen, None
  <2>5. SignalInv'
    BY <1>1, <1>2, <1>r, <1>s, <1>6, <2>1, <2>2, RoundLemma
       DEF StartFollow, SignalInv, PlaceInv, StartPlaces, StopPlaces, Gen, None
  <2>6. KnownInv'
    BY <1>1, <1>2, <1>r, <1>s, <1>6, <2>1, <2>2, RoundLemma
       DEF StartFollow, KnownInv
  <2>7. AskInv'
    BY <1>1, <1>2, <1>r, <1>s, <1>6, <2>1, <2>2, RoundLemma
       DEF StartFollow, AskInv, Asks, Gen, OneWorker, None
  <2>. QED  BY <1>s, <2>3, <2>4, <2>5, <2>6, <2>7 DEF CalmInv
<1>7. CASE StartEnd(t)
  <2>1. StartOf(t) = "startEnd" /\ Sampling
    BY <1>1, <1>2, <1>7, HandlerLemma, RoundLemma
       DEF StartEnd, SignalInv, AskInv, RoundInv, Gen, None, Starting, Sampling, Stopping, Stopped
  <2>2. \A u \in Threads :
          /\ StartOf(u)' = IF u = t THEN None ELSE StartOf(u)
          /\ StopOf(u)' = StopOf(u)
    BY <1>2, <1>7, <2>1, HandlerLemma DEF Moved, AskInv, Gen
  <2>3. PlaceInv'
    BY <1>1, <1>2, <1>r, <1>s, <1>7, <2>1, <2>2, RoundLemma
       DEF StartEnd, PlaceInv, StartPlaces, StopPlaces, Gen, AllSynced, None
  <2>4. SyncInv'
    BY <1>1, <1>2, <1>r, <1>s, <1>7, <2>1, <2>2, RoundLemma
       DEF StartEnd, SyncInv, PlaceInv, StartPlaces, StopPlaces, Gen, None
  <2>5. SignalInv'
    BY <1>1, <1>2, <1>r, <1>s, <1>7, <2>1, <2>2, RoundLemma
       DEF StartEnd, SignalInv, PlaceInv, StartPlaces, StopPlaces, Gen, None
  <2>6. KnownInv'
    BY <1>1, <1>2, <1>r, <1>s, <1>7, <2>1, <2>2, RoundLemma
       DEF StartEnd, KnownInv
  <2>7. AskInv'
    BY <1>1, <1>2, <1>r, <1>s, <1>7, <2>1, <2>2, RoundLemma
       DEF StartEnd, AskInv, Asks, Gen, OneWorker, None
  <2>. QED  BY <1>s, <2>3, <2>4, <2>5, <2>6, <2>7 DEF CalmInv
<1>8. CASE GenCheck(t)
  <2>1. StartOf(t) = "genCheck" /\ ~Starting /\ t = Main /\ genCallStack
    BY <1>1, <1>2, <1>8, HandlerLemma, RoundLemma
       DEF GenCheck, SignalInv, AskInv, RoundInv, Gen, None, Starting, Sampling, Stopping, Stopped
  <2>2. \A u \in Threads :
          /\ StartOf(u)' = IF u = t THEN "genUnwind" ELSE StartOf(u)
          /\ StopOf(u)' = StopOf(u)
    BY <1>2, <1>8, <2>1, HandlerLemma DEF Moved, AskInv, Gen
  <2>3. PlaceInv'
    BY <1>1, <1>2, <1>r, <1>s, <1>8, <2>1, <2>2, RoundLemma
       DEF GenCheck, PlaceInv, StartPlaces, StopPlaces, Gen, AllSynced, None
  <2>4. SyncInv'
    BY <1>1, <1>2, <1>r, <1>s, <1>8, <2>1, <2>2, RoundLemma
       DEF GenCheck, SyncInv, PlaceInv, StartPlaces, StopPlaces, Gen, None
  <2>5. SignalInv'
    BY <1>1, <1>2, <1>r, <1>s, <1>8, <2>1, <2>2, RoundLemma
       DEF GenCheck, SignalInv, PlaceInv, StartPlaces, StopPlaces, Gen, None
  <2>6. KnownInv'
    BY <1>1, <1>2, <1>r, <1>s, <1>8, <2>1, <2>2, RoundLemma
       DEF GenCheck, KnownInv
  <2>7. AskInv'
    BY <1>1, <1>2, <1>r, <1>s, <1>8, <2>1, <2>2, RoundLemma
       DEF GenCheck, AskInv, Asks, Gen, OneWorker, None
  <2>. QED  BY <1>s, <2>3, <2>4, <2>5, <2>6, <2>7 DEF CalmInv
<1>9. CASE GenUnwind(t)
  <2>1. StartOf(t) = "genUnwind" /\ ~Starting /\ t = Main /\ genCallStack
    BY <1>1, <1>2, <1>9, HandlerLemma, RoundLemma
       DEF GenUnwind, SignalInv, AskInv, RoundInv, Gen, None, Starting, Sampling, Stopping, Stopped
  <2>2. \A u \in Threads :
          /\ StartOf(u)' = IF u = t THEN None ELSE StartOf(u)
          /\ StopOf(u)' = StopOf(u)
    BY <1>2, <1>9, <2>1, HandlerLemma DEF Moved, AskInv, Gen
  <2>3. PlaceInv'
    BY <1>1, <1>2, <1>r, <1>s, <1>9, <2>1, <2>2, RoundLemma
       DEF GenUnwind, PlaceInv, StartPlaces, StopPlaces, Gen, AllSynced, None
  <2>4. SyncInv'
    BY <1>1, <1>2, <1>r, <1>s, <1>9, <2>1, <2>2, RoundLemma
       DEF GenUnwind, SyncInv, PlaceInv, StartPlaces, StopPlaces, Gen, None
  <2>5. SignalInv'
    BY <1>1, <1>2, <1>r, <1>s, <1>9, <2>1, <2>2, RoundLemma
       DEF GenUnwind, SignalInv, PlaceInv, StartPlaces, StopPlaces, Gen, None
  <2>6. KnownInv'
    BY <1>1, <1>2, <1>r, <1>s, <1>9, <2>1, <2>2, RoundLemma
       DEF GenUnwind, KnownInv
  <2>7. AskInv'
    <3>1. PICK w \in Workers : app[w] = "wait" /\ callStack = 0
      BY <1>1, <1>2, <2>1 DEF AskInv, Gen
    <3>2. callStack' = 1
      <4>1. PICK n \in Nat : n = MaxCopies /\ n >= 1
        BY CopiesLemma
      <4>. QED  BY <1>9, <3>1, <4>1 DEF GenUnwind
    <3>3. \A u \in Threads : Asks(u) => u = w
      BY <1>1, <1>2, <3>1 DEF AskInv, OneWorker
    <3>4. /\ genCallStack' = FALSE /\ app' = app /\ pending' = pending
          /\ \A u \in Threads : StartOf(u)' \notin Gen
      BY <1>2, <1>9, <2>1, <2>2 DEF GenUnwind, AskInv, Gen, None
    <3>5. \A u \in Threads : "USR1" \in pending[u] => Starting
      BY <1>2, <2>1 DEF AskInv, Gen
    <3>. QED  BY <1>1, <1>2, <1>s, <3>1, <3>2, <3>3, <3>4, <3>5
                 DEF AskInv, Asks
  <2>. QED  BY <1>s, <2>3, <2>4, <2>5, <2>6, <2>7 DEF CalmInv
<1>10. CASE DeliverStop(t)
  <2>1. StopOf(t) = None /\ Stopping /\ t \in tids \ toSignal
    BY <1>1, <1>2, <1>10, HandlerLemma, RoundLemma
       DEF DeliverStop, SignalInv, AskInv, RoundInv, Gen, None, Starting, Sampling, Stopping, Stopped
  <2>2. \A u \in Threads :
          /\ StartOf(u)' = StartOf(u)
          /\ StopOf(u)' = IF u = t THEN "stopSync" ELSE StopOf(u)
    BY <1>2, <1>10, <2>1, HandlerLemma DEF Moved, AskInv, Gen
  <2>3. PlaceInv'
    BY <1>1, <1>2, <1>r, <1>s, <1>10, <2>1, <2>2, RoundLemma
       DEF DeliverStop, PlaceInv, StartPlaces, StopPlaces, Gen, AllSynced, None
  <2>4. SyncInv'
    BY <1>1, <1>2, <1>r, <1>s, <1>10, <2>1, <2>2, RoundLemma
       DEF DeliverStop, SyncInv, PlaceInv, StartPlaces, StopPlaces, Gen, None
  <2>5. SignalInv'
    BY <1>1, <1>2, <1>r, <1>s, <1>10, <2>1, <2>2, RoundLemma
       DEF DeliverStop, SignalInv, PlaceInv, StartPlaces, StopPlaces, Gen, None
  <2>6. KnownInv'
    BY <1>1, <1>2, <1>r, <1>s, <1>10, <2>1, <2>2, RoundLemma
       DEF DeliverStop, KnownInv
  <2>7. AskInv'
    BY <1>1, <1>2, <1>r, <1>s, <1>10, <2>1, <2>2, RoundLemma
       DEF DeliverStop, AskInv, Asks, Gen, OneWorker, None
  <2>. QED  BY <1>s, <2>3, <2>4, <2>5, <2>6, <2>7 DEF CalmInv
<1>11. CASE StopSync(t)
  <2>1. StopOf(t) = "stopSync" /\ Stopping /\ t \in tids \ toSignal
    BY <1>1, <1>2, <1>11, HandlerLemma, RoundLemma
       DEF StopSync, SignalInv, AskInv, RoundInv, Gen, None, Starting, Sampling, Stopping, Stopped
  <2>2. \A u \in Threads :
          /\ StartOf(u)' = StartOf(u)
          /\ StopOf(u)' = IF u = t THEN (IF t = selectedTid THEN "stopLead" ELSE "stopFollow")
                     ELSE StopOf(u)
    BY <1>2, <1>11, <2>1, HandlerLemma DEF Moved, AskInv, Gen
  <2>3. PlaceInv'
    BY <1>1, <1>2, <1>r, <1>s, <1>11, <2>1, <2>2, RoundLemma
       DEF StopSync, PlaceInv, StartPlaces, StopPlaces, Gen, AllSynced, None
  <2>4. SyncInv'
    BY <1>1, <1>2, <1>r, <1>s, <1>11, <2>1, <2>2, RoundLemma
       DEF StopSync, SyncInv, PlaceInv, StartPlaces, StopPlaces, Gen, None
  <2>5. SignalInv'
    BY <1>1, <1>2, <1>r, <1>s, <1>11, <2>1, <2>2, RoundLemma
       DEF StopSync, SignalInv, PlaceInv, StartPlaces, StopPlaces, Gen, None
  <2>6. KnownInv'
    BY <1>1, <1>2, <1>r, <1>s, <1>11, <2>1, <2>2, RoundLemma
       DEF StopSync, KnownInv
  <2>7. AskInv'
    BY <1>1, <1>2, <1>r, <1>s, <1>11, <2>1, <2>2, RoundLemma
       DEF StopSync, AskInv, Asks, Gen, OneWorker, None
  <2>. QED  BY <1>s, <2>3, <2>4, <2>5, <2>6, <2>7 DEF CalmInv
<1>12. CASE StopLead(t)
  <2>1. StopOf(t) = "stopLead" /\ Stopping /\ t = selectedTid
    BY <1>1, <1>2, <1>12, HandlerLemma, RoundLemma
       DEF StopLead, PlaceInv, SignalInv, AskInv, RoundInv, Gen, None, Starting, Sampling, Stopping, Stopped
  <2>2. \A u \in Threads :
          /\ StartOf(u)' = StartOf(u)
          /\ StopOf(u)' = IF u = t THEN "stopGo" ELSE StopOf(u)
    BY <1>2, <1>12, <2>1, HandlerLemma DEF Moved, AskInv, Gen
  <2>3. PlaceInv'
    BY <1>1, <1>2, <1>r, <1>s, <1>12, <2>1, <2>2, RoundLemma
       DEF StopLead, PlaceInv, StartPlaces, StopPlaces, Gen, AllSynced, None
  <2>4. SyncInv'
    BY <1>1, <1>2, <1>r, <1>s, <1>12, <2>1, <2>2, RoundLemma
       DEF StopLead, SyncInv, PlaceInv, StartPlaces, StopPlaces, Gen, None
  <2>5. SignalInv'
    BY <1>1, <1>2, <1>r, <1>s, <1>12, <2>1, <2>2, RoundLemma
       DEF StopLead, SignalInv, PlaceInv, StartPlaces, StopPlaces, Gen, None
  <2>6. KnownInv'
    BY <1>1, <1>2, <1>r, <1>s, <1>12, <2>1, <2>2, RoundLemma
       DEF StopLead, KnownInv
  <2>7. AskInv'
    BY <1>1, <1>2, <1>r, <1>s, <1>12, <2>1, <2>2, RoundLemma
       DEF StopLead, AskInv, Asks, Gen, OneWorker, None
  <2>. QED  BY <1>s, <2>3, <2>4, <2>5, <2>6, <2>7 DEF CalmInv
<1>13. CASE StopFollow(t)
  <2>1. StopOf(t) = "stopFollow" /\ Stopped
    BY <1>1, <1>2, <1>13, HandlerLemma, RoundLemma
       DEF StopFollow, SignalInv, AskInv, RoundInv, Gen, None, Starting, Sampling, Stopping, Stopped
  <2>2. \A u \in Threads :
          /\ StartOf(u)' = StartOf(u)
          /\ StopOf(u)' = IF u = t THEN "stopEnd" ELSE StopOf(u)
    BY <1>2, <1>13, <2>1, HandlerLemma DEF Moved, AskInv, Gen
  <2>3. PlaceInv'
    BY <1>1, <1>2, <1>r, <1>s, <1>13, <2>1, <2>2, RoundLemma
       DEF StopFollow, PlaceInv, StartPlaces, StopPlaces, Gen, AllSynced, None
  <2>4. SyncInv'
    BY <1>1, <1>2, <1>r, <1>s, <1>13, <2>1, <2>2, RoundLemma
       DEF StopFollow, SyncInv, PlaceInv, StartPlaces, StopPlaces, Gen, None
  <2>5. SignalInv'
    BY <1>1, <1>2, <1>r, <1>s, <1>13, <2>1, <2>2, RoundLemma
       DEF StopFollow, SignalInv, PlaceInv, StartPlaces, StopPlaces, Gen, None
  <2>6. KnownInv'
    BY <1>1, <1>2, <1>r, <1>s, <1>13, <2>1, <2>2, RoundLemma
       DEF StopFollow, KnownInv
  <2>7. AskInv'
    BY <1>1, <1>2, <1>r, <1>s, <1>13, <2>1, <2>2, RoundLemma
       DEF StopFollow, AskInv, Asks, Gen, OneWorker, None
  <2>. QED  BY <1>s, <2>3, <2>4, <2>5, <2>6, <2>7 DEF CalmInv
<1>14. CASE StopEnd(t)
  <2>1. StopOf(t) = "stopEnd" /\ Stopped
    BY <1>1, <1>2, <1>14, HandlerLemma, RoundLemma
       DEF StopEnd, SignalInv, AskInv, RoundInv, Gen, None, Starting, Sampling, Stopping, Stopped
  <2>2. \A u \in Threads :
          /\ StartOf(u)' = StartOf(u)
          /\ StopOf(u)' = IF u = t THEN None ELSE StopOf(u)
    BY <1>2, <1>14, <2>1, HandlerLemma DEF Moved, AskInv, Gen
  <2>3. PlaceInv'
    BY <1>1, <1>2, <1>r, <1>s, <1>14, <2>1, <2>2, RoundLemma
       DEF StopEnd, PlaceInv, StartPlaces, StopPlaces, Gen, AllSynced, None
  <2>4. SyncInv'
    BY <1>1, <1>2, <1>r, <1>s, <1>14, <2>1, <2>2, RoundLemma
       DEF StopEnd, SyncInv, PlaceInv, StartPlaces, StopPlaces, Gen, None
  <2>5. SignalInv'
    BY <1>1, <1>2, <1>r, <1>s, <1>14, <2>1, <2>2, RoundLemma
       DEF StopEnd, SignalInv, PlaceInv, StartPlaces, StopPlaces, Gen, None
  <2>6. KnownInv'
    BY <1>1, <1>2, <1>r, <1>s, <1>14, <2>1, <2>2, RoundLemma
       DEF StopEnd, KnownInv
  <2>7. AskInv'
    BY <1>1, <1>2, <1>r, <1>s, <1>14, <2>1, <2>2, RoundLemma
       DEF StopEnd, AskInv, Asks, Gen, OneWorker, None
  <2>. QED  BY <1>s, <2>3, <2>4, <2>5, <2>6, <2>7 DEF CalmInv
<1>. QED  BY <1>3, <1>4, <1>5, <1>6, <1>7, <1>8, <1>9, <1>10, <1>11, <1>12, <1>13, <1>14 DEF Handle

\* When CUPTI starts or stops, the round ends: every known thread has
\* synchronised, so none is left to signal and none is before the barrier.
LEMMA GoStep ==
  ASSUME ThreadsAssumption, OneWorker, TypeInv, CalmInv,
         NEW t \in Threads, StartGo(t) \/ StopGo(t)
  PROVE  CalmInv'
PROOF
<1>. USE DEF syncVars, sampVars, rpcVars, unwVars
<1>1. /\ app \in [Threads -> {"new", "enter", "run", "kill", "wait", "clear",
                              "ended"}]
      /\ pending \in [Threads -> SUBSET Signals]
      /\ started \in BOOLEAN /\ cupti \in BOOLEAN /\ noSampling \in BOOLEAN
      /\ genCallStack \in BOOLEAN /\ synced \subseteq known
      /\ tids \subseteq Threads /\ toSignal \subseteq tids /\ known \subseteq Threads
      /\ Workers \subseteq Threads /\ Launchers \subseteq Threads
      /\ Mortal \subseteq Threads /\ Main \in Threads
      /\ noSampling => rpc = "idle"
      /\ toSignal # {} => rpc \in {"signalStart", "signalStop"}
  BY DEF TypeInv, TypeOK, ThreadsAssumption
<1>2. RoundInv /\ PlaceInv /\ SyncInv /\ SignalInv /\ KnownInv /\ AskInv
  BY DEF CalmInv
<1>3. CASE StartGo(t)
  <2>1. StartOf(t) = "startGo" /\ Starting /\ t = selectedTid /\ AllSynced
    BY <1>1, <1>2, <1>3, HandlerLemma, RoundLemma DEF PlaceInv
  <2>2. \A u \in Threads :
          /\ StartOf(u)' = IF u = t THEN "startEnd" ELSE StartOf(u)
          /\ StopOf(u)' = StopOf(u)
    BY <1>3, HandlerLemma DEF Moved
  <2>3. /\ \A u \in Threads : app[u] # "enter"
        /\ tids = known
    BY <1>1, <1>2, <2>1 DEF KnownInv, Starting, Stopping
  <2>4. \A u \in tids : StartOf(u) \in {"startLead", "startFollow", "startGo"}
    BY <1>1, <1>2, <2>1, <2>3, RoundLemma
       DEF AllSynced, SyncInv, PlaceInv, StartPlaces, StopPlaces, Gen, None
  <2>5. toSignal = {}
    BY <1>1, <1>2, <2>1, <2>4 DEF SignalInv, None
  <2>6. /\ started' = TRUE /\ cupti' = TRUE
        /\ UNCHANGED <<noSampling, app, pending, syncVars, rpcVars, unwVars>>
    BY <1>3, <2>1 DEF StartGo, Stopping
  <2>7. ~Starting' /\ ~Stopping' /\ Sampling' /\ ~Stopped'
    BY <1>1, <2>1, <2>6 DEF Starting, Sampling, Stopping, Stopped
  <2>8. /\ \A u \in Threads \ tids : StartOf(u) = None
        /\ \A u \in Threads : StartOf(u) # None => "USR1" \notin pending[u]
        /\ \A u \in tids : "USR1" \notin pending[u]
        /\ \A u \in Threads \ tids : "USR1" \notin pending[u]
    BY <1>1, <1>2, <2>1, <2>4, <2>5 DEF SignalInv, None
  <2>9. \A u \in tids \ {t} : StartOf(u) = "startFollow"
    BY <1>1, <1>2, <2>1, <2>4 DEF PlaceInv
  <2>10. RoundInv'
    BY <2>5, <2>6, <2>7 DEF RoundInv
  <2>11. PlaceInv'
    BY <1>1, <1>2, <2>1, <2>2, <2>6, <2>7, <2>8, <2>9, RoundLemma
       DEF PlaceInv, StartPlaces, StopPlaces, Gen, None
  <2>12. SyncInv'
    BY <1>2, <2>1, <2>2, <2>6 DEF SyncInv
  <2>13. SignalInv'
    BY <1>2, <2>1, <2>6, <2>7, <2>8, RoundLemma DEF SignalInv
  <2>14. KnownInv'
    BY <1>2, <2>6 DEF KnownInv
  <2>15. AskInv'
    BY <1>1, <1>2, <2>1, <2>2, <2>6, <2>7, <2>8, RoundLemma DEF AskInv, Asks, Gen
  <2>. QED  BY <2>10, <2>11, <2>12, <2>13, <2>14, <2>15 DEF CalmInv
<1>4. CASE StopGo(t)
  <2>1. StopOf(t) = "stopGo" /\ Stopping /\ t = selectedTid /\ AllSynced
    BY <1>1, <1>2, <1>4, HandlerLemma, RoundLemma DEF PlaceInv
  <2>2. \A u \in Threads :
          /\ StopOf(u)' = IF u = t THEN "stopEnd" ELSE StopOf(u)
          /\ StartOf(u)' = StartOf(u)
    BY <1>4, HandlerLemma DEF Moved
  <2>3. /\ \A u \in Threads : app[u] # "enter"
        /\ tids = known
    BY <1>1, <1>2, <2>1 DEF KnownInv, Starting, Stopping
  <2>4. \A u \in tids : StopOf(u) \in {"stopLead", "stopFollow", "stopGo"}
    BY <1>1, <1>2, <2>1, <2>3, RoundLemma
       DEF AllSynced, SyncInv, PlaceInv, StartPlaces, StopPlaces, Gen, None
  <2>5. toSignal = {}
    BY <1>1, <1>2, <2>1, <2>4 DEF SignalInv, None
  <2>6. /\ started' = FALSE /\ cupti' = FALSE
        /\ UNCHANGED <<noSampling, app, pending, syncVars, rpcVars, unwVars>>
    BY <1>4, <2>1 DEF StopGo, Stopping
  <2>7. ~Starting' /\ ~Stopping' /\ Stopped' /\ ~Sampling'
    BY <1>1, <2>1, <2>6 DEF Starting, Sampling, Stopping, Stopped
  <2>8. /\ \A u \in Threads \ tids : StopOf(u) = None
        /\ \A u \in Threads : StopOf(u) # None => "USR2" \notin pending[u]
        /\ \A u \in tids : "USR2" \notin pending[u]
        /\ \A u \in Threads \ tids : "USR2" \notin pending[u]
    BY <1>1, <1>2, <2>1, <2>4, <2>5 DEF SignalInv, None
  <2>9. \A u \in tids \ {t} : StopOf(u) = "stopFollow"
    BY <1>1, <1>2, <2>1, <2>4 DEF PlaceInv
  <2>10. RoundInv'
    BY <2>5, <2>6, <2>7 DEF RoundInv
  <2>11. PlaceInv'
    BY <1>1, <1>2, <2>1, <2>2, <2>6, <2>7, <2>8, <2>9, RoundLemma
       DEF PlaceInv, StartPlaces, StopPlaces, Gen, None
  <2>12. SyncInv'
    BY <1>2, <2>1, <2>2, <2>6 DEF SyncInv
  <2>13. SignalInv'
    BY <1>2, <2>1, <2>6, <2>7, <2>8, RoundLemma DEF SignalInv
  <2>14. KnownInv'
    BY <1>2, <2>6 DEF KnownInv
  <2>15. AskInv'
    BY <1>1, <1>2, <2>1, <2>2, <2>6, <2>7, <2>8, RoundLemma DEF AskInv, Asks, Gen
  <2>. QED  BY <2>10, <2>11, <2>12, <2>13, <2>14, <2>15 DEF CalmInv
<1>. QED  BY <1>3, <1>4

\* A step of a program keeps the rounds.
LEMMA ProgramStep ==
  ASSUME ThreadsAssumption, Calm, OneWorker, TypeInv, CalmInv,
         NEW t \in Threads,
         \/ Program(t)
         \/ t \in Launchers /\ Register(t)
         \/ t \in Mortal /\ End(t)
         \/ t \in Workers /\ AskMain(t)
  PROVE  CalmInv'
PROOF
<1>. USE DEF syncVars, sampVars, rpcVars, unwVars
<1>1. /\ app \in [Threads -> {"new", "enter", "run", "kill", "wait", "clear",
                              "ended"}]
      /\ pending \in [Threads -> SUBSET Signals]
      /\ started \in BOOLEAN /\ cupti \in BOOLEAN /\ noSampling \in BOOLEAN
      /\ genCallStack \in BOOLEAN /\ synced \subseteq known
      /\ tids \subseteq Threads /\ toSignal \subseteq tids /\ known \subseteq Threads
      /\ Workers \subseteq Threads /\ Launchers \subseteq Threads
      /\ Mortal \subseteq Threads /\ Main \in Threads
      /\ noSampling => rpc = "idle"
      /\ toSignal # {} => rpc \in {"signalStart", "signalStop"}
  BY DEF TypeInv, TypeOK, ThreadsAssumption
<1>2. RoundInv /\ PlaceInv /\ SyncInv /\ SignalInv /\ KnownInv /\ AskInv
  BY DEF CalmInv
<1>r. /\ UNCHANGED <<frames, noSampling, started, cupti, rpc, synced, selectedTid>>
      /\ UNCHANGED toSignal
  BY <1>1 DEF Program, EnterMap, SignalMain, TakeStack, ClearStack, Register, End,
         AskMain
<1>s. /\ Starting' = Starting /\ Sampling' = Sampling
      /\ Stopping' = Stopping /\ Stopped' = Stopped
      /\ StartPlaces' = StartPlaces /\ StopPlaces' = StopPlaces
      /\ RoundInv'
  BY <1>2, <1>r, SameRound
<1>t. \A u \in Threads : StartOf(u)' = StartOf(u) /\ StopOf(u)' = StopOf(u)
  BY <1>r DEF StartOf, StopOf
<1>u. frames[t] = <<>> /\ StartOf(t) = None /\ StopOf(t) = None
  BY AtLemma DEF Program, EnterMap, SignalMain, TakeStack, ClearStack, Register,
                 End, AskMain, InProgram
<1>v. SyncInv'
  BY <1>2, <1>r, <1>t DEF SyncInv
<1>3. CASE EnterMap(t)
  <2>1. PlaceInv'
    BY <1>1, <1>2, <1>r, <1>s, <1>t, <1>u, <1>3, RoundLemma
       DEF EnterMap, InProgram, PlaceInv, AllSynced, Starting, Stopping, KnownInv
  <2>2. SignalInv'
    BY <1>1, <1>2, <1>r, <1>s, <1>t, <1>u, <1>3, RoundLemma
       DEF EnterMap, InProgram, SignalInv, Starting, Stopping
  <2>3. KnownInv'
    BY <1>1, <1>2, <1>r, <1>s, <1>t, <1>u, <1>3, RoundLemma
       DEF EnterMap, InProgram, KnownInv
  <2>4. AskInv'
    BY <1>1, <1>2, <1>r, <1>s, <1>t, <1>u, <1>3, RoundLemma
       DEF EnterMap, InProgram, AskInv, Asks, Gen, OneWorker, None, Starting, Sampling, Stopping
  <2>. QED  BY <1>s, <1>v, <2>1, <2>2, <2>3, <2>4 DEF CalmInv
<1>4. CASE SignalMain(t)
  <2>1. PlaceInv'
    BY <1>1, <1>2, <1>r, <1>s, <1>t, <1>u, <1>4, RoundLemma
       DEF SignalMain, InProgram, PlaceInv, AllSynced, Starting, Stopping, KnownInv
  <2>2. SignalInv'
    BY <1>1, <1>2, <1>r, <1>s, <1>t, <1>u, <1>4, RoundLemma
       DEF SignalMain, InProgram, SignalInv, AskInv, Asks
  <2>3. KnownInv'
    BY <1>1, <1>2, <1>r, <1>s, <1>t, <1>u, <1>4, RoundLemma
       DEF SignalMain, InProgram, KnownInv
  <2>4. AskInv'
    BY <1>1, <1>2, <1>r, <1>s, <1>t, <1>u, <1>4, RoundLemma
       DEF SignalMain, InProgram, AskInv, Asks, Gen, OneWorker, None, Starting, Sampling, Stopping
  <2>. QED  BY <1>s, <1>v, <2>1, <2>2, <2>3, <2>4 DEF CalmInv
<1>5. CASE TakeStack(t)
  <2>1. PlaceInv'
    BY <1>1, <1>2, <1>r, <1>s, <1>t, <1>u, <1>5, RoundLemma
       DEF TakeStack, InProgram, PlaceInv, AllSynced, Starting, Stopping, KnownInv
  <2>2. SignalInv'
    BY <1>1, <1>2, <1>r, <1>s, <1>t, <1>u, <1>5, RoundLemma
       DEF TakeStack, InProgram, SignalInv, Starting, Stopping
  <2>3. KnownInv'
    BY <1>1, <1>2, <1>r, <1>s, <1>t, <1>u, <1>5, RoundLemma
       DEF TakeStack, InProgram, KnownInv
  <2>4. AskInv'
    BY <1>1, <1>2, <1>r, <1>s, <1>t, <1>u, <1>5, RoundLemma
       DEF TakeStack, InProgram, AskInv, Asks, Gen, OneWorker, None, Starting, Sampling, Stopping
  <2>. QED  BY <1>s, <1>v, <2>1, <2>2, <2>3, <2>4 DEF CalmInv
<1>6. CASE ClearStack(t)
  <2>1. PlaceInv'
    BY <1>1, <1>2, <1>r, <1>s, <1>t, <1>u, <1>6, RoundLemma
       DEF ClearStack, InProgram, PlaceInv, AllSynced, Starting, Stopping, KnownInv
  <2>2. SignalInv'
    BY <1>1, <1>2, <1>r, <1>s, <1>t, <1>u, <1>6, RoundLemma
       DEF ClearStack, InProgram, SignalInv, Starting, Stopping
  <2>3. KnownInv'
    BY <1>1, <1>2, <1>r, <1>s, <1>t, <1>u, <1>6, RoundLemma
       DEF ClearStack, InProgram, KnownInv
  <2>4. AskInv'
    BY <1>1, <1>2, <1>r, <1>s, <1>t, <1>u, <1>6, RoundLemma
       DEF ClearStack, InProgram, AskInv, Asks, Gen, OneWorker, None, Starting, Sampling, Stopping
  <2>. QED  BY <1>s, <1>v, <2>1, <2>2, <2>3, <2>4 DEF CalmInv
<1>7. CASE Register(t)
  <2>1. PlaceInv'
    BY <1>1, <1>2, <1>r, <1>s, <1>t, <1>u, <1>7, RoundLemma
       DEF Register, InProgram, PlaceInv, AllSynced, Starting, Stopping, KnownInv
  <2>2. SignalInv'
    BY <1>1, <1>2, <1>r, <1>s, <1>t, <1>u, <1>7, RoundLemma
       DEF Register, InProgram, SignalInv, Starting, Stopping
  <2>3. KnownInv'
    BY <1>1, <1>2, <1>r, <1>s, <1>t, <1>u, <1>7, RoundLemma
       DEF Register, InProgram, KnownInv
  <2>4. AskInv'
    BY <1>1, <1>2, <1>r, <1>s, <1>t, <1>u, <1>7, RoundLemma
       DEF Register, InProgram, AskInv, Asks, Gen, OneWorker, None, Starting, Sampling, Stopping
  <2>. QED  BY <1>s, <1>v, <2>1, <2>2, <2>3, <2>4 DEF CalmInv
<1>8. CASE End(t)
  <2>1. PlaceInv'
    BY <1>1, <1>2, <1>r, <1>s, <1>t, <1>u, <1>8, RoundLemma
       DEF End, InProgram, PlaceInv, AllSynced, Starting, Stopping, KnownInv
  <2>2. SignalInv'
    BY <1>1, <1>2, <1>r, <1>s, <1>t, <1>u, <1>8, RoundLemma
       DEF End, InProgram, SignalInv, Starting, Stopping
  <2>3. KnownInv'
    BY <1>1, <1>2, <1>r, <1>s, <1>t, <1>u, <1>8, RoundLemma
       DEF End, InProgram, KnownInv
  <2>4. AskInv'
    BY <1>1, <1>2, <1>r, <1>s, <1>t, <1>u, <1>8, RoundLemma
       DEF End, InProgram, AskInv, Asks, Gen, OneWorker, None, Starting, Sampling, Stopping
  <2>. QED  BY <1>s, <1>v, <2>1, <2>2, <2>3, <2>4 DEF CalmInv
<1>9. CASE t \in Workers /\ AskMain(t)
  <2>1. PlaceInv'
    BY <1>1, <1>2, <1>r, <1>s, <1>t, <1>u, <1>9, RoundLemma
       DEF AskMain, InProgram, PlaceInv, AllSynced, Starting, Stopping, KnownInv
  <2>2. SignalInv'
    BY <1>1, <1>2, <1>r, <1>s, <1>t, <1>u, <1>9, RoundLemma
       DEF AskMain, InProgram, SignalInv, Starting, Stopping
  <2>3. KnownInv'
    BY <1>1, <1>2, <1>r, <1>s, <1>t, <1>u, <1>9, RoundLemma
       DEF AskMain, InProgram, KnownInv
  <2>4. AskInv'
    <3>1. /\ app[t] = "run" /\ started /\ t \in Workers
          /\ app' = [app EXCEPT ![t] = "kill"] /\ genCallStack' = TRUE
          /\ UNCHANGED <<callStack, pending>>
      BY <1>1, <1>9 DEF AskMain, InProgram, Starting, Program, EnterMap,
                        SignalMain, TakeStack, ClearStack, Register, End
    <3>2. \A u \in Threads : ~Asks(u)
      BY <1>1, <1>2, <3>1 DEF AskInv, Asks, OneWorker
    <3>3. /\ ~Starting /\ callStack = 0 /\ ~genCallStack
          /\ \A u \in Threads : StartOf(u) \notin Gen /\ "USR1" \notin pending[u]
      BY <1>2, <3>1, <3>2 DEF AskInv, Starting
    <3>4. \A u \in Threads \ {t} : app'[u] = app[u]
      BY <1>1, <3>1
    <3>5. app'[t] = "kill"
      BY <1>1, <3>1
    <3>. QED  BY <1>1, <1>s, <1>t, <3>1, <3>2, <3>3, <3>4, <3>5 DEF AskInv, Asks
  <2>. QED  BY <1>s, <1>v, <2>1, <2>2, <2>3, <2>4 DEF CalmInv
<1>. QED  BY <1>3, <1>4, <1>5, <1>6, <1>7, <1>8, <1>9 DEF Program

\* In a quiet moment nothing is left of a round.
LEMMA QuietLemma ==
  ASSUME TypeInv, CalmInv, Quiet, ThreadsAssumption
  PROVE  /\ synced = {} /\ known = tids /\ ~genCallStack /\ callStack = 0
         /\ \A u \in Threads : /\ StartOf(u) = None /\ StopOf(u) = None
                               /\ pending[u] = {} /\ ~Asks(u)
                               /\ app[u] # "enter"
PROOF
<1>1. /\ synced \subseteq Threads /\ tids \subseteq Threads /\ known \subseteq Threads
  BY DEF TypeInv, TypeOK, ThreadsAssumption
<1>2. \A u \in Threads : /\ StartOf(u) = None /\ StopOf(u) = None
                         /\ pending[u] = {} /\ ~Asks(u) /\ app[u] # "enter"
  BY AtLemma DEF Quiet, Asks
<1>3. synced = {}
  BY <1>1, <1>2 DEF CalmInv, SyncInv, None
<1>4. known = tids
  BY <1>1, <1>2 DEF CalmInv, KnownInv
<1>5. ~genCallStack /\ callStack = 0
  BY <1>2 DEF CalmInv, AskInv
<1>. QED  BY <1>2, <1>3, <1>4, <1>5

\* A step of the request keeps the rounds.
LEMMA RequestStep ==
  ASSUME ThreadsAssumption, Calm, OneWorker, TypeInv, CalmInv,
         Request \/ TraceStart \/ TraceStop \/ Rpc
  PROVE  CalmInv'
PROOF
<1>. USE DEF syncVars, sampVars, rpcVars, unwVars
<1>1. /\ app \in [Threads -> {"new", "enter", "run", "kill", "wait", "clear",
                              "ended"}]
      /\ pending \in [Threads -> SUBSET Signals]
      /\ started \in BOOLEAN /\ cupti \in BOOLEAN /\ noSampling \in BOOLEAN
      /\ genCallStack \in BOOLEAN /\ synced \subseteq known
      /\ tids \subseteq Threads /\ toSignal \subseteq tids /\ known \subseteq Threads
      /\ Workers \subseteq Threads /\ Launchers \subseteq Threads
      /\ Mortal \subseteq Threads /\ Main \in Threads
      /\ noSampling => rpc = "idle"
      /\ toSignal # {} => rpc \in {"signalStart", "signalStop"}
  BY DEF TypeInv, TypeOK, ThreadsAssumption
<1>2. RoundInv /\ PlaceInv /\ SyncInv /\ SignalInv /\ KnownInv /\ AskInv
  BY DEF CalmInv
<1>r. UNCHANGED <<app, frames, unwVars>>
  BY DEF Request, TraceStart, TraceStop, Rpc, SignalStart, SignalStop, Signal,
         AwaitStart, WakeUp, Join
<1>t. \A u \in Threads : StartOf(u)' = StartOf(u) /\ StopOf(u)' = StopOf(u)
  BY <1>r DEF StartOf, StopOf
<1>u. /\ Starting => ~Sampling /\ ~Stopping /\ ~Stopped
      /\ Sampling => ~Stopping /\ ~Stopped
      /\ Stopping => ~Stopped
  BY DEF Starting, Sampling, Stopping, Stopped
<1>3. CASE Request
  <2>1. /\ ~Starting /\ ~Sampling /\ ~Stopping /\ Starting' /\ ~Sampling' /\ ~Stopping'
        /\ ~Stopped' /\ synced' = {} /\ known' = known \ Ended /\ tids' = tids \ Ended
        /\ UNCHANGED <<pending, started, cupti>> /\ rpc' = "signalStart"
        /\ toSignal' = tids' 
    BY <1>3, <1>1, <1>2, QuietLemma, <1>u
       DEF Request, EraseEnded, RoundInv, Starting, Sampling, Stopping, Stopped
  <2>2. /\ synced = {} /\ known = tids /\ ~genCallStack /\ callStack = 0
        /\ \A u \in Threads : /\ StartOf(u) = None /\ StopOf(u) = None
                              /\ pending[u] = {} /\ ~Asks(u)
                              /\ app[u] # "enter"
    BY <1>3, QuietLemma DEF Request
  <2>3. RoundInv'
    BY <1>1, <1>2, <1>r, <1>t, <1>u, <2>1, <2>2
       DEF RoundInv, Starting, Sampling, Stopping, Stopped
  <2>4. PlaceInv'
    BY <1>1, <1>2, <1>r, <1>t, <1>u, <2>1, <2>2
       DEF PlaceInv, StartPlaces, StopPlaces, AllSynced, None
  <2>5. SyncInv'
    BY <1>1, <1>2, <1>r, <1>t, <1>u, <2>1, <2>2
       DEF SyncInv, None
  <2>6. SignalInv'
    BY <1>1, <1>2, <1>r, <1>t, <1>u, <2>1, <2>2
       DEF SignalInv, None
  <2>7. KnownInv'
    BY <1>1, <1>2, <1>r, <1>t, <1>u, <2>1, <2>2
       DEF KnownInv, Ended
  <2>8. AskInv'
    BY <1>1, <1>2, <1>r, <1>t, <1>u, <2>1, <2>2
       DEF AskInv, Asks, Gen, None
  <2>. QED  BY <2>3, <2>4, <2>5, <2>6, <2>7, <2>8 DEF CalmInv
<1>4. CASE WakeUp
  <2>1. /\ Sampling /\ Stopping' /\ ~Starting' /\ ~Sampling' /\ ~Stopped'
        /\ UNCHANGED <<pending, started, cupti, tids, known, synced, selectedTid>>
        /\ rpc' = "signalStop" /\ toSignal' = tids
    BY <1>4, <1>1, <1>2, <1>u
       DEF WakeUp, RoundInv, Starting, Sampling, Stopping, Stopped
  <2>2. /\ synced = {} /\ known = tids /\ ~genCallStack /\ callStack = 0
        /\ \A u \in Threads : /\ StartOf(u) = None /\ StopOf(u) = None
                              /\ pending[u] = {} /\ ~Asks(u)
                              /\ app[u] # "enter"
    BY <1>4, QuietLemma DEF WakeUp
  <2>3. RoundInv'
    BY <1>1, <1>2, <1>r, <1>t, <1>u, <2>1, <2>2
       DEF RoundInv, Starting, Sampling, Stopping, Stopped
  <2>4. PlaceInv'
    BY <1>1, <1>2, <1>r, <1>t, <1>u, <2>1, <2>2
       DEF PlaceInv, StartPlaces, StopPlaces, AllSynced, None
  <2>5. SyncInv'
    BY <1>1, <1>2, <1>r, <1>t, <1>u, <2>1, <2>2
       DEF SyncInv, None
  <2>6. SignalInv'
    BY <1>1, <1>2, <1>r, <1>t, <1>u, <2>1, <2>2
       DEF SignalInv, None
  <2>7. KnownInv'
    BY <1>1, <1>2, <1>r, <1>t, <1>u, <2>1, <2>2
       DEF KnownInv
  <2>8. AskInv'
    BY <1>1, <1>2, <1>r, <1>t, <1>u, <2>1, <2>2
       DEF AskInv, Asks, Gen, None
  <2>. QED  BY <2>3, <2>4, <2>5, <2>6, <2>7, <2>8 DEF CalmInv
<1>5. CASE AwaitStart
  <2>1. /\ Sampling /\ Sampling' /\ ~Starting' /\ ~Stopping' /\ ~Stopped'
        /\ UNCHANGED <<pending, started, cupti, tids, known, synced, selectedTid, toSignal>>
        /\ rpc' = "sleep"
    BY <1>5, <1>1, <1>2, <1>u
       DEF AwaitStart, RoundInv, Starting, Sampling, Stopping, Stopped
  <2>2. /\ ~Starting /\ ~Stopping /\ ~Stopped
        /\ StartPlaces' = StartPlaces /\ StopPlaces' = StopPlaces
    BY <1>u, <2>1 DEF StartPlaces, StopPlaces
  <2>3. RoundInv'
    BY <1>1, <1>2, <1>r, <1>t, <1>u, <2>1
       DEF RoundInv, Starting, Sampling, Stopping, Stopped
  <2>4. PlaceInv'
    BY <1>1, <1>2, <1>r, <1>t, <2>1, <2>2
       DEF PlaceInv, AllSynced
  <2>5. SyncInv'
    BY <1>1, <1>2, <1>r, <1>t, <1>u, <2>1
       DEF SyncInv, None
  <2>6. SignalInv'
    BY <1>1, <1>2, <1>r, <1>t, <2>1, <2>2
       DEF SignalInv
  <2>7. KnownInv'
    BY <1>1, <1>2, <1>r, <1>t, <1>u, <2>1
       DEF KnownInv
  <2>8. AskInv'
    BY <1>1, <1>2, <1>r, <1>t, <1>u, <2>1
       DEF AskInv, Asks, Gen, None
  <2>. QED  BY <2>3, <2>4, <2>5, <2>6, <2>7, <2>8 DEF CalmInv
<1>6. CASE Join
  <2>1. /\ Stopped /\ Stopped' /\ ~Starting' /\ ~Stopping' /\ ~Sampling'
        /\ UNCHANGED <<pending, started, cupti, tids, known, synced, selectedTid, toSignal>>
        /\ rpc' = "idle"
    BY <1>6, <1>1, <1>2, <1>u
       DEF Join, RoundInv, Starting, Sampling, Stopping, Stopped
  <2>2. /\ ~Starting /\ ~Stopping /\ ~Sampling
        /\ StartPlaces' = StartPlaces /\ StopPlaces' = StopPlaces
    BY <1>u, <2>1 DEF StartPlaces, StopPlaces
  <2>3. RoundInv'
    BY <1>1, <1>2, <1>r, <1>t, <1>u, <2>1
       DEF RoundInv, Starting, Sampling, Stopping, Stopped
  <2>4. PlaceInv'
    BY <1>1, <1>2, <1>r, <1>t, <2>1, <2>2
       DEF PlaceInv, AllSynced
  <2>5. SyncInv'
    BY <1>1, <1>2, <1>r, <1>t, <1>u, <2>1
       DEF SyncInv, None
  <2>6. SignalInv'
    BY <1>1, <1>2, <1>r, <1>t, <2>1, <2>2
       DEF SignalInv
  <2>7. KnownInv'
    BY <1>1, <1>2, <1>r, <1>t, <1>u, <2>1
       DEF KnownInv
  <2>8. AskInv'
    BY <1>1, <1>2, <1>r, <1>t, <1>u, <2>1
       DEF AskInv, Asks, Gen, None
  <2>. QED  BY <2>3, <2>4, <2>5, <2>6, <2>7, <2>8 DEF CalmInv
<1>7. CASE TraceStart
  <2>1. /\ noSampling /\ noSampling' = noSampling
        /\ ~Starting /\ ~Sampling /\ ~Stopping /\ ~Stopped
        /\ ~Starting' /\ ~Sampling' /\ ~Stopping' /\ ~Stopped'
        /\ synced = {} /\ synced' = {}
        /\ known' = known \ (tids \cap Ended) /\ tids' = tids \ Ended
        /\ UNCHANGED <<pending, cupti, selectedTid, rpc, toSignal>> /\ rpc = "idle"
    BY <1>7, <1>1, <1>2
       DEF TraceStart, EraseEnded, SyncInv, PlaceInv, StartPlaces, StopPlaces, Gen, None, Starting, Sampling, Stopping, Stopped
  <2>3. RoundInv'
    BY <1>1, <1>2, <1>r, <1>t, <1>u, <2>1
       DEF RoundInv
  <2>4. PlaceInv'
    BY <1>1, <1>2, <1>r, <1>t, <1>u, <2>1
       DEF PlaceInv, StartPlaces, StopPlaces, AllSynced, None
  <2>5. SyncInv'
    BY <1>1, <1>2, <1>r, <1>t, <1>u, <2>1
       DEF SyncInv, None
  <2>6. SignalInv'
    BY <1>1, <1>2, <1>r, <1>t, <1>u, <2>1
       DEF SignalInv, None
  <2>7. KnownInv'
    BY <1>1, <1>2, <1>r, <1>t, <1>u, <2>1
       DEF KnownInv, Ended
  <2>8. AskInv'
    BY <1>1, <1>2, <1>r, <1>t, <1>u, <2>1
       DEF AskInv, Asks, Gen, None
  <2>. QED  BY <2>3, <2>4, <2>5, <2>6, <2>7, <2>8 DEF CalmInv
<1>8. CASE TraceStop
  <2>1. /\ noSampling /\ noSampling' = noSampling
        /\ ~Starting /\ ~Sampling /\ ~Stopping /\ ~Stopped
        /\ ~Starting' /\ ~Sampling' /\ ~Stopping' /\ ~Stopped'
        /\ UNCHANGED <<pending, cupti, tids, known, synced, selectedTid, rpc, toSignal>>
        /\ rpc = "idle"
    BY <1>8, <1>1, <1>2
       DEF TraceStop, Starting, Sampling, Stopping, Stopped
  <2>3. RoundInv'
    BY <1>1, <1>2, <1>r, <1>t, <1>u, <2>1
       DEF RoundInv
  <2>4. PlaceInv'
    BY <1>1, <1>2, <1>r, <1>t, <1>u, <2>1
       DEF PlaceInv, StartPlaces, StopPlaces, AllSynced, None
  <2>5. SyncInv'
    BY <1>1, <1>2, <1>r, <1>t, <1>u, <2>1
       DEF SyncInv, None
  <2>6. SignalInv'
    BY <1>1, <1>2, <1>r, <1>t, <1>u, <2>1
       DEF SignalInv, None
  <2>7. KnownInv'
    BY <1>1, <1>2, <1>r, <1>t, <1>u, <2>1
       DEF KnownInv
  <2>8. AskInv'
    BY <1>1, <1>2, <1>r, <1>t, <1>u, <2>1
       DEF AskInv, Asks, Gen, None
  <2>. QED  BY <2>3, <2>4, <2>5, <2>6, <2>7, <2>8 DEF CalmInv
<1>9. CASE SignalStart
  <2>1. /\ UNCHANGED <<noSampling, started, cupti, tids, known, synced, selectedTid>>
        /\ rpc = "signalStart" /\ rpc' \in {"signalStart", "awaitStart"}
    BY <1>9 DEF SignalStart, Signal
  <2>2. /\ Starting' = Starting /\ Sampling' = Sampling
        /\ Stopping' = Stopping /\ Stopped' = Stopped
        /\ StartPlaces' = StartPlaces /\ StopPlaces' = StopPlaces
    BY <2>1 DEF StartPlaces, StopPlaces, Starting, Sampling, Stopping, Stopped
  <2>3. RoundInv'
    BY <1>2, <1>9, <2>1, <2>2 DEF RoundInv, SignalStart, Signal
  <2>4. PlaceInv'
    BY <1>2, <1>t, <2>1, <2>2 DEF PlaceInv, AllSynced
  <2>5. SyncInv'
    BY <1>2, <1>t, <2>1 DEF SyncInv
  <2>6. KnownInv'
    BY <1>2, <1>r, <2>1 DEF KnownInv
  <2>7. CASE \E u \in toSignal :
               /\ pending' = IF u \in Ended THEN pending
                             ELSE [pending EXCEPT ![u] = @ \cup {"USR1"}]
               /\ toSignal' = toSignal \ {u}
    <3>1. PICK u \in toSignal :
               /\ pending' = IF u \in Ended THEN pending
                             ELSE [pending EXCEPT ![u] = @ \cup {"USR1"}]
               /\ toSignal' = toSignal \ {u}
      BY <2>7
    <3>2. Starting
      BY <1>1, <1>2, <2>1, <3>1 DEF RoundInv, Starting, Sampling, Stopping, Stopped
    <3>3. \A v \in Threads :
            /\ v # u => pending'[v] = pending[v]
            /\ pending'[u] \subseteq pending[u] \cup {"USR1"}
      BY <1>1, <3>1
    <3>4. StartOf(u) = None
      BY <1>1, <1>2, <3>1, <3>2 DEF SignalInv
    <3>5. SignalInv'
      BY <1>1, <1>2, <1>t, <1>u, <2>1, <2>2, <3>1, <3>2, <3>3, <3>4 DEF SignalInv
    <3>6. AskInv'
      BY <1>1, <1>2, <1>r, <1>t, <1>u, <2>1, <2>2, <3>1, <3>2, <3>3, <3>4
         DEF AskInv, Asks, Gen, None
    <3>. QED  BY <2>3, <2>4, <2>5, <2>6, <3>5, <3>6 DEF CalmInv
  <2>8. CASE UNCHANGED <<pending, toSignal>>
    <3>1. SignalInv'
      BY <1>2, <1>t, <2>1, <2>2, <2>8 DEF SignalInv
    <3>2. AskInv'
      BY <1>2, <1>r, <1>t, <2>2, <2>8 DEF AskInv, Asks
    <3>. QED  BY <2>3, <2>4, <2>5, <2>6, <3>1, <3>2 DEF CalmInv
  <2>. QED  BY <1>9, <2>7, <2>8 DEF SignalStart, Signal
<1>10. CASE SignalStop
  <2>1. /\ UNCHANGED <<noSampling, started, cupti, tids, known, synced, selectedTid>>
        /\ rpc = "signalStop" /\ rpc' \in {"signalStop", "join"}
    BY <1>10 DEF SignalStop, Signal
  <2>2. /\ Starting' = Starting /\ Sampling' = Sampling
        /\ Stopping' = Stopping /\ Stopped' = Stopped
        /\ StartPlaces' = StartPlaces /\ StopPlaces' = StopPlaces
    BY <2>1 DEF StartPlaces, StopPlaces, Starting, Sampling, Stopping, Stopped
  <2>3. RoundInv'
    BY <1>2, <1>10, <2>1, <2>2 DEF RoundInv, SignalStop, Signal
  <2>4. PlaceInv'
    BY <1>2, <1>t, <2>1, <2>2 DEF PlaceInv, AllSynced
  <2>5. SyncInv'
    BY <1>2, <1>t, <2>1 DEF SyncInv
  <2>6. KnownInv'
    BY <1>2, <1>r, <2>1 DEF KnownInv
  <2>7. CASE \E u \in toSignal :
               /\ pending' = IF u \in Ended THEN pending
                             ELSE [pending EXCEPT ![u] = @ \cup {"USR2"}]
               /\ toSignal' = toSignal \ {u}
    <3>1. PICK u \in toSignal :
               /\ pending' = IF u \in Ended THEN pending
                             ELSE [pending EXCEPT ![u] = @ \cup {"USR2"}]
               /\ toSignal' = toSignal \ {u}
      BY <2>7
    <3>2. Stopping
      BY <1>1, <1>2, <2>1, <3>1 DEF RoundInv, Starting, Sampling, Stopping, Stopped
    <3>3. \A v \in Threads :
            /\ v # u => pending'[v] = pending[v]
            /\ pending'[u] \subseteq pending[u] \cup {"USR2"}
      BY <1>1, <3>1
    <3>4. StopOf(u) = None
      BY <1>1, <1>2, <3>1, <3>2 DEF SignalInv
    <3>5. SignalInv'
      BY <1>1, <1>2, <1>t, <1>u, <2>1, <2>2, <3>1, <3>2, <3>3, <3>4 DEF SignalInv
    <3>6. AskInv'
      BY <1>1, <1>2, <1>r, <1>t, <1>u, <2>1, <2>2, <3>1, <3>2, <3>3, <3>4
         DEF AskInv, Asks, Gen, None
    <3>. QED  BY <2>3, <2>4, <2>5, <2>6, <3>5, <3>6 DEF CalmInv
  <2>8. CASE UNCHANGED <<pending, toSignal>>
    <3>1. SignalInv'
      BY <1>2, <1>t, <2>1, <2>2, <2>8 DEF SignalInv
    <3>2. AskInv'
      BY <1>2, <1>r, <1>t, <2>2, <2>8 DEF AskInv, Asks
    <3>. QED  BY <2>3, <2>4, <2>5, <2>6, <3>1, <3>2 DEF CalmInv
  <2>. QED  BY <1>10, <2>7, <2>8 DEF SignalStop, Signal
<1>. QED  BY <1>3, <1>4, <1>5, <1>6, <1>7, <1>8, <1>9, <1>10 DEF Rpc

LEMMA CalmInit == ThreadsAssumption /\ Init => CalmInv
PROOF
<1> SUFFICES ASSUME ThreadsAssumption, Init PROVE CalmInv
  OBVIOUS
<1>1. \A t \in Threads : StartOf(t) = None /\ StopOf(t) = None
  BY DEF Init, StartOf, StopOf, PlaceIn
<1>2. /\ noSampling \in BOOLEAN /\ ~Starting /\ ~Sampling /\ ~Stopping
      /\ noSampling \/ Stopped
  BY DEF Init, Starting, Sampling, Stopping, Stopped, ThreadsAssumption
<1>3. RoundInv
  BY <1>2 DEF RoundInv, Init
<1>4. PlaceInv
  BY <1>1, <1>2 DEF PlaceInv, StartPlaces, StopPlaces, None
<1>5. SyncInv
  BY <1>1 DEF SyncInv, Init, None
<1>6. SignalInv
  BY <1>1, <1>2 DEF SignalInv, Init
<1>7. KnownInv
  BY DEF KnownInv, Init
<1>8. AskInv
  BY <1>1, <1>2 DEF AskInv, Asks, Init, Gen, None
<1>. QED  BY <1>3, <1>4, <1>5, <1>6, <1>7, <1>8 DEF CalmInv

LEMMA CalmStep ==
  ASSUME ThreadsAssumption, Calm, OneWorker, TypeInv, CalmInv, [Next]_vars
  PROVE  CalmInv'
PROOF
<1>1. ASSUME NEW t \in Threads, Handle(t) PROVE CalmInv'
  BY <1>1, HandleStep, GoStep
<1>2. ASSUME NEW t \in Threads,
             \/ Program(t)
             \/ t \in Launchers /\ Register(t)
             \/ t \in Mortal /\ End(t)
             \/ t \in Workers /\ AskMain(t)
      PROVE  CalmInv'
  BY <1>2, ProgramStep
<1>3. CASE Request \/ TraceStart \/ TraceStop \/ Rpc
  BY <1>3, RequestStep
<1>4. CASE UNCHANGED vars
  <2>1. /\ UNCHANGED <<noSampling, app, frames, pending>>
        /\ UNCHANGED <<tids, known, synced, selectedTid, started, cupti>>
        /\ UNCHANGED <<rpc, toSignal, genCallStack, callStack>>
    BY <1>4 DEF vars, syncVars, sampVars, rpcVars, unwVars
  <2>2. \A t \in Threads : /\ StartOf(t)' = StartOf(t) /\ StopOf(t)' = StopOf(t)
    BY <2>1 DEF StartOf, StopOf
  <2>3. /\ Starting' = Starting /\ Sampling' = Sampling
        /\ Stopping' = Stopping /\ Stopped' = Stopped
        /\ StartPlaces' = StartPlaces /\ StopPlaces' = StopPlaces /\ RoundInv'
    BY <2>1, SameRound DEF CalmInv
  <2>. QED  BY <2>1, <2>2, <2>3
               DEF CalmInv, PlaceInv, AllSynced, SyncInv, SignalInv, KnownInv,
                   AskInv, Asks
<1>5. Launchers \subseteq Threads /\ Mortal \subseteq Threads /\ Workers \subseteq Threads
  BY DEF ThreadsAssumption
<1>. QED  BY <1>1, <1>2, <1>3, <1>4, <1>5 DEF Next

\* With calm requests and one worker, every round ends before the next one
\* begins.
LEMMA CalmAlways ==
  ASSUME Calm, OneWorker PROVE Spec => [](TypeInv /\ CalmInv)
PROOF
<1>1. ThreadsAssumption
  BY ThreadsAssumption
<1>2. Init => TypeInv /\ CalmInv
  BY <1>1, TypeInit, CalmInit
<1>3. TypeInv /\ CalmInv /\ [Next]_vars => (TypeInv /\ CalmInv)'
  BY <1>1, TypeStep, CalmStep
<1>. QED  BY <1>2, <1>3, PTL DEF Spec

\* CUPTI is never started twice: when the selected thread comes to start it,
\* the last request has stopped it.
THEOREM SamplingStartsOnce ==
  ASSUME Calm, OneWorker PROVE Spec => []StartedOnce
PROOF
<1>1. TypeInv /\ CalmInv => StartedOnce
  <2> SUFFICES ASSUME TypeInv, CalmInv, NEW t \in Threads, At(t, "startGo")
               PROVE  ~cupti
    BY DEF StartedOnce
  <2>1. StartOf(t) = "startGo"
    BY AtLemma DEF Start
  <2>2. Starting /\ ~Sampling /\ ~Stopping
    BY <2>1, RoundLemma DEF CalmInv
  <2>. QED  BY <2>2 DEF CalmInv, RoundInv
<1>. QED  BY <1>1, CalmAlways, PTL

\* Between requests no entry of the map is true, and every thread that has one
\* will be signalled by the next request.
THEOREM BetweenRequests ==
  ASSUME Calm, OneWorker PROVE Spec => []CleanBetween
PROOF
<1>1. ThreadsAssumption
  BY ThreadsAssumption
<1>2. TypeInv /\ CalmInv => CleanBetween
  BY <1>1, QuietLemma DEF CleanBetween
<1>. QED  BY <1>2, CalmAlways, PTL

\* The barrier of the start handlers: CUPTI starts sampling only while every
\* thread known to launch kernels is held in its handler.
THEOREM StartBarrier ==
  ASSUME Calm, OneWorker PROVE Spec => AllHeldAtStart
PROOF
<1>1. ThreadsAssumption
  BY ThreadsAssumption
<1>2. ASSUME TypeInv, CalmInv, [Next]_vars, ~cupti, cupti', NEW u \in tids
      PROVE  Running(u, {"startLead", "startFollow", "startGo"})
  <2>1. u \in Threads
    BY <1>1, <1>2 DEF TypeInv, TypeOK, ThreadsAssumption
  <2>2. PICK t \in Threads : StartGo(t)
    BY <1>2 DEF Next, Handle, Program, DeliverStart, StartSync, StartLead,
       StartFollow, StartEnd, GenCheck, GenUnwind, DeliverStop, StopSync,
       StopLead, StopGo, StopFollow, StopEnd, EnterMap, SignalMain, TakeStack,
       ClearStack, Register, End, AskMain, Request, TraceStart, TraceStop, Rpc,
       SignalStart, SignalStop, Signal, AwaitStart, WakeUp, Join, vars, sampVars
  <2>3. StartOf(t) = "startGo" /\ Starting /\ AllSynced
    BY <1>2, <2>2, HandlerLemma, RoundLemma DEF CalmInv, PlaceInv
  <2>4. u \in synced
    BY <1>2, <2>1, <2>3 DEF CalmInv, KnownInv, AllSynced, Starting
  <2>5. StartOf(u) \in {"startLead", "startFollow", "startGo"}
    BY <1>2, <2>1, <2>3, <2>4, RoundLemma
       DEF CalmInv, SyncInv, PlaceInv, StartPlaces, StopPlaces, Gen, None
  <2>. QED  BY <1>2, <2>1, <2>5, RunningLemma DEF Start
<1>3. TypeInv /\ CalmInv /\ [Next]_vars =>
        [~cupti /\ cupti' =>
           \A t \in tids : Running(t, {"startLead", "startFollow", "startGo"})]_vars
  BY <1>2
<1>. QED  BY <1>3, CalmAlways, PTL DEF Spec, AllHeldAtStart

\* The barrier of the stop handlers, likewise.
THEOREM StopBarrier ==
  ASSUME Calm, OneWorker PROVE Spec => AllHeldAtStop
PROOF
<1>1. ThreadsAssumption
  BY ThreadsAssumption
<1>2. ASSUME TypeInv, CalmInv, [Next]_vars, cupti, ~cupti', NEW u \in tids
      PROVE  Running(u, {"stopLead", "stopFollow", "stopGo"})
  <2>1. u \in Threads
    BY <1>1, <1>2 DEF TypeInv, TypeOK, ThreadsAssumption
  <2>2. PICK t \in Threads : StopGo(t)
    BY <1>2 DEF Next, Handle, Program, DeliverStart, StartSync, StartLead,
       StartGo, StartFollow, StartEnd, GenCheck, GenUnwind, DeliverStop,
       StopSync, StopLead, StopFollow, StopEnd, EnterMap, SignalMain, TakeStack,
       ClearStack, Register, End, AskMain, Request, TraceStart, TraceStop, Rpc,
       SignalStart, SignalStop, Signal, AwaitStart, WakeUp, Join, vars, sampVars
  <2>3. StopOf(t) = "stopGo" /\ Stopping /\ AllSynced
    BY <1>2, <2>2, HandlerLemma, RoundLemma DEF CalmInv, PlaceInv
  <2>4. u \in synced
    BY <1>2, <2>1, <2>3 DEF CalmInv, KnownInv, AllSynced, Stopping
  <2>5. StopOf(u) \in {"stopLead", "stopFollow", "stopGo"}
    BY <1>2, <2>1, <2>3, <2>4, RoundLemma
       DEF CalmInv, SyncInv, PlaceInv, StartPlaces, StopPlaces, Gen, None
  <2>. QED  BY <1>2, <2>1, <2>5, RunningLemma DEF Stop
<1>3. TypeInv /\ CalmInv /\ [Next]_vars =>
        [cupti /\ ~cupti' =>
           \A t \in tids : Running(t, {"stopLead", "stopFollow", "stopGo"})]_vars
  BY <1>2
<1>. QED  BY <1>3, CalmAlways, PTL DEF Spec, AllHeldAtStop

\* The hand-shake: a worker takes the main thread's stack when there is exactly
\* one copy of it.
THEOREM OneCopyOfTheStack ==
  ASSUME Calm, OneWorker PROVE Spec => StackIsWhole
PROOF
<1>1. ThreadsAssumption
  BY ThreadsAssumption
<1>2. ASSUME TypeInv, CalmInv, [Next]_vars, NEW t \in Workers,
             app[t] = "wait", app'[t] = "clear"
      PROVE  callStack = 1
  <2>1. t \in Threads /\ app \in [Threads -> {"new", "enter", "run", "kill",
                                            "wait", "clear", "ended"}]
    BY <1>1, <1>2 DEF TypeInv, TypeOK, ThreadsAssumption
  <2>2. PICK u \in Threads : TakeStack(u)
    BY <1>1, <1>2, <2>1
       DEF Next, Handle, Program, DeliverStart, StartSync, StartLead,
       StartGo, StartFollow, StartEnd, GenCheck, GenUnwind, DeliverStop,
       StopSync, StopLead, StopGo, StopFollow, StopEnd, EnterMap, SignalMain,
       ClearStack, Register, End, AskMain, Request, TraceStart, TraceStop, Rpc,
       SignalStart, SignalStop, Signal, AwaitStart, WakeUp, Join, vars,
       ThreadsAssumption
  <2>3. ~genCallStack
    BY <2>2 DEF TakeStack
  <2>. QED  BY <1>2, <2>1, <2>3 DEF CalmInv, AskInv
<1>3. TypeInv /\ CalmInv /\ [Next]_vars =>
        [\A t \in Workers : app[t] = "wait" /\ app'[t] = "clear" => callStack = 1]_vars
  BY <1>2
<1>. QED  BY <1>3, CalmAlways, PTL DEF Spec, StackIsWhole

-----------------------------------------------------------------------------
(* What holds of the map of entries in any program: with requests in a row *)
(* or in haste, and with workers that all ask at once.                     *)

PastStart == {"startLead", "startFollow", "startGo", "startEnd"}
PastStop  == {"stopLead", "stopFollow", "stopGo", "stopEnd"}

\* Nothing runs on a thread, nor will.
Still(t) == StartOf(t) = None /\ StopOf(t) = None /\ pending[t] = {}

\* A true entry is of a thread past its synchronisation.  Threads that are not
\* in the set are left alone, but for the main thread, whose stack is asked for
\* by the signal that starts sampling.
MapInv ==
  /\ \A t \in synced : StartOf(t) \in PastStart \/ StopOf(t) \in PastStop
  /\ known \subseteq tids \cup {Main}
  /\ \A t \in Threads \ {Main} : t \notin tids \/ t \in Ended => Still(t)
  /\ \A t \in Threads : app[t] = "enter" => t \in tids
  /\ Main \in Early \ Mortal => Main \in tids \ Ended

LEMMA MapInit == ThreadsAssumption /\ Init => MapInv
PROOF
<1> SUFFICES ASSUME ThreadsAssumption, Init PROVE MapInv
  OBVIOUS
<1>1. \A t \in Threads : Still(t)
  BY DEF Init, StartOf, StopOf, PlaceIn, Still
<1>. QED  BY <1>1 DEF Init, MapInv, Ended, ThreadsAssumption

LEMMA MapTypes ==
  ASSUME ThreadsAssumption, TypeInv
  PROVE  /\ app \in [Threads -> {"new", "enter", "run", "kill", "wait", "clear",
                                 "ended"}]
         /\ pending \in [Threads -> SUBSET Signals]
         /\ synced \subseteq known /\ known \subseteq Threads /\ tids \subseteq Threads
         /\ Main \in Threads /\ Launchers \subseteq Threads /\ Mortal \subseteq Threads
         /\ Workers \subseteq Threads /\ toSignal \subseteq tids
         /\ \A t \in Threads : frames[t] = <<>> <=> StartOf(t) = None /\ StopOf(t) = None
PROOF BY AtLemma DEF TypeInv, TypeOK, ThreadsAssumption

\* A handler makes an entry true when it passes its synchronisation, and false
\* when it ends; it only runs on a thread that is in the set, or on the main one.
LEMMA HandleMap ==
  ASSUME ThreadsAssumption, TypeInv, MapInv, NEW t \in Threads, Handle(t)
  PROVE  MapInv'
PROOF
<1>. USE MapTypes DEF syncVars, sampVars, rpcVars, unwVars
<1>1. UNCHANGED <<app, tids>> /\ Ended' = Ended
  BY DEF Handle, DeliverStart, StartSync, StartLead, StartGo, StartFollow, StartEnd,
         GenCheck, GenUnwind, DeliverStop, StopSync, StopLead, StopGo, StopFollow,
         StopEnd, Ended
<1>2. ASSUME NEW a, NEW b, Moved(t, a, b), t = Main \/ ~Still(t),
             \A u \in Threads : pending'[u] \subseteq pending[u],
             known' \subseteq known \cup {t},
             \A u \in synced' : \/ u = t /\ (a \in PastStart \/ b \in PastStop)
                                \/ u # t /\ u \in synced
      PROVE  MapInv'
  <2>1. \A u \in Threads : StartOf(u)' = (IF u = t THEN a ELSE StartOf(u))
                           /\ StopOf(u)' = (IF u = t THEN b ELSE StopOf(u))
    BY <1>2 DEF Moved
  <2>2. t = Main \/ t \in tids \ Ended
    BY <1>2 DEF MapInv
  <2>3. \A u \in synced' : StartOf(u)' \in PastStart \/ StopOf(u)' \in PastStop
    BY <1>2, <2>1 DEF MapInv
  <2>4. \A u \in Threads \ {Main} : u \notin tids \/ u \in Ended => u # t /\ Still(u)'
    BY <1>2, <2>1, <2>2 DEF MapInv, Still
  <2>. QED  BY <1>1, <1>2, <2>2, <2>3, <2>4 DEF MapInv
<1>3. ASSUME StartOf(t) # None \/ StopOf(t) # None \/ pending[t] # {} PROVE ~Still(t)
  BY <1>3 DEF Still
<1>4. CASE DeliverStart(t)
  <2>1. StartOf(t) = None /\ pending[t] # {} /\ UNCHANGED syncVars
    BY <1>4, HandlerLemma DEF DeliverStart
  <2>2. Moved(t, IF genCallStack THEN "genCheck" ELSE "startSync", StopOf(t))
    BY <1>4, HandlerLemma
  <2>3. t \in synced => StopOf(t) \in PastStop
    BY <2>1 DEF MapInv, PastStart, None
  <2>4. \A u \in Threads : pending'[u] \subseteq pending[u]
    BY <1>4 DEF DeliverStart
  <2>. QED  BY <1>2, <1>3, <2>1, <2>2, <2>3, <2>4
<1>5. CASE DeliverStop(t)
  <2>1. StopOf(t) = None /\ pending[t] # {} /\ UNCHANGED syncVars
    BY <1>5, HandlerLemma DEF DeliverStop
  <2>2. Moved(t, StartOf(t), "stopSync")
    BY <1>5, HandlerLemma
  <2>3. t \in synced => StartOf(t) \in PastStart
    BY <2>1 DEF MapInv, PastStop, None
  <2>4. \A u \in Threads : pending'[u] \subseteq pending[u]
    BY <1>5 DEF DeliverStop
  <2>. QED  BY <1>2, <1>3, <2>1, <2>2, <2>3, <2>4
<1>6. CASE StartSync(t) \/ StopSync(t)
  <2>1. \/ /\ StartOf(t) = "startSync"
           /\ Moved(t, IF t = selectedTid THEN "startLead" ELSE "startFollow", StopOf(t))
        \/ /\ StopOf(t) = "stopSync"
           /\ Moved(t, StartOf(t), IF t = selectedTid THEN "stopLead" ELSE "stopFollow")
    BY <1>6, HandlerLemma
  <2>2. UNCHANGED pending /\ known' = known \cup {t} /\ synced' = synced \cup {t}
    BY <1>6 DEF StartSync, StopSync
  <2>. QED  BY <1>2, <1>3, <2>1, <2>2 DEF PastStart, PastStop, None
<1>7. CASE StartEnd(t) \/ StopEnd(t)
  <2>1. \/ StartOf(t) = "startEnd" /\ Moved(t, None, StopOf(t))
        \/ StopOf(t) = "stopEnd" /\ Moved(t, StartOf(t), None)
    BY <1>7, HandlerLemma
  <2>2. UNCHANGED <<pending, known>> /\ synced' = synced \ {t}
    BY <1>7 DEF StartEnd, StopEnd
  <2>. QED  BY <1>2, <1>3, <2>1, <2>2 DEF None
<1>8. CASE StartLead(t) \/ StartGo(t) \/ StartFollow(t)
  <2>1. /\ StartOf(t) \in PastStart
        /\ Moved(t, "startGo", StopOf(t)) \/ Moved(t, "startEnd", StopOf(t))
    BY <1>8, HandlerLemma DEF PastStart
  <2>2. UNCHANGED <<pending, known, synced>>
    BY <1>8 DEF StartLead, StartGo, StartFollow
  <2>. QED  BY <1>2, <1>3, <2>1, <2>2 DEF PastStart, None
<1>9. CASE StopLead(t) \/ StopGo(t) \/ StopFollow(t)
  <2>1. /\ StopOf(t) \in PastStop
        /\ Moved(t, StartOf(t), "stopGo") \/ Moved(t, StartOf(t), "stopEnd")
    BY <1>9, HandlerLemma DEF PastStop
  <2>2. UNCHANGED <<pending, known, synced>>
    BY <1>9 DEF StopLead, StopGo, StopFollow
  <2>. QED  BY <1>2, <1>3, <2>1, <2>2 DEF PastStop, None
<1>10. CASE GenCheck(t) \/ GenUnwind(t)
  <2>1. /\ StartOf(t) \in Gen
        /\ \E a : Moved(t, a, StopOf(t))
    BY <1>10, HandlerLemma DEF Gen
  <2>2. UNCHANGED <<pending, known, synced>>
    BY <1>10 DEF GenCheck, GenUnwind
  <2>3. t \in synced => StopOf(t) \in PastStop
    BY <2>1 DEF MapInv, PastStart, Gen
  <2>. QED  BY <1>2, <1>3, <2>1, <2>2, <2>3 DEF Gen, None
<1>. QED  BY <1>4, <1>5, <1>6, <1>7, <1>8, <1>9, <1>10 DEF Handle

\* Steps of a program do not touch the handlers.
LEMMA ProgramMap ==
  ASSUME ThreadsAssumption, TypeInv, MapInv, NEW t \in Threads,
         \/ Program(t) \/ Register(t) \/ (t \in Mortal /\ End(t)) \/ AskMain(t)
  PROVE  MapInv'
PROOF
<1>. USE MapTypes DEF syncVars, sampVars, rpcVars, unwVars
<1>1. UNCHANGED <<frames, synced>>
  BY DEF Program, EnterMap, SignalMain, TakeStack, ClearStack, Register, End, AskMain
<1>2. \A u \in Threads : StartOf(u)' = StartOf(u) /\ StopOf(u)' = StopOf(u)
  BY <1>1 DEF StartOf, StopOf
<1>3. /\ \A u \in Threads \ {Main} : pending'[u] \subseteq pending[u]
      /\ tids \subseteq tids'
      /\ known' \subseteq known \cup {t} /\ (t \notin known /\ t \in known' => t \in tids)
      /\ \A u \in Threads : app'[u] = "enter" => u \in tids'
      /\ \A u \in Ended' : u \in Ended \/ (u = t /\ t \in Mortal /\ Still(t)')
  BY <1>2 DEF MapInv, Program, EnterMap, SignalMain, TakeStack, ClearStack, Register, End,
     AskMain, InProgram, Ended, Still
<1>4. \A u \in Threads \ {Main} : u \notin tids' \/ u \in Ended' => Still(u)'
  BY <1>2, <1>3 DEF MapInv, Still
<1>. QED  BY <1>1, <1>2, <1>3, <1>4 DEF MapInv

\* The request forgets only threads that have ended, and signals only those that
\* are in the set.
LEMMA RequestMap ==
  ASSUME ThreadsAssumption, TypeInv, MapInv, Request \/ TraceStart \/ TraceStop \/ Rpc
  PROVE  MapInv'
PROOF
<1>. USE MapTypes DEF syncVars, sampVars, rpcVars, unwVars
<1>1. UNCHANGED <<frames, app>> /\ Ended' = Ended
  BY DEF Request, TraceStart, TraceStop, Rpc, SignalStart, SignalStop, Signal, AwaitStart,
         WakeUp, Join, Ended
<1>2. \A u \in Threads : StartOf(u)' = StartOf(u) /\ StopOf(u)' = StopOf(u)
  BY <1>1 DEF StartOf, StopOf
<1>3. CASE Request \/ TraceStart
  <2>1. EraseEnded /\ UNCHANGED pending
    BY <1>3 DEF Request, TraceStart
  <2>2. \A u \in Threads : Still(u)' <=> Still(u)
    BY <1>2, <2>1 DEF Still
  <2>. QED  BY <1>1, <1>2, <2>1, <2>2 DEF MapInv, EraseEnded, Ended
<1>4. CASE Rpc \/ TraceStop
  <2>1. UNCHANGED <<tids, known, synced>>
    BY <1>4 DEF Rpc, SignalStart, SignalStop, Signal, AwaitStart, WakeUp, Join, TraceStop
  <2>2. \A u \in Threads : u \in tids \ Ended \/ pending'[u] = pending[u]
    BY <1>4 DEF Rpc, SignalStart, SignalStop, Signal, AwaitStart, WakeUp, Join, TraceStop
  <2>3. \A u \in Threads \ {Main} : u \notin tids \/ u \in Ended => Still(u)'
    BY <1>2, <2>2 DEF MapInv, Still
  <2>. QED  BY <1>1, <1>2, <2>1, <2>3 DEF MapInv
<1>. QED  BY <1>3, <1>4

LEMMA MapAlways == Spec => [](TypeInv /\ MapInv)
PROOF
<1>1. ThreadsAssumption
  BY ThreadsAssumption
<1>2. ASSUME TypeInv, MapInv, [Next]_vars PROVE MapInv'
  <2>1. CASE UNCHANGED vars
    BY <1>2, <2>1 DEF vars, syncVars, MapInv, Still, Ended, StartOf, StopOf
  <2>2. CASE Request \/ TraceStart \/ TraceStop \/ Rpc
    BY <1>1, <1>2, <2>2, RequestMap
  <2>. QED  BY <1>1, <1>2, <2>1, <2>2, HandleMap, ProgramMap
            DEF Next, ThreadsAssumption
<1>3. Init => TypeInv /\ MapInv
  BY <1>1, TypeInit, MapInit
<1>4. TypeInv /\ MapInv /\ [Next]_vars => (TypeInv /\ MapInv)'
  BY <1>1, <1>2, TypeStep
<1>. QED  BY <1>3, <1>4, PTL DEF Spec

\* Whatever requests and workers do, and however signals come, a moment when
\* nothing is under way has no true entry, and no entry of a thread that the
\* next request will not signal, unless it is the main thread's.
THEOREM EntriesComeDown ==
  Spec => [](Quiet => synced = {} /\ known \subseteq tids \cup {Main})
PROOF
<1>1. ThreadsAssumption
  BY ThreadsAssumption
<1>2. ASSUME TypeInv, MapInv, Quiet PROVE synced = {} /\ known \subseteq tids \cup {Main}
  <2>1. \A t \in Threads : StartOf(t) = None /\ StopOf(t) = None
    BY <1>1, <1>2, MapTypes DEF Quiet
  <2>. QED  BY <1>1, <1>2, <2>1, MapTypes DEF MapInv, PastStart, PastStop, None
<1>3. TypeInv /\ MapInv => (Quiet => synced = {} /\ known \subseteq tids \cup {Main})
  BY <1>2
<1>. QED  BY <1>3, MapAlways, PTL

\* So requests find nothing of the last one if the main thread launches kernels
\* itself, as long as the process lives.
THEOREM CleanIfMainLaunches ==
  ASSUME Main \in Early \ Mortal PROVE Spec => []CleanBetween
PROOF
<1>1. TypeInv /\ MapInv => Main \in tids
  BY DEF MapInv
<1>2. Main \in tids /\ (Quiet => synced = {} /\ known \subseteq tids \cup {Main})
        => CleanBetween
  BY DEF CleanBetween
<1>. QED  BY <1>1, <1>2, MapAlways, EntriesComeDown, PTL

=============================================================================
