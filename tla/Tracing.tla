------------------------------ MODULE Tracing -------------------------------
(***************************************************************************)
(* Tracing mode (NO_SAMPLING=1): CallbackHandler times every kernel launch *)
(* and adds it to the record of <<call path, kernel>>; a request reports   *)
(* the records (RPCCopyTracingData).                                       *)
(*                                                                         *)
(* The call path is the node DoBackTrace made the active one, which the    *)
(* handler reads again afterwards.  All launches with one key share one    *)
(* Timer, and a launch finds its key by its correlation id when it ends.   *)
(***************************************************************************)
EXTENDS Integers, FiniteSets, Functions, Folds

CONSTANTS
  Launchers,     \* threads that launch kernels
  Nodes,         \* ids of the CCT nodes that launches are made from
  Path,          \* nodes of the call paths each thread launches from
  Kernels,       \* kernel symbols
  MaxTime,       \* bound: the clock
  MaxLaunches    \* bound: launches in a run (correlation ids)

ASSUME TraceBounds == MaxTime \in Nat /\ MaxLaunches \in Nat
ASSUME PathAssumption == Nodes # {} /\ Kernels # {} /\ Path \in [Launchers -> SUBSET Nodes]

Keys == Nodes \X Kernels
Ids == 1 .. MaxLaunches

VARIABLES
  tracing,     \* g_tracingStarted
  now,         \* the clock
  active,      \* g_activeCPUPCID
  corKey,      \* g_corID2TracingKey
  records,     \* g_tracingRecords: duration of each key there is, counted
               \* from whatever it was when the record was made
  timers,      \* Timer::GetGlobalTimer of each key: t_start
  launch,      \* per thread: where its launch is; id, kernel, and (history)
               \* when it began and whether tracing was on
  ids,         \* launches so far
  truth        \* history: time that traced launches of a kernel really took

tracer == <<tracing, now, active, corKey, records, timers, launch, ids, truth>>

Nothing == [k \in {} |-> 0]

\* std::unordered_map: insert leaves a value there is, an assignment does not.
Insert(f, x, v) ==
  [y \in DOMAIN f \cup {x} |-> IF y \in DOMAIN f THEN f[y] ELSE v]
Assign(f, x, v) == [y \in DOMAIN f \cup {x} |-> IF y = x THEN v ELSE f[y]]

AtRest == [at |-> "out", id |-> 0, kernel |-> CHOOSE k \in Kernels : TRUE,
           began |-> 0, traced |-> FALSE]

TracingInit ==
  /\ tracing = FALSE /\ now = 0
  /\ active = CHOOSE n \in Nodes : TRUE
  /\ corKey = Nothing /\ records = Nothing /\ timers = Nothing
  /\ launch = [t \in Launchers |-> AtRest] /\ ids = 0
  /\ truth = [k \in Kernels |-> 0]

TimePasses ==
  /\ now < MaxTime /\ now' = now + 1
  /\ UNCHANGED <<tracing, active, corKey, records, timers, launch, ids, truth>>

-----------------------------------------------------------------------------
(* CallbackHandler at CUPTI_API_ENTER and CUPTI_API_EXIT.                  *)

\* A launch enters; if tracing is on, DoBackTrace makes its path's node n the
\* active one.
LaunchEnters(t, k, n) ==
  /\ launch[t].at = "out" /\ ids < MaxLaunches
  /\ ids' = ids + 1
  /\ launch' = [launch EXCEPT ![t] =
       [at |-> IF tracing THEN "record" ELSE "in", id |-> ids + 1, kernel |-> k,
        began |-> now, traced |-> tracing]]
  /\ active' = IF tracing THEN n ELSE active
  /\ UNCHANGED <<tracing, now, corKey, records, timers, truth>>

\* Fault: the record is left to the launch's end to make.
RecordNothing(t) ==
  /\ launch[t].at = "record"
  /\ LET key == <<active, launch[t].kernel>> IN
     /\ corKey' = Insert(corKey, launch[t].id, key)
     /\ timers' = Assign(timers, key, now)
  /\ launch' = [launch EXCEPT ![t].at = "in"]
  /\ UNCHANGED <<tracing, now, active, records, ids, truth>>

\* The key is made from the active node; a record is made if there is none; the
\* key's timer is started.
RecordLaunch(t) ==
  /\ launch[t].at = "record"
  /\ LET key == <<active, launch[t].kernel>> IN
     /\ corKey' = Insert(corKey, launch[t].id, key)
     /\ records' = Insert(records, key, 0)
     /\ timers' = Assign(timers, key, now)
  /\ launch' = [launch EXCEPT ![t].at = "in"]
  /\ UNCHANGED <<tracing, now, active, ids, truth>>

\* Time since the key's timer was started.
Elapsed(key) == now - timers[key]

\* Fault: the key is made anew when the launch ends.
LaunchEndsAnew(t) ==
  /\ launch[t].at = "in"
  /\ launch' = [launch EXCEPT ![t] = AtRest]
  /\ LET l == launch[t]
         key == <<active, l.kernel>> IN
     /\ records' = IF tracing /\ key \in DOMAIN records
                   THEN [records EXCEPT ![key] = @ + Elapsed(key)]
                   ELSE records
     /\ truth' = IF tracing /\ l.traced
                 THEN [truth EXCEPT ![l.kernel] = @ + now - l.began]
                 ELSE truth
  /\ UNCHANGED <<tracing, now, active, corKey, timers, ids>>

\* The launch ends; if tracing is on and it was on when the launch began, its
\* key's timer is stopped and the time added to the record.
LaunchEnds(t) ==
  /\ launch[t].at = "in"
  /\ launch' = [launch EXCEPT ![t] = AtRest]
  /\ LET l == launch[t] IN
     /\ IF tracing /\ l.id \in DOMAIN corKey
        THEN records' = [records EXCEPT ![corKey[l.id]] =
                           @ + Elapsed(corKey[l.id])]
        ELSE UNCHANGED records
     /\ truth' = IF tracing /\ l.traced
                 THEN [truth EXCEPT ![l.kernel] = @ + now - l.began]
                 ELSE truth
  /\ UNCHANGED <<tracing, now, active, corKey, timers, ids>>

\* RPCCopyTracingData: every record, with all that was ever added to it.
RPCCopyTracingData == {[node |-> key[1], kernel |-> key[2],
                        samples |-> records[key]] : key \in DOMAIN records}

Launching ==
  \E t \in Launchers :
    \/ \E k \in Kernels, n \in Path[t] : LaunchEnters(t, k, n)
    \/ RecordLaunch(t) \/ LaunchEnds(t)

-----------------------------------------------------------------------------
(* Properties.                                                             *)

TracingTypeOK ==
  /\ tracing \in BOOLEAN /\ now \in 0 .. MaxTime /\ active \in Nodes
  /\ ids \in 0 .. MaxLaunches
  /\ DOMAIN corKey \subseteq Ids /\ Range(corKey) \subseteq Keys
  /\ DOMAIN records = DOMAIN timers /\ DOMAIN records \subseteq Keys
  /\ launch \in [Launchers -> [at : {"out", "record", "in"}, id : 0 .. MaxLaunches,
                               kernel : Kernels, began : 0 .. MaxTime,
                               traced : BOOLEAN]]

\* The samples of several reply entries together.
Samples(entry) == entry.samples
AnyEntry(entries) == CHOOSE entry \in entries : TRUE
Plus(a, b) == a + b
Reported(entries) == MapThenFoldSet(Plus, 0, Samples, AnyEntry, entries)

\* Over all call paths, no kernel is reported to have run longer than its traced
\* launches took, although overlapping launches restart each other's timer, a
\* key may be made from another thread's path, and tracing starts and stops
\* between a launch's two callbacks.
TimeIsNotInvented ==
  \A k \in Kernels :
    Reported({r \in RPCCopyTracingData : r.kernel = k}) <= truth[k]
=============================================================================
