-------------------------- MODULE AsyncTasks_proofs --------------------------
(* Theorems about AsyncTasks, for every set of tasks, limits and outputs. *)
EXTENDS AsyncTasks, TLAPS

\* What MayReturn and VerdictOf have to do with types.
LEMMA VerdictType == \A o : VerdictOf(o) \in Verdicts
  BY DEF VerdictOf, Verdicts

\* The placeholders are none of the values they stand in for.
LEMMA NoOutcomeIsNone == NoOutcome \notin Outcomes
  BY DEF NoOutcome, Outcomes

LEMMA NoResultIsNone == NoResult \notin Results
  BY DEF NoResult, Results, Verdicts

LEMMA InitIInv == Init => IInv
<1> SUFFICES ASSUME Init PROVE IInv
  OBVIOUS
<1>1. TypeOK
  <2>1. clock \in 0..MaxTime /\ seen \in 0..MaxTime /\ sweeper \in Sweepers
    BY BoundsAssumption DEF Init, Sweepers
  <2>2. event \in [Tasks -> BOOLEAN] /\ shutdown \in BOOLEAN
    BY Zenon DEF Init
  <2>3. /\ limits \in [Tasks -> Limits \cup {NoLimits}]
        /\ outcome \in [Tasks -> Outcomes \cup {NoOutcome}]
        /\ result \in [Tasks -> Results \cup {NoResult}]
        /\ returned \in [Tasks -> Outcomes \cup {NoOutcome}]
    BY Zenon DEF Init
  <2>4. /\ status \in [Tasks -> Statuses \cup {"absent"}]
        /\ buffer \in [Tasks -> {"absent", "empty", "error"}]
        /\ sent \in [Tasks -> Seq(Events)]
        /\ caller \in [Tasks -> Callers]
        /\ worker \in [Tasks -> Workers]
    BY DEF Init, Statuses, Callers, Workers
  <2> QED BY <2>1, <2>2, <2>3, <2>4 DEF TypeOK
<1>2. ASSUME NEW t \in Tasks PROVE TaskInv(t)
  BY DEF Init, TaskInv, Agrees, Registered, NothingStoredEarly, Undecided, WorkerKnows
<1>3. seen <= clock
  BY DEF Init
<1> QED BY <1>1, <1>2, <1>3 DEF IInv

Unchanged(u) ==
    /\ limits'[u] = limits[u] /\ status'[u] = status[u] /\ outcome'[u] = outcome[u]
    /\ event'[u] = event[u] /\ result'[u] = result[u] /\ buffer'[u] = buffer[u]
    /\ caller'[u] = caller[u] /\ worker'[u] = worker[u] /\ returned'[u] = returned[u]

\* A task none of whose entries a step touches keeps its invariant.
LEMMA Frame == ASSUME NEW u \in Tasks, TaskInv(u), Unchanged(u) PROVE TaskInv(u)'
  BY DEF Unchanged, TaskInv, Agrees, Registered, NothingStoredEarly, Undecided, WorkerKnows, MayReturn

LEMMA InsertIInv == ASSUME IInv, NEW t \in Tasks, NEW l \in Limits, Insert(t, l) PROVE IInv'
<1>1. TypeOK'
  BY DEF IInv, TypeOK, Insert, CallerGoes, WorkerGoes, Send, sweepVars, Callers, Statuses
<1>2. TaskInv(t)'
  <2>1. TaskInv(t) /\ caller[t] = "idle"
    BY DEF IInv, Insert, CallerGoes, WorkerGoes, Send, sweepVars
  <2>2. /\ limits'[t] = l /\ status'[t] = "pending" /\ outcome'[t] = outcome[t]
        /\ event'[t] = event[t] /\ result'[t] = result[t] /\ buffer'[t] = "empty"
        /\ caller'[t] = "inserted" /\ worker'[t] = worker[t] /\ returned'[t] = returned[t]
    BY DEF IInv, TypeOK, Insert, CallerGoes, WorkerGoes, Send, sweepVars
  <2> QED BY <2>1, <2>2 DEF TaskInv, Agrees, Registered, NothingStoredEarly, Undecided, WorkerKnows
<1>3. ASSUME NEW u \in Tasks, u # t PROVE TaskInv(u)'
  <2>1. TaskInv(u) /\ Unchanged(u)
    BY <1>3 DEF IInv, TypeOK, Unchanged, Insert, CallerGoes, WorkerGoes, Send, sweepVars
  <2> QED BY Frame, <2>1
<1>4. (seen <= clock)'
  BY DEF IInv, Insert, CallerGoes, WorkerGoes, Send, sweepVars
<1> QED BY <1>1, <1>2, <1>3, <1>4 DEF IInv

LEMMA SpawnIInv == ASSUME IInv, NEW t \in Tasks, Spawn(t) PROVE IInv'
<1>1. TypeOK'
  BY DEF IInv, TypeOK, Spawn, CallerGoes, WorkerGoes, Send, taskVars, sweepVars, Callers, Workers
<1>2. TaskInv(t)'
  <2>1. TaskInv(t) /\ caller[t] = "inserted" /\ worker[t] = "unborn"
    BY DEF IInv, Spawn, CallerGoes, WorkerGoes, Send, taskVars, sweepVars
  <2>2. /\ limits'[t] = limits[t] /\ status'[t] = status[t] /\ outcome'[t] = outcome[t]
        /\ event'[t] = event[t] /\ result'[t] = result[t] /\ buffer'[t] = buffer[t]
        /\ caller'[t] = "spawned" /\ worker'[t] = "started" /\ returned'[t] = returned[t]
    BY DEF IInv, TypeOK, Spawn, CallerGoes, WorkerGoes, Send, taskVars, sweepVars
  <2> QED BY <2>1, <2>2 DEF TaskInv, Agrees, Registered, NothingStoredEarly, Undecided, WorkerKnows
<1>3. ASSUME NEW u \in Tasks, u # t PROVE TaskInv(u)'
  <2>1. TaskInv(u) /\ Unchanged(u)
    BY <1>3 DEF IInv, TypeOK, Unchanged, Spawn, CallerGoes, WorkerGoes, Send, taskVars, sweepVars
  <2> QED BY Frame, <2>1
<1>4. (seen <= clock)'
  BY DEF IInv, Spawn, CallerGoes, WorkerGoes, Send, taskVars, sweepVars
<1> QED BY <1>1, <1>2, <1>3, <1>4 DEF IInv

LEMMA SpawnFailsIInv == ASSUME IInv, NEW t \in Tasks, SpawnFails(t) PROVE IInv'
<1>1. TypeOK'
  BY DEF IInv, TypeOK, SpawnFails, CallerGoes, WorkerGoes, Send, taskVars, sweepVars, Callers
<1>2. TaskInv(t)'
  <2>1. TaskInv(t) /\ caller[t] = "inserted"
    BY DEF IInv, SpawnFails, CallerGoes, WorkerGoes, Send, taskVars, sweepVars
  <2>2. /\ limits'[t] = limits[t] /\ status'[t] = status[t] /\ outcome'[t] = outcome[t]
        /\ event'[t] = event[t] /\ result'[t] = result[t] /\ buffer'[t] = buffer[t]
        /\ caller'[t] = "refused" /\ worker'[t] = worker[t] /\ returned'[t] = returned[t]
    BY DEF IInv, TypeOK, SpawnFails, CallerGoes, WorkerGoes, Send, taskVars, sweepVars
  <2> QED BY <2>1, <2>2 DEF TaskInv, Agrees, Registered, NothingStoredEarly, Undecided, WorkerKnows
<1>3. ASSUME NEW u \in Tasks, u # t PROVE TaskInv(u)'
  <2>1. TaskInv(u) /\ Unchanged(u)
    BY <1>3 DEF IInv, TypeOK, Unchanged, SpawnFails, CallerGoes, WorkerGoes, Send, taskVars, sweepVars
  <2> QED BY Frame, <2>1
<1>4. (seen <= clock)'
  BY DEF IInv, SpawnFails, CallerGoes, WorkerGoes, Send, taskVars, sweepVars
<1> QED BY <1>1, <1>2, <1>3, <1>4 DEF IInv

LEMMA AttachIInv == ASSUME IInv, NEW t \in Tasks, Attach(t) PROVE IInv'
<1>1. TypeOK'
  BY DEF IInv, TypeOK, Attach, CallerGoes, WorkerGoes, Send, taskVars, sweepVars, Callers
<1>2. TaskInv(t)'
  <2>1. TaskInv(t) /\ caller[t] = "spawned"
    BY DEF IInv, Attach, CallerGoes, WorkerGoes, Send, taskVars, sweepVars
  <2>2. /\ limits'[t] = limits[t] /\ status'[t] = status[t] /\ outcome'[t] = outcome[t]
        /\ event'[t] = event[t] /\ result'[t] = result[t] /\ buffer'[t] = buffer[t]
        /\ caller'[t] = "attached" /\ worker'[t] = worker[t] /\ returned'[t] = returned[t]
    BY DEF IInv, TypeOK, Attach, CallerGoes, WorkerGoes, Send, taskVars, sweepVars
  <2>3. Registered(t)'
    BY <2>1, <2>2 DEF TaskInv, Registered
  <2>4. Agrees(t)' /\ NothingStoredEarly(t)'
    BY <2>1, <2>2 DEF TaskInv, Agrees, Registered, NothingStoredEarly, Undecided
  <2>5. WorkerKnows(t)'
    BY <2>1, <2>2 DEF TaskInv, WorkerKnows, MayReturn
  <2> QED BY <2>3, <2>4, <2>5 DEF TaskInv
<1>3. ASSUME NEW u \in Tasks, u # t PROVE TaskInv(u)'
  <2>1. TaskInv(u) /\ Unchanged(u)
    BY <1>3 DEF IInv, TypeOK, Unchanged, Attach, CallerGoes, WorkerGoes, Send, taskVars, sweepVars
  <2> QED BY Frame, <2>1
<1>4. (seen <= clock)'
  BY DEF IInv, Attach, CallerGoes, WorkerGoes, Send, taskVars, sweepVars
<1> QED BY <1>1, <1>2, <1>3, <1>4 DEF IInv

LEMMA AnnounceCreationIInv == ASSUME IInv, NEW t \in Tasks, AnnounceCreation(t) PROVE IInv'
<1>1. TypeOK'
  BY DEF IInv, TypeOK, AnnounceCreation, CallerGoes, WorkerGoes, Send, sweepVars, Callers, Events
<1>2. TaskInv(t)'
  <2>1. TaskInv(t) /\ caller[t] = "attached"
    BY DEF IInv, AnnounceCreation, CallerGoes, WorkerGoes, Send, sweepVars
  <2>2. /\ limits'[t] = limits[t] /\ status'[t] = status[t] /\ outcome'[t] = outcome[t]
        /\ event'[t] = event[t] /\ result'[t] = result[t] /\ buffer'[t] = buffer[t]
        /\ caller'[t] = "returned" /\ worker'[t] = worker[t] /\ returned'[t] = returned[t]
    BY DEF IInv, TypeOK, AnnounceCreation, CallerGoes, WorkerGoes, Send, sweepVars
  <2>3. Registered(t)'
    BY <2>1, <2>2 DEF TaskInv, Registered
  <2>4. Agrees(t)' /\ NothingStoredEarly(t)'
    BY <2>1, <2>2 DEF TaskInv, Agrees, Registered, NothingStoredEarly, Undecided
  <2>5. WorkerKnows(t)'
    BY <2>1, <2>2 DEF TaskInv, WorkerKnows, MayReturn
  <2> QED BY <2>3, <2>4, <2>5 DEF TaskInv
<1>3. ASSUME NEW u \in Tasks, u # t PROVE TaskInv(u)'
  <2>1. TaskInv(u) /\ Unchanged(u)
    BY <1>3 DEF IInv, TypeOK, Unchanged, AnnounceCreation, CallerGoes, WorkerGoes, Send, sweepVars
  <2> QED BY Frame, <2>1
<1>4. (seen <= clock)'
  BY DEF IInv, AnnounceCreation, CallerGoes, WorkerGoes, Send, sweepVars
<1> QED BY <1>1, <1>2, <1>3, <1>4 DEF IInv

LEMMA BeginIInv == ASSUME IInv, NEW t \in Tasks, Begin(t) PROVE IInv'
<1>1. TypeOK'
  BY DEF IInv, TypeOK, Begin, CallerGoes, WorkerGoes, Send, sweepVars, Workers, Statuses
<1>2. TaskInv(t)'
  <2>1. TaskInv(t) /\ worker[t] = "started"
    BY DEF IInv, Begin, CallerGoes, WorkerGoes, Send, sweepVars
  <2>2. /\ limits'[t] = limits[t] /\ status'[t] = "running" /\ outcome'[t] = outcome[t]
        /\ event'[t] = event[t] /\ result'[t] = result[t] /\ buffer'[t] = buffer[t]
        /\ caller'[t] = caller[t] /\ worker'[t] \in {"raised", "streaming"}
        /\ returned'[t] = returned[t]
    BY DEF IInv, TypeOK, Begin, CallerGoes, WorkerGoes, Send, sweepVars
  <2> QED BY <2>1, <2>2 DEF TaskInv, Agrees, Registered, NothingStoredEarly, Undecided, WorkerKnows
<1>3. ASSUME NEW u \in Tasks, u # t PROVE TaskInv(u)'
  <2>1. TaskInv(u) /\ Unchanged(u)
    BY <1>3 DEF IInv, TypeOK, Unchanged, Begin, CallerGoes, WorkerGoes, Send, sweepVars
  <2> QED BY Frame, <2>1
<1>4. (seen <= clock)'
  BY DEF IInv, Begin, CallerGoes, WorkerGoes, Send, sweepVars
<1> QED BY <1>1, <1>2, <1>3, <1>4 DEF IInv

LEMMA ProgressIInv == ASSUME IInv, NEW t \in Tasks, Progress(t) PROVE IInv'
<1>1. TypeOK'
  BY DEF IInv, TypeOK, Progress, CallerGoes, WorkerGoes, Send, threadVars, sweepVars, Events
<1>2. TaskInv(t)'
  <2>1. TaskInv(t) /\ worker[t] = "streaming"
    BY DEF IInv, Progress, CallerGoes, WorkerGoes, Send, threadVars, sweepVars
  <2>2. /\ limits'[t] = limits[t] /\ status'[t] = status[t] /\ outcome'[t] = outcome[t]
        /\ event'[t] = event[t] /\ result'[t] = result[t] /\ buffer'[t] = buffer[t]
        /\ caller'[t] = caller[t] /\ worker'[t] = worker[t] /\ returned'[t] = returned[t]
    BY DEF IInv, TypeOK, Progress, CallerGoes, WorkerGoes, Send, threadVars, sweepVars
  <2> QED BY <2>1, <2>2 DEF TaskInv, Agrees, Registered, NothingStoredEarly, Undecided, WorkerKnows
<1>3. ASSUME NEW u \in Tasks, u # t PROVE TaskInv(u)'
  <2>1. TaskInv(u) /\ Unchanged(u)
    BY <1>3 DEF IInv, TypeOK, Unchanged, Progress, CallerGoes, WorkerGoes, Send, threadVars, sweepVars
  <2> QED BY Frame, <2>1
<1>4. (seen <= clock)'
  BY DEF IInv, Progress, CallerGoes, WorkerGoes, Send, threadVars, sweepVars
<1> QED BY <1>1, <1>2, <1>3, <1>4 DEF IInv

LEMMA ReturnIInv == ASSUME IInv, NEW t \in Tasks, Return(t) PROVE IInv'
<1>1. TypeOK'
  BY DEF IInv, TypeOK, Return, CallerGoes, WorkerGoes, Send, taskVars, sweepVars, Workers
<1>2. TaskInv(t)'
  <2>1. TaskInv(t) /\ worker[t] = "streaming"
    BY DEF IInv, Return, CallerGoes, WorkerGoes, Send, taskVars, sweepVars
  <2>2. \E o \in Outcomes :
          /\ MayReturn(t, o)
          /\ limits'[t] = limits[t] /\ status'[t] = status[t] /\ outcome'[t] = outcome[t]
          /\ event'[t] = event[t] /\ result'[t] = result[t] /\ buffer'[t] = buffer[t]
          /\ caller'[t] = caller[t] /\ worker'[t] = "back" /\ returned'[t] = o
    BY DEF IInv, TypeOK, Return, CallerGoes, WorkerGoes, Send, taskVars, sweepVars
  <2> QED BY <2>1, <2>2 DEF TaskInv, Agrees, Registered, NothingStoredEarly, Undecided, WorkerKnows, MayReturn
<1>3. ASSUME NEW u \in Tasks, u # t PROVE TaskInv(u)'
  <2>1. TaskInv(u) /\ Unchanged(u)
    BY <1>3 DEF IInv, TypeOK, Unchanged, Return, CallerGoes, WorkerGoes, Send, taskVars, sweepVars
  <2> QED BY Frame, <2>1
<1>4. (seen <= clock)'
  BY DEF IInv, Return, CallerGoes, WorkerGoes, Send, taskVars, sweepVars
<1> QED BY <1>1, <1>2, <1>3, <1>4 DEF IInv

LEMMA StoreIInv == ASSUME IInv, NEW t \in Tasks, Store(t) PROVE IInv'
<1> DEFINE o == returned[t]
           r == [status |-> VerdictOf(o), outcome |-> o, expires |-> clock + limits[t].ttl]
<1>c. worker[t] = "back" /\ TaskInv(t)
  BY DEF IInv, Store, WorkerGoes
<1>a. o \in Outcomes /\ MayReturn(t, o) /\ VerdictOf(o) \in Verdicts
  BY <1>c, VerdictType DEF TaskInv, WorkerKnows
<1>d. /\ outcome[t] = NoOutcome /\ result[t] = NoResult /\ buffer[t] = "empty"
      /\ caller[t] \notin {"idle", "inserted", "refused"} /\ limits[t] \in Limits
      /\ status[t] # "absent"
  BY <1>c DEF TaskInv, NothingStoredEarly, Undecided, Registered
<1>b. limits[t].ttl # BadLimit => r \in Results
  <2> SUFFICES ASSUME limits[t].ttl # BadLimit PROVE r \in Results
    OBVIOUS
  <2>1. clock + limits[t].ttl \in Int
    BY <1>d, LimitsAssumption, BoundsAssumption DEF IInv, TypeOK
  <2> QED BY <1>a, <2>1 DEF Results
<1>1. TypeOK'
  <2>1. result' \in [Tasks -> Results \cup {NoResult}]
    BY <1>b DEF IInv, TypeOK, Store
  <2>2. /\ status' \in [Tasks -> Statuses \cup {"absent"}]
        /\ outcome' \in [Tasks -> Outcomes \cup {NoOutcome}]
        /\ worker' \in [Tasks -> Workers]
    BY <1>a DEF IInv, TypeOK, Store, WorkerGoes, Statuses, Verdicts, Workers
  <2> QED BY <2>1, <2>2 DEF IInv, TypeOK, Store, sweepVars
<1>2. TaskInv(t)'
  <2>1. CASE limits[t].ttl = BadLimit
    <3>1. /\ limits'[t] = limits[t] /\ status'[t] = VerdictOf(o) /\ outcome'[t] = o
        /\ event'[t] = event[t] /\ result'[t] = NoResult /\ buffer'[t] = buffer[t]
        /\ caller'[t] = caller[t] /\ worker'[t] = "raised" /\ returned'[t] = returned[t]
      BY <1>d, <2>1 DEF IInv, TypeOK, Store, WorkerGoes
    <3> QED BY <1>a, <1>d, <3>1 DEF TaskInv, Agrees, Registered, NothingStoredEarly, Undecided, WorkerKnows, Verdicts
  <2>2. CASE limits[t].ttl # BadLimit
    <3>1. /\ limits'[t] = limits[t] /\ status'[t] = VerdictOf(o) /\ outcome'[t] = o
        /\ event'[t] = event[t] /\ result'[t] = r /\ buffer'[t] = buffer[t]
        /\ caller'[t] = caller[t] /\ worker'[t] = "stored" /\ returned'[t] = returned[t]
      BY <1>a, <2>2 DEF IInv, TypeOK, Store, WorkerGoes
    <3>2. Registered(t)' /\ NothingStoredEarly(t)' /\ Agrees(t)'
      BY <1>a, <1>d, <3>1 DEF Registered, NothingStoredEarly, Undecided, Agrees, Verdicts
    <3>3. WorkerKnows(t)'
      BY <1>a, <3>1 DEF WorkerKnows, MayReturn
    <3> QED BY <3>2, <3>3 DEF TaskInv
  <2> QED BY <2>1, <2>2
<1>3. ASSUME NEW u \in Tasks, u # t PROVE TaskInv(u)'
  <2>1. TaskInv(u) /\ Unchanged(u)
    BY <1>3 DEF IInv, TypeOK, Unchanged, Store, CallerGoes, WorkerGoes, Send, sweepVars
  <2> QED BY Frame, <2>1
<1>4. (seen <= clock)'
  BY DEF IInv, Store, CallerGoes, WorkerGoes, Send, sweepVars
<1> QED BY <1>1, <1>2, <1>3, <1>4 DEF IInv

LEMMA AnnounceVerdictIInv == ASSUME IInv, NEW t \in Tasks, AnnounceVerdict(t) PROVE IInv'
<1>1. TypeOK'
  <2>1. returned[t] \in Outcomes /\ VerdictOf(returned[t]) \in Verdicts
    BY VerdictType DEF IInv, TaskInv, WorkerKnows, AnnounceVerdict, WorkerGoes
  <2> QED BY <2>1 DEF IInv, TypeOK, AnnounceVerdict, WorkerGoes, Send, Workers, Events, Verdicts,
             sweepVars
<1>2. TaskInv(t)'
  <2>1. TaskInv(t) /\ worker[t] = "stored"
    BY DEF IInv, AnnounceVerdict, WorkerGoes
  <2>2. /\ limits'[t] = limits[t] /\ status'[t] = status[t] /\ outcome'[t] = outcome[t]
        /\ event'[t] = event[t] /\ result'[t] = result[t] /\ buffer'[t] = buffer[t]
        /\ caller'[t] = caller[t] /\ worker'[t] = "exited" /\ returned'[t] = returned[t]
    BY DEF IInv, TypeOK, AnnounceVerdict, WorkerGoes
  <2> QED BY <2>1, <2>2, VerdictType DEF TaskInv, Agrees, Registered, NothingStoredEarly, Undecided, WorkerKnows
<1>3. ASSUME NEW u \in Tasks, u # t PROVE TaskInv(u)'
  <2>1. TaskInv(u) /\ Unchanged(u)
    BY <1>3 DEF IInv, TypeOK, Unchanged, AnnounceVerdict, CallerGoes, WorkerGoes, Send, sweepVars
  <2> QED BY Frame, <2>1
<1>4. (seen <= clock)'
  BY DEF IInv, AnnounceVerdict, CallerGoes, WorkerGoes, Send, sweepVars
<1> QED BY <1>1, <1>2, <1>3, <1>4 DEF IInv

LEMMA RecordFailureIInv == ASSUME IInv, NEW t \in Tasks, RecordFailure(t) PROVE IInv'
<1>1. TypeOK'
  BY DEF IInv, TypeOK, RecordFailure, CallerGoes, WorkerGoes, Send, sweepVars, Workers, Statuses
<1>2. TaskInv(t)'
  <2>1. TaskInv(t) /\ worker[t] = "raised"
    BY DEF IInv, RecordFailure, WorkerGoes
  <2>2. buffer[t] = "empty"
    BY <2>1 DEF TaskInv, WorkerKnows
  <2>3. /\ limits'[t] = limits[t] /\ status'[t] = "failed" /\ outcome'[t] = outcome[t]
        /\ event'[t] = event[t] /\ result'[t] = result[t] /\ buffer'[t] = "error"
        /\ caller'[t] = caller[t] /\ worker'[t] = "recorded" /\ returned'[t] = returned[t]
    BY <2>2 DEF IInv, TypeOK, RecordFailure, WorkerGoes
  <2> QED BY <2>1, <2>3 DEF TaskInv, Agrees, Registered, NothingStoredEarly, Undecided, WorkerKnows
<1>3. ASSUME NEW u \in Tasks, u # t PROVE TaskInv(u)'
  <2>1. TaskInv(u) /\ Unchanged(u)
    BY <1>3 DEF IInv, TypeOK, Unchanged, RecordFailure, CallerGoes, WorkerGoes, Send, sweepVars
  <2> QED BY Frame, <2>1
<1>4. (seen <= clock)'
  BY DEF IInv, RecordFailure, CallerGoes, WorkerGoes, Send, sweepVars
<1> QED BY <1>1, <1>2, <1>3, <1>4 DEF IInv

LEMMA AnnounceFailureIInv == ASSUME IInv, NEW t \in Tasks, AnnounceFailure(t) PROVE IInv'
<1>1. TypeOK'
  <2>1. sent' \in [Tasks -> Seq(Events)]
    <3>1. sent \in [Tasks -> Seq(Events)] /\ Append(sent[t], "failed") \in Seq(Events)
      BY DEF IInv, TypeOK, Events
    <3>2. CASE limits[t].budget = "bad"
      BY <3>1, <3>2 DEF AnnounceFailure
    <3>3. CASE limits[t].budget # "bad"
      BY <3>1, <3>3 DEF AnnounceFailure, Send
    <3> QED BY <3>2, <3>3
  <2> QED BY <2>1 DEF IInv, TypeOK, AnnounceFailure, WorkerGoes, Workers, sweepVars
<1>2. TaskInv(t)'
  <2>1. TaskInv(t) /\ worker[t] = "recorded"
    BY DEF IInv, AnnounceFailure, WorkerGoes
  <2>2. /\ limits'[t] = limits[t] /\ status'[t] = status[t] /\ outcome'[t] = outcome[t]
        /\ event'[t] = event[t] /\ result'[t] = result[t] /\ buffer'[t] = buffer[t]
        /\ caller'[t] = caller[t] /\ worker'[t] = "exited" /\ returned'[t] = returned[t]
    BY DEF IInv, TypeOK, AnnounceFailure, WorkerGoes
  <2> QED BY <2>1, <2>2 DEF TaskInv, Agrees, Registered, NothingStoredEarly, Undecided, WorkerKnows, Verdicts
<1>3. ASSUME NEW u \in Tasks, u # t PROVE TaskInv(u)'
  <2>1. TaskInv(u) /\ Unchanged(u)
    BY <1>3 DEF IInv, TypeOK, Unchanged, AnnounceFailure, CallerGoes, WorkerGoes, Send, sweepVars
  <2> QED BY Frame, <2>1
<1>4. (seen <= clock)'
  BY DEF IInv, AnnounceFailure, CallerGoes, WorkerGoes, Send, sweepVars
<1> QED BY <1>1, <1>2, <1>3, <1>4 DEF IInv

LEMMA CancelIInv == ASSUME IInv, NEW t \in Tasks, Cancel(t) PROVE IInv'
<1>1. TypeOK'
  <2>1. sent' \in [Tasks -> Seq(Events)]
    <3>1. sent \in [Tasks -> Seq(Events)] /\ Append(sent[t], "cancelled") \in Seq(Events)
      BY DEF IInv, TypeOK, Events
    <3>2. CASE limits[t].budget = "bad"
      BY <3>1, <3>2 DEF Cancel
    <3>3. CASE limits[t].budget # "bad"
      BY <3>1, <3>3 DEF Cancel, Send
    <3> QED BY <3>2, <3>3
  <2>2. event' \in [Tasks -> BOOLEAN]
    BY Zenon DEF IInv, TypeOK, Cancel
  <2>3. status' \in [Tasks -> Statuses \cup {"absent"}]
    BY DEF IInv, TypeOK, Cancel, Statuses
  <2> QED BY <2>1, <2>2, <2>3 DEF IInv, TypeOK, Cancel, threadVars, sweepVars
<1>2. TaskInv(t)'
  <2>1. TaskInv(t) /\ worker[t] \in Workers /\ status[t] \in {"pending", "running"}
    BY DEF IInv, TypeOK, Cancel, Cancellable
  <2>2. Undecided(t) \/ worker[t] = "raised"
    BY <2>1 DEF TaskInv, WorkerKnows, Undecided, VerdictOf, Verdicts, Workers
  <2>3. result[t] = NoResult
    BY <2>1, <2>2 DEF TaskInv, NothingStoredEarly
  <2>4. /\ limits'[t] = limits[t] /\ status'[t] = "cancelled" /\ outcome'[t] = outcome[t]
        /\ event'[t] = TRUE /\ result'[t] = result[t] /\ buffer'[t] = buffer[t]
        /\ caller'[t] = caller[t] /\ worker'[t] = worker[t] /\ returned'[t] = returned[t]
    BY DEF IInv, TypeOK, Cancel, threadVars
  <2> QED BY <2>1, <2>2, <2>3, <2>4 DEF TaskInv, Agrees, Registered, NothingStoredEarly, Undecided, WorkerKnows, MayReturn
<1>3. ASSUME NEW u \in Tasks, u # t PROVE TaskInv(u)'
  <2>1. TaskInv(u) /\ Unchanged(u)
    BY <1>3 DEF IInv, TypeOK, Unchanged, Cancel, CallerGoes, WorkerGoes, Send, threadVars, sweepVars
  <2> QED BY Frame, <2>1
<1>4. (seen <= clock)'
  BY DEF IInv, Cancel, CallerGoes, WorkerGoes, Send, threadVars, sweepVars
<1> QED BY <1>1, <1>2, <1>3, <1>4 DEF IInv

LEMMA WakeIInv == ASSUME IInv, Wake PROVE IInv'
<1>1. TypeOK' /\ (seen <= clock)'
  BY BoundsAssumption DEF IInv, TypeOK, Wake, Sweepers, taskVars, threadVars, sweepVars
<1>2. ASSUME NEW u \in Tasks PROVE TaskInv(u)'
  BY Frame DEF IInv, Unchanged, Wake, taskVars, threadVars
<1> QED BY <1>1, <1>2 DEF IInv

LEMMA ShutdownIInv == ASSUME IInv, Shutdown PROVE IInv'
<1>1. TypeOK' /\ (seen <= clock)'
  BY BoundsAssumption DEF IInv, TypeOK, Shutdown, Sweepers, taskVars, threadVars, sweepVars
<1>2. ASSUME NEW u \in Tasks PROVE TaskInv(u)'
  BY Frame DEF IInv, Unchanged, Shutdown, taskVars, threadVars
<1> QED BY <1>1, <1>2 DEF IInv

LEMMA StopSweepingIInv == ASSUME IInv, StopSweeping PROVE IInv'
<1>1. TypeOK' /\ (seen <= clock)'
  BY BoundsAssumption DEF IInv, TypeOK, StopSweeping, Sweepers, taskVars, threadVars, sweepVars
<1>2. ASSUME NEW u \in Tasks PROVE TaskInv(u)'
  BY Frame DEF IInv, Unchanged, StopSweeping, taskVars, threadVars
<1> QED BY <1>1, <1>2 DEF IInv

LEMMA TickIInv == ASSUME IInv, Tick PROVE IInv'
<1>1. TypeOK' /\ (seen <= clock)'
  BY BoundsAssumption DEF IInv, TypeOK, Tick, Sweepers, taskVars, threadVars, sweepVars
<1>2. ASSUME NEW u \in Tasks PROVE TaskInv(u)'
  BY Frame DEF IInv, Unchanged, Tick, taskVars, threadVars
<1> QED BY <1>1, <1>2 DEF IInv

LEMMA SweepIInv == ASSUME IInv, Sweep PROVE IInv'
<1>1. TypeOK' /\ (seen <= clock)'
  BY BoundsAssumption DEF IInv, TypeOK, Sweep, Sweepers, threadVars
<1>2. ASSUME NEW t \in Tasks PROVE TaskInv(t)'
  <2>1. TaskInv(t) /\ worker[t] \in Workers
    BY DEF IInv, TypeOK
  <2>2. CASE Expired(t)
    <3>1. result[t] # NoResult
      BY <2>2 DEF Expired
    <3>2. worker[t] \in {"stored", "exited"}
      BY <2>1, <3>1 DEF TaskInv, NothingStoredEarly, Undecided, Workers
    <3>3. /\ limits'[t] = limits[t] /\ status'[t] = status[t] /\ outcome'[t] = outcome[t]
        /\ event'[t] = event[t] /\ result'[t] = NoResult /\ buffer'[t] = "absent"
        /\ caller'[t] = caller[t] /\ worker'[t] = worker[t] /\ returned'[t] = returned[t]
      BY <2>2 DEF Sweep, threadVars
    <3>4. Agrees(t) /\ buffer[t] = "empty"
      BY <2>1, <3>1 DEF TaskInv, Agrees
    <3> QED BY <2>1, <3>2, <3>3, <3>4 DEF TaskInv, Agrees, Registered, NothingStoredEarly, Undecided, WorkerKnows, MayReturn
  <2>3. CASE ~Expired(t)
    BY <2>1, <2>3, Frame DEF Unchanged, Sweep, threadVars
  <2> QED BY <2>2, <2>3
<1> QED BY <1>1, <1>2 DEF IInv

LEMMA NextIInv == IInv /\ [Next]_vars => IInv'
<1> SUFFICES ASSUME IInv, [Next]_vars PROVE IInv'
  OBVIOUS
<1>1. ASSUME NEW t \in Tasks, StartStep(t) PROVE IInv'
  BY <1>1, InsertIInv, SpawnIInv, SpawnFailsIInv, AttachIInv, AnnounceCreationIInv DEF StartStep
<1>2. ASSUME NEW t \in Tasks, WorkerStep(t) PROVE IInv'
  BY <1>2, BeginIInv, ProgressIInv, ReturnIInv, StoreIInv, AnnounceVerdictIInv,
     RecordFailureIInv, AnnounceFailureIInv DEF WorkerStep
<1>3. ASSUME NEW t \in Tasks, Cancel(t) PROVE IInv'
  BY <1>3, CancelIInv
<1>4. ASSUME SweeperStep PROVE IInv'
  BY <1>4, WakeIInv, SweepIInv, StopSweepingIInv DEF SweeperStep
<1>5. CASE Shutdown
  BY <1>5, ShutdownIInv
<1>6. CASE Tick
  BY <1>6, TickIInv
<1>7. CASE UNCHANGED vars
  <2>1. TypeOK' /\ (seen <= clock)'
    BY <1>7 DEF IInv, TypeOK, vars, taskVars, threadVars, sweepVars
  <2>2. ASSUME NEW t \in Tasks PROVE TaskInv(t)'
    BY <1>7, Frame DEF IInv, Unchanged, vars, taskVars, threadVars
  <2> QED BY <2>1, <2>2 DEF IInv
<1> QED BY <1>1, <1>2, <1>3, <1>4, <1>5, <1>6, <1>7 DEF Next

\* The inductive invariant: the tables of a task are settled by how far its
\* caller and its worker have come, whatever the interleaving.
THEOREM Invariance == Spec => []IInv
  BY InitIInv, NextIInv, PTL DEF Spec

\* Every table holds values of its type in every reachable state.
THEOREM TypeCorrect == Spec => []TypeOK
<1>1. IInv => TypeOK
  BY DEF IInv
<1> QED BY <1>1, Invariance, PTL

\* A stored result agrees with the task's record and its buffer holds no error.
THEOREM ResultsAgree == Spec => []ResultAgrees
<1>1. IInv => ResultAgrees
  BY DEF IInv, TaskInv, ResultAgrees
<1> QED BY <1>1, Invariance, PTL

\* A task whose worker has ended left an outcome or an error line.
THEOREM EndedTasksLeaveTrace == Spec => []EndedTaskLeavesTrace
<1>1. IInv => EndedTaskLeavesTrace
  BY NoOutcomeIsNone DEF IInv, TaskInv, WorkerKnows, EndedTaskLeavesTrace
<1> QED BY <1>1, Invariance, PTL

\* What a step does to a status: the worker that has its verdict recorded
\* sees no more change, and the limits stay what the call gave.
LEMMA StatusStep ==
    ASSUME IInv, [Next]_vars, NEW t \in Tasks, worker[t] \in {"stored", "recorded", "exited"}
    PROVE  /\ status'[t] = status[t] /\ limits'[t] = limits[t]
           /\ status[t] # "absent"
<1>1. TaskInv(t) /\ caller[t] \in Callers
  BY DEF IInv, TypeOK
<1>2. status[t] \in Verdicts
  BY <1>1, VerdictType DEF TaskInv, WorkerKnows, Verdicts
<1>3. ASSUME NEW u \in Tasks, StartStep(u) PROVE status'[t] = status[t] /\ limits'[t] = limits[t]
  <2>1. caller[t] # "idle"
    BY <1>1, <1>2 DEF TaskInv, Registered, Verdicts
  <2> QED BY <1>3, <2>1 DEF IInv, TypeOK, StartStep, Insert, Spawn, SpawnFails, Attach,
             AnnounceCreation, CallerGoes, taskVars
<1>4. ASSUME NEW u \in Tasks, WorkerStep(u) PROVE status'[t] = status[t] /\ limits'[t] = limits[t]
  BY <1>4 DEF IInv, TypeOK, WorkerStep, Begin, Progress, Return, Store, AnnounceVerdict,
     RecordFailure, AnnounceFailure, WorkerGoes, taskVars
<1>5. ASSUME NEW u \in Tasks, Cancel(u) PROVE status'[t] = status[t] /\ limits'[t] = limits[t]
  BY <1>2, <1>5 DEF IInv, TypeOK, Cancel, Cancellable, Verdicts
<1>6. ASSUME SweeperStep \/ Shutdown \/ Tick \/ UNCHANGED vars PROVE status'[t] = status[t] /\ limits'[t] = limits[t]
  BY <1>6 DEF SweeperStep, Wake, Sweep, StopSweeping, Shutdown, Tick, vars, taskVars
<1> QED BY <1>2, <1>3, <1>4, <1>5, <1>6 DEF Next, Verdicts

\* The status a worker recorded last is the status for ever.
THEOREM VerdictsAreFinal == Spec => VerdictFinal
<1>1. ASSUME IInv, [Next]_vars, NEW t \in Tasks, worker[t] \in {"stored", "recorded", "exited"}
      PROVE  StatusOf(t)' = StatusOf(t)
  BY <1>1, StatusStep DEF StatusOf
<1>2. IInv /\ [Next]_vars =>
        [\A t \in Tasks : worker[t] \in {"stored", "recorded", "exited"} =>
                             StatusOf(t)' = StatusOf(t)]_vars
  BY <1>1
<1> QED BY <1>2, Invariance, PTL DEF Spec, VerdictFinal

\* What a step does to a stored result: it stays, or it is stored for the first
\* time, or it is swept after it expired.
LEMMA ResultStep ==
    ASSUME IInv, [Next]_vars, NEW t \in Tasks
    PROVE  \/ result'[t] = result[t] /\ clock <= clock'
           \/ result[t] = NoResult /\ worker[t] = "back"
           \/ result'[t] = NoResult /\ result[t] \in Results /\ result[t].expires <= clock
<1>1. TaskInv(t) /\ clock \in Int
  BY BoundsAssumption DEF IInv, TypeOK
<1>2. ASSUME NEW u \in Tasks, StartStep(u) PROVE result'[t] = result[t] /\ clock' = clock
  BY <1>2 DEF StartStep, Insert, Spawn, SpawnFails, Attach, AnnounceCreation, taskVars
<1>3. ASSUME NEW u \in Tasks, WorkerStep(u)
      PROVE  \/ result'[t] = result[t] /\ clock' = clock
             \/ result[t] = NoResult /\ worker[t] = "back"
  <2>1. CASE Store(u)
    <3>1. worker[u] = "back" /\ clock' = clock
      BY <2>1 DEF Store, WorkerGoes
    <3>2. u # t => result'[t] = result[t]
      BY <2>1 DEF IInv, TypeOK, Store
    <3> QED BY <1>1, <3>1, <3>2 DEF TaskInv, NothingStoredEarly, Undecided
  <2>2. CASE ~Store(u)
    BY <1>3, <2>2 DEF WorkerStep, Begin, Progress, Return, AnnounceVerdict, RecordFailure,
       AnnounceFailure, taskVars
  <2> QED BY <2>1, <2>2
<1>4. ASSUME NEW u \in Tasks, Cancel(u) PROVE result'[t] = result[t] /\ clock' = clock
  BY <1>4 DEF Cancel
<1>5. CASE Sweep
  <2>1. CASE Expired(t)
    BY <1>1, <1>5, <2>1 DEF IInv, TypeOK, Sweep, Expired, Results
  <2>2. CASE ~Expired(t)
    BY <1>1, <1>5, <2>2 DEF Sweep
  <2> QED BY <2>1, <2>2
<1>6. ASSUME Wake \/ StopSweeping \/ Shutdown \/ Tick \/ UNCHANGED vars
      PROVE  result'[t] = result[t] /\ clock <= clock'
  BY <1>1, <1>6 DEF Wake, StopSweeping, Shutdown, Tick, vars, taskVars
<1> QED BY <1>1, <1>2, <1>3, <1>4, <1>5, <1>6 DEF Next, SweeperStep

LEMMA AnswerType ==
    ASSUME IInv, NEW t \in Tasks
    PROVE  /\ ResultOf(t) # NoAnswer <=> result[t] # NoResult /\ result[t].expires > clock
           /\ ResultOf(t) # NoAnswer => ResultOf(t) \in Answers
           /\ ResultOf(t) # NoAnswer => worker[t] \in {"stored", "exited"}
<1>1. result[t] # NoResult => result[t] \in Results
  BY DEF IInv, TypeOK
<1>2. result[t] # NoResult => worker[t] \in {"stored", "exited"}
  BY DEF IInv, TypeOK, Workers, TaskInv, NothingStoredEarly, Undecided
<1>3. \A a \in Answers : a # NoAnswer
  BY DEF Answers, NoAnswer, Verdicts
<1>4. result[t] # NoResult => [status |-> result[t].status, outcome |-> result[t].outcome] \in Answers
  BY <1>1 DEF Results, Answers
<1> QED BY <1>2, <1>3, <1>4 DEF ResultOf

\* What a step does to the answer a client gets.
LEMMA AnswerStep ==
    ASSUME IInv, [Next]_vars, NEW t \in Tasks
    PROVE  \/ ResultOf(t)' = ResultOf(t)
           \/ ResultOf(t)' = NoAnswer /\ clock' # clock
           \/ ResultOf(t) = NoAnswer /\ worker[t] = "back"
<1>0. IInv'
  BY NextIInv
<1>1. clock \in Int /\ clock' \in Int /\ (result[t] # NoResult => result[t].expires \in Int)
  BY <1>0, BoundsAssumption DEF IInv, TypeOK, Results
<1>2. CASE result'[t] = result[t] /\ clock <= clock'
  <2>1. CASE result[t] # NoResult /\ result[t].expires > clock'
    BY <1>1, <1>2, <2>1 DEF ResultOf
  <2>2. CASE result[t] # NoResult /\ result[t].expires <= clock' /\ clock' # clock
    BY <1>1, <1>2, <2>2 DEF ResultOf, NoAnswer
  <2>3. CASE result[t] = NoResult \/ clock' = clock
    BY <1>2, <2>3 DEF ResultOf
  <2> QED BY <1>1, <1>2, <2>1, <2>2, <2>3
<1>3. CASE result[t] = NoResult /\ worker[t] = "back"
  BY <1>3 DEF ResultOf
<1>4. CASE result'[t] = NoResult /\ result[t] \in Results /\ result[t].expires <= clock
  BY <1>1, <1>4, NoResultIsNone DEF ResultOf
<1> QED BY <1>2, <1>3, <1>4, ResultStep

\* get_task_result answers the same until the answer is gone for good.
THEOREM AnswersAreStable == Spec => AnswerStable
<1>1. ASSUME IInv, [Next]_vars, NEW t \in Tasks
      PROVE  /\ ResultOf(t) # NoAnswer => ResultOf(t)' \in {ResultOf(t), NoAnswer}
             /\ worker[t] \in {"stored", "exited"} /\ ResultOf(t) = NoAnswer => ResultOf(t)' = NoAnswer
  BY <1>1, AnswerStep
<1>2. IInv /\ [Next]_vars =>
        [\A t \in Tasks :
           /\ ResultOf(t) # NoAnswer => ResultOf(t)' \in {ResultOf(t), NoAnswer}
           /\ worker[t] \in {"stored", "exited"} /\ ResultOf(t) = NoAnswer
                => ResultOf(t)' = NoAnswer]_vars
  BY <1>1
<1> QED BY <1>2, Invariance, PTL DEF Spec, AnswerStable

\* The sweeper never takes away an answer that has not expired.
THEOREM SweepsAreLate == Spec => OnlyTimeWithdraws
<1>1. ASSUME IInv, [Next]_vars, NEW t \in Tasks, ResultOf(t) # NoAnswer, clock' = clock
      PROVE  ResultOf(t)' # NoAnswer
  BY <1>1, AnswerStep
<1>2. IInv /\ [Next]_vars =>
        [\A t \in Tasks : ResultOf(t) # NoAnswer /\ clock' = clock => ResultOf(t)' # NoAnswer]_vars
  BY <1>1
<1> QED BY <1>2, Invariance, PTL DEF Spec, OnlyTimeWithdraws

-----------------------------------------------------------------------------
(* The manager implements JobPromise: each step is one of the promise's, on  *)
(* the phase, the request and the answer of the tasks, or leaves them alone. *)

phases == [t \in Tasks |-> phaseOf(t)]
answers == [t \in Tasks |-> ResultOf(t)]

LEMMA PhaseKept ==
    ASSUME NEW t, status'[t] = status[t], caller'[t] = caller[t], worker'[t] = worker[t]
    PROVE  phaseOf(t)' = phaseOf(t)
  BY DEF phaseOf

LEMMA AnswersKept ==
    ASSUME UNCHANGED <<result, clock>>
    PROVE  answers' = answers
  BY DEF answers, ResultOf

LEMMA InitPromise == Init => Promise!PromiseInit
<1> SUFFICES ASSUME Init PROVE Promise!PromiseInit
  OBVIOUS
<1>1. \A t \in Tasks : phaseOf(t) = "unknown" /\ ResultOf(t) = NoAnswer
  BY DEF Init, phaseOf, ResultOf
<1> QED BY <1>1 DEF Init, Promise!PromiseInit

LEMMA InsertPromise ==
    ASSUME IInv, IInv', NEW t \in Tasks, NEW l \in Limits, Insert(t, l)
    PROVE  Promise!Accept(t)
<1>1. phaseOf(t) = "unknown" /\ phaseOf(t)' = "accepted"
  BY DEF IInv, TypeOK, TaskInv, Registered, Insert, CallerGoes, phaseOf
<1>2. \A u \in Tasks : u # t => phaseOf(u)' = phaseOf(u)
  BY DEF IInv, TypeOK, Insert, CallerGoes, phaseOf
<1>3. phases' = [phases EXCEPT ![t] = "accepted"] /\ phases[t] = "unknown"
  BY <1>1, <1>2 DEF phases
<1>4. answers' = answers /\ event' = event
  BY AnswersKept DEF Insert
<1> QED BY <1>3, <1>4 DEF phases, answers, Promise!Accept, Promise!Moves

LEMMA AbandonPromise ==
    ASSUME IInv, NEW t \in Tasks, SpawnFails(t) PROVE Promise!Abandon(t)
<1>1. phaseOf(t) = "accepted" /\ phaseOf(t)' = "abandoned"
  BY DEF IInv, TypeOK, TaskInv, Registered, SpawnFails, CallerGoes, phaseOf, taskVars
<1>2. \A u \in Tasks : u # t => phaseOf(u)' = phaseOf(u)
  BY DEF IInv, TypeOK, SpawnFails, CallerGoes, phaseOf, taskVars
<1>3. phases' = [phases EXCEPT ![t] = "abandoned"] /\ phases[t] = "accepted"
  BY <1>1, <1>2 DEF phases
<1>4. answers' = answers /\ event' = event
  BY AnswersKept DEF SpawnFails, taskVars
<1> QED BY <1>3, <1>4 DEF phases, answers, Promise!Abandon, Promise!Moves

LEMMA CancelPromise ==
    ASSUME IInv, NEW t \in Tasks, Cancel(t) PROVE Promise!Ask(t)
<1>1. TaskInv(t) /\ status[t] \in {"pending", "running"}
  BY DEF IInv, Cancel, Cancellable
<1>2. worker[t] \notin {"stored", "recorded", "exited"}
  BY <1>1, VerdictType DEF TaskInv, WorkerKnows, Verdicts
<1>3. phases[t] \in {"accepted", "abandoned"}
  BY <1>1, <1>2 DEF phases, phaseOf
<1>4. \A u \in Tasks : phaseOf(u)' = phaseOf(u)
  BY <1>1 DEF IInv, TypeOK, Cancel, phaseOf, threadVars
<1>5. phases' = phases
  BY <1>4 DEF phases
<1>6. answers' = answers
  BY AnswersKept DEF Cancel
<1>7. event' = [event EXCEPT ![t] = TRUE]
  BY DEF Cancel
<1> QED BY <1>3, <1>5, <1>6, <1>7 DEF phases, answers, Promise!Ask

AnswersTyped == \A t \in Tasks : ResultOf(t) # NoAnswer => ResultOf(t) \in Answers

LEMMA NextAnswersTyped == IInv' => AnswersTyped'
<1>1. IInv => AnswersTyped
  BY AnswerType DEF AnswersTyped
<1> QED BY <1>1, PTL

LEMMA StorePromise ==
    ASSUME IInv, IInv', NEW t \in Tasks, Store(t), limits[t].ttl # BadLimit
    PROVE  Promise!Decide(t)
<1> DEFINE a == ResultOf(t)'
<1>1. /\ TaskInv(t) /\ worker[t] = "back" /\ worker'[t] = "stored"
      /\ status'[t] = VerdictOf(returned[t]) /\ outcome'[t] = returned[t]
      /\ caller'[t] = caller[t] /\ event' = event
      /\ result'[t].outcome = returned[t]
  BY DEF IInv, TypeOK, Store, WorkerGoes
<1>2. /\ caller[t] \notin {"idle", "refused"} /\ status[t] # "absent"
      /\ status'[t] # "absent" /\ MayReturn(t, returned[t])
  BY <1>1, VerdictType DEF TaskInv, Registered, WorkerKnows, Verdicts
<1>3. phaseOf(t) = "accepted" /\ phaseOf(t)' = "decided"
  BY <1>1, <1>2 DEF phaseOf
<1>4. \A u \in Tasks : u # t => phaseOf(u)' = phaseOf(u) /\ ResultOf(u)' = ResultOf(u)
  BY DEF IInv, TypeOK, Store, WorkerGoes, phaseOf, ResultOf
<1>5. phases' = [phases EXCEPT ![t] = "decided"] /\ phases[t] = "accepted"
  BY <1>3, <1>4 DEF phases
<1>6. answers' = [answers EXCEPT ![t] = a]
  BY <1>4 DEF answers
<1>7. a \in Answers \cup {NoAnswer}
  BY NextAnswersTyped DEF AnswersTyped
<1>8. a \in {b \in Answers : b.outcome.cancelled} => event[t]
  <2>1. CASE a = NoAnswer
    BY <2>1 DEF NoAnswer, Answers, Verdicts
  <2>2. CASE a # NoAnswer
    <3>1. a.outcome = returned[t]
      BY <1>1, <2>2 DEF ResultOf
    <3> QED BY <1>2, <3>1 DEF MayReturn
  <2> QED BY <2>1, <2>2
<1> QED BY <1>1, <1>5, <1>6, <1>7, <1>8 DEF phases, answers, Promise!Decide, Promise!Moves

LEMMA FailurePromise ==
    ASSUME IInv, NEW t \in Tasks, RecordFailure(t) PROVE Promise!Decide(t)
<1>1. /\ TaskInv(t) /\ worker[t] = "raised" /\ worker'[t] = "recorded"
      /\ status'[t] = "failed" /\ caller' = caller /\ event' = event
  BY DEF IInv, TypeOK, RecordFailure, WorkerGoes
<1>2. caller[t] \notin {"idle", "refused"} /\ status[t] # "absent" /\ result[t] = NoResult
  BY <1>1 DEF TaskInv, Registered, NothingStoredEarly
<1>3. phaseOf(t) = "accepted" /\ phaseOf(t)' = "decided"
  BY <1>1, <1>2 DEF phaseOf
<1>4. \A u \in Tasks : u # t => phaseOf(u)' = phaseOf(u)
  BY DEF IInv, TypeOK, RecordFailure, WorkerGoes, phaseOf
<1>5. phases' = [phases EXCEPT ![t] = "decided"] /\ phases[t] = "accepted"
  BY <1>3, <1>4 DEF phases
<1>6. answers' = answers
  BY AnswersKept DEF RecordFailure
<1>7. answers[t] = NoAnswer
  BY <1>2 DEF answers, ResultOf
<1>8. answers' = [answers EXCEPT ![t] = NoAnswer]
  BY <1>6, <1>7 DEF answers
<1>9. NoAnswer \notin {b \in Answers : b.outcome.cancelled}
  BY DEF NoAnswer, Answers, Verdicts
<1> QED BY <1>1, <1>5, <1>8, <1>9 DEF phases, answers, Promise!Decide, Promise!Moves

\* The steps no client is promised anything of.
LEMMA QuietPromise ==
    ASSUME IInv, NEW t \in Tasks,
           \/ Spawn(t) \/ Attach(t) \/ AnnounceCreation(t) \/ Begin(t) \/ Progress(t)
           \/ Return(t) \/ (Store(t) /\ limits[t].ttl = BadLimit)
           \/ AnnounceVerdict(t) \/ AnnounceFailure(t)
    PROVE  UNCHANGED <<phases, event, answers>>
<1>1. UNCHANGED <<result, clock, event>>
  BY DEF Spawn, Attach, AnnounceCreation, Begin, Progress, Return, Store, AnnounceVerdict,
     AnnounceFailure, taskVars
<1>2. answers' = answers
  BY <1>1, AnswersKept
<1>3. ASSUME NEW u \in Tasks PROVE phaseOf(u)' = phaseOf(u)
  <2>1. TaskInv(u)
    BY DEF IInv
  <2>2. CASE Spawn(t) \/ Attach(t) \/ AnnounceCreation(t)
    BY <2>1, <2>2 DEF IInv, TypeOK, Spawn, Attach, AnnounceCreation, CallerGoes, WorkerGoes,
       phaseOf, taskVars
  <2>3. CASE Begin(t)
    BY <2>1, <2>3 DEF IInv, TypeOK, TaskInv, Registered, Begin, WorkerGoes, phaseOf
  <2>4. CASE Progress(t) \/ Return(t)
    BY <2>4 DEF IInv, TypeOK, Progress, Return, WorkerGoes, phaseOf, taskVars, threadVars
  <2>5. CASE Store(t) /\ limits[t].ttl = BadLimit
    BY <2>1, <2>5, VerdictType DEF IInv, TypeOK, TaskInv, Registered, Store, WorkerGoes, phaseOf,
       Verdicts
  <2>6. CASE AnnounceVerdict(t) \/ AnnounceFailure(t)
    BY <2>6 DEF IInv, TypeOK, AnnounceVerdict, AnnounceFailure, WorkerGoes, phaseOf
  <2> QED BY <2>2, <2>3, <2>4, <2>5, <2>6
<1>4. phases' = phases
  BY <1>3 DEF phases
<1> QED BY <1>1, <1>2, <1>4

\* Sweeping takes away no answer; time takes away those of a set of tasks.
LEMMA TimePromise ==
    ASSUME IInv, IInv', SweeperStep \/ Shutdown \/ Tick \/ UNCHANGED vars
    PROVE  \/ UNCHANGED <<phases, event, answers>>
           \/ Promise!Withdraw
<1>1. phases' = phases /\ event' = event
  <2>1. UNCHANGED <<status, caller, worker, event>>
    BY DEF SweeperStep, Wake, Sweep, StopSweeping, Shutdown, Tick, vars, taskVars, threadVars
  <2> QED BY <2>1 DEF phases, phaseOf
<1>2. CASE Sweep
  <2>1. ASSUME NEW t \in Tasks PROVE ResultOf(t)' = ResultOf(t)
    <3>1. clock \in Int /\ seen \in Int /\ (result[t] # NoResult => result[t].expires \in Int)
      BY BoundsAssumption DEF IInv, TypeOK, Results
    <3>2. CASE Expired(t)
      BY <1>2, <3>1, <3>2 DEF IInv, Sweep, Expired, ResultOf
    <3>3. CASE ~Expired(t)
      BY <1>2, <3>3 DEF Sweep, ResultOf
    <3> QED BY <3>2, <3>3
  <2> QED BY <1>1, <2>1 DEF answers
<1>3. CASE Tick
  <2> DEFINE S == {t \in Tasks : result[t] # NoResult => result[t].expires <= clock'}
  <2>1. clock \in Int /\ clock' = clock + 1 /\ result' = result
    BY <1>3, BoundsAssumption DEF IInv, TypeOK, Tick, taskVars
  <2>2. ASSUME NEW t \in Tasks
        PROVE  ResultOf(t)' = IF t \in S THEN NoAnswer ELSE ResultOf(t)
    <3>1. result[t] # NoResult => result[t].expires \in Int
      BY DEF IInv, TypeOK, Results
    <3> QED BY <2>1, <3>1 DEF ResultOf
  <2>3. answers' = [t \in Tasks |-> IF t \in S THEN NoAnswer ELSE answers[t]]
    BY <2>2 DEF answers
  <2>4. S \in SUBSET Tasks
    OBVIOUS
  <2> QED BY <1>1, <2>3, <2>4 DEF Promise!Withdraw, phases, answers
<1>4. CASE Wake \/ StopSweeping \/ Shutdown \/ UNCHANGED vars
  <2>1. UNCHANGED <<result, clock>>
    BY <1>4 DEF Wake, StopSweeping, Shutdown, vars, taskVars
  <2> QED BY <1>1, <2>1, AnswersKept
<1> QED BY <1>2, <1>3, <1>4 DEF SweeperStep

LEMMA StepPromise == IInv /\ IInv' /\ [Next]_vars => [Promise!PromiseNext]_(Promise!promiseVars)
<1> SUFFICES ASSUME IInv, IInv', [Next]_vars
             PROVE  Promise!PromiseNext \/ UNCHANGED <<phases, event, answers>>
  BY DEF Promise!promiseVars, phases, answers
<1>1. ASSUME NEW t \in Tasks, StartStep(t)
      PROVE  Promise!PromiseNext \/ UNCHANGED <<phases, event, answers>>
  BY <1>1, InsertPromise, AbandonPromise, QuietPromise DEF StartStep, Promise!PromiseNext
<1>2. ASSUME NEW t \in Tasks, WorkerStep(t)
      PROVE  Promise!PromiseNext \/ UNCHANGED <<phases, event, answers>>
  <2>1. CASE Store(t) /\ limits[t].ttl # BadLimit
    BY <2>1, StorePromise DEF Promise!PromiseNext
  <2>2. CASE RecordFailure(t)
    BY <2>2, FailurePromise DEF Promise!PromiseNext
  <2>3. CASE ~RecordFailure(t) /\ ~(Store(t) /\ limits[t].ttl # BadLimit)
    <3>1. \/ Begin(t) \/ Progress(t) \/ Return(t) \/ (Store(t) /\ limits[t].ttl = BadLimit)
          \/ AnnounceVerdict(t) \/ AnnounceFailure(t)
      BY <1>2, <2>3 DEF WorkerStep
    <3> QED BY <3>1, QuietPromise
  <2> QED BY <2>1, <2>2, <2>3
<1>3. ASSUME NEW t \in Tasks, Cancel(t) PROVE Promise!PromiseNext
  BY <1>3, CancelPromise DEF Promise!PromiseNext
<1>4. CASE SweeperStep \/ Shutdown \/ Tick \/ UNCHANGED vars
  BY <1>4, TimePromise DEF Promise!PromiseNext
<1> QED BY <1>1, <1>2, <1>3, <1>4 DEF Next

\* Every behaviour of the manager is one the promise allows.
THEOREM Refinement == Spec => KeepsPromise
  BY InitPromise, StepPromise, Invariance, PTL DEF Spec, KeepsPromise, Promise!PromiseSpec

-----------------------------------------------------------------------------
(***************************************************************************)
(* What the manager announces and shows of a task: one verdict, the one on *)
(* record, and an output that stays.                                       *)
(***************************************************************************)

\* What has been announced of a task that ...
NoVerdict(t)  == \A i \in DOMAIN sent[t] : sent[t][i] \notin Verdicts      \* ... is not over
OneVerdict(t) ==                                                           \* ... is over
    /\ \A i, j \in DOMAIN sent[t] : Verdict(t, i) /\ Verdict(t, j) => i = j
    /\ \A i \in DOMAIN sent[t] : Verdict(t, i) => sent[t][i] = status[t]
    /\ limits[t].budget # "bad" => \E i \in DOMAIN sent[t] : Verdict(t, i)

AnnouncedOnce(t) == IF worker[t] = "exited" THEN OneVerdict(t) ELSE NoVerdict(t)
AnnouncedInv == \A t \in Tasks : AnnouncedOnce(t)

\* What an event appended to the list does to the verdicts in it.
LEMMA AppendPlain ==
    ASSUME NEW s \in Seq(Events), NEW e \in Events
    PROVE  /\ DOMAIN Append(s, e) = DOMAIN s \cup {Len(s) + 1}
           /\ \A i \in DOMAIN s : Append(s, e)[i] = s[i]
           /\ Append(s, e)[Len(s) + 1] = e
           /\ Len(s) + 1 \notin DOMAIN s
  OBVIOUS

\* A step that leaves the worker of a task where it is announces no verdict of it.
LEMMA PlainStep ==
    ASSUME IInv, NEW t \in Tasks, AnnouncedOnce(t),
           NEW e \in Events \ Verdicts,
           sent'[t] = sent[t] \/ sent'[t] = Append(sent[t], e),
           worker'[t] = worker[t] \/ (worker[t] # "exited" /\ worker'[t] # "exited"),
           worker[t] = "exited" => status'[t] = status[t] /\ limits'[t] = limits[t]
    PROVE  AnnouncedOnce(t)'
<1>1. sent[t] \in Seq(Events)
  BY DEF IInv, TypeOK
<1>2. CASE sent'[t] = sent[t]
  BY <1>2 DEF AnnouncedOnce, NoVerdict, OneVerdict, Verdict
<1>3. CASE sent'[t] = Append(sent[t], e)
  <2>1. /\ DOMAIN sent'[t] = DOMAIN sent[t] \cup {Len(sent[t]) + 1}
        /\ \A i \in DOMAIN sent[t] : sent'[t][i] = sent[t][i]
        /\ sent'[t][Len(sent[t]) + 1] = e
        /\ Len(sent[t]) + 1 \notin DOMAIN sent[t]
    BY <1>1, <1>3, AppendPlain
  <2>2. ASSUME NEW i \in DOMAIN sent'[t], sent'[t][i] \in Verdicts
        PROVE  i \in DOMAIN sent[t] /\ sent'[t][i] = sent[t][i]
    BY <2>1, <2>2
  <2>3. CASE worker[t] = "exited"
    <3>1. worker'[t] = "exited" /\ status'[t] = status[t] /\ limits'[t] = limits[t]
      BY <2>3
    <3>2. OneVerdict(t)'
      BY <2>1, <2>2, <2>3, <3>1 DEF AnnouncedOnce, OneVerdict, Verdict
    <3> QED BY <3>1, <3>2 DEF AnnouncedOnce
  <2>4. CASE worker[t] # "exited"
    <3>1. worker'[t] # "exited"
      BY <2>4
    <3>2. NoVerdict(t)'
      BY <2>2, <2>4 DEF AnnouncedOnce, NoVerdict
    <3> QED BY <3>1, <3>2 DEF AnnouncedOnce
  <2> QED BY <2>3, <2>4
<1> QED BY <1>2, <1>3

\* The worker's last step announces the verdict on record, if it can.
LEMMA LastStep ==
    ASSUME IInv, NEW t \in Tasks, NoVerdict(t), worker'[t] = "exited",
           status[t] \in Verdicts, status'[t] = status[t], limits'[t] = limits[t],
           \/ sent'[t] = Append(sent[t], status[t])
           \/ sent'[t] = sent[t] /\ limits[t].budget = "bad"
    PROVE  AnnouncedOnce(t)'
<1>1. sent[t] \in Seq(Events) /\ status[t] \in Events
  BY DEF IInv, TypeOK, Verdicts, Events
<1>2. CASE sent'[t] = sent[t] /\ limits[t].budget = "bad"
  BY <1>2 DEF AnnouncedOnce, NoVerdict, OneVerdict, Verdict
<1>3. CASE sent'[t] = Append(sent[t], status[t])
  <2>1. /\ DOMAIN sent'[t] = DOMAIN sent[t] \cup {Len(sent[t]) + 1}
        /\ \A i \in DOMAIN sent[t] : sent'[t][i] = sent[t][i]
        /\ sent'[t][Len(sent[t]) + 1] = status[t]
    BY <1>1, <1>3, AppendPlain
  <2>2. \A i \in DOMAIN sent'[t] : sent'[t][i] \in Verdicts => i = Len(sent[t]) + 1
    BY <2>1 DEF NoVerdict
  <2> QED BY <2>1, <2>2 DEF AnnouncedOnce, OneVerdict, Verdict
<1> QED BY <1>2, <1>3

LEMMA InitAnnounced == Init => AnnouncedInv
<1> SUFFICES ASSUME Init, NEW t \in Tasks PROVE AnnouncedOnce(t)
  BY DEF AnnouncedInv
<1>1. sent[t] = <<>> /\ worker[t] = "unborn"
  BY DEF Init
<1>2. \A i \in DOMAIN sent[t] : FALSE
  BY <1>1
<1> QED BY <1>1, <1>2 DEF AnnouncedOnce, NoVerdict

LEMMA NextAnnounced == IInv /\ AnnouncedInv /\ [Next]_vars => AnnouncedInv'
<1> SUFFICES ASSUME IInv, AnnouncedInv, [Next]_vars, NEW t \in Tasks PROVE AnnouncedOnce(t)'
  BY DEF AnnouncedInv
<1>1. AnnouncedOnce(t) /\ TaskInv(t) /\ {"created", "progress", "cancelled"} \subseteq Events \ Verdicts
  BY DEF IInv, AnnouncedInv, Events, Verdicts
<1>2. worker[t] = "exited" => status'[t] = status[t] /\ limits'[t] = limits[t]
  BY StatusStep
<1> DEFINE Quiet == /\ \/ sent'[t] = sent[t]
                       \/ sent'[t] = Append(sent[t], "created")
                       \/ sent'[t] = Append(sent[t], "progress")
                       \/ sent'[t] = Append(sent[t], "cancelled")
                    /\ worker'[t] = worker[t] \/ (worker[t] # "exited" /\ worker'[t] # "exited")
<1>3. Quiet => AnnouncedOnce(t)'
  BY <1>1, <1>2, PlainStep
<1>4. ASSUME NEW u \in Tasks, StartStep(u) PROVE Quiet
  BY <1>1, <1>4 DEF IInv, TypeOK, StartStep, Insert, Spawn, SpawnFails, Attach, AnnounceCreation,
     CallerGoes, WorkerGoes, Send, taskVars
<1>5. ASSUME NEW u \in Tasks, Cancel(u) PROVE Quiet
  BY <1>1, <1>5 DEF IInv, TypeOK, Cancel, Send, threadVars
<1>6. ASSUME SweeperStep \/ Shutdown \/ Tick \/ UNCHANGED vars PROVE Quiet
  BY <1>1, <1>6 DEF SweeperStep, Wake, Sweep, StopSweeping, Shutdown, Tick, vars, taskVars, threadVars
<1>7. ASSUME NEW u \in Tasks, Begin(u) \/ Progress(u) \/ Return(u) \/ Store(u) \/ RecordFailure(u)
      PROVE  Quiet
  BY <1>1, <1>7 DEF IInv, TypeOK, Begin, Progress, Return, Store, RecordFailure, WorkerGoes, Send,
     taskVars, threadVars
<1>8. ASSUME NEW u \in Tasks, u # t, AnnounceVerdict(u) \/ AnnounceFailure(u) PROVE Quiet
  BY <1>1, <1>8 DEF IInv, TypeOK, AnnounceVerdict, AnnounceFailure, WorkerGoes, Send
<1>9. ASSUME AnnounceVerdict(t) PROVE AnnouncedOnce(t)'
  <2>1. /\ worker[t] = "stored" /\ worker'[t] = "exited" /\ limits'[t] = limits[t]
        /\ status'[t] = status[t] /\ sent'[t] = Append(sent[t], VerdictOf(returned[t]))
    BY <1>9 DEF IInv, TypeOK, AnnounceVerdict, WorkerGoes, Send
  <2>2. status[t] = VerdictOf(returned[t]) /\ status[t] \in Verdicts
    BY <1>1, <2>1, VerdictType DEF TaskInv, WorkerKnows
  <2>3. NoVerdict(t)
    BY <1>1, <2>1 DEF AnnouncedOnce
  <2> QED BY <2>1, <2>2, <2>3, LastStep
<1>10. ASSUME AnnounceFailure(t) PROVE AnnouncedOnce(t)'
  <2>1. /\ worker[t] = "recorded" /\ worker'[t] = "exited" /\ limits'[t] = limits[t]
        /\ status'[t] = status[t]
        /\ \/ sent'[t] = Append(sent[t], "failed")
           \/ sent'[t] = sent[t] /\ limits[t].budget = "bad"
    BY <1>10 DEF IInv, TypeOK, AnnounceFailure, WorkerGoes, Send
  <2>2. status[t] = "failed" /\ status[t] \in Verdicts
    BY <1>1, <2>1 DEF TaskInv, WorkerKnows, Verdicts
  <2>3. NoVerdict(t)
    BY <1>1, <2>1 DEF AnnouncedOnce
  <2> QED BY <2>1, <2>2, <2>3, LastStep
<1> HIDE DEF Quiet
<1> QED BY <1>3, <1>4, <1>5, <1>6, <1>7, <1>8, <1>9, <1>10 DEF Next, WorkerStep

LEMMA AnnouncedInvariance == Spec => []AnnouncedInv
  BY InitAnnounced, NextAnnounced, Invariance, PTL DEF Spec

\* A verdict is announced once, it is the one on record, and a worker that has
\* ended has announced it, unless max_seconds is unreadable.
THEOREM AnnouncedVerdicts == Spec => []VerdictAnnouncedOnce
<1>1. AnnouncedInv => VerdictAnnouncedOnce
  <2> SUFFICES ASSUME AnnouncedInv, NEW t \in Tasks
               PROVE  /\ \A i, j \in DOMAIN sent[t] : Verdict(t, i) /\ Verdict(t, j) => i = j
                      /\ \A i \in DOMAIN sent[t] : Verdict(t, i) =>
                           status[t] = sent[t][i] /\ StatusOf(t) \in {sent[t][i], "error"}
                      /\ worker[t] = "exited" /\ limits[t].budget # "bad" =>
                           \E i \in DOMAIN sent[t] : Verdict(t, i)
    BY DEF VerdictAnnouncedOnce
  <2>1. AnnouncedOnce(t)
    BY DEF AnnouncedInv
  <2>2. \A i \in DOMAIN sent[t] : Verdict(t, i) => status[t] = sent[t][i] /\ status[t] # "absent"
    BY <2>1 DEF AnnouncedOnce, NoVerdict, OneVerdict, Verdict, Verdicts
  <2> QED BY <2>1, <2>2 DEF AnnouncedOnce, NoVerdict, OneVerdict, Verdict, StatusOf
<1> QED BY <1>1, AnnouncedInvariance, PTL

-----------------------------------------------------------------------------
(* The output of a task whose worker has ended.                              *)

\* Only a sweep touches what get_task_output reads, and only with the result.
LEMMA EndedStep ==
    ASSUME IInv, [Next]_vars, NEW t \in Tasks, worker[t] = "exited"
    PROVE  /\ outcome'[t] = outcome[t]
           /\ buffer'[t] = buffer[t] \/ (result[t] # NoResult /\ buffer'[t] = "absent")
<1>1. TaskInv(t) /\ caller[t] \notin {"idle", "inserted"}
  BY DEF IInv, TaskInv, Registered
<1>2. ASSUME NEW u \in Tasks, StartStep(u) PROVE outcome'[t] = outcome[t] /\ buffer'[t] = buffer[t]
  BY <1>1, <1>2 DEF IInv, TypeOK, StartStep, Insert, Spawn, SpawnFails, Attach, AnnounceCreation,
     CallerGoes, taskVars
<1>3. ASSUME NEW u \in Tasks, WorkerStep(u) PROVE outcome'[t] = outcome[t] /\ buffer'[t] = buffer[t]
  BY <1>3 DEF IInv, TypeOK, WorkerStep, Begin, Progress, Return, Store, AnnounceVerdict,
     RecordFailure, AnnounceFailure, WorkerGoes, taskVars
<1>4. ASSUME NEW u \in Tasks, Cancel(u) PROVE outcome'[t] = outcome[t] /\ buffer'[t] = buffer[t]
  BY <1>4 DEF Cancel
<1>5. ASSUME Sweep
      PROVE  /\ outcome'[t] = outcome[t]
             /\ buffer'[t] = buffer[t] \/ (result[t] # NoResult /\ buffer'[t] = "absent")
  <2>1. outcome' = outcome
    BY <1>5 DEF Sweep
  <2>2. buffer'[t] = IF Expired(t) THEN "absent" ELSE buffer[t]
    BY <1>5 DEF Sweep
  <2> QED BY <2>1, <2>2 DEF Expired
<1>6. ASSUME Wake \/ StopSweeping \/ Shutdown \/ Tick \/ UNCHANGED vars
      PROVE  outcome'[t] = outcome[t] /\ buffer'[t] = buffer[t]
  BY <1>6 DEF Wake, StopSweeping, Shutdown, Tick, vars, taskVars
<1> QED BY <1>2, <1>3, <1>4, <1>5, <1>6 DEF Next, SweeperStep

\* What get_task_output shows once the worker has ended, read from the record.
LEMMA OutputFromRecord ==
    ASSUME NEW t \in Tasks, Agrees(t), buffer[t] # "error"
    PROVE  /\ ResultOf(t) # NoAnswer => outcome[t] = result[t].outcome
           /\ ResultOf(t) # NoAnswer => OutputOf(t) = [lines |-> outcome[t].output]
           /\ ResultOf(t) = NoAnswer => OutputOf(t) =
                IF outcome[t] # NoOutcome /\ outcome[t].output # EmptyOutput
                THEN [lines |-> outcome[t].output] ELSE NoAnswer
<1>1. ResultOf(t) # NoAnswer => result[t] # NoResult
  BY DEF ResultOf
<1> QED BY <1>1 DEF Agrees, OutputOf

\* What get_task_output shows of a task whose worker has ended stays the same when
\* the result expires and is swept, for any tasks and lifetimes.
THEOREM OutputsStable == Spec => OutputStable
<1>1. ASSUME IInv, IInv', [Next]_vars, NEW t \in Tasks, worker[t] = "exited",
             OutputOf(t) \notin {NoAnswer, [lines |-> EmptyOutput]}
      PROVE  OutputOf(t)' = OutputOf(t)
  <2>1. Agrees(t) /\ Agrees(t)'
    BY <1>1 DEF IInv, TaskInv
  <2>2. /\ outcome'[t] = outcome[t]
        /\ buffer'[t] = buffer[t] \/ (result[t] # NoResult /\ buffer'[t] = "absent")
    BY <1>1, EndedStep
  <2>3. CASE buffer[t] = "error"
    <3>1. buffer'[t] = "error"
      BY <2>1, <2>2, <2>3 DEF Agrees
    <3> QED BY <2>3, <3>1 DEF OutputOf
  <2>4. CASE buffer[t] # "error"
    <3>1. buffer'[t] # "error"
      BY <2>2, <2>4
    <3>2. outcome[t] # NoOutcome /\ outcome[t].output # EmptyOutput
                                  /\ OutputOf(t) = [lines |-> outcome[t].output]
      <4>1. CASE ResultOf(t) = NoAnswer
        BY <1>1, <2>1, <2>4, <4>1, OutputFromRecord
      <4>2. CASE ResultOf(t) # NoAnswer
        <5>1. result[t] # NoResult
          BY <4>2 DEF ResultOf
        <5>2. result[t].outcome \in Outcomes
          BY <1>1, <5>1 DEF IInv, TypeOK, Results
        <5> QED BY <1>1, <2>1, <2>4, <4>2, <5>2, OutputFromRecord, NoOutcomeIsNone
      <4> QED BY <4>1, <4>2
    <3>3. OutputOf(t)' = [lines |-> outcome'[t].output]
      <4>1. CASE ResultOf(t)' = NoAnswer
        BY <2>1, <2>2, <3>1, <3>2, <4>1 DEF OutputOf
      <4>2. CASE ResultOf(t)' # NoAnswer
        <5>1. result'[t] # NoResult
          BY <4>2 DEF ResultOf
        <5> QED BY <2>1, <3>1, <4>2, <5>1 DEF OutputOf, Agrees
      <4> QED BY <4>1, <4>2
    <3> QED BY <2>2, <3>2, <3>3
  <2> QED BY <2>3, <2>4
<1>2. IInv /\ IInv' /\ [Next]_vars =>
        [\A t \in Tasks :
           worker[t] = "exited" /\ OutputOf(t) \notin {NoAnswer, [lines |-> EmptyOutput]}
              => OutputOf(t)' = OutputOf(t)]_vars
  BY <1>1
<1> QED BY <1>2, Invariance, PTL DEF Spec, OutputStable
=============================================================================
