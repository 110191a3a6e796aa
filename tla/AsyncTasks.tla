----------------------------- MODULE AsyncTasks -----------------------------
(***************************************************************************)
(* AsyncTaskManager (src/mcp_ssh/tools/utilities.py): the registry behind  *)
(* ssh_run_async and the four ssh_*_task tools.  Three kinds of threads    *)
(* meet on its RLock:                                                      *)
(*   - the callers of start_async_task and cancel_task (tool handlers),    *)
(*   - one worker thread per task, running _execute_task_in_thread,        *)
(*   - one cleanup thread, running _cleanup_worker.                        *)
(* A step is one region under the lock, or one visible step between two    *)
(* regions; a thread may be preempted between any two steps.               *)
(***************************************************************************)
EXTENDS Integers, Sequences

CONSTANTS Tasks,        \* task ids: one per call of start_async_task
          Limits,       \* the limits dicts a call may be given
          Outputs,      \* the combined outputs a command may produce
          EmptyOutput,  \* the empty one
          BadLimit,     \* a limit int() raises on
          MaxTime,      \* bound: the last instant of the clock
          MaxProgress   \* bound: progress events of one task

\* max_seconds: a positive number, 0 (run_streaming then never times out), or
\* something int() raises on.
Budgets == {"capped", "unbounded", "bad"}
\* max_output_bytes: a number, or something int() raises on.
Caps == {"number", "bad"}

ASSUME LimitsAssumption ==
    Limits \subseteq [ttl : Int \cup {BadLimit}, budget : Budgets, cap : Caps]
ASSUME OutputsAssumption == EmptyOutput \in Outputs
ASSUME BadLimitAssumption == BadLimit \notin Int
ASSUME BoundsAssumption == MaxTime \in Nat /\ MaxProgress \in Nat

Statuses == {"pending", "running", "cancelled", "completed", "failed"}
Verdicts == {"completed", "failed"}
Events   == {"created", "progress", "cancelled", "completed", "failed"}

\* What run_streaming returns: exit is "unset" for -1.
Outcomes == [exit : {"zero", "nonzero", "unset"}, cancelled : BOOLEAN,
             timeout : BOOLEAN, output : Outputs]
NoOutcome == [exit |-> "none"]

\* A slip the runs must notice: a verdict of its own for a timeout.
TimeoutVerdictOf(o) ==
    IF o.timeout THEN "timeout" ELSE IF o.exit = "zero" THEN "completed" ELSE "failed"

VerdictOf(o) == IF o.exit = "zero" THEN "completed" ELSE "failed"

Results == [status : Verdicts, outcome : Outcomes, expires : Int]
NoResult == [status |-> "none"]
NoLimits == [budget |-> "none"]

\* run_streaming can be called: int() raises on neither of its two limits.
Startable(l) == l.budget # "bad" /\ l.cap # "bad"

VARIABLES
    clock,     \* time.time()
    limits,    \* _tasks[t]["limits"]
    status,    \* _tasks[t]["status"], "absent" when _tasks has no entry t
    outcome,   \* _tasks[t]["exit_code"], ["cancelled"], ["timeout"], ["output"]
    event,     \* is _tasks[t]["cancel"] set
    result,    \* _results[t]
    buffer,    \* _output_buffers[t]: absent, empty, or holding the error line
    sent,      \* the events _send_notification passed to the handler of t
    caller,    \* program counter of start_async_task
    worker,    \* program counter of _execute_task_in_thread
    returned,  \* the worker's local copy of what run_streaming returned
    sweeper,   \* program counter of _cleanup_worker
    seen,      \* its local current_time, 0 outside cleanup_expired_tasks
    shutdown   \* _shutdown_event

taskVars == <<limits, status, outcome, event, result, buffer, sent>>
threadVars == <<caller, worker, returned>>
sweepVars == <<sweeper, seen, shutdown>>
vars == <<clock, taskVars, threadVars, sweepVars>>

Callers  == {"idle", "inserted", "spawned", "attached", "returned", "refused"}
Workers  == {"unborn", "started", "streaming", "back", "stored", "raised",
             "recorded", "exited"}
Sweepers == {"waiting", "awake", "stopped"}

TypeOK ==
    /\ clock \in 0..MaxTime
    /\ limits \in [Tasks -> Limits \cup {NoLimits}]
    /\ status \in [Tasks -> Statuses \cup {"absent"}]
    /\ outcome \in [Tasks -> Outcomes \cup {NoOutcome}]
    /\ event \in [Tasks -> BOOLEAN]
    /\ result \in [Tasks -> Results \cup {NoResult}]
    /\ buffer \in [Tasks -> {"absent", "empty", "error"}]
    /\ sent \in [Tasks -> Seq(Events)]
    /\ caller \in [Tasks -> Callers]
    /\ worker \in [Tasks -> Workers]
    /\ returned \in [Tasks -> Outcomes \cup {NoOutcome}]
    /\ sweeper \in Sweepers
    /\ seen \in 0..MaxTime
    /\ shutdown \in BOOLEAN

Init ==
    /\ clock = 0
    /\ limits = [t \in Tasks |-> NoLimits]
    /\ status = [t \in Tasks |-> "absent"]
    /\ outcome = [t \in Tasks |-> NoOutcome]
    /\ event = [t \in Tasks |-> FALSE]
    /\ result = [t \in Tasks |-> NoResult]
    /\ buffer = [t \in Tasks |-> "absent"]
    /\ sent = [t \in Tasks |-> <<>>]
    /\ caller = [t \in Tasks |-> "idle"]
    /\ worker = [t \in Tasks |-> "unborn"]
    /\ returned = [t \in Tasks |-> NoOutcome]
    /\ sweeper = "waiting"
    /\ seen = 0
    /\ shutdown = FALSE

Send(t, e) == sent' = [sent EXCEPT ![t] = Append(@, e)]
WorkerGoes(t, from, to) == worker[t] = from /\ worker' = [worker EXCEPT ![t] = to]
CallerGoes(t, from, to) == caller[t] = from /\ caller' = [caller EXCEPT ![t] = to]

-----------------------------------------------------------------------------
(* Slips a change to this code could make; the runs must notice each.        *)

\* cancel_task that does not look at the status.
AlwaysCancellable(t) == status[t] # "absent"

\* run_streaming that takes any broken-off command for a cancelled one.
UnaskedMayReturn(t, o) ==
    /\ o.timeout => limits[t].budget = "capped"
    /\ ~(o.cancelled /\ o.timeout)

\* A worker that takes a task up only if it is still pending.
PendingOnlyBegin(t) ==
    /\ status[t] = "pending"
    /\ WorkerGoes(t, "started", IF Startable(limits[t]) THEN "streaming" ELSE "raised")
    /\ status' = [status EXCEPT ![t] = "running"]
    /\ UNCHANGED <<clock, limits, outcome, event, result, buffer, sent,
                   caller, returned, sweepVars>>

\* A completion notification whose failure reaches the except clause.
RaisingAnnounceVerdict(t) ==
    /\ WorkerGoes(t, "stored", "raised")
    /\ sent' = [sent EXCEPT ![t] = Append(@, VerdictOf(returned[t]))]
    /\ UNCHANGED <<clock, limits, status, outcome, event, result, buffer,
                   caller, returned, sweepVars>>

\* An except clause that keeps the error to itself.
SilentRecordFailure(t) ==
    /\ WorkerGoes(t, "raised", "recorded")
    /\ status' = [status EXCEPT ![t] = "failed"]
    /\ UNCHANGED <<clock, limits, outcome, event, result, buffer, sent, caller, returned, sweepVars>>

\* A sweep that rounds the expiry down.
EagerExpired(t) == result[t] # NoResult /\ result[t].expires <= seen + 1

\* A cleanup thread that one sweep ends.
OneShotSweep ==
    /\ sweeper = "awake"
    /\ sweeper' = "stopped"
    /\ seen' = 0
    /\ UNCHANGED <<clock, taskVars, threadVars, shutdown>>

\* get_task_result that falls back on the task's record, as get_task_output does.
FallbackResultOf(t) ==
    IF result[t] # NoResult /\ result[t].expires > clock
    THEN [status |-> result[t].status, outcome |-> result[t].outcome]
    ELSE IF result[t] = NoResult /\ outcome[t] # NoOutcome
         THEN [status |-> status[t], outcome |-> outcome[t]]
    ELSE [answer |-> "none"]

\* get_task_output without its last resort.
ForgetfulOutputOf(t) ==
    IF buffer[t] = "error" THEN [lines |-> "error"]
    ELSE IF result[t] # NoResult /\ result[t].expires > clock
         THEN [lines |-> result[t].outcome.output]
    ELSE [answer |-> "none"]

-----------------------------------------------------------------------------
(* start_async_task                                                         *)

\* Register the task, with its cancel Event and its output buffer.
Insert(t, l) ==
    /\ CallerGoes(t, "idle", "inserted")
    /\ limits' = [limits EXCEPT ![t] = l]
    /\ status' = [status EXCEPT ![t] = "pending"]
    /\ buffer' = [buffer EXCEPT ![t] = "empty"]
    /\ UNCHANGED <<clock, outcome, event, result, sent, worker, returned, sweepVars>>

\* thread.start(): from here on the worker runs beside its caller.
Spawn(t) ==
    /\ CallerGoes(t, "inserted", "spawned")
    /\ WorkerGoes(t, "unborn", "started")
    /\ UNCHANGED <<clock, taskVars, returned, sweepVars>>

\* thread.start() raises when the process can have no more threads: the call
\* fails, and the entry it made stays.
SpawnFails(t) ==
    /\ CallerGoes(t, "inserted", "refused")
    /\ UNCHANGED <<clock, taskVars, worker, returned, sweepVars>>

\* _tasks[t]["thread"] = thread, a field nothing reads.
Attach(t) ==
    /\ CallerGoes(t, "spawned", "attached")
    /\ UNCHANGED <<clock, taskVars, worker, returned, sweepVars>>

AnnounceCreation(t) ==
    /\ CallerGoes(t, "attached", "returned")
    /\ Send(t, "created")
    /\ UNCHANGED <<clock, limits, status, outcome, event, result, buffer,
                   worker, returned, sweepVars>>

-----------------------------------------------------------------------------
(* _execute_task_in_thread                                                  *)

\* Whatever the status is by now, it becomes "running".  The arguments of
\* run_streaming are evaluated next, and int() may raise on max_seconds or on
\* max_output_bytes.
Begin(t) ==
    /\ WorkerGoes(t, "started", IF Startable(limits[t]) THEN "streaming" ELSE "raised")
    /\ status' = [status EXCEPT ![t] = "running"]
    /\ UNCHANGED <<clock, limits, outcome, event, result, buffer, sent,
                   caller, returned, sweepVars>>

\* enhanced_progress_cb, called back by run_streaming.
Progress(t) ==
    /\ worker[t] = "streaming"
    /\ Len(SelectSeq(sent[t], LAMBDA e : e = "progress")) < MaxProgress
    /\ Send(t, "progress")
    /\ UNCHANGED <<clock, limits, status, outcome, event, result, buffer,
                   threadVars, sweepVars>>

\* What run_streaming may return: it reports cancellation only when it saw the
\* event set, a timeout only when max_seconds is not 0, and an exit status
\* only when it broke off for neither.  An exception inside it leaves all unset.
MayReturn(t, o) ==
    /\ o.cancelled => event[t]
    /\ o.timeout => limits[t].budget = "capped"
    /\ ~(o.cancelled /\ o.timeout)
    /\ o.cancelled \/ o.timeout => o.exit = "unset"

\* A slip the runs must notice: a worker that announces what it is about to store.
AnnouncingReturn(t) ==
    /\ WorkerGoes(t, "streaming", "back")
    /\ \E o \in Outcomes :
         /\ MayReturn(t, o) /\ returned' = [returned EXCEPT ![t] = o]
         /\ Send(t, VerdictOf(o))
    /\ UNCHANGED <<clock, limits, status, outcome, event, result, buffer, caller, sweepVars>>

Return(t) ==
    /\ WorkerGoes(t, "streaming", "back")
    /\ \E o \in Outcomes :
         MayReturn(t, o) /\ returned' = [returned EXCEPT ![t] = o]
    /\ UNCHANGED <<clock, taskVars, caller, sweepVars>>

\* Record the outcome and publish the result in one region.  int() may raise on
\* task_result_ttl, after the record is written and before the result is.
Store(t) ==
    LET o == returned[t]
        ttl == limits[t].ttl
    IN  /\ WorkerGoes(t, "back", IF ttl = BadLimit THEN "raised" ELSE "stored")
        /\ status' = [status EXCEPT ![t] = VerdictOf(o)]
        /\ outcome' = [outcome EXCEPT ![t] = o]
        /\ result' = IF ttl = BadLimit THEN result
                     ELSE [result EXCEPT ![t] = [status |-> VerdictOf(o), outcome |-> o,
                                                 expires |-> clock + ttl]]
        /\ UNCHANGED <<clock, limits, event, buffer, sent, caller, returned, sweepVars>>

AnnounceVerdict(t) ==
    /\ WorkerGoes(t, "stored", "exited")
    /\ Send(t, VerdictOf(returned[t]))
    /\ UNCHANGED <<clock, limits, status, outcome, event, result, buffer,
                   caller, returned, sweepVars>>

\* The except clause: the task fails, its error becomes a line of output, and
\* no result is stored.
RecordFailure(t) ==
    /\ WorkerGoes(t, "raised", "recorded")
    /\ status' = [status EXCEPT ![t] = "failed"]
    /\ buffer' = [buffer EXCEPT ![t] = IF @ = "absent" THEN @ ELSE "error"]
    /\ UNCHANGED <<clock, limits, outcome, event, result, sent, caller, returned, sweepVars>>

\* Building the payload evaluates int(max_seconds) again: where that is what
\* raised, the thread dies here and nothing is sent.  max_output_bytes is not
\* read again.
AnnounceFailure(t) ==
    /\ WorkerGoes(t, "recorded", "exited")
    /\ IF limits[t].budget = "bad" THEN UNCHANGED sent ELSE Send(t, "failed")
    /\ UNCHANGED <<clock, limits, status, outcome, event, result, buffer,
                   caller, returned, sweepVars>>

-----------------------------------------------------------------------------
(* cancel_task, when it does not return False.  The notification is sent     *)
(* with the RLock held; int(max_seconds) may raise while its payload is made *)

Cancellable(t) == status[t] \in {"pending", "running"}

Cancel(t) ==
    /\ Cancellable(t)
    /\ event' = [event EXCEPT ![t] = TRUE]
    /\ status' = [status EXCEPT ![t] = "cancelled"]
    /\ IF limits[t].budget = "bad" THEN UNCHANGED sent ELSE Send(t, "cancelled")
    /\ UNCHANGED <<clock, limits, outcome, result, buffer, threadVars, sweepVars>>

-----------------------------------------------------------------------------
(* _cleanup_worker and shutdown                                             *)

\* wait(60) timed out; cleanup_expired_tasks reads the time before the lock.
Wake ==
    /\ sweeper = "waiting" /\ ~shutdown
    /\ sweeper' = "awake"
    /\ seen' = clock
    /\ UNCHANGED <<clock, taskVars, threadVars, shutdown>>

Expired(t) == result[t] # NoResult /\ result[t].expires <= seen

Sweep ==
    /\ sweeper = "awake"
    /\ sweeper' = "waiting"
    /\ seen' = 0
    /\ result' = [t \in Tasks |-> IF Expired(t) THEN NoResult ELSE result[t]]
    /\ buffer' = [t \in Tasks |-> IF Expired(t) THEN "absent" ELSE buffer[t]]
    /\ UNCHANGED <<clock, limits, status, outcome, event, sent, threadVars, shutdown>>

Shutdown ==
    /\ ~shutdown
    /\ shutdown' = TRUE
    /\ UNCHANGED <<clock, taskVars, threadVars, sweeper, seen>>

StopSweeping ==
    /\ sweeper = "waiting" /\ shutdown
    /\ sweeper' = "stopped"
    /\ UNCHANGED <<clock, taskVars, threadVars, seen, shutdown>>

Tick ==
    /\ clock < MaxTime
    /\ clock' = clock + 1
    /\ UNCHANGED <<taskVars, threadVars, sweepVars>>

-----------------------------------------------------------------------------
StartStep(t) == \/ \E l \in Limits : Insert(t, l)
                \/ Spawn(t) \/ SpawnFails(t) \/ Attach(t) \/ AnnounceCreation(t)

WorkerStep(t) == \/ Begin(t) \/ Progress(t) \/ Return(t) \/ Store(t) \/ AnnounceVerdict(t)
                 \/ RecordFailure(t) \/ AnnounceFailure(t)

SweeperStep == Wake \/ Sweep \/ StopSweeping

Next == \/ \E t \in Tasks : StartStep(t) \/ WorkerStep(t) \/ Cancel(t)
        \/ SweeperStep \/ Shutdown \/ Tick

Spec == Init /\ [][Next]_vars

\* run_streaming leaves its loop once max_seconds have passed or the event is
\* set; a command with max_seconds 0 that is never cancelled may run for ever.
ReturnsInTime(t) == (limits[t].budget = "capped" \/ event[t]) /\ Return(t)

\* A thread that can run runs.
Fairness ==
    /\ \A t \in Tasks :
         /\ WF_vars(Spawn(t) \/ SpawnFails(t)) /\ WF_vars(Attach(t) \/ AnnounceCreation(t))
         /\ WF_vars(Begin(t)) /\ WF_vars(ReturnsInTime(t)) /\ WF_vars(Store(t))
         /\ WF_vars(AnnounceVerdict(t)) /\ WF_vars(RecordFailure(t) \/ AnnounceFailure(t))
    /\ WF_vars(SweeperStep)

FairSpec == Spec /\ Fairness

-----------------------------------------------------------------------------
(* What the tools answer: each reads under the lock, in one step.            *)

NoAnswer == [answer |-> "none"]

\* get_task_result
ResultOf(t) ==
    IF result[t] # NoResult /\ result[t].expires > clock
    THEN [status |-> result[t].status, outcome |-> result[t].outcome]
    ELSE NoAnswer

\* get_task_status: the entry is looked up in _tasks first.  The progress is
\* computed with int(max_seconds) as divisor, which raises for 0 and for what is
\* no number: of such a task the tool answers an error as long as it lives.
StatusOf(t) ==
    IF status[t] # "absent"
    THEN IF limits[t].budget = "capped" THEN status[t] ELSE "error"
    ELSE IF result[t] # NoResult THEN result[t].status ELSE "unknown"

\* get_task_output: the buffer, then the live result, then the task's record.
OutputOf(t) ==
    IF buffer[t] = "error" THEN [lines |-> "error"]
    ELSE IF ResultOf(t) # NoAnswer THEN [lines |-> result[t].outcome.output]
    ELSE IF outcome[t] # NoOutcome /\ outcome[t].output # EmptyOutput
         THEN [lines |-> outcome[t].output]
    ELSE NoAnswer
-----------------------------------------------------------------------------
(* Safety                                                                    *)

Agrees(t) == result[t] # NoResult => /\ result[t].status = status[t]
                                     /\ result[t].outcome = outcome[t]
                                     /\ buffer[t] = "empty"

\* A stored result and the task's own record tell the same story, and the
\* output buffer, which get_task_output asks first, lives as long and holds no
\* error: store, cancel and sweep each change these tables, in any order.
ResultAgrees == \A t \in Tasks : Agrees(t)

Verdict(t, i) == i \in DOMAIN sent[t] /\ sent[t][i] \in Verdicts

\* The worker's two notification sites and its except clause together announce
\* a verdict at most once, the one the record then has and get_task_status answers
\* if it can; a worker that has ended has announced it, unless max_seconds is
\* unreadable.
VerdictAnnouncedOnce ==
    \A t \in Tasks :
        /\ \A i, j \in DOMAIN sent[t] : Verdict(t, i) /\ Verdict(t, j) => i = j
        /\ \A i \in DOMAIN sent[t] : Verdict(t, i) =>
             status[t] = sent[t][i] /\ StatusOf(t) \in {sent[t][i], "error"}
        /\ worker[t] = "exited" /\ limits[t].budget # "bad" =>
             \E i \in DOMAIN sent[t] : Verdict(t, i)

\* No task ends without a trace a client can read: its worker recorded an
\* outcome, or left the error in the output buffer.
EndedTaskLeavesTrace ==
    \A t \in Tasks : worker[t] = "exited" => outcome[t] # NoOutcome \/ buffer[t] = "error"

-----------------------------------------------------------------------------
(* The strengthening of ResultAgrees that each step preserves: what the      *)
(* tables hold of a task is settled by how far its two threads have come.    *)

Registered(t) ==
    /\ caller[t] = "idle" <=> status[t] = "absent"
    /\ caller[t] # "idle" => limits[t] \in Limits
    /\ caller[t] \in {"idle", "inserted", "refused"} <=> worker[t] = "unborn"

Undecided(t) == worker[t] \in {"unborn", "started", "streaming", "back"}

\* Before the verdict nothing is stored; a worker that raises stores no result.
NothingStoredEarly(t) ==
    /\ Undecided(t) => /\ outcome[t] = NoOutcome /\ result[t] = NoResult
                       /\ status[t] \in {"absent", "pending", "running", "cancelled"}
                       /\ caller[t] # "idle" => buffer[t] = "empty"
    /\ worker[t] \in {"raised", "recorded"} => result[t] = NoResult

\* What the worker holds in its locals, and what it has written of them.
WorkerKnows(t) ==
    /\ worker[t] \in {"back", "stored"} => returned[t] \in Outcomes /\ MayReturn(t, returned[t])
    /\ worker[t] = "stored" => /\ status[t] = VerdictOf(returned[t])
                               /\ outcome[t] = returned[t]
    /\ worker[t] = "recorded" => status[t] = "failed" /\ buffer[t] = "error"
    /\ worker[t] = "raised" => buffer[t] = "empty"
    /\ worker[t] = "exited" =>
         /\ status[t] \in Verdicts
         /\ \/ outcome[t] \in Outcomes /\ status[t] = VerdictOf(outcome[t])
            \/ status[t] = "failed" /\ result[t] = NoResult /\ buffer[t] = "error"

TaskInv(t) == Agrees(t) /\ Registered(t) /\ NothingStoredEarly(t) /\ WorkerKnows(t)

IInv == /\ TypeOK
        /\ seen <= clock
        /\ \A t \in Tasks : TaskInv(t)

-----------------------------------------------------------------------------
(* What a step may never do                                                  *)

\* After the worker has recorded its verdict no cancel, sweep or late step of
\* the caller changes what get_task_status answers.
VerdictFinal ==
    [][\A t \in Tasks : worker[t] \in {"stored", "recorded", "exited"} =>
                           StatusOf(t)' = StatusOf(t)]_vars

\* get_task_result answers a client the same until the answer is gone, and
\* never again once it is gone.
AnswerStable ==
    [][\A t \in Tasks :
         /\ ResultOf(t) # NoAnswer => ResultOf(t)' \in {ResultOf(t), NoAnswer}
         /\ worker[t] \in {"stored", "exited"} /\ ResultOf(t) = NoAnswer
              => ResultOf(t)' = NoAnswer]_vars

\* Only the passing of time takes an answer away: the sweeper, whose clock
\* reading is older than its lock, never deletes a result still to be had.
OnlyTimeWithdraws ==
    [][\A t \in Tasks : ResultOf(t) # NoAnswer /\ clock' = clock =>
                           ResultOf(t)' # NoAnswer]_vars

\* Once its worker has ended, what get_task_output shows of a task stays as it
\* is: the sweep removes the buffer and the result it is read from first, and
\* the task's record says the same.
OutputStable ==
    [][\A t \in Tasks :
         worker[t] = "exited" /\ OutputOf(t) \notin {NoAnswer, [lines |-> EmptyOutput]}
            => OutputOf(t)' = OutputOf(t)]_vars

-----------------------------------------------------------------------------
(* Liveness                                                                  *)

\* A worker that has started ends, when max_seconds limits it.
StartedTaskEnds ==
    \A t \in Tasks : worker[t] = "started" /\ limits[t].budget # "unbounded"
                        ~> worker[t] = "exited"

\* An expired result is removed, as long as nobody shuts the manager down.
ExpiredResultSwept ==
    \A t \in Tasks : result[t] # NoResult /\ result[t].expires <= clock
                        ~> result[t] = NoResult \/ shutdown

-----------------------------------------------------------------------------
(* The manager keeps the promise of JobPromise.                              *)

phaseOf(t) ==
    CASE status[t] = "absent"                            -> "unknown"
      [] caller[t] = "refused"                           -> "abandoned"
      [] worker[t] \in {"stored", "recorded", "exited"}  -> "decided"
      [] OTHER                                           -> "accepted"

Answers == [status : Verdicts, outcome : Outcomes]

Promise == INSTANCE JobPromise WITH
    Jobs <- Tasks,
    Answers <- Answers,
    NoAnswer <- NoAnswer,
    CancelledAnswers <- {a \in Answers : a.outcome.cancelled},
    phase <- [t \in Tasks |-> phaseOf(t)],
    asked <- event,
    answer <- [t \in Tasks |-> ResultOf(t)]

\* Every step of the manager is a step of the promise or changes nothing a
\* client is promised.
KeepsPromise == Promise!PromiseSpec

\* And a job asked to stop is settled.
SettlesWhenAsked == Promise!PromiseFairSpec
=============================================================================
