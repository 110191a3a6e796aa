------------------------- MODULE NotificationBridge -------------------------
(***************************************************************************)
(* How the events of AsyncTaskManager reach the client: the handler that   *)
(* _build_notification_handler of src/mcp_ssh/mcp_server.py makes for a    *)
(* task puts each event on the event loop, which sends it as one or two    *)
(* messages over the session.  An event raised on the loop's own thread is *)
(* one hop from being sent (create_task), one of a worker's thread two     *)
(* (call_soon_threadsafe, then create_task).                               *)
(*                                                                         *)
(* The manager's steps are those of AsyncTasks that can raise an event;    *)
(* sweeps, shutdown and the clock raise none and are left out.  Beside     *)
(* them, the tools with which a client asks for what it was told of.       *)
(***************************************************************************)
EXTENDS AsyncTasks

CONSTANT Refused    \* tasks whose id _validate_task_id does not take

ASSUME RefusedAssumption == Refused \subseteq Tasks

VARIABLES
    ready,    \* the loop's queue of handles: [task, index, hop]
    outbox,   \* messages handed to the session and not yet taken
    client    \* what the client has received

bridgeVars == <<ready, outbox, client>>
allVars == <<vars, bridgeVars>>

\* A message tells of the index-th event of a task: in the first place, or, of
\* a progress event, once more as a debug message.  The sender of a message
\* that wakes it goes on when the message is taken.
Handles  == [task : Tasks, index : Nat, hop : {"schedule", "invoke", "resume"}]
Messages == [task : Tasks, index : Nat, form : {"first", "again"}, wakes : BOOLEAN]

BridgeInit == Init /\ ready = <<>> /\ outbox = <<>> /\ client = <<>>

Event(m) == sent[m.task][m.index]
Message(h, form, wakes) ==
    [task |-> h.task, index |-> h.index, form |-> form, wakes |-> wakes]

\* ssh_run_async has no await between its first line and its last: while it is
\* under way nothing else runs on the loop.
LoopFree == \A t \in Tasks : caller[t] \notin {"inserted", "spawned", "attached"}

-----------------------------------------------------------------------------
(* Slips a change to this code could make; the runs must notice each.        *)

\* Every event through call_soon_threadsafe.
UniformHop(onLoop) == "schedule"

\* A worker's events too through create_task alone when they end the task.
HastyWorkerHop(t) ==
    IF sent'[t][Len(sent'[t])] \in Verdicts THEN "invoke" ELSE "schedule"

\* An _emit that leaves after report_progress.
EndingWrite ==
    /\ outbox # <<>>
    /\ client' = Append(client, Head(outbox))
    /\ outbox' = Tail(outbox)
    /\ UNCHANGED <<vars, ready>>

-----------------------------------------------------------------------------
(* _handler: on whose thread the event was raised decides the way it takes.  *)

Hop(onLoop) == IF onLoop THEN "invoke" ELSE "schedule"
WorkerHop(t) == Hop(FALSE)

\* The step just taken raised an event of task t: its handle is queued.
Queue(t, hop) ==
    ready' = IF sent'[t] = sent[t] THEN ready
             ELSE Append(ready, [task |-> t, index |-> Len(sent'[t]), hop |-> hop])

\* ssh_run_async runs on the loop.
CallerStep(t) ==
    /\ caller[t] = "idle" => LoopFree
    /\ StartStep(t)
    /\ Queue(t, Hop(TRUE))
    /\ UNCHANGED <<outbox, client>>

TaskStep(t) ==
    /\ WorkerStep(t)
    /\ Queue(t, WorkerHop(t))
    /\ UNCHANGED <<outbox, client>>

\* ssh_cancel_async_task is a plain function; where the framework runs it, on
\* the loop or on a thread, is not up to this code.
CancelStep(t) ==
    /\ t \notin Refused
    /\ Cancel(t)
    /\ \E onLoop \in BOOLEAN : (onLoop => LoopFree) /\ Queue(t, Hop(onLoop))
    /\ UNCHANGED <<outbox, client>>

-----------------------------------------------------------------------------
(* The loop and the session                                                  *)

Next1 == Head(ready)
Runs(hop) == LoopFree /\ ready # <<>> /\ Next1.hop = hop

\* _schedule: a task is created for the event, behind what is queued.
Schedule ==
    /\ Runs("schedule")
    /\ ready' = Append(Tail(ready), [Next1 EXCEPT !.hop = "invoke"])
    /\ UNCHANGED <<vars, outbox, client>>

\* A progress event is reported as such only if its percentage can be computed.
Twofold(h) == Event(h) = "progress" /\ limits[h.task].budget = "capped"

\* _emit, up to where it waits for the session to take a message; it does not
\* wait if the session was waiting for one.
Invoke ==
    /\ Runs("invoke")
    /\ ready' = Tail(ready)
    /\ \/ outbox' = Append(outbox, Message(Next1, "first", Twofold(Next1)))
       \/ /\ Twofold(Next1) /\ outbox = <<>>
          /\ outbox' = <<Message(Next1, "first", FALSE), Message(Next1, "again", FALSE)>>
    /\ UNCHANGED <<vars, client>>

\* _emit after report_progress: the debug message.
Resume ==
    /\ Runs("resume")
    /\ ready' = Tail(ready)
    /\ outbox' = Append(outbox, Message(Next1, "again", FALSE))
    /\ UNCHANGED <<vars, client>>

\* The session takes a message and writes it out; its sender may go on.
Write ==
    LET m == Head(outbox)
    IN  /\ outbox # <<>>
        /\ client' = Append(client, m)
        /\ outbox' = Tail(outbox)
        /\ ready' = IF m.wakes
                    THEN Append(ready, [task |-> m.task, index |-> m.index, hop |-> "resume"])
                    ELSE ready
        /\ UNCHANGED vars

LoopStep == Schedule \/ Invoke \/ Resume

BridgeNext == \/ \E t \in Tasks : CallerStep(t) \/ TaskStep(t) \/ CancelStep(t)
              \/ LoopStep \/ Write

BridgeSpec == BridgeInit /\ [][BridgeNext]_allVars

\* The loop runs what is queued, the session is written out, and a call of
\* ssh_run_async comes to its end.
BridgeFairSpec ==
    /\ BridgeSpec
    /\ WF_allVars(LoopStep) /\ WF_allVars(Write)
    /\ \A t \in Tasks : WF_allVars(caller[t] # "idle" /\ CallerStep(t))

-----------------------------------------------------------------------------
(* ssh_get_task_status, ssh_get_task_result and ssh_get_task_output, each one *)
(* step: an id the pattern refuses and an empty answer become an error text.  *)

ToolError == [error |-> "Error: ..."]
ToolAnswer(t, answer) == IF t \in Refused \/ answer = NoAnswer THEN ToolError ELSE answer

GetTaskStatus(t) ==
    ToolAnswer(t, IF StatusOf(t) \in {"unknown", "error"} THEN NoAnswer
                  ELSE [state |-> StatusOf(t)])
GetTaskResult(t) == ToolAnswer(t, ResultOf(t))
GetTaskOutput(t) == ToolAnswer(t, OutputOf(t))

-----------------------------------------------------------------------------
(* Properties                                                                *)

\* The first a client hears of a task is that it was created, although its
\* worker runs, and may even have ended, before the caller announces it: the
\* worker's events take one hop more, and no hop is taken meanwhile.
CreatedSeenFirst ==
    \A k \in DOMAIN client : caller[client[k].task] # "refused" =>
        \E j \in 1..k : client[j].task = client[k].task /\ Event(client[j]) = "created"

\* Events are first told in the order they were raised in, except that a creation
\* or a cancellation, raised on the loop, may overtake what threads raised: no
\* event of a worker overtakes any.  And once a client was told how a task
\* ended, it is told nothing new of it: a second telling of progress at most.
SeenInOrder ==
    \A j, k \in DOMAIN client :
        LET m == client[j]
            n == client[k]
        IN  j < k /\ m.task = n.task /\ n.form = "first" =>
              /\ n.index < m.index => Event(m) \in {"created", "cancelled"}
              /\ Event(m) \notin Verdicts

\* What a client was told it can read: the verdict from the status and the
\* result, until that expires, and the error of a worker that stored no result
\* from the output.  Events and tables go to the client by different ways.
CanRead(t, verdict) ==
    /\ GetTaskStatus(t) \in {[state |-> verdict]} \cup
                            (IF limits[t].budget = "capped" THEN {} ELSE {ToolError})
    /\ IF result[t] = NoResult THEN GetTaskOutput(t) = [lines |-> "error"]
       ELSE clock < result[t].expires => GetTaskResult(t).status = verdict
ToldCanBeRead ==
    \A k \in DOMAIN client :
        LET m == client[k]
        IN  Event(m) \in Verdicts /\ m.task \notin Refused => CanRead(m.task, Event(m))

\* Every event is told in the end, and progress in both its forms: time and
\* again the client knows all there is to know of a task (its events are
\* finitely many, and none is withdrawn).
Received(t, i, form) ==
    \E k \in DOMAIN client :
        client[k].task = t /\ client[k].index = i /\ client[k].form = form
AllTold(t) ==
    \A i \in DOMAIN sent[t] :
        /\ Received(t, i, "first")
        /\ sent[t][i] = "progress" /\ limits[t].budget = "capped" => Received(t, i, "again")
EveryEventTold == \A t \in Tasks : []<>AllTold(t)
=============================================================================
