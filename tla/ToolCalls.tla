------------------------------ MODULE ToolCalls -----------------------------
(***************************************************************************)
(* The tools of src/mcp_ssh/mcp_server.py that touch shared state: ssh_run,*)
(* ssh_run_on_tag, ssh_run_async, ssh_cancel and ssh_reload_config, with   *)
(* the registry TaskManager keeps for the synchronous ones                 *)
(* (src/mcp_ssh/tools/utilities.py) and the configuration they all read    *)
(* (src/mcp_ssh/config.py).  A handler reads the configuration piece by    *)
(* piece, so each read is a step.  Whether the steps of two handlers can   *)
(* mix is the framework's choice: on one event loop a handler runs to its  *)
(* end, on threads they interleave.  Files are versions, and what a        *)
(* version says of a host is given by the constants.                       *)
(***************************************************************************)
EXTENDS Integers, Sequences, FiniteSets

CONSTANTS Calls,        \* tool calls the clients make
          Kind,         \* each call's tool: "run", "tag" or "async"
          Aliases,      \* hosts a call can name
          Dotted,       \* those with a dot in the alias, and so in their task ids
          Ips,          \* addresses a name can resolve or connect to
          Versions,     \* what a configuration file can hold
          Empty,        \* a file that could not be read: {}
          First,        \* what the files hold when the server starts
          Hosts(_),     \* servers.yml: the aliases it has
          Tagged(_),    \* servers.yml: those with the tag, in file order
          Complete(_),  \* credentials.yml: the aliases a client can be built for
          Permits(_, _),\* servers.yml, policy.yml: aliases the command may run on
          Networks(_),  \* policy.yml: the addresses it allows
          Readable(_),  \* policy.yml: the aliases whose limits are numbers
          Threaded,     \* may the steps of two handlers interleave
          MaxReloads    \* bound: calls of ssh_reload_config

ASSUME ToolAssumption ==
    /\ Kind \in [Calls -> {"run", "tag", "async"}]
    /\ Dotted \subseteq Aliases
    /\ Empty \in Versions /\ First \in Versions
    /\ \A v \in Versions :
         /\ Hosts(v) \subseteq Aliases /\ Tagged(v) \in Seq(Hosts(v))
         /\ Complete(v) \subseteq Aliases /\ Networks(v) \subseteq Ips
         /\ Readable(v) \subseteq Aliases
         /\ \A w \in Versions : Permits(v, w) \subseteq Aliases
    /\ Threaded \in BOOLEAN /\ MaxReloads \in Nat

Files == {"servers", "credentials", "policy"}
Tasks == Calls \X Aliases      \* task ids: one for each host of a call
NoIp == "none"                 \* peer_ip when there is none to see

VARIABLES
    disk,      \* the three files
    data,      \* config._data
    loading,   \* ssh_reload_config: the files read so far
    reloads,   \* history: reloads finished
    pc,        \* where each call is in its handler
    todo,      \* the hosts it has still to do, the current one first
    tags,      \* servers.yml as get_host_tags saw it
    pol,       \* its Policy object
    peer,      \* peer_ip
    answer,    \* what it has to tell of each host
    failed,    \* it ended in "... error: ..."
    registry,  \* TASKS._tasks
    signalled, \* tasks whose event is set
    asked,     \* ssh_cancel requests not yet handled
    jobs,      \* where each task started by ssh_run_async is
    returned,  \* history: tasks whose run_streaming has returned
    audits,    \* history: log_audit records of each task
    gens       \* history: the configurations each call has read

config == <<disk, data, loading, reloads>>
frame == <<todo, tags, pol, peer>>
reply == <<answer, failed>>
cancels == <<registry, signalled, asked>>
trail == <<jobs, returned, audits, gens>>
vars == <<config, pc, frame, reply, cancels, trail>>

Places == {"idle", "host", "tags", "policy", "network", "create", "clientHost",
           "clientCreds", "event", "connect", "running", "cleanup", "audit",
           "start", "done"}
Whats == {"policy", "network", "peer", "result", "error", "task"}

TypeOK ==
    /\ disk \in [Files -> Versions] /\ data \in [Files -> Versions]
    /\ loading \in Seq(Versions) /\ reloads \in 0..MaxReloads
    /\ pc \in [Calls -> Places]
    /\ todo \in [Calls -> Seq(Aliases)]
    /\ tags \in [Calls -> Versions] /\ pol \in [Calls -> Versions]
    /\ peer \in [Calls -> Ips \cup {NoIp}]
    /\ answer \in [Calls -> Seq(Aliases \X Whats)]
    /\ failed \in [Calls -> BOOLEAN]
    /\ registry \subseteq Tasks /\ signalled \subseteq Tasks /\ asked \subseteq Tasks
    /\ jobs \in [Calls -> {"none", "started", "connected", "ended"}]
    /\ returned \subseteq Tasks /\ audits \in [Tasks -> Nat]
    /\ gens \in [Calls -> SUBSET (0..MaxReloads)]

Init ==
    /\ disk = [f \in Files |-> First] /\ data = disk
    /\ loading = <<>> /\ reloads = 0
    /\ pc = [c \in Calls |-> "idle"]
    /\ todo = [c \in Calls |-> <<>>]
    /\ tags = [c \in Calls |-> Empty] /\ pol = [c \in Calls |-> Empty]
    /\ peer = [c \in Calls |-> NoIp]
    /\ answer = [c \in Calls |-> <<>>] /\ failed = [c \in Calls |-> FALSE]
    /\ registry = {} /\ signalled = {} /\ asked = {}
    /\ jobs = [c \in Calls |-> "none"]
    /\ returned = {} /\ audits = [t \in Tasks |-> 0]
    /\ gens = [c \in Calls |-> {}]

At(c, place) == pc[c] = place
GoTo(c, place) == pc' = [pc EXCEPT ![c] = place]
Alias(c) == Head(todo[c])
Task(c) == <<c, Alias(c)>>
Noted(c) == [gens EXCEPT ![c] = @ \cup {reloads}]
Reads(c) == gens' = Noted(c)

\* On one loop a handler that has begun runs to its end, and so does a reload.
MayEnter == \/ Threaded
            \/ loading = <<>> /\ \A c \in Calls : pc[c] \in {"idle", "done"}

\* The handler has dealt with its current host: the next one, or the end.
Tell(c, what) ==
    /\ answer' = [answer EXCEPT ![c] = Append(@, <<Alias(c), what>>)]
    /\ todo' = [todo EXCEPT ![c] = Tail(@)]
    /\ GoTo(c, IF Tail(todo[c]) = <<>> THEN "done" ELSE "host")
    /\ UNCHANGED <<tags, pol, peer, failed>>

\* An exception that reaches the handler's own except clause.
Fail(c) ==
    /\ GoTo(c, "done")
    /\ failed' = [failed EXCEPT ![c] = TRUE]
    /\ UNCHANGED <<frame, answer>>

-----------------------------------------------------------------------------
(* Slips a change to this code could make; the runs must notice each.        *)

\* A failed host ends the loop over the tag's hosts.
BreakingRaise(c) ==
    IF Kind[c] = "tag"
    THEN /\ registry' = registry \ {Task(c)}
         /\ GoTo(c, "done")
         /\ UNCHANGED <<frame, reply>>
    ELSE registry' = registry /\ Fail(c)

\* The task of a failed host is forgotten in the registry.
LeakingRaise(c) ==
    /\ registry' = registry
    /\ IF Kind[c] = "tag" THEN Tell(c, "error") ELSE Fail(c)

\* No audit record for a peer that is refused.
SilentAudit(c) ==
    LET blocked == peer[c] # NoIp /\ peer[c] \notin Networks(pol[c])
    IN  /\ At(c, "audit")
        /\ Tell(c, IF blocked THEN "peer" ELSE "result")
        /\ audits' = IF blocked THEN audits ELSE [audits EXCEPT ![Task(c)] = @ + 1]
        /\ UNCHANGED <<config, cancels, jobs, returned, gens>>

\* A reload moved off the event loop.
DetachedStartReload ==
    /\ loading = <<>> /\ reloads < MaxReloads
    /\ loading' = <<disk["servers"]>>
    /\ UNCHANGED <<disk, data, reloads, pc, frame, reply, cancels, trail>>

\* A cancel that takes the task out of the registry and sets no event.
DroppingHandleCancel(t) ==
    /\ MayEnter
    /\ t \in asked
    /\ asked' = asked \ {t}
    /\ registry' = registry \ {t}
    /\ UNCHANGED <<config, pc, frame, reply, signalled, trail>>

-----------------------------------------------------------------------------
(* ssh_run, ssh_run_on_tag and ssh_run_async                                 *)

\* An exception of int() or _client_for: ssh_run_on_tag has a try for each host,
\* which drops the task; the others have only the one of the whole handler.
Raise(c) ==
    IF Kind[c] = "tag"
    THEN registry' = registry \ {Task(c)} /\ Tell(c, "error")
    ELSE registry' = registry /\ Fail(c)

\* The inputs are validated; the tag's hosts are looked up.
Begin(c) ==
    /\ At(c, "idle") /\ MayEnter
    /\ \E hosts \in IF Kind[c] = "tag" THEN {Tagged(data["servers"])}
                                       ELSE {<<a>> : a \in Aliases} :
         /\ todo' = [todo EXCEPT ![c] = hosts]
         /\ GoTo(c, IF hosts = <<>> THEN "done" ELSE "host")
    /\ Reads(c)
    /\ UNCHANGED <<config, tags, pol, peer, reply, cancels, jobs, returned, audits>>

\* config.get_host, which raises for an alias it does not have.
GetHost(c) ==
    /\ At(c, "host")
    /\ IF Alias(c) \in Hosts(data["servers"])
       THEN GoTo(c, "tags") /\ UNCHANGED <<frame, reply>>
       ELSE Fail(c)
    /\ Reads(c)
    /\ UNCHANGED <<config, cancels, jobs, returned, audits>>

\* config.get_host_tags.
GetTags(c) ==
    /\ At(c, "tags") /\ GoTo(c, "policy")
    /\ tags' = [tags EXCEPT ![c] = data["servers"]]
    /\ Reads(c)
    /\ UNCHANGED <<config, todo, pol, peer, reply, cancels, jobs, returned, audits>>

\* Policy(config.get_policy()), is_allowed and log_decision.
Decide(c) ==
    /\ At(c, "policy")
    /\ IF Alias(c) \in Permits(tags[c], data["policy"])
       THEN /\ GoTo(c, "network")
            /\ pol' = [pol EXCEPT ![c] = data["policy"]]
            /\ UNCHANGED <<todo, tags, peer, reply>>
       ELSE Tell(c, "policy")
    /\ Reads(c)
    /\ UNCHANGED <<config, cancels, jobs, returned, audits>>

\* _precheck_network: resolve_ips gives some addresses, or none.
Precheck(c) ==
    /\ At(c, "network")
    /\ \E ips \in SUBSET Ips :
         IF ips \cap Networks(pol[c]) # {}
         THEN /\ GoTo(c, IF Kind[c] = "async" THEN "clientHost" ELSE "create")
              /\ UNCHANGED <<frame, reply>>
         ELSE Tell(c, "network")
    /\ UNCHANGED <<config, cancels, trail>>

\* limits_for, its numbers converted, and TASKS.create.
Create(c) ==
    /\ At(c, "create")
    /\ IF Alias(c) \in Readable(pol[c])
       THEN /\ GoTo(c, "clientHost")
            /\ registry' = registry \cup {Task(c)}
            /\ UNCHANGED <<frame, reply>>
       ELSE Raise(c)
    /\ UNCHANGED <<config, signalled, asked, trail>>

\* _client_for: config.get_host once more.
ClientHost(c) ==
    /\ At(c, "clientHost")
    /\ IF Alias(c) \in Hosts(data["servers"])
       THEN /\ GoTo(c, "clientCreds")
            /\ UNCHANGED <<registry, frame, reply>>
       ELSE Raise(c)
    /\ Reads(c)
    /\ UNCHANGED <<config, signalled, asked, jobs, returned, audits>>

\* _client_for: config.get_credentials and config.get_policy (for the path of
\* known_hosts), and the checks on what they give.
ClientCreds(c) ==
    /\ At(c, "clientCreds")
    /\ IF Alias(c) \in Complete(data["credentials"])
       THEN /\ GoTo(c, IF Kind[c] = "async" THEN "start" ELSE "event")
            /\ UNCHANGED <<registry, frame, reply>>
       ELSE Raise(c)
    /\ Reads(c)
    /\ UNCHANGED <<config, signalled, asked, jobs, returned, audits>>

\* TASKS.get_event, and run_streaming called.
GetEvent(c) ==
    /\ At(c, "event") /\ GoTo(c, "connect")
    /\ UNCHANGED <<config, frame, reply, cancels, trail>>

\* run_streaming connects, to some address or one getpeername does not give,
\* and runs the command.
Connect(c) ==
    /\ At(c, "connect") /\ GoTo(c, "running")
    /\ \E ip \in Ips \cup {NoIp} : peer' = [peer EXCEPT ![c] = ip]
    /\ UNCHANGED <<config, todo, tags, pol, reply, cancels, trail>>

\* run_streaming returns without having connected: no peer_ip.
ConnectFails(c) ==
    /\ At(c, "connect") /\ GoTo(c, "cleanup")
    /\ peer' = [peer EXCEPT ![c] = NoIp]
    /\ returned' = returned \cup {Task(c)}
    /\ UNCHANGED <<config, todo, tags, pol, reply, cancels, jobs, audits, gens>>

\* run_streaming returns: the command ended, hit a limit or was cancelled.
Return(c) ==
    /\ At(c, "running") /\ GoTo(c, "cleanup")
    /\ returned' = returned \cup {Task(c)}
    /\ UNCHANGED <<config, frame, reply, cancels, jobs, audits, gens>>

\* TASKS.cleanup.
Cleanup(c) ==
    /\ At(c, "cleanup") /\ GoTo(c, "audit")
    /\ registry' = registry \ {Task(c)}
    /\ UNCHANGED <<config, frame, reply, signalled, asked, trail>>

\* The check of the peer against the Policy that decided, and log_audit.
Audit(c) ==
    /\ At(c, "audit")
    /\ audits' = [audits EXCEPT ![Task(c)] = @ + 1]
    /\ Tell(c, IF peer[c] # NoIp /\ peer[c] \notin Networks(pol[c])
               THEN "peer" ELSE "result")
    /\ UNCHANGED <<config, cancels, jobs, returned, gens>>

\* start_async_task: the command goes on in a thread of its own.  The answer
\* converts two of the limits, and is an error when they are not numbers.
Start(c) ==
    /\ At(c, "start")
    /\ jobs' = [jobs EXCEPT ![c] = "started"]
    /\ IF Alias(c) \in Readable(pol[c])
       THEN /\ GoTo(c, "done")
            /\ answer' = [answer EXCEPT ![c] = <<<<Alias(c), "task">>>>]
            /\ UNCHANGED <<frame, failed>>
       ELSE Fail(c)
    /\ UNCHANGED <<config, cancels, returned, audits, gens>>

\* The worker thread of an asynchronous task (AsyncTasks has its steps).
Work(c) ==
    /\ \/ /\ jobs[c] = "started"
          /\ jobs' = [jobs EXCEPT ![c] = "connected"]
          /\ returned' = returned
       \/ /\ jobs[c] \in {"started", "connected"}
          /\ jobs' = [jobs EXCEPT ![c] = "ended"]
          /\ returned' = returned \cup {Task(c)}
    /\ UNCHANGED <<config, pc, frame, reply, cancels, audits, gens>>

HandlerStep(c) ==
    \/ Begin(c) \/ GetHost(c) \/ GetTags(c) \/ Decide(c) \/ Precheck(c)
    \/ Create(c) \/ ClientHost(c) \/ ClientCreds(c) \/ GetEvent(c)
    \/ Connect(c) \/ ConnectFails(c) \/ Cleanup(c) \/ Audit(c) \/ Start(c)

-----------------------------------------------------------------------------
(* ssh_cancel and ssh_reload_config                                          *)

\* A client asks for a task; ids are in the answers and in the log.
AskCancel(t) ==
    /\ t \notin asked
    /\ t \in registry \cup returned
    /\ asked' = asked \cup {t}
    /\ UNCHANGED <<config, pc, frame, reply, registry, signalled, trail>>

\* _validate_task_id: letters, digits, ":", "-" and "_".
ValidTaskId(t) == t[2] \notin Dotted

\* ssh_cancel: "Cancellation signaled", or "Task not found", or the id is refused.
HandleCancel(t) ==
    /\ MayEnter
    /\ t \in asked
    /\ asked' = asked \ {t}
    /\ signalled' = IF ValidTaskId(t) /\ t \in registry
                    THEN signalled \cup {t} ELSE signalled
    /\ UNCHANGED <<config, pc, frame, reply, registry, trail>>

\* What _load_yaml makes of a file: its content, or {} when it is missing,
\* too large or in the middle of being written.
Content(f) == {disk[f], Empty}

\* ssh_reload_config begins with servers.yml ...
StartReload ==
    /\ loading = <<>> /\ MayEnter /\ reloads < MaxReloads
    /\ \E v \in Content("servers") : loading' = <<v>>
    /\ UNCHANGED <<disk, data, reloads, pc, frame, reply, cancels, trail>>

\* ... goes on with credentials.yml ...
LoadCredentials ==
    /\ Len(loading) = 1
    /\ \E v \in Content("credentials") : loading' = Append(loading, v)
    /\ UNCHANGED <<disk, data, reloads, pc, frame, reply, cancels, trail>>

\* ... and, once policy.yml is read, assigns the three at once.
FinishReload ==
    /\ Len(loading) = 2
    /\ \E v \in Content("policy") :
         data' = [servers |-> loading[1], credentials |-> loading[2], policy |-> v]
    /\ loading' = <<>>
    /\ reloads' = reloads + 1
    /\ UNCHANGED <<disk, pc, frame, reply, cancels, trail>>

\* An operator saves one file.
Edit(f) ==
    /\ reloads < MaxReloads
    /\ \E v \in Versions \ {disk[f], Empty} : disk' = [disk EXCEPT ![f] = v]
    /\ UNCHANGED <<data, loading, reloads, pc, frame, reply, cancels, trail>>

Reload == StartReload \/ LoadCredentials \/ FinishReload

Next ==
    \/ \E c \in Calls : HandlerStep(c) \/ Return(c) \/ Work(c)
    \/ \E t \in Tasks : AskCancel(t) \/ HandleCancel(t)
    \/ Reload
    \/ \E f \in Files : Edit(f)

Spec == Init /\ [][Next]_vars

\* A run_streaming whose event is set returns (RunStreaming).
StopWhenTold(c) == At(c, "running") /\ Task(c) \in signalled /\ Return(c)

\* Handlers and reloads go on, requests are handled when they can be and
\* commands stop when told to.  Nothing else makes a command end.
LiveSpec ==
    /\ Spec
    /\ \A c \in Calls : WF_vars(HandlerStep(c)) /\ WF_vars(StopWhenTold(c))
    /\ \A t \in Tasks : WF_vars(HandleCancel(t))
    /\ WF_vars(LoadCredentials \/ FinishReload)

-----------------------------------------------------------------------------
(* Properties                                                                *)

Synchronous(c) == Kind[c] # "async"

\* Call c works on task t, and has created it.
Holds(c, t) ==
    /\ pc[c] \in {"clientHost", "clientCreds", "event", "connect", "running", "cleanup"}
    /\ Synchronous(c) /\ t = Task(c)

\* While its command runs, a task is in the registry, where ssh_cancel finds
\* the event that run_streaming polls (GetEvent to Cleanup).
RunningCancellable ==
    \A c \in Calls : At(c, "running") => Task(c) \in registry

\* Only ssh_run leaves a task behind, and only when it ended in an error:
\* the loop of ssh_run_on_tag cleans up after each host that failed.
RegistryTight ==
    \A t \in registry :
        Holds(t[1], t) \/ (Kind[t[1]] = "run" /\ failed[t[1]])

\* Every run_streaming of a synchronous call has one audit record, refused
\* peers included, and no other task has any.
AuditedOnce ==
    \A t \in Tasks :
        LET c == t[1]
            pending == pc[c] \in {"cleanup", "audit"} /\ t = Task(c)
        IN  Synchronous(c) =>
                audits[t] = IF t \in returned /\ ~pending THEN 1 ELSE 0

\* The cancel of task t is handled while its command runs.
CancelledRunning(t) ==
    /\ t \in asked /\ t \notin asked'
    /\ At(t[1], "running") /\ t = Task(t[1])

\* A cancel that finds its task running ends with the event set, where the id
\* is one that ssh_cancel takes.
SignalLands ==
    [][\A t \in Tasks :
         CancelledRunning(t) /\ ValidTaskId(t) => t \in signalled']_vars

\* On one event loop a call reads a single configuration, from the tag's
\* hosts to the credentials of the last of them.
OneConfiguration == \A c \in Calls : Cardinality(gens[c]) <= 1

\* On one event loop ssh_run_on_tag answers for each host of the tag: one
\* host's failure costs neither the others nor the answers already there.
TagAnswersAll ==
    \A c \in Calls :
        Kind[c] = "tag" /\ At(c, "done") => ~failed[c] /\ todo[c] = <<>>

\* A cancelled synchronous command stops.
CancelStops ==
    \A t \in Tasks :
        (t \in asked /\ At(t[1], "running") /\ t = Task(t[1]))
            ~> ~At(t[1], "running")

(* What the documentation says and the code does not keep.                   *)

\* docs/wiki/07-Tools-Reference.md:578: ssh_cancel does not find a task that
\* is over.
OverIsNotFound ==
    [][\A t \in Tasks :
         t \in asked /\ t \notin asked' /\ t \in registry
            => ~At(t[1], "done")]_vars

\* docs/wiki/07-Tools-Reference.md:9 lets an alias have dots, and line 551 has
\* ssh_cancel for every running task; the ids of such hosts are refused.
EveryTaskCancellable ==
    [][\A t \in Tasks : CancelledRunning(t) => t \in signalled']_vars

=============================================================================
