# mcp-ssh-orchestrator in TLA+

mcp-ssh-orchestrator is an MCP server that runs commands over SSH on the hosts
of a configuration, under a policy, for the clients of the server. This
directory holds TLA+ models of the parts of it where something can happen
between two lines: handlers that share a registry with the thread that cancels
them, worker threads, a cleanup thread, a polling loop that is raced by a
deadline and by the server at the other end, a cache read by several threads,
events that reach the client over queues of their own, and configuration files
that change while they are in use. The policy, which decides whether anything
runs at all, is modelled too, as operators checked over many small requests.

Paths below are relative to the repository; `utilities.py`, `ssh_client.py`,
`mcp_server.py`, `config.py` and `policy.py` are under `src/mcp_ssh/`.

## 1. The system

### 1.1 Components

| Component | State | Operations | Interacts with |
|---|---|---|---|
| `TaskManager` (`utilities.py:126`) | `_tasks`: id → cancel event | `create`, `cancel`, `get_event`, `cleanup` | the synchronous handlers, `ssh_cancel` |
| `AsyncTaskManager` (`utilities.py:170`) | `_tasks`, `_results`, `_output_buffers` under an `RLock`; the cleanup thread; `_shutdown_event` | `start_async_task`, `_execute_task_in_thread`, `cancel_task`, `get_task_status/result/output`, `cleanup_expired_tasks`, `shutdown` | one worker thread per task, `run_streaming`, the notification handler |
| `SSHClient.run_streaming` (`ssh_client.py:426`) | two buffers, flags, the paramiko channel | one polling loop: cancel, deadline, stdout, stderr, status | the cancel event of either manager, the SSH server, the clock |
| `SSHClient._connect` (`ssh_client.py:194`) | the paramiko client, the peer address | key types, host key check, connect | the resolver, the server |
| DNS resolver and cache (`ssh_client.py:17`) | `_dns_cache`, `_dns_rate_limiter` under one lock; the default socket timeout of the process | `resolve_ips`, `_get_cached_ips`, `_is_rate_limited`, `_cache_ips` | `_precheck_network`, `getaddrinfo` |
| Tool handlers (`mcp_server.py:942` on) | locals only, plus everything above | `ssh_run`, `ssh_run_on_tag`, `ssh_run_async`, `ssh_cancel`, `ssh_reload_config` and the task tools | `config`, `Policy`, both managers, MCP clients |
| `Config` (`config.py:522`) | `_data`: three parsed files | `reload`, `get_host`, `get_host_tags`, `find_hosts_by_tag`, `get_credentials`, `get_policy` | the files, an operator who edits them |
| `Policy` (`policy.py:290`) | a policy dict, fixed | `limits_for`, `is_allowed`, `is_ip_allowed`, the audit log | handlers |
| Secrets and key paths (`config.py:129`) | a cache of `.env` for the life of the process | `get_credentials`, `_resolve_secret`, `_load_env_file`, `_resolve_key_path` | the environment, the files, an operator who edits them |
| Notification bridge (`mcp_server.py:37`) | none of its own; the loop's queue and the session's messages | puts an event on the loop, in one hop or two, and sends it as one message or two | callers, worker threads, the MCP session |
| `ssh_plan` and input validation (`mcp_server.py:168`, `894`) | none | the preview of a run; text checks | `config`, `Policy`, `ssh_run` |
| Describe and list tools, prompts, resources | none | look-ups | `config`, `Policy` |
| `sanitize_error`, `hash_command`, `log_json` | none | text | all |

### 1.2 What is hard

* *Asynchronous tasks.* The caller registers a task, starts its thread, stores
  the thread and announces the task in four separate steps; the worker may be
  done before the last. A cancel may fall between any two regions of the
  worker. `int()` is applied to limits of the policy after state has been
  changed, and again in the `except` clause. The cleanup thread decides with a
  time it read before it waited for the lock.
* *Streaming.* Cancel, deadline and the end of the command may be due at one
  poll. The exit status and the two streams are asked for one after the other
  while the transport goes on delivering. Chunks are cut at a cap.
* *Synchronous calls.* The entry of a call has to be in the registry exactly
  while its command can be cancelled, whatever raises in between, and for each
  of the hosts of a tag. The handler reads host, tags, policy, host again and
  credentials at different moments, while a reload can replace all of them.
* *Scheduling.* `ssh_run` and `ssh_run_on_tag` are plain functions. Whether
  the framework calls them on the event loop or on threads decides whether
  anything else can run while a command does.
* *Notifications.* A worker may end before its caller announces it. Its events
  take two hops over the loop, those of the loop's own thread one, and an event
  may be two messages with a wait in between. The client hears of a verdict by
  one way and asks for it by another.
* *The policy.* Three regular expressions decide whether a command line is
  taken apart at all, a scanner with six flags decides where; rules are judged
  in order; limits come in four layers, and several tags may set the same one;
  positions in an argument vector are counted from two origins. `ssh_plan` is a
  second copy of the decision of `ssh_run`.
* *Secrets.* Four sources, two spellings of a name, a cache that outlives the
  file, and a file that can change between the check of its size, the check of
  its kind and its opening.
* *Names.* Every helper of the resolver reads the clock before it takes the
  lock; the socket timeout is saved, set and restored with no lock.

### 1.3 What makes each part correct

* A task's record, result and buffer tell one story; its verdict is announced
  once, last, and never changes; its answer stays the same until it is gone for
  good; no thread ends without a trace; every task that can end ends.
* `run_streaming` returns what happened: one reason at most, an exit code only
  from the server and only with all output read; it returns when told to.
* A command that runs can be cancelled, its cancel reaches it, and it is
  audited once; what fails on one host costs the other hosts nothing.
* On one loop, a call is decided and run under one configuration.
* The limiter keeps no more than its limit, the cache deletes nothing that is
  still good, and the process gets its socket timeout back.

* A client hears that a task was created before anything else of it, nothing new
  after the verdict, everything in the end, and can read what it was told.
* A command line is judged as its commands would be, one by one; a rule that is
  added at the end decides only what nothing decided; a strict rule lets no
  argument pass that it does not fix or name; the plan is what the run does.
* All that is taken from `.env` is of one version of it, and a secret comes from
  the first source that has it.

`PROJECT.json` lists 40 hazards, each at its line, with the properties that
cover it or the reason why none does.

## 2. Modules

| Module | Models | Size of the thing it stands for |
|---|---|---|
| `AsyncTasks` | `AsyncTaskManager`, all operations | `utilities.py:170-597` |
| `JobPromise` | the promise of the asynchronous tools, abstractly | refined by `AsyncTasks` |
| `RunStreaming` | `SSHClient.run_streaming` | `ssh_client.py:426-533` |
| `DnsResolver` | `resolve_ips` and its helpers | `ssh_client.py:17-70`, `140-192` |
| `ToolCalls` | handlers, `TaskManager`, reload | `mcp_server.py:94-159`, `293-338`, `942-1514`, `config.py:522-537` |
| `CommandChain` | how a command line is read | `policy.py:31-287` |
| `Policy` | the decisions of class `Policy`; extends `CommandChain` | `policy.py:11-28`, `290-714`, `mcp_server.py:329-338` |
| `PlanAndRun` | `ssh_plan` and `ssh_run` up to the connection; extends `Policy` | `mcp_server.py:161-255`, `893-992` |
| `NotificationBridge` | events on their way to the client; extends `AsyncTasks` | `mcp_server.py:57-91`, `1407-1646` |
| `Secrets` | `get_credentials` and what it calls | `config.py:129-519`, `574-609` |
| `MC...` | small instances for TLC | |
| `..._proofs` | theorems | |
| `FoldLemmas` | induction and folds, for the proofs | |

A variable is named after the field or the local it stands for, an action after
the function or the region of it. `PROJECT.json` maps each definition to lines.

### 2.1 AsyncTasks and JobPromise

A step is one region under the `RLock`, or one visible step between two
regions. The program counters are `caller` (of `start_async_task`), `worker`
(of `_execute_task_in_thread`) and `sweeper` (of `_cleanup_worker`).

* `Insert`, `Spawn`/`SpawnFails`, `Attach`, `AnnounceCreation`:
  `start_async_task` up to its return. `SpawnFails` is `Thread.start` raising.
* `Begin`, `Progress`, `Return`, `Store`, `AnnounceVerdict`: the worker.
  `RecordFailure` and `AnnounceFailure` are its `except` clause.
* `Cancel` is `cancel_task` when it finds a pending or running task (the other
  case changes nothing). `Wake` reads the clock, `Sweep` takes the lock.
* `ResultOf`, `StatusOf`, `OutputOf` are what the three readers answer. Readers
  change nothing, so they are operators; properties speak of them.

Limits are records: a time to live (or `BadLimit`, on which `int()` raises), a
budget (`max_seconds`): `capped`, `unbounded` (0) or `bad`, and a cap
(`max_output_bytes`): a number or `bad`. `int()` of either of the last two keeps
`run_streaming` from being called; of the first only, also the failure from being
announced. Output is one of a
few values. What `run_streaming` may return is `MayReturn`, which is the
contract that `RunStreaming` shows (`Contract`, proved as `ContractHolds`);
this is how the two modules compose.

`JobPromise` has no threads, locks or clock: a job is accepted, may be asked to
stop, is decided once or abandoned, and its answer stays until it is
withdrawn. A cancelled answer needs somebody who asked. `AsyncTasks` refines it
with the mapping `Promise`: `phase` from the program counters, `asked` from the
event, `answer` from `ResultOf`. So `ssh_get_task_result` keeps its promise
although the record it is built from is written by three kinds of threads.

### 2.2 RunStreaming

Each read of shared state in the loop is a step: the event, the deadline, each
stream, the exit status, then once more stdout and stderr. Bytes are only
counted. The environment delivers bytes to each stream (`Arrive`), ends the
command or loses the connection (`RemoteEnds`; paramiko then reports status
-1), sets the event (`SetEvent`) and lets time pass (`Tick`). `Raise` is an
exception of any call on the connection. `maxSeconds` is chosen at the start
and stays; 0 is no limit, as in the code.

`ExitAfterData` says whether the server sends the exit status after all
output. SSH servers normally do; the runs take it as TRUE, and with FALSE the
loop can end with output still on its way (`OutputComplete` is stated under the
assumption).

### 2.3 DnsResolver

A locked block is one step, and so is each reading of the clock before it:
`Resolve` (reads, then) `CacheHit` or `CacheMiss`, `ReadLimiterClock` and
`CheckLimit`, `SaveTimeout`, `Ask`, `Answered`, `RestoreTimeout`,
`ReadExpiryClock`, `Store`. `getaddrinfo` gives any answer, or none, and takes
any time. `active` is the set of threads that call at all, so one run covers
both a caller alone and callers that overlap. `lookups` is a history variable.

### 2.4 ToolCalls

Each read of the configuration is a step of the handler: `Begin` (the tag's
hosts), `GetHost`, `GetTags`, `Decide` (the policy), `Precheck` (the network),
`Create`, `ClientHost`, `ClientCreds` (the two reads of `_client_for`),
`GetEvent`, `Connect` or `ConnectFails`, `Return`, `Cleanup`, `Audit`; `Start`
and `Work` for an asynchronous run. `Tell` ends the work on a host, `Fail` is
the handler's own `except` clause, and `Raise` is an exception of `int()` or `_client_for`,
which `ssh_run_on_tag` catches per host and the others do not.

A file of the configuration is a version. What a version says (its hosts, the
hosts with the tag, the aliases with usable credentials, what is permitted,
the networks, the hosts whose limits are numbers) is given by constants, so
the module is about when the files are read and not about what is in them.
`Content` is what `_load_yaml` makes of a file: its content, or `{}`.

`Threaded` says whether the steps of two handlers can mix. The MCP package is
external: its version decides whether a plain function is called on the loop.
With FALSE a handler runs to its end before anything else enters
(`MayEnter`). Both ways are checked, each with the properties that hold in it.
`Dotted` are the hosts with a dot in their alias: `ValidTaskId` refuses the id
of a task that runs there, so `Signal` does nothing for it.

### 2.5 CommandChain, Policy and PlanAndRun

A command is a sequence of symbols: a blank, a character that the shell treats
specially, or a word. `HasChaining` stands for the three regular expressions,
`Scan` for the loop of `_parse_command_chain` with its flags as the fields of a
record folded over the text, `SplitCommandArgs` for `shlex`, which is external
and which the code falls back from when quotes are unbalanced.

`Policy` has one operator per method: `CollectLimits` (the layers), `Banned` and
`DeniedBySubstring`, `MatchSimpleBinaries`, `MatchStructuredRule`,
`DecidingRule`, `IsAllowed`, `DeniedCommandInChain`, `IsIpAllowed`. A glob
pattern is the set of values that it matches; an entry of a network list stands for
the addresses `Reach` gives it, and has none when `ipaddress` cannot read it.
`Over` is `dict.update`, and `Among` what a loop keeps of a list.

`PlanAndRun` has two actions, `Plan` and `Run`, in any order on one request,
and the properties that relate the two or check the policy against definitions
of what it should say. `RequestsAssumption` says what a request is: its texts,
its rules, `deny_substrings` and `path_args` are sequences as the YAML file and
the tools give them. `Commands` of `CommandChain` is such a definition: where
a command line separates, said by quotes and separators and not by a scanner.

### 2.6 NotificationBridge

It extends `AsyncTasks`, so an event is raised by the very step of the manager
that raises it: `CallerStep`, `TaskStep` and `CancelStep` are its steps with
`Queue`, which appends a handle to `ready`. `Schedule` is what
`call_soon_threadsafe` runs, `Invoke` is `_emit` up to the point where it waits
for the session, `Resume` is the rest of it, `Write` is the session taking a
message. While `ssh_run_async` is under way, which awaits nothing, the loop
does nothing else (`LoopFree`). `GetTaskStatus`, `GetTaskResult` and
`GetTaskOutput` are the tools with which the client asks.

### 2.7 Secrets

`Begin` to `Finish` is a call of `get_credentials`; the handlers call it without
an await, so calls follow one another, but an operator may edit a file
(`EditDotenv`, `EditFile`) or the process may restart (`Restart`) between any two
steps. `LookUp` reads the environment and the cache; `CheckSize`, `CheckKind`
and `Parse` are `_load_env_file` with `_validate_file_path`; `CheckFile` and
`ReadFile` the file of the secret's own name. A file is a shape (absent,
directory, link, too large, not to be decoded, plain) and a version; of `.env`
also the names in it. `Upper` is `str.upper()`.

## 3. Runs

Passing runs (TLC, two workers, each well below the limit of five minutes):

| Run | Instance | States | Shows |
|---|---|---|---|
| `async_task` | one task, six kinds of limits, outputs `""` and `"text"`, clock to 2, one progress event, fairness | 206 000 | the inductive invariant, what is announced and when, stability of verdict, answer and output, refinement of `JobPromise`, termination |
| `stream` | limits 0 and 1, cap 2, chunks of 2, up to 3 bytes a stream, clock to 2, fairness | 56 000 | the contract of `run_streaming`, and that it returns |
| `dns` | one or two callers, one name, a limit of one a second, clock to 6 | 917 000 | limiter, cache and socket timeout |
| `tools_loop` | a tag run and an asynchronous run on one loop, one edit and one reload | 119 000 | one configuration for a call, all hosts answered for |
| `tools_threads` | a run and a tag run on threads, cancels at any time, fairness | 26 000 | registry, audit and cancel |
| `policy` | 12 700 requests in four families: command lines, rules, limits, networks | 51 000 | the reading of command lines, rules, limits, and the plan against the run |
| `bridge` | one task, two progress events, three kinds of limits, fairness | 465 000 | what a client is told, in which order, and what it can read then |
| `secrets` | two names, three entries, four environments, eight contents of `.env`, three edits, restarts | 318 000 | one version of `.env`, and the order of the sources |

Runs that end in a counterexample, each for a sentence of the documentation:

| Run | The documentation | The code |
|---|---|---|
| `tools_loop_cancel` | `ssh_cancel` stops a running synchronous task (`README.md:466`) | on one loop the cancel is handled when the command is over |
| `tools_over_is_not_found` | `ssh_cancel` does not find a task that is over (`docs/wiki/07-Tools-Reference.md:578`) | when `_client_for` raises in `ssh_run`, the entry stays for ever |
| `tools_dotted` | a running command can be cancelled by its task id (`docs/wiki/07-Tools-Reference.md:551`) | an id begins with the alias, which may have dots; the check of ids refuses dots |
| `plan_padded` | `ssh_plan` shows what would be executed and if policy allows (its docstring, `mcp_server.py:895`) | it looks an alias up, and looks through a command, with the blanks around them (`mcp_server.py:907-909`), which `ssh_run` strips (`960-961`) |

### 3.1 The properties

* `IInv`, `EndedTaskLeavesTrace`: the tables of `AsyncTaskManager` agree, and are
  settled by how far the two threads of a task have come.
  `VerdictAnnouncedOnce`: the notification handler gets one verdict of a task,
  the one on its record.
* `VerdictFinal`, `AnswerStable`, `OutputStable`, `OnlyTimeWithdraws`: what no
  step may do to what a client has been told. `KeepsPromise`, `SettlesWhenAsked`:
  the refinement, its safety and its liveness.
* `StartedTaskEnds`, `ExpiredResultSwept`: progress.
* `Contract`, `BuffersFill`, `OutputComplete`, `EarlyCancelHonoured`,
  `ReturnsInTheEnd`, `CancelReturns`: `run_streaming`.
* `RecordsCapped`, `GrantsRecorded`, `DropsAreLate`: the resolver, with callers
  that overlap. `LookupsSpaced`, `TimeoutRestored`: with one caller; they fail
  with two, and nothing in the repository says they should hold then.
* `OneConfiguration`, `TagAnswersAll`: handlers on one loop. `RegistryTight`,
  `AuditedOnce`, `SignalLands`, `CancelStops`: handlers on threads.
  `EveryTaskCancellable` is what `tools_dotted` refutes.
* `ChainSplit`: the scanner separates commands where `Commands` says, and nothing
  of a command is lost or moved. `ChainJudgedByMembers`: a chain
  goes through when each of its members would, and the first that would not is
  the one that is named. Both are about the four operators of the code and of
  `docs/wiki/06.3-policy.yml.md:133`: `&&`, `||`, `;` and `|`. A shell also parts
  commands at a single `&` and at the end of a line. `Commands`, like the code,
  does not: `ls & x`, or `ls` and `x` on two lines, is one command, judged by its
  first word, and of these the two properties say no more than that nothing is lost
  of them. `AppendedRuleFillsGaps`: a rule added at the end changes the answer only where one of the commands that are judged matched no
  rule. `LimitsPrecedence`: each limit is
  that of the layer the documentation names. `StrictRuleNamesAll`: a rule
  without extra arguments lets no argument through but those its prefix fixes and
  those `path_args` names, which are checked if it has patterns. It does not say
  that such a rule checks every argument, as two kinds of rules do not: one with a
  prefix and indices but no patterns lets any argument stand where an index is
  (`arg_prefix: ["n"]`, `indices: [2]` pass `cat n anything`: `policy.py:632` skips
  the check, `policy.py:626` takes the position for named); and one without a
  prefix that names the binary, or one argument twice, only counts
  (`policy.py:650`), so that another argument passes for the one it names in vain.
  The property covers the first kind, with that weaker claim, and its request is
  in the run; it leaves out the second. `docs/wiki/06.3-policy.yml.md:306` calls
  `patterns` required, but nothing refuses a rule without.
  `PlanPredictsRun`: for an alias without blanks around it, what the plan allows
  the run does not refuse, what the plan denies the run refuses unless there are
  blanks around the command, and the limits are the same. Blanks make
  `PlanIsForThisRun` fail: `ls ` is denied for a `deny_substrings` entry that ends
  in a blank, and `ls` is run.
* `CreatedSeenFirst`, `SeenInOrder`, `ToldCanBeRead`, `EveryEventTold`: what a
  client hears of a task. Order is not what it seems: a cancellation raised on
  the loop overtakes the worker's events, and the second message of a progress
  event may come after the verdict.
* `OneEnvFile`, `AnswersInOrder`: the secrets.

Every property is paired with a mutant: a plausible slip of the code, written
as an operator in the module's section of slips, under which the property
fails in the same run.

### 3.2 Bounds, and why they are enough

* *Clock.* The time to live is 1, so a clock to 2 has a result that is fresh, one
  that expires at the instant it is looked at, and one that is long gone.
  `dns` needs three ticks between two lookups (a time to live of 1 and a grace
  of 2), so a clock to 6 has two rounds. In `stream` a deadline of 1 is passed
  at 2.
* *Tasks.* The tables are keyed by task and a step touches one key, except for
  `Sweep`. Runs have one task; what `Sweep`, and the queues that tasks share in
  `NotificationBridge`, do to another one is covered by the theorems, which are
  for any set of tasks.
* *Bytes.* Three bytes a stream, in chunks of two with a cap of two, have a full
  chunk, a part of one, a chunk that is cut and one that is dropped.
* *Progress.* One progress event distinguishes before and after the verdict; in
  `bridge` two let one pass between the two messages of the other.
* *Requests.* Command lines are all the texts of up to four symbols over three
  alphabets of six, and of five over one of four, chosen so that operators,
  quotes, substitutions and groups meet. Rule lists have up to two of eleven rules,
  and nineteen commands are judged by each; two rules are enough for one to come
  before another. Limits are set in four places, each in one of four ways;
  network lists hold an address, a network it is in, and an entry that is
  neither. What longer texts and lists do is covered by the theorems.
* *Queues.* `bridge` keeps the clock at 0: time decides only whether a result
  can still be had, which `ToldCanBeRead` takes into account by itself.
* *Edits.* Three edits are one before, one within and one after a load of `.env`,
  or two around the load of one secret file. Two names, one of which no file can
  have, and three entries use each branch of the look-up.
* *Reloads.* One edit of any of the files and one reload are enough for any two
  reads of a call to be of different versions.
* *Limiter.* A limit of one attempt a second makes the second one a refusal.
* `CHECK_DEADLOCK FALSE` is set where the system does stop: all tasks over and
  the manager shut down, `run_streaming` returned, all calls made.

### 3.3 Fairness

* *A thread that can run runs* (`AsyncTasks`): weak fairness of each thread's
  steps. The threads are those of the interpreter and hold the lock for a
  region at a time. `StartedTaskEnds` also needs `run_streaming` to return,
  which is assumed only where `RunStreaming` shows it: with a limit, or with
  the event set (`ReturnsInTime`).
* *The handler's thread runs, connecting ends by its own time-outs, the server
  answers `exec_command`, and time passes* (`RunStreaming`). The third is an
  assumption about the server: `exec_command` has no timeout and is outside
  `max_seconds`. Nothing is assumed of the command: it may write for ever.
* *Handlers go on, requests are handled when they can be, and a command whose
  event is set stops* (`ToolCalls`). Nothing else makes a command end. `Begin`
  and `Edit` by themselves are not fair; no client has to make a call.
* *The loop runs what is queued, the session is written out, and a call of
  `ssh_run_async` comes to its end* (`NotificationBridge`). Workers need not go
  on: what they raised is told all the same.
* `DnsResolver`, `PlanAndRun` and `Secrets` state no liveness.

## 4. Theorems

`tlapm` checks all of them, for every value of the constants under the ASSUMEs.

`AsyncTasks_proofs`:
* `Invariance` (`IInv`) and from it `TypeCorrect`, `ResultsAgree` and
  `EndedTasksLeaveTrace`. `ResultAgrees` is not inductive: `Store` overwrites
  what is there, so one has to know that nothing is stored before the verdict
  (`NothingStoredEarly`), that the worker's local copy is what it has written
  (`WorkerKnows`), and that cancels find the status settled by then
  (`Registered`, and `Cancellable` in the states `WorkerKnows` describes).
  `IInv` is checked by `async_task`, too.
* `VerdictsAreFinal`, `AnswersAreStable`, `SweepsAreLate`: action properties.
  The last needs `seen <= clock`: a sweep's reading is of the past, so what it
  calls expired nobody can have any more.
* `Refinement`: the initial states map to initial states of `JobPromise`, and
  every step to a step of it or to none.
* `AnnouncedVerdicts` and `OutputsStable`, from `IInv` and `AnnouncedInv`, which
  says what the worker has announced by how far it has come.

`RunStreaming_proofs`: `StreamInvariance` and from it `ContractHolds`,
`BuffersFilled`, `OutputsComplete`. `CapOnce` says that cutting after each
chunk is the same as cutting once. The strengthening is that flags are set
only on the way out, and that once the status has been seen nothing arrives
any more, so what is still empty at the second look stays empty.
`EarlyCancelsHonoured`: an event that was set before the command was started
stays set, and the first poll looks at it before anything else can end the loop
(`Doomed`).

`DnsResolver_proofs`: `DnsInvariance` and `LateDrops`. The invariant is that
no reading is ahead of the clock; only `CacheMiss` deletes, so what it calls
expired by an old reading is expired now. `TimeoutComesBack` and
`LookupsAreSpaced` are about a caller that is alone (`AloneInv`): the last lookup
of a name is in progress, or in a cache entry that still lasts, or long ago.
`DnsTypes`, `LimiterCapped` and `GrantsOnRecord` are for any number of callers,
whose readings of the clock reach the limiter in any order (`LimiterInv`): a sweep
makes the list no longer, and an attempt joins it only below the limit; and the
sweep keeps all readings that are less than a second old, so what was let
through stays on record for that long.

`ToolCalls_proofs`: `RegistryInvariance`, `RunsCancellable`, `SignalsLand`. From
`Create` to `Cleanup` a synchronous call has its entry, and what another call
does to the registry concerns its own entry only (`OthersKept`).
`RegistryIsTight`: an entry has a call that works on it, or is what an `ssh_run`
left behind when it failed (`TightInv`). `ReadsOneConfiguration`, for handlers
on one loop: a call in its handler has read no configuration but that of the
last reload, and no reload is under way (`LoopInv`). `TagRunsToTheEnd`, also for
one loop: the hosts such a call has left are hosts of that configuration, so no
`get_host` raises past the `try` of each host (`TagInv`). `EveryRunAudited`: what is
behind a call has returned and has its record, what it works on may have returned
without one, what is ahead has neither (`AuditInv`); it assumes that a tag names
a host once (`DistinctHosts`), which `servers.yml` does unless it has an alias twice.

`NotificationBridge_proofs`: `CreationInFront` and `CreationsSeenFirst`. A task's
creation is queued by one hop while the loop is held by its caller; so of all
handles of the task that could send, it is in front, and then in front in the
outbox, and then at the client (`BridgeInv`). `ToldIsReadable`: the tables are
written before an event is raised, what is on its way was raised, and a worker that
has announced an end has left a result or an error line (`ToldInv`); results only
go by their expiry.

`StagesInOrder` and `EventsSeenInOrder`: an event comes to the client by four
stages: handles that schedule, handles that send, the outbox and
the client. Each stage keeps its order, and all that is further on was raised
before (`OrderInv`). What the loop raises itself joins at the second stage, in front
of what threads have in the first; these are creations and cancellations only, so
nothing else overtakes, and nothing new comes after a verdict.

`Secrets_proofs`: `LoadsOnce` and `TakesOneVersion`. Handlers follow one another,
so `.env` is loaded only while the cache is empty, and nothing was taken from it
before (`LoadedOnce`). `SourcesInOrder`: where a call is says which sources have been
ruled out for its secret, and without an edit that still holds when it answers
(`Ruled`).

`PlanAndRun_proofs`, for any command line, policy and tags. What the tools have
answered is what the policy says of the request (`AnswersInv`); the rest is about
the policy's operators.
* `LimitsInOrder`: after each tag a limit is the alias's, or that of the latest tag
  to set it, or what lies under the tags (`Settled`).
* `StrictRulesNameAll`: with a prefix, what comes behind it is at named positions;
  without one, indices that are distinct, within the arguments and as many as these
  are all of them (`AllIndices`). Nothing is asked of a rule with a prefix, nor of
  the patterns of any.
* `AppendedRulesFillGaps`: the deciding rule is the least that matches, and a rule
  at the end is the greatest.
* `ChainsSplitRight`. What the scan has collected at any position are the pieces
  between the operators it has cut at (`Collected`). Its flags and depth are what
  the shell's quoting says there, and it skips the second of two symbols exactly
  at an odd place of a run of `&` (`Aligned`, where there is no substitution); so
  it cuts at the separators (`CutsSeparate`). No turn loses substance (`Keeps`),
  with substitutions or without. Where the quick look sees no operator, a separator
  can only be at the end of the text, so there is one command (`SingleCommand`).
* `ChainsJudgedByMembers`. A member is a stretch with no separator in it that begins
  outside quotes and groups (`MembersOf`), so it reads in itself as it does in the
  whole (`PartReads`) and parsing it again leaves it one command (`PieceAlone`). A
  substitution never straddles an operator, so it is in one of the members
  (`SubstitutesInMember`).
* `PlansPredictRuns`. Blanks around a text change neither its arguments
  (`ArgsPadded`), nor its tokens (`TokensPadded`), nor what the scan finds: over
  the blanks in front the scan stays at its start, over the text it is where the
  scan of the text alone is (`Tracks`), and over the blanks behind it stays there.
  So they can only add to the substrings that are found in it.

`FoldLemmas`: induction on the positions of a sequence, stated for the set of the
numbers that a claim holds of and derived from the order on the natural numbers
being well-founded; and that a fold from the left takes one step per element. The
folds of the model (`Among`, `Scan`, `CollectLimits`, `OpenQuotes`, `Kept`) are all
brought to that form.

Assumed: types of the constants, a positive second and rate, a chunk of at
least one byte, and that requests are well formed (`RequestsAssumption`).
Nothing is assumed of how many tasks, callers, calls, hosts, versions, names or
edits there are, nor, but for `ReadsOneConfiguration` and
`TagRunsToTheEnd`, whether handlers mix.

### 4.1 Only model-checked

* What is temporal under fairness, as the prover has neither `ENABLED` nor the
  rules for fairness: `StartedTaskEnds`, `ExpiredResultSwept`, `SettlesWhenAsked`,
  `ReturnsInTheEnd`, `CancelReturns`, `CancelStops`, `EveryEventTold`.
* The counterexamples.

Every invariant and every action property of a passing run is a theorem.

## 5. Abstractions, and what is left out

* Task ids are distinct. They are built from the alias, a hash and a
  microsecond of the wall clock; a clock that is set back can repeat one.
* The configuration's versions are well formed. A policy whose sections have
  the wrong type makes `is_allowed` raise outside the per-host `try` of
  `ssh_run_on_tag`; limits that are not numbers are modelled (`Readable`,
  `BadLimit`).
* In `ToolCalls` the validation of inputs is passed, except for task ids: a call
  that fails it changes nothing. `PlanAndRun` has the validation.
* `_client_for` reads the host and the credentials; which of its checks fails
  makes no difference to the handler, so `Complete` gives the verdict.
* The bridge's loop is not closed and its session does not go away; a client
  that sends no progress token gets the debug messages only. Without a context
  or a loop events are logged and go nowhere.
* `get_task_status` computes progress figures: only whether that raises is
  modelled (`StatusOf` is `"error"` with `max_seconds` 0 or unreadable,
  `utilities.py:444`). When the next progress event is due is left open.
* `_connect` is abstracted to its outcome. The order of key types, the host key
  check and the error texts are behind the exception.
* In `Secrets` the syntax of `.env` is left out, and a file an editor has half
  written counts as a version of its own. Commands have no backslash.
* Texts, hashes and log lines are left out.

Further disagreements between texts and code, met while modelling and covered
by no run: `max_output_bytes` is documented as a cap on the combined output
(`docs/wiki/06.3-policy.yml.md:107`), the code caps each stream; results of names
are cached for 60 seconds (`docs/SECURITY.md:269`), the code serves them for one
more; a reload is documented to validate (`docs/wiki/03-Design-Goals.md:298`),
the code takes `{}` for a file it cannot read; every execution is said to be
audited (`docs/wiki/15-Glossary.md:29`), asynchronous ones are not; the limit on
resolutions per second (`docs/SECURITY.md:262`) counts readings of the clock
that may be old when they are recorded; cancelled is one of the final states of a
task (`CHANGELOG.md:544`), the worker overwrites it with running and then with
its verdict; the status of an expired task is "Task not found"
(`docs/wiki/07-Tools-Reference.md:752`), `_tasks` is never cleaned, so it stays
readable; the last matching rule is said to win
(`docs/wiki/06.3-policy.yml.md:464`), and deny rules to take priority or to come
first (`docs/wiki/05-Security-Model.md:235` and `:429`), whereas line 388 of the
former page, `tests/test_policy.py:915` and the code take the first that matches,
whatever its action; chaining is said not to get round the policy
(`docs/SECURITY.md:416`, `docs/wiki/06.3-policy.yml.md:177`), which holds for the
four operators and not for a single `&` or the end of a line (3.1); a structured
rule restricts the arguments that `path_args` names
(`docs/wiki/06.3-policy.yml.md:301`), without patterns it does not; the look-up in
`.env` is
said to be case-insensitive (`docs/wiki/06.2-credentials.yml.md:109`), the code
tries a name as written and in upper case.

Not modelled: prompts and resources, the describe and list tools (one read of
the configuration each), the scripts, the Docker and compose files (set-up,
outside the running server), the wording of errors and logs.

## 6. Plan

Done: `AsyncTasks` with `JobPromise`, `RunStreaming`, `DnsResolver`, `ToolCalls`,
`CommandChain` with `Policy` and `PlanAndRun`, `NotificationBridge`, `Secrets`,
and the theorems above. Left:

1. `_connect`: the loop over key types and the host key check, composed with the
   resolver, whose answer may be stale when the connection is made.
2. A bridge whose loop is closed between the two hops, and a session that goes.
3. Task ids that collide, when the wall clock is set back.

## 7. Running it

    tlc -workers 2 -config AsyncTasks_task.cfg MCAsyncTasks
    tlapm AsyncTasks_proofs.tla

`PROJECT.json` names the module and the configuration of each run.
