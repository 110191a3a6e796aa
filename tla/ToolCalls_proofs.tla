-------------------------- MODULE ToolCalls_proofs --------------------------
(***************************************************************************)
(* What the registry of synchronous tasks keeps, for every set of calls    *)
(* and hosts, every configuration and either way of scheduling handlers.   *)
(***************************************************************************)
EXTENDS ToolCalls, FiniteSetTheorems, TLAPS

\* Call c has its task in the registry from the moment it is created, and a
\* call of ssh_run_async never comes to these places.
Registered(c) ==
    /\ pc[c] \in {"create", "event", "connect", "running", "cleanup"}
         => Kind[c] # "async"
    /\ pc[c] \in {"clientHost", "clientCreds", "event", "connect", "running", "cleanup"}
         => Kind[c] = "async" \/ Task(c) \in registry

RegInv ==
    /\ pc \in [Calls -> Places]
    /\ DOMAIN todo = Calls
    /\ todo = [c \in Calls |-> todo[c]]
    /\ \A c \in Calls : Registered(c)

\* The others' part of the invariant: what call c does to the registry
\* concerns its own task only.
LEMMA OthersKept ==
  ASSUME RegInv, NEW c \in Calls,
         \A d \in Calls : d # c => pc'[d] = pc[d] /\ todo'[d] = todo[d],
         registry \ {Task(c)} \subseteq registry'
  PROVE  \A d \in Calls : d # c => Registered(d)'
  <1> SUFFICES ASSUME NEW d \in Calls, d # c PROVE Registered(d)'
    OBVIOUS
  <1>1. pc'[d] = pc[d] /\ Task(d)' = Task(d)
    BY DEF Task, Alias
  <1>2. Task(d) # Task(c)
    BY DEF Task
  <1>3. Registered(d)
    BY DEF RegInv
  <1> QED BY <1>1, <1>2, <1>3 DEF Registered

\* A step of call c to a place where its task may be missing.
LEMMA StepAside ==
  ASSUME RegInv, NEW c \in Calls, NEW p \in {"idle", "host", "tags", "policy",
             "network", "audit", "start", "done"},
         GoTo(c, p), todo' = todo \/ \E x : todo' = [todo EXCEPT ![c] = x],
         registry \ {Task(c)} \subseteq registry'
  PROVE  RegInv'
  <1>1. pc' \in [Calls -> Places] /\ pc'[c] = p
    BY DEF RegInv, GoTo, Places
  <1>2. DOMAIN todo' = Calls /\ todo' = [d \in Calls |-> todo'[d]]
    BY DEF RegInv
  <1>3. \A d \in Calls : d # c => pc'[d] = pc[d] /\ todo'[d] = todo[d]
    BY DEF RegInv, GoTo
  <1>4. \A d \in Calls : d # c => Registered(d)'
    BY <1>3, OthersKept
  <1>5. Registered(c)'
    BY <1>1 DEF Registered
  <1> QED BY <1>1, <1>2, <1>4, <1>5 DEF RegInv

\* A step of call c that leaves its hosts to do alone and has its task
\* registered afterwards, unless it is asynchronous and goes on in
\* _client_for.
LEMMA StepOn ==
  ASSUME RegInv, NEW c \in Calls,
         NEW p \in {"create", "clientHost", "clientCreds", "event", "connect",
                    "running", "cleanup"},
         GoTo(c, p), todo' = todo, registry \subseteq registry',
         p \in {"create", "event", "connect", "running", "cleanup"} => Kind[c] # "async",
         p # "create" => Kind[c] = "async" \/ Task(c) \in registry'
  PROVE  RegInv'
  <1>1. pc' \in [Calls -> Places] /\ pc'[c] = p
    BY DEF RegInv, GoTo, Places
  <1>2. DOMAIN todo' = Calls /\ todo' = [d \in Calls |-> todo'[d]]
    BY DEF RegInv
  <1>3. \A d \in Calls : d # c => pc'[d] = pc[d] /\ todo'[d] = todo[d]
    BY DEF RegInv, GoTo
  <1>4. \A d \in Calls : d # c => Registered(d)'
    BY <1>3, OthersKept
  <1>5. Task(c)' = Task(c)
    BY DEF Task, Alias
  <1>6. Registered(c)'
    BY <1>1, <1>5 DEF Registered
  <1> QED BY <1>1, <1>2, <1>4, <1>6 DEF RegInv

\* A step that touches no call and no registry.
LEMMA StepOutside ==
  ASSUME RegInv, pc' = pc, todo' = todo, registry' = registry
  PROVE  RegInv'
  <1>1. \A d \in Calls : Registered(d)'
    BY DEF RegInv, Registered, Task, Alias
  <1> QED BY <1>1 DEF RegInv

\* Tell, Fail and Raise end the work on the current host.
LEMMA EndHost ==
  ASSUME RegInv, NEW c \in Calls, registry \ {Task(c)} \subseteq registry',
         \/ \E what \in Whats : Tell(c, what)
         \/ Fail(c)
  PROVE  RegInv'
  <1>1. CASE \E what \in Whats : Tell(c, what)
    <2>1. todo' = [todo EXCEPT ![c] = Tail(@)]
      BY <1>1 DEF Tell
    <2>2. GoTo(c, "done") \/ GoTo(c, "host")
      BY <1>1 DEF Tell
    <2> QED BY <2>1, <2>2, StepAside
  <1>2. CASE Fail(c)
    BY <1>2, StepAside DEF Fail, frame
  <1> QED BY <1>1, <1>2

LEMMA EndClient ==
  ASSUME RegInv, NEW c \in Calls, Raise(c)
  PROVE  RegInv'
  BY EndHost DEF Raise, Whats

\* Nothing is under way when the server starts.
LEMMA InitReg == Init => RegInv
  BY DEF Init, RegInv, Registered, Places

\* Every step of a handler, of a worker, of a cancel and of a reload keeps it.
LEMMA NextReg == RegInv /\ [Next]_vars => RegInv'
  <1> SUFFICES ASSUME RegInv, [Next]_vars PROVE RegInv'
    OBVIOUS
  <1>0. \A c \in Calls : Registered(c)
    BY DEF RegInv
  <1>1. ASSUME NEW c \in Calls, Begin(c) PROVE RegInv'
    <2>1. PICK hosts : /\ todo' = [todo EXCEPT ![c] = hosts]
                       /\ GoTo(c, IF hosts = <<>> THEN "done" ELSE "host")
      BY <1>1 DEF Begin
    <2>2. registry' = registry
      BY <1>1 DEF Begin, cancels
    <2>3. GoTo(c, "done") \/ GoTo(c, "host")
      BY <2>1
    <2> QED BY <2>1, <2>2, <2>3, StepAside
  <1>2. ASSUME NEW c \in Calls, GetHost(c) PROVE RegInv'
    <2>1. registry' = registry
      BY <1>2 DEF GetHost, cancels
    <2>2. (GoTo(c, "tags") /\ todo' = todo) \/ Fail(c)
      BY <1>2 DEF GetHost, frame
    <2> QED BY <2>1, <2>2, StepAside, EndHost
  <1>3. ASSUME NEW c \in Calls, GetTags(c) PROVE RegInv'
    BY <1>3, StepAside DEF GetTags, cancels
  <1>4. ASSUME NEW c \in Calls, Decide(c) PROVE RegInv'
    <2>1. registry' = registry
      BY <1>4 DEF Decide, cancels
    <2>2. (GoTo(c, "network") /\ todo' = todo) \/ Tell(c, "policy")
      BY <1>4 DEF Decide
    <2> QED BY <2>1, <2>2, StepAside, EndHost DEF Whats
  <1>5. ASSUME NEW c \in Calls, Precheck(c) PROVE RegInv'
    <2>1. registry' = registry
      BY <1>5 DEF Precheck, cancels
    <2>2. \/ GoTo(c, IF Kind[c] = "async" THEN "clientHost" ELSE "create") /\ todo' = todo
          \/ Tell(c, "network")
      BY <1>5 DEF Precheck, frame
    <2> QED BY <2>1, <2>2, StepOn, EndHost DEF Whats
  <1>6. ASSUME NEW c \in Calls, Create(c) PROVE RegInv'
    <2>1. \/ /\ GoTo(c, "clientHost") /\ todo' = todo
             /\ registry' = registry \cup {Task(c)}
          \/ Raise(c)
      BY <1>6 DEF Create, frame
    <2>2. Kind[c] # "async"
      BY <1>0, <1>6 DEF Create, At, Registered
    <2> QED BY <2>1, <2>2, StepOn, EndClient
  <1>7. ASSUME NEW c \in Calls, ClientHost(c) PROVE RegInv'
    <2>1. (GoTo(c, "clientCreds") /\ todo' = todo /\ registry' = registry) \/ Raise(c)
      BY <1>7 DEF ClientHost, frame
    <2>2. Kind[c] = "async" \/ Task(c) \in registry
      BY <1>0, <1>7 DEF ClientHost, At, Registered
    <2> QED BY <2>1, <2>2, StepOn, EndClient
  <1>8. ASSUME NEW c \in Calls, ClientCreds(c) PROVE RegInv'
    <2>1. \/ /\ GoTo(c, IF Kind[c] = "async" THEN "start" ELSE "event")
             /\ todo' = todo /\ registry' = registry
          \/ Raise(c)
      BY <1>8 DEF ClientCreds, frame
    <2>2. Kind[c] = "async" \/ Task(c) \in registry
      BY <1>0, <1>8 DEF ClientCreds, At, Registered
    <2> QED BY <2>1, <2>2, StepOn, StepAside, EndClient
  <1>9. ASSUME NEW c \in Calls, GetEvent(c) \/ Connect(c) \/ ConnectFails(c) \/ Return(c)
        PROVE RegInv'
    <2>1. /\ GoTo(c, "connect") \/ GoTo(c, "running") \/ GoTo(c, "cleanup")
          /\ todo' = todo /\ registry' = registry
      BY <1>9 DEF GetEvent, Connect, ConnectFails, Return, frame, cancels
    <2>2. Kind[c] # "async" /\ Task(c) \in registry
      BY <1>0, <1>9 DEF GetEvent, Connect, ConnectFails, Return, At, Registered
    <2> QED BY <2>1, <2>2, StepOn
  <1>10. ASSUME NEW c \in Calls, Cleanup(c) PROVE RegInv'
    BY <1>10, StepAside DEF Cleanup, frame
  <1>11. ASSUME NEW c \in Calls, Audit(c) PROVE RegInv'
    <2>1. registry' = registry /\ (Tell(c, "peer") \/ Tell(c, "result"))
      BY <1>11 DEF Audit, cancels
    <2> QED BY <2>1, EndHost DEF Whats
  <1>12. ASSUME NEW c \in Calls, Start(c) PROVE RegInv'
    <2>1. registry' = registry
      BY <1>12 DEF Start, cancels
    <2>2. (GoTo(c, "done") /\ todo' = todo) \/ Fail(c)
      BY <1>12 DEF Start, frame
    <2> QED BY <2>1, <2>2, StepAside, EndHost
  <1>13. ASSUME NEW c \in Calls, Work(c) PROVE RegInv'
    BY <1>13, StepOutside DEF Work, frame, cancels
  <1>14. ASSUME NEW t \in Tasks, AskCancel(t) \/ HandleCancel(t) PROVE RegInv'
    BY <1>14, StepOutside DEF AskCancel, HandleCancel, frame
  <1>15. CASE Reload \/ \E f \in Files : Edit(f)
    BY <1>15, StepOutside
       DEF Reload, StartReload, LoadCredentials, FinishReload, Edit, frame, cancels
  <1>16. CASE UNCHANGED vars
    BY <1>16, StepOutside DEF vars, frame, cancels
  <1> QED
    BY <1>1, <1>2, <1>3, <1>4, <1>5, <1>6, <1>7, <1>8, <1>9, <1>10, <1>11, <1>12,
       <1>13, <1>14, <1>15, <1>16 DEF Next, HandlerStep

\* The registry agrees with where every handler is.
THEOREM RegistryInvariance == Spec => []RegInv
  <1> QED BY InitReg, NextReg, PTL DEF Spec

\* While the command of a synchronous call runs, ssh_cancel can find its
\* event, whatever other calls, cancels and reloads do meanwhile.
THEOREM RunsCancellable == Spec => []RunningCancellable
  <1>1. RegInv => RunningCancellable
    BY DEF RegInv, Registered, RunningCancellable, At
  <1> QED BY <1>1, RegistryInvariance, PTL

\* The step of a cancel that finds its task running.
Landed == \A t \in Tasks :
            CancelledRunning(t) /\ ValidTaskId(t) => t \in signalled'

\* Handling a cancel of a running command sets its event.
LEMMA LandStep == RegInv /\ [Next]_vars => [Landed]_vars
  <1> SUFFICES ASSUME RegInv, Next, NEW t \in Tasks,
                      t \in asked, t \notin asked',
                      At(t[1], "running"), t = Task(t[1]), ValidTaskId(t)
               PROVE  t \in signalled'
    BY DEF Landed, CancelledRunning
  <1>1. t[1] \in Calls
    BY DEF Tasks
  <1>2. t \in registry
    BY <1>1 DEF RegInv, Registered, At
  <1>3. asked' # asked
    OBVIOUS
  <1>4. PICK u \in Tasks : AskCancel(u) \/ HandleCancel(u)
    BY <1>3 DEF Next, HandlerStep, Begin, GetHost, GetTags, Decide, Precheck,
       Create, ClientHost, ClientCreds, GetEvent, Connect, ConnectFails, Return,
       Cleanup, Audit, Start, Work, Reload, StartReload, LoadCredentials,
       FinishReload, Edit, cancels
  <1>5. HandleCancel(u) /\ u = t
    BY <1>4 DEF AskCancel, HandleCancel
  <1> QED BY <1>2, <1>5 DEF HandleCancel

\* No cancel of a running synchronous command is lost.
THEOREM SignalsLand == Spec => SignalLands
  <1>1. Spec => [][Landed]_vars
    BY LandStep, RegistryInvariance, PTL DEF Spec
  <1> QED BY <1>1 DEF SignalLands, Landed

-----------------------------------------------------------------------------
(* What is left in the registry.                                             *)

\* A task in the registry is being worked on, or its ssh_run ended in an error.
Kept(t) == \/ Holds(t[1], t)
           \/ Kind[t[1]] = "run" /\ failed[t[1]] /\ pc[t[1]] = "done"

TightInv ==
    /\ failed \in [Calls -> BOOLEAN]
    /\ \A t \in registry : t[1] \in Calls /\ Kept(t)

\* A step of call c: the tasks of other calls stay as they are, and those of c
\* that are in the registry afterwards must be kept for a reason.
LEMMA TightStep ==
  ASSUME RegInv, TightInv, NEW c \in Calls,
         \A d \in Calls : d # c => /\ pc'[d] = pc[d] /\ todo'[d] = todo[d]
                                   /\ failed'[d] = failed[d],
         failed' \in [Calls -> BOOLEAN],
         \A t \in registry' : t[1] # c => t \in registry,
         \A t \in registry' : t[1] = c => Kept(t)'
  PROVE  TightInv'
  <1>1. ASSUME NEW t \in registry', t[1] # c PROVE Kept(t)'
    <2>1. t \in registry /\ t[1] \in Calls
      BY <1>1 DEF TightInv
    <2>2. Kept(t)
      BY <2>1 DEF TightInv
    <2> QED BY <1>1, <2>1, <2>2 DEF Kept, Holds, Task, Alias, Synchronous
  <1> QED BY <1>1 DEF TightInv

\* A call that has nothing in the registry and puts nothing there.
LEMMA TightBefore ==
  ASSUME RegInv, TightInv, NEW c \in Calls,
         pc[c] \in {"idle", "host", "tags", "policy", "network", "create",
                    "audit", "start"} \/ Kind[c] = "async",
         pc[c] # "done", registry' = registry,
         \A d \in Calls : d # c => /\ pc'[d] = pc[d] /\ todo'[d] = todo[d]
                                   /\ failed'[d] = failed[d],
         failed' \in [Calls -> BOOLEAN]
  PROVE  TightInv'
  <1>1. \A t \in registry : t[1] # c
    BY DEF TightInv, Kept, Holds, Synchronous
  <1> QED BY <1>1, TightStep

\* What Tell, Fail and a step forward leave of the other calls.
LEMMA OneMoves ==
  ASSUME RegInv, TightInv, NEW c \in Calls,
         \/ \E what \in Whats : Tell(c, what)
         \/ Fail(c)
         \/ /\ \E p \in Places : GoTo(c, p)
            /\ todo' = todo \/ \E x : todo' = [todo EXCEPT ![c] = x]
            /\ failed' = failed
  PROVE  /\ \A d \in Calls : d # c => /\ pc'[d] = pc[d] /\ todo'[d] = todo[d]
                                      /\ failed'[d] = failed[d]
         /\ failed' \in [Calls -> BOOLEAN]
  <1>1. CASE \E what \in Whats : Tell(c, what)
    BY <1>1 DEF Tell, GoTo, RegInv, TightInv
  <1>2. CASE Fail(c)
    BY <1>2 DEF Fail, GoTo, frame, RegInv, TightInv
  <1>3. CASE /\ \E p \in Places : GoTo(c, p)
             /\ todo' = todo \/ \E x : todo' = [todo EXCEPT ![c] = x]
             /\ failed' = failed
    BY <1>3 DEF GoTo, RegInv, TightInv
  <1> QED BY <1>1, <1>2, <1>3

\* An exception: a tag run drops its task, a run keeps it and has failed.
LEMMA TightRaise ==
  ASSUME RegInv, TightInv, NEW c \in Calls, Raise(c), pc[c] # "done"
  PROVE  TightInv'
  <1>1. CASE Kind[c] = "tag"
    <2>1. registry' = registry \ {Task(c)} /\ Tell(c, "error")
      BY <1>1 DEF Raise
    <2>2. \A t \in registry : t[1] = c => t = Task(c)
      BY <1>1 DEF TightInv, Kept, Holds
    <2>3. \A t \in registry' : t \in registry /\ t[1] # c
      BY <2>1, <2>2
    <2>4. Tell(c, "error") /\ "error" \in Whats
      BY <2>1 DEF Whats
    <2> QED BY <2>3, <2>4, OneMoves, TightStep
  <1>2. CASE Kind[c] # "tag"
    <2>1. registry' = registry /\ Fail(c)
      BY <1>2 DEF Raise
    <2>2. pc'[c] = "done" /\ failed'[c]
      BY <2>1 DEF Fail, GoTo, RegInv, TightInv
    <2>3. \A t \in registry : t[1] = c => Kind[c] = "run"
      BY <1>2, ToolAssumption DEF TightInv, Kept, Holds, Synchronous
    <2>4. \A t \in registry' : t[1] = c => Kept(t)'
      BY <2>1, <2>2, <2>3 DEF Kept
    <2> QED BY <2>1, <2>4, OneMoves, TightStep
  <1> QED BY <1>1, <1>2

\* A step forward with the task in hand.
LEMMA TightOn ==
  ASSUME RegInv, TightInv, NEW c \in Calls,
         pc[c] \in {"clientHost", "clientCreds", "event", "connect", "running"},
         NEW p \in {"clientCreds", "start", "event", "connect", "running", "cleanup"},
         p = "start" => Kind[c] = "async",
         GoTo(c, p), todo' = todo, failed' = failed, registry' = registry
  PROVE  TightInv'
  <1>1. p \in Places
    BY DEF Places
  <1>2. pc'[c] = p
    BY DEF GoTo, RegInv
  <1>3. \A t \in registry' : t[1] = c => Kept(t)'
    BY <1>2 DEF TightInv, Kept, Holds, Task, Alias, Synchronous
  <1> QED BY <1>1, <1>3, OneMoves, TightStep

\* A step outside the handlers that leaves the registry alone.
LEMMA TightOutside ==
  ASSUME TightInv, pc' = pc, todo' = todo, failed' = failed, registry' = registry
  PROVE  TightInv'
  BY DEF TightInv, Kept, Holds, Task, Alias, Synchronous

\* Nothing is registered when the server starts.
LEMMA InitTight == Init => TightInv
  BY DEF Init, TightInv

\* Every step leaves only tasks that are worked on, or whose ssh_run failed.
LEMMA NextTight == RegInv /\ TightInv /\ [Next]_vars => TightInv'
  <1> SUFFICES ASSUME RegInv, TightInv, [Next]_vars PROVE TightInv'
    OBVIOUS
  <1>0. \A c \in Calls : Registered(c)
    BY DEF RegInv
  <1>1. ASSUME NEW c \in Calls, Begin(c) PROVE TightInv'
    <2>1. PICK hosts : /\ todo' = [todo EXCEPT ![c] = hosts]
                       /\ GoTo(c, IF hosts = <<>> THEN "done" ELSE "host")
      BY <1>1 DEF Begin
    <2>2. \E p \in Places : GoTo(c, p)
      BY <2>1 DEF Places
    <2>3. pc[c] = "idle" /\ registry' = registry /\ failed' = failed
      BY <1>1 DEF Begin, At, cancels, reply
    <2> QED BY <2>1, <2>2, <2>3, OneMoves, TightBefore
  <1>2. ASSUME NEW c \in Calls, GetHost(c) \/ GetTags(c) \/ Decide(c) \/ Precheck(c)
        PROVE TightInv'
    <2>1. pc[c] \in {"host", "tags", "policy", "network"} /\ registry' = registry
      BY <1>2 DEF GetHost, GetTags, Decide, Precheck, At, cancels
    <2>2. \/ (\E p \in Places : GoTo(c, p)) /\ todo' = todo /\ failed' = failed
          \/ Tell(c, "policy") \/ Tell(c, "network") \/ Fail(c)
      BY <1>2 DEF GetHost, GetTags, Decide, Precheck, frame, reply, Places
    <2> QED BY <2>1, <2>2, OneMoves, TightBefore DEF Whats
  <1>3. ASSUME NEW c \in Calls, Create(c) PROVE TightInv'
    <2>1. pc[c] = "create" /\ Kind[c] # "async"
      BY <1>0, <1>3 DEF Create, At, Registered
    <2>2. CASE Alias(c) \in Readable(pol[c])
      <3>1. /\ GoTo(c, "clientHost") /\ todo' = todo /\ failed' = failed
            /\ registry' = registry \cup {Task(c)}
        BY <1>3, <2>2 DEF Create, frame, reply
      <3>2. pc'[c] = "clientHost" /\ Task(c)' = Task(c) /\ Task(c)[1] = c
        BY <3>1 DEF GoTo, RegInv, Task, Alias
      <3>3. \A t \in registry : t[1] # c
        BY <2>1 DEF TightInv, Kept, Holds
      <3>4. \A t \in registry' : t[1] = c => Kept(t)'
        BY <2>1, <3>1, <3>2, <3>3 DEF Kept, Holds, Synchronous
      <3>5. \A t \in registry' : t[1] # c => t \in registry
        BY <3>1, <3>2
      <3>6. "clientHost" \in Places
        BY DEF Places
      <3> QED BY <3>1, <3>4, <3>5, <3>6, OneMoves, TightStep
    <2>3. CASE Alias(c) \notin Readable(pol[c])
      BY <1>3, <2>1, <2>3, TightRaise DEF Create
    <2> QED BY <2>2, <2>3
  <1>4. ASSUME NEW c \in Calls, ClientHost(c) \/ ClientCreds(c) PROVE TightInv'
    <2>1. pc[c] \in {"clientHost", "clientCreds"}
      BY <1>4 DEF ClientHost, ClientCreds, At
    <2>2. \/ Raise(c)
          \/ /\ \/ GoTo(c, "clientCreds")
                \/ GoTo(c, IF Kind[c] = "async" THEN "start" ELSE "event")
             /\ todo' = todo /\ failed' = failed /\ registry' = registry
      BY <1>4 DEF ClientHost, ClientCreds, frame, reply
    <2> QED BY <2>1, <2>2, TightRaise, TightOn
  <1>5. ASSUME NEW c \in Calls, GetEvent(c) \/ Connect(c) \/ ConnectFails(c) \/ Return(c)
        PROVE TightInv'
    <2>1. pc[c] \in {"event", "connect", "running"}
      BY <1>5 DEF GetEvent, Connect, ConnectFails, Return, At
    <2>2. /\ GoTo(c, "connect") \/ GoTo(c, "running") \/ GoTo(c, "cleanup")
          /\ todo' = todo /\ failed' = failed /\ registry' = registry
      BY <1>5 DEF GetEvent, Connect, ConnectFails, Return, frame, cancels, reply
    <2> QED BY <2>1, <2>2, TightOn
  <1>6. ASSUME NEW c \in Calls, Cleanup(c) PROVE TightInv'
    <2>1. /\ pc[c] = "cleanup" /\ GoTo(c, "audit") /\ todo' = todo /\ failed' = failed
          /\ registry' = registry \ {Task(c)}
      BY <1>6 DEF Cleanup, At, frame, reply
    <2>2. \A t \in registry : t[1] = c => t = Task(c)
      BY <2>1 DEF TightInv, Kept, Holds
    <2>3. \A t \in registry' : t \in registry /\ t[1] # c
      BY <2>1, <2>2
    <2>4. "audit" \in Places
      BY DEF Places
    <2> QED BY <2>1, <2>3, <2>4, OneMoves, TightStep
  <1>7. ASSUME NEW c \in Calls, Audit(c) \/ Start(c) PROVE TightInv'
    <2>1. pc[c] \in {"audit", "start"} /\ registry' = registry
      BY <1>7 DEF Audit, Start, At, cancels
    <2>2. \/ Tell(c, "peer") \/ Tell(c, "result") \/ Fail(c)
          \/ GoTo(c, "done") /\ todo' = todo /\ failed' = failed
      BY <1>7 DEF Audit, Start, frame
    <2>3. "done" \in Places /\ "peer" \in Whats /\ "result" \in Whats
      BY DEF Places, Whats
    <2> QED BY <2>1, <2>2, <2>3, OneMoves, TightBefore
  <1>8. CASE \/ \E c \in Calls : Work(c)
             \/ \E t \in Tasks : AskCancel(t) \/ HandleCancel(t)
             \/ Reload
             \/ \E f \in Files : Edit(f)
             \/ UNCHANGED vars
    BY <1>8, TightOutside DEF Work, AskCancel, HandleCancel, Reload, StartReload,
       LoadCredentials, FinishReload, Edit, vars, frame, cancels, reply
  <1> QED
    BY <1>1, <1>2, <1>3, <1>4, <1>5, <1>6, <1>7, <1>8 DEF Next, HandlerStep

\* The registry holds the tasks that are being worked on, and besides them only
\* those an ssh_run that ended in an error has left behind.
THEOREM RegistryIsTight == Spec => []RegistryTight
  <1>1. TightInv => RegistryTight
    BY DEF TightInv, Kept, RegistryTight
  <1> QED BY <1>1, InitReg, NextReg, InitTight, NextTight, PTL DEF Spec

-----------------------------------------------------------------------------
(* One event loop.                                                           *)

\* A call that is in its handler has read the configuration of now, and no
\* reload is under way; afterwards it has read that one and no other.
OneReading(c) ==
    /\ pc[c] = "idle" => gens[c] = {}
    /\ pc[c] \notin {"idle", "done"} => gens[c] = {reloads} /\ loading = <<>>
    /\ gens[c] = {} \/ \E n : gens[c] = {n}

LoopInv ==
    ~Threaded => /\ gens = [c \in Calls |-> gens[c]]
                 /\ \A c \in Calls : OneReading(c)

\* A step of a handler, which reads what it may read.
LEMMA LoopCall ==
  ASSUME RegInv, LoopInv, NEW c \in Calls, pc[c] # "done",
         pc[c] = "idle" => loading = <<>>,
         reloads' = reloads, loading' = loading,
         gens' = Noted(c) \/ (gens' = gens /\ pc[c] # "idle"),
         pc'[c] # "idle", \A d \in Calls : d # c => pc'[d] = pc[d]
  PROVE  LoopInv'
  <1> SUFFICES ASSUME ~Threaded PROVE LoopInv'
    BY DEF LoopInv
  <1>1. gens' = [d \in Calls |-> gens'[d]]
    BY DEF LoopInv, Noted
  <1>2. gens'[c] = {reloads}
    BY DEF LoopInv, OneReading, Noted
  <1>3. OneReading(c)'
    BY <1>2 DEF LoopInv, OneReading
  <1>4. ASSUME NEW d \in Calls, d # c PROVE OneReading(d)'
    <2>1. gens'[d] = gens[d] /\ pc'[d] = pc[d]
      BY <1>4 DEF LoopInv, Noted
    <2> QED BY <2>1, <1>4 DEF LoopInv, OneReading
  <1> QED BY <1>1, <1>3, <1>4 DEF LoopInv

\* A step outside the handlers that leaves the configuration alone.
LEMMA LoopOutside ==
  ASSUME LoopInv, pc' = pc, gens' = gens, reloads' = reloads, loading' = loading
  PROVE  LoopInv'
  BY DEF LoopInv, OneReading

\* A step of a reload: it begins when no call is in its handler.
LEMMA LoopReload ==
  ASSUME LoopInv, Reload
  PROVE  LoopInv'
  <1> SUFFICES ASSUME ~Threaded PROVE LoopInv'
    BY DEF LoopInv
  <1>1. pc' = pc /\ gens' = gens
    BY DEF Reload, StartReload, LoadCredentials, FinishReload, trail
  <1>2. \A c \in Calls : pc[c] \in {"idle", "done"}
    <2>1. CASE StartReload
      BY <2>1 DEF StartReload, MayEnter
    <2>2. CASE LoadCredentials \/ FinishReload
      <3>1. loading # <<>>
        BY <2>2 DEF LoadCredentials, FinishReload
      <3> QED BY <3>1 DEF LoopInv, OneReading
    <2> QED BY <2>1, <2>2 DEF Reload
  <1> QED BY <1>1, <1>2 DEF LoopInv, OneReading

\* No call has read anything when the server starts.
LEMMA InitLoop == Init => LoopInv
  BY DEF Init, LoopInv, OneReading

\* On one loop every step keeps the reading of each call to one configuration.
LEMMA NextLoop == RegInv /\ LoopInv /\ [Next]_vars => LoopInv'
  <1> SUFFICES ASSUME RegInv, LoopInv, [Next]_vars PROVE LoopInv'
    OBVIOUS
  <1>1. ASSUME NEW c \in Calls, HandlerStep(c) \/ Return(c) PROVE LoopInv'
    <2>1. /\ pc[c] # "done" /\ reloads' = reloads /\ loading' = loading
          /\ gens' = Noted(c) \/ (gens' = gens /\ pc[c] # "idle")
      BY <1>1 DEF HandlerStep, Begin, GetHost, GetTags, Decide, Precheck, Create,
         ClientHost, ClientCreds, GetEvent, Connect, ConnectFails, Return, Cleanup,
         Audit, Start, At, Reads, config, trail
    <2>2. \E p \in Places \ {"idle"} : GoTo(c, p)
      BY <1>1 DEF HandlerStep, Begin, GetHost, GetTags, Decide, Precheck, Create,
         ClientHost, ClientCreds, GetEvent, Connect, ConnectFails, Return, Cleanup,
         Audit, Start, Raise, Tell, Fail, Places
    <2>3. pc'[c] # "idle" /\ \A d \in Calls : d # c => pc'[d] = pc[d]
      BY <2>2 DEF GoTo, RegInv
    <2>4. ~Threaded /\ pc[c] = "idle" => loading = <<>>
      BY <1>1 DEF HandlerStep, Begin, GetHost, GetTags, Decide, Precheck, Create,
         ClientHost, ClientCreds, GetEvent, Connect, ConnectFails, Return, Cleanup,
         Audit, Start, At, MayEnter
    <2>5. CASE Threaded
      BY <2>5 DEF LoopInv
    <2>6. CASE ~Threaded
      BY <2>1, <2>3, <2>4, <2>6, LoopCall
    <2> QED BY <2>5, <2>6
  <1>2. CASE Reload
    BY <1>2, LoopReload
  <1>3. CASE \/ \E c \in Calls : Work(c)
             \/ \E t \in Tasks : AskCancel(t) \/ HandleCancel(t)
             \/ \E f \in Files : Edit(f)
             \/ UNCHANGED vars
    BY <1>3, LoopOutside DEF Work, AskCancel, HandleCancel, Edit, vars, config, trail
  <1> QED
    BY <1>1, <1>2, <1>3 DEF Next

\* On one event loop each call is decided and run under one configuration,
\* however often the files are saved and reloaded.
THEOREM ReadsOneConfiguration ==
  ASSUME ~Threaded
  PROVE  Spec => []OneConfiguration
  <1>1. LoopInv => OneConfiguration
    <2> SUFFICES ASSUME LoopInv, NEW c \in Calls PROVE Cardinality(gens[c]) <= 1
      BY DEF OneConfiguration
    <2>1. gens[c] = {} \/ \E n : gens[c] = {n}
      BY DEF LoopInv, OneReading
    <2>2. CASE gens[c] = {}
      BY <2>2, FS_EmptySet
    <2>3. ASSUME NEW n, gens[c] = {n} PROVE Cardinality(gens[c]) <= 1
      <3>1. Cardinality({n}) = 1
        BY FS_Singleton
      <3> QED BY <2>3, <3>1
    <2> QED BY <2>1, <2>2, <2>3
  <1> QED BY <1>1, InitReg, NextReg, InitLoop, NextLoop, PTL DEF Spec

-----------------------------------------------------------------------------
(* One event loop: the hosts of a tag.                                       *)

FilesTyped ==
    /\ disk \in [Files -> Versions] /\ data \in [Files -> Versions]
    /\ loading \in Seq(Versions)

\* A call of ssh_run_on_tag that is in its handler has hosts left, all of them
\* in the configuration of now; it has not failed, and ends with none left.
HostsLeft(c) ==
    Kind[c] = "tag" =>
        /\ ~failed[c] /\ pc[c] # "start"
        /\ pc[c] = "done" => todo[c] = <<>>
        /\ pc[c] \notin {"idle", "done"} =>
               todo[c] \in Seq(Hosts(data["servers"])) /\ todo[c] # <<>>

TagInv == FilesTyped /\ (~Threaded => \A c \in Calls : HostsLeft(c))

\* The files and what is read of them are versions.
LEMMA FilesStep == FilesTyped /\ [Next]_vars => FilesTyped'
  <1> SUFFICES ASSUME FilesTyped, [Next]_vars PROVE FilesTyped'
    OBVIOUS
  <1>0. \A f \in Files : Content(f) \subseteq Versions
    BY ToolAssumption DEF Content, FilesTyped
  <1>1. CASE \/ \E c \in Calls : HandlerStep(c) \/ Return(c) \/ Work(c)
             \/ \E t \in Tasks : AskCancel(t) \/ HandleCancel(t)
             \/ UNCHANGED vars
    <2>1. UNCHANGED config
      BY <1>1 DEF HandlerStep, Begin, GetHost, GetTags, Decide, Precheck, Create,
         ClientHost, ClientCreds, GetEvent, Connect, ConnectFails, Return, Cleanup,
         Audit, Start, Work, AskCancel, HandleCancel, vars
    <2> QED BY <2>1 DEF config, FilesTyped
  <1>2. CASE StartReload
    <2>1. PICK v \in Versions : loading' = <<v>>
      BY <1>0, <1>2 DEF StartReload, Files
    <2> QED BY <1>2, <2>1 DEF StartReload, FilesTyped
  <1>3. CASE LoadCredentials
    <2>1. PICK v \in Versions : loading' = Append(loading, v)
      BY <1>0, <1>3 DEF LoadCredentials, Files
    <2> QED BY <1>3, <2>1 DEF LoadCredentials, FilesTyped
  <1>4. CASE FinishReload
    <2>1. PICK v \in Versions :
            data' = [servers |-> loading[1], credentials |-> loading[2], policy |-> v]
      BY <1>0, <1>4 DEF FinishReload, Files
    <2>2. loading[1] \in Versions /\ loading[2] \in Versions
      <3>1. ASSUME NEW S, NEW s \in Seq(S), Len(s) = 2 PROVE s[1] \in S /\ s[2] \in S
        <4>1. 1 \in 1..Len(s) /\ 2 \in 1..Len(s)
          BY <3>1
        <4> QED BY <4>1
      <3> QED BY <1>4, <3>1 DEF FinishReload, FilesTyped
    <2>3. data' \in [Files -> Versions]
      BY <2>1, <2>2 DEF Files
    <2> QED BY <1>4, <2>3 DEF FinishReload, FilesTyped
  <1>5. ASSUME NEW f \in Files, Edit(f) PROVE FilesTyped'
    BY <1>5 DEF Edit, FilesTyped
  <1> QED BY <1>1, <1>2, <1>3, <1>4, <1>5 DEF Next, Reload

\* A step of call c under the configuration it began with.
LEMMA TagStep ==
  ASSUME \A d \in Calls : HostsLeft(d), NEW c \in Calls, data' = data,
         \A d \in Calls : d # c => /\ pc'[d] = pc[d] /\ todo'[d] = todo[d]
                                   /\ failed'[d] = failed[d],
         HostsLeft(c)'
  PROVE  \A d \in Calls : HostsLeft(d)'
  BY DEF HostsLeft

\* The current host is done with: the next one, or the end.
LEMMA TagTell ==
  ASSUME RegInv, TightInv, NEW c \in Calls, HostsLeft(c), NEW what,
         Tell(c, what), pc[c] \notin {"idle", "done"}, data' = data
  PROVE  HostsLeft(c)'
  <1> SUFFICES ASSUME Kind[c] = "tag" PROVE HostsLeft(c)'
    BY DEF HostsLeft
  <1>1. todo[c] \in Seq(Hosts(data["servers"])) /\ todo[c] # <<>> /\ ~failed[c]
    BY DEF HostsLeft
  <1>2. todo'[c] = Tail(todo[c]) /\ failed'[c] = failed[c]
    BY DEF Tell, RegInv
  <1>3. todo'[c] \in Seq(Hosts(data["servers"]))
    <2>1. \A S, s : s \in Seq(S) /\ s # <<>> => Tail(s) \in Seq(S)
      OBVIOUS
    <2> QED BY <1>1, <1>2, <2>1
  <1>4. pc'[c] = IF todo'[c] = <<>> THEN "done" ELSE "host"
    BY <1>2 DEF Tell, GoTo, RegInv
  <1> QED BY <1>1, <1>2, <1>3, <1>4 DEF HostsLeft

\* A step forward with the same hosts.
LEMMA TagOn ==
  ASSUME RegInv, NEW c \in Calls, HostsLeft(c), NEW p \in Places \ {"idle", "done"},
         p = "start" => Kind[c] # "tag", GoTo(c, p), todo' = todo, failed' = failed,
         pc[c] \notin {"idle", "done"}, data' = data
  PROVE  HostsLeft(c)'
  <1>1. pc'[c] = p
    BY DEF GoTo, RegInv
  <1> QED BY <1>1 DEF HostsLeft

\* No call has begun when the server starts.
LEMMA InitTag == Init => TagInv
  BY ToolAssumption DEF Init, TagInv, FilesTyped, HostsLeft

\* On one loop every step leaves a tag's run only hosts of the configuration.
LEMMA NextTag == RegInv /\ TightInv /\ LoopInv /\ TagInv /\ [Next]_vars => TagInv'
  <1> SUFFICES ASSUME RegInv, TightInv, LoopInv, TagInv, [Next]_vars, ~Threaded
               PROVE  \A c \in Calls : HostsLeft(c)'
    BY FilesStep DEF TagInv
  <1>0. \A c \in Calls : HostsLeft(c)
    BY DEF TagInv
  <1>1. ASSUME NEW c \in Calls, Begin(c) PROVE \A d \in Calls : HostsLeft(d)'
    <2>1. PICK hosts \in IF Kind[c] = "tag" THEN {Tagged(data["servers"])}
                                            ELSE {<<a>> : a \in Aliases} :
            /\ todo' = [todo EXCEPT ![c] = hosts]
            /\ GoTo(c, IF hosts = <<>> THEN "done" ELSE "host")
      BY <1>1 DEF Begin
    <2>2. data' = data /\ failed' = failed
      BY <1>1 DEF Begin, config, reply
    <2>3. /\ todo'[c] = hosts /\ pc'[c] = IF hosts = <<>> THEN "done" ELSE "host"
          /\ \A d \in Calls : d # c => pc'[d] = pc[d] /\ todo'[d] = todo[d]
      BY <2>1 DEF GoTo, RegInv
    <2>4. Kind[c] = "tag" => hosts \in Seq(Hosts(data["servers"]))
      <3>1. data["servers"] \in Versions
        BY DEF TagInv, FilesTyped, Files
      <3> QED BY <2>1, <3>1, ToolAssumption
    <2>5. HostsLeft(c)'
      BY <1>0, <2>2, <2>3, <2>4 DEF HostsLeft
    <2> QED BY <1>0, <2>2, <2>3, <2>5, TagStep
  <1>2. ASSUME NEW c \in Calls,
               HandlerStep(c) \/ Return(c), pc[c] # "idle"
        PROVE  \A d \in Calls : HostsLeft(d)'
    <2>1. pc[c] \notin {"idle", "done"} /\ data' = data
      BY <1>2 DEF HandlerStep, Begin, GetHost, GetTags, Decide, Precheck, Create,
         ClientHost, ClientCreds, GetEvent, Connect, ConnectFails, Return, Cleanup,
         Audit, Start, At, config
    <2>2. Kind[c] = "tag" => /\ pc[c] # "start"
                             /\ Head(todo[c]) \in Hosts(data["servers"])
      BY <1>0, <2>1 DEF HostsLeft
    <2>3. \/ \E what \in Whats : Tell(c, what)
          \/ Fail(c) /\ Kind[c] # "tag"
          \/ /\ \E p \in Places \ {"idle"} : /\ GoTo(c, p)
                                             /\ p \in {"start", "done"} => Kind[c] # "tag"
             /\ todo' = todo /\ failed' = failed
      <3>1. CASE Create(c) \/ ClientHost(c) \/ ClientCreds(c)
        <4>1. CASE Raise(c)
          BY <4>1 DEF Raise, Whats
        <4>2. CASE ~Raise(c)
          BY <3>1, <4>2 DEF Create, ClientHost, ClientCreds, frame, reply, Places
        <4> QED BY <4>1, <4>2
      <3>2. CASE GetHost(c) \/ GetTags(c) \/ Decide(c) \/ Precheck(c)
        BY <2>2, <3>2 DEF GetHost, GetTags, Decide, Precheck, Alias, frame, reply,
           Places, Whats
      <3>3. CASE GetEvent(c) \/ Connect(c) \/ ConnectFails(c) \/ Return(c) \/ Cleanup(c)
        BY <3>3 DEF GetEvent, Connect, ConnectFails, Return, Cleanup, frame, reply, Places
      <3>4. CASE Audit(c)
        BY <3>4 DEF Audit, Whats
      <3>5. CASE Start(c)
        BY <2>2, <3>5 DEF Start, At, frame, Places
      <3> QED BY <1>2, <3>1, <3>2, <3>3, <3>4, <3>5 DEF HandlerStep, Begin, At
    <2>4. HostsLeft(c)'
      <3>1. CASE \E what \in Whats : Tell(c, what)
        BY <1>0, <2>1, <3>1, TagTell
      <3>2. CASE Kind[c] # "tag"
        BY <3>2 DEF HostsLeft
      <3>3. CASE /\ Kind[c] = "tag"
                 /\ \E p \in Places \ {"idle", "start", "done"} : GoTo(c, p)
                 /\ todo' = todo /\ failed' = failed
        BY <1>0, <2>1, <3>3, TagOn
      <3> QED BY <2>3, <3>1, <3>2, <3>3
    <2>5. \A d \in Calls : d # c => /\ pc'[d] = pc[d] /\ todo'[d] = todo[d]
                                    /\ failed'[d] = failed[d]
      BY <2>3, OneMoves
    <2> QED BY <1>0, <2>1, <2>4, <2>5, TagStep
  <1>3. CASE Reload
    <2>1. pc' = pc /\ todo' = todo /\ failed' = failed
      BY <1>3 DEF Reload, StartReload, LoadCredentials, FinishReload, frame, reply
    <2>2. CASE FinishReload
      <3>1. loading # <<>>
        BY <2>2 DEF FinishReload
      <3>2. \A c \in Calls : pc[c] \in {"idle", "done"}
        BY <3>1 DEF LoopInv, OneReading
      <3> QED BY <1>0, <2>1, <3>2 DEF HostsLeft
    <2>3. CASE StartReload \/ LoadCredentials
      <3>1. data' = data
        BY <2>3 DEF StartReload, LoadCredentials
      <3> QED BY <1>0, <2>1, <3>1 DEF HostsLeft
    <2> QED BY <1>3, <2>2, <2>3 DEF Reload
  <1>4. CASE \/ \E c \in Calls : Work(c)
             \/ \E t \in Tasks : AskCancel(t) \/ HandleCancel(t)
             \/ \E f \in Files : Edit(f)
             \/ UNCHANGED vars
    <2>1. pc' = pc /\ todo' = todo /\ failed' = failed /\ data' = data
      BY <1>4 DEF Work, AskCancel, HandleCancel, Edit, vars, config, frame, reply
    <2> QED BY <1>0, <2>1 DEF HostsLeft
  <1>5. \A c \in Calls : HandlerStep(c) /\ pc[c] = "idle" => Begin(c)
    BY DEF HandlerStep, GetHost, GetTags, Decide, Precheck, Create, ClientHost,
       ClientCreds, GetEvent, Connect, ConnectFails, Cleanup, Audit, Start, At
  <1>6. \A c \in Calls : Return(c) => pc[c] # "idle"
    BY DEF Return, At
  <1> QED BY <1>1, <1>2, <1>3, <1>4, <1>5, <1>6 DEF Next

\* On one event loop ssh_run_on_tag comes to the end of its hosts, however many
\* of them fail: none is missing from the configuration it began with.
THEOREM TagRunsToTheEnd ==
  ASSUME ~Threaded
  PROVE  Spec => []TagAnswersAll
  <1>1. TagInv => TagAnswersAll
    BY DEF TagInv, HostsLeft, TagAnswersAll, At
  <1> QED
    BY <1>1, InitReg, NextReg, InitTight, NextTight, InitLoop, NextLoop, InitTag,
       NextTag, PTL DEF Spec

-----------------------------------------------------------------------------
(* The audit records.                                                        *)

Distinct(s) == \A i, j \in 1..Len(s) : s[i] = s[j] => i = j
Ahead(c, a) == \E i \in 1..Len(todo[c]) : todo[c][i] = a
Pending(c) == pc[c] \in {"cleanup", "audit"}

\* What is behind a synchronous call has returned and has its record, what it
\* works on may have returned without one, what is ahead of it has neither.
Recorded(c) ==
    Synchronous(c) =>
        /\ jobs[c] = "none" /\ pc[c] # "start"
        /\ todo[c] \in Seq(Aliases) /\ Distinct(todo[c])
        /\ pc[c] \notin {"idle", "done"} => todo[c] # <<>>
        /\ Pending(c) => Task(c) \in returned
        /\ \A a \in Aliases :
             /\ <<c, a>> \in returned =>
                    /\ pc[c] # "idle"
                    /\ Ahead(c, a) => Pending(c) /\ a = Alias(c)
             /\ audits[<<c, a>>] = IF /\ <<c, a>> \in returned
                                      /\ ~(Pending(c) /\ a = Alias(c)) THEN 1 ELSE 0

AuditInv ==
    /\ audits = [t \in Tasks |-> audits[t]] /\ jobs = [c \in Calls |-> jobs[c]]
    /\ \A c \in Calls : Recorded(c)

\* Going on to the next of distinct hosts.
LEMMA DistinctTail ==
  ASSUME NEW S, NEW s \in Seq(S), s # <<>>, Distinct(s)
  PROVE  /\ Tail(s) \in Seq(S) /\ Distinct(Tail(s)) /\ Head(s) \in S
         /\ \A i \in 1..Len(Tail(s)) : Tail(s)[i] # Head(s)
         /\ \A i \in 1..Len(Tail(s)) : \E j \in 1..Len(s) : Tail(s)[i] = s[j]
         /\ \E j \in 1..Len(s) : s[j] = Head(s)
  <1>1. /\ Tail(s) \in Seq(S) /\ Len(s) \in Nat /\ Len(s) > 0
        /\ Len(Tail(s)) = Len(s) - 1 /\ Head(s) = s[1] /\ s[1] \in S
    OBVIOUS
  <1>2. \A i \in 1..Len(Tail(s)) : Tail(s)[i] = s[i + 1] /\ i + 1 \in 1..Len(s)
    BY <1>1
  <1>3. 1 \in 1..Len(s)
    BY <1>1
  <1>4. Distinct(Tail(s))
    <2> SUFFICES ASSUME NEW i \in 1..Len(Tail(s)), NEW j \in 1..Len(Tail(s)),
                        Tail(s)[i] = Tail(s)[j]
                 PROVE  i = j
      BY DEF Distinct
    <2>1. i + 1 = j + 1
      BY <1>2 DEF Distinct
    <2> QED BY <2>1
  <1>5. \A i \in 1..Len(Tail(s)) : Tail(s)[i] # Head(s)
    <2> SUFFICES ASSUME NEW i \in 1..Len(Tail(s)), Tail(s)[i] = Head(s) PROVE FALSE
      OBVIOUS
    <2>1. i + 1 = 1
      BY <1>1, <1>2, <1>3 DEF Distinct
    <2> QED BY <2>1
  <1> QED BY <1>1, <1>2, <1>3, <1>4, <1>5

\* A step of call c is nothing to the records of the others.
LEMMA RecordStep ==
  ASSUME AuditInv, NEW c \in Calls,
         \A d \in Calls : d # c => /\ pc'[d] = pc[d] /\ todo'[d] = todo[d]
                                   /\ jobs'[d] = jobs[d],
         \A d \in Calls, a \in Aliases :
             d # c => /\ <<d, a>> \in returned' <=> <<d, a>> \in returned
                      /\ audits'[<<d, a>>] = audits[<<d, a>>],
         \A d \in Calls : d # c /\ Task(d) \in returned => Task(d) \in returned',
         audits' = [t \in Tasks |-> audits'[t]], jobs' = [d \in Calls |-> jobs'[d]],
         Recorded(c)'
  PROVE  AuditInv'
  <1>1. ASSUME NEW d \in Calls, d # c PROVE Recorded(d)'
    <2>1. Recorded(d)
      BY DEF AuditInv
    <2>2. /\ Pending(d)' = Pending(d) /\ Alias(d)' = Alias(d) /\ Task(d)' = Task(d)
          /\ \A a : Ahead(d, a)' = Ahead(d, a)
      BY <1>1 DEF Pending, Alias, Task, Ahead
    <2> QED BY <1>1, <2>1, <2>2 DEF Recorded, Synchronous
  <1> QED BY <1>1 DEF AuditInv

\* A step that leaves returns and records alone, and neither begins nor ends
\* the time between the two.
LEMMA RecordOn ==
  ASSUME RegInv, AuditInv, NEW c \in Calls, NEW p \in Places \ {"idle"},
         pc[c] \notin {"idle", "done"}, GoTo(c, p), todo' = todo,
         returned' = returned, audits' = audits, jobs' = jobs,
         p = "start" => ~Synchronous(c),
         (p \in {"cleanup", "audit"}) = Pending(c)
  PROVE  AuditInv'
  <1>1. pc'[c] = p /\ \A d \in Calls : d # c => pc'[d] = pc[d]
    BY DEF GoTo, RegInv
  <1>2. /\ Pending(c)' = Pending(c) /\ Alias(c)' = Alias(c) /\ Task(c)' = Task(c)
        /\ \A a : Ahead(c, a)' = Ahead(c, a)
    BY <1>1 DEF Pending, Alias, Task, Ahead
  <1>3. Recorded(c)'
    BY <1>1, <1>2 DEF AuditInv, Recorded, Synchronous
  <1>4. audits' = [t \in Tasks |-> audits'[t]] /\ jobs' = [d \in Calls |-> jobs'[d]]
    BY DEF AuditInv
  <1> QED BY <1>1, <1>3, <1>4, RecordStep

\* The current host is done with before its command was begun.
LEMMA RecordTell ==
  ASSUME RegInv, AuditInv, NEW c \in Calls, NEW what,
         Tell(c, what), pc[c] \notin {"idle", "done"}, ~Pending(c),
         returned' = returned, audits' = audits, jobs' = jobs
  PROVE  AuditInv'
  <1>1. /\ todo'[c] = Tail(todo[c])
        /\ \A d \in Calls : d # c => pc'[d] = pc[d] /\ todo'[d] = todo[d]
        /\ pc'[c] = IF Tail(todo[c]) = <<>> THEN "done" ELSE "host"
    BY DEF Tell, GoTo, RegInv
  <1>2. Recorded(c)'
    <2> SUFFICES ASSUME Synchronous(c) PROVE Recorded(c)'
      BY DEF Recorded, Synchronous
    <2>1. todo[c] \in Seq(Aliases) /\ Distinct(todo[c]) /\ todo[c] # <<>>
      BY DEF AuditInv, Recorded
    <2>2. todo'[c] \in Seq(Aliases) /\ Distinct(todo'[c])
      BY <1>1, <2>1, DistinctTail
    <2>3. \A a : Ahead(c, a)' => Ahead(c, a)
      BY <1>1, <2>1, DistinctTail DEF Ahead
    <2>4. ~Pending(c)'
      BY <1>1 DEF Pending
    <2> QED BY <1>1, <2>2, <2>3, <2>4 DEF AuditInv, Recorded
  <1>3. audits' = [t \in Tasks |-> audits'[t]] /\ jobs' = [d \in Calls |-> jobs'[d]]
    BY DEF AuditInv
  <1> QED BY <1>1, <1>2, <1>3, RecordStep

\* The handler ends in an error before its command was begun.
LEMMA RecordFail ==
  ASSUME RegInv, AuditInv, NEW c \in Calls, Fail(c),
         pc[c] \notin {"idle", "done"}, ~Pending(c),
         returned' = returned, audits' = audits, jobs' = jobs
  PROVE  AuditInv'
  <1>1. "done" \in Places \ {"idle"} /\ GoTo(c, "done") /\ todo' = todo
    BY DEF Fail, frame, Places
  <1>2. ("done" \in {"cleanup", "audit"}) = Pending(c)
    BY DEF Pending
  <1> QED BY <1>1, <1>2, RecordOn

\* run_streaming returns: the record of its task is still to be written.
LEMMA RecordReturn ==
  ASSUME RegInv, AuditInv, NEW c \in Calls, Synchronous(c),
         pc[c] \in {"connect", "running"}, GoTo(c, "cleanup"), todo' = todo,
         returned' = returned \cup {Task(c)}, audits' = audits, jobs' = jobs
  PROVE  AuditInv'
  <1>1. pc'[c] = "cleanup" /\ \A d \in Calls : d # c => pc'[d] = pc[d]
    BY DEF GoTo, RegInv
  <1>2. Pending(c)' /\ ~Pending(c) /\ Alias(c)' = Alias(c) /\ Task(c)' = Task(c)
    BY <1>1 DEF Pending, Alias, Task
  <1>3. todo[c] \in Seq(Aliases) /\ todo[c] # <<>> /\ Distinct(todo[c]) /\ Recorded(c)
    BY DEF AuditInv, Recorded
  <1>4. Alias(c) \in Aliases /\ Ahead(c, Alias(c))
    BY <1>3, DistinctTail DEF Alias, Ahead
  <1>5. Task(c) \notin returned
    BY <1>2, <1>3, <1>4 DEF Recorded, Task
  <1>6. \A a \in Aliases : /\ Ahead(c, a)' = Ahead(c, a)
                           /\ <<c, a>> \in returned' <=> <<c, a>> \in returned \/ a = Alias(c)
    BY DEF Ahead, Task
  <1>7. Recorded(c)'
    BY <1>1, <1>2, <1>3, <1>5, <1>6 DEF Recorded, Task
  <1>8. \A d \in Calls, a \in Aliases :
          d # c => (<<d, a>> \in returned' <=> <<d, a>> \in returned)
    BY DEF Task
  <1>9. audits' = [t \in Tasks |-> audits'[t]] /\ jobs' = [d \in Calls |-> jobs'[d]]
    BY DEF AuditInv
  <1> QED BY <1>1, <1>7, <1>8, <1>9, RecordStep

\* The record is written, and the host is done with.
LEMMA RecordAudit ==
  ASSUME RegInv, AuditInv, NEW c \in Calls, Synchronous(c), NEW what,
         pc[c] = "audit", Tell(c, what), audits' = [audits EXCEPT ![Task(c)] = @ + 1],
         returned' = returned, jobs' = jobs
  PROVE  AuditInv'
  <1>1. /\ todo'[c] = Tail(todo[c])
        /\ \A d \in Calls : d # c => pc'[d] = pc[d] /\ todo'[d] = todo[d]
        /\ pc'[c] = IF Tail(todo[c]) = <<>> THEN "done" ELSE "host"
    BY DEF Tell, GoTo, RegInv
  <1>2. /\ todo[c] \in Seq(Aliases) /\ todo[c] # <<>> /\ Distinct(todo[c])
        /\ Recorded(c) /\ Pending(c) /\ ~Pending(c)'
    BY <1>1 DEF AuditInv, Recorded, Pending
  <1>3. /\ Alias(c) \in Aliases /\ Task(c) \in Tasks
        /\ \A i \in 1..Len(todo'[c]) : todo'[c][i] # Alias(c)
        /\ \A a : Ahead(c, a)' => Ahead(c, a)
        /\ todo'[c] \in Seq(Aliases) /\ Distinct(todo'[c])
    <2>1. /\ Alias(c) \in Aliases /\ todo'[c] \in Seq(Aliases) /\ Distinct(todo'[c])
          /\ \A i \in 1..Len(todo'[c]) : todo'[c][i] # Alias(c)
          /\ \A i \in 1..Len(todo'[c]) :
               \E j \in 1..Len(todo[c]) : todo'[c][i] = todo[c][j]
      BY <1>1, <1>2, DistinctTail DEF Alias
    <2>2. Task(c) \in Tasks
      BY <2>1 DEF Task, Tasks
    <2>3. \A a : Ahead(c, a)' => Ahead(c, a)
      BY <2>1 DEF Ahead
    <2> QED BY <2>1, <2>2, <2>3
  <1>4. Task(c) \in returned /\ audits[Task(c)] = 0
    BY <1>2, <1>3 DEF Recorded, Task
  <1>5. /\ audits'[Task(c)] = 1
        /\ \A t \in Tasks : t # Task(c) => audits'[t] = audits[t]
        /\ audits' = [t \in Tasks |-> audits'[t]]
    BY <1>3, <1>4 DEF AuditInv
  <1>6. \A a \in Aliases :
          audits'[<<c, a>>] = IF <<c, a>> \in returned THEN 1 ELSE 0
    <2> SUFFICES ASSUME NEW a \in Aliases
                 PROVE  audits'[<<c, a>>] = IF <<c, a>> \in returned THEN 1 ELSE 0
      OBVIOUS
    <2>1. CASE a = Alias(c)
      BY <1>4, <1>5, <2>1 DEF Task
    <2>2. CASE a # Alias(c)
      <3>1. <<c, a>> \in Tasks /\ <<c, a>> # Task(c)
        BY <2>2 DEF Tasks, Task
      <3> QED BY <1>2, <1>5, <2>2, <3>1 DEF Recorded
    <2> QED BY <2>1, <2>2
  <1>7. Recorded(c)'
    <2>1. \A a \in Aliases : Ahead(c, a)' => <<c, a>> \notin returned
      BY <1>2, <1>3 DEF Recorded, Ahead
    <2>2. /\ jobs[c] = "none" /\ pc'[c] \in {"host", "done"}
          /\ pc'[c] # "done" => todo'[c] # <<>>
      BY <1>1, <1>2 DEF Recorded
    <2> QED BY <1>2, <1>3, <1>6, <2>1, <2>2 DEF Recorded
  <1>8. \A d \in Calls, a \in Aliases : d # c => audits'[<<d, a>>] = audits[<<d, a>>]
    BY <1>5 DEF Tasks, Task
  <1>9. jobs' = [d \in Calls |-> jobs'[d]]
    BY DEF AuditInv
  <1> QED BY <1>1, <1>5, <1>7, <1>8, <1>9, RecordStep

\* A worker of ssh_run_async is nothing to the records of synchronous calls.
LEMMA RecordWork ==
  ASSUME AuditInv, NEW c \in Calls, Work(c)
  PROVE  AuditInv'
  <1>1. /\ pc' = pc /\ todo' = todo /\ audits' = audits
        /\ jobs[c] # "none" /\ \E x : jobs' = [jobs EXCEPT ![c] = x]
        /\ returned' = returned \/ returned' = returned \cup {Task(c)}
    BY DEF Work, frame
  <1>2. ~Synchronous(c)
    BY <1>1 DEF AuditInv, Recorded
  <1>3. Recorded(c)'
    BY <1>2 DEF Recorded, Synchronous
  <1>4. audits' = [t \in Tasks |-> audits'[t]] /\ jobs' = [d \in Calls |-> jobs'[d]]
    BY <1>1 DEF AuditInv
  <1>5. \A d \in Calls : d # c => jobs'[d] = jobs[d]
    BY <1>1 DEF AuditInv
  <1>6. \A d \in Calls, a \in Aliases :
          d # c => (<<d, a>> \in returned' <=> <<d, a>> \in returned)
    BY <1>1 DEF Task
  <1> QED BY <1>1, <1>3, <1>4, <1>5, <1>6, RecordStep

\* Nothing has run when the server starts.
LEMMA InitAudit == Init => AuditInv
  BY DEF Init, AuditInv, Recorded, Distinct, Pending, Ahead, Tasks

\* Assumed of servers.yml: an alias stands in it once, and so in the list of
\* find_hosts_by_tag.  A host that stood there twice would be run on twice, under
\* two task ids that are one task here.
DistinctHosts == \A v \in Versions : Distinct(Tagged(v))

\* Every step leaves one record for each return, where a tag names a host once.
LEMMA NextAudit ==
  RegInv /\ FilesTyped /\ AuditInv /\ DistinctHosts /\ [Next]_vars => AuditInv'
  <1> SUFFICES ASSUME RegInv, FilesTyped, AuditInv, DistinctHosts, [Next]_vars
               PROVE  AuditInv'
    OBVIOUS
  <1>0. \A c \in Calls : Recorded(c) /\ Registered(c)
    BY DEF AuditInv, RegInv
  <1>1. ASSUME NEW c \in Calls, Begin(c) PROVE AuditInv'
    <2>1. PICK hosts \in IF Kind[c] = "tag" THEN {Tagged(data["servers"])}
                                            ELSE {<<a>> : a \in Aliases} :
            /\ todo' = [todo EXCEPT ![c] = hosts]
            /\ GoTo(c, IF hosts = <<>> THEN "done" ELSE "host")
      BY <1>1 DEF Begin
    <2>2. /\ todo'[c] = hosts /\ pc'[c] = IF hosts = <<>> THEN "done" ELSE "host"
          /\ \A d \in Calls : d # c => pc'[d] = pc[d] /\ todo'[d] = todo[d]
      BY <2>1 DEF GoTo, RegInv
    <2>3. hosts \in Seq(Aliases) /\ Distinct(hosts)
      <3>1. data["servers"] \in Versions
        BY DEF FilesTyped, Files
      <3>2. CASE Kind[c] = "tag"
        <4>1. \A S, T, s : s \in Seq(S) /\ S \subseteq T => s \in Seq(T)
          OBVIOUS
        <4> QED BY <2>1, <3>1, <3>2, <4>1, ToolAssumption DEF DistinctHosts
      <3>3. CASE Kind[c] # "tag"
        <4>1. PICK a \in Aliases : hosts = <<a>>
          BY <2>1, <3>3
        <4>2. Len(hosts) = 1 /\ hosts \in Seq(Aliases)
          BY <4>1
        <4> QED BY <4>2 DEF Distinct
      <3> QED BY <3>2, <3>3
    <2>4. pc[c] = "idle" /\ UNCHANGED <<returned, audits, jobs>>
      BY <1>1 DEF Begin, At
    <2>5. Recorded(c)'
      BY <1>0, <2>2, <2>3, <2>4 DEF Recorded, Pending, Synchronous
    <2>6. audits' = [t \in Tasks |-> audits'[t]] /\ jobs' = [d \in Calls |-> jobs'[d]]
      BY <2>4 DEF AuditInv
    <2> QED BY <2>2, <2>4, <2>5, <2>6, RecordStep
  <1>2. ASSUME NEW c \in Calls,
               \/ GetHost(c) \/ GetTags(c) \/ Decide(c) \/ Precheck(c)
               \/ Create(c) \/ ClientHost(c) \/ ClientCreds(c)
        PROVE  AuditInv'
    <2>1. /\ pc[c] \notin {"idle", "done"} /\ ~Pending(c)
          /\ UNCHANGED <<returned, audits, jobs>>
      BY <1>2 DEF GetHost, GetTags, Decide, Precheck, Create, ClientHost,
         ClientCreds, At, Pending, trail
    <2>2. \/ \E what \in Whats : Tell(c, what)
          \/ Fail(c)
          \/ /\ \E p \in {"tags", "policy", "network", "create", "clientHost",
                          "clientCreds", "event", "start"} :
                  GoTo(c, p) /\ (p = "start" => ~Synchronous(c))
             /\ todo' = todo
      <3>1. CASE Create(c) \/ ClientHost(c) \/ ClientCreds(c)
        <4>1. CASE Raise(c)
          BY <4>1 DEF Raise, Whats
        <4>2. CASE ~Raise(c)
          BY <3>1, <4>2 DEF Create, ClientHost, ClientCreds, frame, Synchronous
        <4> QED BY <4>1, <4>2
      <3>2. CASE GetHost(c) \/ GetTags(c) \/ Decide(c) \/ Precheck(c)
        BY <3>2 DEF GetHost, GetTags, Decide, Precheck, frame, Whats
      <3> QED BY <1>2, <3>1, <3>2
    <2>3. CASE \E what \in Whats : Tell(c, what)
      BY <2>1, <2>3, RecordTell
    <2>4. CASE Fail(c)
      BY <2>1, <2>4, RecordFail
    <2>5. ASSUME NEW p \in {"tags", "policy", "network", "create", "clientHost",
                            "clientCreds", "event", "start"},
                 GoTo(c, p), p = "start" => ~Synchronous(c), todo' = todo
          PROVE  AuditInv'
      <3>1. p \in Places \ {"idle"} /\ (p \in {"cleanup", "audit"}) = Pending(c)
        BY <2>1 DEF Places, Pending
      <3> QED BY <2>1, <2>5, <3>1, RecordOn
    <2> QED BY <2>2, <2>3, <2>4, <2>5
  <1>3. ASSUME NEW c \in Calls, GetEvent(c) \/ Connect(c) \/ Cleanup(c)
        PROVE  AuditInv'
    <2>1. /\ todo' = todo /\ UNCHANGED <<returned, audits, jobs>>
          /\ \E p \in {"connect", "running", "audit"} :
               GoTo(c, p) /\ (p = "audit" <=> pc[c] = "cleanup")
          /\ pc[c] \in {"event", "connect", "cleanup"}
      BY <1>3 DEF GetEvent, Connect, Cleanup, At, frame, trail
    <2>2. PICK p \in {"connect", "running", "audit"} :
            GoTo(c, p) /\ (p = "audit" <=> pc[c] = "cleanup")
      BY <2>1
    <2>3. /\ p \in Places \ {"idle"} /\ (p \in {"cleanup", "audit"}) = Pending(c)
          /\ p # "start"
      BY <2>1, <2>2 DEF Places, Pending
    <2> QED BY <2>1, <2>2, <2>3, RecordOn
  <1>4. ASSUME NEW c \in Calls, ConnectFails(c) \/ Return(c) PROVE AuditInv'
    <2>1. /\ pc[c] \in {"connect", "running"} /\ GoTo(c, "cleanup") /\ todo' = todo
          /\ returned' = returned \cup {Task(c)} /\ audits' = audits /\ jobs' = jobs
      BY <1>4 DEF ConnectFails, Return, At, frame
    <2>2. Synchronous(c)
      BY <1>0, <2>1 DEF Registered, Synchronous
    <2> QED BY <2>1, <2>2, RecordReturn
  <1>5. ASSUME NEW c \in Calls, Audit(c) PROVE AuditInv'
    <2>1. /\ pc[c] = "audit" /\ audits' = [audits EXCEPT ![Task(c)] = @ + 1]
          /\ returned' = returned /\ jobs' = jobs
          /\ \E what : Tell(c, what)
      BY <1>5 DEF Audit, At
    <2>2. CASE Synchronous(c)
      BY <2>1, <2>2, RecordAudit
    <2>3. CASE ~Synchronous(c)
      <3>1. PICK what : Tell(c, what)
        BY <2>1
      <3>2. \A d \in Calls : d # c => pc'[d] = pc[d] /\ todo'[d] = todo[d]
        BY <3>1 DEF Tell, GoTo, RegInv
      <3>3. /\ audits' = [t \in Tasks |-> audits'[t]] /\ jobs' = [d \in Calls |-> jobs'[d]]
            /\ \A t \in Tasks : t # Task(c) => audits'[t] = audits[t]
        BY <2>1 DEF AuditInv
      <3>4. \A d \in Calls, a \in Aliases : d # c => audits'[<<d, a>>] = audits[<<d, a>>]
        BY <3>3 DEF Tasks, Task
      <3>5. Recorded(c)'
        BY <2>3 DEF Recorded, Synchronous
      <3> QED BY <2>1, <3>2, <3>3, <3>4, <3>5, RecordStep
    <2> QED BY <2>2, <2>3
  <1>6. ASSUME NEW c \in Calls, Start(c) PROVE AuditInv'
    <2>1. /\ pc[c] = "start" /\ jobs' = [jobs EXCEPT ![c] = "started"]
          /\ returned' = returned /\ audits' = audits /\ todo' = todo
          /\ \A d \in Calls : d # c => pc'[d] = pc[d]
      BY <1>6 DEF Start, At, Fail, GoTo, frame, RegInv
    <2>2. Recorded(c)'
      BY <1>0, <2>1 DEF Recorded, Synchronous
    <2>3. /\ audits' = [t \in Tasks |-> audits'[t]] /\ jobs' = [d \in Calls |-> jobs'[d]]
          /\ \A d \in Calls : d # c => jobs'[d] = jobs[d]
      BY <2>1 DEF AuditInv
    <2> QED BY <2>1, <2>2, <2>3, RecordStep
  <1>7. CASE \/ \E t \in Tasks : AskCancel(t) \/ HandleCancel(t)
             \/ Reload
             \/ \E f \in Files : Edit(f)
             \/ UNCHANGED vars
    <2>1. UNCHANGED <<pc, todo, jobs, returned, audits>>
      BY <1>7 DEF AskCancel, HandleCancel, Reload, StartReload, LoadCredentials,
         FinishReload, Edit, vars, frame, trail
    <2> QED BY <2>1 DEF AuditInv, Recorded, Pending, Ahead, Alias, Task
  <1> QED
    BY <1>1, <1>2, <1>3, <1>4, <1>5, <1>6, <1>7, RecordWork DEF Next, HandlerStep

\* Every run_streaming of ssh_run and ssh_run_on_tag leaves one audit record,
\* peers that are refused included, whatever the scheduling and the reloads are.
THEOREM EveryRunAudited ==
  ASSUME DistinctHosts
  PROVE  Spec => []AuditedOnce
  <1>1. AuditInv => AuditedOnce
    <2> SUFFICES ASSUME AuditInv, NEW t \in Tasks, Synchronous(t[1])
                 PROVE  audits[t] = IF /\ t \in returned
                                       /\ ~(/\ pc[t[1]] \in {"cleanup", "audit"}
                                            /\ t = Task(t[1])) THEN 1 ELSE 0
      BY DEF AuditedOnce
    <2>1. PICK c \in Calls, a \in Aliases : t = <<c, a>>
      BY DEF Tasks
    <2> QED BY <2>1 DEF AuditInv, Recorded, Pending, Task
  <1>2. Init => FilesTyped
    BY InitTag DEF TagInv
  <1> QED BY <1>1, <1>2, InitReg, NextReg, FilesStep, InitAudit, NextAudit, PTL DEF Spec

=============================================================================
