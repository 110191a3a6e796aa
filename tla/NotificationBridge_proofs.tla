----------------------- MODULE NotificationBridge_proofs -----------------------
(***************************************************************************)
(* What a client hears of a task first, and that it can read what it was   *)
(* told: for any number of tasks, whatever their limits, and wherever a    *)
(* cancel is handled.                                                      *)
(***************************************************************************)
EXTENDS NotificationBridge, AsyncTasks_proofs

-----------------------------------------------------------------------------
(* Queues.  C are the elements looked for, D those that must not precede the *)
(* first of them.                                                            *)

Silent(s, D)   == \A j \in DOMAIN s : s[j] \notin D
Leads(s, C, D) == \E k \in DOMAIN s : s[k] \in C /\ \A j \in DOMAIN s : s[j] \in D => k <= j

LEMMA SilentAppend ==
  ASSUME NEW S, NEW s \in Seq(S), NEW e \in S, NEW D, Silent(s, D), e \notin D
  PROVE  Silent(Append(s, e), D)
  BY DEF Silent

LEMMA SilentTail ==
  ASSUME NEW S, NEW s \in Seq(S), s # <<>>, NEW D, Silent(s, D)
  PROVE  Silent(Tail(s), D) /\ Head(s) \notin D
  BY DEF Silent

LEMMA LeadsAppend ==
  ASSUME NEW S, NEW s \in Seq(S), NEW e \in S, NEW C, NEW D, Leads(s, C, D)
  PROVE  Leads(Append(s, e), C, D)
  <1>1. PICK k \in DOMAIN s : s[k] \in C /\ \A j \in DOMAIN s : s[j] \in D => k <= j
    BY DEF Leads
  <1>2. /\ DOMAIN Append(s, e) = 1..Len(s) + 1 /\ DOMAIN s = 1..Len(s)
        /\ \A j \in 1..Len(s) : Append(s, e)[j] = s[j]
    OBVIOUS
  <1>3. \A j \in 1..Len(s) + 1 : Append(s, e)[j] \in D => k <= j
    BY <1>1, <1>2
  <1>4. k \in DOMAIN Append(s, e) /\ Append(s, e)[k] \in C
    BY <1>1, <1>2
  <1> QED BY <1>2, <1>3, <1>4 DEF Leads

LEMMA LeadsLast ==
  ASSUME NEW S, NEW s \in Seq(S), NEW C, NEW D, NEW e \in S, e \in C, Silent(s, D)
  PROVE  Leads(Append(s, e), C, D)
  <1>1. /\ DOMAIN Append(s, e) = 1..Len(s) + 1 /\ DOMAIN s = 1..Len(s)
        /\ \A j \in 1..Len(s) : Append(s, e)[j] = s[j]
        /\ Append(s, e)[Len(s) + 1] = e
    OBVIOUS
  <1>2. \A j \in 1..Len(s) + 1 : Append(s, e)[j] \in D => Len(s) + 1 <= j
    BY <1>1 DEF Silent
  <1> QED BY <1>1, <1>2 DEF Leads

LEMMA LeadsTail ==
  ASSUME NEW S, NEW s \in Seq(S), s # <<>>, NEW C, NEW D, Leads(s, C, D), Head(s) \notin C
  PROVE  Leads(Tail(s), C, D) /\ Head(s) \notin D
  <1>1. PICK k \in DOMAIN s : s[k] \in C /\ \A j \in DOMAIN s : s[j] \in D => k <= j
    BY DEF Leads
  <1>2. /\ DOMAIN Tail(s) = 1..Len(s) - 1 /\ DOMAIN s = 1..Len(s)
        /\ \A j \in 1..Len(s) - 1 : Tail(s)[j] = s[j + 1]
        /\ Head(s) = s[1] /\ Len(s) \in Nat \ {0}
    OBVIOUS
  <1>3. k # 1 /\ k - 1 \in DOMAIN Tail(s) /\ Tail(s)[k - 1] \in C
    BY <1>1, <1>2
  <1>4. \A j \in DOMAIN Tail(s) : Tail(s)[j] \in D => k - 1 <= j
    BY <1>1, <1>2
  <1>5. Head(s) \notin D
    BY <1>1, <1>2, <1>3
  <1> QED BY <1>3, <1>4, <1>5 DEF Leads

LEMMA LeadsMore ==
  ASSUME NEW s, NEW C, NEW B, C \subseteq B, NEW D, Leads(s, C, D)
  PROVE  Leads(s, B, D)
  BY DEF Leads

-----------------------------------------------------------------------------
(* Where the creation of a task is.                                          *)

Made(m) == m.index \in DOMAIN sent[m.task] /\ sent[m.task][m.index] = "created"

Told(t)      == {m \in Messages : m.task = t}
ToldMade(t)  == {m \in Told(t) : Made(m)}
Queued(t)    == {h \in Handles : h.task = t}
Sending(t)   == {h \in Queued(t) : h.hop # "schedule"}
SendMade(t)  == {h \in Queued(t) : h.hop = "invoke" /\ Made(h)}

\* Before the caller announces a task, nothing of it is past its first hop;
\* afterwards the creation is in front, in the queue, in the outbox or at the client.
Unannounced == {"idle", "inserted", "spawned", "attached"}
InOrder(t) ==
    /\ caller[t] = "idle" => Silent(ready, Queued(t))
    /\ caller[t] \in Unannounced =>
         Silent(ready, Sending(t)) /\ Silent(outbox, Told(t)) /\ Silent(client, Told(t))
    /\ caller[t] = "returned" =>
         \/ Leads(client, ToldMade(t), Told(t))
         \/ Silent(client, Told(t)) /\ Leads(outbox, ToldMade(t), Told(t))
         \/ /\ Silent(client, Told(t)) /\ Silent(outbox, Told(t))
            /\ Leads(ready, SendMade(t), Sending(t))

BridgeInv ==
    /\ ready \in Seq(Handles) /\ outbox \in Seq(Messages) /\ client \in Seq(Messages)
    /\ \A t \in Tasks : InOrder(t)

\* The bridge takes no step with the manager's tables that the manager does not.
LEMMA BridgeIsManager == BridgeInit => Init
  BY DEF BridgeInit
LEMMA BridgeSteps == [BridgeNext]_allVars => [Next]_vars
  BY DEF BridgeNext, allVars, CallerStep, TaskStep, CancelStep, LoopStep, Schedule, Invoke,
     Resume, Write, Next

LEMMA Managed == BridgeSpec => []IInv
  <1>1. BridgeSpec => Spec
    BY BridgeIsManager, BridgeSteps, PTL DEF BridgeSpec, Spec
  <1> QED BY <1>1, Invariance, PTL

LEMMA InitBridge == BridgeInit => BridgeInv
  <1> SUFFICES ASSUME BridgeInit PROVE BridgeInv
    OBVIOUS
  <1>1. ready = <<>> /\ outbox = <<>> /\ client = <<>> /\ \A t \in Tasks : caller[t] = "idle"
    BY DEF BridgeInit, Init
  <1> QED BY <1>1 DEF BridgeInv, InOrder, Silent

-----------------------------------------------------------------------------
(* The manager's steps.                                                      *)

\* What has been raised stays as it is; so what told of a creation goes on to.
LEMMA MadeStays ==
  ASSUME IInv, NEW u \in Tasks,
         \/ sent' = sent
         \/ \E e \in Events : sent' = [sent EXCEPT ![u] = Append(@, e)],
         NEW t \in Tasks
  PROVE  ToldMade(t) \subseteq ToldMade(t)' /\ SendMade(t) \subseteq SendMade(t)'
  <1>1. sent \in [Tasks -> Seq(Events)]
    BY DEF IInv, TypeOK
  <1>2. ASSUME NEW x \in Tasks, NEW i \in DOMAIN sent[x]
        PROVE  i \in DOMAIN sent'[x] /\ sent'[x][i] = sent[x][i]
    <2>1. CASE sent' = sent
      BY <1>2, <2>1
    <2>2. ASSUME NEW e \in Events, sent' = [sent EXCEPT ![u] = Append(@, e)]
          PROVE  i \in DOMAIN sent'[x] /\ sent'[x][i] = sent[x][i]
      <3>1. sent[x] \in Seq(Events) /\ sent'[x] = IF x = u THEN Append(sent[x], e) ELSE sent[x]
        BY <1>1, <2>2
      <3> QED BY <1>2, <3>1
    <2> QED BY <2>1, <2>2
  <1> QED BY <1>2 DEF ToldMade, SendMade, Told, Queued, Messages, Handles, Made

\* A step that queues nothing, or an event of task u with a hop, keeps the order
\* of a task t which it does not announce.
LEMMA QueueKeeps ==
  ASSUME IInv, IInv', BridgeInv, NEW u \in Tasks, NEW hop \in {"schedule", "invoke"},
         \/ sent' = sent
         \/ \E e \in Events : sent' = [sent EXCEPT ![u] = Append(@, e)],
         Queue(u, hop), outbox' = outbox, client' = client,
         NEW t \in Tasks,
         \/ caller'[t] = caller[t]
         \/ caller[t] \in Unannounced /\ caller'[t] \in Unannounced \ {"idle"}
         \/ caller'[t] = "refused",
         t = u /\ caller[t] \in Unannounced =>
            (sent'[u] = sent[u]) \/ (caller[t] # "idle" /\ hop = "schedule")
  PROVE  ready' \in Seq(Handles) /\ InOrder(t)'
  <1> DEFINE h == [task |-> u, index |-> Len(sent'[u]), hop |-> hop]
  <1>1. h \in Handles
    <2>1. sent'[u] \in Seq(Events)
      BY DEF IInv, TypeOK
    <2> QED BY <2>1 DEF Handles
  <1>2. ready \in Seq(Handles) /\ InOrder(t)
    BY DEF BridgeInv
  <1>3. ready' = ready \/ (ready' = Append(ready, h) /\ sent'[u] # sent[u])
    BY DEF Queue
  <1>4. ToldMade(t) \subseteq ToldMade(t)' /\ SendMade(t) \subseteq SendMade(t)'
    BY MadeStays
  <1>5. Told(t)' = Told(t) /\ Queued(t)' = Queued(t) /\ Sending(t)' = Sending(t)
    BY DEF Told, Queued, Sending
  <1>6. ready' \in Seq(Handles)
    BY <1>1, <1>2, <1>3
  <1>7. h.task = u /\ h.hop = hop
    OBVIOUS
  <1> HIDE DEF h
  <1>8. CASE caller'[t] = "refused"
    BY <1>6, <1>8 DEF InOrder, Unannounced
  <1>9. CASE caller'[t] \in Unannounced
    <2>1. caller[t] \in Unannounced /\ (caller'[t] = "idle" => caller[t] = "idle")
      BY <1>9 DEF Unannounced
    <2>2. /\ Silent(ready, Sending(t)) /\ Silent(outbox, Told(t)) /\ Silent(client, Told(t))
          /\ caller[t] = "idle" => Silent(ready, Queued(t))
      BY <1>2, <2>1 DEF InOrder
    <2>3. ready' # ready => h \notin Sending(t) /\ (caller[t] = "idle" => h \notin Queued(t))
      BY <1>3, <1>7, <2>1 DEF Sending, Queued
    <2>4. Silent(ready', Sending(t)) /\ (caller'[t] = "idle" => Silent(ready', Queued(t)))
      <3>1. CASE ready' = ready
        BY <2>1, <2>2, <3>1
      <3>2. CASE ready' # ready
        <4>1. ready' = Append(ready, h) /\ h \notin Sending(t)
          BY <1>3, <2>3, <3>2
        <4>2. Silent(ready', Sending(t))
          BY <1>1, <1>2, <2>2, <4>1, SilentAppend
        <4>3. caller[t] = "idle" => Silent(ready', Queued(t))
          BY <1>1, <1>2, <2>2, <2>3, <3>2, <4>1, SilentAppend
        <4> QED BY <2>1, <4>2, <4>3
      <3> QED BY <3>1, <3>2
    <2> QED BY <1>5, <1>6, <1>9, <2>2, <2>4 DEF InOrder, Unannounced
  <1>10. CASE caller[t] = "returned" /\ caller'[t] = "returned"
    <2>1. Leads(ready, SendMade(t), Sending(t)) => Leads(ready', SendMade(t), Sending(t))
      BY <1>1, <1>2, <1>3, LeadsAppend
    <2>2. \/ Leads(client, ToldMade(t)', Told(t))
          \/ Silent(client, Told(t)) /\ Leads(outbox, ToldMade(t)', Told(t))
          \/ /\ Silent(client, Told(t)) /\ Silent(outbox, Told(t))
             /\ Leads(ready', SendMade(t)', Sending(t))
      BY <1>2, <1>4, <1>10, <2>1, LeadsMore DEF InOrder
    <2> QED BY <1>5, <1>6, <1>10, <2>2 DEF InOrder, Unannounced
  <1>11. CASE caller'[t] = caller[t] /\ caller[t] \notin Unannounced \cup {"returned"}
    BY <1>6, <1>11 DEF InOrder, Unannounced
  <1> QED BY <1>8, <1>9, <1>10, <1>11

\* The announcement comes behind nothing of its task but first hops.
LEMMA AnnouncementLeads ==
  ASSUME IInv, IInv', BridgeInv, NEW t \in Tasks, AnnounceCreation(t), Queue(t, "invoke"),
         outbox' = outbox, client' = client
  PROVE  InOrder(t)'
  <1> DEFINE h == [task |-> t, index |-> Len(sent'[t]), hop |-> "invoke"]
  <1>1. /\ caller[t] = "attached" /\ caller'[t] = "returned"
        /\ sent[t] \in Seq(Events) /\ sent'[t] = Append(sent[t], "created")
    BY DEF AnnounceCreation, CallerGoes, Send, IInv, TypeOK
  <1>2. Len(sent'[t]) \in DOMAIN sent'[t] /\ sent'[t][Len(sent'[t])] = "created"
        /\ Len(sent'[t]) \in Nat /\ sent'[t] # sent[t]
    BY <1>1 DEF Events
  <1>3. ready' = Append(ready, h)
    BY <1>2 DEF Queue
  <1>4. h \in SendMade(t)'
    BY <1>2 DEF SendMade, Queued, Handles, Made
  <1>5. /\ Silent(ready, Sending(t)) /\ Silent(outbox, Told(t)) /\ Silent(client, Told(t))
        /\ ready \in Seq(Handles) /\ h \in Handles
    BY <1>1, <1>4 DEF BridgeInv, InOrder, Unannounced, SendMade, Queued
  <1> HIDE DEF h
  <1>6. Leads(ready', SendMade(t)', Sending(t))
    BY <1>3, <1>4, <1>5, LeadsLast
  <1>7. Told(t)' = Told(t) /\ Sending(t)' = Sending(t)
    BY DEF Told, Queued, Sending
  <1> QED BY <1>1, <1>5, <1>6, <1>7 DEF InOrder, Unannounced

LEMMA CallerKeeps ==
  ASSUME IInv, IInv', BridgeInv, NEW u \in Tasks, CallerStep(u)
  PROVE  BridgeInv'
  <1>1. /\ Queue(u, "invoke") /\ outbox' = outbox /\ client' = client
        /\ caller \in [Tasks -> Callers] /\ sent \in [Tasks -> Seq(Events)]
    BY DEF CallerStep, Hop, IInv, TypeOK
  <1>2. CASE AnnounceCreation(u)
    <2>1. sent' = [sent EXCEPT ![u] = Append(@, "created")] /\ "created" \in Events
      BY <1>2 DEF AnnounceCreation, Send, Events
    <2>2. ASSUME NEW t \in Tasks, t # u PROVE ready' \in Seq(Handles) /\ InOrder(t)'
      <3>1. caller'[t] = caller[t]
        BY <1>1, <1>2, <2>2 DEF AnnounceCreation, CallerGoes
      <3> QED BY <1>1, <2>1, <2>2, <3>1, QueueKeeps
    <2>3. InOrder(u)'
      BY <1>1, <1>2, AnnouncementLeads
    <2>4. ready' \in Seq(Handles)
      <3>1. [task |-> u, index |-> Len(sent'[u]), hop |-> "invoke"] \in Handles
        BY DEF IInv, TypeOK, Handles
      <3> QED BY <1>1, <3>1 DEF Queue, BridgeInv
    <2> QED BY <1>1, <2>2, <2>3, <2>4 DEF BridgeInv
  <1>3. CASE (\E l \in Limits : Insert(u, l)) \/ Spawn(u) \/ SpawnFails(u) \/ Attach(u)
    <2>1. /\ sent' = sent
          /\ \E to \in {"inserted", "spawned", "refused", "attached"} :
               caller[u] \in Unannounced /\ caller' = [caller EXCEPT ![u] = to]
      BY <1>3 DEF Insert, Spawn, SpawnFails, Attach, CallerGoes, Unannounced, taskVars
    <2>2. ASSUME NEW t \in Tasks PROVE ready' \in Seq(Handles) /\ InOrder(t)'
      <3>1. \/ caller'[t] = caller[t]
            \/ caller[t] \in Unannounced /\ caller'[t] \in Unannounced \ {"idle"}
            \/ caller'[t] = "refused"
        BY <1>1, <2>1 DEF Unannounced
      <3> QED BY <1>1, <2>1, <3>1, QueueKeeps
    <2>3. ready' \in Seq(Handles)
      BY <2>2
    <2> QED BY <1>1, <2>2, <2>3 DEF BridgeInv
  <1> QED BY <1>2, <1>3 DEF CallerStep, StartStep

LEMMA TaskKeeps ==
  ASSUME IInv, IInv', BridgeInv, NEW u \in Tasks, TaskStep(u)
  PROVE  BridgeInv'
  <1>1. /\ Queue(u, "schedule") /\ outbox' = outbox /\ client' = client /\ WorkerStep(u)
        /\ sent \in [Tasks -> Seq(Events)] /\ Registered(u)
    BY DEF TaskStep, WorkerHop, Hop, IInv, TypeOK, TaskInv
  <1>2. worker[u] # "unborn" /\ caller' = caller
    BY <1>1 DEF WorkerStep, Begin, Progress, Return, Store, AnnounceVerdict, RecordFailure,
       AnnounceFailure, WorkerGoes, threadVars
  <1>3. sent' = sent \/ \E e \in Events : sent' = [sent EXCEPT ![u] = Append(@, e)]
    BY <1>1 DEF WorkerStep, Begin, Progress, Return, Store, AnnounceVerdict, RecordFailure,
       AnnounceFailure, Send, VerdictOf, Events, taskVars
  <1>4. caller[u] # "idle"
    BY <1>1, <1>2 DEF Registered
  <1>5. \A t \in Tasks : ready' \in Seq(Handles) /\ InOrder(t)'
    BY <1>1, <1>2, <1>3, <1>4, QueueKeeps
  <1>6. ready' \in Seq(Handles)
    BY <1>5
  <1> QED BY <1>1, <1>5, <1>6 DEF BridgeInv

LEMMA CancelKeeps ==
  ASSUME IInv, IInv', BridgeInv, NEW u \in Tasks, CancelStep(u)
  PROVE  BridgeInv'
  <1>1. PICK onLoop \in BOOLEAN : (onLoop => LoopFree) /\ Queue(u, Hop(onLoop))
    BY DEF CancelStep
  <1>2. /\ outbox' = outbox /\ client' = client /\ Cancel(u)
        /\ sent \in [Tasks -> Seq(Events)] /\ Registered(u) /\ caller' = caller
    BY DEF CancelStep, IInv, TypeOK, TaskInv, Cancel, threadVars
  <1>3. sent' = sent \/ \E e \in Events : sent' = [sent EXCEPT ![u] = Append(@, e)]
    BY <1>2 DEF Cancel, Send, Events
  <1>4. caller[u] # "idle"
    BY <1>2 DEF Cancel, Cancellable, Registered
  <1>5. caller[u] \in Unannounced => Hop(onLoop) = "schedule"
    BY <1>1, <1>4 DEF Unannounced, LoopFree, Hop
  <1>6. Hop(onLoop) \in {"schedule", "invoke"}
    BY DEF Hop
  <1>7. \A t \in Tasks : ready' \in Seq(Handles) /\ InOrder(t)'
    BY <1>1, <1>2, <1>3, <1>4, <1>5, <1>6, QueueKeeps
  <1>8. ready' \in Seq(Handles)
    BY <1>7
  <1> QED BY <1>2, <1>7, <1>8 DEF BridgeInv

-----------------------------------------------------------------------------
(* The steps of the loop and of the session.                                 *)

\* A first hop passes nothing that is past it.
LEMMA ScheduleKeeps == ASSUME BridgeInv, Schedule PROVE BridgeInv'
  <1> DEFINE h == [Next1 EXCEPT !.hop = "invoke"]
  <1>1. /\ ready \in Seq(Handles) /\ ready # <<>> /\ Next1 \in Handles /\ Next1.hop = "schedule"
        /\ Tail(ready) \in Seq(Handles) /\ LoopFree
        /\ UNCHANGED <<sent, caller, outbox, client>>
    BY DEF BridgeInv, Schedule, Runs, Next1, vars, taskVars, threadVars
  <1>2. h \in Handles /\ h.task = Next1.task /\ ready' = Append(Tail(ready), h)
    BY <1>1 DEF Schedule, Handles
  <1> HIDE DEF h
  <1>3. ASSUME NEW t \in Tasks PROVE InOrder(t)'
    <2>1. /\ Told(t)' = Told(t) /\ Queued(t)' = Queued(t) /\ Sending(t)' = Sending(t)
          /\ ToldMade(t)' = ToldMade(t) /\ SendMade(t)' = SendMade(t) /\ InOrder(t)
      BY <1>1 DEF BridgeInv, Told, Queued, Sending, ToldMade, SendMade, Made
    <2>2. CASE caller[t] \in Unannounced
      <3>1. caller[t] = "idle"
        BY <1>1, <2>2 DEF LoopFree, Unannounced
      <3>2. Silent(Tail(ready), Queued(t)) /\ Next1 \notin Queued(t)
        BY <1>1, <2>1, <3>1, SilentTail DEF InOrder, Next1
      <3>3. h \notin Queued(t)
        BY <1>1, <1>2, <3>2 DEF Queued
      <3>4. Silent(ready', Queued(t))
        BY <1>1, <1>2, <3>2, <3>3, SilentAppend
      <3>5. Silent(ready', Sending(t))
        BY <3>4 DEF Silent, Sending
      <3> QED BY <1>1, <2>1, <2>2, <3>4, <3>5 DEF InOrder, Unannounced
    <2>3. CASE caller[t] = "returned"
      <3>1. ASSUME Leads(ready, SendMade(t), Sending(t))
            PROVE  Leads(ready', SendMade(t), Sending(t))
        <4>1. Next1 \notin SendMade(t)
          BY <1>1 DEF SendMade
        <4>2. Leads(Tail(ready), SendMade(t), Sending(t))
          BY <1>1, <3>1, <4>1, LeadsTail DEF Next1
        <4> QED BY <1>1, <1>2, <4>2, LeadsAppend
      <3> QED BY <1>1, <2>1, <2>3, <3>1 DEF InOrder, Unannounced
    <2>4. CASE caller[t] \notin Unannounced \cup {"returned"}
      BY <1>1, <2>4 DEF InOrder, Unannounced
    <2> QED BY <2>2, <2>3, <2>4
  <1>4. ready' \in Seq(Handles)
    BY <1>1, <1>2
  <1> QED BY <1>1, <1>3, <1>4 DEF BridgeInv

\* The handle in front is sent as a message: the creation first of all.
LEMMA SendKeeps ==
  ASSUME BridgeInv, LoopFree, ready # <<>>, ready' = Tail(ready), Next1.hop # "schedule",
         UNCHANGED <<sent, caller, client>>,
         NEW m \in Messages, m.task = Next1.task, m.index = Next1.index,
         \/ outbox' = Append(outbox, m)
         \/ /\ outbox = <<>> /\ Event(Next1) # "created"
            /\ \E n \in Messages : n.task = Next1.task /\ outbox' = <<m, n>>
  PROVE  BridgeInv'
  <1>0. ready \in Seq(Handles) /\ outbox \in Seq(Messages) /\ client \in Seq(Messages)
    BY DEF BridgeInv
  <1>1. /\ ready \in Seq(Handles) /\ Next1 \in Handles /\ ready' \in Seq(Handles)
        /\ outbox \in Seq(Messages) /\ client \in Seq(Messages) /\ outbox' \in Seq(Messages)
    <2>1. Next1 \in Handles /\ ready' \in Seq(Handles)
      BY <1>0 DEF Next1
    <2>2. CASE outbox' = Append(outbox, m)
      BY <1>0, <2>1, <2>2
    <2>3. ASSUME NEW n \in Messages, outbox' = <<m, n>> PROVE outbox' \in Seq(Messages)
      BY <2>3
    <2> QED BY <1>0, <2>1, <2>2, <2>3
  <1>2. ASSUME NEW t \in Tasks PROVE InOrder(t)'
    <2>1. /\ Told(t)' = Told(t) /\ Queued(t)' = Queued(t) /\ Sending(t)' = Sending(t)
          /\ ToldMade(t)' = ToldMade(t) /\ SendMade(t)' = SendMade(t) /\ InOrder(t)
      BY DEF BridgeInv, Told, Queued, Sending, ToldMade, SendMade, Made
    <2>2. ASSUME Next1.task # t, Silent(outbox, Told(t)) PROVE Silent(outbox', Told(t))
      <3>1. CASE outbox' = Append(outbox, m)
        BY <1>1, <2>2, <3>1, SilentAppend DEF Told
      <3>2. CASE \E n \in Messages : n.task = Next1.task /\ outbox' = <<m, n>>
        BY <2>2, <3>2 DEF Silent, Told
      <3> QED BY <3>1, <3>2
    <2>3. CASE caller[t] \in Unannounced
      <3>1. caller[t] = "idle"
        BY <2>3 DEF LoopFree, Unannounced
      <3>2. Silent(ready', Queued(t)) /\ Next1 \notin Queued(t)
        BY <1>1, <2>1, <3>1, SilentTail DEF InOrder, Next1
      <3>3. Next1.task # t
        BY <1>1, <3>2 DEF Queued
      <3>4. Silent(ready', Sending(t))
        BY <3>2 DEF Silent, Sending
      <3> QED BY <2>1, <2>2, <2>3, <3>2, <3>3, <3>4 DEF InOrder, Unannounced
    <2>4. CASE caller[t] = "returned"
      <3>1. CASE Leads(client, ToldMade(t), Told(t))
        BY <2>1, <2>4, <3>1 DEF InOrder, Unannounced
      <3>2. CASE Silent(client, Told(t)) /\ Leads(outbox, ToldMade(t), Told(t))
        <4>1. outbox # <<>>
          BY <3>2 DEF Leads
        <4>2. Leads(outbox', ToldMade(t), Told(t))
          BY <1>1, <3>2, <4>1, LeadsAppend
        <4> QED BY <2>1, <2>4, <3>2, <4>2 DEF InOrder, Unannounced
      <3>3. CASE /\ Silent(client, Told(t)) /\ Silent(outbox, Told(t))
                 /\ Leads(ready, SendMade(t), Sending(t))
        <4>1. CASE Next1 \in SendMade(t)
          <5>1. Event(Next1) = "created" /\ m \in ToldMade(t)
            BY <4>1 DEF SendMade, ToldMade, Told, Queued, Made, Event
          <5>2. Leads(outbox', ToldMade(t), Told(t))
            BY <1>1, <3>3, <5>1, LeadsLast
          <5> QED BY <2>1, <2>4, <3>3, <5>2 DEF InOrder, Unannounced
        <4>2. CASE Next1 \notin SendMade(t)
          <5>1. Leads(ready', SendMade(t), Sending(t)) /\ Next1 \notin Sending(t)
            BY <1>1, <3>3, <4>2, LeadsTail DEF Next1
          <5>2. Next1.task # t
            BY <1>1, <5>1 DEF Sending, Queued
          <5> QED BY <2>1, <2>2, <2>4, <3>3, <5>1, <5>2 DEF InOrder, Unannounced
        <4> QED BY <4>1, <4>2
      <3> QED BY <2>1, <2>4, <3>1, <3>2, <3>3 DEF InOrder
    <2>5. CASE caller[t] \notin Unannounced \cup {"returned"}
      BY <2>5 DEF InOrder, Unannounced
    <2> QED BY <2>3, <2>4, <2>5
  <1> QED BY <1>1, <1>2 DEF BridgeInv

\* The message in front reaches the client, and its sender may go on.
LEMMA WriteKeeps == ASSUME BridgeInv, Write PROVE BridgeInv'
  <1> DEFINE m == Head(outbox)
             h == [task |-> m.task, index |-> m.index, hop |-> "resume"]
  <1>1. /\ ready \in Seq(Handles) /\ outbox \in Seq(Messages) /\ client \in Seq(Messages)
        /\ outbox # <<>> /\ outbox' = Tail(outbox) /\ client' = Append(client, m)
        /\ ready' = IF m.wakes THEN Append(ready, h) ELSE ready
        /\ UNCHANGED <<sent, caller>>
    BY DEF BridgeInv, Write, vars, taskVars, threadVars
  <1>2. m \in Messages /\ outbox' \in Seq(Messages) /\ client' \in Seq(Messages)
    BY <1>1
  <1>3. h \in Handles /\ h.task = m.task
    BY <1>2 DEF Handles, Messages
  <1>4. ready' \in Seq(Handles)
    BY <1>1, <1>3
  <1> HIDE DEF m, h
  <1>5. ASSUME NEW t \in Tasks PROVE InOrder(t)'
    <2>1. /\ Told(t)' = Told(t) /\ Queued(t)' = Queued(t) /\ Sending(t)' = Sending(t)
          /\ ToldMade(t)' = ToldMade(t) /\ SendMade(t)' = SendMade(t) /\ InOrder(t)
      BY <1>1 DEF BridgeInv, Told, Queued, Sending, ToldMade, SendMade, Made
    <2>2. ASSUME Silent(outbox, Told(t)), Silent(client, Told(t))
          PROVE  /\ Silent(outbox', Told(t)) /\ Silent(client', Told(t))
                 /\ \A D \in {Queued(t), Sending(t)} : Silent(ready, D) => Silent(ready', D)
      <3>1. Silent(outbox', Told(t)) /\ m \notin Told(t)
        BY <1>1, <2>2, SilentTail DEF m
      <3>2. Silent(client', Told(t))
        BY <1>1, <1>2, <2>2, <3>1, SilentAppend
      <3>3. h \notin Queued(t) /\ h \notin Sending(t)
        BY <1>2, <1>3, <3>1 DEF Queued, Sending, Told
      <3> QED BY <1>1, <1>3, <3>1, <3>2, <3>3, SilentAppend
    <2>3. CASE caller[t] \in Unannounced
      BY <1>1, <2>1, <2>2, <2>3 DEF InOrder, Unannounced
    <2>4. CASE caller[t] = "returned"
      <3>1. CASE Leads(client, ToldMade(t), Told(t))
        <4>1. Leads(client', ToldMade(t), Told(t))
          BY <1>1, <1>2, <3>1, LeadsAppend
        <4> QED BY <1>1, <2>1, <2>4, <4>1 DEF InOrder, Unannounced
      <3>2. CASE Silent(client, Told(t)) /\ Leads(outbox, ToldMade(t), Told(t))
        <4>1. CASE m \in ToldMade(t)
          <5>1. Leads(client', ToldMade(t), Told(t))
            BY <1>1, <1>2, <3>2, <4>1, LeadsLast
          <5> QED BY <1>1, <2>1, <2>4, <5>1 DEF InOrder, Unannounced
        <4>2. CASE m \notin ToldMade(t)
          <5>1. Leads(outbox', ToldMade(t), Told(t)) /\ m \notin Told(t)
            BY <1>1, <3>2, <4>2, LeadsTail DEF m
          <5>2. Silent(client', Told(t))
            BY <1>1, <1>2, <3>2, <5>1, SilentAppend
          <5> QED BY <1>1, <2>1, <2>4, <5>1, <5>2 DEF InOrder, Unannounced
        <4> QED BY <4>1, <4>2
      <3>3. CASE /\ Silent(client, Told(t)) /\ Silent(outbox, Told(t))
                 /\ Leads(ready, SendMade(t), Sending(t))
        <4>1. Leads(ready', SendMade(t), Sending(t))
          BY <1>1, <1>3, <3>3, LeadsAppend
        <4> QED BY <1>1, <2>1, <2>2, <2>4, <3>3, <4>1 DEF InOrder, Unannounced
      <3> QED BY <2>1, <2>4, <3>1, <3>2, <3>3 DEF InOrder
    <2>5. CASE caller[t] \notin Unannounced \cup {"returned"}
      BY <1>1, <2>5 DEF InOrder, Unannounced
    <2> QED BY <2>3, <2>4, <2>5
  <1> QED BY <1>2, <1>4, <1>5 DEF BridgeInv

\* Every step of the manager, of the loop and of the session keeps the order.
LEMMA NextBridge == IInv /\ IInv' /\ BridgeInv /\ [BridgeNext]_allVars => BridgeInv'
  <1> SUFFICES ASSUME IInv, IInv', BridgeInv, [BridgeNext]_allVars PROVE BridgeInv'
    OBVIOUS
  <1>1. ASSUME NEW t \in Tasks, CallerStep(t) \/ TaskStep(t) \/ CancelStep(t) PROVE BridgeInv'
    BY <1>1, CallerKeeps, TaskKeeps, CancelKeeps
  <1>2. CASE Schedule
    BY <1>2, ScheduleKeeps
  <1>3. CASE Invoke \/ Resume
    <2>1. ready # <<>> /\ Next1 \in Handles
      <3>1. ready \in Seq(Handles) /\ ready # <<>>
        BY <1>3 DEF Invoke, Resume, Runs, BridgeInv
      <3> QED BY <3>1 DEF Next1
    <2>2. /\ LoopFree /\ ready' = Tail(ready) /\ Next1.hop # "schedule"
          /\ UNCHANGED <<sent, caller, client>>
      BY <1>3 DEF Invoke, Resume, Runs, vars, taskVars, threadVars
    <2>3. Twofold(Next1) \in BOOLEAN
      BY DEF Twofold
    <2>4. ASSUME NEW f \in {"first", "again"}, NEW w \in BOOLEAN
          PROVE  /\ Message(Next1, f, w) \in Messages
                 /\ Message(Next1, f, w).task = Next1.task
                 /\ Message(Next1, f, w).index = Next1.index
      BY <2>1 DEF Message, Messages, Handles
    <2>5. \/ \E f \in {"first", "again"}, w \in BOOLEAN :
                outbox' = Append(outbox, Message(Next1, f, w))
          \/ /\ Twofold(Next1) /\ outbox = <<>>
             /\ outbox' = <<Message(Next1, "first", FALSE), Message(Next1, "again", FALSE)>>
      BY <1>3, <2>3 DEF Invoke, Resume
    <2>6. Twofold(Next1) => Event(Next1) # "created"
      BY DEF Twofold
    <2>7. CASE \E f \in {"first", "again"}, w \in BOOLEAN :
                  outbox' = Append(outbox, Message(Next1, f, w))
      BY <2>1, <2>2, <2>4, <2>7, SendKeeps
    <2>8. CASE /\ Twofold(Next1) /\ outbox = <<>>
               /\ outbox' = <<Message(Next1, "first", FALSE), Message(Next1, "again", FALSE)>>
      BY <2>1, <2>2, <2>4, <2>6, <2>8, SendKeeps
    <2> QED BY <2>5, <2>7, <2>8
  <1>4. CASE Write
    BY <1>4, WriteKeeps
  <1>5. CASE UNCHANGED allVars
    BY <1>5 DEF allVars, bridgeVars, vars, taskVars, threadVars, BridgeInv, InOrder, Told, Queued,
       Sending, ToldMade, SendMade, Made
  <1> QED BY <1>1, <1>2, <1>3, <1>4, <1>5 DEF BridgeNext, LoopStep

\* The creation of a task is in front of all else that is on its way to the client.
THEOREM CreationInFront == BridgeSpec => []BridgeInv
  <1> QED BY InitBridge, NextBridge, Managed, PTL DEF BridgeSpec

\* The first a client hears of a task is that it was created, for any number of
\* tasks that are started, run, cancelled and announced beside each other.
THEOREM CreationsSeenFirst == BridgeSpec => []CreatedSeenFirst
  <1>1. IInv /\ BridgeInv => CreatedSeenFirst
    <2> SUFFICES ASSUME IInv, BridgeInv, NEW k \in DOMAIN client,
                        caller[client[k].task] # "refused"
                 PROVE  \E j \in 1..k : client[j].task = client[k].task
                                        /\ Event(client[j]) = "created"
      BY DEF CreatedSeenFirst
    <2> DEFINE t == client[k].task
    <2>1. client \in Seq(Messages) /\ client[k] \in Messages
      BY DEF BridgeInv
    <2>2. t \in Tasks /\ client[k] \in Told(t)
      BY <2>1 DEF Messages, Told
    <2>3. caller[t] \in Unannounced \cup {"returned"} /\ InOrder(t)
      BY <2>2 DEF IInv, TypeOK, BridgeInv, Callers, Unannounced
    <2>4. Leads(client, ToldMade(t), Told(t))
      BY <2>2, <2>3 DEF InOrder, Silent
    <2>5. PICK j \in DOMAIN client : client[j] \in ToldMade(t) /\ j <= k
      BY <2>2, <2>4 DEF Leads
    <2>6. j \in 1..k
      BY <2>1, <2>5
    <2> QED BY <2>5, <2>6 DEF ToldMade, Told, Made, Event
  <1> QED BY <1>1, CreationInFront, Managed, PTL

-----------------------------------------------------------------------------
(* What a client was told it can read.                                       *)

\* Whatever is on its way tells of an event that was raised.
Raised(m)    == m.index \in DOMAIN sent[m.task]
AllRaised(s) == \A j \in DOMAIN s : Raised(s[j])

\* What the worker has left for the tools once it stored a result, or ended.
Left(t) == /\ worker[t] = "stored" => result[t] # NoResult
           /\ worker[t] = "exited" => result[t] # NoResult \/ buffer[t] = "error"

ToldInv == /\ AllRaised(ready) /\ AllRaised(outbox) /\ AllRaised(client)
           /\ \A t \in Tasks : Left(t)

LEMMA InitTold == BridgeInit => ToldInv
  <1> SUFFICES ASSUME BridgeInit PROVE ToldInv
    OBVIOUS
  <1>1. ready = <<>> /\ outbox = <<>> /\ client = <<>> /\ \A t \in Tasks : worker[t] = "unborn"
    BY DEF BridgeInit, Init
  <1> QED BY <1>1 DEF ToldInv, AllRaised, Left

LEMMA QueuesTyped ==
  ASSUME BridgeInv
  PROVE  /\ ready \in Seq(Handles) /\ outbox \in Seq(Messages) /\ client \in Seq(Messages)
         /\ \A j \in DOMAIN ready : ready[j].task \in Tasks
         /\ \A j \in DOMAIN outbox : outbox[j].task \in Tasks
         /\ \A j \in DOMAIN client : client[j].task \in Tasks
  <1>1. /\ ready \in Seq(Handles) /\ outbox \in Seq(Messages) /\ client \in Seq(Messages)
    BY DEF BridgeInv
  <1>2. /\ \A j \in DOMAIN ready : ready[j] \in Handles
        /\ \A j \in DOMAIN outbox : outbox[j] \in Messages
        /\ \A j \in DOMAIN client : client[j] \in Messages
    BY <1>1
  <1> QED BY <1>1, <1>2 DEF Handles, Messages

\* What has been raised stays raised.
LEMMA RaisedStays ==
  ASSUME IInv, NEW u \in Tasks,
         \/ sent' = sent
         \/ \E e \in Events : sent' = [sent EXCEPT ![u] = Append(@, e)],
         NEW s, AllRaised(s), \A j \in DOMAIN s : s[j].task \in Tasks
  PROVE  \A j \in DOMAIN s : s[j].index \in DOMAIN sent'[s[j].task]
  <1>1. sent \in [Tasks -> Seq(Events)]
    BY DEF IInv, TypeOK
  <1>2. ASSUME NEW x \in Tasks PROVE DOMAIN sent[x] \subseteq DOMAIN sent'[x]
    <2>1. CASE sent' = sent
      BY <2>1
    <2>2. ASSUME NEW e \in Events, sent' = [sent EXCEPT ![u] = Append(@, e)]
          PROVE  DOMAIN sent[x] \subseteq DOMAIN sent'[x]
      <3>1. sent[x] \in Seq(Events) /\ sent'[x] = IF x = u THEN Append(sent[x], e) ELSE sent[x]
        BY <1>1, <2>2
      <3> QED BY <3>1
    <2> QED BY <2>1, <2>2
  <1> QED BY <1>2 DEF AllRaised, Raised

\* The steps of the manager: what is queued was just raised.
LEMMA ManagerTold ==
  ASSUME IInv, IInv', BridgeInv, ToldInv, NEW u \in Tasks, NEW hop \in {"schedule", "invoke"},
         \/ sent' = sent
         \/ \E e \in Events : sent' = [sent EXCEPT ![u] = Append(@, e)],
         Queue(u, hop), outbox' = outbox, client' = client
  PROVE  AllRaised(ready)' /\ AllRaised(outbox)' /\ AllRaised(client)'
  <1> DEFINE h == [task |-> u, index |-> Len(sent'[u]), hop |-> hop]
  <1>1. /\ \A j \in DOMAIN ready : ready[j].task \in Tasks
        /\ \A j \in DOMAIN outbox : outbox[j].task \in Tasks
        /\ \A j \in DOMAIN client : client[j].task \in Tasks
        /\ ready \in Seq(Handles)
    BY QueuesTyped
  <1>2. AllRaised(outbox)' /\ AllRaised(client)'
    BY <1>1, RaisedStays DEF ToldInv, AllRaised, Raised
  <1>3. \A j \in DOMAIN ready : ready[j].index \in DOMAIN sent'[ready[j].task]
    BY <1>1, RaisedStays DEF ToldInv
  <1>4. CASE sent'[u] = sent[u]
    <2>1. ready' = ready
      BY <1>4 DEF Queue
    <2> QED BY <1>2, <1>3, <2>1 DEF AllRaised, Raised
  <1>5. CASE sent'[u] # sent[u]
    <2>1. sent[u] \in Seq(Events) /\ \E e \in Events : sent'[u] = Append(sent[u], e)
      BY <1>5 DEF IInv, TypeOK
    <2>2. Len(sent'[u]) \in DOMAIN sent'[u] /\ Len(sent'[u]) \in Nat
      BY <2>1
    <2>3. ready' = Append(ready, h) /\ h \in Handles
      BY <1>5, <2>2 DEF Queue, Handles
    <2>4. h.task = u /\ h.index = Len(sent'[u])
      OBVIOUS
    <2> HIDE DEF h
    <2>5. /\ DOMAIN ready' = DOMAIN ready \cup {Len(ready) + 1}
          /\ \A j \in DOMAIN ready : ready'[j] = ready[j]
          /\ ready'[Len(ready) + 1] = h
      BY <1>1, <2>3
    <2>6. AllRaised(ready)'
      BY <1>3, <2>2, <2>4, <2>5 DEF AllRaised, Raised
    <2> QED BY <1>2, <2>6
  <1> QED BY <1>2, <1>4, <1>5

\* Queues of what was raised.
LEMMA RaisedAppend ==
  ASSUME NEW S, NEW s \in Seq(S), AllRaised(s), NEW e \in S, Raised(e)
  PROVE  AllRaised(Append(s, e))
  <1>1. /\ DOMAIN Append(s, e) = DOMAIN s \cup {Len(s) + 1}
        /\ \A j \in DOMAIN s : Append(s, e)[j] = s[j]
        /\ Append(s, e)[Len(s) + 1] = e
    OBVIOUS
  <1> QED BY <1>1 DEF AllRaised

LEMMA RaisedTail ==
  ASSUME NEW S, NEW s \in Seq(S), s # <<>>, AllRaised(s)
  PROVE  AllRaised(Tail(s)) /\ Raised(Head(s)) /\ Head(s) \in S /\ Tail(s) \in Seq(S)
  <1>1. /\ DOMAIN Tail(s) = 1..Len(s) - 1 /\ DOMAIN s = 1..Len(s)
        /\ \A j \in 1..Len(s) - 1 : Tail(s)[j] = s[j + 1]
        /\ Head(s) = s[1] /\ Len(s) \in Nat \ {0} /\ Tail(s) \in Seq(S) /\ Head(s) \in S
    OBVIOUS
  <1>2. AllRaised(Tail(s))
    <2> SUFFICES ASSUME NEW j \in 1..Len(s) - 1 PROVE Raised(s[j + 1])
      BY <1>1 DEF AllRaised
    <2>1. j + 1 \in DOMAIN s
      BY <1>1
    <2> QED BY <2>1 DEF AllRaised
  <1>3. 1 \in DOMAIN s
    BY <1>1
  <1> QED BY <1>1, <1>2, <1>3 DEF AllRaised

\* The steps of the loop and the session pass on what was raised.
LEMMA LoopTold ==
  ASSUME BridgeInv, ToldInv, LoopStep \/ Write
  PROVE  AllRaised(ready)' /\ AllRaised(outbox)' /\ AllRaised(client)'
  <1>1. /\ ready \in Seq(Handles) /\ outbox \in Seq(Messages) /\ client \in Seq(Messages)
        /\ AllRaised(ready) /\ AllRaised(outbox) /\ AllRaised(client) /\ sent' = sent
    BY DEF BridgeInv, ToldInv, LoopStep, Schedule, Invoke, Resume, Write, vars, taskVars
  <1>2. \A s : AllRaised(s) <=> \A j \in DOMAIN s : s[j].index \in DOMAIN sent'[s[j].task]
    BY <1>1 DEF AllRaised, Raised
  <1>3. ASSUME AllRaised(ready'), AllRaised(outbox'), AllRaised(client')
        PROVE  AllRaised(ready)' /\ AllRaised(outbox)' /\ AllRaised(client)'
    BY <1>1, <1>3 DEF AllRaised, Raised
  <1>4. ASSUME ready # <<>>
        PROVE  /\ AllRaised(Tail(ready)) /\ Raised(Next1) /\ Next1 \in Handles
               /\ Tail(ready) \in Seq(Handles)
    BY <1>1, <1>4, RaisedTail DEF Next1
  <1>5. ASSUME NEW f \in {"first", "again"}, NEW w \in BOOLEAN, ready # <<>>
        PROVE  Message(Next1, f, w) \in Messages /\ Raised(Message(Next1, f, w))
    BY <1>4, <1>5 DEF Message, Messages, Handles, Raised
  <1>6. CASE Schedule
    <2> DEFINE h == [Next1 EXCEPT !.hop = "invoke"]
    <2>1. ready # <<>> /\ outbox' = outbox /\ client' = client /\ ready' = Append(Tail(ready), h)
      BY <1>6 DEF Schedule, Runs
    <2>2. h \in Handles /\ Raised(h)
      BY <1>4, <2>1 DEF Handles, Raised
    <2> HIDE DEF h
    <2>3. AllRaised(ready')
      BY <1>4, <2>1, <2>2, RaisedAppend
    <2> QED BY <1>1, <1>3, <2>1, <2>3
  <1>7. CASE Invoke \/ Resume
    <2>1. ready # <<>> /\ client' = client /\ ready' = Tail(ready)
      BY <1>7 DEF Invoke, Resume, Runs
    <2>2. Twofold(Next1) \in BOOLEAN
      BY DEF Twofold
    <2>3. \/ \E f \in {"first", "again"}, w \in BOOLEAN :
                outbox' = Append(outbox, Message(Next1, f, w))
          \/ outbox' = <<Message(Next1, "first", FALSE), Message(Next1, "again", FALSE)>>
      BY <1>7, <2>2 DEF Invoke, Resume
    <2>4. AllRaised(outbox')
      <3>1. ASSUME NEW f \in {"first", "again"}, NEW w \in BOOLEAN,
                   outbox' = Append(outbox, Message(Next1, f, w))
            PROVE  AllRaised(outbox')
        <4>1. Message(Next1, f, w) \in Messages /\ Raised(Message(Next1, f, w))
          BY <1>5, <2>1
        <4> QED BY <1>1, <3>1, <4>1, RaisedAppend
      <3>2. CASE outbox' = <<Message(Next1, "first", FALSE), Message(Next1, "again", FALSE)>>
        <4>1. Raised(Message(Next1, "first", FALSE)) /\ Raised(Message(Next1, "again", FALSE))
          BY <1>5, <2>1
        <4>2. \A j \in DOMAIN outbox' : outbox'[j] \in {Message(Next1, "first", FALSE),
                                                        Message(Next1, "again", FALSE)}
          <5>1. \A a, b : \A j \in DOMAIN <<a, b>> : <<a, b>>[j] \in {a, b}
            OBVIOUS
          <5> QED BY <3>2, <5>1
        <4> QED BY <4>1, <4>2 DEF AllRaised
      <3> QED BY <2>3, <3>1, <3>2
    <2> QED BY <1>1, <1>3, <1>4, <2>1, <2>4
  <1>8. CASE Write
    <2> DEFINE m == Head(outbox)
               h == [task |-> m.task, index |-> m.index, hop |-> "resume"]
    <2>1. /\ outbox # <<>> /\ outbox' = Tail(outbox) /\ client' = Append(client, m)
          /\ ready' = IF m.wakes THEN Append(ready, h) ELSE ready
      BY <1>8 DEF Write
    <2>2. AllRaised(outbox') /\ Raised(m) /\ m \in Messages
      BY <1>1, <2>1, RaisedTail
    <2>3. Raised(h) /\ h \in Handles
      BY <2>2 DEF Raised, Messages, Handles
    <2> HIDE DEF m, h
    <2>4. AllRaised(client')
      BY <1>1, <2>1, <2>2, RaisedAppend
    <2>5. AllRaised(ready')
      BY <1>1, <2>1, <2>3, RaisedAppend
    <2> QED BY <1>3, <2>2, <2>4, <2>5
  <1> QED BY <1>6, <1>7, <1>8 DEF LoopStep

\* The bridge's manager is not swept, so what a worker has left stays.
LEMMA LeftStays ==
  ASSUME IInv, ToldInv, [BridgeNext]_allVars, NEW t \in Tasks
  PROVE  Left(t)'
  <1>1. TaskInv(t) /\ Left(t)
    BY DEF IInv, ToldInv
  <1> DEFINE Kept == worker'[t] = worker[t] /\ result'[t] = result[t] /\ buffer'[t] = buffer[t]
             Moved == worker'[t] \notin {"stored", "exited"}
  <1>2. Kept \/ Moved => Left(t)'
    BY <1>1 DEF Left
  <1>3. ASSUME NEW u \in Tasks, StartStep(u) PROVE Kept \/ Moved
    <2>1. CASE u # t
      BY <1>3, <2>1 DEF IInv, TypeOK, StartStep, Insert, Spawn, SpawnFails, Attach,
         AnnounceCreation, CallerGoes, WorkerGoes, taskVars
    <2>2. CASE u = t
      BY <1>1, <1>3, <2>2 DEF IInv, TypeOK, TaskInv, Registered, StartStep, Insert, Spawn, SpawnFails,
         Attach, AnnounceCreation, CallerGoes, WorkerGoes, taskVars
    <2> QED BY <2>1, <2>2
  <1>4. ASSUME NEW u \in Tasks, Cancel(u) PROVE Kept
    BY <1>4 DEF Cancel, threadVars
  <1>5. ASSUME NEW u \in Tasks, WorkerStep(u), u # t PROVE Kept
    BY <1>5 DEF IInv, TypeOK, WorkerStep, Begin, Progress, Return, Store, AnnounceVerdict,
       RecordFailure, AnnounceFailure, WorkerGoes, taskVars, threadVars
  <1>6. ASSUME Begin(t) \/ Progress(t) \/ Return(t) \/ RecordFailure(t) PROVE Kept \/ Moved
    BY <1>6 DEF IInv, TypeOK, Begin, Progress, Return, RecordFailure, WorkerGoes, taskVars, threadVars
  <1>7. ASSUME Store(t) PROVE Left(t)'
    <2>1. /\ worker'[t] = IF limits[t].ttl = BadLimit THEN "raised" ELSE "stored"
          /\ result' = IF limits[t].ttl = BadLimit THEN result
                       ELSE [result EXCEPT ![t] = [status |-> VerdictOf(returned[t]),
                                outcome |-> returned[t], expires |-> clock + limits[t].ttl]]
      BY <1>7 DEF Store, WorkerGoes, IInv, TypeOK
    <2>2. CASE limits[t].ttl = BadLimit
      BY <2>1, <2>2 DEF Left
    <2>3. CASE limits[t].ttl # BadLimit
      <3>1. result'[t] \in [status : Verdicts, outcome : {returned[t]}, expires : {clock + limits[t].ttl}]
        BY <2>1, <2>3, VerdictType DEF IInv, TypeOK
      <3>2. result'[t] # NoResult
        BY <3>1 DEF NoResult, Verdicts
      <3> QED BY <2>1, <2>3, <3>2 DEF Left
    <2> QED BY <2>2, <2>3
  <1>8. ASSUME AnnounceVerdict(t) \/ AnnounceFailure(t) PROVE Left(t)'
    <2>1. /\ worker[t] \in {"stored", "recorded"} /\ worker'[t] = "exited"
          /\ result' = result /\ buffer' = buffer
      BY <1>8 DEF IInv, TypeOK, AnnounceVerdict, AnnounceFailure, WorkerGoes
    <2> QED BY <1>1, <2>1 DEF Left, TaskInv, WorkerKnows
  <1>9. ASSUME LoopStep \/ Write \/ UNCHANGED allVars PROVE Kept
    BY <1>9 DEF LoopStep, Schedule, Invoke, Resume, Write, allVars, vars, taskVars, threadVars
  <1> HIDE DEF Kept, Moved
  <1>10. ASSUME NEW u \in Tasks, CallerStep(u) PROVE StartStep(u)
    BY <1>10 DEF CallerStep
  <1>11. ASSUME NEW u \in Tasks, TaskStep(u) PROVE WorkerStep(u)
    BY <1>11 DEF TaskStep
  <1>12. ASSUME NEW u \in Tasks, CancelStep(u) PROVE Cancel(u)
    BY <1>12 DEF CancelStep
  <1>13. ASSUME WorkerStep(t) PROVE Left(t)'
    BY <1>2, <1>6, <1>7, <1>8, <1>13 DEF WorkerStep
  <1> QED BY <1>2, <1>3, <1>4, <1>5, <1>9, <1>10, <1>11, <1>12, <1>13 DEF BridgeNext

LEMMA NextTold == IInv /\ IInv' /\ BridgeInv /\ ToldInv /\ [BridgeNext]_allVars => ToldInv'
  <1> SUFFICES ASSUME IInv, IInv', BridgeInv, ToldInv, [BridgeNext]_allVars PROVE ToldInv'
    OBVIOUS
  <1> DEFINE Passed == AllRaised(ready)' /\ AllRaised(outbox)' /\ AllRaised(client)'
  <1>1. \A t \in Tasks : Left(t)'
    BY LeftStays
  <1>2. ASSUME NEW u \in Tasks, CallerStep(u) PROVE Passed
    <2>1. /\ Queue(u, "invoke") /\ outbox' = outbox /\ client' = client
          /\ sent' = sent \/ sent' = [sent EXCEPT ![u] = Append(@, "created")]
      BY <1>2 DEF CallerStep, Hop, StartStep, Insert, Spawn, SpawnFails, Attach, AnnounceCreation,
         Send, taskVars
    <2>2. "created" \in Events
      BY DEF Events
    <2> QED BY <2>1, <2>2, ManagerTold
  <1>3. ASSUME NEW u \in Tasks, TaskStep(u) PROVE Passed
    <2>1. Queue(u, "schedule") /\ outbox' = outbox /\ client' = client
      BY <1>3 DEF TaskStep, WorkerHop, Hop
    <2>2. sent' = sent \/ \E e \in Events : sent' = [sent EXCEPT ![u] = Append(@, e)]
      BY <1>3 DEF TaskStep, WorkerStep, Begin, Progress, Return, Store, AnnounceVerdict, RecordFailure,
         AnnounceFailure, Send, VerdictOf, Events, taskVars
    <2> QED BY <2>1, <2>2, ManagerTold
  <1>4. ASSUME NEW u \in Tasks, CancelStep(u) PROVE Passed
    <2>1. PICK onLoop \in BOOLEAN : Queue(u, Hop(onLoop))
      BY <1>4 DEF CancelStep
    <2>2. outbox' = outbox /\ client' = client /\ Hop(onLoop) \in {"schedule", "invoke"}
      BY <1>4 DEF CancelStep, Hop
    <2>3. sent' = sent \/ \E e \in Events : sent' = [sent EXCEPT ![u] = Append(@, e)]
      BY <1>4 DEF CancelStep, Cancel, Send, Events
    <2> QED BY <2>1, <2>2, <2>3, ManagerTold
  <1>5. ASSUME LoopStep \/ Write PROVE Passed
    BY <1>5, LoopTold
  <1>6. ASSUME UNCHANGED allVars PROVE Passed
    BY <1>6 DEF allVars, bridgeVars, vars, taskVars, ToldInv, AllRaised, Raised
  <1>7. Passed
    BY <1>2, <1>3, <1>4, <1>5, <1>6 DEF BridgeNext
  <1> QED BY <1>1, <1>7 DEF ToldInv

LEMMA ToldInvariance == BridgeSpec => []ToldInv
  BY InitTold, NextTold, Managed, CreationInFront, PTL DEF BridgeSpec

LEMMA AnnouncedAtBridge == BridgeSpec => []AnnouncedInv
  <1>1. BridgeSpec => Spec
    BY BridgeIsManager, BridgeSteps, PTL DEF BridgeSpec, Spec
  <1> QED BY <1>1, AnnouncedInvariance, PTL

\* What a client was told it can read at once, for any tasks beside each other:
\* the tables are written before the event is raised, and nothing of the bridge
\* takes it back.
THEOREM ToldIsReadable == BridgeSpec => []ToldCanBeRead
  <1>1. IInv /\ AnnouncedInv /\ BridgeInv /\ ToldInv => ToldCanBeRead
    <2> SUFFICES ASSUME IInv, AnnouncedInv, BridgeInv, ToldInv, NEW k \in DOMAIN client,
                        Event(client[k]) \in Verdicts, client[k].task \notin Refused
                 PROVE  CanRead(client[k].task, Event(client[k]))
      BY DEF ToldCanBeRead
    <2> DEFINE t == client[k].task
               v == Event(client[k])
    <2>1. t \in Tasks /\ Raised(client[k])
      BY QueuesTyped DEF ToldInv, AllRaised
    <2>2. Verdict(t, client[k].index) /\ v = sent[t][client[k].index]
      BY <2>1 DEF Verdict, Raised, Event
    <2>3. worker[t] = "exited" /\ v = status[t]
      BY <2>1, <2>2 DEF AnnouncedInv, AnnouncedOnce, NoVerdict, OneVerdict, Verdict
    <2>4. /\ TaskInv(t) /\ (result[t] # NoResult \/ buffer[t] = "error")
          /\ result[t] \in Results \cup {NoResult}
      BY <2>1, <2>3 DEF IInv, TypeOK, ToldInv, Left
    <2>5. v \in Verdicts /\ v = status[t] /\ t \notin Refused
      BY <2>3
    <2> HIDE DEF t, v
    <2>6. GetTaskStatus(t) \in {[state |-> v]} \cup
                              (IF limits[t].budget = "capped" THEN {} ELSE {ToolError})
      <3>1. StatusOf(t) = IF limits[t].budget = "capped" THEN v ELSE "error"
        BY <2>5 DEF StatusOf, Verdicts
      <3>2. [state |-> v] # NoAnswer
        BY DEF NoAnswer
      <3> QED BY <2>5, <3>1, <3>2 DEF GetTaskStatus, ToolAnswer, Verdicts
    <2>7. CASE result[t] = NoResult
      <3>1. OutputOf(t) = [lines |-> "error"]
        BY <2>4, <2>7 DEF OutputOf
      <3>2. [lines |-> "error"] # NoAnswer
        BY DEF NoAnswer
      <3> QED BY <2>5, <2>6, <2>7, <3>1, <3>2 DEF CanRead, GetTaskOutput, ToolAnswer, t, v
    <2>8. CASE result[t] # NoResult
      <3>1. result[t].status = v /\ result[t].expires \in Int /\ clock \in Int
        BY <2>4, <2>5, <2>8 DEF TaskInv, Agrees, Results, IInv, TypeOK
      <3>2. ASSUME clock < result[t].expires PROVE GetTaskResult(t).status = v
        <4>1. ResultOf(t) = [status |-> result[t].status, outcome |-> result[t].outcome]
          BY <2>8, <3>1, <3>2 DEF ResultOf
        <4>2. ResultOf(t) # NoAnswer
          BY <4>1 DEF NoAnswer
        <4> QED BY <2>5, <3>1, <4>1, <4>2 DEF GetTaskResult, ToolAnswer
      <3> QED BY <2>6, <2>8, <3>2 DEF CanRead, t, v
    <2> QED BY <2>7, <2>8
  <1> QED BY <1>1, AnnouncedAtBridge, ToldInvariance, Managed, CreationInFront, PTL

-----------------------------------------------------------------------------
(***************************************************************************)
(* The order in which a client hears of the events of a task, for any      *)
(* tasks beside each other.  Events go from the handles still to be        *)
(* scheduled to those to be sent, to the outbox, to the client, and at     *)
(* each stage in the order they have; only an event raised on the loop     *)
(* joins at the second stage, in front of all that is at the first.        *)
(***************************************************************************)

Elements(s)   == {s[j] : j \in DOMAIN s}
Ordered(s, R) == \A j, k \in DOMAIN s : j < k => <<s[j], s[k]>> \in R

LEMMA AppendElements ==
  ASSUME NEW S, NEW s \in Seq(S), NEW e \in S
  PROVE  Elements(Append(s, e)) = Elements(s) \cup {e}
  <1>1. /\ DOMAIN Append(s, e) = DOMAIN s \cup {Len(s) + 1}
        /\ \A j \in DOMAIN s : Append(s, e)[j] = s[j]
        /\ Append(s, e)[Len(s) + 1] = e
        /\ Len(s) + 1 \notin DOMAIN s
    OBVIOUS
  <1> QED BY <1>1 DEF Elements

LEMMA TailElements ==
  ASSUME NEW S, NEW s \in Seq(S), s # <<>>
  PROVE  /\ Elements(s) = Elements(Tail(s)) \cup {Head(s)}
         /\ Head(s) \in S /\ Tail(s) \in Seq(S)
  <1>1. /\ DOMAIN Tail(s) = 1..Len(s) - 1 /\ DOMAIN s = 1..Len(s) /\ Len(s) \in Nat \ {0}
        /\ \A j \in 1..Len(s) - 1 : Tail(s)[j] = s[j + 1]
        /\ Head(s) = s[1] /\ Head(s) \in S /\ Tail(s) \in Seq(S)
    OBVIOUS
  <1>2. \A j \in 2..Len(s) : j - 1 \in 1..Len(s) - 1 /\ Tail(s)[j - 1] = s[j]
    BY <1>1
  <1>3. Elements(s) \subseteq Elements(Tail(s)) \cup {Head(s)}
    <2> SUFFICES ASSUME NEW j \in 1..Len(s), j # 1 PROVE s[j] \in Elements(Tail(s))
      BY <1>1 DEF Elements
    <2>1. j \in 2..Len(s)
      BY <1>1
    <2> QED BY <1>1, <1>2, <2>1 DEF Elements
  <1>4. Elements(Tail(s)) \cup {Head(s)} \subseteq Elements(s)
    <2>1. \A j \in 1..Len(s) - 1 : j + 1 \in DOMAIN s /\ Tail(s)[j] = s[j + 1]
      BY <1>1
    <2>2. 1 \in DOMAIN s
      BY <1>1
    <2> QED BY <1>1, <2>1, <2>2 DEF Elements
  <1> QED BY <1>1, <1>3, <1>4

LEMMA OrderedAppend ==
  ASSUME NEW S, NEW s \in Seq(S), NEW e \in S, NEW R, Ordered(s, R),
         \A d \in Elements(s) : <<d, e>> \in R
  PROVE  Ordered(Append(s, e), R)
  <1>1. /\ DOMAIN Append(s, e) = 1..Len(s) + 1 /\ DOMAIN s = 1..Len(s) /\ Len(s) \in Nat
        /\ \A j \in 1..Len(s) : Append(s, e)[j] = s[j]
        /\ Append(s, e)[Len(s) + 1] = e
    OBVIOUS
  <1>2. \A j, k \in 1..Len(s) + 1 : j < k => j \in 1..Len(s) /\ (k \in 1..Len(s) \/ k = Len(s) + 1)
    BY <1>1
  <1> QED BY <1>1, <1>2 DEF Ordered, Elements

LEMMA OrderedTail ==
  ASSUME NEW S, NEW s \in Seq(S), s # <<>>, NEW R, Ordered(s, R)
  PROVE  Ordered(Tail(s), R) /\ \A d \in Elements(Tail(s)) : <<Head(s), d>> \in R
  <1>1. /\ DOMAIN Tail(s) = 1..Len(s) - 1 /\ DOMAIN s = 1..Len(s) /\ Len(s) \in Nat \ {0}
        /\ \A j \in 1..Len(s) - 1 : Tail(s)[j] = s[j + 1]
        /\ Head(s) = s[1]
    OBVIOUS
  <1>2. \A j \in 1..Len(s) - 1 : j + 1 \in DOMAIN s /\ 1 \in DOMAIN s /\ 1 < j + 1
    BY <1>1
  <1>3. \A j, k \in 1..Len(s) - 1 : j < k => j + 1 < k + 1
    BY <1>1
  <1>4. Ordered(Tail(s), R)
    <2> SUFFICES ASSUME NEW j \in 1..Len(s) - 1, NEW k \in 1..Len(s) - 1, j < k
                 PROVE  <<s[j + 1], s[k + 1]>> \in R
      BY <1>1 DEF Ordered
    <2> QED BY <1>2, <1>3 DEF Ordered
  <1>5. \A j \in 1..Len(s) - 1 : <<s[1], s[j + 1]>> \in R
    BY <1>2 DEF Ordered
  <1> QED BY <1>1, <1>4, <1>5 DEF Elements

-----------------------------------------------------------------------------
(* What it is to be in order: x may be told before y.                        *)

Good(x, y) ==
    x.task = y.task => /\ y.index < x.index => Event(x) \in {"created", "cancelled"}
                       /\ Event(x) \notin Verdicts

\* At one stage, and from one stage to the stages behind it.  A message that
\* tells of an event again, and its handle, come when they may.
MM == {p \in Messages \X Messages : p[2].form = "first" => Good(p[1], p[2])}
HH == {p \in Handles \X Handles :
         p[1].hop = p[2].hop /\ p[2].hop # "resume" => Good(p[1], p[2])}

MessageBefore(m, h) == h.hop # "resume" => Good(m, h)
HandleBefore(g, h) ==
    \/ g.hop = "invoke" /\ h.hop = "schedule"
    \/ g.hop = "resume" /\ h.hop # "resume"
    => Good(g, h)
ResumeBefore(g, m) == g.hop = "resume" /\ m.form = "first" => Good(g, m)

OrderedWith(told, out, queue) ==
    /\ Ordered(told, MM) /\ Ordered(out, MM) /\ Ordered(queue, HH)
    /\ \A m \in Elements(told), n \in Elements(out) : <<m, n>> \in MM
    /\ \A m \in Elements(told) \cup Elements(out), h \in Elements(queue) : MessageBefore(m, h)
    /\ \A g, h \in Elements(queue) : HandleBefore(g, h)
    /\ \A g \in Elements(queue), m \in Elements(out) : ResumeBefore(g, m)

OrderInv == OrderedWith(client, outbox, ready)

LEMMA InitOrder == BridgeInit => OrderInv
  BY DEF BridgeInit, OrderInv, OrderedWith, Ordered, Elements

-----------------------------------------------------------------------------
(* The loop and the session: nothing is raised, things move to the next stage. *)

LEMMA GoodAlike ==
  ASSUME NEW x, NEW y, NEW z, NEW w, z.task = x.task, z.index = x.index,
         w.task = y.task, w.index = y.index, Good(x, y)
  PROVE  Good(z, w)
  BY DEF Good, Event

\* The handle in front has become one to be sent.
LEMMA ScheduleOrder ==
  ASSUME BridgeInv, OrderInv, Schedule
  PROVE  OrderedWith(client, outbox, ready')
  <1> DEFINE g == Next1
             h == [Next1 EXCEPT !.hop = "invoke"]
             rest == Tail(ready)
  <1>1. ready \in Seq(Handles) /\ ready # <<>> /\ g.hop = "schedule" /\ ready' = Append(rest, h)
    BY DEF BridgeInv, Schedule, Runs
  <1>2. /\ g \in Handles /\ rest \in Seq(Handles) /\ Elements(ready) = Elements(rest) \cup {g}
    BY <1>1, TailElements DEF Next1
  <1>3. h \in Handles /\ h.task = g.task /\ h.index = g.index /\ h.hop = "invoke"
    BY <1>2 DEF Handles
  <1>4. Elements(rest) \subseteq Handles
    BY <1>2 DEF Elements
  <1>5. Ordered(rest, HH) /\ \A d \in Elements(rest) : <<g, d>> \in HH
    BY <1>1, OrderedTail DEF OrderInv, OrderedWith, Next1
  <1> HIDE DEF g, h, rest
  <1>6. \A d \in Elements(rest) : /\ d.hop = "invoke" => Good(d, h)
                                  /\ d.hop = "resume" => Good(d, h)
                                  /\ d.hop = "schedule" => Good(h, d)
    <2> TAKE d \in Elements(rest)
    <2>1. HandleBefore(d, g) /\ <<g, d>> \in HH
      BY <1>2, <1>5 DEF OrderInv, OrderedWith
    <2> QED BY <1>1, <1>3, <2>1, GoodAlike DEF HandleBefore, HH
  <1>7. Ordered(ready', HH)
    <2>1. \A d \in Elements(rest) : <<d, h>> \in HH
      BY <1>3, <1>4, <1>6 DEF HH
    <2> QED BY <1>1, <1>2, <1>3, <1>5, <2>1, OrderedAppend
  <1>8. Elements(ready') = Elements(rest) \cup {h}
    BY <1>1, <1>2, <1>3, AppendElements
  <1>9. \A m \in Elements(client) \cup Elements(outbox) : MessageBefore(m, h)
    <2> TAKE m \in Elements(client) \cup Elements(outbox)
    <2>1. MessageBefore(m, g)
      BY <1>2 DEF OrderInv, OrderedWith
    <2> QED BY <1>1, <1>3, <2>1, GoodAlike DEF MessageBefore
  <1>10. \A d, e \in Elements(ready') : HandleBefore(d, e)
    <2>1. \A d \in Elements(rest) : HandleBefore(d, h) /\ HandleBefore(h, d)
      BY <1>3, <1>6 DEF HandleBefore
    <2>2. HandleBefore(h, h)
      BY <1>3 DEF HandleBefore
    <2> QED BY <1>2, <1>8, <2>1, <2>2 DEF OrderInv, OrderedWith
  <1>11. \A m \in Elements(outbox) : ResumeBefore(h, m)
    BY <1>3 DEF ResumeBefore
  <1> QED BY <1>2, <1>7, <1>8, <1>9, <1>10, <1>11 DEF OrderInv, OrderedWith

\* A message is put behind the others for a handle g that has left the queue.
LEMMA SendOrder ==
  ASSUME NEW out \in Seq(Messages), NEW queue \in Seq(Handles), client \in Seq(Messages),
         OrderedWith(client, out, queue),
         NEW g, NEW m \in Messages, m.task = g.task, m.index = g.index,
         \A h \in Elements(queue) : h.hop # "resume" => Good(g, h),
         m.form = "first" =>
            /\ \A n \in Elements(client) \cup Elements(out) : Good(n, g)
            /\ \A h \in Elements(queue) : h.hop = "resume" => Good(h, g)
  PROVE  OrderedWith(client, Append(out, m), queue)
  <1>1. Elements(Append(out, m)) = Elements(out) \cup {m}
    BY AppendElements
  <1>2. Elements(client) \subseteq Messages /\ Elements(out) \subseteq Messages
    BY DEF Elements
  <1>3. \A n \in Elements(client) \cup Elements(out) : <<n, m>> \in MM
    BY <1>2, GoodAlike DEF MM
  <1>4. Ordered(Append(out, m), MM)
    BY <1>3, OrderedAppend DEF OrderedWith
  <1>5. \A h \in Elements(queue) : MessageBefore(m, h) /\ ResumeBefore(h, m)
    BY GoodAlike DEF MessageBefore, ResumeBefore
  <1> QED BY <1>1, <1>3, <1>4, <1>5 DEF OrderedWith

LEMMA InvokeOrder ==
  ASSUME BridgeInv, OrderInv, Invoke \/ Resume
  PROVE  OrderedWith(client, outbox', ready')
  <1> DEFINE g == Next1
             rest == Tail(ready)
  <1>1. /\ ready \in Seq(Handles) /\ ready # <<>> /\ ready' = rest
        /\ outbox \in Seq(Messages) /\ client \in Seq(Messages)
    BY DEF BridgeInv, Invoke, Resume, Runs
  <1>2. /\ g \in Handles /\ rest \in Seq(Handles) /\ Elements(ready) = Elements(rest) \cup {g}
    BY <1>1, TailElements DEF Next1
  <1>3. Ordered(rest, HH) /\ \A d \in Elements(rest) : <<g, d>> \in HH
    BY <1>1, OrderedTail DEF OrderInv, OrderedWith, Next1
  <1>4. OrderedWith(client, outbox, rest)
    BY <1>2, <1>3 DEF OrderInv, OrderedWith
  <1>5. ASSUME NEW f \in {"first", "again"}, NEW w \in BOOLEAN
        PROVE  /\ Message(g, f, w) \in Messages /\ Message(g, f, w).task = g.task
               /\ Message(g, f, w).index = g.index /\ Message(g, f, w).form = f
    BY <1>2 DEF Message, Messages, Handles
  <1>6. Elements(rest) \subseteq Handles
    BY <1>2 DEF Elements
  <1> HIDE DEF g, rest
  <1>7. ASSUME g.hop \in {"invoke", "resume"}
        PROVE  \A h \in Elements(rest) : h.hop # "resume" => Good(g, h)
    <2> TAKE h \in Elements(rest)
    <2>1. HandleBefore(g, h) /\ <<g, h>> \in HH /\ h.hop \in {"schedule", "invoke", "resume"}
      BY <1>2, <1>3, <1>6 DEF OrderInv, OrderedWith, Handles
    <2> QED BY <1>7, <2>1 DEF HandleBefore, HH
  <1>8. CASE Invoke
    <2>1. g.hop = "invoke"
      BY <1>8 DEF Invoke, Runs, g
    <2>2. \A n \in Elements(client) \cup Elements(outbox) : Good(n, g)
      BY <1>2, <2>1 DEF OrderInv, OrderedWith, MessageBefore
    <2>3. \A h \in Elements(rest) : h.hop = "resume" => Good(h, g)
      BY <1>2, <2>1 DEF OrderInv, OrderedWith, HandleBefore
    <2>4. Twofold(g) \in BOOLEAN
      BY DEF Twofold
    <2>5. CASE outbox' = Append(outbox, Message(g, "first", Twofold(g)))
      BY <1>1, <1>2, <1>4, <1>5, <1>7, <2>1, <2>2, <2>3, <2>4, <2>5, SendOrder
    <2>6. CASE /\ outbox = <<>>
               /\ outbox' = <<Message(g, "first", FALSE), Message(g, "again", FALSE)>>
      <3> DEFINE m == Message(g, "first", FALSE)
                 n == Message(g, "again", FALSE)
      <3>1. /\ m \in Messages /\ m.task = g.task /\ m.index = g.index
            /\ n \in Messages /\ n.task = g.task /\ n.index = g.index /\ n.form = "again"
        BY <1>5
      <3> HIDE DEF m, n
      <3>2. OrderedWith(client, Append(outbox, m), rest) /\ Append(outbox, m) \in Seq(Messages)
        BY <1>1, <1>2, <1>4, <1>7, <2>1, <2>2, <2>3, <3>1, SendOrder
      <3>3. OrderedWith(client, Append(Append(outbox, m), n), rest)
        BY <1>1, <1>2, <1>7, <2>1, <3>1, <3>2, SendOrder
      <3>4. outbox' = Append(Append(outbox, m), n)
        <4>1. \A a, b : <<a, b>> = Append(Append(<<>>, a), b)
          OBVIOUS
        <4> QED BY <2>6, <4>1 DEF m, n
      <3> QED BY <1>1, <3>3, <3>4
    <2> QED BY <1>8, <2>5, <2>6 DEF Invoke, g
  <1>9. CASE Resume
    <2>1. g.hop = "resume" /\ outbox' = Append(outbox, Message(g, "again", FALSE))
      BY <1>9 DEF Resume, Runs, g
    <2> QED BY <1>1, <1>2, <1>4, <1>5, <1>7, <2>1, SendOrder
  <1> QED BY <1>8, <1>9

\* The message in front is told, and its sender may have to come back.
LEMMA WriteOrder ==
  ASSUME BridgeInv, OrderInv, Write
  PROVE  OrderedWith(client', outbox', ready')
  <1> DEFINE m == Head(outbox)
             h == [task |-> m.task, index |-> m.index, hop |-> "resume"]
  <1>1. /\ ready \in Seq(Handles) /\ outbox \in Seq(Messages) /\ client \in Seq(Messages)
        /\ outbox # <<>> /\ outbox' = Tail(outbox) /\ client' = Append(client, m)
        /\ ready' = IF m.wakes THEN Append(ready, h) ELSE ready
    BY DEF BridgeInv, Write
  <1>2. m \in Messages /\ Elements(outbox) = Elements(outbox') \cup {m}
    BY <1>1, TailElements
  <1>3. h \in Handles /\ h.task = m.task /\ h.index = m.index /\ h.hop = "resume"
    BY <1>2 DEF Handles, Messages
  <1>4. Ordered(outbox', MM) /\ \A n \in Elements(outbox') : <<m, n>> \in MM
    BY <1>1, OrderedTail DEF OrderInv, OrderedWith
  <1> HIDE DEF m, h
  <1>5. Elements(client') = Elements(client) \cup {m}
    BY <1>1, <1>2, AppendElements
  <1>6. Ordered(client', MM)
    BY <1>1, <1>2, OrderedAppend DEF OrderInv, OrderedWith
  <1>7. OrderedWith(client', outbox', ready)
    BY <1>2, <1>4, <1>5, <1>6 DEF OrderInv, OrderedWith
  <1>8. CASE ready' = Append(ready, h)
    <2>1. Elements(ready') = Elements(ready) \cup {h}
      BY <1>1, <1>3, <1>8, AppendElements
    <2>2. Ordered(ready', HH)
      <3>1. \A d \in Elements(ready) : <<d, h>> \in HH
        BY <1>1, <1>3 DEF HH, Elements
      <3> QED BY <1>1, <1>3, <1>7, <1>8, <3>1, OrderedAppend DEF OrderedWith
    <2>3. \A d \in Elements(ready) : HandleBefore(d, h) /\ HandleBefore(h, d)
      <3> TAKE d \in Elements(ready)
      <3>1. MessageBefore(m, d)
        BY <1>2 DEF OrderInv, OrderedWith
      <3> QED BY <1>3, <3>1, GoodAlike DEF HandleBefore, MessageBefore
    <2>4. HandleBefore(h, h) /\ \A n : MessageBefore(n, h)
      BY <1>3 DEF HandleBefore, MessageBefore
    <2>5. \A n \in Elements(outbox') : ResumeBefore(h, n)
      <3> TAKE n \in Elements(outbox')
      <3>1. n.form = "first" => Good(m, n)
        BY <1>4 DEF MM
      <3> QED BY <1>3, <3>1, GoodAlike DEF ResumeBefore
    <2> QED BY <1>7, <2>1, <2>2, <2>3, <2>4, <2>5 DEF OrderedWith
  <1> QED BY <1>1, <1>7, <1>8

-----------------------------------------------------------------------------
(* The manager: an event is raised, and its handle queued.                   *)

\* What is on its way tells of the same event as before.
LEMMA GoodStays ==
  ASSUME IInv, NEW u \in Tasks, NEW e \in Events, sent' = [sent EXCEPT ![u] = Append(@, e)],
         NEW x, x.task \in Tasks, Raised(x)
  PROVE  /\ Event(x)' = Event(x)
         /\ \A y : Good(x, y) => Good(x, y)'
         /\ x.task = u => x.index < Len(sent'[u])
  <1>1. sent[x.task] \in Seq(Events) /\ sent \in [Tasks -> Seq(Events)] /\ x.index \in DOMAIN sent[x.task]
    BY DEF IInv, TypeOK, Raised
  <1>2. sent'[x.task] = IF x.task = u THEN Append(sent[x.task], e) ELSE sent[x.task]
    BY <1>1
  <1>3. sent'[x.task][x.index] = sent[x.task][x.index]
    BY <1>1, <1>2
  <1>4. x.task = u => x.index < Len(sent'[u])
    BY <1>1, <1>2
  <1> QED BY <1>3, <1>4 DEF Event, Good

\* The handle of a new event comes behind what it may follow, if no verdict is there
\* yet; one that joins at the second stage tells of a creation or a cancellation.
LEMMA RaiseOrder ==
  ASSUME IInv, BridgeInv, ToldInv, OrderInv,
         NEW u \in Tasks, NEW hop \in {"schedule", "invoke"}, NEW e \in Events,
         sent' = [sent EXCEPT ![u] = Append(@, e)],
         Queue(u, hop), outbox' = outbox, client' = client,
         hop = "invoke" => e \in {"created", "cancelled"},
         \A m \in Elements(client) \cup Elements(outbox) : m.task = u => Event(m) \notin Verdicts,
         \A d \in Elements(ready) :
            d.task = u /\ (hop = "invoke" => d.hop # "schedule") => Event(d) \notin Verdicts
  PROVE  OrderInv'
  <1> PICK h : h = [task |-> u, index |-> Len(sent'[u]), hop |-> hop]
    OBVIOUS
  <1>1. /\ ready \in Seq(Handles) /\ outbox \in Seq(Messages) /\ client \in Seq(Messages)
        /\ \A x \in Elements(client) \cup Elements(outbox) \cup Elements(ready) :
              x.task \in Tasks /\ Raised(x)
        /\ Elements(ready) \subseteq Handles
    BY QueuesTyped DEF ToldInv, AllRaised, Elements
  <1>2. /\ sent[u] \in Seq(Events) /\ sent'[u] = Append(sent[u], e)
    BY DEF IInv, TypeOK
  <1>3. /\ sent'[u] # sent[u] /\ Len(sent'[u]) \in Nat /\ sent'[u][Len(sent'[u])] = e
    <2>1. Len(sent'[u]) = Len(sent[u]) + 1 /\ Len(sent[u]) \in Nat
      BY <1>2
    <2>2. Append(sent[u], e)[Len(sent[u]) + 1] = e
      BY <1>2
    <2>3. sent'[u] # sent[u]
      <3>1. \A n \in Nat : n # n + 1
        OBVIOUS
      <3>2. Len(sent'[u]) # Len(sent[u])
        BY <2>1, <3>1
      <3> QED BY <3>2, Zenon
    <2> QED BY <1>2, <2>1, <2>2, <2>3
  <1>4. h \in Handles /\ h.task = u /\ h.hop = hop /\ h.index = Len(sent'[u]) /\ Event(h)' = e
    BY <1>3 DEF Handles, Event
  <1>5. ready' = Append(ready, h)
    BY <1>3 DEF Queue
  <1>6. Elements(ready') = Elements(ready) \cup {h}
    BY <1>1, <1>4, <1>5, AppendElements
  <1>7. \A x \in Elements(client) \cup Elements(outbox) \cup Elements(ready) :
           /\ \A y : Good(x, y) => Good(x, y)'
           /\ Event(x)' = Event(x) /\ (x.task = u => x.index < h.index)
    BY <1>1, <1>4, GoodStays
  <1>8. ASSUME NEW x \in Elements(client) \cup Elements(outbox) \cup Elements(ready),
               x.task = u => Event(x) \notin Verdicts
        PROVE  Good(x, h)'
    <2>1. x.task = u => x.index < h.index /\ x.index \in Int /\ h.index \in Int
      BY <1>1, <1>2, <1>3, <1>4, <1>7 DEF Raised
    <2>2. Event(x)' = Event(x)
      BY <1>7
    <2> QED BY <1>4, <1>8, <2>1, <2>2 DEF Good
  <1>9. \A m \in Elements(client) \cup Elements(outbox) : MessageBefore(m, h)'
    BY <1>8 DEF MessageBefore
  <1>10. ASSUME NEW d \in Elements(ready)
         PROVE  /\ <<d, h>> \in HH' /\ HandleBefore(d, h)' /\ HandleBefore(h, d)'
    <2>1. hop = "schedule" \/ d.hop # "schedule" => Good(d, h)'
      BY <1>8
    <2>2. hop = "invoke" => Good(h, d)'
      BY <1>4 DEF Good, Verdicts
    <2>3. d \in Handles
      BY <1>1
    <2>4. <<d, h>> \in HH'
      BY <1>4, <2>1, <2>3 DEF HH
    <2>5. HandleBefore(d, h)' /\ HandleBefore(h, d)'
      BY <1>4, <2>1, <2>2 DEF HandleBefore
    <2> QED BY <2>4, <2>5
  <1>11. HandleBefore(h, h)' /\ \A m : ResumeBefore(h, m)'
    BY <1>4 DEF HandleBefore, ResumeBefore
  <1>12. \A m \in Elements(client) \cup Elements(outbox) : \A n :
            <<m, n>> \in MM => <<m, n>> \in MM'
    BY <1>7 DEF MM
  <1>13. \A d \in Elements(ready) : \A g : <<d, g>> \in HH => <<d, g>> \in HH'
    BY <1>7 DEF HH
  <1>14. Ordered(client, MM') /\ Ordered(outbox, MM') /\ Ordered(ready, HH')
    BY <1>12, <1>13 DEF OrderInv, OrderedWith, Ordered, Elements
  <1>15. Ordered(ready', HH')
    BY <1>1, <1>4, <1>5, <1>10, <1>14, OrderedAppend
  <1>16. \A m \in Elements(client), n \in Elements(outbox) : <<m, n>> \in MM'
    BY <1>12 DEF OrderInv, OrderedWith
  <1>17. \A m \in Elements(client) \cup Elements(outbox), d \in Elements(ready') : MessageBefore(m, d)'
    BY <1>6, <1>7, <1>9 DEF OrderInv, OrderedWith, MessageBefore
  <1>18. \A g, d \in Elements(ready') : HandleBefore(g, d)'
    <2>1. \A g, d \in Elements(ready) : HandleBefore(g, d)'
      BY <1>7 DEF OrderInv, OrderedWith, HandleBefore
    <2> QED BY <1>6, <1>10, <1>11, <2>1
  <1>19. \A g \in Elements(ready'), m \in Elements(outbox) : ResumeBefore(g, m)'
    BY <1>6, <1>7, <1>11 DEF OrderInv, OrderedWith, ResumeBefore
  <1> QED BY <1>14, <1>15, <1>16, <1>17, <1>18, <1>19
       DEF OrderInv, OrderedWith, Ordered, Elements

\* A step that raises nothing and moves nothing.
LEMMA QuietOrder ==
  ASSUME OrderInv, UNCHANGED <<sent, ready, outbox, client>>
  PROVE  OrderInv'
  BY DEF OrderInv, OrderedWith, Ordered, Elements, MM, HH, MessageBefore, HandleBefore,
     ResumeBefore, Good, Event

LEMMA ManagerOrder ==
  ASSUME IInv, AnnouncedInv, BridgeInv, ToldInv, OrderInv,
         NEW u \in Tasks, CallerStep(u) \/ TaskStep(u) \/ CancelStep(u)
  PROVE  OrderInv'
  <1>1. /\ \A x \in Elements(client) \cup Elements(outbox) \cup Elements(ready) :
              x.task \in Tasks /\ Raised(x)
        /\ Elements(client) \cup Elements(outbox) \subseteq Messages
        /\ Elements(ready) \subseteq Handles
    <2>1. /\ Elements(client) \cup Elements(outbox) \subseteq Messages
          /\ Elements(ready) \subseteq Handles
      BY QueuesTyped DEF Elements
    <2> QED BY <2>1, QueuesTyped DEF ToldInv, AllRaised, Elements
  <1>2. outbox' = outbox /\ client' = client
    BY DEF CallerStep, TaskStep, CancelStep
  <1>3. ASSUME NEW hop, Queue(u, hop), sent' = sent PROVE OrderInv'
    <2>1. ready' = ready
      BY <1>3 DEF Queue
    <2> QED BY <1>2, <1>3, <2>1, QuietOrder
  <1>4. ASSUME \A i \in DOMAIN sent[u] : sent[u][i] \notin Verdicts
        PROVE  \A x \in Elements(client) \cup Elements(outbox) \cup Elements(ready) :
                  x.task = u => Event(x) \notin Verdicts
    BY <1>1, <1>4 DEF Raised, Event
  <1>5. ASSUME CallerStep(u) PROVE OrderInv'
    <2>1. Queue(u, "invoke") /\ StartStep(u)
      BY <1>5 DEF CallerStep, Hop
    <2>2. CASE AnnounceCreation(u)
      <3>1. /\ sent' = [sent EXCEPT ![u] = Append(@, "created")] /\ "created" \in Events
            /\ caller[u] = "attached"
        BY <2>2 DEF AnnounceCreation, Send, CallerGoes, Events
      <3>2. /\ Silent(ready, Sending(u)) /\ Silent(outbox, Told(u)) /\ Silent(client, Told(u))
        BY <3>1 DEF BridgeInv, InOrder, Unannounced
      <3>3. \A m \in Elements(client) \cup Elements(outbox) : m.task # u
        BY <1>1, <3>2 DEF Silent, Told, Elements
      <3>4. \A d \in Elements(ready) : d.task = u => d.hop = "schedule"
        BY <1>1, <3>2 DEF Silent, Sending, Queued, Elements
      <3> QED BY <1>2, <2>1, <3>1, <3>3, <3>4, RaiseOrder
    <2>3. CASE (\E l \in Limits : Insert(u, l)) \/ Spawn(u) \/ SpawnFails(u) \/ Attach(u)
      <3>1. sent' = sent
        BY <2>3 DEF Insert, Spawn, SpawnFails, Attach, taskVars
      <3> QED BY <1>3, <2>1, <3>1
    <2> QED BY <2>1, <2>2, <2>3 DEF StartStep
  <1>6. ASSUME TaskStep(u) PROVE OrderInv'
    <2>1. Queue(u, "schedule") /\ WorkerStep(u)
      BY <1>6 DEF TaskStep, WorkerHop, Hop
    <2>2. worker[u] # "exited"
      BY <2>1 DEF WorkerStep, Begin, Progress, Return, Store, AnnounceVerdict, RecordFailure,
         AnnounceFailure, WorkerGoes
    <2>3. \A i \in DOMAIN sent[u] : sent[u][i] \notin Verdicts
      BY <2>2 DEF AnnouncedInv, AnnouncedOnce, NoVerdict
    <2>4. sent' = sent \/ \E e \in Events : sent' = [sent EXCEPT ![u] = Append(@, e)]
      BY <2>1 DEF WorkerStep, Begin, Progress, Return, Store, AnnounceVerdict, RecordFailure,
         AnnounceFailure, Send, VerdictOf, Events, taskVars
    <2>5. ASSUME NEW e \in Events, sent' = [sent EXCEPT ![u] = Append(@, e)] PROVE OrderInv'
      BY <1>2, <1>4, <2>1, <2>3, <2>5, RaiseOrder
    <2> QED BY <1>3, <2>1, <2>4, <2>5
  <1>7. ASSUME CancelStep(u) PROVE OrderInv'
    <2>1. PICK onLoop \in BOOLEAN : Queue(u, Hop(onLoop))
      BY <1>7 DEF CancelStep
    <2>2. Cancel(u) /\ Hop(onLoop) \in {"schedule", "invoke"}
      BY <1>7 DEF CancelStep, Hop
    <2>3. \A i \in DOMAIN sent[u] : sent[u][i] \notin Verdicts
      <3>1. status[u] \notin Verdicts
        BY <2>2 DEF Cancel, Cancellable, Verdicts
      <3> QED BY <3>1 DEF AnnouncedInv, AnnouncedOnce, NoVerdict, OneVerdict, Verdict
    <2>4. CASE sent' = sent
      BY <1>3, <2>1, <2>4
    <2>5. CASE sent' = [sent EXCEPT ![u] = Append(@, "cancelled")]
      <3>1. "cancelled" \in Events
        BY DEF Events
      <3> QED BY <1>2, <1>4, <2>1, <2>2, <2>3, <2>5, <3>1, RaiseOrder
    <2> QED BY <2>2, <2>4, <2>5 DEF Cancel, Send
  <1> QED BY <1>5, <1>6, <1>7

LEMMA NextOrder ==
  IInv /\ AnnouncedInv /\ BridgeInv /\ ToldInv /\ OrderInv /\ [BridgeNext]_allVars => OrderInv'
  <1> SUFFICES ASSUME IInv, AnnouncedInv, BridgeInv, ToldInv, OrderInv, [BridgeNext]_allVars
               PROVE  OrderInv'
    OBVIOUS
  <1>1. ASSUME NEW u \in Tasks, CallerStep(u) \/ TaskStep(u) \/ CancelStep(u) PROVE OrderInv'
    BY <1>1, ManagerOrder
  <1>2. ASSUME sent' = sent, OrderedWith(client', outbox', ready') PROVE OrderInv'
    <2>1. MM' = MM /\ HH' = HH
      BY <1>2 DEF MM, HH, Good, Event
    <2>2. \A x, y : /\ MessageBefore(x, y)' <=> MessageBefore(x, y)
                    /\ HandleBefore(x, y)' <=> HandleBefore(x, y)
                    /\ ResumeBefore(x, y)' <=> ResumeBefore(x, y)
      BY <1>2 DEF MessageBefore, HandleBefore, ResumeBefore, Good, Event
    <2> QED BY <1>2, <2>1, <2>2 DEF OrderInv, OrderedWith, Ordered, Elements
  <1>3. CASE Schedule
    <2>1. sent' = sent /\ outbox' = outbox /\ client' = client
      BY <1>3 DEF Schedule, vars, taskVars
    <2> QED BY <1>2, <1>3, <2>1, ScheduleOrder
  <1>4. CASE Invoke \/ Resume
    <2>1. sent' = sent /\ client' = client
      BY <1>4 DEF Invoke, Resume, vars, taskVars
    <2> QED BY <1>2, <1>4, <2>1, InvokeOrder
  <1>5. CASE Write
    <2>1. sent' = sent
      BY <1>5 DEF Write, vars, taskVars
    <2> QED BY <1>2, <1>5, <2>1, WriteOrder
  <1>6. CASE UNCHANGED allVars
    BY <1>6, QuietOrder DEF allVars, bridgeVars, vars, taskVars
  <1> QED BY <1>1, <1>3, <1>4, <1>5, <1>6 DEF BridgeNext, LoopStep

\* From the worker to the client the events of a task stand in the order they were
\* raised in, in every stage and from each stage to the next, but for creations and
\* cancellations, which the loop raises itself.
THEOREM StagesInOrder == BridgeSpec => []OrderInv
  BY InitOrder, NextOrder, Managed, AnnouncedAtBridge, CreationInFront, ToldInvariance, PTL
     DEF BridgeSpec

\* No event of a worker overtakes another of its task, and nothing new is told
\* after the verdict, for any tasks beside each other.
THEOREM EventsSeenInOrder == BridgeSpec => []SeenInOrder
  <1>1. BridgeInv /\ OrderInv => SeenInOrder
    <2> SUFFICES ASSUME OrderInv, NEW j \in DOMAIN client, NEW k \in DOMAIN client, j < k,
                        client[j].task = client[k].task, client[k].form = "first"
                 PROVE  /\ client[k].index < client[j].index
                             => Event(client[j]) \in {"created", "cancelled"}
                        /\ Event(client[j]) \notin Verdicts
      BY DEF SeenInOrder
    <2>1. <<client[j], client[k]>> \in MM
      BY DEF OrderInv, OrderedWith, Ordered
    <2> QED BY <2>1 DEF MM, Good
  <1> QED BY <1>1, StagesInOrder, CreationInFront, PTL
=============================================================================
