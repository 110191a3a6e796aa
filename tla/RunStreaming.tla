---------------------------- MODULE RunStreaming ----------------------------
(***************************************************************************)
(* SSHClient.run_streaming (src/mcp_ssh/ssh_client.py): one command on one *)
(* channel.  The loop polls the cancel event, the deadline, stdout, stderr *)
(* and the exit status, in this order, while other threads set the event,  *)
(* paramiko's transport delivers what the server sends, and time passes.   *)
(* Each read of shared state is a step.  Bytes are only counted.           *)
(***************************************************************************)
EXTENDS Integers

CONSTANTS Limits,         \* values of max_seconds; 0 is no limit
          Cap,            \* max_output_bytes
          Chunk,          \* the most one recv returns
          ErrorSize,      \* the length of an exception's text
          ExitAfterData,  \* does the server send the exit status after all output
          MaxBytes,       \* bound: bytes the command writes to each stream
          MaxTime         \* bound: the last instant of the clock

ASSUME StreamAssumption ==
    /\ Limits \subseteq Nat /\ Cap \in Nat /\ ErrorSize \in Nat
    /\ Chunk \in Nat \ {0}
    /\ ExitAfterData \in BOOLEAN
    /\ MaxBytes \in Nat /\ MaxTime \in Nat

Streams == {"out", "err"}

VARIABLES
    maxSeconds, \* max_seconds, an argument
    pc,         \* where run_streaming is
    clock,      \* time.time() - start
    event,      \* the cancel event
    buf,        \* lengths of out_buf and err_buf, the error text left out
    error,      \* length of the error text at the end of err_buf
    exit,       \* exit_code: "unset" is -1
    cancelled, timeout,
    remote,     \* the command: absent, running, or how it ended
    written,    \* bytes of each stream that have reached the channel
    ready       \* those of them not yet received: recv_ready() when above 0

timing == <<maxSeconds, clock>>
flags == <<exit, cancelled, timeout>>
channel == <<remote, written, ready>>
vars == <<pc, timing, event, buf, error, flags, channel>>

Lesser(a, b) == IF a <= b THEN a ELSE b

Places == {"connect", "exec", "cancel?", "deadline?", "out", "err", "status?",
           "outEmpty?", "errEmpty?", "sleep", "except", "finally", "done"}

TypeOK ==
    /\ maxSeconds \in Limits
    /\ pc \in Places
    /\ clock \in 0..MaxTime
    /\ event \in BOOLEAN
    /\ buf \in [Streams -> Nat]
    /\ error \in {0, ErrorSize}
    /\ exit \in {"unset", "zero", "nonzero"}
    /\ cancelled \in BOOLEAN /\ timeout \in BOOLEAN
    /\ remote \in {"absent", "running", "zero", "nonzero", "lost"}
    /\ written \in [Streams -> Nat]
    /\ ready \in [Streams -> Nat]

Init ==
    /\ maxSeconds \in Limits
    /\ pc = "connect" /\ clock = 0
    /\ event \in BOOLEAN
    /\ buf = [s \in Streams |-> 0] /\ error = 0
    /\ exit = "unset" /\ cancelled = FALSE /\ timeout = FALSE
    /\ remote = "absent"
    /\ written = [s \in Streams |-> 0] /\ ready = [s \in Streams |-> 0]

Go(from, to) == pc = from /\ pc' = to

-----------------------------------------------------------------------------
(* Slips a change to this code could make; the runs must notice each.        *)

\* The event noted, the loop not left.
LingeringCheckCancel ==
    /\ Go("cancel?", "deadline?")
    /\ cancelled' = event
    /\ UNCHANGED <<timing, event, buf, error, exit, timeout, channel>>

\* An exit status taken without another look at stdout.
HastyCheckOutEmpty ==
    /\ Go("outEmpty?", "errEmpty?")
    /\ UNCHANGED <<timing, event, buf, error, flags, channel>>

\* An event cleared before the loop, as if it could only be an old one.
ClearingExec ==
    /\ Go("exec", "cancel?")
    /\ remote' = "running"
    /\ event' = FALSE
    /\ UNCHANGED <<timing, buf, error, flags, written, ready>>

\* The cap applied to a chunk instead of the buffer.
ChunkCapReceive(s) ==
    LET n == Lesser(Chunk, ready[s])
    IN  /\ Go(s, IF s = "out" THEN "err" ELSE "status?")
        /\ ready' = [ready EXCEPT ![s] = @ - n]
        /\ buf' = [buf EXCEPT ![s] = @ + Lesser(Cap, n)]
        /\ UNCHANGED <<timing, event, error, flags, remote, written>>

\* A deadline that has to be met to the second.
ExactTimedOut == maxSeconds # 0 /\ clock = maxSeconds

\* A loop that stops looking at the event once it has output.
QuietCheckCancel ==
    LET stop == event /\ buf["out"] = 0
    IN  /\ Go("cancel?", IF stop THEN "finally" ELSE "deadline?")
        /\ cancelled' = stop
        /\ UNCHANGED <<timing, event, buf, error, exit, timeout, channel>>

-----------------------------------------------------------------------------
(* run_streaming                                                             *)

\* _connect, which does not look at the event.
Connect == /\ Go("connect", "exec")
           /\ UNCHANGED <<timing, event, buf, error, flags, channel>>

\* open_session and exec_command: the command starts.
Exec == /\ Go("exec", "cancel?")
        /\ remote' = "running"
        /\ UNCHANGED <<timing, event, buf, error, flags, written, ready>>

\* Any call on the connection may raise.
Raise == /\ pc \in {"connect", "exec", "out", "err", "status?", "outEmpty?", "errEmpty?"}
         /\ pc' = "except"
         /\ UNCHANGED <<timing, event, buf, error, flags, channel>>

CheckCancel ==
    /\ Go("cancel?", IF event THEN "finally" ELSE "deadline?")
    /\ cancelled' = event
    /\ UNCHANGED <<timing, event, buf, error, exit, timeout, channel>>

TimedOut == maxSeconds # 0 /\ clock > maxSeconds

CheckDeadline ==
    /\ Go("deadline?", IF TimedOut THEN "finally" ELSE "out")
    /\ timeout' = TimedOut
    /\ UNCHANGED <<timing, event, buf, error, exit, cancelled, channel>>

\* recv_ready and recv: at most Chunk bytes, of which those over the cap are dropped.
Receive(s) ==
    LET n == Lesser(Chunk, ready[s])
    IN  /\ Go(s, IF s = "out" THEN "err" ELSE "status?")
        /\ ready' = [ready EXCEPT ![s] = @ - n]
        /\ buf' = [buf EXCEPT ![s] = Lesser(Cap, @ + n)]
        /\ UNCHANGED <<timing, event, error, flags, remote, written>>

\* exit_status_ready() and not recv_ready() and not recv_stderr_ready(), read
\* one after the other.  A lost connection counts as an exit, with status -1.
CheckStatus ==
    /\ Go("status?", IF remote \in {"absent", "running"} THEN "sleep" ELSE "outEmpty?")
    /\ UNCHANGED <<timing, event, buf, error, flags, channel>>

CheckOutEmpty ==
    /\ Go("outEmpty?", IF ready["out"] > 0 THEN "sleep" ELSE "errEmpty?")
    /\ UNCHANGED <<timing, event, buf, error, flags, channel>>

CheckErrEmpty ==
    /\ Go("errEmpty?", IF ready["err"] > 0 THEN "sleep" ELSE "finally")
    /\ exit' = IF ready["err"] > 0 \/ remote = "lost" THEN exit ELSE remote
    /\ UNCHANGED <<timing, event, buf, error, cancelled, timeout, channel>>

\* time.sleep(0.05)
Sleep == /\ Go("sleep", "cancel?")
         /\ UNCHANGED <<timing, event, buf, error, flags, channel>>

\* The error text is appended to err_buf, whatever the cap.
Except == /\ Go("except", "finally")
          /\ error' = ErrorSize
          /\ UNCHANGED <<timing, event, buf, flags, channel>>

\* client.close(), then the tuple is returned.
Finally == /\ Go("finally", "done")
           /\ UNCHANGED <<timing, event, buf, error, flags, channel>>

-----------------------------------------------------------------------------
(* The rest of the world                                                     *)

\* cancel_task, from another thread.
SetEvent == /\ ~event /\ event' = TRUE
            /\ UNCHANGED <<pc, timing, buf, error, flags, channel>>

Arrive(s) ==
    /\ written[s] < MaxBytes
    /\ remote = "running" \/ (~ExitAfterData /\ remote \in {"zero", "nonzero"})
    /\ written' = [written EXCEPT ![s] = @ + 1]
    /\ ready' = [ready EXCEPT ![s] = @ + 1]
    /\ UNCHANGED <<pc, timing, event, buf, error, flags, remote>>

\* The server reports the exit status, or the connection is lost.
RemoteEnds == /\ remote = "running"
              /\ remote' \in {"zero", "nonzero", "lost"}
              /\ UNCHANGED <<pc, timing, event, buf, error, flags, written, ready>>

Tick == /\ clock < MaxTime
        /\ clock' = clock + 1
        /\ UNCHANGED <<maxSeconds, pc, event, buf, error, flags, channel>>

-----------------------------------------------------------------------------
LoopStep == \/ CheckCancel \/ CheckDeadline \/ (\E s \in Streams : Receive(s))
            \/ CheckStatus \/ CheckOutEmpty \/ CheckErrEmpty \/ Sleep

Step == Connect \/ Exec \/ Raise \/ LoopStep \/ Except \/ Finally

World == SetEvent \/ (\E s \in Streams : Arrive(s)) \/ RemoteEnds \/ Tick

Next == Step \/ World

Spec == Init /\ [][Next]_vars

\* The thread runs; connecting ends, one way or the other, by its own time-outs,
\* and the server answers exec_command, which waits without one; time passes.
Fairness == /\ WF_vars(Connect \/ (pc = "connect" /\ Raise))
            /\ WF_vars(Exec \/ (pc = "exec" /\ Raise))
            /\ WF_vars(LoopStep) /\ WF_vars(Except \/ Finally)
            /\ WF_vars(Tick)

FairSpec == Spec /\ Fairness
-----------------------------------------------------------------------------
(* Safety                                                                    *)

\* What the callers rely on (MayReturn of AsyncTasks): at most one of
\* cancelled and timeout, each for its own reason and never with an exit code,
\* and an exit code only from the server.
Contract ==
    pc \in {"finally", "done"} =>
        /\ cancelled => event
        /\ timeout => maxSeconds # 0 /\ clock > maxSeconds
        /\ ~(cancelled /\ timeout)
        /\ cancelled \/ timeout => exit = "unset"
        /\ exit # "unset" => exit = remote /\ error = 0

\* The buffers hold the first Cap bytes of what was received, none lost between
\* chunks and none twice.
BuffersFill ==
    \A s \in Streams : ready[s] <= written[s] /\ buf[s] = Lesser(Cap, written[s] - ready[s])

\* A command whose exit code is returned has had all its output read, when the
\* server sends the status after the output: the status is looked at before
\* the streams, so nothing can slip in between.
OutputComplete ==
    ExitAfterData /\ exit # "unset" => \A s \in Streams : buf[s] = Lesser(Cap, written[s])

\* The strengthening of Contract and OutputComplete each step preserves.
Settled == pc \in {"finally", "done"}

StreamInv ==
    /\ TypeOK /\ Contract /\ BuffersFill /\ OutputComplete
    /\ cancelled \/ timeout \/ exit # "unset" \/ error # 0 => Settled
    /\ pc \in {"outEmpty?", "errEmpty?"} => remote \in {"zero", "nonzero", "lost"}
    /\ ExitAfterData /\ pc = "errEmpty?" => ready["out"] = 0
    /\ exit # "unset" => remote = exit

\* A cancel that comes while the client is still connecting is not lost: the
\* command started afterwards is broken off at the first poll.
EarlyCancelHonoured ==
    [](event /\ pc \in {"connect", "exec"} => [](pc = "done" => cancelled \/ error = ErrorSize))

-----------------------------------------------------------------------------
(* Liveness                                                                  *)

\* With a limit the call returns, whatever the command and the server do.
ReturnsInTheEnd == maxSeconds > 0 => <>(pc = "done")

\* Without one it returns once it is cancelled.
CancelReturns == event ~> pc = "done"

=============================================================================
