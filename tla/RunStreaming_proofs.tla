------------------------- MODULE RunStreaming_proofs -------------------------
(* Theorems about RunStreaming, for every limit, cap and chunk size. *)
EXTENDS RunStreaming, TLAPS

\* Cutting the buffer after each chunk keeps the first Cap bytes of the whole.
LEMMA CapOnce ==
    ASSUME NEW c \in Nat, NEW got \in Nat, NEW n \in Nat
    PROVE  Lesser(c, Lesser(c, got) + n) = Lesser(c, got + n)
  BY DEF Lesser

LEMMA InitStreamInv == Init => StreamInv
<1> SUFFICES ASSUME Init PROVE StreamInv
  OBVIOUS
<1>1. event \in BOOLEAN /\ cancelled \in BOOLEAN /\ timeout \in BOOLEAN
  BY Zenon DEF Init
<1>2. TypeOK
  BY <1>1, StreamAssumption DEF Init, TypeOK, Places
<1>3. BuffersFill
  BY StreamAssumption DEF Init, BuffersFill, Lesser
<1> QED BY <1>2, <1>3 DEF Init, StreamInv, Contract, OutputComplete, Settled

LEMMA StepStreamInv == ASSUME StreamInv, Step PROVE StreamInv'
<1> USE StreamAssumption DEF StreamInv, timing, flags, channel
<1>1. CASE Connect
  BY <1>1 DEF Connect, Go, TypeOK, Places, Contract, BuffersFill, OutputComplete, Settled
<1>2. CASE Exec
  BY <1>2 DEF Exec, Go, TypeOK, Places, Contract, BuffersFill, OutputComplete, Settled
<1>3. CASE Raise
  BY <1>3 DEF Raise, TypeOK, Places, Contract, BuffersFill, OutputComplete, Settled
<1>4. CASE CheckCancel
  BY <1>4 DEF CheckCancel, Go, TypeOK, Places, Contract, BuffersFill, OutputComplete, Settled
<1>5. CASE CheckDeadline
  BY <1>5 DEF CheckDeadline, TimedOut, Go, TypeOK, Places, Contract, BuffersFill, OutputComplete, Settled
<1>6. ASSUME NEW s \in Streams, Receive(s) PROVE StreamInv'
  <2> DEFINE n == Lesser(Chunk, ready[s])
             got == written[s] - ready[s]
  <2>1. n \in Nat /\ n <= ready[s] /\ got \in Nat /\ ready[s] \in Nat /\ written[s] \in Nat
    BY DEF TypeOK, BuffersFill, Lesser
  <2>2. buf'[s] = Lesser(Cap, got + n)
    BY <1>6, <2>1, CapOnce DEF Receive, BuffersFill, TypeOK
  <2>3. ready'[s] = ready[s] - n /\ written' = written
    BY <1>6 DEF Receive, TypeOK
  <2>4. \A u \in Streams : u # s => ready'[u] = ready[u] /\ buf'[u] = buf[u]
    BY <1>6 DEF Receive, TypeOK
  <2>5. BuffersFill'
    BY <2>1, <2>2, <2>3, <2>4 DEF BuffersFill
  <2>6. TypeOK'
    BY <1>6, <2>1 DEF Receive, Go, TypeOK, Places, Streams, Lesser
  <2> QED BY <1>6, <2>5, <2>6 DEF Receive, Go, Streams, Contract, OutputComplete, Settled
<1>7. CASE CheckStatus
  BY <1>7 DEF CheckStatus, Go, TypeOK, Places, Contract, BuffersFill, OutputComplete, Settled
<1>8. CASE CheckOutEmpty
  BY <1>8 DEF CheckOutEmpty, Go, TypeOK, Places, Streams, Contract, BuffersFill, OutputComplete, Settled
<1>9. CASE CheckErrEmpty
  BY <1>9 DEF CheckErrEmpty, Go, TypeOK, Places, Streams, Contract, BuffersFill, OutputComplete, Settled
<1>10. CASE Sleep
  BY <1>10 DEF Sleep, Go, TypeOK, Places, Contract, BuffersFill, OutputComplete, Settled
<1>11. CASE Except
  BY <1>11 DEF Except, Go, TypeOK, Places, Contract, BuffersFill, OutputComplete, Settled
<1>12. CASE Finally
  BY <1>12 DEF Finally, Go, TypeOK, Places, Contract, BuffersFill, OutputComplete, Settled
<1> QED BY <1>1, <1>2, <1>3, <1>4, <1>5, <1>6, <1>7, <1>8, <1>9, <1>10, <1>11, <1>12 DEF Step, LoopStep

LEMMA WorldStreamInv == ASSUME StreamInv, World PROVE StreamInv'
<1> USE StreamAssumption DEF StreamInv, timing, flags, channel
<1>1. CASE SetEvent
  BY <1>1 DEF SetEvent, TypeOK, Contract, BuffersFill, OutputComplete, Settled
<1>2. ASSUME NEW s \in Streams, Arrive(s) PROVE StreamInv'
  BY <1>2 DEF Arrive, TypeOK, Streams, Contract, BuffersFill, OutputComplete, Settled
<1>3. CASE RemoteEnds
  BY <1>3 DEF RemoteEnds, TypeOK, Contract, BuffersFill, OutputComplete, Settled
<1>4. CASE Tick
  BY <1>4 DEF Tick, TypeOK, Contract, BuffersFill, OutputComplete, Settled
<1> QED BY <1>1, <1>2, <1>3, <1>4 DEF World

\* What run_streaming returns, and what it has read by then, for every limit,
\* cap, chunk size and order of events.
THEOREM StreamInvariance == Spec => []StreamInv
<1>1. StreamInv /\ [Next]_vars => StreamInv'
  <2>1. ASSUME StreamInv, UNCHANGED vars PROVE StreamInv'
    BY <2>1 DEF vars, timing, flags, channel, StreamInv, TypeOK, Contract, BuffersFill, OutputComplete, Settled
  <2> QED BY <2>1, StepStreamInv, WorldStreamInv DEF Next
<1> QED BY <1>1, InitStreamInv, PTL DEF Spec

\* The callers' contract: AsyncTasks relies on it for what its worker may get back.
THEOREM ContractHolds == Spec => []Contract
<1>1. StreamInv => Contract
  BY DEF StreamInv
<1> QED BY <1>1, StreamInvariance, PTL

\* The buffers hold the first Cap bytes of what was received.
THEOREM BuffersFilled == Spec => []BuffersFill
<1>1. StreamInv => BuffersFill
  BY DEF StreamInv
<1> QED BY <1>1, StreamInvariance, PTL

\* With a server that sends the exit status last, no output is lost.
THEOREM OutputsComplete == Spec => []OutputComplete
<1>1. StreamInv => OutputComplete
  BY DEF StreamInv
<1> QED BY <1>1, StreamInvariance, PTL

\* Where a cancelled call is until it returns, once the cancel came before the
\* command: on its way to the first poll, or to the end with a reason for it.
Doomed ==
    /\ event
    /\ \/ pc \in {"connect", "exec", "cancel?", "except"}
       \/ pc \in {"finally", "done"} /\ (cancelled \/ error = ErrorSize)

LEMMA StaysDoomed == Doomed /\ [Next]_vars => Doomed'
<1> SUFFICES ASSUME Doomed, [Next]_vars PROVE Doomed'
  OBVIOUS
<1>1. CASE Connect \/ Exec \/ Raise \/ Sleep
  BY <1>1 DEF Doomed, Connect, Exec, Raise, Sleep, Go
<1>2. CASE CheckCancel
  BY <1>2 DEF Doomed, CheckCancel, Go
<1>3. CASE CheckDeadline \/ (\E s \in Streams : Receive(s)) \/ CheckStatus
           \/ CheckOutEmpty \/ CheckErrEmpty
  BY <1>3 DEF Doomed, CheckDeadline, Receive, CheckStatus, CheckOutEmpty, CheckErrEmpty,
     Go, Streams
<1>4. CASE Except \/ Finally
  BY <1>4 DEF Doomed, Except, Finally, Go, flags
<1>5. CASE World
  BY <1>5 DEF Doomed, World, SetEvent, Arrive, RemoteEnds, Tick, flags
<1>6. CASE UNCHANGED vars
  BY <1>6 DEF Doomed, vars, flags
<1> QED BY <1>1, <1>2, <1>3, <1>4, <1>5, <1>6 DEF Next, Step, LoopStep

\* A cancel that comes before the command is started is honoured whenever the
\* call returns, whatever the connection, the command and the clock do meanwhile.
THEOREM EarlyCancelsHonoured == Spec => EarlyCancelHonoured
<1>1. event /\ pc \in {"connect", "exec"} => Doomed
  BY DEF Doomed
<1>2. Doomed => (pc = "done" => cancelled \/ error = ErrorSize)
  BY DEF Doomed
<1> QED BY <1>1, <1>2, StaysDoomed, PTL DEF Spec, EarlyCancelHonoured
=============================================================================
