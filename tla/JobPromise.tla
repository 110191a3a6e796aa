----------------------------- MODULE JobPromise -----------------------------
(***************************************************************************)
(* What the asynchronous tools promise a client, with no threads, no locks *)
(* and no clock: a job is accepted, may be asked to stop while it is       *)
(* undecided, is decided once, and its answer, when there is one, stays    *)
(* the same until it is withdrawn for good.                                *)
(***************************************************************************)
EXTENDS Naturals

CONSTANTS Jobs,
          Answers,            \* what ssh_get_task_result may answer
          NoAnswer,
          CancelledAnswers    \* those that report a cancelled command

VARIABLES phase,    \* of each job: unknown, accepted, abandoned or decided
          asked,    \* was the job asked to stop
          answer    \* what a client that asks for the result is told now

promiseVars == <<phase, asked, answer>>

PromiseInit == /\ phase = [j \in Jobs |-> "unknown"]
               /\ asked = [j \in Jobs |-> FALSE]
               /\ answer = [j \in Jobs |-> NoAnswer]

Moves(j, from, to) == phase[j] = from /\ phase' = [phase EXCEPT ![j] = to]

Accept(j) == Moves(j, "unknown", "accepted") /\ UNCHANGED <<asked, answer>>

\* The server accepted the job and finds that it cannot run it.
Abandon(j) == Moves(j, "accepted", "abandoned") /\ UNCHANGED <<asked, answer>>

Ask(j) == /\ phase[j] \in {"accepted", "abandoned"}
          /\ asked' = [asked EXCEPT ![j] = TRUE]
          /\ UNCHANGED <<phase, answer>>

Decide(j) == /\ Moves(j, "accepted", "decided")
             /\ \E a \in Answers \cup {NoAnswer} :
                  /\ a \in CancelledAnswers => asked[j]
                  /\ answer' = [answer EXCEPT ![j] = a]
             /\ UNCHANGED asked

\* Answers expire with time, several at once.
Withdraw == /\ \E S \in SUBSET Jobs :
                 answer' = [j \in Jobs |-> IF j \in S THEN NoAnswer ELSE answer[j]]
            /\ UNCHANGED <<phase, asked>>

PromiseNext == \/ \E j \in Jobs : Accept(j) \/ Abandon(j) \/ Ask(j) \/ Decide(j)
               \/ Withdraw

PromiseSpec == PromiseInit /\ [][PromiseNext]_promiseVars

\* A job that was asked to stop is settled in the end.
PromiseFairSpec ==
    PromiseSpec /\ \A j \in Jobs : WF_promiseVars(asked[j] /\ (Abandon(j) \/ Decide(j)))
=============================================================================
