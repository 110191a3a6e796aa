---------------------------- MODULE MCAsyncTasks ----------------------------
(* Small instances of AsyncTasks. *)
EXTENDS AsyncTasks

CONSTANT t1

\* The limits the runs try: a result that lives one instant, one that never
\* does, an unreadable task_result_ttl, no time limit, an unreadable one, an
\* unreadable max_output_bytes.
Capped    == [ttl |-> 1, budget |-> "capped", cap |-> "number"]
Stillborn == [ttl |-> 0, budget |-> "capped", cap |-> "number"]
BadTtl    == [ttl |-> BadLimit, budget |-> "capped", cap |-> "number"]
Endless   == [ttl |-> 1, budget |-> "unbounded", cap |-> "number"]
BadBudget == [ttl |-> 1, budget |-> "bad", cap |-> "number"]
BadCap    == [ttl |-> 1, budget |-> "capped", cap |-> "bad"]

AllLimits  == {Capped, Stillborn, BadTtl, Endless, BadBudget, BadCap}
=============================================================================
