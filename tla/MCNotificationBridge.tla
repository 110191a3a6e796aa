------------------------ MODULE MCNotificationBridge ------------------------
(* Small instances of NotificationBridge. *)
EXTENDS NotificationBridge

CONSTANT t1

Capped    == [ttl |-> 1, budget |-> "capped", cap |-> "number"]
Endless   == [ttl |-> 1, budget |-> "unbounded", cap |-> "number"]
BadTtl    == [ttl |-> BadLimit, budget |-> "capped", cap |-> "number"]
BridgeLimits == {Capped, Endless, BadTtl}
=============================================================================
