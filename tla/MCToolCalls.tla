---------------------------- MODULE MCToolCalls -----------------------------
(* Small instances of ToolCalls for TLC: two hosts, configuration files that *)
(* an operator edits once, and up to two calls at a time.                    *)
EXTENDS ToolCalls

CONSTANTS a, b, inside, outside, call, other

Two == {a, b}
Addresses == {inside, outside}
Contents == {"none", "old", "new"}

\* servers.yml: the edit takes host b away.
HostsOf(v) == CASE v = "old" -> {a, b} [] v = "new" -> {a} [] OTHER -> {}
TaggedOf(v) == CASE v = "old" -> <<a, b>> [] v = "new" -> <<a>> [] OTHER -> <<>>
\* credentials.yml: b has no usable entry at first.
CompleteOf(v) == CASE v = "old" -> {a} [] v = "new" -> {a, b} [] OTHER -> {}
\* policy.yml: the edit forbids the command on a; both need the tag.
PermitsOf(v, w) ==
    CASE w = "old" -> HostsOf(v) [] w = "new" -> HostsOf(v) \ {a} [] OTHER -> {}
\* ... and gives b a limit that is not a number.
ReadableOf(w) == IF w = "new" THEN {a} ELSE {a, b}
NetworksOf(w) == IF w = "none" THEN {} ELSE {inside}

OneRun == {call}
TwoCalls == {call, other}
RunKind == [c \in {call} |-> "run"]
RunAndTag == [c \in TwoCalls |-> IF c = call THEN "run" ELSE "tag"]
AsyncAndTag == [c \in TwoCalls |-> IF c = call THEN "async" ELSE "tag"]

=============================================================================
