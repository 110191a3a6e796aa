----------------------------- MODULE PlanAndRun -----------------------------
(***************************************************************************)
(* Two tools of src/mcp_ssh/mcp_server.py are asked the same thing, in any  *)
(* order: ssh_plan what would happen to a command on a host, and ssh_run,   *)
(* up to the point where it opens a connection, to run it.  Both judge with *)
(* module Policy; the configuration does not change in between.             *)
(***************************************************************************)
EXTENDS Policy

CONSTANTS Requests,       \* sets of [alias, command, policy, ips], one after the
                          \* other: what is asked, under which policy, and what
                          \* the host's name resolves to
          HostTags,       \* servers.yml: the tags of each host, in order
          NameSymbols,    \* the symbols an alias may be made of
          Control,        \* the symbol for a control character
          MaxAliasLength, MaxCommandLength,
          MoreRules       \* rules an operator might add at the end

\* The texts and lists of a request are sequences, deny_substrings holds texts, and
\* path_args has no negative index: 0 is the binary, and what follows are its
\* arguments.
IsSeq(s) == s \in Seq(ToSet(s))
DeniesTexts(limits) ==
    "deny_substrings" \in DOMAIN limits => \A text \in limits.deny_substrings : IsSeq(text)
ASSUME RequestsAssumption ==
    /\ \A alias \in DOMAIN HostTags : IsSeq(HostTags[alias])
    /\ \A i \in DOMAIN Requests : \A request \in Requests[i] :
         LET policy == request.policy
         IN  /\ IsSeq(request.alias) /\ IsSeq(request.command)
             /\ {"limits", "aliasLimits", "tagLimits", "rules"} \subseteq DOMAIN policy
             /\ DeniesTexts(policy.limits)
             /\ \A name \in DOMAIN policy.aliasLimits : DeniesTexts(policy.aliasLimits[name])
             /\ \A name \in DOMAIN policy.tagLimits : DeniesTexts(policy.tagLimits[name])
             /\ IsSeq(policy.rules)
             /\ \A r \in DOMAIN policy.rules :
                   IsSeq(policy.rules[r].prefix) /\ policy.rules[r].indices \in Seq(Nat)

VARIABLES asked,          \* the request
          plan,           \* "none" yet, or "invalid", or "plan" with its fields
          run             \* "none", "invalid", "error", "policy", "network", "goes"

vars == <<asked, plan, run>>

NoAnswer == [what |-> "none"]
Invalid  == [what |-> "invalid"]

Init == /\ \E i \in DOMAIN Requests : asked \in Requests[i]
        /\ plan = NoAnswer /\ run = NoAnswer

-----------------------------------------------------------------------------
(* _validate_alias, _validate_command, get_host_tags                         *)

ValidAlias(alias) ==
    /\ Strip(alias) # <<>>
    /\ Len(Strip(alias)) <= MaxAliasLength
    /\ ToSet(Strip(alias)) \subseteq NameSymbols

ValidCommand(cmd) ==
    /\ Strip(cmd) # <<>>
    /\ Len(Strip(cmd)) <= MaxCommandLength
    /\ Control \notin ToSet(Strip(cmd))

TagsOf(alias) == IF alias \in DOMAIN HostTags THEN HostTags[alias] ELSE <<>>

-----------------------------------------------------------------------------
(* Slips a change to this code could make; the runs must notice each.        *)

\* The limits are looked up without the host's tags.
UntaggedGoes(alias) == [what |-> "goes", limits |-> CollectLimits(asked.policy, alias, <<>>)]

-----------------------------------------------------------------------------
(* ssh_plan: judges the text as it came, blanks around it included.          *)
Plan ==
    LET alias == asked.alias
        cmd == asked.command
        tags == TagsOf(alias)
        allowed == IsAllowed(asked.policy, alias, tags, cmd)
    IN  /\ plan = NoAnswer
        /\ plan' = IF ValidAlias(alias) /\ ValidCommand(cmd)
                   THEN [what |-> "plan", allowed |-> allowed,
                         limits |-> CollectLimits(asked.policy, alias, tags),
                         denied |-> IF allowed THEN <<>> ELSE
                             DeniedCommandInChain(asked.policy, alias, tags, cmd)]
                   ELSE Invalid
        /\ UNCHANGED <<asked, run>>

Goes(alias) ==
    [what |-> "goes", limits |-> CollectLimits(asked.policy, alias, TagsOf(alias))]

\* ssh_run: takes the blanks off, then the host, the command, the network.
Run ==
    LET alias == Strip(asked.alias)
        cmd == Strip(asked.command)
    IN  /\ run = NoAnswer
        /\ run' = IF ~ValidAlias(asked.alias) \/ ~ValidCommand(asked.command)
                  THEN Invalid
                  ELSE IF alias \notin DOMAIN HostTags THEN [what |-> "error"]
                  ELSE IF ~IsAllowed(asked.policy, alias, TagsOf(alias), cmd)
                  THEN [what |-> "policy"]
                  ELSE IF ~PrecheckNetwork(asked.policy, asked.ips)
                  THEN [what |-> "network"]
                  ELSE Goes(alias)
        /\ UNCHANGED <<asked, plan>>

Next == Plan \/ Run
Spec == Init /\ [][Next]_vars

-----------------------------------------------------------------------------

\* Nothing of a command is lost or moved when it is taken apart, and it is taken
\* apart at the operators outside quotes and groups and nowhere else, whether the
\* quick look or the scan of _parse_command_chain answers.  The operators are the
\* four of Commands: "&&", "||", ";" and "|".
ChainSplit == plan.what = "plan" => SplitRight(asked.command)

\* A chain passes if each of its commands would pass alone, else the plan names
\* the first that would not; what holds a substitution never passes.  A chain has
\* one of the four operators of Commands: of "ls & x", or of two lines, this says
\* nothing, and the code judges it by its first word.
ChainJudgedByMembers ==
    LET members == Commands(asked.command)
        Alone(k) == IsAllowed(asked.policy, asked.alias, TagsOf(asked.alias), members[k])
    IN  plan.what = "plan" =>
          IF Substitutes(asked.command) THEN ~plan.allowed
          ELSE Len(members) > 1 =>
             /\ plan.allowed <=> \A k \in DOMAIN members : Alone(k)
             /\ ~plan.allowed => \E k \in DOMAIN members :
                   /\ plan.denied = members[k] /\ ~Alone(k)
                   /\ \A j \in 1..k - 1 : Alone(j)

\* The first rule that matches decides: a rule added at the end of the file can
\* change a verdict only where a command matched no rule so far.
AppendedRuleFillsGaps ==
    LET policy == asked.policy
        tags == TagsOf(asked.alias)
        Allowed(p) == IsAllowed(p, asked.alias, tags, asked.command)
        parsed == ParseCommandChain(asked.command)
        judged == IF Len(parsed) > 1 THEN ToSet(parsed) ELSE {asked.command}
    IN  plan.what = "plan" => \A rule \in MoreRules :
          \/ Allowed([policy EXCEPT !.rules = Append(@, rule)]) = plan.allowed
          \/ \E cmd \in judged :
                /\ SplitCommandArgs(cmd) # <<>>
                /\ Matching(policy.rules, asked.alias, tags, SplitCommandArgs(cmd)) = {}

\* A limit is the alias's own; else that of the last of its tags to set it; else
\* the file's; else the built-in one.
LimitsPrecedence ==
    LET policy == asked.policy
        mine == LayerOf(policy.aliasLimits, asked.alias)
        tags == TagsOf(asked.alias)
        Sets(name) == {i \in DOMAIN tags : name \in DOMAIN LayerOf(policy.tagLimits, tags[i])}
        Latest(S) == CHOOSE i \in S : \A j \in S : j <= i
    IN  plan.what = "plan" => \A name \in DOMAIN plan.limits : plan.limits[name] =
          IF name \in DOMAIN mine THEN mine[name]
          ELSE IF Sets(name) # {} THEN policy.tagLimits[tags[Latest(Sets(name))]][name]
          ELSE IF name \in DOMAIN policy.limits THEN policy.limits[name]
          ELSE DefaultLimits[name]

\* A structured rule without allow_extra_args lets no argument pass but those its
\* prefix fixes and those that path_args names; where path_args has patterns, one
\* of them matches each argument that it names.  So what such a rule leaves
\* unchecked are the arguments that path_args names without patterns: arg_prefix
\* ["n"] and indices [2] let "cat n" pass with any one argument more
\* (policy.py:626, 632).  Left out is a rule without a prefix that names the
\* binary, or one argument twice: it only counts (policy.py:650), and lets
\* another argument pass for the one it names in vain.
StrictRuleNamesAll ==
    LET argv == SplitCommandArgs(asked.command)
    IN  plan.what = "plan" /\ argv # <<>> => \A r \in DOMAIN asked.policy.rules :
          LET rule == asked.policy.rules[r]
          IN  /\ MatchStructuredRule(rule, argv) /\ ~rule.extra
              /\ rule.prefix = <<>> => 0 \notin ToSet(rule.indices) /\ IsInjective(rule.indices)
              => \A i \in 2..Len(argv) :
                   \/ i - 1 <= Len(rule.prefix) /\ argv[i] = rule.prefix[i - 1]
                   \/ /\ i - 1 \in ToSet(rule.indices)
                      /\ rule.patterns # {} => MatchAny(argv[i], rule.patterns)

\* For an alias without blanks around it, ssh_run does not refuse a command that
\* ssh_plan allows, it refuses one the plan denies unless there are blanks around
\* it, which only the plan looks at, and it has the limits the plan shows.
PlanPredictsRun ==
    asked.alias = Strip(asked.alias)
      /\ plan.what = "plan" /\ run.what \in {"policy", "network", "goes"} =>
         /\ plan.allowed => run.what # "policy"
         /\ asked.command = Strip(asked.command) /\ ~plan.allowed => run.what = "policy"
         /\ run.what = "goes" => run.limits = plan.limits

\* As the tool describes itself, "Show what would be executed and if policy
\* allows", for whatever alias and command it takes: what ssh_plan says of a host
\* that exists, ssh_run does, up to the network, and with the same limits.
PlanIsForThisRun ==
    plan.what = "plan" /\ run.what \in {"policy", "network", "goes"} =>
       /\ plan.allowed <=> run.what # "policy"
       /\ run.what = "goes" => run.limits = plan.limits
=============================================================================
