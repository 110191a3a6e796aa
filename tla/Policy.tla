------------------------------- MODULE Policy -------------------------------
(***************************************************************************)
(* The decisions of class Policy (src/mcp_ssh/policy.py) as functions of a  *)
(* policy file: which limits hold for a host, whether a command may run     *)
(* there, and whether an address may be connected to.                       *)
(*                                                                          *)
(* A policy is a record:                                                    *)
(*   limits, aliasLimits, tagLimits   names of limits -> values; by alias   *)
(*       and by tag; "deny_substrings" is a set of symbol sequences, the    *)
(*       empty one where the file has something that is not a list          *)
(*   rules      a sequence of records (RuleFields)                          *)
(*   network    the four lists, as sets of entries                          *)
(* A glob pattern is the set of the values it matches, a list of patterns a *)
(* set of such sets.                                                        *)
(***************************************************************************)
EXTENDS CommandChain

CONSTANTS Slashed,      \* the words with a slash in them
          Reach         \* the addresses that each entry of a network list which
                        \* ipaddress can read stands for; an address is one itself

NoLimit == -1           \* a rule without simple_max_args
Unset   == <<"unset">>  \* a rule without binary

DefaultLimits ==
    [max_seconds |-> 60, task_result_ttl |-> 300,
     deny_substrings |-> {<<"ssh", Blank>>, <<"reboot">>}]

Nothing == [name \in {} |-> 0]
LayerOf(layers, name) == IF name \in DOMAIN layers THEN layers[name] ELSE Nothing

\* dict.update: what upper has of each name, else what lower has.
Over(upper, lower) ==
    [name \in DOMAIN upper \cup DOMAIN lower |->
        IF name \in DOMAIN upper THEN upper[name] ELSE lower[name]]

-----------------------------------------------------------------------------
(* Slips a change to this code could make; the runs must notice each.        *)

\* A tag's limits also replace those set for the alias.
TagsWinCollectLimits(policy, alias, tags) ==
    FoldLeft(LAMBDA limits, tag : Over(LayerOf(policy.tagLimits, tag), limits),
             Over(LayerOf(policy.aliasLimits, alias), Over(policy.limits, DefaultLimits)),
             tags)

\* allow_extra_args counts for nothing in a rule with path_args.
PrefixedNothingExtra(rule, args) ==
    rule.prefix # <<>> /\ rule.indices = <<>> => Len(args) = Len(rule.prefix)

\* Only the first command of a chain is judged.
HeadOfChain(members) == {1}

\* The last rule that matches decides.
LastDecidingRule(matching) == CHOOSE r \in matching : \A q \in matching : q <= r

-----------------------------------------------------------------------------
(* _collect_limits                                                           *)

\* The built-in limits, under the file's, under the alias's; then each tag in
\* turn over all of them, except what the alias sets.
CollectLimits(policy, alias, tags) ==
    LET mine == LayerOf(policy.aliasLimits, alias)
        Apply(limits, tag) ==
            LET layer == LayerOf(policy.tagLimits, tag)
            IN  Over(Restrict(layer, DOMAIN layer \ DOMAIN mine), limits)
    IN  FoldLeft(Apply, Over(mine, Over(policy.limits, DefaultLimits)), tags)

-----------------------------------------------------------------------------
(* Rules.  An argument vector argv has the binary at 1; the code counts from 0. *)

MatchAny(value, patterns) == \E p \in patterns : value \in p

\* What keeps an argument out of a simple rule.
Metas == {<<";">>, <<"&", "&">>, <<"|">>, <<Tick>>, <<"$", "(">>}

MatchSimpleBinaries(rule, argv) ==
    /\ argv[1] \in rule.simple
    /\ rule.maxArgs # NoLimit => Len(argv) - 1 <= rule.maxArgs
    /\ \A i \in 2..Len(argv), meta \in Metas : ~Occurs(meta, argv[i])

\* Without allow_extra_args: after the prefix come exactly the arguments that
\* path_args names, or none if it names none; without a prefix, as many
\* arguments as it has indices.
NothingExtra(rule, args) ==
    LET named  == {i - 1 : i \in {j \in ToSet(rule.indices) : j > 0}}
        prefix == Len(rule.prefix)
    IN  IF prefix = 0
        THEN rule.indices # <<>> => Len(args) = Len(rule.indices)
        ELSE IF rule.indices = <<>> THEN Len(args) = prefix
        ELSE /\ prefix..Len(args) - 1 \subseteq named
             /\ Len(args) = prefix + Cardinality(named)

MatchStructuredRule(rule, argv) ==
    LET args  == Tail(argv)
        paths == rule.indices # <<>> /\ rule.patterns # {}
    IN  /\ argv[1] = rule.binary
        /\ rule.prefix # <<>> \/ paths
        /\ IsPrefix(rule.prefix, args)
        /\ ~rule.extra => NothingExtra(rule, args)
        /\ paths => \A i \in ToSet(rule.indices) :
                       i < Len(argv) /\ MatchAny(argv[i + 1], rule.patterns)

\* Empty lists match every host.
Concerns(rule, alias, tags) ==
    /\ rule.aliases # {} => MatchAny(alias, rule.aliases)
    /\ rule.tags # {} => \E t \in ToSet(tags) : MatchAny(t, rule.tags)

Matching(rules, alias, tags, argv) ==
    {r \in DOMAIN rules : /\ Concerns(rules[r], alias, tags)
                          /\ \/ MatchSimpleBinaries(rules[r], argv)
                             \/ MatchStructuredRule(rules[r], argv)}

\* The loop breaks at the first rule that matches.
DecidingRule(matching) == CHOOSE r \in matching : \A q \in matching : r <= q

-----------------------------------------------------------------------------
(* is_allowed and what it is made of                                         *)

Banned(cmd) == Substitutes(cmd)

DeniedBySubstring(deny, cmd) ==
    \E s \in deny \ {<<>>} : \/ Occurs(s, cmd)
                             \/ Occurs(s, NormalizeCommand(cmd))
                             \/ Strip(s) \in ToSet(Tokens(cmd))

IsSingleCommandAllowed(policy, alias, tags, cmd) ==
    LET argv == SplitCommandArgs(cmd)
        matching == Matching(policy.rules, alias, tags, argv)
    IN  /\ ~Banned(cmd)
        /\ argv # <<>>
        /\ ToSet(argv[1]) \cap Slashed = {}
        /\ ~DeniedBySubstring(CollectLimits(policy, alias, tags).deny_substrings, cmd)
        /\ matching # {}
        /\ policy.rules[DecidingRule(matching)].action = "allow"

\* The members of a chain that are looked at.
Judged(members) == DOMAIN members

IsAllowed(policy, alias, tags, cmd) ==
    LET members == ParseCommandChain(cmd)
    IN  IF Len(members) > 1
        THEN \A k \in Judged(members) :
                IsSingleCommandAllowed(policy, alias, tags, members[k])
        ELSE IsSingleCommandAllowed(policy, alias, tags, cmd)

\* The command a refusal names; <<>> for none.
DeniedCommandInChain(policy, alias, tags, cmd) ==
    LET members == ParseCommandChain(cmd)
        denied  == {k \in DOMAIN members :
                      ~IsSingleCommandAllowed(policy, alias, tags, members[k])}
    IN  IF Len(members) <= 1
        THEN IF IsAllowed(policy, alias, tags, cmd) THEN <<>> ELSE cmd
        ELSE IF denied = {} THEN <<>>
        ELSE members[CHOOSE k \in denied : \A j \in denied : k <= j]

-----------------------------------------------------------------------------
(* is_ip_allowed: what is blocked, then what is listed; entries that cannot  *)
(* be read are as good as absent.                                            *)

Ips(entries)   == {e \in entries \cap DOMAIN Reach : Reach[e] = {e}}
Cidrs(entries) == entries \cap DOMAIN Reach

Lists(ips, cidrs, ip) == ip \in Ips(ips) \/ \E e \in Cidrs(cidrs) : ip \in Reach[e]

IsIpAllowed(policy, ip) ==
    LET net == policy.network
    IN  /\ ip \in DOMAIN Reach
        /\ ~Lists(net.blockIps, net.blockCidrs, ip)
        /\ Ips(net.allowIps) \cup Cidrs(net.allowCidrs) # {}
              => Lists(net.allowIps, net.allowCidrs, ip)

\* _precheck_network of mcp_server.py: one address that is allowed is enough.
PrecheckNetwork(policy, ips) == \E ip \in ips : IsIpAllowed(policy, ip)
=============================================================================
