---------------------------- MODULE MCPlanAndRun ----------------------------
(* Requests for TLC, in four families, each varied where one part of the     *)
(* policy code branches: how the command is split, which rules there are,    *)
(* which limits are set where, and what the network lists hold.              *)
EXTENDS PlanAndRun

Web == <<"web">>  Db == <<"db">>  Lone == <<"lone">>
PaddedWeb == <<" ", "web">>
Odd == {<<>>, <<" ">>, <<"web", "control">>, <<"web", "web", "web">>, <<"ghost">>}
Anyone == {Web, Db, Lone, PaddedWeb, <<"ghost">>}

Hosts == (Web :> <<"prod", "eu">>) @@ (Db :> <<"eu", "prod">>) @@ (Lone :> <<>>)
Names == {"web", "db", "lone", "ghost"}
WithSlash == {"/bin/ls"}

\* 10.0.0.0/8 holds "in", 10.0.0.9/32 is "one" alone; "bad" is no address.
Reaches == ("in" :> {"in"}) @@ ("one" :> {"one"}) @@ ("out" :> {"out"})
           @@ ("10/8" :> {"in", "one"}) @@ ("one/32" :> {"one"})

OpenNetwork == [blockIps |-> {}, blockCidrs |-> {}, allowIps |-> {}, allowCidrs |-> {}]

-----------------------------------------------------------------------------
(* Rules *)

Rule(action) ==
    [action |-> action, aliases |-> {}, tags |-> {}, simple |-> {}, maxArgs |-> NoLimit,
     binary |-> Unset, prefix |-> <<>>, extra |-> TRUE, indices |-> <<>>, patterns |-> {}]
LsRule(action) == [Rule(action) EXCEPT !.simple = {<<"ls">>, <<"/bin/ls">>}]
CatRule(prefix, indices) ==
    [Rule("allow") EXCEPT !.binary = <<"cat">>, !.prefix = prefix, !.extra = FALSE,
                          !.indices = indices, !.patterns = {{<<"f">>}, {<<"f">>, <<"g">>}}]

RuleShapes == {
    LsRule("allow"),
    [LsRule("deny") EXCEPT !.aliases = {{Web}}],
    [LsRule("allow") EXCEPT !.tags = {{"eu"}}, !.maxArgs = 0],
    [LsRule("allow") EXCEPT !.aliases = {{}}],
    CatRule(<<>>, <<1>>), CatRule(<<<<"n">>>>, <<2>>), CatRule(<<<<"n">>>>, <<>>),
    CatRule(<<>>, <<2, 1>>), CatRule(<<>>, <<>>),
    [CatRule(<<<<"n">>>>, <<2>>) EXCEPT !.patterns = {}],
    [CatRule(<<<<"n">>>>, <<>>) EXCEPT !.action = "deny", !.extra = TRUE, !.patterns = {}] }
RuleLists == {<<>>} \cup {<<r>> : r \in RuleShapes} \cup {<<r, q>> : r, q \in RuleShapes}

Additions == {LsRule("allow"), LsRule("deny"), CatRule(<<>>, <<1>>)}

-----------------------------------------------------------------------------
(* Requests *)

PlainPolicy ==
    [limits |-> Nothing, aliasLimits |-> Nothing, tagLimits |-> Nothing,
     rules |-> <<LsRule("allow")>>, network |-> OpenNetwork]
With(alias, command, policy, ips) ==
    [alias |-> alias, command |-> command, policy |-> policy, ips |-> ips]

\* All texts of n symbols over one of these sets: the first three up to four
\* symbols, the last five.
Alphabets == <<{"ls", " ", "&", "|", ";", "'"}, {"ls", ";", "|", "(", ")", "\""},
               {"ls", ";", "$", "(", "'", Tick},
               {"ls", " ", "&", "|"}>>
Splitting(alphabet, n) ==
    {With(Web, text, PlainPolicy, {"out"}) : text \in [1..n -> Alphabets[alphabet]]}

Ls == <<"ls">>  Cat == <<"cat", " ", "f">>
Commands2 == {
    Ls \o <<";">> \o Cat, Cat \o <<" ", "|", " ">> \o Ls \o <<"&", "&">> \o Ls \o <<" ", "a">>,
    Ls, <<" ">> \o Ls \o <<" ">>, Ls \o <<" ", "a">>, <<"/bin/ls">>, <<"l", "'", "s">>,
    Ls \o <<" ", "'", "|", "'">>, Cat, Cat \o <<" ", "g">>, <<"cat", " ", "n", " ", "f">>,
    <<"cat", " ", "n">>, <<"cat", " ", "n", " ", "f", " ", "x">>, <<"'", "ssh", "'", " ", "x">>,
    Ls \o <<" ", "x", "ssh", " ">>, <<>>, <<" ">>, <<"control">>, <<"ls", "ls", "ls", "ls", "ls", "ls",
     "ls", "ls", "ls", "ls">>}
Ruling ==
    {With(alias, command, [PlainPolicy EXCEPT !.rules = rules], {"out"}) :
        alias \in {Web, Lone}, command \in Commands2, rules \in RuleLists}
    \cup {With(PaddedWeb, command, [PlainPolicy EXCEPT !.rules = <<rule>>], {"out"}) :
        command \in Commands2, rule \in RuleShapes}
    \cup {With(alias, Ls, PlainPolicy, {"out"}) : alias \in Odd}

Layers == {Nothing, [max_seconds |-> 1], [max_seconds |-> 2, deny_substrings |-> {}],
           [deny_substrings |-> {<<"l">>, <<>>, <<" ", "ls", " ">>}]}
Limiting ==
    {With(alias, Ls, [PlainPolicy EXCEPT !.limits = file, !.aliasLimits = Web :> mine,
                          !.tagLimits = ("prod" :> prod) @@ ("eu" :> eu)], {"out"}) :
        alias \in {Web, Db, Lone, PaddedWeb}, file, mine, prod, eu \in Layers}

Networks == {[blockIps |-> b, blockCidrs |-> c, allowIps |-> i, allowCidrs |-> d] :
                b, i \in SUBSET {"one", "one/32"}, c, d \in SUBSET {"10/8", "bad"}}
Networking ==
    {With(Web, Ls, [PlainPolicy EXCEPT !.network = net], ips) :
        net \in Networks, ips \in {{}, {"in"}, {"in", "one"}, {"out"}}}

AllRequests ==
    [i \in 1..12 |-> Splitting(1 + ((i - 1) % 3), 1 + ((i - 1) \div 3))]
    \o <<Splitting(4, 5), Ruling, Limiting, Networking>>
=============================================================================
