-------------------------- MODULE PlanAndRun_proofs --------------------------
(***************************************************************************)
(* What the policy decides and the plan shows, for every request: any      *)
(* command line, any rules, limits and tags.                               *)
(***************************************************************************)
EXTENDS PlanAndRun, FoldLemmas, FiniteSetTheorems

-----------------------------------------------------------------------------
(* The elements of a sequence that are in a set.                             *)

\* A function on the positions up to n is a sequence.
LEMMA FunctionIsSeq ==
  ASSUME NEW n \in Nat, NEW f, f = [k \in 1..n |-> f[k]]
  PROVE  IsSeq(f) /\ Len(f) = n /\ DOMAIN f = 1..n
  <1> DEFINE S == ToSet(f)
  <1>1. DOMAIN f = 1..n
    OBVIOUS
  <1>2. \A k \in 1..n : f[k] \in S
    BY <1>1 DEF ToSet
  <1> HIDE DEF S
  <1>3. f \in [1..n -> S]
    BY <1>2
  <1>4. f \in Seq(S) /\ Len(f) = n
    BY <1>1, <1>3
  <1> QED BY <1>1, <1>4 DEF IsSeq, S

\* f holds what is kept of the first so many elements.
AmongTable(f, T, s, S) ==
    /\ f \in [0..Len(s) -> Seq(T)] /\ f[0] = <<>> /\ f[Len(s)] = Among(s, S)
    /\ \A k \in 1..Len(s) : f[k] = IF s[k] \in S THEN Append(f[k - 1], s[k]) ELSE f[k - 1]

\* The elements are gone through one by one.
LEMMA AmongFold ==
  ASSUME NEW T, NEW s \in Seq(T), NEW S
  PROVE  \E f : AmongTable(f, T, s, S)
  <1> DEFINE n == Len(s)
             X == Seq(T)
             step == [p \in X \X (1..n) |->
                        IF s[p[2]] \in S THEN Append(p[1], s[p[2]]) ELSE p[1]]
             Iter(f) == f = [P \in SUBSET DOMAIN s |-> IF P = {} THEN <<>> ELSE
                          LET m == Max(P) IN
                          IF s[m] \in S THEN Append(f[P \ {m}], s[m]) ELSE f[P \ {m}]]
             g == CHOOSE f : Iter(f)
             r == [k \in 0..n |-> g[1..k]]
  <1>1. n \in Nat /\ DOMAIN s = 1..n
    OBVIOUS
  <1>2. step \in [X \X (1..n) -> X] /\ <<>> \in X
    OBVIOUS
  <1>3. PICK f \in [SUBSET (1..n) -> X] : IsTable(f, n, <<>>, step)
    <2> HIDE DEF n, step, X
    <2> QED BY <1>1, <1>2, FoldTable
  <1>4. Iter(f)
    BY <1>1, <1>3, MaxInside DEF IsTable
  <1>5. Among(s, S) = g[1..n]
    BY <1>1 DEF Among, FoldLeft, MapThenFoldSet
  <1>6. Iter(g)
    BY <1>4
  <1> HIDE DEF g
  <1>7. g[1..0] = <<>>
    <2>1. 1..0 \in SUBSET (1..n) /\ 1..0 = {}
      OBVIOUS
    <2> QED BY <1>1, <1>6, <2>1
  <1>8. ASSUME NEW k \in 1..n
        PROVE  g[1..k] = IF s[k] \in S THEN Append(g[1..k - 1], s[k]) ELSE g[1..k - 1]
    <2>1. /\ 1..k \in SUBSET (1..n) /\ 1..k # {}
          /\ Max(1..k) = k /\ (1..k) \ {k} = 1..k - 1
      BY <1>1, IntervalStep
    <2> QED BY <1>1, <1>6, <2>1
  <1>9. r[0] = <<>> /\ r[n] = Among(s, S)
    BY <1>1, <1>5, <1>7
  <1>10. \A k \in 1..n : r[k] = IF s[k] \in S THEN Append(r[k - 1], s[k]) ELSE r[k - 1]
    BY <1>1, <1>8
  <1>11. r = [k \in 0..n |-> r[k]]
    OBVIOUS
  <1> HIDE DEF r
  <1>12. \A k \in 0..n : r[k] \in Seq(T)
    <2> DEFINE In == {k \in 0..n : r[k] \in Seq(T)}
    <2>1. 0 \in In
      <3>1. \A e : e = <<>> => e \in Seq(T)
        OBVIOUS
      <3>2. r[0] \in Seq(T) /\ 0 \in 0..n
        BY <1>1, <1>9, <3>1
      <3> QED BY <3>2
    <2>2. ASSUME NEW k \in 1..n, k - 1 \in In PROVE k \in In
      <3>1. s[k] \in T /\ r[k - 1] \in Seq(T)
        BY <1>1, <2>2
      <3>2. Append(r[k - 1], s[k]) \in Seq(T)
        BY <3>1
      <3>3. r[k] = Append(r[k - 1], s[k]) \/ r[k] = r[k - 1]
        BY <1>10
      <3>4. r[k] \in Seq(T)
        BY <3>1, <3>2, <3>3
      <3> QED BY <1>1, <3>4
    <2>3. \A k \in 0..n : k \in In
      <3> HIDE DEF In
      <3> QED BY <1>1, <2>1, <2>2, InductionUpTo
    <2> QED BY <2>3
  <1>13. r \in [0..n -> Seq(T)]
    BY <1>11, <1>12
  <1>14. AmongTable(r, T, s, S)
    BY <1>9, <1>10, <1>13 DEF AmongTable
  <1> QED BY <1>14

\* What is selected is a sequence.
LEMMA AmongType ==
  ASSUME NEW T, NEW s \in Seq(T), NEW S
  PROVE  Among(s, S) \in Seq(T)
  <1>1. Len(s) \in 0..Len(s)
    OBVIOUS
  <1>2. PICK f : AmongTable(f, T, s, S)
    BY AmongFold
  <1> QED BY <1>1, <1>2 DEF AmongTable

\* The positions of a text in a set are a sequence of its positions.
LEMMA InOrderType ==
  ASSUME NEW cmd, IsSeq(cmd), NEW In
  PROVE  InOrder(cmd, In) \in Seq(DOMAIN cmd)
  <1>1. DOMAIN cmd = 1..Len(cmd) /\ Len(cmd) \in Nat
    BY DEF IsSeq
  <1>2. Positions(cmd) \in Seq(DOMAIN cmd)
    BY <1>1 DEF Positions
  <1> QED BY <1>2, AmongType DEF InOrder

\* An argument vector is a sequence of arguments.
LEMMA ArgvIsSeq ==
  ASSUME NEW cmd, IsSeq(cmd)
  PROVE  \E n \in Nat : DOMAIN SplitCommandArgs(cmd) = 1..n
                        /\ Len(SplitCommandArgs(cmd)) = n
                        /\ IsSeq(SplitCommandArgs(cmd))
  <1> DEFINE open  == OpenQuotes(cmd)
             solid == {i \in DOMAIN cmd : cmd[i] # Blank \/ open[i] # "none"}
             starts == InOrder(cmd, {i \in solid : i - 1 \notin solid})
             parts == Runs(cmd, solid)
             argv == [k \in DOMAIN parts |->
                        Symbols(cmd, parts[k][1], parts[k][2], DOMAIN cmd \ Marks(cmd, open))]
  <1>1. starts \in Seq(DOMAIN cmd)
    BY InOrderType
  <1>2. DOMAIN parts = DOMAIN starts
    BY DEF Runs
  <1> DEFINE n == Len(starts)
  <1>3. n \in Nat /\ DOMAIN argv = 1..n
    <2> HIDE DEF starts, parts
    <2> QED BY <1>1, <1>2
  <1> HIDE DEF argv, n
  <1>4. SplitCommandArgs(cmd) = <<>> \/ SplitCommandArgs(cmd) = argv
    BY DEF SplitCommandArgs, argv
  <1>5. argv = [k \in 1..n |-> argv[k]]
    BY <1>3 DEF argv
  <1>6. IsSeq(argv) /\ Len(argv) = n
    BY <1>3, <1>5, FunctionIsSeq
  <1>7. IsSeq(<<>>) /\ Len(<<>>) = 0 /\ DOMAIN <<>> = 1..0
    BY DEF IsSeq
  <1> QED BY <1>3, <1>4, <1>6, <1>7

-----------------------------------------------------------------------------
(* Strict rules.                                                             *)

\* As many distinct positive numbers up to n as there are are all of them.
LEMMA AllIndices ==
  ASSUME NEW n \in Nat, NEW s \in Seq(Nat), Len(s) = n, IsInjective(s),
         \A k \in 1..n : s[k] \in 1..n
  PROVE  \A i \in 1..n : i \in ToSet(s)
  <1>1. DOMAIN s = 1..n /\ s \in [1..n -> 1..n]
    OBVIOUS
  <1>2. s \in Injection(1..n, 1..n)
    BY <1>1 DEF Injection
  <1>3. IsFiniteSet(1..n) /\ Cardinality(1..n) = Cardinality(1..n)
    BY FS_Interval
  <1>4. s \in Surjection(1..n, 1..n)
    BY <1>2, <1>3, FS_Injection
  <1>5. \A i \in 1..n : \E k \in 1..n : s[k] = i
    BY <1>4 DEF Surjection
  <1> QED BY <1>1, <1>5 DEF ToSet

\* What a strict structured rule matches, it fixes or names, and what it names it
\* checks if it has patterns.
LEMMA StrictMatch ==
  ASSUME NEW rule, NEW argv, IsSeq(argv), argv # <<>>,
         IsSeq(rule.prefix), rule.indices \in Seq(Nat),
         MatchStructuredRule(rule, argv), ~rule.extra,
         rule.prefix = <<>> => 0 \notin ToSet(rule.indices) /\ IsInjective(rule.indices),
         NEW i \in 2..Len(argv)
  PROVE  \/ i - 1 <= Len(rule.prefix) /\ argv[i] = rule.prefix[i - 1]
         \/ /\ i - 1 \in ToSet(rule.indices)
            /\ rule.patterns # {} => MatchAny(argv[i], rule.patterns)
  <1> DEFINE args == Tail(argv)
             prefix == rule.prefix
             indices == rule.indices
             named == {j - 1 : j \in {k \in ToSet(indices) : k > 0}}
  <1>1. /\ Len(argv) \in Nat \ {0} /\ Len(args) = Len(argv) - 1
        /\ \A k \in 1..Len(argv) - 1 : args[k] = argv[k + 1]
        /\ DOMAIN args = 1..Len(argv) - 1 /\ i - 1 \in 1..Len(argv) - 1 /\ args[i - 1] = argv[i]
    BY DEF IsSeq
  <1>2. Len(prefix) \in Nat /\ DOMAIN prefix = 1..Len(prefix) /\ DOMAIN indices = 1..Len(indices)
        /\ Len(indices) \in Nat /\ (prefix = <<>> <=> Len(prefix) = 0)
        /\ (indices = <<>> <=> Len(indices) = 0)
    BY DEF IsSeq
  <1>3. /\ prefix # <<>> \/ (indices # <<>> /\ rule.patterns # {})
        /\ IsPrefix(prefix, args) /\ NothingExtra(rule, args)
        /\ indices # <<>> /\ rule.patterns # {} => \A j \in ToSet(indices) :
                                j < Len(argv) /\ MatchAny(argv[j + 1], rule.patterns)
    BY DEF MatchStructuredRule
  <1>4. CASE i - 1 <= Len(prefix)
    <2>1. Len(prefix) <= Len(args) /\ SubSeq(prefix, 1, Len(prefix)) = SubSeq(args, 1, Len(prefix))
      BY <1>3 DEF IsPrefix
    <2>2. prefix \in Seq(ToSet(prefix)) /\ args \in Seq(ToSet(argv)) /\ i - 1 \in 1..Len(prefix)
      BY <1>1, <1>2, <1>4 DEF IsSeq
    <2>3. SubSeq(prefix, 1, Len(prefix))[i - 1] = prefix[i - 1]
      BY <1>2, <2>2
    <2>4. SubSeq(args, 1, Len(prefix))[i - 1] = args[i - 1]
      BY <1>1, <1>2, <2>1, <2>2
    <2> QED BY <1>1, <1>4, <2>1, <2>3, <2>4
  <1>5. CASE i - 1 > Len(prefix) /\ i - 1 \in ToSet(indices)
    <2>1. indices # <<>>
      BY <1>2, <1>5 DEF ToSet
    <2>2. PICK j \in ToSet(indices) : j = i - 1
      BY <1>5
    <2>3. j + 1 = i
      BY <1>1, <2>2
    <2>4. rule.patterns # {} => MatchAny(argv[j + 1], rule.patterns)
      BY <1>3, <2>1, <2>2, Zenon
    <2>5. rule.patterns # {} => MatchAny(argv[i], rule.patterns)
      BY <2>3, <2>4
    <2> QED BY <1>5, <2>5
  <1>6. CASE i - 1 > Len(prefix) /\ i - 1 \notin ToSet(indices)
    <2>1. CASE Len(prefix) = 0
      <3>1. /\ indices # <<>> /\ rule.patterns # {} /\ Len(args) = Len(indices)
            /\ 0 \notin ToSet(indices) /\ IsInjective(indices)
        BY <1>2, <1>3, <2>1 DEF NothingExtra
      <3>2. ASSUME NEW k \in 1..Len(indices) PROVE indices[k] \in 1..Len(indices)
        <4>0. indices \in Seq(Nat) /\ k \in DOMAIN indices
          BY <1>2
        <4>1. indices[k] \in ToSet(indices) /\ indices[k] \in Nat
          <5> HIDE DEF args, prefix, indices, named
          <5>1. indices[k] \in ToSet(indices)
            BY <4>0, Zenon DEF ToSet
          <5>2. indices[k] \in Nat
            BY <4>0
          <5> QED BY <5>1, <5>2
        <4>2. indices[k] # 0
          BY <3>1, <4>1
        <4>3. indices[k] < Len(argv)
          BY <1>3, <3>1, <4>1
        <4>4. Len(indices) = Len(argv) - 1 /\ Len(argv) \in Nat
          BY <1>1, <3>1
        <4> HIDE DEF args, indices
        <4> QED BY <4>1, <4>2, <4>3, <4>4
      <3>3. i - 1 \in 1..Len(indices)
        BY <1>1, <3>1
      <3>4. \A j \in 1..Len(indices) : j \in ToSet(indices)
        BY <1>2, <3>1, <3>2, AllIndices
      <3> QED BY <1>6, <3>3, <3>4
    <2>2. CASE Len(prefix) # 0 /\ indices = <<>>
      <3>1. Len(args) = Len(prefix)
        BY <1>3, <2>2 DEF NothingExtra
      <3> HIDE DEF args, prefix, indices
      <3>2. i - 1 <= Len(prefix)
        BY <1>1, <3>1
      <3> QED BY <1>1, <1>2, <1>6, <3>2
    <2>3. CASE Len(prefix) # 0 /\ indices # <<>>
      <3>1. Len(prefix)..Len(args) - 1 \subseteq named
        BY <1>3, <2>3 DEF NothingExtra
      <3>2. i - 2 \in Len(prefix)..Len(args) - 1
        BY <1>1, <1>2, <1>6
      <3>3. PICK j \in ToSet(indices) : i - 2 = j - 1
        BY <3>1, <3>2
      <3>4. j \in Nat
        BY <3>3, <1>2 DEF ToSet
      <3> QED BY <1>6, <3>3, <3>4
    <2> QED BY <2>1, <2>2, <2>3
  <1> QED BY <1>1, <1>2, <1>4, <1>5, <1>6

-----------------------------------------------------------------------------
(* What the two tools have answered.                                         *)

AskedAllowed == IsAllowed(asked.policy, asked.alias, TagsOf(asked.alias), asked.command)
RunAllowed   == IsAllowed(asked.policy, Strip(asked.alias), TagsOf(Strip(asked.alias)),
                          Strip(asked.command))
AskedLimits  == CollectLimits(asked.policy, asked.alias, TagsOf(asked.alias))
RunLimits    == CollectLimits(asked.policy, Strip(asked.alias), TagsOf(Strip(asked.alias)))

\* A plan and a run show what the policy decides of the request, each in its own
\* way of reading it.
AnswersInv ==
    /\ \E i \in DOMAIN Requests : asked \in Requests[i]
    /\ plan.what = "plan" =>
         /\ ValidCommand(asked.command)
         /\ plan.allowed = AskedAllowed /\ plan.limits = AskedLimits
         /\ plan.denied = IF AskedAllowed THEN <<>> ELSE
                DeniedCommandInChain(asked.policy, asked.alias, TagsOf(asked.alias), asked.command)
    /\ run.what = "policy" => ~RunAllowed
    /\ run.what \in {"network", "goes"} => RunAllowed
    /\ run.what = "goes" => run.limits = RunLimits

\* Nobody has answered.
LEMMA InitAnswers == Init => AnswersInv
  BY DEF Init, NoAnswer, AnswersInv

\* Each tool answers once, and from the policy.
LEMMA NextAnswers == AnswersInv /\ [Next]_vars => AnswersInv'
  <1> SUFFICES ASSUME AnswersInv, [Next]_vars PROVE AnswersInv'
    OBVIOUS
  <1>1. CASE Plan
    <2> DEFINE shown == [what |-> "plan", allowed |-> AskedAllowed, limits |-> AskedLimits,
                         denied |-> IF AskedAllowed THEN <<>> ELSE
                            DeniedCommandInChain(asked.policy, asked.alias,
                                                 TagsOf(asked.alias), asked.command)]
    <2>1. /\ asked' = asked /\ run' = run
          /\ plan' = Invalid \/ (plan' = shown /\ ValidCommand(asked.command))
      BY <1>1 DEF Plan, AskedAllowed, AskedLimits
    <2>2. CASE plan' = Invalid
      BY <2>1, <2>2 DEF AnswersInv, Invalid, AskedAllowed, AskedLimits, RunAllowed, RunLimits
    <2>3. CASE plan' = shown /\ ValidCommand(asked.command)
      <3>1. /\ plan'.allowed = AskedAllowed /\ plan'.limits = AskedLimits
            /\ plan'.denied = shown.denied
        BY <2>3, Zenon
      <3> QED BY <2>1, <2>3, <3>1, Zenon DEF AnswersInv, AskedAllowed, AskedLimits, RunAllowed, RunLimits
    <2> QED BY <2>1, <2>2, <2>3
  <1>2. CASE Run
    <2>1. /\ asked' = asked /\ plan' = plan
          /\ \/ run' \in {Invalid, [what |-> "error"]}
             \/ run' = [what |-> "policy"] /\ ~RunAllowed
             \/ run' = [what |-> "network"] /\ RunAllowed
             \/ run' = [what |-> "goes", limits |-> RunLimits] /\ RunAllowed
      BY <1>2 DEF Run, Goes, RunAllowed, RunLimits
    <2>2. UNCHANGED <<AskedAllowed, AskedLimits, RunAllowed, RunLimits>>
      BY <2>1 DEF AskedAllowed, AskedLimits, RunAllowed, RunLimits
    <2>3. CASE run' \in {Invalid, [what |-> "error"]}
      BY <2>1, <2>2, <2>3 DEF AnswersInv, Invalid
    <2>4. CASE run' = [what |-> "policy"] /\ ~RunAllowed
      BY <2>1, <2>2, <2>4 DEF AnswersInv
    <2>5. CASE run' = [what |-> "network"] /\ RunAllowed
      BY <2>1, <2>2, <2>5 DEF AnswersInv
    <2>6. CASE run' = [what |-> "goes", limits |-> RunLimits] /\ RunAllowed
      BY <2>1, <2>2, <2>6 DEF AnswersInv
    <2> QED BY <2>1, <2>3, <2>4, <2>5, <2>6
  <1>3. CASE UNCHANGED vars
    BY <1>3 DEF vars, AnswersInv, AskedAllowed, AskedLimits, RunAllowed, RunLimits
  <1> QED BY <1>1, <1>2, <1>3 DEF Next

\* So it is always.
LEMMA AnswersInvariance == Spec => []AnswersInv
  <1> QED BY InitAnswers, NextAnswers, PTL DEF Spec

\* No argument of a command passes a strict structured rule but those its prefix
\* fixes and those that path_args names; the latter are checked if it has patterns.
\* A rule without a prefix must name distinct arguments for this.
THEOREM StrictRulesNameAll == Spec => []StrictRuleNamesAll
  <1>1. AnswersInv => StrictRuleNamesAll
    <2> SUFFICES ASSUME AnswersInv PROVE StrictRuleNamesAll
      OBVIOUS
    <2> DEFINE argv == SplitCommandArgs(asked.command)
    <2> SUFFICES ASSUME plan.what = "plan", argv # <<>>, NEW r \in DOMAIN asked.policy.rules,
                        MatchStructuredRule(asked.policy.rules[r], argv),
                        ~asked.policy.rules[r].extra,
                        asked.policy.rules[r].prefix = <<>> =>
                           /\ 0 \notin ToSet(asked.policy.rules[r].indices)
                           /\ IsInjective(asked.policy.rules[r].indices),
                        NEW i \in 2..Len(argv)
                 PROVE  \/ /\ i - 1 <= Len(asked.policy.rules[r].prefix)
                           /\ argv[i] = asked.policy.rules[r].prefix[i - 1]
                        \/ /\ i - 1 \in ToSet(asked.policy.rules[r].indices)
                           /\ asked.policy.rules[r].patterns # {} =>
                                MatchAny(argv[i], asked.policy.rules[r].patterns)
      BY Zenon DEF StrictRuleNamesAll
    <2>1. /\ IsSeq(asked.command) /\ IsSeq(asked.policy.rules[r].prefix)
          /\ asked.policy.rules[r].indices \in Seq(Nat)
      BY RequestsAssumption DEF AnswersInv
    <2>2. IsSeq(argv)
      BY <2>1, ArgvIsSeq
    <2> HIDE DEF argv
    <2> QED BY <2>1, <2>2, StrictMatch
  <1> QED BY <1>1, AnswersInvariance, PTL

-----------------------------------------------------------------------------
(* Limits.                                                                   *)

\* What lies under the tags, and what one tag makes of the limits so far.
UnderTags(policy, alias) ==
    Over(LayerOf(policy.aliasLimits, alias), Over(policy.limits, DefaultLimits))
\* What a tag sets and the alias does not, over what there was.
TagLayer(policy, alias, tag) ==
    Restrict(LayerOf(policy.tagLimits, tag),
             DOMAIN LayerOf(policy.tagLimits, tag) \ DOMAIN LayerOf(policy.aliasLimits, alias))
OverTag(policy, alias, tag, limits) == Over(TagLayer(policy, alias, tag), limits)

\* The tags are gone through one by one.
LEMMA LimitsFold ==
  ASSUME NEW policy, NEW alias, NEW T, NEW tags \in Seq(T)
  PROVE  \E f : /\ f[0] = UnderTags(policy, alias)
                /\ f[Len(tags)] = CollectLimits(policy, alias, tags)
                /\ \A k \in 1..Len(tags) : f[k] = OverTag(policy, alias, tags[k], f[k - 1])
  <1> DEFINE n == Len(tags)
             base == UnderTags(policy, alias)
             Layer(i) == TagLayer(policy, alias, tags[i])
             Put(i, limits) == OverTag(policy, alias, tags[i], limits)
             N == DOMAIN base \cup UNION {DOMAIN Layer(i) : i \in 1..n}
             V == {base[x] : x \in DOMAIN base}
                  \cup UNION {{Layer(i)[x] : x \in DOMAIN Layer(i)} : i \in 1..n}
             X == UNION {[D -> V] : D \in SUBSET N}
             step == [p \in X \X (1..n) |-> Put(p[2], p[1])]
             Iter(f) == f = [P \in SUBSET DOMAIN tags |-> IF P = {} THEN base ELSE
                               LET m == Max(P) IN Put(m, f[P \ {m}])]
             g == CHOOSE f : Iter(f)
             r == [k \in 0..n |-> g[1..k]]
  <1>1. n \in Nat /\ DOMAIN tags = 1..n
    OBVIOUS
  <1>2. base \in X
    <2>1. base = [x \in DOMAIN base |-> base[x]]
      BY DEF UnderTags, Over
    <2> HIDE DEF base, Layer
    <2>2. base \in [DOMAIN base -> V] /\ DOMAIN base \in SUBSET N
      BY <2>1
    <2> QED BY <2>2
  <1>3. \A x \in X, i \in 1..n : Put(i, x) \in X
    <2> SUFFICES ASSUME NEW x \in X, NEW i \in 1..n PROVE Put(i, x) \in X
      OBVIOUS
    <2> HIDE DEF base
    <2>1. PICK D \in SUBSET N : x \in [D -> V]
      OBVIOUS
    <2>2. Put(i, x) = [y \in DOMAIN Layer(i) \cup D |->
                          IF y \in DOMAIN Layer(i) THEN Layer(i)[y] ELSE x[y]]
      BY <2>1 DEF OverTag, Over
    <2> HIDE DEF Layer
    <2>3. DOMAIN Layer(i) \cup D \in SUBSET N
      OBVIOUS
    <2>4. \A y \in DOMAIN Layer(i) : Layer(i)[y] \in V
      OBVIOUS
    <2>5. Put(i, x) \in [DOMAIN Layer(i) \cup D -> V]
      <3> HIDE DEF Put, V, N
      <3> QED BY <2>1, <2>2, <2>4
    <2> HIDE DEF Put, V, N
    <2> QED BY <2>3, <2>5
  <1> HIDE DEF X, Put, base
  <1>4. step \in [X \X (1..n) -> X]
    BY <1>3
  <1>5. PICK f \in [SUBSET (1..n) -> X] : IsTable(f, n, base, step)
    <2> HIDE DEF n, step
    <2> QED BY <1>1, <1>2, <1>4, FoldTable
  <1>6. Iter(f)
    BY <1>1, <1>5, MaxInside DEF IsTable
  <1>7. CollectLimits(policy, alias, tags) = g[1..n]
    BY <1>1 DEF CollectLimits, FoldLeft, MapThenFoldSet, Put, OverTag, TagLayer, base, UnderTags
  <1>8. Iter(g)
    BY <1>6
  <1> HIDE DEF g
  <1>9. g[1..0] = base
    <2>1. 1..0 \in SUBSET (1..n) /\ 1..0 = {}
      OBVIOUS
    <2> QED BY <1>1, <1>8, <2>1
  <1>10. ASSUME NEW k \in 1..n PROVE g[1..k] = Put(k, g[1..k - 1])
    <2>1. /\ 1..k \in SUBSET (1..n) /\ 1..k # {}
          /\ Max(1..k) = k /\ (1..k) \ {k} = 1..k - 1
      BY <1>1, IntervalStep
    <2> QED BY <1>1, <1>8, <2>1
  <1>11. r[0] = base /\ r[n] = CollectLimits(policy, alias, tags)
    BY <1>1, <1>7, <1>9
  <1>12. \A k \in 1..n : r[k] = Put(k, r[k - 1])
    BY <1>1, <1>10
  <1> HIDE DEF r
  <1> QED BY <1>11, <1>12 DEF Put, base

\* What a limit is after the first k tags: the alias's, or that of the latest of
\* them to set it, or what lies under the tags.
Settled(policy, alias, tags, k, name, value) ==
    LET mine == LayerOf(policy.aliasLimits, alias)
        Tagged(i) == LayerOf(policy.tagLimits, tags[i])
    IN  \/ name \in DOMAIN mine /\ value = mine[name]
        \/ /\ name \notin DOMAIN mine
           /\ \E i \in 1..k : /\ name \in DOMAIN Tagged(i) /\ value = Tagged(i)[name]
                              /\ \A j \in i + 1..k : name \notin DOMAIN Tagged(j)
        \/ /\ name \notin DOMAIN mine /\ \A j \in 1..k : name \notin DOMAIN Tagged(j)
           /\ name \in DOMAIN UnderTags(policy, alias) /\ value = UnderTags(policy, alias)[name]

\* One more tag gives way to the alias and to no tag before it.
LEMMA SettledStep ==
  ASSUME NEW policy, NEW alias, NEW tags, NEW k \in Nat \ {0}, NEW limits,
         \A name \in DOMAIN limits : Settled(policy, alias, tags, k - 1, name, limits[name]),
         NEW name \in DOMAIN OverTag(policy, alias, tags[k], limits)
  PROVE  Settled(policy, alias, tags, k, name, OverTag(policy, alias, tags[k], limits)[name])
  <1> DEFINE mine == LayerOf(policy.aliasLimits, alias)
             Tagged(i) == LayerOf(policy.tagLimits, tags[i])
             now == OverTag(policy, alias, tags[k], limits)
  <1> SUFFICES Settled(policy, alias, tags, k, name, now[name])
    OBVIOUS
  <1>1. CASE name \in DOMAIN Tagged(k) /\ name \notin DOMAIN mine
    <2>1. now[name] = Tagged(k)[name]
      BY <1>1 DEF OverTag, Over, TagLayer, Restrict
    <2>2. k \in 1..k /\ k + 1..k = {}
      OBVIOUS
    <2> QED BY <1>1, <2>1, <2>2 DEF Settled
  <1>2. CASE name \notin DOMAIN Tagged(k) \/ name \in DOMAIN mine
    <2>1. name \in DOMAIN limits /\ now[name] = limits[name]
      BY <1>2 DEF OverTag, Over, TagLayer, Restrict
    <2>2. Settled(policy, alias, tags, k - 1, name, now[name])
      BY <2>1
    <2> HIDE DEF now
    <2>3. CASE name \in DOMAIN mine
      BY <2>2, <2>3 DEF Settled
    <2>4. CASE name \notin DOMAIN mine
      <3>1. \A j \in 1..k : j \in 1..k - 1 \/ j = k
        OBVIOUS
      <3>2. 1..k - 1 \subseteq 1..k
        OBVIOUS
      <3>3. \A i \in 1..k - 1 : \A j \in i + 1..k : j \in i + 1..k - 1 \/ j = k
        OBVIOUS
      <3> QED BY <1>2, <2>2, <2>4, <3>1, <3>2, <3>3 DEF Settled
    <2> QED BY <2>3, <2>4
  <1> QED BY <1>1, <1>2

\* What _collect_limits makes of every limit.
LEMMA LimitsSettled ==
  ASSUME NEW policy, NEW alias, NEW T, NEW tags \in Seq(T),
         NEW name \in DOMAIN CollectLimits(policy, alias, tags)
  PROVE  Settled(policy, alias, tags, Len(tags), name, CollectLimits(policy, alias, tags)[name])
  <1> DEFINE n == Len(tags)
  <1>1. n \in Nat
    OBVIOUS
  <1>2. PICK f : /\ f[0] = UnderTags(policy, alias)
                 /\ f[n] = CollectLimits(policy, alias, tags)
                 /\ \A k \in 1..n : f[k] = OverTag(policy, alias, tags[k], f[k - 1])
    BY LimitsFold
  <1> DEFINE Fine(k) == \A x \in DOMAIN f[k] : Settled(policy, alias, tags, k, x, f[k][x])
             In == {k \in 0..n : Fine(k)}
  <1>3. 0 \in In
    <2>1. \A x \in DOMAIN LayerOf(policy.aliasLimits, alias) :
             UnderTags(policy, alias)[x] = LayerOf(policy.aliasLimits, alias)[x]
      BY DEF UnderTags, Over
    <2>2. 1..0 = {} /\ 0 \in 0..n
      BY <1>1
    <2>3. Fine(0)
      BY <1>2, <2>1, <2>2 DEF Settled
    <2> QED BY <2>2, <2>3
  <1>4. ASSUME NEW k \in 1..n, k - 1 \in In PROVE k \in In
    <2>1. k \in Nat \ {0} /\ k \in 0..n
      BY <1>1
    <2>2. \A y \in DOMAIN f[k - 1] : Settled(policy, alias, tags, k - 1, y, f[k - 1][y])
      BY <1>4
    <2>3. f[k] = OverTag(policy, alias, tags[k], f[k - 1])
      BY <1>2
    <2>4. \A y \in DOMAIN f[k] : Settled(policy, alias, tags, k, y, f[k][y])
      BY <2>1, <2>2, <2>3, SettledStep
    <2> QED BY <2>1, <2>4
  <1>5. \A k \in 0..n : k \in In
    <2> HIDE DEF In, n
    <2> QED BY <1>1, <1>3, <1>4, InductionUpTo
  <1>6. Fine(n)
    <2>1. n \in In
      BY <1>1, <1>5
    <2> QED BY <2>1
  <1> QED BY <1>2, <1>6

\* The tags of a host are a sequence.
LEMMA TagsAreSeq ==
  ASSUME NEW alias PROVE IsSeq(TagsOf(alias))
  <1>1. IsSeq(<<>>)
    BY DEF IsSeq
  <1> QED BY <1>1, RequestsAssumption DEF TagsOf

\* For each limit a plan shows, the alias comes before its tags, a later tag before
\* an earlier, and both before the file and the built-in value.
THEOREM LimitsInOrder == Spec => []LimitsPrecedence
  <1>1. AnswersInv => LimitsPrecedence
    <2> DEFINE policy == asked.policy
               mine == LayerOf(policy.aliasLimits, asked.alias)
               tags == TagsOf(asked.alias)
               n == Len(tags)
               Sets(name) == {i \in DOMAIN tags : name \in DOMAIN LayerOf(policy.tagLimits, tags[i])}
               Latest(S) == CHOOSE i \in S : \A j \in S : j <= i
    <2> SUFFICES ASSUME AnswersInv, plan.what = "plan", NEW name \in DOMAIN plan.limits
                 PROVE  plan.limits[name] =
                          IF name \in DOMAIN mine THEN mine[name]
                          ELSE IF Sets(name) # {} THEN policy.tagLimits[tags[Latest(Sets(name))]][name]
                          ELSE IF name \in DOMAIN policy.limits THEN policy.limits[name]
                          ELSE DefaultLimits[name]
      BY Zenon DEF LimitsPrecedence
    <2>1. tags \in Seq(ToSet(tags))
      BY TagsAreSeq DEF IsSeq
    <2>2. n \in Nat /\ DOMAIN tags = 1..n
      BY <2>1
    <2>3. plan.limits = CollectLimits(policy, asked.alias, tags)
      BY DEF AnswersInv, AskedLimits
    <2>4. Settled(policy, asked.alias, tags, n, name, plan.limits[name])
      BY <2>1, <2>3, LimitsSettled
    <2> HIDE DEF tags, n
    <2>5. CASE name \in DOMAIN mine
      BY <2>4, <2>5 DEF Settled
    <2>6. CASE name \notin DOMAIN mine /\ Sets(name) # {}
      <3>1. PICK i \in 1..n :
               /\ name \in DOMAIN LayerOf(policy.tagLimits, tags[i])
               /\ plan.limits[name] = LayerOf(policy.tagLimits, tags[i])[name]
               /\ \A j \in i + 1..n : name \notin DOMAIN LayerOf(policy.tagLimits, tags[j])
        BY <2>2, <2>4, <2>6 DEF Settled
      <3>2. i \in Sets(name)
        BY <2>2, <3>1
      <3>3. \A j \in Sets(name) : j <= i
        BY <2>2, <3>1
      <3>4. \A k \in Sets(name) : (\A j \in Sets(name) : j <= k) => k = i
        BY <2>2, <3>2, <3>3
      <3>5. Latest(Sets(name)) = i
        BY <3>2, <3>3, <3>4
      <3>6. LayerOf(policy.tagLimits, tags[i])[name] = policy.tagLimits[tags[i]][name]
        BY <3>1 DEF LayerOf, Nothing
      <3> QED BY <2>6, <3>1, <3>5, <3>6
    <2>7. CASE name \notin DOMAIN mine /\ Sets(name) = {}
      <3>1. /\ name \in DOMAIN UnderTags(policy, asked.alias)
            /\ plan.limits[name] = UnderTags(policy, asked.alias)[name]
        BY <2>2, <2>4, <2>7 DEF Settled
      <3>2. plan.limits[name] = IF name \in DOMAIN policy.limits THEN policy.limits[name]
                                ELSE DefaultLimits[name]
        BY <2>7, <3>1 DEF UnderTags, Over
      <3> QED BY <2>7, <3>2
    <2> QED BY <2>5, <2>6, <2>7
  <1> QED BY <1>1, AnswersInvariance, PTL

-----------------------------------------------------------------------------
(* A rule added at the end.                                                  *)

\* The limits are those of the limits in the file, whatever else is in it.
LEMMA LimitsOfLimits ==
  ASSUME NEW p, NEW q, p.limits = q.limits, p.aliasLimits = q.aliasLimits,
         p.tagLimits = q.tagLimits, NEW alias, NEW T, NEW tags \in Seq(T)
  PROVE  CollectLimits(p, alias, tags) = CollectLimits(q, alias, tags)
  <1> DEFINE n == Len(tags)
  <1>1. n \in Nat
    OBVIOUS
  <1>2. PICK f : /\ f[0] = UnderTags(p, alias)
                 /\ f[n] = CollectLimits(p, alias, tags)
                 /\ \A k \in 1..n : f[k] = OverTag(p, alias, tags[k], f[k - 1])
    BY LimitsFold
  <1>3. PICK h : /\ h[0] = UnderTags(q, alias)
                 /\ h[n] = CollectLimits(q, alias, tags)
                 /\ \A k \in 1..n : h[k] = OverTag(q, alias, tags[k], h[k - 1])
    BY LimitsFold
  <1>4. /\ UnderTags(p, alias) = UnderTags(q, alias)
        /\ \A tag : TagLayer(p, alias, tag) = TagLayer(q, alias, tag)
    BY DEF UnderTags, TagLayer
  <1> DEFINE In == {k \in 0..n : f[k] = h[k]}
  <1>5. 0 \in In
    BY <1>1, <1>2, <1>3, <1>4
  <1>6. ASSUME NEW k \in 1..n, k - 1 \in In PROVE k \in In
    <2>1. f[k - 1] = h[k - 1] /\ k \in 0..n
      BY <1>6
    <2>2. f[k] = h[k]
      BY <1>2, <1>3, <1>4, <2>1 DEF OverTag
    <2> QED BY <2>1, <2>2
  <1>7. \A k \in 0..n : k \in In
    <2> HIDE DEF In, n
    <2> QED BY <1>1, <1>5, <1>6, InductionUpTo
  <1>8. n \in In
    BY <1>1, <1>7
  <1> QED BY <1>2, <1>3, <1>8

\* The policy with one more rule, its last.
WithRule(policy, rule) == [policy EXCEPT !.rules = Append(@, rule)]

\* It decides nothing where another rule matches.
LEMMA SameVerdict ==
  ASSUME NEW policy, {"limits", "aliasLimits", "tagLimits", "rules"} \subseteq DOMAIN policy,
         IsSeq(policy.rules), NEW rule, NEW alias, NEW T, NEW tags \in Seq(T), NEW cmd,
         \/ SplitCommandArgs(cmd) = <<>>
         \/ Matching(policy.rules, alias, tags, SplitCommandArgs(cmd)) # {}
  PROVE  IsSingleCommandAllowed(WithRule(policy, rule), alias, tags, cmd)
            <=> IsSingleCommandAllowed(policy, alias, tags, cmd)
  <1> DEFINE more == WithRule(policy, rule)
             rules == policy.rules
             argv == SplitCommandArgs(cmd)
             before == Matching(rules, alias, tags, argv)
             after == Matching(more.rules, alias, tags, argv)
             n == Len(rules)
  <1>1. /\ more.limits = policy.limits /\ more.aliasLimits = policy.aliasLimits
        /\ more.tagLimits = policy.tagLimits /\ more.rules = Append(rules, rule)
    BY DEF WithRule
  <1> HIDE DEF more
  <1>2. CollectLimits(more, alias, tags) = CollectLimits(policy, alias, tags)
    BY <1>1, LimitsOfLimits
  <1>3. CASE argv = <<>>
    BY <1>3 DEF IsSingleCommandAllowed, more
  <1>4. CASE argv # <<>>
    <2>1. before # {}
      BY <1>4
    <2>2. /\ n \in Nat /\ DOMAIN rules = 1..n /\ DOMAIN more.rules = 1..n + 1
          /\ \A r \in 1..n : more.rules[r] = rules[r]
      BY <1>1 DEF IsSeq
    <2>3. before \subseteq 1..n /\ after \subseteq 1..n + 1
          /\ \A r \in 1..n : r \in after <=> r \in before
      BY <2>2 DEF Matching
    <2> HIDE DEF before, after
    <2>4. PICK r \in before : \A q \in before : r <= q
      <3>1. before \subseteq Nat
        BY <2>2, <2>3
      <3> QED BY <2>1, <3>1, LeastElement
    <2>5. r \in after /\ \A q \in after : r <= q
      BY <2>2, <2>3, <2>4
    <2>6. DecidingRule(before) = r
      <3>1. \A x \in before : (\A q \in before : x <= q) => x = r
        BY <2>2, <2>3, <2>4
      <3> QED BY <2>4, <3>1 DEF DecidingRule
    <2>7. DecidingRule(after) = r
      <3>1. \A x \in after : (\A q \in after : x <= q) => x = r
        BY <2>2, <2>3, <2>5
      <3> QED BY <2>5, <3>1 DEF DecidingRule
    <2>8. more.rules[DecidingRule(after)].action = policy.rules[DecidingRule(before)].action
      BY <2>2, <2>3, <2>4, <2>6, <2>7
    <2>9. IsSingleCommandAllowed(policy, alias, tags, cmd) <=>
             /\ ~Banned(cmd) /\ argv # <<>> /\ ToSet(argv[1]) \cap Slashed = {}
             /\ ~DeniedBySubstring(CollectLimits(policy, alias, tags).deny_substrings, cmd)
             /\ before # {} /\ policy.rules[DecidingRule(before)].action = "allow"
      BY DEF IsSingleCommandAllowed, before
    <2>10. IsSingleCommandAllowed(more, alias, tags, cmd) <=>
             /\ ~Banned(cmd) /\ argv # <<>> /\ ToSet(argv[1]) \cap Slashed = {}
             /\ ~DeniedBySubstring(CollectLimits(more, alias, tags).deny_substrings, cmd)
             /\ after # {} /\ more.rules[DecidingRule(after)].action = "allow"
      BY DEF IsSingleCommandAllowed, after
    <2>11. IsSingleCommandAllowed(more, alias, tags, cmd)
             <=> IsSingleCommandAllowed(policy, alias, tags, cmd)
      BY <1>2, <2>1, <2>5, <2>8, <2>9, <2>10
    <2> QED BY <2>11 DEF more
  <1> QED BY <1>3, <1>4

\* The first rule that matches decides: a rule added at the end of the file changes
\* the verdict on a command line only where one of its commands matched no rule.
THEOREM AppendedRulesFillGaps == Spec => []AppendedRuleFillsGaps
  <1>1. AnswersInv => AppendedRuleFillsGaps
    <2> DEFINE policy == asked.policy
               alias == asked.alias
               tags == TagsOf(alias)
               command == asked.command
               Gap(cmd) == /\ SplitCommandArgs(cmd) # <<>>
                           /\ Matching(policy.rules, alias, tags, SplitCommandArgs(cmd)) = {}
               parsed == ParseCommandChain(command)
               judged == IF Len(parsed) > 1 THEN ToSet(parsed) ELSE {command}
    <2> SUFFICES ASSUME AnswersInv, plan.what = "plan", NEW rule \in MoreRules,
                        ~\E cmd \in judged : Gap(cmd)
                 PROVE  IsAllowed(WithRule(policy, rule), alias, tags, command) = plan.allowed
      BY Zenon DEF AppendedRuleFillsGaps, WithRule
    <2>1. /\ {"limits", "aliasLimits", "tagLimits", "rules"} \subseteq DOMAIN policy
          /\ IsSeq(policy.rules)
      BY RequestsAssumption DEF AnswersInv
    <2>2. tags \in Seq(ToSet(tags))
      BY TagsAreSeq DEF IsSeq
    <2>3. ASSUME NEW cmd \in judged
          PROVE  IsSingleCommandAllowed(WithRule(policy, rule), alias, tags, cmd)
                    <=> IsSingleCommandAllowed(policy, alias, tags, cmd)
      <3>1. \/ SplitCommandArgs(cmd) = <<>>
            \/ Matching(policy.rules, alias, tags, SplitCommandArgs(cmd)) # {}
        BY <2>3, Zenon
      <3> HIDE DEF policy, alias, tags, judged
      <3> QED BY <2>1, <2>2, <3>1, SameVerdict
    <2>4. IsAllowed(WithRule(policy, rule), alias, tags, command)
             <=> IsAllowed(policy, alias, tags, command)
      <3>1. CASE Len(parsed) > 1
        <4>1. \A k \in DOMAIN parsed : parsed[k] \in judged
          BY <3>1 DEF ToSet
        <4> HIDE DEF judged
        <4> QED BY <2>3, <3>1, <4>1 DEF IsAllowed, Judged
      <3>2. CASE ~(Len(parsed) > 1)
        <4>1. command \in judged
          BY <3>2
        <4> HIDE DEF judged
        <4> QED BY <2>3, <3>2, <4>1 DEF IsAllowed
      <3> QED BY <3>1, <3>2
    <2>5. plan.allowed = IsAllowed(policy, alias, tags, command)
      BY Zenon DEF AnswersInv, AskedAllowed
    <2>6. /\ IsAllowed(policy, alias, tags, command) \in BOOLEAN
          /\ IsAllowed(WithRule(policy, rule), alias, tags, command) \in BOOLEAN
      BY Zenon DEF IsAllowed, IsSingleCommandAllowed
    <2> QED BY <2>4, <2>5, <2>6, Zenon
  <1> QED BY <1>1, AnswersInvariance, PTL

\* Nothing is selected of nothing.
LEMMA AmongEmpty ==
  ASSUME NEW S PROVE Among(<<>>, S) = <<>>
  <1>1. \A e : e = <<>> => e \in Seq({}) /\ Len(e) = 0
    OBVIOUS
  <1>2. \A e : e = <<>> => Among(e, S) = <<>>
    BY <1>1, AmongFold DEF AmongTable
  <1> QED BY <1>2

\* One more element is kept at the end, or is not.
LEMMA AmongAppend ==
  ASSUME NEW T, NEW s \in Seq(T), NEW x \in T, NEW S
  PROVE  Among(Append(s, x), S) = IF x \in S THEN Append(Among(s, S), x) ELSE Among(s, S)
  <1> DEFINE n == Len(s)
             t == Append(s, x)
  <1>1. /\ n \in Nat /\ t \in Seq(T) /\ Len(t) = n + 1 /\ t[n + 1] = x
        /\ \A k \in 1..n : t[k] = s[k]
    OBVIOUS
  <1> HIDE DEF t
  <1>2. PICK f : AmongTable(f, T, s, S)
    BY AmongFold
  <1>3. PICK h : AmongTable(h, T, t, S)
    BY <1>1, AmongFold
  <1> DEFINE In == {k \in 0..n : h[k] = f[k]}
  <1>4. 0 \in In
    BY <1>1, <1>2, <1>3 DEF AmongTable
  <1>5. ASSUME NEW k \in 1..n, k - 1 \in In PROVE k \in In
    <2>1. k \in 1..n + 1 /\ k \in 0..n /\ h[k - 1] = f[k - 1] /\ t[k] = s[k]
      BY <1>1, <1>5
    <2> QED BY <1>1, <1>2, <1>3, <2>1 DEF AmongTable
  <1>6. \A k \in 0..n : k \in In
    <2> HIDE DEF In
    <2> QED BY <1>1, <1>4, <1>5, InductionUpTo
  <1>7. n \in 0..n /\ n + 1 \in 1..n + 1 /\ (n + 1) - 1 = n
    BY <1>1
  <1>8. h[n] = f[n]
    BY <1>6, <1>7
  <1>9. h[n + 1] = IF x \in S THEN Append(h[n], x) ELSE h[n]
    BY <1>1, <1>3, <1>7 DEF AmongTable
  <1> QED BY <1>1, <1>2, <1>3, <1>8, <1>9 DEF t, AmongTable

\* Only what is there makes a difference to what is selected.
LEMMA AmongSame ==
  ASSUME NEW T, NEW s \in Seq(T), NEW S, NEW U,
         \A k \in 1..Len(s) : s[k] \in S <=> s[k] \in U
  PROVE  Among(s, S) = Among(s, U)
  <1> DEFINE n == Len(s)
  <1>1. n \in Nat
    OBVIOUS
  <1>2. PICK f : AmongTable(f, T, s, S)
    BY AmongFold
  <1>3. PICK h : AmongTable(h, T, s, U)
    BY AmongFold
  <1> DEFINE In == {k \in 0..n : h[k] = f[k]}
  <1>4. 0 \in In
    BY <1>1, <1>2, <1>3 DEF AmongTable
  <1>5. ASSUME NEW k \in 1..n, k - 1 \in In PROVE k \in In
    <2>1. k \in 0..n /\ h[k - 1] = f[k - 1] /\ (s[k] \in S <=> s[k] \in U)
      BY <1>1, <1>5
    <2> QED BY <1>2, <1>3, <2>1 DEF AmongTable
  <1>6. \A k \in 0..n : k \in In
    <2> HIDE DEF In, n
    <2> QED BY <1>1, <1>4, <1>5, InductionUpTo
  <1>7. n \in 0..n
    BY <1>1
  <1> QED BY <1>2, <1>3, <1>6, <1>7 DEF AmongTable

-----------------------------------------------------------------------------
(* Positions in order.                                                       *)

\* Only positions of the text count.
LEMMA InOrderSame ==
  ASSUME NEW cmd, IsSeq(cmd), NEW A, NEW B, A \cap DOMAIN cmd = B \cap DOMAIN cmd
  PROVE  InOrder(cmd, A) = InOrder(cmd, B)
  <1>1. DOMAIN cmd = 1..Len(cmd) /\ Len(cmd) \in Nat
    BY DEF IsSeq
  <1>2. /\ Positions(cmd) \in Seq(DOMAIN cmd) /\ Len(Positions(cmd)) = Len(cmd)
        /\ \A k \in 1..Len(cmd) : Positions(cmd)[k] = k
    BY <1>1 DEF Positions
  <1>3. \A k \in 1..Len(Positions(cmd)) : Positions(cmd)[k] \in A <=> Positions(cmd)[k] \in B
    BY <1>1, <1>2
  <1>4. Among(Positions(cmd), A) = Among(Positions(cmd), B)
    BY <1>2, <1>3, AmongSame
  <1> QED BY <1>4 DEF InOrder

\* No position.
LEMMA InOrderNone ==
  ASSUME NEW cmd, IsSeq(cmd)
  PROVE  InOrder(cmd, {}) = <<>>
  <1> DEFINE n == Len(cmd)
             p == Positions(cmd)
  <1>1. DOMAIN cmd = 1..n /\ n \in Nat
    BY DEF IsSeq
  <1>2. p \in Seq(DOMAIN cmd) /\ Len(p) = n
    BY <1>1 DEF Positions
  <1> HIDE DEF p, n
  <1>3. PICK f : AmongTable(f, DOMAIN cmd, p, {})
    BY <1>2, AmongFold
  <1> DEFINE In == {k \in 0..n : f[k] = <<>>}
  <1>4. 0 \in In
    BY <1>1, <1>3 DEF AmongTable
  <1>5. ASSUME NEW k \in 1..n, k - 1 \in In PROVE k \in In
    BY <1>1, <1>2, <1>3, <1>5 DEF AmongTable
  <1>6. \A k \in 0..n : k \in In
    <2> HIDE DEF In
    <2> QED BY <1>1, <1>4, <1>5, InductionUpTo
  <1>7. n \in In
    BY <1>1, <1>6
  <1> QED BY <1>2, <1>3, <1>7 DEF InOrder, p, AmongTable

\* The last of the positions comes last.
LEMMA InOrderAppend ==
  ASSUME NEW cmd, IsSeq(cmd), NEW x \in 1..Len(cmd), NEW A \in SUBSET (1..x - 1)
  PROVE  InOrder(cmd, A \cup {x}) = Append(InOrder(cmd, A), x)
  <1> DEFINE n == Len(cmd)
             p == Positions(cmd)
             B == A \cup {x}
  <1>1. DOMAIN cmd = 1..n /\ n \in Nat
    BY DEF IsSeq
  <1>2. p \in Seq(DOMAIN cmd) /\ Len(p) = n /\ \A k \in 1..n : p[k] = k
    BY <1>1 DEF Positions
  <1> HIDE DEF p, n
  <1>3. PICK f : AmongTable(f, DOMAIN cmd, p, A)
    BY <1>2, AmongFold
  <1>4. PICK h : AmongTable(h, DOMAIN cmd, p, B)
    BY <1>2, AmongFold
  <1>5. x \in 1..n /\ x \in Nat
    BY <1>1 DEF n
  <1> DEFINE In == {k \in 0..n : IF k < x THEN h[k] = f[k] ELSE h[k] = Append(f[k], x)}
  <1>6. 0 \in In
    BY <1>1, <1>3, <1>4, <1>5 DEF AmongTable
  <1>7. ASSUME NEW k \in 1..n, k - 1 \in In PROVE k \in In
    <2>1. k \in 0..n /\ k \in Nat /\ k - 1 \in Nat
      BY <1>1
    <2>2. /\ f[k] = IF k \in A THEN Append(f[k - 1], k) ELSE f[k - 1]
          /\ h[k] = IF k \in B THEN Append(h[k - 1], k) ELSE h[k - 1]
      BY <1>2, <1>3, <1>4 DEF AmongTable
    <2>3. CASE k < x
      <3>1. h[k - 1] = f[k - 1] /\ (k \in A <=> k \in B)
        BY <1>5, <1>7, <2>1, <2>3
      <3> QED BY <2>1, <2>2, <2>3, <3>1
    <2>4. CASE k = x
      <3>1. h[k - 1] = f[k - 1] /\ k \notin A /\ k \in B /\ ~(k < x)
        BY <1>5, <1>7, <2>1, <2>4
      <3> QED BY <2>1, <2>2, <2>4, <3>1
    <2>5. CASE k > x
      <3>1. h[k - 1] = Append(f[k - 1], x) /\ k \notin A /\ k \notin B /\ ~(k < x)
        BY <1>5, <1>7, <2>1, <2>5
      <3> QED BY <2>1, <2>2, <3>1
    <2> QED BY <1>5, <2>1, <2>3, <2>4, <2>5
  <1>8. \A k \in 0..n : k \in In
    <2> HIDE DEF In
    <2> QED BY <1>1, <1>6, <1>7, InductionUpTo
  <1>9. h[n] = Append(f[n], x)
    <2>1. n \in In /\ ~(n < x)
      BY <1>1, <1>5, <1>8
    <2> QED BY <2>1
  <1> QED BY <1>2, <1>3, <1>4, <1>9 DEF InOrder, p, AmongTable

-----------------------------------------------------------------------------
(* Blanks at the ends.                                                       *)

\* Sequences with the same elements are the same.
LEMMA SameElements ==
  ASSUME NEW T, NEW s \in Seq(T), NEW t \in Seq(T), Len(s) = Len(t),
         \A i \in 1..Len(s) : s[i] = t[i]
  PROVE  s = t
  OBVIOUS

\* Nothing is left of blanks; else what is left goes from the first symbol that is
\* no blank to the last.
LEMMA StripFacts ==
  ASSUME NEW T, NEW s \in Seq(T)
  PROVE  \/ (\A i \in 1..Len(s) : s[i] = Blank) /\ Strip(s) = <<>>
         \/ \E a, b \in 1..Len(s) :
              /\ a <= b /\ s[a] # Blank /\ s[b] # Blank
              /\ \A i \in 1..Len(s) : s[i] # Blank => a <= i /\ i <= b
              /\ Strip(s) = SubSeq(s, a, b)
  <1> DEFINE solid == {i \in DOMAIN s : s[i] # Blank}
             first == CHOOSE i \in solid : \A j \in solid : i <= j
             last  == CHOOSE i \in solid : \A j \in solid : i >= j
  <1>1. DOMAIN s = 1..Len(s) /\ Len(s) \in Nat
    OBVIOUS
  <1>2. CASE solid = {}
    BY <1>1, <1>2 DEF Strip
  <1>3. CASE solid # {}
    <2>1. Strip(s) = SubSeq(s, first, last)
      BY <1>3 DEF Strip
    <2>2. solid \in SUBSET (1..Len(s)) /\ solid \subseteq Nat
      BY <1>1
    <2>3. \A i \in 1..Len(s) : s[i] # Blank <=> i \in solid
      BY <1>1
    <2> HIDE DEF solid
    <2>4. PICK a \in solid : \A j \in solid : a <= j
      BY <1>3, <2>2, LeastElement
    <2>5. first = a
      <3>1. \A x \in solid : (\A j \in solid : x <= j) => x = a
        BY <2>2, <2>4
      <3> QED BY <2>4, <3>1
    <2>6. PICK b \in solid : \A j \in solid : b >= j
      BY <1>1, <1>3, <2>2, MaxInside
    <2>7. last = b
      <3>1. \A x \in solid : (\A j \in solid : x >= j) => x = b
        BY <2>2, <2>6
      <3> QED BY <2>6, <3>1
    <2> HIDE DEF first, last
    <2>8. a \in 1..Len(s) /\ b \in 1..Len(s) /\ a <= b
      BY <2>2, <2>4, <2>6
    <2>9. \A i \in 1..Len(s) : s[i] # Blank => a <= i /\ i <= b
      BY <2>2, <2>3, <2>4, <2>6
    <2>10. s[a] # Blank /\ s[b] # Blank
      BY <2>3, <2>8
    <2> QED BY <2>1, <2>5, <2>7, <2>8, <2>9, <2>10
  <1> QED BY <1>2, <1>3

\* What is left is a text, and nothing only of blanks.
LEMMA StripType ==
  ASSUME NEW T, NEW s \in Seq(T)
  PROVE  Strip(s) \in Seq(T) /\ (Strip(s) = <<>> <=> \A i \in 1..Len(s) : s[i] = Blank)
  <1>1. CASE (\A i \in 1..Len(s) : s[i] = Blank) /\ Strip(s) = <<>>
    <2>1. \A e : e = <<>> => e \in Seq(T)
      OBVIOUS
    <2> QED BY <1>1, <2>1
  <1>2. ASSUME NEW a \in 1..Len(s), NEW b \in 1..Len(s), a <= b, s[a] # Blank,
               Strip(s) = SubSeq(s, a, b)
        PROVE  Strip(s) \in Seq(T) /\ Strip(s) # <<>>
    <2>1. SubSeq(s, a, b) \in Seq(T) /\ Len(SubSeq(s, a, b)) = b - a + 1
      BY <1>2
    <2>2. b - a + 1 # 0
      BY <1>2
    <2>3. \A e : e = <<>> => Len(e) = 0
      OBVIOUS
    <2> QED BY <1>2, <2>1, <2>2, <2>3
  <1> QED BY <1>1, <1>2, StripFacts

-----------------------------------------------------------------------------
(* Runs of adjacent positions.                                               *)

\* Where runs of adjacent positions start and end.
Starts(In) == {i \in In : i - 1 \notin In}
Ends(In)   == {i \in In : i + 1 \notin In}

\* Each run that begins comes to an end.
Balanced(cmd, In) == Len(InOrder(cmd, Starts(In))) = Len(InOrder(cmd, Ends(In)))

\* The runs are pairs of positions.
LEMMA RunsType ==
  ASSUME NEW cmd, IsSeq(cmd), NEW In, Balanced(cmd, In)
  PROVE  /\ Runs(cmd, In) \in Seq((DOMAIN cmd) \X (DOMAIN cmd))
         /\ Len(Runs(cmd, In)) = Len(InOrder(cmd, Starts(In)))
         /\ \A k \in 1..Len(Runs(cmd, In)) : Runs(cmd, In)[k] =
               <<InOrder(cmd, Starts(In))[k], InOrder(cmd, Ends(In))[k]>>
  <1> DEFINE D == DOMAIN cmd
             ss == InOrder(cmd, Starts(In))
             ee == InOrder(cmd, Ends(In))
             n == Len(ss)
  <1>1. Runs(cmd, In) = [k \in DOMAIN ss |-> <<ss[k], ee[k]>>]
    BY DEF Runs, Starts, Ends
  <1>2. ss \in Seq(D) /\ ee \in Seq(D) /\ Len(ee) = n
    BY InOrderType DEF Balanced
  <1> HIDE DEF ss, ee, D
  <1>3. n \in Nat /\ DOMAIN ss = 1..n /\ \A k \in 1..n : ss[k] \in D /\ ee[k] \in D
    BY <1>2
  <1> HIDE DEF n
  <1>4. [k \in 1..n |-> <<ss[k], ee[k]>>] \in [1..n -> D \X D]
    BY <1>3
  <1>5. \A f \in [1..n -> D \X D] : f \in Seq(D \X D) /\ Len(f) = n
    BY <1>3
  <1>6. Runs(cmd, In) \in Seq(D \X D) /\ Len(Runs(cmd, In)) = n
    BY <1>1, <1>3, <1>4, <1>5
  <1>7. \A k \in 1..n : Runs(cmd, In)[k] = <<ss[k], ee[k]>>
    BY <1>1, <1>3
  <1> QED BY <1>6, <1>7 DEF ss, ee, n, D

\* No positions, no runs.
LEMMA RunsNone ==
  ASSUME NEW cmd, IsSeq(cmd)
  PROVE  Balanced(cmd, {}) /\ Runs(cmd, {}) = <<>>
  <1>1. Starts({}) = {} /\ Ends({}) = {}
    BY DEF Starts, Ends
  <1>2. InOrder(cmd, {}) = <<>>
    BY InOrderNone
  <1>3. Balanced(cmd, {})
    BY <1>1 DEF Balanced
  <1>4. Len(Runs(cmd, {})) = 0 /\ Runs(cmd, {}) \in Seq((DOMAIN cmd) \X (DOMAIN cmd))
    <2>1. /\ Runs(cmd, {}) \in Seq((DOMAIN cmd) \X (DOMAIN cmd))
          /\ Len(Runs(cmd, {})) = Len(InOrder(cmd, Starts({})))
      BY <1>3, RunsType
    <2>2. \A e : e = <<>> => Len(e) = 0
      OBVIOUS
    <2> QED BY <1>1, <1>2, <2>1, <2>2
  <1> QED BY <1>3, <1>4

\* A run that is apart from those before it comes after them.
LEMMA RunsExtend ==
  ASSUME NEW cmd, IsSeq(cmd), NEW from \in 1..Len(cmd), NEW to \in from..Len(cmd),
         NEW B \in SUBSET (1..from - 2), Balanced(cmd, B)
  PROVE  /\ Balanced(cmd, B \cup (from..to))
         /\ Runs(cmd, B \cup (from..to)) = Append(Runs(cmd, B), <<from, to>>)
  <1> DEFINE n == Len(cmd)
             D == B \cup (from..to)
             P == (DOMAIN cmd) \X (DOMAIN cmd)
  <1>1. /\ n \in Nat /\ DOMAIN cmd = 1..n /\ from \in Nat /\ to \in Nat /\ from <= to
        /\ from \in 1..n /\ to \in 1..n
    BY DEF IsSeq
  <1>2. Starts(D) = Starts(B) \cup {from} /\ Starts(B) \in SUBSET (1..from - 1)
    <2>1. from \in D /\ from - 1 \notin D /\ \A i \in B : i < from /\ i \in Nat
      BY <1>1
    <2>2. ASSUME NEW i PROVE i \in Starts(D) <=> i \in Starts(B) \cup {from}
      <3>1. CASE i \in B
        <4>1. i \in D /\ (i - 1 \in D <=> i - 1 \in B) /\ i # from
          BY <1>1, <2>1, <3>1
        <4> QED BY <3>1, <4>1 DEF Starts
      <3>2. CASE i = from
        BY <2>1, <3>2 DEF Starts
      <3>3. CASE i \notin B /\ i # from
        <4>1. i \in D => i - 1 \in D
          BY <1>1, <3>3
        <4> QED BY <3>3, <4>1 DEF Starts
      <3> QED BY <3>1, <3>2, <3>3
    <2>3. Starts(B) \subseteq 1..from - 1
      <3>1. Starts(B) \subseteq B
        BY DEF Starts
      <3>2. B \subseteq 1..from - 1
        BY <1>1
      <3> QED BY <3>1, <3>2
    <2> QED BY <2>2, <2>3
  <1>3. Ends(D) = Ends(B) \cup {to} /\ Ends(B) \in SUBSET (1..to - 1)
    <2>1. to \in D /\ to + 1 \notin D /\ \A i \in B : i < from - 1 /\ i < to /\ i \in Nat
      BY <1>1
    <2>2. ASSUME NEW i PROVE i \in Ends(D) <=> i \in Ends(B) \cup {to}
      <3>1. CASE i \in B
        <4>1. i \in D /\ (i + 1 \in D <=> i + 1 \in B) /\ i # to
          BY <1>1, <2>1, <3>1
        <4> QED BY <3>1, <4>1 DEF Ends
      <3>2. CASE i = to
        BY <2>1, <3>2 DEF Ends
      <3>3. CASE i \notin B /\ i # to
        <4>1. i \in D => i + 1 \in D
          BY <1>1, <3>3
        <4> QED BY <3>3, <4>1 DEF Ends
      <3> QED BY <3>1, <3>2, <3>3
    <2>3. Ends(B) \subseteq 1..to - 1
      <3>1. Ends(B) \subseteq B
        BY DEF Ends
      <3>2. B \subseteq 1..to - 1
        BY <1>1
      <3> QED BY <3>1, <3>2
    <2> QED BY <2>2, <2>3
  <1> HIDE DEF D
  <1>4. InOrder(cmd, Starts(D)) = Append(InOrder(cmd, Starts(B)), from)
    <2>1. InOrder(cmd, Starts(B) \cup {from}) = Append(InOrder(cmd, Starts(B)), from)
      BY <1>1, <1>2, InOrderAppend
    <2> QED BY <1>2, <2>1
  <1>5. InOrder(cmd, Ends(D)) = Append(InOrder(cmd, Ends(B)), to)
    <2>1. InOrder(cmd, Ends(B) \cup {to}) = Append(InOrder(cmd, Ends(B)), to)
      BY <1>1, <1>3, InOrderAppend
    <2> QED BY <1>3, <2>1
  <1>6. /\ InOrder(cmd, Starts(B)) \in Seq(DOMAIN cmd) /\ InOrder(cmd, Ends(B)) \in Seq(DOMAIN cmd)
        /\ Len(InOrder(cmd, Starts(B))) = Len(InOrder(cmd, Ends(B)))
    BY InOrderType DEF Balanced
  <1>7. Balanced(cmd, D)
    BY <1>1, <1>4, <1>5, <1>6 DEF Balanced
  <1> DEFINE ss == InOrder(cmd, Starts(B))
             ee == InOrder(cmd, Ends(B))
             m == Len(ss)
  <1>8. /\ m \in Nat /\ \A k \in 1..m : Append(ss, from)[k] = ss[k] /\ Append(ee, to)[k] = ee[k]
        /\ Append(ss, from)[m + 1] = from /\ Append(ee, to)[m + 1] = to
        /\ Len(Append(ss, from)) = m + 1
    BY <1>1, <1>6
  <1>9. /\ Runs(cmd, B) \in Seq(P) /\ Len(Runs(cmd, B)) = m
        /\ \A k \in 1..m : Runs(cmd, B)[k] = <<ss[k], ee[k]>>
    BY RunsType
  <1>10. /\ Runs(cmd, D) \in Seq(P) /\ Len(Runs(cmd, D)) = m + 1
         /\ \A k \in 1..m + 1 : Runs(cmd, D)[k] = <<Append(ss, from)[k], Append(ee, to)[k]>>
    <2>1. /\ Runs(cmd, D) \in Seq(P) /\ Len(Runs(cmd, D)) = Len(InOrder(cmd, Starts(D)))
          /\ \A k \in 1..Len(Runs(cmd, D)) :
                Runs(cmd, D)[k] = <<InOrder(cmd, Starts(D))[k], InOrder(cmd, Ends(D))[k]>>
      BY <1>7, RunsType
    <2>2. InOrder(cmd, Starts(D)) = Append(ss, from) /\ InOrder(cmd, Ends(D)) = Append(ee, to)
      BY <1>4, <1>5
    <2> HIDE DEF ss, ee, P, m
    <2> QED BY <1>8, <2>1, <2>2
  <1>11. <<from, to>> \in P
    BY <1>1
  <1> HIDE DEF ss, ee, m, P
  <1>12. /\ Append(Runs(cmd, B), <<from, to>>) \in Seq(P)
         /\ Len(Append(Runs(cmd, B), <<from, to>>)) = m + 1
         /\ \A k \in 1..m : Append(Runs(cmd, B), <<from, to>>)[k] = Runs(cmd, B)[k]
         /\ Append(Runs(cmd, B), <<from, to>>)[m + 1] = <<from, to>>
    BY <1>8, <1>9, <1>11
  <1>13. ASSUME NEW k \in 1..m + 1
         PROVE  Runs(cmd, D)[k] = Append(Runs(cmd, B), <<from, to>>)[k]
    <2>1. k \in 1..m \/ k = m + 1
      BY <1>8
    <2>2. CASE k \in 1..m
      <3>1. Runs(cmd, D)[k] = <<ss[k], ee[k]>>
        BY <1>8, <1>10, <2>2
      <3> QED BY <1>9, <1>12, <2>2, <3>1
    <2>3. CASE k = m + 1
      <3>1. Runs(cmd, D)[k] = <<from, to>>
        BY <1>8, <1>10, <2>3
      <3> QED BY <1>12, <2>3, <3>1
    <2> QED BY <2>1, <2>2, <2>3
  <1>14. Runs(cmd, D) = Append(Runs(cmd, B), <<from, to>>)
    BY <1>10, <1>12, <1>13, SameElements
  <1> QED BY <1>7, <1>14 DEF D

-----------------------------------------------------------------------------
(* The texts at the runs.                                                    *)

\* The texts the runs span, without blanks around them.
PartTexts(cmd, In) ==
    LET parts == Runs(cmd, In)
    IN  [k \in DOMAIN parts |-> Strip(SubSeq(cmd, parts[k][1], parts[k][2]))]

\* Those that are not blank.
Pieces(cmd, In) == Among(PartTexts(cmd, In), Seq(ToSet(cmd)) \ {<<>>})

\* There are as many texts as runs, each what its run spans without blanks around it.
LEMMA PartTextsType ==
  ASSUME NEW cmd, IsSeq(cmd), NEW In, Balanced(cmd, In)
  PROVE  /\ PartTexts(cmd, In) \in Seq(Seq(ToSet(cmd)))
         /\ Len(PartTexts(cmd, In)) = Len(Runs(cmd, In))
         /\ \A k \in 1..Len(Runs(cmd, In)) : PartTexts(cmd, In)[k] =
               Strip(SubSeq(cmd, Runs(cmd, In)[k][1], Runs(cmd, In)[k][2]))
  <1> DEFINE T == ToSet(cmd)
             parts == Runs(cmd, In)
             n == Len(parts)
             Text(k) == Strip(SubSeq(cmd, parts[k][1], parts[k][2]))
  <1>1. parts \in Seq((DOMAIN cmd) \X (DOMAIN cmd))
    BY RunsType
  <1>2. n \in Nat /\ DOMAIN parts = 1..n /\ \A k \in 1..n : parts[k] \in (DOMAIN cmd) \X (DOMAIN cmd)
    BY <1>1
  <1>3. cmd \in Seq(T) /\ DOMAIN cmd = 1..Len(cmd) /\ Len(cmd) \in Nat
    BY DEF IsSeq
  <1> HIDE DEF parts, T
  <1>4. ASSUME NEW k \in 1..n PROVE Text(k) \in Seq(T)
    <2>1. parts[k][1] \in 1..Len(cmd) /\ parts[k][2] \in 1..Len(cmd)
      BY <1>2, <1>3
    <2>2. SubSeq(cmd, parts[k][1], parts[k][2]) \in Seq(T)
      <3> HIDE DEF n
      <3>1. \A a, b \in 1..Len(cmd) : SubSeq(cmd, a, b) \in Seq(T)
        BY <1>3
      <3> QED BY <2>1, <3>1
    <2> QED BY <2>2, StripType
  <1>5. PartTexts(cmd, In) = [k \in 1..n |-> Text(k)]
    BY <1>2 DEF PartTexts, parts
  <1> HIDE DEF n, Text
  <1>6. [k \in 1..n |-> Text(k)] \in [1..n -> Seq(T)]
    BY <1>4
  <1>7. \A f \in [1..n -> Seq(T)] : f \in Seq(Seq(T)) /\ Len(f) = n
    BY <1>2
  <1>8. PartTexts(cmd, In) \in Seq(Seq(T)) /\ Len(PartTexts(cmd, In)) = n
    BY <1>5, <1>6, <1>7
  <1>9. \A k \in 1..n : PartTexts(cmd, In)[k] = Text(k)
    BY <1>5
  <1> QED BY <1>8, <1>9 DEF n, Text, parts, T

\* The texts that are not blank are a sequence of texts.
LEMMA PiecesType ==
  ASSUME NEW cmd, IsSeq(cmd), NEW In, Balanced(cmd, In)
  PROVE  Pieces(cmd, In) \in Seq(Seq(ToSet(cmd)))
  BY PartTextsType, AmongType DEF Pieces

\* Of no positions there are no texts.
LEMMA PiecesNone ==
  ASSUME NEW cmd, IsSeq(cmd)
  PROVE  Pieces(cmd, {}) = <<>>
  <1>1. Balanced(cmd, {}) /\ Runs(cmd, {}) = <<>>
    BY RunsNone
  <1>2. PartTexts(cmd, {}) \in Seq(Seq(ToSet(cmd))) /\ Len(PartTexts(cmd, {})) = 0
    BY <1>1, PartTextsType
  <1>3. PartTexts(cmd, {}) = <<>>
    BY <1>2
  <1> QED BY <1>3, AmongEmpty DEF Pieces

\* A run after the others adds its text, if that is more than blanks.
LEMMA PiecesExtend ==
  ASSUME NEW cmd, IsSeq(cmd), NEW from \in 1..Len(cmd), NEW to \in from..Len(cmd),
         NEW B \in SUBSET (1..from - 2), Balanced(cmd, B)
  PROVE  LET text == Strip(SubSeq(cmd, from, to))
         IN  Pieces(cmd, B \cup (from..to)) =
                IF text = <<>> THEN Pieces(cmd, B) ELSE Append(Pieces(cmd, B), text)
  <1> DEFINE T == ToSet(cmd)
             D == B \cup (from..to)
             text == Strip(SubSeq(cmd, from, to))
             m == Len(Runs(cmd, B))
  <1>1. Balanced(cmd, D) /\ Runs(cmd, D) = Append(Runs(cmd, B), <<from, to>>)
    <2>1. Balanced(cmd, B \cup (from..to))
      BY RunsExtend
    <2>2. Runs(cmd, B \cup (from..to)) = Append(Runs(cmd, B), <<from, to>>)
      BY RunsExtend, ZenonT(60)
    <2> QED BY <2>1, <2>2
  <1>2. Runs(cmd, B) \in Seq((DOMAIN cmd) \X (DOMAIN cmd))
    BY RunsType
  <1>3. from \in DOMAIN cmd /\ to \in DOMAIN cmd /\ cmd \in Seq(T) /\ Len(cmd) \in Nat
        /\ from \in 1..Len(cmd) /\ to \in 1..Len(cmd)
    BY DEF IsSeq
  <1> HIDE DEF T
  <1>4. text \in Seq(T)
    <2>1. SubSeq(cmd, from, to) \in Seq(T)
      BY <1>3
    <2> QED BY <2>1, StripType
  <1> HIDE DEF D
  <1>5. /\ m \in Nat /\ Len(Runs(cmd, D)) = m + 1
        /\ \A k \in 1..m : Runs(cmd, D)[k] = Runs(cmd, B)[k]
        /\ Runs(cmd, D)[m + 1] = <<from, to>>
    BY <1>1, <1>2, <1>3
  <1> HIDE DEF text
  <1>6. /\ PartTexts(cmd, B) \in Seq(Seq(T)) /\ Len(PartTexts(cmd, B)) = m
        /\ \A k \in 1..m : PartTexts(cmd, B)[k] =
               Strip(SubSeq(cmd, Runs(cmd, B)[k][1], Runs(cmd, B)[k][2]))
    BY PartTextsType DEF T
  <1>7. /\ PartTexts(cmd, D) \in Seq(Seq(T)) /\ Len(PartTexts(cmd, D)) = Len(Runs(cmd, D))
        /\ \A k \in 1..Len(Runs(cmd, D)) : PartTexts(cmd, D)[k] =
               Strip(SubSeq(cmd, Runs(cmd, D)[k][1], Runs(cmd, D)[k][2]))
    <2>1. /\ PartTexts(cmd, D) \in Seq(Seq(ToSet(cmd)))
          /\ Len(PartTexts(cmd, D)) = Len(Runs(cmd, D))
          /\ \A k \in 1..Len(Runs(cmd, D)) : PartTexts(cmd, D)[k] =
               Strip(SubSeq(cmd, Runs(cmd, D)[k][1], Runs(cmd, D)[k][2]))
      <3>1. Balanced(cmd, D)
        BY <1>1
      <3> QED BY <3>1, PartTextsType
    <2> QED BY <2>1 DEF T
  <1> HIDE DEF m
  <1>8. PartTexts(cmd, D)[m + 1] = text
    BY <1>5, <1>7 DEF text
  <1>9. ASSUME NEW k \in 1..m PROVE PartTexts(cmd, D)[k] = PartTexts(cmd, B)[k]
    <2>1. k \in 1..Len(Runs(cmd, D)) /\ Runs(cmd, D)[k] = Runs(cmd, B)[k]
      BY <1>5
    <2> QED BY <1>6, <1>7, <2>1
  <1>10. /\ Append(PartTexts(cmd, B), text) \in Seq(Seq(T))
         /\ Len(Append(PartTexts(cmd, B), text)) = m + 1
         /\ \A k \in 1..m : Append(PartTexts(cmd, B), text)[k] = PartTexts(cmd, B)[k]
         /\ Append(PartTexts(cmd, B), text)[m + 1] = text
    BY <1>4, <1>5, <1>6
  <1>11. PartTexts(cmd, D) = Append(PartTexts(cmd, B), text)
    <2>1. ASSUME NEW k \in 1..m + 1
          PROVE  PartTexts(cmd, D)[k] = Append(PartTexts(cmd, B), text)[k]
      <3>1. k \in 1..m \/ k = m + 1
        BY <1>5
      <3> QED BY <1>8, <1>9, <1>10, <3>1
    <2> QED BY <1>5, <1>7, <1>10, <2>1, SameElements
  <1>12. Pieces(cmd, D) = IF text \in Seq(T) \ {<<>>} THEN Append(Pieces(cmd, B), text)
                          ELSE Pieces(cmd, B)
    BY <1>4, <1>6, <1>11, AmongAppend DEF Pieces, T
  <1>13. Pieces(cmd, D) = IF text = <<>> THEN Pieces(cmd, B) ELSE Append(Pieces(cmd, B), text)
    BY <1>4, <1>12
  <1> QED BY <1>13 DEF D, text

-----------------------------------------------------------------------------
(* The scan, turn by turn.                                                   *)

\* What counts as an operator, and how long it is.
LEMMA OperatorLengths ==
  ASSUME NEW cmd, NEW i
  PROVE  /\ OperatorLength(cmd, i) \in {0, 1, 2}
         /\ OperatorLength(cmd, i) = 2 <=> cmd[i] \in {"&", "|"} /\ NextIs(cmd, i, cmd[i])
         /\ OperatorLength(cmd, i) = 1 <=> \/ cmd[i] = ";"
                                           \/ cmd[i] = "|" /\ ~NextIs(cmd, i, "|")
         /\ OperatorLength(cmd, i) > 0 => cmd[i] \in Chain
  <1> DEFINE c == cmd[i]
             twice == c \in {"&", "|"} /\ NextIs(cmd, i, c)
             pipe == c = "|" /\ ~NextIs(cmd, i, "|")
  <1>1. OperatorLength(cmd, i) = CASE twice -> 2 [] c = ";" -> 1 [] pipe -> 1 [] OTHER -> 0
    BY DEF OperatorLength
  <1>2. /\ twice => c \in Chain /\ c # ";" /\ ~pipe
        /\ pipe => c \in Chain
        /\ c = ";" => c \in Chain
    BY DEF Chain
  <1> DEFINE width == OperatorLength(cmd, i)
  <1> SUFFICES /\ width \in {0, 1, 2} /\ (width = 2 <=> twice) /\ (width = 1 <=> c = ";" \/ pipe)
               /\ width > 0 => c \in Chain
    OBVIOUS
  <1> HIDE DEF twice, pipe, c, width
  <1>3. width = CASE twice -> 2 [] c = ";" -> 1 [] pipe -> 1 [] OTHER -> 0
    BY <1>1 DEF width
  <1>4. CASE twice
    <2>1. width = 2
      BY <1>2, <1>3, <1>4, Zenon
    <2>2. 2 # 1 /\ 2 \in {0, 1, 2}
      OBVIOUS
    <2> QED BY <1>2, <1>4, <2>1, <2>2, Zenon
  <1>5. CASE ~twice /\ (c = ";" \/ pipe)
    <2>1. width = 1
      BY <1>3, <1>5, Zenon
    <2>2. 1 # 2 /\ 1 \in {0, 1, 2}
      OBVIOUS
    <2> QED BY <1>2, <1>5, <2>1, <2>2, Zenon
  <1>6. CASE ~twice /\ c # ";" /\ ~pipe
    <2>1. width = 0
      BY <1>3, <1>6, Zenon
    <2>2. 0 # 1 /\ 0 # 2 /\ ~(0 > 0) /\ 0 \in {0, 1, 2}
      OBVIOUS
    <2> QED BY <1>6, <2>1, <2>2, Zenon
  <1> QED BY <1>4, <1>5, <1>6

\* What the loop knows.
States(T) ==
    [quote: Quotes \cup {"none"}, tick: BOOLEAN, dollar: Int, paren: Int,
     from: Nat \ {0}, members: Seq(Seq(T)), skip: BOOLEAN]

\* The turn at position i ends a command.
Cuts(cmd, s, i) ==
    ~s.skip /\ Plain(s) /\ s.paren = 0 /\ OperatorLength(cmd, i) > 0

\* What is between two positions.
LEMMA SubSeqType ==
  ASSUME NEW T, NEW s \in Seq(T), NEW a \in Nat \ {0}, NEW b \in 0..Len(s)
  PROVE  /\ SubSeq(s, a, b) \in Seq(T)
         /\ a <= b => Len(SubSeq(s, a, b)) = b - a + 1
         /\ a > b => SubSeq(s, a, b) = <<>>
         /\ \A i \in 1..b - a + 1 : SubSeq(s, a, b)[i] = s[a + i - 1]
  OBVIOUS

\* Collecting a command leaves a sequence of commands.
LEMMA CollectType ==
  ASSUME NEW T, NEW cmd \in Seq(T), NEW s \in States(T), NEW to \in 0..Len(cmd)
  PROVE  Collect(cmd, s, to) \in Seq(Seq(T))
  <1> DEFINE current == Strip(SubSeq(cmd, s.from, to))
  <1>1. s.from \in Nat \ {0} /\ s.members \in Seq(Seq(T))
    BY DEF States
  <1>2. SubSeq(cmd, s.from, to) \in Seq(T)
    BY <1>1, SubSeqType
  <1>3. current \in Seq(T)
    BY <1>2, StripType
  <1>4. Collect(cmd, s, to) = IF current = <<>> THEN s.members ELSE Append(s.members, current)
    BY DEF Collect
  <1> HIDE DEF current
  <1> QED BY <1>1, <1>3, <1>4

\* A turn that ends a command.
LEMMA CutTurn ==
  ASSUME NEW T, NEW cmd \in Seq(T), NEW s \in States(T), NEW i \in 1..Len(cmd), Cuts(cmd, s, i)
  PROVE  LET t == Consume(cmd, s, i)
         IN  /\ t \in States(T)
             /\ t.quote = s.quote /\ t.tick = s.tick /\ t.dollar = s.dollar /\ t.paren = s.paren
             /\ t.members = Collect(cmd, s, i - 1) /\ t.from = i + OperatorLength(cmd, i)
             /\ t.skip <=> OperatorLength(cmd, i) = 2
  <1> DEFINE width == OperatorLength(cmd, i)
             members == Collect(cmd, s, i - 1)
             next == [s EXCEPT !.members = members, !.from = i + width, !.skip = width = 2]
  <1>1. cmd[i] \in Chain /\ width \in {0, 1, 2} /\ ~s.skip /\ Plain(s) /\ s.paren = 0 /\ width > 0
    BY OperatorLengths DEF Cuts
  <1>2. cmd[i] \notin Quotes /\ cmd[i] # Tick /\ cmd[i] # "$" /\ cmd[i] \notin Parens
    BY <1>1 DEF Chain, Quotes, Tick, Parens
  <1>3. Consume(cmd, s, i) = next
    <2> HIDE DEF members
    <2> QED BY <1>1, <1>2 DEF Consume, members
  <1>4. i - 1 \in 0..Len(cmd)
    OBVIOUS
  <1>5. members \in Seq(Seq(T))
    BY <1>4, CollectType
  <1>6. i + width \in Nat \ {0} /\ (width = 2) \in BOOLEAN
    BY <1>1
  <1> HIDE DEF width, members
  <1>7. next \in States(T)
    BY <1>5, <1>6 DEF States
  <1>8. /\ next.quote = s.quote /\ next.tick = s.tick /\ next.dollar = s.dollar
        /\ next.paren = s.paren /\ next.members = members /\ next.from = i + width
        /\ next.skip <=> width = 2
    BY DEF States
  <1> HIDE DEF next
  <1> QED BY <1>3, <1>7, <1>8 DEF width, members

\* Any other turn.
LEMMA OtherTurn ==
  ASSUME NEW T, NEW cmd \in Seq(T), NEW s \in States(T), NEW i \in 1..Len(cmd), ~Cuts(cmd, s, i)
  PROVE  /\ Consume(cmd, s, i) \in States(T)
         /\ Consume(cmd, s, i).from = s.from /\ Consume(cmd, s, i).members = s.members
  <1> DEFINE c == cmd[i]
  <1>1. \/ Consume(cmd, s, i) = [s EXCEPT !.skip = FALSE]
        \/ c \in Quotes /\ Consume(cmd, s, i) = [s EXCEPT !.quote = IF s.quote = c THEN "none" ELSE c]
        \/ Consume(cmd, s, i) = [s EXCEPT !.tick = ~s.tick]
        \/ Consume(cmd, s, i) = [s EXCEPT !.dollar = 1, !.skip = TRUE]
        \/ Consume(cmd, s, i) = [s EXCEPT !.dollar = s.dollar + Level(c)]
        \/ Consume(cmd, s, i) = [s EXCEPT !.paren = s.paren + Level(c)]
        \/ Consume(cmd, s, i) = s
    BY DEF Consume, Cuts
  <1>2. Level(c) \in Int
    BY DEF Level
  <1>3. (~s.tick) \in BOOLEAN /\ s.dollar \in Int /\ s.paren \in Int
    BY DEF States
  <1>4. s.dollar + Level(c) \in Int /\ s.paren + Level(c) \in Int
    BY <1>2, <1>3
  <1> DEFINE next == Consume(cmd, s, i)
             dollars == s.dollar + Level(c)
             parens == s.paren + Level(c)
             ticked == ~s.tick
  <1> HIDE DEF c, next, dollars, parens, ticked
  <1>5. CASE next = [s EXCEPT !.skip = FALSE] \/ next = [s EXCEPT !.dollar = 1, !.skip = TRUE] \/ next = s
    <2>1. CASE next = [s EXCEPT !.skip = FALSE]
      BY <2>1 DEF States, next
    <2>2. CASE next = [s EXCEPT !.dollar = 1, !.skip = TRUE]
      <3> DEFINE counting == [s EXCEPT !.dollar = 1]
      <3>1. counting \in States(T) /\ counting.from = s.from /\ counting.members = s.members
        BY DEF States
      <3>2. next = [counting EXCEPT !.skip = TRUE]
        BY <2>2 DEF States
      <3> HIDE DEF counting
      <3> QED BY <3>1, <3>2 DEF States, next
    <2>3. CASE next = s
      BY <2>3 DEF next
    <2> QED BY <1>5, <2>1, <2>2, <2>3
  <1>6. CASE c \in Quotes /\ next = [s EXCEPT !.quote = IF s.quote = c THEN "none" ELSE c]
    BY <1>6 DEF States, next
  <1>7. CASE next = [s EXCEPT !.tick = ticked]
    <2>1. ticked \in BOOLEAN
      BY <1>3 DEF ticked
    <2> QED BY <1>7, <2>1 DEF States, next
  <1>8. CASE next = [s EXCEPT !.dollar = dollars]
    <2>1. dollars \in Int
      BY <1>4 DEF dollars
    <2> QED BY <1>8, <2>1 DEF States, next
  <1>9. CASE next = [s EXCEPT !.paren = parens]
    <2>1. parens \in Int
      BY <1>4 DEF parens
    <2> QED BY <1>9, <2>1 DEF States, next
  <1> QED BY <1>1, <1>5, <1>6, <1>7, <1>8, <1>9 DEF next, ticked, dollars, parens

\* Each turn leads from a state of the scan to another.
LEMMA ConsumeType ==
  ASSUME NEW T, NEW cmd \in Seq(T), NEW s \in States(T), NEW i \in 1..Len(cmd)
  PROVE  Consume(cmd, s, i) \in States(T)
  BY CutTurn, OtherTurn

\* And it starts in one.
LEMMA StartType ==
  ASSUME NEW T PROVE ScanStart \in States(T)
  <1>1. \A e : e = <<>> => e \in Seq(Seq(T))
    OBVIOUS
  <1> QED BY <1>1 DEF ScanStart, States

\* st holds the states of the scan, turn by turn.
ScanTable(st, cmd) ==
    /\ st[0] = ScanStart /\ Scan(cmd) = Collect(cmd, st[Len(cmd)], Len(cmd))
    /\ \A k \in 0..Len(cmd) : st[k] \in States(ToSet(cmd))
    /\ \A k \in 1..Len(cmd) : st[k] = Consume(cmd, st[k - 1], k)

\* The scan goes through such states.
LEMMA ScanFold ==
  ASSUME NEW cmd, IsSeq(cmd)
  PROVE  \E st : ScanTable(st, cmd)
  <1> DEFINE n == Len(cmd)
             X == States(ToSet(cmd))
             step == [p \in X \X (1..n) |-> Consume(cmd, p[1], p[2])]
             pos == Positions(cmd)
             Iter(f) == f = [P \in SUBSET DOMAIN pos |-> IF P = {} THEN ScanStart ELSE
                               LET m == Max(P) IN Consume(cmd, f[P \ {m}], pos[m])]
             g == CHOOSE f : Iter(f)
             r == [k \in 0..n |-> g[1..k]]
  <1>1. n \in Nat /\ DOMAIN cmd = 1..n /\ cmd \in Seq(ToSet(cmd))
    BY DEF IsSeq
  <1>2. DOMAIN pos = 1..n /\ \A k \in 1..n : pos[k] = k
    BY <1>1 DEF Positions
  <1> HIDE DEF pos, X
  <1>3. ScanStart \in X
    BY StartType DEF X
  <1>4. \A s \in X, i \in 1..n : Consume(cmd, s, i) \in X
    BY <1>1, ConsumeType DEF X
  <1>5. step \in [X \X (1..n) -> X]
    BY <1>4
  <1>6. PICK f \in [SUBSET (1..n) -> X] : IsTable(f, n, ScanStart, step)
    <2> HIDE DEF n, step
    <2> QED BY <1>1, <1>3, <1>5, FoldTable
  <1>7. \A P \in SUBSET (1..n) : P # {} => Max(P) \in 1..n /\ P \ {Max(P)} \in SUBSET (1..n)
    <2> HIDE DEF n
    <2> QED BY <1>1, MaxInside
  <1>8. \A P \in SUBSET (1..n) : f[P] = IF P = {} THEN ScanStart ELSE
                                   Consume(cmd, f[P \ {Max(P)}], pos[Max(P)])
    <2> HIDE DEF n
    <2> QED BY <1>2, <1>6, <1>7 DEF IsTable
  <1>9. Iter(f)
    <2> HIDE DEF n
    <2> QED BY <1>2, <1>6, <1>8
  <1>10. Scan(cmd) = Collect(cmd, g[1..n], n)
    BY <1>2 DEF Scan, FoldLeft, MapThenFoldSet, pos
  <1>11. Iter(g)
    BY <1>9
  <1>12. \A P \in SUBSET (1..n) : g[P] = IF P = {} THEN ScanStart ELSE
                                   Consume(cmd, g[P \ {Max(P)}], pos[Max(P)])
    <2> HIDE DEF g, n
    <2> QED BY <1>2, <1>11
  <1> HIDE DEF g
  <1>13. g[1..0] = ScanStart
    <2>1. 1..0 \in SUBSET (1..n) /\ 1..0 = {}
      OBVIOUS
    <2> QED BY <1>12, <2>1
  <1>14. ASSUME NEW k \in 1..n PROVE g[1..k] = Consume(cmd, g[1..k - 1], k)
    <2>1. /\ 1..k \in SUBSET (1..n) /\ 1..k # {}
          /\ Max(1..k) = k /\ (1..k) \ {k} = 1..k - 1
      BY <1>1, IntervalStep
    <2> DEFINE P == 1..k
    <2>2. g[P] = IF P = {} THEN ScanStart ELSE Consume(cmd, g[P \ {Max(P)}], pos[Max(P)])
      <3>1. P \in SUBSET (1..n)
        BY <2>1
      <3> HIDE DEF P, n
      <3> QED BY <1>12, <3>1
    <2>3. pos[k] = k
      BY <1>2
    <2> QED BY <2>1, <2>2, <2>3
  <1>15. r[0] = ScanStart /\ Scan(cmd) = Collect(cmd, r[n], n)
    BY <1>1, <1>10, <1>13
  <1>16. \A k \in 1..n : r[k] = Consume(cmd, r[k - 1], k)
    BY <1>1, <1>14
  <1> HIDE DEF r
  <1> DEFINE In == {k \in 0..n : r[k] \in X}
  <1>17. 0 \in In
    BY <1>1, <1>3, <1>15
  <1>18. ASSUME NEW k \in 1..n, k - 1 \in In PROVE k \in In
    <2>1. r[k - 1] \in X /\ k \in 0..n
      BY <1>1, <1>18
    <2> QED BY <1>4, <1>16, <2>1
  <1>19. \A k \in 0..n : k \in In
    <2> HIDE DEF In, n
    <2> QED BY <1>1, <1>17, <1>18, InductionUpTo
  <1>20. ScanTable(r, cmd)
    BY <1>15, <1>16, <1>19 DEF ScanTable, X
  <1> QED BY <1>20

\* The operator that ends a command at position i takes up i + 1, too.
Doubles(cmd, st, i) == Cuts(cmd, st[i - 1], i) /\ OperatorLength(cmd, i) = 2

\* The positions of the operators that end a command.
CutSet(cmd, st) ==
    {i \in DOMAIN cmd : Cuts(cmd, st[i - 1], i) \/ (i > 1 /\ Doubles(cmd, st, i - 1))}

\* What the scan has collected are the texts between the operators it has passed.
Collected(cmd, st, k) ==
    LET s == st[k]
        In == DOMAIN cmd \ CutSet(cmd, st)
    IN  /\ s.from \in 1..k + 2
        /\ s.from = k + 2 <=> k > 0 /\ Doubles(cmd, st, k)
        /\ s.from = k + 2 => s.skip
        /\ s.from > 1 => s.from - 1 \in CutSet(cmd, st)
        /\ \A j \in s.from..k : j \in In
        /\ Balanced(cmd, In \cap (1..s.from - 1))
        /\ s.members = Pieces(cmd, In \cap (1..s.from - 1))

\* The command that ends at position to goes back to the operator before it.
Ready(cmd, In, s, to) ==
    /\ In \in SUBSET (1..Len(cmd)) /\ to \in 0..Len(cmd) /\ s.from \in 1..to + 1
    /\ s.from - 1 \notin In /\ \A j \in s.from..to : j \in In
    /\ Balanced(cmd, In \cap (1..s.from - 1))
    /\ s.members = Pieces(cmd, In \cap (1..s.from - 1))

\* To end a command is to add a run.
LEMMA CollectPieces ==
  ASSUME NEW cmd, IsSeq(cmd), NEW In, NEW s, NEW to, Ready(cmd, In, s, to)
  PROVE  /\ Balanced(cmd, In \cap (1..to))
         /\ Collect(cmd, s, to) = Pieces(cmd, In \cap (1..to))
  <1> USE DEF Ready
  <1> DEFINE from == s.from
             B == In \cap (1..from - 1)
             text == Strip(SubSeq(cmd, from, to))
  <1>1. Len(cmd) \in Nat /\ cmd \in Seq(ToSet(cmd)) /\ from \in Nat \ {0} /\ to \in Nat
    BY DEF IsSeq
  <1>2. Collect(cmd, s, to) = IF text = <<>> THEN Pieces(cmd, B) ELSE Append(Pieces(cmd, B), text)
    BY DEF Collect
  <1>3. CASE from = to + 1
    <2>1. SubSeq(cmd, from, to) = <<>>
      BY <1>1, <1>3, SubSeqType
    <2>2. text = <<>>
      <3>1. \A e : e = <<>> => e \in Seq(ToSet(cmd)) /\ Len(e) = 0
        OBVIOUS
      <3>2. \A e : e = <<>> => Strip(e) = <<>>
        BY <3>1, StripType
      <3> QED BY <2>1, <3>2
    <2>3. B = In \cap (1..to)
      BY <1>1, <1>3
    <2> QED BY <1>2, <2>2, <2>3
  <1>4. CASE from <= to
    <2>1. B \in SUBSET (1..from - 2)
      BY <1>1
    <2>2. B \cup (from..to) = In \cap (1..to)
      BY <1>1, <1>4
    <2>3. from \in 1..Len(cmd) /\ to \in from..Len(cmd)
      BY <1>1, <1>4
    <2> HIDE DEF B, from
    <2>4. Balanced(cmd, B)
      BY DEF B, from
    <2>5. Balanced(cmd, B \cup (from..to))
      BY <2>1, <2>3, <2>4, RunsExtend
    <2>6. Pieces(cmd, B \cup (from..to)) =
             IF text = <<>> THEN Pieces(cmd, B) ELSE Append(Pieces(cmd, B), text)
      BY <2>1, <2>3, <2>4, PiecesExtend
    <2> QED BY <1>2, <2>2, <2>5, <2>6
  <1>5. from = to + 1 \/ from <= to
    BY <1>1
  <1> QED BY <1>3, <1>4, <1>5

\* Before the first turn nothing is collected.
LEMMA CollectedStart ==
  ASSUME NEW cmd, IsSeq(cmd), NEW st, ScanTable(st, cmd)
  PROVE  Collected(cmd, st, 0)
  <1> DEFINE In == DOMAIN cmd \ CutSet(cmd, st)
  <1>1. st[0].from = 1 /\ st[0].members = <<>>
    BY DEF ScanTable, ScanStart
  <1>2. In \cap (1..1 - 1) = {}
    OBVIOUS
  <1>3. Balanced(cmd, In \cap (1..1 - 1)) /\ Pieces(cmd, In \cap (1..1 - 1)) = <<>>
    BY <1>2, RunsNone, PiecesNone
  <1>4. 1 \in 1..0 + 2 /\ ~(1 = 0 + 2) /\ ~(0 > 0) /\ ~(1 > 1) /\ \A j \in 1..0 : j \in In
    OBVIOUS
  <1> HIDE DEF In
  <1> QED BY <1>1, <1>3, <1>4 DEF Collected, In

\* Each turn collects what it completes.
LEMMA CollectedTurn ==
  ASSUME NEW cmd, IsSeq(cmd), NEW st, ScanTable(st, cmd), NEW k \in 1..Len(cmd),
         Collected(cmd, st, k - 1)
  PROVE  Collected(cmd, st, k)
  <1> DEFINE n == Len(cmd)
             T == ToSet(cmd)
             C == CutSet(cmd, st)
             In == DOMAIN cmd \ C
             s == st[k - 1]
             t == st[k]
             w == OperatorLength(cmd, k)
  <1>1. /\ n \in Nat /\ DOMAIN cmd = 1..n /\ cmd \in Seq(T) /\ k \in Nat \ {0} /\ k <= n
        /\ k - 1 \in 0..n
    BY DEF IsSeq
  <1>2. s \in States(T) /\ t = Consume(cmd, s, k)
    BY <1>1 DEF ScanTable
  <1>3. /\ s.from \in 1..k + 1
        /\ s.from = k + 1 <=> k - 1 > 0 /\ Doubles(cmd, st, k - 1)
        /\ s.from = k + 1 => s.skip
        /\ s.from > 1 => s.from - 1 \in C
        /\ \A j \in s.from..k - 1 : j \in In
        /\ Balanced(cmd, In \cap (1..s.from - 1))
        /\ s.members = Pieces(cmd, In \cap (1..s.from - 1))
    <2>1. (k - 1) + 2 = k + 1
      BY <1>1
    <2> HIDE DEF In
    <2> QED BY <2>1 DEF Collected, In
  <1>4. k \in C <=> Cuts(cmd, s, k) \/ (k - 1 > 0 /\ Doubles(cmd, st, k - 1))
    <2>1. k > 1 <=> k - 1 > 0
      BY <1>1
    <2> QED BY <1>1, <2>1 DEF CutSet
  <1> HIDE DEF C, In, s, t
  <1>5. CASE Cuts(cmd, s, k)
    <2>1. ~s.skip /\ w \in {1, 2}
      <3>1. ~s.skip /\ w > 0
        BY <1>5 DEF Cuts
      <3>2. w \in {0, 1, 2}
        BY OperatorLengths
      <3> QED BY <3>1, <3>2
    <2>2. s.from \in 1..k
      BY <1>1, <1>3, <2>1
    <2>4. t.members = Collect(cmd, s, k - 1) /\ t.from = k + w /\ (t.skip <=> w = 2)
      <3> HIDE DEF T
      <3> QED BY <1>1, <1>2, <1>5, CutTurn
    <2>5. s.from - 1 \notin In
      <3>1. s.from > 1 => s.from - 1 \in C
        BY <1>3
      <3>2. s.from = 1 => s.from - 1 \notin 1..n
        OBVIOUS
      <3> QED BY <1>1, <2>2, <3>1, <3>2 DEF In
    <2>6. In \in SUBSET (1..n)
      BY <1>1 DEF In
    <2>7. /\ Balanced(cmd, In \cap (1..k - 1))
          /\ Collect(cmd, s, k - 1) = Pieces(cmd, In \cap (1..k - 1))
      <3>1. s.from \in 1..(k - 1) + 1 /\ k - 1 \in 0..Len(cmd)
        BY <1>1, <2>2
      <3>2. Ready(cmd, In, s, k - 1)
        BY <1>3, <2>5, <2>6, <3>1 DEF Ready
      <3> QED BY <3>2, CollectPieces
    <2>8. k \in C
      BY <1>4, <1>5
    <2>9. Doubles(cmd, st, k) <=> w = 2
      BY <1>5 DEF Doubles, s
    <2>10. w = 2 => k + 1 \in C
      <3> SUFFICES ASSUME w = 2 PROVE k + 1 \in C
        OBVIOUS
      <3>1. k < n
        BY OperatorLengths DEF NextIs
      <3>2. k + 1 \in 1..n /\ k + 1 > 1 /\ (k + 1) - 1 = k
        BY <1>1, <3>1
      <3> HIDE DEF w
      <3>3. Doubles(cmd, st, (k + 1) - 1)
        BY <2>9, <3>2
      <3> QED BY <1>1, <3>2, <3>3 DEF C, CutSet
    <2>11. In \cap (1..t.from - 1) = In \cap (1..k - 1)
      <3>1. ASSUME w = 1 PROVE In \cap (1..k + w - 1) = In \cap (1..k - 1)
        <4>1. k \notin In /\ k + w - 1 = k
          BY <1>1, <2>8, <3>1 DEF In
        <4>2. \A j \in 1..k : j \in 1..k - 1 \/ j = k
          BY <1>1
        <4>3. 1..k - 1 \subseteq 1..k
          BY <1>1
        <4> HIDE DEF w
        <4> QED BY <4>1, <4>2, <4>3
      <3>2. ASSUME w = 2 PROVE In \cap (1..k + w - 1) = In \cap (1..k - 1)
        <4>1. k \notin In /\ k + 1 \notin In /\ k + w - 1 = k + 1
          BY <1>1, <2>8, <2>10, <3>2 DEF In
        <4>2. \A j \in 1..k + 1 : j \in 1..k - 1 \/ j = k \/ j = k + 1
          BY <1>1
        <4>3. 1..k - 1 \subseteq 1..k + 1
          BY <1>1
        <4> HIDE DEF w
        <4> QED BY <4>1, <4>2, <4>3
      <3> HIDE DEF w
      <3> QED BY <2>1, <2>4, <3>1, <3>2
    <2>12. /\ t.from \in 1..k + 2 /\ (t.from = k + 2 <=> k > 0 /\ Doubles(cmd, st, k))
           /\ t.from > 1
           /\ t.from..k = {}
      BY <1>1, <2>1, <2>4, <2>9
    <2>13. t.from = k + 2 => t.skip
      BY <1>1, <2>1, <2>4
    <2>14. t.from - 1 \in C
      <3>1. w = 1 => t.from - 1 = k
        BY <1>1, <2>4
      <3>2. w = 2 => t.from - 1 = k + 1
        BY <1>1, <2>4
      <3> HIDE DEF w
      <3> QED BY <2>1, <2>8, <2>10, <3>1, <3>2
    <2> HIDE DEF w
    <2>15. /\ Balanced(cmd, In \cap (1..t.from - 1))
           /\ t.members = Pieces(cmd, In \cap (1..t.from - 1))
      BY <2>4, <2>7, <2>11
    <2> QED BY <2>12, <2>13, <2>14, <2>15 DEF Collected, In, C, t
  <1>6. CASE ~Cuts(cmd, s, k)
    <2>1. t.from = s.from /\ t.members = s.members
      BY <1>1, <1>2, <1>6, OtherTurn
    <2>2. ~Doubles(cmd, st, k)
      BY <1>6 DEF Doubles, s
    <2>3. t.from # k + 2 /\ t.from \in 1..k + 2
      BY <1>1, <1>3, <2>1
    <2>4. ASSUME NEW j \in t.from..k PROVE j \in In
      <3>1. CASE j = k
        <4>1. s.from # k + 1
          BY <1>1, <1>3, <2>1, <2>4, <3>1
        <4>2. k \notin C
          BY <1>3, <1>4, <1>6, <4>1
        <4> QED BY <1>1, <3>1, <4>2 DEF In
      <3>2. CASE j # k
        <4>1. j \in s.from..k - 1
          BY <1>1, <1>3, <2>1, <2>4, <3>2
        <4> QED BY <1>3, <4>1
      <3> QED BY <3>1, <3>2
    <2>5. /\ Balanced(cmd, In \cap (1..t.from - 1))
          /\ t.members = Pieces(cmd, In \cap (1..t.from - 1))
      BY <1>3, <2>1
    <2>6. t.from > 1 => t.from - 1 \in C
      BY <1>3, <2>1
    <2> HIDE DEF w
    <2> QED BY <2>2, <2>3, <2>4, <2>5, <2>6 DEF Collected, In, C, t
  <1> QED BY <1>5, <1>6

\* So it is at every turn.
LEMMA CollectedAll ==
  ASSUME NEW cmd, IsSeq(cmd), NEW st, ScanTable(st, cmd)
  PROVE  \A k \in 0..Len(cmd) : Collected(cmd, st, k)
  <1> DEFINE n == Len(cmd)
             Fine == {k \in 0..n : Collected(cmd, st, k)}
  <1>1. n \in Nat
    BY DEF IsSeq
  <1>2. 0 \in Fine
    BY <1>1, CollectedStart
  <1>3. ASSUME NEW k \in 1..n, k - 1 \in Fine PROVE k \in Fine
    <2>1. Collected(cmd, st, k - 1) /\ k \in 0..n
      BY <1>1, <1>3
    <2>2. Collected(cmd, st, k)
      BY <2>1, CollectedTurn
    <2> QED BY <2>1, <2>2
  <1>4. \A k \in 0..n : k \in Fine
    <2> HIDE DEF Fine, n
    <2> QED BY <1>1, <1>2, <1>3, InductionUpTo
  <1> QED BY <1>4

\* The current command begins no later than after the operator that was passed last.
LEMMA FromBound ==
  ASSUME NEW cmd, IsSeq(cmd), NEW st, ScanTable(st, cmd), NEW k \in 0..Len(cmd)
  PROVE  /\ st[k].from \in 1..k + 2 /\ st[k].from <= Len(cmd) + 1
         /\ st[k].from = k + 2 => st[k].skip
  <1> DEFINE s == st[k]
  <1>1. s.from \in 1..k + 2 /\ (s.from = k + 2 => Doubles(cmd, st, k)) /\ (s.from = k + 2 => s.skip)
    BY CollectedAll DEF Collected
  <1>2. Doubles(cmd, st, k) => k < Len(cmd)
    BY OperatorLengths DEF Doubles, NextIs
  <1>3. Len(cmd) \in Nat
    BY DEF IsSeq
  <1> HIDE DEF s
  <1>4. s.from <= Len(cmd) + 1
    BY <1>1, <1>2, <1>3
  <1> QED BY <1>1, <1>4 DEF s

\* The scan finds the texts between its operators that are more than blanks.
LEMMA ScanPieces ==
  ASSUME NEW cmd, IsSeq(cmd), NEW st, ScanTable(st, cmd)
  PROVE  LET In == DOMAIN cmd \ CutSet(cmd, st)
         IN  Balanced(cmd, In) /\ Scan(cmd) = Pieces(cmd, In)
  <1> DEFINE n == Len(cmd)
             C == CutSet(cmd, st)
             In == DOMAIN cmd \ C
  <1>1. n \in Nat /\ DOMAIN cmd = 1..n
    BY DEF IsSeq
  <1>5. Collected(cmd, st, n)
    BY <1>1, CollectedAll
  <1> DEFINE s == st[n]
  <1>6. /\ s.from \in 1..n + 2
        /\ s.from = n + 2 <=> n > 0 /\ Doubles(cmd, st, n)
        /\ s.from > 1 => s.from - 1 \in C
        /\ \A j \in s.from..n : j \in In
        /\ Balanced(cmd, In \cap (1..s.from - 1))
        /\ s.members = Pieces(cmd, In \cap (1..s.from - 1))
    <2> HIDE DEF In, n
    <2> QED BY <1>5 DEF Collected, In
  <1>7. ~Doubles(cmd, st, n)
    <2>1. OperatorLength(cmd, n) = 2 => n < n
      BY OperatorLengths DEF NextIs
    <2> QED BY <1>1, <2>1 DEF Doubles
  <1>8. s.from \in 1..n + 1
    BY <1>1, <1>6, <1>7
  <1>9. s.from - 1 \notin In
    BY <1>1, <1>6, <1>8
  <1>10. In \in SUBSET (1..n) /\ In \cap (1..n) = In /\ n \in 0..n
    BY <1>1
  <1>11. /\ Balanced(cmd, In \cap (1..n))
         /\ Collect(cmd, s, n) = Pieces(cmd, In \cap (1..n))
    <2> HIDE DEF In, s, C
    <2>1. s.from \in 1..n + 1 /\ n \in 0..Len(cmd) /\ In \in SUBSET (1..Len(cmd))
      BY <1>8, <1>10
    <2>2. /\ \A j \in s.from..n : j \in In
          /\ Balanced(cmd, In \cap (1..s.from - 1))
          /\ s.members = Pieces(cmd, In \cap (1..s.from - 1))
      BY <1>6
    <2> HIDE DEF n
    <2>3. Ready(cmd, In, s, n)
      BY <1>9, <2>1, <2>2 DEF Ready
    <2> QED BY <2>3, CollectPieces
  <1>12. Scan(cmd) = Collect(cmd, s, n)
    BY DEF ScanTable
  <1> HIDE DEF In
  <1>13. Balanced(cmd, In) /\ Scan(cmd) = Pieces(cmd, In)
    BY <1>10, <1>11, <1>12
  <1> QED BY <1>13 DEF In

-----------------------------------------------------------------------------
(* Where the operators are.                                                  *)

\* The quote that is open after c, if now is open before it.
NextQuote(now, c) ==
    IF now = "none" /\ c \in Quotes THEN c ELSE IF now = c THEN "none" ELSE now

\* What is open is a quote or none.
LEMMA NextQuoteType ==
  ASSUME NEW now \in Quotes \cup {"none"}, NEW c
  PROVE  NextQuote(now, c) \in Quotes \cup {"none"}
  BY DEF NextQuote

\* The quotes open before each symbol and after the last.
QuotesOpen(open, cmd) ==
    /\ open \in Seq(Quotes \cup {"none"}) /\ Len(open) = Len(cmd) + 1 /\ open[1] = "none"
    /\ \A k \in 1..Len(cmd) : open[k + 1] = NextQuote(open[k], cmd[k])

\* OpenQuotes is that list.
LEMMA QuotesFold ==
  ASSUME NEW cmd, IsSeq(cmd)
  PROVE  QuotesOpen(OpenQuotes(cmd), cmd)
  <1> DEFINE n == Len(cmd)
             Q == Quotes \cup {"none"}
             X == Seq(Q) \ {<<>>}
             Put(open, c) == Append(open, NextQuote(open[Len(open)], c))
             step == [p \in X \X (1..n) |-> Put(p[1], cmd[p[2]])]
             Iter(f) == f = [P \in SUBSET DOMAIN cmd |-> IF P = {} THEN <<"none">> ELSE
                               LET m == Max(P) IN Put(f[P \ {m}], cmd[m])]
             g == CHOOSE f : Iter(f)
             r == [k \in 0..n |-> g[1..k]]
  <1>1. n \in Nat /\ DOMAIN cmd = 1..n
    BY DEF IsSeq
  <1>2. <<"none">> \in X
    OBVIOUS
  <1>3. ASSUME NEW open \in X, NEW c
        PROVE  Put(open, c) \in X /\ Len(Put(open, c)) = Len(open) + 1
    <2>1. open \in Seq(Q) /\ Len(open) \in 1..Len(open) /\ open[Len(open)] \in Q
      OBVIOUS
    <2> DEFINE next == NextQuote(open[Len(open)], c)
    <2>2. next \in Q
      BY <2>1, NextQuoteType
    <2> HIDE DEF Q, next
    <2>3. /\ Append(open, next) \in Seq(Q) /\ Len(Append(open, next)) = Len(open) + 1
          /\ Append(open, next) # <<>>
      BY <2>1, <2>2
    <2> QED BY <2>3 DEF next
  <1> HIDE DEF X, Put
  <1>4. step \in [X \X (1..n) -> X]
    BY <1>3
  <1>5. PICK f \in [SUBSET (1..n) -> X] : IsTable(f, n, <<"none">>, step)
    <2> HIDE DEF n, step
    <2> QED BY <1>1, <1>2, <1>4, FoldTable
  <1>6. Iter(f)
    BY <1>1, <1>5, MaxInside DEF IsTable
  <1>7. OpenQuotes(cmd) = g[1..n]
    BY <1>1 DEF OpenQuotes, FoldLeft, MapThenFoldSet, Put, NextQuote
  <1>8. Iter(g)
    BY <1>6
  <1> HIDE DEF g
  <1>9. g[1..0] = <<"none">>
    <2>1. 1..0 \in SUBSET (1..n) /\ 1..0 = {}
      OBVIOUS
    <2> QED BY <1>1, <1>8, <2>1
  <1>10. ASSUME NEW k \in 1..n PROVE g[1..k] = Put(g[1..k - 1], cmd[k])
    <2>1. /\ 1..k \in SUBSET (1..n) /\ 1..k # {}
          /\ Max(1..k) = k /\ (1..k) \ {k} = 1..k - 1
      BY <1>1, IntervalStep
    <2> QED BY <1>1, <1>8, <2>1
  <1>11. r[0] = <<"none">> /\ r[n] = OpenQuotes(cmd)
    BY <1>1, <1>7, <1>9
  <1>12. \A k \in 1..n : r[k] = Put(r[k - 1], cmd[k])
    BY <1>1, <1>10
  <1> HIDE DEF r
  <1> DEFINE Fine(k) == /\ r[k] \in X /\ Len(r[k]) = k + 1 /\ r[k][1] = "none"
                        /\ \A j \in 1..k : r[k][j + 1] = NextQuote(r[k][j], cmd[j])
             In == {k \in 0..n : Fine(k)}
  <1>13. 0 \in In
    <2>1. \A e : e = <<"none">> => Len(e) = 0 + 1 /\ e[1] = "none"
      OBVIOUS
    <2> QED BY <1>1, <1>2, <1>11, <2>1
  <1>14. ASSUME NEW k \in 1..n, k - 1 \in In PROVE k \in In
    <2> DEFINE o == r[k - 1]
               next == NextQuote(o[Len(o)], cmd[k])
    <2>1. /\ o \in X /\ Len(o) = k /\ o[1] = "none"
          /\ \A j \in 1..k - 1 : o[j + 1] = NextQuote(o[j], cmd[j])
      BY <1>14
    <2>2. r[k] = Append(o, next)
      BY <1>12 DEF Put
    <2>3. r[k] \in X /\ Len(r[k]) = k + 1
      BY <1>3, <1>12, <2>1
    <2>4. o \in Seq(Q)
      BY <2>1 DEF X
    <2>5. k \in Nat \ {0}
      OBVIOUS
    <2> HIDE DEF o, next, Q
    <2>6. r[k][k + 1] = next /\ \A j \in 1..k : r[k][j] = o[j]
      BY <2>1, <2>2, <2>4, <2>5
    <2>7. next = NextQuote(o[k], cmd[k])
      BY <2>1 DEF next
    <2>8. ASSUME NEW j \in 1..k PROVE r[k][j + 1] = NextQuote(r[k][j], cmd[j])
      <3>1. CASE j = k
        BY <2>5, <2>6, <2>7, <3>1
      <3>2. CASE j # k
        <4>1. j \in 1..k - 1 /\ j + 1 \in 1..k
          BY <2>5, <3>2
        <4> QED BY <2>1, <2>6, <4>1
      <3> QED BY <3>1, <3>2
    <2>9. r[k][1] = "none"
      BY <2>1, <2>5, <2>6
    <2>10. k \in 0..n
      BY <1>1
    <2> QED BY <2>3, <2>8, <2>9, <2>10
  <1>15. \A k \in 0..n : k \in In
    <2> HIDE DEF In, n
    <2> QED BY <1>1, <1>13, <1>14, InductionUpTo
  <1>16. n \in In
    BY <1>1, <1>15
  <1> QED BY <1>11, <1>16 DEF QuotesOpen, X

\* A part occurs where its symbols follow each other.
LEMMA OccursAt ==
  ASSUME NEW T, NEW part \in Seq(T), NEW s \in Seq(T), Len(part) > 0,
         NEW i \in 0..Len(s) - Len(part), \A j \in 1..Len(part) : s[i + j] = part[j]
  PROVE  Occurs(part, s)
  <1> DEFINE m == Len(part)
             n == Len(s)
             sub == SubSeq(s, i + 1, i + m)
  <1>1. m \in Nat \ {0} /\ n \in Nat
    OBVIOUS
  <1>2. i \in Nat /\ i + 1 \in Nat \ {0} /\ i + m \in 0..n /\ i + 1 <= i + m
    BY <1>1
  <1>3. /\ sub \in Seq(T) /\ Len(sub) = (i + m) - (i + 1) + 1
        /\ \A j \in 1..(i + m) - (i + 1) + 1 : sub[j] = s[i + 1 + j - 1]
    BY <1>2, SubSeqType
  <1>4. (i + m) - (i + 1) + 1 = m /\ \A j \in 1..m : i + 1 + j - 1 = i + j
    BY <1>1, <1>2
  <1>5. sub \in Seq(T) /\ Len(sub) = m /\ \A j \in 1..m : sub[j] = s[i + j]
    BY <1>3, <1>4
  <1> HIDE DEF sub
  <1>6. sub = part
    BY <1>5, SameElements
  <1> QED BY <1>6 DEF Occurs, sub

\* What a text without substitutions does not have.
LEMMA NoSubstitution ==
  ASSUME NEW cmd, IsSeq(cmd), ~Substitutes(cmd), NEW i \in 1..Len(cmd)
  PROVE  cmd[i] # Tick /\ ~(cmd[i] = "$" /\ NextIs(cmd, i, "("))
  <1> DEFINE T == ToSet(cmd) \cup {Tick, "$", "("}
             n == Len(cmd)
  <1>1. n \in Nat /\ cmd \in Seq(T) /\ i \in 1..n
    <2>1. cmd \in Seq(ToSet(cmd))
      BY DEF IsSeq
    <2> QED BY <2>1
  <1>2. \A e : e = <<Tick>> => e \in Seq(T) /\ Len(e) = 1 /\ e[1] = Tick
    OBVIOUS
  <1>3. \A e : e = <<"$", "(">> => e \in Seq(T) /\ Len(e) = 2 /\ e[1] = "$" /\ e[2] = "("
    OBVIOUS
  <1> HIDE DEF T
  <1>4. ASSUME cmd[i] = Tick PROVE FALSE
    <2>1. PICK e : e = <<Tick>>
      OBVIOUS
    <2>2. i - 1 \in 0..Len(cmd) - Len(e) /\ \A j \in 1..Len(e) : cmd[(i - 1) + j] = e[j]
      BY <1>1, <1>2, <1>4, <2>1
    <2>3. e \in Seq(T) /\ cmd \in Seq(T) /\ Len(e) > 0
      BY <1>1, <1>2, <2>1
    <2>4. Occurs(e, cmd)
      BY <2>2, <2>3, OccursAt
    <2> QED BY <2>1, <2>4 DEF Substitutes
  <1>5. ASSUME cmd[i] = "$", NextIs(cmd, i, "(") PROVE FALSE
    <2>1. PICK e : e = <<"$", "(">>
      OBVIOUS
    <2>2. i < n /\ cmd[i + 1] = "("
      BY <1>5 DEF NextIs
    <2>3. /\ i - 1 \in 0..Len(cmd) - Len(e)
          /\ cmd[i - 1 + 1] = "$" /\ cmd[i - 1 + 2] = "("
      BY <1>1, <1>3, <1>5, <2>1, <2>2
    <2>4. \A j \in 1..Len(e) : cmd[(i - 1) + j] = e[j]
      <3>1. \A j \in 1..2 : j = 1 \/ j = 2
        OBVIOUS
      <3> QED BY <1>3, <2>1, <2>3, <3>1
    <2>5. e \in Seq(T) /\ cmd \in Seq(T) /\ Len(e) > 0
      BY <1>1, <1>3, <2>1
    <2>6. Occurs(e, cmd)
      BY <2>3, <2>4, <2>5, OccursAt
    <2> QED BY <2>1, <2>6 DEF Substitutes
  <1> QED BY <1>4, <1>5

\* What a turn makes of symbol c that ends no command, where nothing is substituted.
PlainNext(s, c, t) ==
    /\ t.tick = FALSE /\ t.dollar = 0 /\ t.skip = FALSE
    /\ s.skip => t.quote = s.quote /\ t.paren = s.paren
    /\ ~s.skip => /\ t.quote = NextQuote(s.quote, c)
                  /\ t.paren = IF c \in Parens /\ s.quote = "none"
                               THEN s.paren + Level(c) ELSE s.paren

\* Without substitutions a turn that cuts nothing off does no more than that.
LEMMA PlainTurn ==
  ASSUME NEW T, NEW cmd \in Seq(T), NEW s \in States(T), NEW i \in 1..Len(cmd),
         ~Cuts(cmd, s, i), s.tick = FALSE, s.dollar = 0,
         cmd[i] # Tick, ~(cmd[i] = "$" /\ NextIs(cmd, i, "("))
  PROVE  PlainNext(s, cmd[i], Consume(cmd, s, i))
  <1> USE DEF PlainNext
  <1> DEFINE c == cmd[i]
             t == Consume(cmd, s, i)
  <1>1. s.quote \in Quotes \cup {"none"} /\ s.skip \in BOOLEAN
    BY DEF States
  <1>0. ~s.tick
    OBVIOUS
  <1>2. CASE s.skip
    <2>1. t = [s EXCEPT !.skip = FALSE]
      BY <1>2 DEF Consume
    <2> HIDE DEF t
    <2>2. t.tick = FALSE /\ t.dollar = 0 /\ t.skip = FALSE /\ t.quote = s.quote /\ t.paren = s.paren
      BY <2>1 DEF States
    <2> QED BY <1>2, <2>2 DEF t
  <1>3. CASE ~s.skip
    <2>0. s.skip = FALSE
      BY <1>1, <1>3
    <2>1. CASE c \in Quotes /\ s.quote \in {"none", c}
      <3>1. t = [s EXCEPT !.quote = IF s.quote = c THEN "none" ELSE c]
        <4>1. c # Tick /\ c # "$" /\ c \notin Parens /\ ~(OperatorLength(cmd, i) > 0)
          <5>1. c # Tick /\ c # "$" /\ c \notin Parens /\ c \notin Chain
            BY <2>1 DEF Quotes, Parens, Chain, Tick
          <5> QED BY <5>1, OperatorLengths
        <4> QED BY <1>0, <1>3, <2>1, <4>1 DEF Consume
      <3>2. c \notin Parens /\ NextQuote(s.quote, c) = IF s.quote = c THEN "none" ELSE c
        BY <2>1 DEF NextQuote, Quotes, Parens
      <3> HIDE DEF t
      <3>3. /\ t.tick = FALSE /\ t.dollar = 0 /\ t.skip = FALSE /\ t.paren = s.paren
            /\ t.quote = IF s.quote = c THEN "none" ELSE c
        BY <2>0, <3>1 DEF States
      <3> QED BY <1>3, <3>2, <3>3 DEF t
    <2>2. CASE c \in Parens /\ s.quote = "none"
      <3>1. c \notin Quotes /\ c # "$" /\ c # "none"
        BY <2>2 DEF Quotes, Parens
      <3>2. t = [s EXCEPT !.paren = s.paren + Level(c)]
        <4>1. ~(OperatorLength(cmd, i) > 0) /\ ~(s.dollar > 0)
          <5>1. c \notin Chain
            BY <2>2 DEF Parens, Chain
          <5>2. ~(OperatorLength(cmd, i) > 0)
            BY <5>1, OperatorLengths
          <5>3. ~(s.dollar > 0)
            OBVIOUS
          <5> QED BY <5>2, <5>3
        <4> QED BY <1>0, <1>3, <2>2, <3>1, <4>1 DEF Consume, Plain
      <3>3. NextQuote(s.quote, c) = s.quote
        BY <2>2, <3>1 DEF NextQuote
      <3> DEFINE paren == s.paren + Level(c)
      <3> HIDE DEF t, paren
      <3>4. /\ t.tick = FALSE /\ t.dollar = 0 /\ t.skip = FALSE /\ t.quote = s.quote
            /\ t.paren = paren
        BY <2>0, <3>2 DEF States, paren
      <3> QED BY <1>3, <2>2, <3>3, <3>4 DEF t, paren
    <2>3. CASE ~(c \in Quotes /\ s.quote \in {"none", c}) /\ ~(c \in Parens /\ s.quote = "none")
      <3>1. t = s
        BY <1>3, <2>3 DEF Consume, Cuts, Plain
      <3>2. NextQuote(s.quote, c) = s.quote
        <4>1. CASE s.quote = "none"
          BY <2>3, <4>1 DEF NextQuote
        <4>2. CASE s.quote # "none"
          BY <1>1, <2>3, <4>2 DEF NextQuote
        <4> QED BY <4>1, <4>2
      <3> QED BY <1>3, <2>0, <2>3, <3>1, <3>2
    <2> QED BY <2>1, <2>2, <2>3
  <1> QED BY <1>1, <1>2, <1>3

\* The symbols outside quotes, how deep in groups one is before position k, and
\* the run of "&" that ends at i.
Outside(cmd, open) == {p \in DOMAIN cmd : open[p] = "none" /\ open[p + 1] = "none"}
Passed(cmd, open, k, c) == {p \in Outside(cmd, open) : p < k /\ cmd[p] = c}
Depth(cmd, open, k) ==
    Cardinality(Passed(cmd, open, k, "(")) - Cardinality(Passed(cmd, open, k, ")"))
RunUpTo(cmd, i) == {p \in 1..i : \A r \in p..i : cmd[r] = "&"}

\* One more symbol passed.
LEMMA PassedStep ==
  ASSUME NEW cmd, IsSeq(cmd), NEW open, NEW k \in 1..Len(cmd), NEW c
  PROVE  /\ Cardinality(Passed(cmd, open, k, c)) \in Nat
         /\ Cardinality(Passed(cmd, open, k + 1, c)) =
              IF k \in Outside(cmd, open) /\ cmd[k] = c
              THEN Cardinality(Passed(cmd, open, k, c)) + 1
              ELSE Cardinality(Passed(cmd, open, k, c))
  <1> DEFINE P == Passed(cmd, open, k, c)
             N == Passed(cmd, open, k + 1, c)
  <1>1. Len(cmd) \in Nat /\ DOMAIN cmd = 1..Len(cmd)
    BY DEF IsSeq
  <1>2. IsFiniteSet(P)
    <2>1. P \subseteq 1..Len(cmd)
      BY <1>1 DEF Passed, Outside
    <2>2. IsFiniteSet(1..Len(cmd))
      BY <1>1, FS_Interval
    <2> QED BY <2>1, <2>2, FS_Subset
  <1>3. k \notin P
    BY <1>1 DEF Passed
  <1>4. N = IF k \in Outside(cmd, open) /\ cmd[k] = c THEN P \cup {k} ELSE P
    <2>1. \A p \in Outside(cmd, open) : p < k + 1 <=> p < k \/ p = k
      BY <1>1 DEF Outside
    <2> QED BY <1>1, <2>1 DEF Passed
  <1> HIDE DEF P, N
  <1>5. Cardinality(P) \in Nat /\ Cardinality(P \cup {k}) = Cardinality(P) + 1
    BY <1>2, <1>3, FS_CardinalityType, FS_AddElement
  <1> QED BY <1>4, <1>5 DEF P, N

\* The depth after a symbol.
LEMMA DepthStep ==
  ASSUME NEW cmd, IsSeq(cmd), NEW open, QuotesOpen(open, cmd), NEW k \in 1..Len(cmd)
  PROVE  /\ Depth(cmd, open, k) \in Int
         /\ Depth(cmd, open, k + 1) =
              IF cmd[k] \in Parens /\ open[k] = "none"
              THEN Depth(cmd, open, k) + Level(cmd[k]) ELSE Depth(cmd, open, k)
  <1> DEFINE here == k \in Outside(cmd, open)
             a == Cardinality(Passed(cmd, open, k, "("))
             b == Cardinality(Passed(cmd, open, k, ")"))
  <1>1. a \in Nat /\ Cardinality(Passed(cmd, open, k + 1, "(")) = IF here /\ cmd[k] = "(" THEN a + 1 ELSE a
    BY PassedStep
  <1>2. b \in Nat /\ Cardinality(Passed(cmd, open, k + 1, ")")) = IF here /\ cmd[k] = ")" THEN b + 1 ELSE b
    BY PassedStep
  <1>3. cmd[k] \in Parens => (here <=> open[k] = "none")
    <2>1. k \in DOMAIN cmd
      BY DEF IsSeq
    <2>2. cmd[k] \in Parens /\ open[k] = "none" => open[k + 1] = "none"
      <3>1. cmd[k] \in Parens => cmd[k] \notin Quotes /\ cmd[k] # "none"
        BY DEF Parens, Quotes
      <3>2. open[k + 1] = NextQuote(open[k], cmd[k])
        BY DEF QuotesOpen
      <3> QED BY <3>1, <3>2 DEF NextQuote
    <2> QED BY <2>1, <2>2 DEF Outside
  <1>4. /\ Depth(cmd, open, k) = a - b
        /\ Depth(cmd, open, k + 1) = (IF here /\ cmd[k] = "(" THEN a + 1 ELSE a)
                                     - (IF here /\ cmd[k] = ")" THEN b + 1 ELSE b)
    BY <1>1, <1>2 DEF Depth
  <1> HIDE DEF a, b, here
  <1>5. CASE cmd[k] = "("
    <2>1. cmd[k] \in Parens /\ cmd[k] # ")" /\ Level(cmd[k]) = 1
      BY <1>5 DEF Parens, Level
    <2> QED BY <1>1, <1>2, <1>3, <1>4, <1>5, <2>1
  <1>6. CASE cmd[k] = ")"
    <2>1. cmd[k] \in Parens /\ cmd[k] # "(" /\ Level(cmd[k]) = -1
      BY <1>6 DEF Parens, Level
    <2> QED BY <1>1, <1>2, <1>3, <1>4, <1>6, <2>1
  <1>7. CASE cmd[k] # "(" /\ cmd[k] # ")"
    BY <1>1, <1>2, <1>4, <1>7 DEF Parens
  <1> QED BY <1>5, <1>6, <1>7

\* At the start one is in no group.
LEMMA DepthStart ==
  ASSUME NEW cmd, IsSeq(cmd), NEW open
  PROVE  Depth(cmd, open, 1) = 0
  <1>1. \A c : Passed(cmd, open, 1, c) = {}
    BY DEF Passed, Outside, IsSeq
  <1>2. Cardinality({}) = 0
    BY FS_EmptySet
  <1> QED BY <1>1, <1>2 DEF Depth

\* The run of "&" that ends at a position.
LEMMA RunStep ==
  ASSUME NEW cmd, IsSeq(cmd), NEW k \in 1..Len(cmd)
  PROVE  /\ Cardinality(RunUpTo(cmd, k - 1)) \in Nat
         /\ Cardinality(RunUpTo(cmd, k)) =
               IF cmd[k] = "&" THEN Cardinality(RunUpTo(cmd, k - 1)) + 1 ELSE 0
         /\ k = 1 \/ cmd[k - 1] # "&" => Cardinality(RunUpTo(cmd, k - 1)) = 0
  <1> DEFINE R == RunUpTo(cmd, k - 1)
  <1>1. k \in Nat \ {0} /\ k - 1 \in Nat
    OBVIOUS
  <1>2. IsFiniteSet(R) /\ k \notin R
    <2>1. R \subseteq 1..k - 1
      BY DEF RunUpTo
    <2>2. IsFiniteSet(1..k - 1)
      BY <1>1, FS_Interval
    <2>3. k \notin 1..k - 1
      BY <1>1
    <2> HIDE DEF R
    <2> QED BY <2>1, <2>2, <2>3, FS_Subset
  <1>3. ASSUME cmd[k] = "&"
        PROVE  Cardinality(R) \in Nat /\ Cardinality(RunUpTo(cmd, k)) = Cardinality(R) + 1
    <2>1. RunUpTo(cmd, k) = R \cup {k}
      <3>1. ASSUME NEW p \in 1..k - 1
            PROVE  (\A r \in p..k : cmd[r] = "&") <=> \A r \in p..k - 1 : cmd[r] = "&"
        <4>1. \A r \in p..k : r \in p..k - 1 \/ r = k
          BY <1>1
        <4>2. \A r \in p..k - 1 : r \in p..k
          BY <1>1
        <4> QED BY <1>3, <4>1, <4>2
      <3>2. \A r \in k..k : r = k
        BY <1>1
      <3>3. 1..k = (1..k - 1) \cup {k}
        BY <1>1
      <3> QED BY <1>3, <3>1, <3>2, <3>3 DEF RunUpTo
    <2> HIDE DEF R
    <2>2. Cardinality(R) \in Nat /\ Cardinality(R \cup {k}) = Cardinality(R) + 1
      BY <1>2, FS_CardinalityType, FS_AddElement
    <2> QED BY <2>1, <2>2
  <1>4. ASSUME cmd[k] # "&"
        PROVE  Cardinality(R) \in Nat /\ Cardinality(RunUpTo(cmd, k)) = 0
    <2>1. RunUpTo(cmd, k) = {}
      <3>1. \A p \in 1..k : k \in p..k
        BY <1>1
      <3> QED BY <1>4, <3>1 DEF RunUpTo
    <2>2. Cardinality({}) = 0
      BY FS_EmptySet
    <2> HIDE DEF R
    <2>3. Cardinality(R) \in Nat
      BY <1>2, FS_CardinalityType
    <2> QED BY <2>1, <2>2, <2>3
  <1>5. ASSUME k = 1 \/ cmd[k - 1] # "&" PROVE Cardinality(R) = 0
    <2>1. R = {}
      <3>1. \A p \in 1..k - 1 : k - 1 \in p..k - 1 /\ k # 1
        BY <1>1
      <3> QED BY <1>5, <3>1 DEF RunUpTo
    <2>2. Cardinality({}) = 0
      BY FS_EmptySet
    <2> QED BY <2>1, <2>2
  <1> QED BY <1>3, <1>4, <1>5

\* Odd and even take turns.
LEMMA Parity == \A x \in Nat : (x % 2 = 0 \/ x % 2 = 1) /\ ((x + 1) % 2 = 0 <=> x % 2 = 1)
  OBVIOUS

\* A run of "&" of odd length ends at position i.
OddRun(cmd, i) == Cardinality(RunUpTo(cmd, i)) % 2 = 1

\* One more "&" makes an odd run even and an even one odd.
LEMMA OddRunStep ==
  ASSUME NEW cmd, IsSeq(cmd), NEW k \in 1..Len(cmd), cmd[k] = "&"
  PROVE  OddRun(cmd, k) <=> k = 1 \/ cmd[k - 1] # "&" \/ ~OddRun(cmd, k - 1)
  <1> DEFINE a == Cardinality(RunUpTo(cmd, k - 1))
             b == Cardinality(RunUpTo(cmd, k))
  <1>1. a \in Nat /\ b = a + 1 /\ (k = 1 \/ cmd[k - 1] # "&" => a = 0)
    BY RunStep
  <1> HIDE DEF a, b
  <1>2. b % 2 = 1 <=> a % 2 # 1
    BY <1>1, Parity
  <1>3. a = 0 => a % 2 # 1
    OBVIOUS
  <1> QED BY <1>1, <1>2, <1>3 DEF OddRun, a, b

\* The scan knows the quote and the depth, and skips the second of two.
Aligned(cmd, open, st, k) ==
    LET s == st[k]
    IN  /\ s.tick = FALSE /\ s.dollar = 0
        /\ s.quote = open[k + 1] /\ s.paren = Depth(cmd, open, k + 1)
        /\ s.skip <=> k > 0 /\ Doubles(cmd, st, k)
        /\ s.skip => /\ k > 0 /\ cmd[k] \in {"&", "|"} /\ NextIs(cmd, k, cmd[k])
                     /\ s.quote = "none" /\ s.paren = 0
        /\ k > 0 /\ cmd[k] = "&" /\ s.quote = "none" /\ s.paren = 0
              => (s.skip <=> NextIs(cmd, k, "&") /\ OddRun(cmd, k))

\* The symbols that matter to the depth and to the quotes are no operators.
LEMMA ChainApart ==
  ASSUME NEW c \in Chain
  PROVE  c \notin Quotes /\ c \notin Parens /\ c # "none" /\ c # Tick /\ c # "$"
  BY DEF Chain, Quotes, Parens, Tick

\* The scan starts as the shell does.
LEMMA AlignedStart ==
  ASSUME NEW cmd, IsSeq(cmd), NEW open, QuotesOpen(open, cmd), NEW st, ScanTable(st, cmd)
  PROVE  Aligned(cmd, open, st, 0)
  <1>1. st[0] = ScanStart
    BY DEF ScanTable
  <1>2. /\ st[0].tick = FALSE /\ st[0].dollar = 0 /\ st[0].quote = "none"
        /\ st[0].paren = 0 /\ st[0].skip = FALSE
    BY <1>1 DEF ScanStart
  <1>3. open[0 + 1] = "none" /\ Depth(cmd, open, 0 + 1) = 0
    BY DepthStart DEF QuotesOpen
  <1>4. ~(0 > 0)
    OBVIOUS
  <1>5. ~st[0].skip
    BY <1>2, Zenon
  <1> QED BY <1>2, <1>3, <1>4, <1>5 DEF Aligned

\* What is skipped is the second of two, or an "&" after an odd run.
LEMMA AlignedSkip ==
  ASSUME NEW cmd, IsSeq(cmd), NEW open, QuotesOpen(open, cmd), NEW st,
         NEW k \in 1..Len(cmd), Aligned(cmd, open, st, k - 1)
  PROVE  LET s == st[k - 1]
         IN  /\ s.skip => cmd[k] \in {"&", "|"} /\ s.quote = "none" /\ s.paren = 0
             /\ cmd[k] = "&" /\ s.quote = "none" /\ s.paren = 0 => (s.skip <=> ~OddRun(cmd, k))
  <1> DEFINE s == st[k - 1]
             j == k - 1
  <1>1. k \in Nat \ {0} /\ j \in Nat /\ j + 1 = k /\ (j > 0 <=> k # 1)
    OBVIOUS
  <1>2. /\ s.quote = open[j + 1] /\ s.paren = Depth(cmd, open, j + 1)
        /\ s.skip => /\ j > 0 /\ cmd[j] \in {"&", "|"} /\ NextIs(cmd, j, cmd[j])
                     /\ s.quote = "none" /\ s.paren = 0
        /\ j > 0 /\ cmd[j] = "&" /\ s.quote = "none" /\ s.paren = 0
              => (s.skip <=> NextIs(cmd, j, "&") /\ OddRun(cmd, j))
    BY DEF Aligned
  <1>3. \A c : NextIs(cmd, j, c) <=> cmd[k] = c
    <2>1. j < Len(cmd)
      OBVIOUS
    <2> QED BY <1>1, <2>1 DEF NextIs
  <1> HIDE DEF s
  <1>4. s.skip => cmd[k] \in {"&", "|"} /\ cmd[k] = cmd[j] /\ j > 0 /\ s.quote = "none" /\ s.paren = 0
    BY <1>2, <1>3
  <1>5. ASSUME cmd[k] = "&", s.quote = "none", s.paren = 0 PROVE s.skip <=> ~OddRun(cmd, k)
    <2>1. OddRun(cmd, k) <=> k = 1 \/ cmd[j] # "&" \/ ~OddRun(cmd, j)
      BY <1>5, OddRunStep
    <2>2. CASE j > 0 /\ cmd[j] = "&"
      <3>1. k # 1
        BY <1>1, <2>2
      <3> HIDE DEF j
      <3> QED BY <1>2, <1>3, <1>5, <2>1, <2>2, <3>1
    <2>3. CASE ~(j > 0 /\ cmd[j] = "&")
      <3>1. k = 1 \/ cmd[j] # "&"
        BY <1>1, <2>3
      <3> HIDE DEF j
      <3>2. ~s.skip
        BY <1>4, <1>5, <2>3
      <3> QED BY <2>1, <3>1, <3>2
    <2> QED BY <2>2, <2>3
  <1> HIDE DEF j
  <1> QED BY <1>4, <1>5 DEF s, j

\* And each turn keeps it so, where there are no substitutions.
LEMMA AlignedTurn ==
  ASSUME NEW cmd, IsSeq(cmd), ~Substitutes(cmd), NEW open, QuotesOpen(open, cmd),
         NEW st, ScanTable(st, cmd), NEW k \in 1..Len(cmd), Aligned(cmd, open, st, k - 1)
  PROVE  Aligned(cmd, open, st, k)
  <1> DEFINE T == ToSet(cmd)
             s == st[k - 1]
             t == st[k]
             c == cmd[k]
  <1>1. cmd \in Seq(T) /\ k \in Nat \ {0} /\ (k - 1) + 1 = k /\ k - 1 \in 0..Len(cmd) /\ k > 0
    BY DEF IsSeq
  <1>2. s \in States(T) /\ t = Consume(cmd, s, k)
    BY <1>1 DEF ScanTable
  <1>3. s.tick = FALSE /\ s.dollar = 0 /\ s.quote = open[k] /\ s.paren = Depth(cmd, open, k)
    BY <1>1 DEF Aligned
  <1>4. /\ open[k + 1] = NextQuote(open[k], c)
        /\ Depth(cmd, open, k + 1) = IF c \in Parens /\ open[k] = "none"
              THEN Depth(cmd, open, k) + Level(c) ELSE Depth(cmd, open, k)
    BY DepthStep DEF QuotesOpen
  <1>5. /\ s.skip => c \in {"&", "|"} /\ s.quote = "none" /\ s.paren = 0
        /\ c = "&" /\ s.quote = "none" /\ s.paren = 0 => (s.skip <=> ~OddRun(cmd, k))
    BY AlignedSkip
  <1>6. s.quote \in Quotes \cup {"none"}
    BY <1>2 DEF States
  <1>7. c \in Chain => open[k + 1] = s.quote /\ Depth(cmd, open, k + 1) = s.paren
    <2> SUFFICES ASSUME c \in Chain PROVE open[k + 1] = s.quote /\ Depth(cmd, open, k + 1) = s.paren
      OBVIOUS
    <2>1. c \notin Quotes /\ c \notin Parens /\ c # "none"
      BY ChainApart
    <2>2. c # open[k]
      BY <1>3, <1>6, <2>1
    <2> HIDE DEF c
    <2> QED BY <1>3, <1>4, <2>1, <2>2 DEF NextQuote
  <1> HIDE DEF s, t
  <1>8. CASE Cuts(cmd, s, k)
    <2>1. c \in Chain /\ ~s.skip /\ s.quote = "none" /\ s.paren = 0
      BY <1>8, OperatorLengths DEF Cuts, Plain
    <2>2. /\ t.quote = s.quote /\ t.tick = s.tick /\ t.dollar = s.dollar /\ t.paren = s.paren
          /\ t.skip <=> OperatorLength(cmd, k) = 2
      BY <1>1, <1>2, <1>8, CutTurn
    <2>3. OperatorLength(cmd, k) = 2 <=> c \in {"&", "|"} /\ NextIs(cmd, k, c)
      BY OperatorLengths
    <2>4. Doubles(cmd, st, k) <=> OperatorLength(cmd, k) = 2
      BY <1>8 DEF Doubles, s
    <2> DEFINE twice == OperatorLength(cmd, k) = 2
    <2> HIDE DEF c, twice
    <2>5. t.tick = FALSE /\ t.dollar = 0 /\ t.quote = open[k + 1] /\ t.paren = Depth(cmd, open, k + 1)
      BY <1>3, <1>7, <2>1, <2>2
    <2>6. t.skip <=> k > 0 /\ Doubles(cmd, st, k)
      BY <1>1, <2>2, <2>4
    <2>7. t.skip => k > 0 /\ c \in {"&", "|"} /\ NextIs(cmd, k, c) /\ t.quote = "none" /\ t.paren = 0
      BY <1>1, <2>1, <2>2, <2>3
    <2>8. c = "&" => (t.skip <=> NextIs(cmd, k, "&") /\ OddRun(cmd, k))
      BY <1>5, <2>1, <2>2, <2>3
    <2> QED BY <2>5, <2>6, <2>7, <2>8 DEF Aligned, t, c
  <1>9. CASE ~Cuts(cmd, s, k)
    <2>1. c # Tick /\ ~(c = "$" /\ NextIs(cmd, k, "("))
      BY NoSubstitution
    <2>2. /\ t.tick = FALSE /\ t.dollar = 0 /\ t.skip = FALSE
          /\ s.skip => t.quote = s.quote /\ t.paren = s.paren
          /\ ~s.skip => /\ t.quote = NextQuote(s.quote, c)
                        /\ t.paren = IF c \in Parens /\ s.quote = "none"
                                     THEN s.paren + Level(c) ELSE s.paren
      <3> HIDE DEF T
      <3>1. PlainNext(s, c, Consume(cmd, s, k))
        BY <1>1, <1>2, <1>3, <1>9, <2>1, PlainTurn
      <3>2. PlainNext(s, c, t)
        BY <1>2, <3>1
      <3> HIDE DEF c
      <3> QED BY <3>2 DEF PlainNext
    <2>3. ~t.skip
      BY <2>2, Zenon
    <2>4. ~Doubles(cmd, st, k)
      BY <1>9 DEF Doubles, s
    <2>5. s.skip => c \in Chain
      BY <1>5 DEF Chain
    <2> HIDE DEF c
    <2>6. t.quote = open[k + 1] /\ t.paren = Depth(cmd, open, k + 1)
      BY <1>3, <1>4, <1>7, <2>2, <2>5
    <2>7. ASSUME c = "&", t.quote = "none", t.paren = 0
          PROVE  ~(NextIs(cmd, k, "&") /\ OddRun(cmd, k))
      <3>1. c \in Chain
        BY <2>7 DEF Chain
      <3>2. s.quote = "none" /\ s.paren = 0
        BY <1>7, <2>6, <2>7, <3>1
      <3>3. CASE s.skip
        BY <1>5, <2>7, <3>2, <3>3
      <3>4. CASE ~s.skip
        <4>1. Plain(s)
          <5>1. ~s.tick
            BY <1>3, Zenon
          <5> QED BY <1>3, <3>2, <5>1 DEF Plain
        <4>2. ~(OperatorLength(cmd, k) > 0)
          BY <1>9, <3>2, <3>4, <4>1 DEF Cuts
        <4>3. ~(OperatorLength(cmd, k) = 2)
          BY <4>2
        <4>4. c \in {"&", "|"}
          BY <2>7
        <4> QED BY <2>7, <4>3, <4>4, OperatorLengths DEF c
      <3> QED BY <3>3, <3>4
    <2> QED BY <2>2, <2>3, <2>4, <2>6, <2>7 DEF Aligned, t, c
  <1> QED BY <1>8, <1>9

\* Separates, by the names of its parts.
LEMMA SeparatesParts ==
  ASSUME NEW cmd, NEW open, NEW i
  PROVE  Separates(cmd, open, i) <=>
           /\ i \in Outside(cmd, open) /\ Depth(cmd, open, i) = 0 /\ cmd[i] \in Chain
           /\ cmd[i] = "&" /\ ~NextIs(cmd, i, "&") => Cardinality(RunUpTo(cmd, i)) % 2 = 0
  BY DEF Separates, Outside, Depth, Passed, RunUpTo

\* So it holds at every position.
LEMMA AlignedAll ==
  ASSUME NEW cmd, IsSeq(cmd), ~Substitutes(cmd), NEW open, QuotesOpen(open, cmd),
         NEW st, ScanTable(st, cmd)
  PROVE  \A k \in 0..Len(cmd) : Aligned(cmd, open, st, k)
  <1> DEFINE n == Len(cmd)
             Fine == {k \in 0..n : Aligned(cmd, open, st, k)}
  <1>1. n \in Nat
    BY DEF IsSeq
  <1>2. 0 \in Fine
    BY <1>1, AlignedStart
  <1>3. ASSUME NEW k \in 1..n, k - 1 \in Fine PROVE k \in Fine
    <2>1. Aligned(cmd, open, st, k - 1) /\ k \in 0..n
      BY <1>1, <1>3
    <2>2. Aligned(cmd, open, st, k)
      BY <2>1, AlignedTurn
    <2> QED BY <2>1, <2>2
  <1>4. \A k \in 0..n : k \in Fine
    <2> HIDE DEF Fine, n
    <2> QED BY <1>1, <1>2, <1>3, InductionUpTo
  <1> QED BY <1>4

\* Without substitutions, the scan cuts where the operators separate.
LEMMA CutsSeparate ==
  ASSUME NEW cmd, IsSeq(cmd), ~Substitutes(cmd), NEW open, QuotesOpen(open, cmd),
         NEW st, ScanTable(st, cmd), NEW i \in DOMAIN cmd
  PROVE  i \in CutSet(cmd, st) <=> Separates(cmd, open, i)
  <1> DEFINE s == st[i - 1]
             c == cmd[i]
  <1>1. /\ cmd \in Seq(ToSet(cmd)) /\ i \in 1..Len(cmd) /\ i - 1 \in 0..Len(cmd)
        /\ (i - 1) + 1 = i /\ (i > 1 <=> i - 1 > 0)
    BY DEF IsSeq
  <1>2. Aligned(cmd, open, st, i - 1)
    BY <1>1, AlignedAll
  <1>3. /\ s.tick = FALSE /\ s.dollar = 0 /\ s.quote = open[i] /\ s.paren = Depth(cmd, open, i)
        /\ s.skip <=> i - 1 > 0 /\ Doubles(cmd, st, i - 1)
    BY <1>1, <1>2 DEF Aligned
  <1>4. /\ s.skip => c \in {"&", "|"} /\ s.quote = "none" /\ s.paren = 0
        /\ c = "&" /\ s.quote = "none" /\ s.paren = 0 => (s.skip <=> ~OddRun(cmd, i))
    BY <1>1, <1>2, AlignedSkip
  <1>5. i \in CutSet(cmd, st) <=> Cuts(cmd, s, i) \/ s.skip
    BY <1>1, <1>3 DEF CutSet
  <1>6. Cuts(cmd, s, i) <=> ~s.skip /\ s.quote = "none" /\ s.paren = 0 /\ OperatorLength(cmd, i) > 0
    <2>1. ~s.tick
      BY <1>3, Zenon
    <2> QED BY <1>3, <2>1 DEF Cuts, Plain
  <1>7. OperatorLength(cmd, i) > 0 <=> c \in Chain /\ ~(c = "&" /\ ~NextIs(cmd, i, "&"))
    <2>1. OperatorLength(cmd, i) > 0 <=> \/ c \in {"&", "|"} /\ NextIs(cmd, i, c)
                                         \/ c = ";"
                                         \/ c = "|" /\ ~NextIs(cmd, i, "|")
      <3>1. OperatorLength(cmd, i) > 0 <=> OperatorLength(cmd, i) = 1 \/ OperatorLength(cmd, i) = 2
        <4>1. OperatorLength(cmd, i) \in {0, 1, 2}
          BY OperatorLengths
        <4> QED BY <4>1
      <3> QED BY <3>1, OperatorLengths
    <2> HIDE DEF c
    <2> QED BY <2>1 DEF Chain
  <1>8. c \in Chain => (i \in Outside(cmd, open) <=> s.quote = "none")
    <2>1. c \in Chain => c \notin Quotes /\ c # "none"
      BY ChainApart
    <2>2. open[i + 1] = NextQuote(open[i], c)
      BY <1>1 DEF QuotesOpen
    <2> HIDE DEF c, s
    <2>3. c \in Chain /\ open[i] = "none" => open[i + 1] = "none"
      BY <2>1, <2>2 DEF NextQuote
    <2> QED BY <1>3, <2>3 DEF Outside
  <1>9. Separates(cmd, open, i) <=>
           /\ c \in Chain /\ s.quote = "none" /\ s.paren = 0
           /\ c = "&" /\ ~NextIs(cmd, i, "&") => ~OddRun(cmd, i)
    <2>1. Cardinality(RunUpTo(cmd, i)) % 2 = 0 <=> ~OddRun(cmd, i)
      <3>1. Cardinality(RunUpTo(cmd, i)) \in Nat
        <4>1. Cardinality(RunUpTo(cmd, i - 1)) \in Nat
          BY <1>1, RunStep
        <4>2. Cardinality(RunUpTo(cmd, i)) =
                IF cmd[i] = "&" THEN Cardinality(RunUpTo(cmd, i - 1)) + 1 ELSE 0
          BY <1>1, RunStep
        <4> QED BY <4>1, <4>2
      <3> QED BY <3>1, Parity DEF OddRun
    <2> HIDE DEF s
    <2> QED BY <1>3, <1>8, <2>1, SeparatesParts
  <1>10. c \in {"&", "|"} => c \in Chain
    BY DEF Chain
  <1> HIDE DEF c, s
  <1> QED BY <1>4, <1>5, <1>6, <1>7, <1>9, <1>10

\* The commands are the pieces between the separators.
LEMMA CommandsArePieces ==
  ASSUME NEW cmd, IsSeq(cmd), NEW In, Balanced(cmd, In),
         In = {i \in DOMAIN cmd : ~Separates(cmd, OpenQuotes(cmd), i)}
  PROVE  Commands(cmd) = Pieces(cmd, In)
  <1> DEFINE texts == PartTexts(cmd, In)
             T == Seq(ToSet(cmd))
  <1>1. Commands(cmd) = Among(texts, ToSet(texts) \ {<<>>})
    BY DEF Commands, PartTexts
  <1>2. texts \in Seq(T)
    BY PartTextsType
  <1> HIDE DEF texts, T
  <1>3. \A k \in 1..Len(texts) : texts[k] \in ToSet(texts) \ {<<>>} <=> texts[k] \in T \ {<<>>}
    BY <1>2 DEF ToSet
  <1> QED BY <1>1, <1>2, <1>3, AmongSame DEF Pieces, texts, T

\* Without substitutions, the scan finds the commands.
LEMMA ScanCommands ==
  ASSUME NEW cmd, IsSeq(cmd), ~Substitutes(cmd)
  PROVE  Scan(cmd) = Commands(cmd)
  <1> DEFINE open == OpenQuotes(cmd)
  <1>1. PICK st : ScanTable(st, cmd)
    BY ScanFold
  <1>2. QuotesOpen(open, cmd)
    BY QuotesFold
  <1> DEFINE In == DOMAIN cmd \ CutSet(cmd, st)
  <1>3. Balanced(cmd, In) /\ Scan(cmd) = Pieces(cmd, In)
    BY <1>1, ScanPieces
  <1>4. \A i \in DOMAIN cmd : i \in CutSet(cmd, st) <=> Separates(cmd, open, i)
    <2> HIDE DEF open
    <2> QED BY <1>1, <1>2, CutsSeparate
  <1>5. In = {i \in DOMAIN cmd : ~Separates(cmd, open, i)}
    BY <1>4
  <1> HIDE DEF In
  <1>6. Commands(cmd) = Pieces(cmd, In)
    BY <1>3, <1>5, CommandsArePieces
  <1> QED BY <1>3, <1>6

-----------------------------------------------------------------------------
(* What is kept of a text that is put together from others.                  *)

\* Appending goes through a concatenation.
LEMMA ConcatAppend ==
  ASSUME NEW T, NEW a \in Seq(T), NEW b \in Seq(T), NEW x \in T
  PROVE  a \o Append(b, x) = Append(a \o b, x)
  OBVIOUS

\* Nothing is put before or after.
LEMMA ConcatNone ==
  ASSUME NEW T, NEW a \in Seq(T)
  PROVE  a \o <<>> = a /\ <<>> \o a = a
  OBVIOUS

\* In which order texts are put together does not matter.
LEMMA ConcatTwice ==
  ASSUME NEW T, NEW a \in Seq(T), NEW b \in Seq(T), NEW c \in Seq(T)
  PROVE  (a \o b) \o c = a \o (b \o c)
  OBVIOUS

\* The symbols of a concatenation.
LEMMA ConcatType ==
  ASSUME NEW T, NEW a \in Seq(T), NEW b \in Seq(T)
  PROVE  /\ a \o b \in Seq(T) /\ Len(a \o b) = Len(a) + Len(b)
         /\ \A i \in 1..Len(a) : (a \o b)[i] = a[i]
         /\ \A i \in 1..Len(b) : (a \o b)[Len(a) + i] = b[i]
  OBVIOUS

\* What is kept of two texts, one after the other.
LEMMA AmongConcat ==
  ASSUME NEW T, NEW a \in Seq(T), NEW b \in Seq(T), NEW S
  PROVE  Among(a \o b, S) = Among(a, S) \o Among(b, S)
  <1> DEFINE m == Len(a)
             n == Len(b)
             c == a \o b
  <1>1. m \in Nat /\ n \in Nat
    OBVIOUS
  <1>2. /\ c \in Seq(T) /\ Len(c) = m + n
        /\ \A i \in 1..m : c[i] = a[i]
        /\ \A i \in 1..n : c[m + i] = b[i]
    BY ConcatType
  <1>3. PICK f : AmongTable(f, T, a, S)
    BY AmongFold
  <1>4. PICK g : AmongTable(g, T, b, S)
    BY AmongFold
  <1> HIDE DEF c
  <1>5. PICK h : AmongTable(h, T, c, S)
    BY <1>2, AmongFold
  <1>6. /\ f \in [0..m -> Seq(T)] /\ f[0] = <<>> /\ f[m] = Among(a, S)
        /\ \A k \in 1..m : f[k] = IF a[k] \in S THEN Append(f[k - 1], a[k]) ELSE f[k - 1]
    BY <1>3 DEF AmongTable
  <1>7. /\ g \in [0..n -> Seq(T)] /\ g[0] = <<>> /\ g[n] = Among(b, S)
        /\ \A k \in 1..n : g[k] = IF b[k] \in S THEN Append(g[k - 1], b[k]) ELSE g[k - 1]
    BY <1>4 DEF AmongTable
  <1>8. /\ h[0] = <<>> /\ h[m + n] = Among(c, S)
        /\ \A k \in 1..m + n : h[k] = IF c[k] \in S THEN Append(h[k - 1], c[k]) ELSE h[k - 1]
    BY <1>2, <1>5 DEF AmongTable
  <1> HIDE DEF m, n
  <1>9. h[m] = f[m]
    <2> DEFINE In == {k \in 0..m : h[k] = f[k]}
    <2>1. 0 \in In
      BY <1>1, <1>6, <1>8
    <2>2. ASSUME NEW k \in 1..m, k - 1 \in In PROVE k \in In
      <3>1. k \in 1..m + n /\ k \in 0..m /\ h[k - 1] = f[k - 1] /\ c[k] = a[k]
        BY <1>1, <1>2, <2>2
      <3> QED BY <1>6, <1>8, <3>1
    <2>3. \A k \in 0..m : k \in In
      <3> HIDE DEF In
      <3> QED BY <1>1, <2>1, <2>2, InductionUpTo
    <2>4. m \in 0..m
      BY <1>1
    <2> QED BY <2>3, <2>4
  <1>10. h[m + n] = f[m] \o g[n]
    <2> DEFINE In == {k \in 0..n : h[m + k] = f[m] \o g[k]}
    <2>1. f[m] \in Seq(T) /\ \A k \in 0..n : g[k] \in Seq(T)
      <3>1. m \in 0..m /\ f \in [0..m -> Seq(T)] /\ g \in [0..n -> Seq(T)]
        BY <1>1, <1>6, <1>7
      <3> QED BY <3>1
    <2>2. 0 \in In
      <3>1. h[m + 0] = f[m] /\ 0 \in 0..n
        BY <1>1, <1>9
      <3>2. f[m] \o <<>> = f[m]
        BY <2>1, ConcatNone
      <3> QED BY <1>7, <3>1, <3>2
    <2>3. ASSUME NEW k \in 1..n, k - 1 \in In PROVE k \in In
      <3>1. /\ m + k \in 1..m + n /\ (m + k) - 1 = m + (k - 1) /\ k \in 0..n /\ k - 1 \in 0..n
            /\ c[m + k] = b[k]
        BY <1>1, <1>2
      <3>2. h[m + (k - 1)] = f[m] \o g[k - 1]
        BY <2>3
      <3>3. h[m + k] = IF b[k] \in S THEN Append(f[m] \o g[k - 1], b[k]) ELSE f[m] \o g[k - 1]
        BY <1>8, <3>1, <3>2
      <3>4. b[k] \in T /\ g[k - 1] \in Seq(T)
        BY <2>1, <3>1 DEF n
      <3>5. f[m] \o Append(g[k - 1], b[k]) = Append(f[m] \o g[k - 1], b[k])
        <4> DEFINE p == f[m]
                   q == g[k - 1]
                   e == b[k]
        <4>1. p \in Seq(T) /\ q \in Seq(T) /\ e \in T
          BY <2>1, <3>4
        <4> HIDE DEF p, q, e
        <4>2. p \o Append(q, e) = Append(p \o q, e)
          BY <4>1, ConcatAppend
        <4> QED BY <4>2 DEF p, q, e
      <3>6. h[m + k] = f[m] \o g[k]
        BY <1>7, <3>3, <3>5
      <3> QED BY <3>1, <3>6
    <2>4. \A k \in 0..n : k \in In
      <3> HIDE DEF In
      <3> QED BY <1>1, <2>2, <2>3, InductionUpTo
    <2>5. n \in 0..n
      BY <1>1
    <2> QED BY <2>4, <2>5
  <1> QED BY <1>6, <1>7, <1>8, <1>10 DEF c

\* Nothing is kept of what is not to be kept.
LEMMA AmongNothing ==
  ASSUME NEW T, NEW s \in Seq(T), NEW S, \A k \in 1..Len(s) : s[k] \notin S
  PROVE  Among(s, S) = <<>>
  <1> DEFINE n == Len(s)
  <1>1. n \in Nat
    OBVIOUS
  <1>2. PICK f : AmongTable(f, T, s, S)
    BY AmongFold
  <1>3. /\ f[0] = <<>> /\ f[n] = Among(s, S)
        /\ \A k \in 1..n : f[k] = f[k - 1]
    BY <1>2 DEF AmongTable
  <1> DEFINE In == {k \in 0..n : f[k] = <<>>}
  <1> HIDE DEF n
  <1>4. 0 \in In
    BY <1>1, <1>3
  <1>5. ASSUME NEW k \in 1..n, k - 1 \in In PROVE k \in In
    BY <1>1, <1>3, <1>5
  <1>6. \A k \in 0..n : k \in In
    <2> HIDE DEF In
    <2> QED BY <1>1, <1>4, <1>5, InductionUpTo
  <1>7. n \in In
    BY <1>1, <1>6
  <1> QED BY <1>3, <1>7

\* A text cut in two.
LEMMA CutInTwo ==
  ASSUME NEW T, NEW s \in Seq(T), NEW a \in Nat \ {0}, NEW b \in 0..Len(s), NEW j \in a - 1..b
  PROVE  SubSeq(s, a, b) = SubSeq(s, a, j) \o SubSeq(s, j + 1, b)
  <1> DEFINE l == SubSeq(s, a, j)
             r == SubSeq(s, j + 1, b)
             w == SubSeq(s, a, b)
  <1>1. /\ j \in Nat /\ j + 1 \in Nat \ {0} /\ j \in 0..Len(s) /\ Len(s) \in Nat /\ b \in Nat
        /\ a - 1 <= j /\ j <= b
    OBVIOUS
  <1>2. /\ l \in Seq(T) /\ Len(l) = j - a + 1 /\ \A i \in 1..j - a + 1 : l[i] = s[a + i - 1]
    <2>1. \A e : e = <<>> => Len(e) = 0
      OBVIOUS
    <2>2. /\ l \in Seq(T) /\ (a <= j => Len(l) = j - a + 1) /\ (a > j => l = <<>>)
          /\ \A i \in 1..j - a + 1 : l[i] = s[a + i - 1]
      BY <1>1, SubSeqType
    <2> HIDE DEF l
    <2> QED BY <1>1, <2>1, <2>2
  <1>3. /\ r \in Seq(T) /\ Len(r) = b - j /\ \A i \in 1..b - j : r[i] = s[j + i]
    <2>1. \A e : e = <<>> => Len(e) = 0
      OBVIOUS
    <2>2. /\ r \in Seq(T) /\ (j + 1 <= b => Len(r) = b - (j + 1) + 1) /\ (j + 1 > b => r = <<>>)
          /\ \A i \in 1..b - (j + 1) + 1 : r[i] = s[j + 1 + i - 1]
      BY <1>1, SubSeqType
    <2>3. b - (j + 1) + 1 = b - j /\ \A i \in Int : j + 1 + i - 1 = j + i
      BY <1>1
    <2> HIDE DEF r
    <2> QED BY <1>1, <2>1, <2>2, <2>3
  <1>4. /\ w \in Seq(T) /\ Len(w) = b - a + 1 /\ \A i \in 1..b - a + 1 : w[i] = s[a + i - 1]
    <2>1. \A e : e = <<>> => Len(e) = 0
      OBVIOUS
    <2>2. /\ w \in Seq(T) /\ (a <= b => Len(w) = b - a + 1) /\ (a > b => w = <<>>)
          /\ \A i \in 1..b - a + 1 : w[i] = s[a + i - 1]
      BY SubSeqType
    <2> HIDE DEF w
    <2> QED BY <1>1, <2>1, <2>2
  <1> HIDE DEF l, r, w
  <1>5. /\ l \o r \in Seq(T) /\ Len(l \o r) = Len(l) + Len(r)
        /\ \A i \in 1..Len(l) : (l \o r)[i] = l[i]
        /\ \A i \in 1..Len(r) : (l \o r)[Len(l) + i] = r[i]
    <2>1. l \in Seq(T) /\ r \in Seq(T)
      BY <1>2, <1>3
    <2> QED BY <2>1, ConcatType
  <1>6. Len(w) = Len(l \o r)
    BY <1>1, <1>2, <1>3, <1>4, <1>5
  <1>7. ASSUME NEW i \in 1..Len(w) PROVE w[i] = (l \o r)[i]
    <2>1. i \in Nat \ {0} /\ i <= b - a + 1 /\ w[i] = s[a + i - 1]
      BY <1>1, <1>4
    <2>2. CASE i <= j - a + 1
      <3>1. i \in 1..j - a + 1
        BY <1>1, <2>1, <2>2
      <3> QED BY <1>2, <1>5, <2>1, <3>1
    <2>3. CASE i > j - a + 1
      <3> DEFINE x == i - (j - a + 1)
      <3>1. x \in 1..b - j /\ Len(l) + x = i /\ j + x = a + i - 1
        BY <1>1, <1>2, <2>1, <2>3
      <3> HIDE DEF x
      <3>2. (l \o r)[Len(l) + x] = r[x] /\ r[x] = s[j + x]
        BY <1>3, <1>5, <3>1
      <3> QED BY <2>1, <3>1, <3>2
    <2>4. i <= j - a + 1 \/ i > j - a + 1
      BY <1>1, <2>1
    <2> QED BY <2>2, <2>3, <2>4
  <1>8. w = l \o r
    BY <1>4, <1>5, <1>6, <1>7, SameElements
  <1> QED BY <1>8 DEF w, l, r

\* Blanks at the ends do not count where blanks are not kept.
LEMMA AmongStrip ==
  ASSUME NEW T, NEW s \in Seq(T), NEW S, Blank \notin S
  PROVE  Among(Strip(s), S) = Among(s, S)
  <1>1. Len(s) \in Nat
    OBVIOUS
  <1>2. CASE (\A i \in 1..Len(s) : s[i] = Blank) /\ Strip(s) = <<>>
    <2>1. Among(s, S) = <<>>
      BY <1>2, AmongNothing
    <2> QED BY <1>2, <2>1, AmongEmpty
  <1>3. ASSUME NEW a \in 1..Len(s), NEW b \in 1..Len(s), a <= b,
               \A i \in 1..Len(s) : s[i] # Blank => a <= i /\ i <= b, Strip(s) = SubSeq(s, a, b)
        PROVE  Among(Strip(s), S) = Among(s, S)
    <2> DEFINE n == Len(s)
               x == SubSeq(s, 1, a - 1)
               y == SubSeq(s, a, b)
               z == SubSeq(s, b + 1, n)
               w == SubSeq(s, a, n)
    <2>1. a \in Nat \ {0} /\ b \in Nat \ {0} /\ a <= n /\ b <= n /\ (a - 1) + 1 = a
      BY <1>1
    <2>2. s = SubSeq(s, 1, n)
      <3>1. SubSeq(s, 1, n) \in Seq(T) /\ Len(SubSeq(s, 1, n)) = n
            /\ \A i \in 1..n : SubSeq(s, 1, n)[i] = s[i]
        OBVIOUS
      <3> QED BY <3>1, SameElements
    <2>3. SubSeq(s, 1, n) = x \o w
      <3>1. a - 1 \in 1 - 1..n /\ n \in 0..Len(s) /\ 1 \in Nat \ {0}
        BY <1>1, <2>1
      <3>2. SubSeq(s, 1, n) = SubSeq(s, 1, a - 1) \o SubSeq(s, (a - 1) + 1, n)
        BY <3>1, CutInTwo
      <3> QED BY <2>1, <3>2
    <2>4. w = y \o z
      <3>1. b \in a - 1..n /\ n \in 0..Len(s)
        BY <1>1, <1>3, <2>1
      <3> QED BY <2>1, <3>1, CutInTwo
    <2>5. /\ x \in Seq(T) /\ Len(x) = a - 1 /\ \A i \in 1..a - 1 : x[i] = s[i]
      BY <1>1, <2>1
    <2>6. /\ z \in Seq(T) /\ Len(z) = n - b /\ \A i \in 1..n - b : z[i] = s[b + i]
      BY <1>1, <2>1
    <2>7. y \in Seq(T)
      BY <1>1, <2>1
    <2>8. Among(x, S) = <<>>
      <3>1. \A i \in 1..a - 1 : s[i] = Blank
        BY <1>1, <1>3, <2>1
      <3> HIDE DEF x
      <3> QED BY <2>5, <3>1, AmongNothing
    <2>9. Among(z, S) = <<>>
      <3>1. \A i \in 1..n - b : b + i \in 1..Len(s) /\ ~(b + i <= b)
        BY <1>1, <2>1
      <3>2. \A i \in 1..n - b : s[b + i] = Blank
        BY <1>3, <3>1
      <3> HIDE DEF z
      <3> QED BY <2>6, <3>2, AmongNothing
    <2> HIDE DEF x, y, z, w
    <2>10. Among(w, S) = Among(y, S) /\ w \in Seq(T)
      <3>1. Among(w, S) = Among(y, S) \o Among(z, S) /\ w \in Seq(T)
        <4>1. y \in Seq(T) /\ z \in Seq(T)
          BY <2>6, <2>7
        <4>2. Among(y \o z, S) = Among(y, S) \o Among(z, S)
          BY <4>1, AmongConcat
        <4>3. y \o z \in Seq(T)
          BY <4>1, ConcatType
        <4> QED BY <2>4, <4>2, <4>3
      <3>2. Among(y, S) \in Seq(T)
        BY <2>7, AmongType
      <3> QED BY <2>9, <3>1, <3>2, ConcatNone
    <2>11. Among(s, S) = Among(w, S)
      <3>1. Among(x \o w, S) = Among(x, S) \o Among(w, S)
        BY <2>5, <2>10, AmongConcat
      <3>2. Among(w, S) \in Seq(T)
        BY <2>10, AmongType
      <3> QED BY <2>2, <2>3, <2>8, <3>1, <3>2, ConcatNone
    <2> QED BY <1>3, <2>10, <2>11 DEF y
  <1>4. \/ (\A i \in 1..Len(s) : s[i] = Blank) /\ Strip(s) = <<>>
        \/ \E a, b \in 1..Len(s) :
              /\ a <= b /\ s[a] # Blank /\ s[b] # Blank
              /\ \A i \in 1..Len(s) : s[i] # Blank => a <= i /\ i <= b
              /\ Strip(s) = SubSeq(s, a, b)
    BY StripFacts
  <1> QED BY <1>2, <1>3, <1>4

-----------------------------------------------------------------------------
(* Texts put together.                                                       *)

\* f holds what the first so many texts are together.
FlatTable(f, T, seqs) ==
    /\ f[0] = <<>> /\ FlattenSeq(seqs) = f[Len(seqs)]
    /\ \A k \in 0..Len(seqs) : f[k] \in Seq(T)
    /\ \A k \in 1..Len(seqs) : f[k] = f[k - 1] \o seqs[k]

\* FlattenSeq puts texts together one after the other.
LEMMA FlatFold ==
  ASSUME NEW T, NEW seqs \in Seq(Seq(T))
  PROVE  \E f : FlatTable(f, T, seqs)
  <1> DEFINE n == Len(seqs)
             X == Seq(T)
             step == [p \in X \X (1..n) |-> p[1] \o seqs[p[2]]]
             Iter(f) == f = [i \in 1..n |-> IF i = 1 THEN seqs[i] ELSE f[i - 1] \o seqs[i]]
             h == CHOOSE f : Iter(f)
             r == [k \in 0..n |-> IF k = 0 THEN <<>> ELSE h[k]]
  <1>1. n \in Nat /\ \A k \in 1..n : seqs[k] \in X
    OBVIOUS
  <1>2. <<>> \in X
    <2>1. \A e : e = <<>> => e \in Seq(T)
      OBVIOUS
    <2> QED BY <2>1
  <1>3. \A a, b \in X : a \o b \in X
    OBVIOUS
  <1>4. step \in [X \X (1..n) -> X]
    <2> HIDE DEF X, n
    <2> QED BY <1>1, <1>3
  <1>5. PICK g \in [SUBSET (1..n) -> X] : IsTable(g, n, <<>>, step)
    <2> HIDE DEF n, step, X
    <2> QED BY <1>1, <1>2, <1>4, FoldTable
  <1>6. g[1..0] = <<>>
    <2>1. 1..0 \in SUBSET (1..n) /\ 1..0 = {}
      OBVIOUS
    <2> QED BY <1>5, <2>1 DEF IsTable
  <1>7. ASSUME NEW k \in 1..n PROVE g[1..k] = g[1..k - 1] \o seqs[k]
    <2>1. /\ 1..k \in SUBSET (1..n) /\ 1..k # {}
          /\ Max(1..k) = k /\ (1..k) \ {k} = 1..k - 1
      BY <1>1, IntervalStep
    <2>2. g[1..k] = step[<<g[1..k - 1], k>>]
      BY <1>5, <2>1 DEF IsTable
    <2>3. 1..k - 1 \in SUBSET (1..n)
      BY <1>1
    <2>4. g[1..k - 1] \in X
      BY <1>5, <2>3
    <2> HIDE DEF X, n
    <2> QED BY <2>2, <2>4
  <1>8. \E f : Iter(f)
    <2> DEFINE f == [i \in 1..n |-> g[1..i]]
    <2>1. ASSUME NEW i \in 1..n PROVE f[i] = IF i = 1 THEN seqs[i] ELSE f[i - 1] \o seqs[i]
      <3>1. f[i] = g[1..i - 1] \o seqs[i]
        BY <1>7
      <3>2. CASE i = 1
        <4>1. i - 1 = 0 /\ seqs[i] \in Seq(T)
          BY <1>1, <3>2
        <4> HIDE DEF f, n
        <4> QED BY <1>6, <3>1, <3>2, <4>1, ConcatNone
      <3>3. CASE i # 1
        <4>1. i - 1 \in 1..n
          BY <1>1, <3>3
        <4>2. f[i - 1] = g[1..i - 1]
          BY <4>1
        <4> HIDE DEF f
        <4> QED BY <3>1, <3>3, <4>2
      <3> QED BY <3>2, <3>3
    <2>2. f = [i \in 1..n |-> f[i]]
      OBVIOUS
    <2> HIDE DEF f, n
    <2>3. Iter(f)
      BY <2>1, <2>2
    <2> QED BY <2>3
  <1>9. Iter(h)
    BY <1>8
  <1>10. n # 0 => FlattenSeq(seqs) = h[n]
    BY DEF FlattenSeq
  <1>11. n = 0 => FlattenSeq(seqs) = <<>>
    BY DEF FlattenSeq
  <1> HIDE DEF h
  <1>12. r[0] = <<>> /\ FlattenSeq(seqs) = r[n]
    <2>1. 0 \in 0..n /\ n \in 0..n
      BY <1>1
    <2> HIDE DEF n
    <2> QED BY <1>10, <1>11, <2>1
  <1>13. ASSUME NEW k \in 1..n PROVE r[k] = r[k - 1] \o seqs[k]
    <2>1. h[k] = IF k = 1 THEN seqs[k] ELSE h[k - 1] \o seqs[k]
      BY <1>9
    <2>2. k \in 0..n /\ k - 1 \in 0..n /\ k # 0 /\ (k = 1 <=> k - 1 = 0)
      BY <1>1
    <2>3. r[k] = h[k] /\ r[k - 1] = IF k = 1 THEN <<>> ELSE h[k - 1]
      BY <2>2
    <2>4. seqs[k] \in Seq(T)
      BY <1>1
    <2>5. <<>> \o seqs[k] = seqs[k]
      BY <2>4, ConcatNone
    <2> HIDE DEF r
    <2> QED BY <2>1, <2>3, <2>5
  <1> HIDE DEF r
  <1>14. \A k \in 0..n : r[k] \in X
    <2> DEFINE In == {k \in 0..n : r[k] \in X}
    <2> HIDE DEF X, n
    <2>1. 0 \in In
      BY <1>1, <1>2, <1>12
    <2>2. ASSUME NEW k \in 1..n, k - 1 \in In PROVE k \in In
      <3>1. k \in 0..n
        BY <1>1
      <3> QED BY <1>1, <1>3, <1>13, <2>2, <3>1
    <2>3. \A k \in 0..n : k \in In
      <3> HIDE DEF In
      <3> QED BY <1>1, <2>1, <2>2, InductionUpTo
    <2> QED BY <2>3
  <1>15. FlatTable(r, T, seqs)
    BY <1>12, <1>13, <1>14 DEF FlatTable
  <1> QED BY <1>15

\* One more text at the end.
LEMMA FlatAppend ==
  ASSUME NEW T, NEW seqs \in Seq(Seq(T)), NEW x \in Seq(T)
  PROVE  /\ FlattenSeq(seqs) \in Seq(T)
         /\ FlattenSeq(Append(seqs, x)) = FlattenSeq(seqs) \o x
  <1> DEFINE n == Len(seqs)
             t == Append(seqs, x)
             X == Seq(T)
  <1>1. /\ n \in Nat /\ t \in Seq(X) /\ Len(t) = n + 1 /\ t[n + 1] = x
        /\ \A k \in 1..n : t[k] = seqs[k]
    OBVIOUS
  <1> HIDE DEF t
  <1>2. PICK f : FlatTable(f, T, seqs)
    BY FlatFold
  <1>3. PICK h : FlatTable(h, T, t)
    BY <1>1, FlatFold
  <1>4. /\ f[0] = <<>> /\ FlattenSeq(seqs) = f[n] /\ \A k \in 0..n : f[k] \in Seq(T)
        /\ \A k \in 1..n : f[k] = f[k - 1] \o seqs[k]
    BY <1>2 DEF FlatTable
  <1>5. /\ h[0] = <<>> /\ FlattenSeq(t) = h[n + 1]
        /\ \A k \in 1..n + 1 : h[k] = h[k - 1] \o t[k]
    BY <1>1, <1>3 DEF FlatTable
  <1> DEFINE In == {k \in 0..n : h[k] = f[k]}
  <1> HIDE DEF n, X
  <1>6. 0 \in In
    BY <1>1, <1>4, <1>5
  <1>7. ASSUME NEW k \in 1..n, k - 1 \in In PROVE k \in In
    <2>1. k \in 1..n + 1 /\ k \in 0..n /\ h[k - 1] = f[k - 1] /\ t[k] = seqs[k]
      BY <1>1, <1>7
    <2> QED BY <1>4, <1>5, <2>1
  <1>8. \A k \in 0..n : k \in In
    <2> HIDE DEF In
    <2> QED BY <1>1, <1>6, <1>7, InductionUpTo
  <1>9. n \in 0..n /\ n + 1 \in 1..n + 1 /\ (n + 1) - 1 = n
    BY <1>1
  <1>10. h[n] = f[n]
    BY <1>8, <1>9
  <1>11. h[n + 1] = f[n] \o x
    BY <1>1, <1>5, <1>9, <1>10
  <1> QED BY <1>4, <1>5, <1>9, <1>11 DEF t

-----------------------------------------------------------------------------
(* Nothing is lost.                                                          *)

\* What is left of a text over T.
Solid(T) == T \ (Chain \cup {Blank})

\* The substance is what is neither blank nor operator, whatever the set the text is over.
LEMMA SubstanceIs ==
  ASSUME NEW T, NEW s \in Seq(T)
  PROVE  Substance(s) = Among(s, Solid(T))
  <1>1. \A k \in 1..Len(s) : s[k] \in ToSet(s) /\ s[k] \in T
    BY DEF ToSet
  <1>2. \A k \in 1..Len(s) : s[k] \in ToSet(s) \ (Chain \cup {Blank}) <=> s[k] \in Solid(T)
    BY <1>1 DEF Solid
  <1> QED BY <1>2, AmongSame DEF Substance

\* What has been collected is all that has been passed.
Keeps(cmd, U, s) ==
    Among(FlattenSeq(s.members), U) = Among(SubSeq(cmd, 1, s.from - 1), U)

\* Collecting a command keeps what is selected of it.
LEMMA CollectKeeps ==
  ASSUME NEW T, NEW cmd \in Seq(T), NEW U, Blank \notin U, NEW s \in States(T), Keeps(cmd, U, s),
         NEW to \in 0..Len(cmd), s.from - 1 <= to
  PROVE  Among(FlattenSeq(Collect(cmd, s, to)), U) = Among(SubSeq(cmd, 1, to), U)
  <1> DEFINE x == SubSeq(cmd, 1, s.from - 1)
             y == SubSeq(cmd, s.from, to)
             members == s.members
             text == Strip(y)
  <1>1. s.from \in Nat \ {0} /\ members \in Seq(Seq(T)) /\ Len(cmd) \in Nat
    BY DEF States
  <1>2. SubSeq(cmd, 1, to) = x \o y
    <2>1. s.from - 1 \in 1 - 1..to /\ (s.from - 1) + 1 = s.from /\ 1 \in Nat \ {0}
      BY <1>1
    <2>2. SubSeq(cmd, 1, to) = x \o SubSeq(cmd, (s.from - 1) + 1, to)
      BY <2>1, CutInTwo
    <2> QED BY <2>1, <2>2
  <1>3. x \in Seq(T) /\ y \in Seq(T)
    <2>1. s.from - 1 \in 0..Len(cmd) /\ 1 \in Nat \ {0}
      BY <1>1
    <2> QED BY <1>1, <2>1, SubSeqType
  <1>4. Collect(cmd, s, to) = IF text = <<>> THEN members ELSE Append(members, text)
    BY DEF Collect
  <1>5. Among(FlattenSeq(members), U) = Among(x, U)
    BY DEF Keeps
  <1> HIDE DEF x, y, members
  <1>6. text \in Seq(T) /\ Among(text, U) = Among(y, U)
    BY <1>3, StripType, AmongStrip
  <1> HIDE DEF text
  <1>7. Among(x \o y, U) = Among(x, U) \o Among(y, U)
    BY <1>3, AmongConcat
  <1>8. CASE text = <<>>
    <2>1. Among(y, U) = <<>>
      BY <1>6, <1>8, AmongEmpty
    <2>2. Among(x, U) \in Seq(T)
      BY <1>3, AmongType
    <2>3. Among(x, U) \o <<>> = Among(x, U)
      BY <2>2, ConcatNone
    <2> QED BY <1>2, <1>4, <1>5, <1>7, <1>8, <2>1, <2>3
  <1>9. CASE text # <<>>
    <2>1. FlattenSeq(members) \in Seq(T) /\ FlattenSeq(Append(members, text)) = FlattenSeq(members) \o text
      BY <1>1, <1>6, FlatAppend
    <2>2. Among(FlattenSeq(members) \o text, U) = Among(FlattenSeq(members), U) \o Among(text, U)
      BY <1>6, <2>1, AmongConcat
    <2> QED BY <1>2, <1>4, <1>5, <1>6, <1>7, <1>9, <2>1, <2>2
  <1> QED BY <1>8, <1>9

\* And so does each turn.
LEMMA KeepsTurn ==
  ASSUME NEW cmd, IsSeq(cmd), NEW st, ScanTable(st, cmd), NEW U, U \cap (Chain \cup {Blank}) = {},
         NEW k \in 1..Len(cmd), Keeps(cmd, U, st[k - 1])
  PROVE  Keeps(cmd, U, st[k])
  <1> DEFINE n == Len(cmd)
             T == ToSet(cmd)
             s == st[k - 1]
             t == st[k]
             w == OperatorLength(cmd, k)
  <1>1. /\ n \in Nat /\ DOMAIN cmd = 1..n /\ cmd \in Seq(T) /\ k \in Nat \ {0} /\ k <= n
        /\ k - 1 \in 0..n /\ (k - 1) + 2 = k + 1
    BY DEF IsSeq
  <1>2. s \in States(T) /\ t = Consume(cmd, s, k)
    BY <1>1 DEF ScanTable
  <1>3. s.from \in 1..k + 1 /\ (s.from = k + 1 => s.skip)
    BY <1>1, FromBound
  <1>4. Blank \notin U /\ \A c \in Chain : c \notin U
    OBVIOUS
  <1> HIDE DEF s, t, T
  <1>5. CASE Cuts(cmd, s, k)
    <2>1. t.members = Collect(cmd, s, k - 1) /\ t.from = k + w
      BY <1>1, <1>2, <1>5, CutTurn
    <2>2. ~s.skip /\ w > 0
      BY <1>5 DEF Cuts
    <2>3. w \in {1, 2} /\ cmd[k] \in Chain /\ (w = 2 => k < n /\ cmd[k + 1] = cmd[k])
      <3>1. /\ w \in {0, 1, 2} /\ (w > 0 => cmd[k] \in Chain)
            /\ w = 2 => NextIs(cmd, k, cmd[k])
        BY OperatorLengths
      <3> HIDE DEF w
      <3> QED BY <2>2, <3>1 DEF NextIs
    <2> HIDE DEF w
    <2>4. s.from - 1 <= k - 1
      BY <1>1, <1>3, <2>2
    <2>5. Among(FlattenSeq(t.members), U) = Among(SubSeq(cmd, 1, k - 1), U)
      <3>1. Keeps(cmd, U, s)
        BY DEF s
      <3>2. Among(FlattenSeq(Collect(cmd, s, k - 1)), U) = Among(SubSeq(cmd, 1, k - 1), U)
        BY <1>1, <1>2, <1>4, <2>4, <3>1, CollectKeeps
      <3> QED BY <2>1, <3>2
    <2> DEFINE to == k + w - 1
               x == SubSeq(cmd, 1, k - 1)
               y == SubSeq(cmd, k, to)
    <2>6. to \in k..n /\ to = t.from - 1 /\ to - k + 1 = w /\ to \in 0..n
      BY <1>1, <2>1, <2>3
    <2>7. SubSeq(cmd, 1, to) = x \o y
      <3>1. k - 1 \in 1 - 1..to /\ (k - 1) + 1 = k /\ 1 \in Nat \ {0}
        BY <1>1, <2>6
      <3>2. cmd \in Seq(T) /\ to \in 0..Len(cmd)
        BY <1>1, <2>6
      <3> DEFINE j == k - 1
      <3> HIDE DEF to, j
      <3>3. j \in 1 - 1..to
        BY <3>1 DEF j
      <3>4. SubSeq(cmd, 1, to) = SubSeq(cmd, 1, j) \o SubSeq(cmd, j + 1, to)
        BY <3>1, <3>2, <3>3, CutInTwo
      <3> QED BY <3>1, <3>4 DEF j
    <2>8. x \in Seq(T)
      <3>1. 1 \in Nat \ {0}
        OBVIOUS
      <3> QED BY <1>1, <3>1, SubSeqType
    <2> HIDE DEF to
    <2>9. y \in Seq(T) /\ Len(y) = w /\ \A i \in 1..w : y[i] = cmd[k + i - 1]
      <3>1. k <= to
        BY <1>1, <2>6
      <3>2. y \in Seq(T) /\ Len(y) = to - k + 1 /\ \A i \in 1..to - k + 1 : y[i] = cmd[k + i - 1]
        BY <1>1, <2>6, <3>1, SubSeqType
      <3> QED BY <2>6, <3>2
    <2>10. \A i \in 1..w : cmd[k + i - 1] \in Chain
      <3>1. \A i \in 1..w : k + i - 1 = k \/ (w = 2 /\ k + i - 1 = k + 1)
        BY <1>1, <2>3
      <3> QED BY <2>3, <3>1
    <2> HIDE DEF x, y
    <2>11. Among(y, U) = <<>>
      <3>1. \A i \in 1..Len(y) : y[i] \notin U
        BY <1>4, <2>9, <2>10
      <3> QED BY <2>9, <3>1, AmongNothing
    <2>12. Among(x \o y, U) = Among(x, U) \o Among(y, U) /\ Among(x, U) \in Seq(T)
      <3>1. y \in Seq(T)
        BY <2>9
      <3>2. Among(x \o y, U) = Among(x, U) \o Among(y, U)
        BY <2>8, <3>1, AmongConcat
      <3> QED BY <2>8, <3>2, AmongType
    <2>13. Among(SubSeq(cmd, 1, to), U) = Among(x, U)
      BY <2>7, <2>11, <2>12, ConcatNone
    <2> QED BY <2>5, <2>6, <2>13 DEF Keeps, t, x
  <1>6. CASE ~Cuts(cmd, s, k)
    <2>1. t.from = s.from /\ t.members = s.members
      BY <1>1, <1>2, <1>6, OtherTurn
    <2> QED BY <2>1 DEF Keeps, s, t
  <1> QED BY <1>5, <1>6

\* What the scan finds is, put together, all of the text but blanks and operators.
LEMMA ScanKeeps ==
  ASSUME NEW cmd, IsSeq(cmd)
  PROVE  Scan(cmd) \in Seq(Seq(ToSet(cmd))) /\ Substance(FlattenSeq(Scan(cmd))) = Substance(cmd)
  <1> DEFINE n == Len(cmd)
             T == ToSet(cmd)
             U == Solid(T)
  <1>1. n \in Nat /\ cmd \in Seq(T)
    BY DEF IsSeq
  <1>2. PICK st : ScanTable(st, cmd)
    BY ScanFold
  <1>3. U \cap (Chain \cup {Blank}) = {} /\ Blank \notin U
    BY DEF Solid
  <1> HIDE DEF U, T
  <1> DEFINE Fine == {k \in 0..n : Keeps(cmd, U, st[k])}
  <1>4. 0 \in Fine
    <2>1. st[0].from = 1 /\ st[0].members = <<>>
      BY <1>2 DEF ScanTable, ScanStart
    <2>2. SubSeq(cmd, 1, 1 - 1) = <<>>
      <3>1. 0 \in 0..Len(cmd) /\ 1 \in Nat \ {0} /\ 1 - 1 = 0
        BY <1>1
      <3>2. 1 > 0
        OBVIOUS
      <3> QED BY <1>1, <3>1, <3>2, SubSeqType
    <2>3. \A e : e = <<>> => FlattenSeq(e) = e
      BY DEF FlattenSeq
    <2>4. Keeps(cmd, U, st[0])
      BY <2>1, <2>2, <2>3 DEF Keeps
    <2> QED BY <1>1, <2>4
  <1>5. ASSUME NEW k \in 1..n, k - 1 \in Fine PROVE k \in Fine
    <2>1. Keeps(cmd, U, st[k - 1]) /\ k \in 0..n
      BY <1>1, <1>5
    <2>2. Keeps(cmd, U, st[k])
      BY <1>2, <1>3, <2>1, KeepsTurn
    <2> QED BY <2>1, <2>2
  <1>6. \A k \in 0..n : k \in Fine
    <2> HIDE DEF Fine, n
    <2> QED BY <1>1, <1>4, <1>5, InductionUpTo
  <1> DEFINE s == st[n]
  <1>7. n \in 0..n
    BY <1>1
  <1>8. Keeps(cmd, U, s)
    BY <1>6, <1>7
  <1>9. s \in States(T) /\ Scan(cmd) = Collect(cmd, s, n)
    BY <1>2, <1>7 DEF ScanTable, T
  <1>10. s.from - 1 <= n
    <2>1. s.from \in 1..n + 2 /\ s.from <= n + 1
      BY <1>2, <1>7, FromBound
    <2> HIDE DEF s
    <2> QED BY <1>1, <2>1
  <1> HIDE DEF s, Fine
  <1>11. Among(FlattenSeq(Scan(cmd)), U) = Among(SubSeq(cmd, 1, n), U)
    BY <1>1, <1>3, <1>7, <1>8, <1>9, <1>10, CollectKeeps
  <1>12. SubSeq(cmd, 1, n) = cmd
    <2>1. /\ SubSeq(cmd, 1, n) \in Seq(T) /\ Len(SubSeq(cmd, 1, n)) = n
          /\ \A i \in 1..n : SubSeq(cmd, 1, n)[i] = cmd[i]
      BY <1>1
    <2> QED BY <1>1, <2>1, SameElements
  <1>13. Scan(cmd) \in Seq(Seq(T))
    BY <1>1, <1>7, <1>9, CollectType
  <1>14. FlattenSeq(Scan(cmd)) \in Seq(T)
    <2>1. \A e : e = <<>> => e \in Seq(T)
      OBVIOUS
    <2>2. PICK e \in Seq(T) : TRUE
      BY <2>1
    <2> QED BY <1>13, <2>2, FlatAppend
  <1>15. Substance(FlattenSeq(Scan(cmd))) = Substance(cmd)
    BY <1>1, <1>11, <1>12, <1>14, SubstanceIs DEF U
  <1> QED BY <1>13, <1>15 DEF T

-----------------------------------------------------------------------------
(* What the quick look passes is one command.                                *)

\* No operator comes after another, but for ";" after ";".
LEMMA ChainingApart ==
  ASSUME NEW cmd, IsSeq(cmd), ~HasChaining(cmd), NEW i \in 1..Len(cmd) - 1
  PROVE  /\ cmd[i] \in Chain => cmd[i + 1] \notin {"&", "|"}
         /\ cmd[i] \in {";", "|"} => cmd[i + 1] = cmd[i]
  <1>1. i \in DOMAIN cmd /\ i + 1 \in i + 1..Len(cmd) /\ \A r \in i + 1..(i + 1) - 1 : FALSE
    BY DEF IsSeq
  <1>2. i + 1 \in PastBlanks(cmd, i)
    BY <1>1 DEF PastBlanks
  <1> DEFINE q == i + 1
  <1> HIDE DEF q
  <1>3. q \in PastBlanks(cmd, i)
    BY <1>2 DEF q
  <1>4. ~(cmd[i] \in Chain /\ cmd[q] \in {"&", "|"})
    BY <1>1, <1>3 DEF HasChaining
  <1>5. ~(cmd[i] \in {";", "|"} /\ cmd[q] # cmd[i])
    BY <1>1, <1>3 DEF HasChaining
  <1> QED BY <1>4, <1>5 DEF q

\* Only a ";" separates there, and only with nothing but ";" after it.
LEMMA SeparatorsLast ==
  ASSUME NEW cmd, IsSeq(cmd), ~HasChaining(cmd), NEW open, QuotesOpen(open, cmd),
         NEW i \in 1..Len(cmd) - 1, Separates(cmd, open, i)
  PROVE  Separates(cmd, open, i + 1)
  <1>1. /\ Len(cmd) \in Nat /\ DOMAIN cmd = 1..Len(cmd)
        /\ i \in 1..Len(cmd) /\ i + 1 \in 1..Len(cmd) /\ i < Len(cmd)
    BY DEF IsSeq
  <1>2. /\ i \in Outside(cmd, open) /\ Depth(cmd, open, i) = 0 /\ cmd[i] \in Chain
        /\ cmd[i] = "&" /\ ~NextIs(cmd, i, "&") => Cardinality(RunUpTo(cmd, i)) % 2 = 0
    BY SeparatesParts
  <1>3. cmd[i + 1] \notin {"&", "|"} /\ (cmd[i] \in {";", "|"} => cmd[i + 1] = cmd[i])
    BY <1>2, ChainingApart
  <1>4. cmd[i] # "|"
    BY <1>3
  <1>5. ASSUME cmd[i] = "&" PROVE FALSE
    <2>1. ~NextIs(cmd, i, "&")
      BY <1>3 DEF NextIs
    <2>2. ~OddRun(cmd, i)
      <3>1. Cardinality(RunUpTo(cmd, i)) % 2 = 0
        BY <1>2, <1>5, <2>1
      <3> QED BY <3>1 DEF OddRun
    <2>3. i # 1 /\ cmd[i - 1] = "&"
      BY <1>1, <1>5, <2>2, OddRunStep
    <2>4. i - 1 \in 1..Len(cmd) - 1 /\ (i - 1) + 1 = i
      BY <1>1, <2>3
    <2>5. cmd[i - 1] \in Chain
      BY <2>3 DEF Chain
    <2>6. cmd[(i - 1) + 1] \notin {"&", "|"}
      BY <2>4, <2>5, ChainingApart
    <2> QED BY <1>5, <2>4, <2>6
  <1>6. cmd[i] = ";" /\ cmd[i + 1] = ";"
    BY <1>2, <1>3, <1>4, <1>5 DEF Chain
  <1>7. \A c : c = ";" => c \notin Parens /\ c \notin Quotes /\ c # "none" /\ c # "&" /\ c \in Chain
    BY DEF Parens, Quotes, Chain
  <1> DEFINE k == i + 1
  <1>8. k \in 1..Len(cmd) /\ open[k] = "none" /\ cmd[k] = ";"
    BY <1>1, <1>2, <1>6 DEF Outside
  <1>9. Depth(cmd, open, k) = 0
    BY <1>1, <1>2, <1>6, <1>7, DepthStep
  <1> HIDE DEF k
  <1>10. open[k + 1] = "none"
    <2>1. open[k + 1] = NextQuote(open[k], cmd[k])
      BY <1>8 DEF QuotesOpen
    <2> QED BY <1>7, <1>8, <2>1 DEF NextQuote
  <1>11. k \in Outside(cmd, open)
    BY <1>1, <1>8, <1>10 DEF Outside
  <1>12. cmd[k] # "&" /\ cmd[k] \in Chain
    BY <1>7, <1>8
  <1>13. Separates(cmd, open, k)
    BY <1>9, <1>11, <1>12, SeparatesParts
  <1> QED BY <1>13 DEF k

\* A set of positions that holds all before any of its own is an interval.
LEMMA DownIsInterval ==
  ASSUME NEW n \in Nat, NEW In \in SUBSET (1..n), \A i \in 1..n - 1 : i \notin In => i + 1 \notin In
  PROVE  \E m \in 0..n : In = 1..m
  <1> DEFINE Out == (1..n) \ In
  <1>1. CASE Out = {}
    <2>1. \A i \in 1..n : i \in In
      BY <1>1
    <2>2. In = 1..n
      BY <2>1
    <2>3. n \in 0..n
      OBVIOUS
    <2> QED BY <2>2, <2>3
  <1>2. CASE Out # {}
    <2>1. Out \subseteq Nat
      OBVIOUS
    <2>2. PICK x \in Out : \A y \in Out : x <= y
      BY <1>2, <2>1, LeastElement
    <2>3. x \in 1..n /\ x - 1 \in 0..n /\ n - x \in Nat
      OBVIOUS
    <2>4. \A i \in 1..x - 1 : i \in In
      <3> SUFFICES ASSUME NEW i \in 1..x - 1, i \notin In PROVE FALSE
        OBVIOUS
      <3>1. i \in Out /\ ~(x <= i)
        BY <2>3
      <3> QED BY <2>2, <3>1
    <2> DEFINE S == {d \in 0..n - x : x + d \notin In}
    <2>5. 0 \in S
      BY <2>3
    <2>6. ASSUME NEW d \in 1..n - x, d - 1 \in S PROVE d \in S
      <3>1. x + (d - 1) \in 1..n - 1 /\ (x + (d - 1)) + 1 = x + d /\ d \in 0..n - x
        BY <2>3
      <3>2. x + (d - 1) \notin In
        BY <2>6
      <3> QED BY <3>1, <3>2
    <2>7. \A d \in 0..n - x : d \in S
      <3> HIDE DEF S
      <3> QED BY <2>3, <2>5, <2>6, InductionUpTo
    <2>8. \A i \in x..n : i \notin In
      <3> TAKE i \in x..n
      <3>1. i - x \in 0..n - x /\ x + (i - x) = i
        BY <2>3
      <3> QED BY <2>7, <3>1
    <2>9. In = 1..x - 1
      <3>1. \A i \in In : i \in 1..n
        OBVIOUS
      <3>2. \A i \in 1..n : i \in 1..x - 1 \/ i \in x..n
        BY <2>3
      <3>3. \A i : i \in In <=> i \in 1..x - 1
        BY <2>4, <2>8, <3>1, <3>2
      <3> HIDE DEF Out
      <3> QED BY <3>3
    <2> QED BY <2>3, <2>9
  <1> QED BY <1>1, <1>2

\* A text that nothing separates, or only its end, is at most one command.
LEMMA IntervalCommand ==
  ASSUME NEW cmd, IsSeq(cmd), NEW m \in 0..Len(cmd),
         {i \in DOMAIN cmd : ~Separates(cmd, OpenQuotes(cmd), i)} = 1..m
  PROVE  Len(Commands(cmd)) <= 1
  <1> DEFINE In == {i \in DOMAIN cmd : ~Separates(cmd, OpenQuotes(cmd), i)}
  <1>1. In = 1..m /\ Len(cmd) \in Nat
    BY DEF IsSeq
  <1> HIDE DEF In
  <1>4. Balanced(cmd, {}) /\ Pieces(cmd, {}) = <<>>
    BY RunsNone, PiecesNone
  <1>5. Balanced(cmd, In) /\ Len(Pieces(cmd, In)) <= 1
    <2>1. CASE m = 0
      <3>1. In = {}
        BY <1>1, <2>1
      <3>2. \A e : e = <<>> => Len(e) <= 1
        OBVIOUS
      <3> QED BY <1>4, <3>1, <3>2
    <2>2. CASE m # 0
      <3> DEFINE text == Strip(SubSeq(cmd, 1, m))
      <3>1. 1 \in 1..Len(cmd) /\ m \in 1..Len(cmd) /\ {} \in SUBSET (1..1 - 2)
        BY <1>1, <2>2
      <3>2. {} \cup (1..m) = In
        BY <1>1
      <3>3. Balanced(cmd, {} \cup (1..m))
        BY <1>4, <3>1, RunsExtend
      <3>4. Pieces(cmd, {} \cup (1..m)) =
               IF text = <<>> THEN Pieces(cmd, {}) ELSE Append(Pieces(cmd, {}), text)
        BY <1>4, <3>1, PiecesExtend
      <3> HIDE DEF text
      <3>5. \A e : e = <<>> => Len(e) <= 1 /\ Len(Append(e, text)) <= 1
        OBVIOUS
      <3> QED BY <1>4, <3>2, <3>3, <3>4, <3>5
    <2> QED BY <2>1, <2>2
  <1>6. Commands(cmd) = Pieces(cmd, In)
    BY <1>5, CommandsArePieces DEF In
  <1> QED BY <1>5, <1>6

\* What the quick look passes is at most one command.
LEMMA SingleCommand ==
  ASSUME NEW cmd, IsSeq(cmd), ~HasChaining(cmd)
  PROVE  Len(Commands(cmd)) <= 1
  <1> DEFINE n == Len(cmd)
             open == OpenQuotes(cmd)
             In == {i \in DOMAIN cmd : ~Separates(cmd, open, i)}
  <1>1. n \in Nat /\ DOMAIN cmd = 1..n
    BY DEF IsSeq
  <1>2. QuotesOpen(open, cmd)
    BY QuotesFold
  <1>3. PICK m \in 0..n : In = 1..m
    <2>1. ASSUME NEW i \in 1..n - 1, i \notin In PROVE i + 1 \notin In
      <3>1. i \in DOMAIN cmd
        BY <1>1
      <3>2. Separates(cmd, open, i)
        BY <2>1, <3>1
      <3> HIDE DEF open
      <3>3. Separates(cmd, open, i + 1)
        BY <1>2, <3>2, SeparatorsLast
      <3> QED BY <3>3
    <2>2. In \in SUBSET (1..n)
      BY <1>1
    <2> HIDE DEF In, n
    <2> QED BY <1>1, <2>1, <2>2, DownIsInterval
  <1> QED BY <1>3, IntervalCommand

\* Whatever the text, if it is more than blanks.
LEMMA ParsedRight ==
  ASSUME NEW cmd, IsSeq(cmd), Strip(cmd) # <<>>
  PROVE  SplitRight(cmd)
  <1> DEFINE T == ToSet(cmd)
             text == Strip(cmd)
             parsed == ParseCommandChain(cmd)
  <1>1. cmd \in Seq(T)
    BY DEF IsSeq
  <1>2. parsed = IF HasChaining(cmd) /\ Scan(cmd) # <<>> THEN Scan(cmd) ELSE <<text>>
    BY DEF ParseCommandChain
  <1> HIDE DEF T, parsed
  <1>3. text \in Seq(T) /\ Substance(text) = Substance(cmd)
    <2>1. text \in Seq(T)
      BY <1>1, StripType
    <2> HIDE DEF text
    <2>2. Among(text, Solid(T)) = Among(cmd, Solid(T))
      <3>1. Blank \notin Solid(T)
        BY DEF Solid
      <3> QED BY <1>1, <3>1, AmongStrip DEF text
    <2> QED BY <1>1, <2>1, <2>2, SubstanceIs
  <1> HIDE DEF text
  <1>4. FlattenSeq(<<text>>) = text
    <2>1. \A e : e = <<>> => e \in Seq(Seq(T)) /\ Append(e, text) = <<text>>
      OBVIOUS
    <2>2. \A e : e = <<>> => FlattenSeq(e) = e
      BY DEF FlattenSeq
    <2>3. \A e : e = <<>> => FlattenSeq(Append(e, text)) = FlattenSeq(e) \o text
      BY <1>3, <2>1, FlatAppend
    <2>4. FlattenSeq(<<text>>) = <<>> \o text
      BY <2>1, <2>2, <2>3
    <2> QED BY <1>3, <2>4, ConcatNone
  <1>5. Substance(FlattenSeq(parsed)) = Substance(cmd)
    BY <1>2, <1>3, <1>4, ScanKeeps
  <1>6. ASSUME ~Substitutes(cmd), Len(parsed) > 1 \/ Len(Commands(cmd)) > 1
        PROVE  parsed = Commands(cmd)
    <2>1. \A e : e = <<text>> => ~(Len(e) > 1)
      OBVIOUS
    <2>2. CASE HasChaining(cmd)
      <3>1. Scan(cmd) = Commands(cmd)
        BY <1>6, ScanCommands
      <3>2. \A e : e = <<>> => ~(Len(e) > 1)
        OBVIOUS
      <3> QED BY <1>2, <1>6, <2>1, <2>2, <3>1, <3>2
    <2>3. CASE ~HasChaining(cmd)
      <3>1. Len(Commands(cmd)) <= 1
        BY <2>3, SingleCommand
      <3>2. Len(Commands(cmd)) \in Nat
        <4>1. Scan(cmd) = Commands(cmd) /\ Scan(cmd) \in Seq(Seq(ToSet(cmd)))
          BY <1>6, ScanCommands, ScanKeeps
        <4> QED BY <4>1
      <3>3. ~(Len(Commands(cmd)) > 1)
        BY <3>1, <3>2
      <3>4. parsed = <<text>>
        BY <1>2, <2>3
      <3> QED BY <1>6, <2>1, <3>3, <3>4
    <2> QED BY <2>2, <2>3
  <1> QED BY <1>5, <1>6 DEF SplitRight, parsed

-----------------------------------------------------------------------------
(* What the members of a chain are.                                          *)

\* x is the text between two operators, or an operator and an end.
Piece(cmd, C, x) ==
    \E a, b \in 1..Len(cmd) :
       /\ x = Strip(SubSeq(cmd, a, b)) /\ x # <<>>
       /\ a > 1 => a - 1 \in C
       /\ \A i \in a..b : i \notin C

\* From i to j there are no blanks and no operators.
Stretch(cmd, i, j) ==
    /\ i \in 1..Len(cmd) /\ j \in i..Len(cmd)
    /\ \A k \in i..j : cmd[k] \notin Chain \cup {Blank}

\* x is a part of the text that goes at least from i to j.
Within(cmd, i, j, x) ==
    \E c, d \in 1..Len(cmd) : c <= i /\ j <= d /\ x = SubSeq(cmd, c, d)

\* The members are pieces, and each stretch up to position to is in one of them.
MembersOf(cmd, C, members, to) ==
    /\ \A m \in 1..Len(members) : Piece(cmd, C, members[m])
    /\ \A i, j \in 1..Len(cmd) : Stretch(cmd, i, j) /\ j <= to =>
          \E m \in 1..Len(members) : Within(cmd, i, j, members[m])

\* The operators that end commands are operators.
LEMMA CutsAreChain ==
  ASSUME NEW cmd, IsSeq(cmd), NEW st, NEW i \in CutSet(cmd, st)
  PROVE  cmd[i] \in Chain
  <1>1. i \in 1..Len(cmd) /\ (Cuts(cmd, st[i - 1], i) \/ (i > 1 /\ Doubles(cmd, st, i - 1)))
    BY DEF CutSet, IsSeq
  <1>2. CASE Cuts(cmd, st[i - 1], i)
    BY <1>2, OperatorLengths DEF Cuts
  <1>3. CASE i > 1 /\ Doubles(cmd, st, i - 1)
    <2>1. OperatorLength(cmd, i - 1) = 2
      BY <1>3 DEF Doubles
    <2>2. cmd[i - 1] \in {"&", "|"} /\ NextIs(cmd, i - 1, cmd[i - 1])
      BY <2>1, OperatorLengths
    <2>3. (i - 1) + 1 = i
      BY <1>1
    <2>4. cmd[i] \in {"&", "|"}
      BY <2>2, <2>3 DEF NextIs
    <2> QED BY <2>4 DEF Chain
  <1> QED BY <1>1, <1>2, <1>3

\* A part of a part.
LEMMA SubSeqTwice ==
  ASSUME NEW T, NEW s \in Seq(T), NEW a \in Nat \ {0}, NEW b \in a..Len(s),
         NEW e \in 1..b - a + 1, NEW f \in e..b - a + 1
  PROVE  SubSeq(SubSeq(s, a, b), e, f) = SubSeq(s, a + e - 1, a + f - 1)
  <1> DEFINE y == SubSeq(s, a, b)
             c == a + e - 1
             d == a + f - 1
  <1>1. /\ b \in 0..Len(s) /\ a <= b /\ e \in Nat \ {0} /\ e <= f /\ f \in Nat
        /\ c \in Nat \ {0} /\ d \in 0..Len(s) /\ c <= d /\ d - c + 1 = f - e + 1
    OBVIOUS
  <1>2. y \in Seq(T) /\ Len(y) = b - a + 1 /\ \A k \in 1..b - a + 1 : y[k] = s[a + k - 1]
    BY <1>1, SubSeqType
  <1> HIDE DEF y
  <1>3. /\ SubSeq(y, e, f) \in Seq(T) /\ Len(SubSeq(y, e, f)) = f - e + 1
        /\ \A k \in 1..f - e + 1 : SubSeq(y, e, f)[k] = y[e + k - 1]
    <2>1. y \in Seq(T) /\ f \in 0..Len(y)
      BY <1>1, <1>2
    <2> QED BY <1>1, <2>1, SubSeqType
  <1>4. ASSUME NEW k \in 1..f - e + 1 PROVE y[e + k - 1] = s[c + k - 1]
    <2>1. e + k - 1 \in 1..b - a + 1 /\ a + (e + k - 1) - 1 = c + k - 1
      OBVIOUS
    <2> HIDE DEF c
    <2> QED BY <1>2, <2>1
  <1> HIDE DEF c, d
  <1>5. /\ SubSeq(s, c, d) \in Seq(T) /\ Len(SubSeq(s, c, d)) = d - c + 1
        /\ \A k \in 1..d - c + 1 : SubSeq(s, c, d)[k] = s[c + k - 1]
    BY <1>1, SubSeqType
  <1>6. /\ Len(SubSeq(y, e, f)) = Len(SubSeq(s, c, d))
        /\ \A k \in 1..Len(SubSeq(y, e, f)) : SubSeq(y, e, f)[k] = SubSeq(s, c, d)[k]
    BY <1>1, <1>3, <1>4, <1>5
  <1>7. SubSeq(y, e, f) = SubSeq(s, c, d)
    BY <1>3, <1>5, <1>6, SameElements
  <1> QED BY <1>7 DEF y, c, d

\* A stretch between two positions is not lost with the blanks around it.
LEMMA StretchKept ==
  ASSUME NEW cmd, IsSeq(cmd), NEW a \in 1..Len(cmd), NEW b \in a..Len(cmd),
         NEW i \in a..b, NEW j \in i..b, Stretch(cmd, i, j)
  PROVE  Within(cmd, i, j, Strip(SubSeq(cmd, a, b)))
  <1> DEFINE T == ToSet(cmd)
             y == SubSeq(cmd, a, b)
  <1>1. cmd \in Seq(T) /\ a \in Nat \ {0} /\ b \in 0..Len(cmd) /\ a <= b /\ Len(cmd) \in Nat
    BY DEF IsSeq
  <1>2. y \in Seq(T) /\ Len(y) = b - a + 1 /\ \A k \in 1..b - a + 1 : y[k] = cmd[a + k - 1]
    <2> HIDE DEF T
    <2> QED BY <1>1, SubSeqType, SMTT(30)
  <1> HIDE DEF T, y
  <1>3. i - a + 1 \in 1..Len(y) /\ j - a + 1 \in 1..Len(y)
    BY <1>1, <1>2, SMTT(30)
  <1>4. y[i - a + 1] # Blank /\ y[j - a + 1] # Blank
    <2>1. a + (i - a + 1) - 1 = i /\ a + (j - a + 1) - 1 = j /\ i \in i..j /\ j \in i..j
      BY <1>1
    <2>2. cmd[i] # Blank /\ cmd[j] # Blank
      BY <2>1 DEF Stretch
    <2> QED BY <1>2, <1>3, <2>1, <2>2
  <1>5. PICK e, f \in 1..Len(y) :
           /\ e <= f /\ \A k \in 1..Len(y) : y[k] # Blank => e <= k /\ k <= f
           /\ Strip(y) = SubSeq(y, e, f)
    BY <1>2, <1>3, <1>4, StripFacts
  <1>6. e <= i - a + 1 /\ j - a + 1 <= f
    BY <1>3, <1>4, <1>5
  <1> DEFINE c == a + e - 1
             d == a + f - 1
  <1>7. c \in 1..Len(cmd) /\ d \in 1..Len(cmd) /\ c <= i /\ j <= d /\ c <= d
        /\ d - c + 1 = f - e + 1
    <2>1. e \in Nat \ {0} /\ f \in Nat \ {0} /\ e <= f /\ f <= b - a + 1
      BY <1>1, <1>2, <1>5
    <2>2. a \in Nat \ {0} /\ b \in Nat /\ b <= Len(cmd) /\ Len(cmd) \in Nat /\ i \in Int /\ j \in Int
      BY <1>1
    <2> QED BY <1>6, <2>1, <2>2
  <1>8. SubSeq(y, e, f) = SubSeq(cmd, c, d)
    <2>1. b \in a..Len(cmd) /\ e \in 1..b - a + 1 /\ f \in e..b - a + 1
      BY <1>1, <1>2, <1>5
    <2> QED BY <1>1, <2>1, SubSeqTwice DEF y
  <1> HIDE DEF c, d
  <1> QED BY <1>5, <1>7, <1>8 DEF Within, y

\* The command that ends at position to becomes a member.
LEMMA CollectMembers ==
  ASSUME NEW cmd, IsSeq(cmd), NEW C, \A i \in C : cmd[i] \in Chain,
         NEW s \in States(ToSet(cmd)), MembersOf(cmd, C, s.members, s.from - 1),
         NEW to \in 0..Len(cmd), s.from - 1 <= to,
         s.from > 1 => s.from - 1 \in C, \A i \in s.from..to : i \notin C
  PROVE  MembersOf(cmd, C, Collect(cmd, s, to), to)
  <1> DEFINE T == ToSet(cmd)
             from == s.from
             old == s.members
             text == Strip(SubSeq(cmd, from, to))
             new == Collect(cmd, s, to)
  <1>1. from \in Nat \ {0} /\ old \in Seq(Seq(T)) /\ Len(old) \in Nat /\ cmd \in Seq(T)
        /\ to \in Nat /\ Len(cmd) \in Nat
    BY DEF States, IsSeq
  <1>2. new = IF text = <<>> THEN old ELSE Append(old, text)
    BY DEF Collect
  <1>3. text \in Seq(T)
    <2>1. SubSeq(cmd, from, to) \in Seq(T)
      BY <1>1, SubSeqType
    <2> QED BY <2>1, StripType
  <1>4. /\ \A m \in 1..Len(old) : Piece(cmd, C, old[m])
        /\ \A i, j \in 1..Len(cmd) : Stretch(cmd, i, j) /\ j <= from - 1 =>
              \E m \in 1..Len(old) : Within(cmd, i, j, old[m])
    BY DEF MembersOf
  <1>5. text # <<>> => from \in 1..Len(cmd) /\ to \in from..Len(cmd)
    <2> SUFFICES ASSUME from > to PROVE text = <<>>
      BY <1>1
    <2>1. SubSeq(cmd, from, to) = <<>>
      BY <1>1, SubSeqType
    <2>2. \A e : e = <<>> => e \in Seq(T) /\ Len(e) = 0
      OBVIOUS
    <2>3. \A e : e = <<>> => Strip(e) = <<>>
      BY <2>2, StripType
    <2> QED BY <2>1, <2>3
  <1>6. text # <<>> => Piece(cmd, C, text)
    <2> SUFFICES ASSUME text # <<>> PROVE Piece(cmd, C, text)
      OBVIOUS
    <2>1. from \in 1..Len(cmd) /\ to \in 1..Len(cmd)
      BY <1>1, <1>5
    <2> QED BY <2>1 DEF Piece
  <1>7. ASSUME NEW i \in 1..Len(cmd), NEW j \in 1..Len(cmd), Stretch(cmd, i, j), j <= to,
               ~(j <= from - 1)
        PROVE  text # <<>> /\ Within(cmd, i, j, text)
    <2>1. i <= j /\ j >= from
      BY <1>1, <1>7 DEF Stretch
    <2>2. i >= from
      <3> SUFFICES ASSUME i < from PROVE FALSE
        BY <1>1
      <3>1. from > 1 /\ from - 1 \in i..j
        BY <1>1, <2>1
      <3>2. cmd[from - 1] \in Chain
        BY <3>1
      <3> QED BY <1>7, <3>1, <3>2 DEF Stretch
    <2>3. from \in 1..Len(cmd) /\ to \in from..Len(cmd) /\ i \in from..to /\ j \in i..to
      BY <1>1, <1>7, <2>1, <2>2
    <2>4. Within(cmd, i, j, text)
      <3> HIDE DEF from
      <3>1. Within(cmd, i, j, Strip(SubSeq(cmd, from, to)))
        BY <1>7, <2>3, StretchKept
      <3> QED BY <3>1
    <2>5. text # <<>>
      <3>1. PICK c, d \in 1..Len(cmd) : c <= i /\ j <= d /\ text = SubSeq(cmd, c, d)
        BY <2>4 DEF Within
      <3>2. c \in Nat \ {0} /\ d \in 0..Len(cmd) /\ c <= d /\ d - c + 1 # 0
        BY <1>1, <2>1, <3>1
      <3>3. Len(SubSeq(cmd, c, d)) = d - c + 1
        BY <1>1, <3>2, SubSeqType
      <3>4. \A e : e = <<>> => Len(e) = 0
        OBVIOUS
      <3> HIDE DEF text
      <3> QED BY <3>1, <3>2, <3>3, <3>4
    <2> QED BY <2>4, <2>5
  <1> HIDE DEF from, old, text, new
  <1>8. CASE text = <<>>
    <2>1. new = old
      BY <1>2, <1>8
    <2> QED BY <1>4, <1>7, <1>8, <2>1 DEF MembersOf, new
  <1>9. CASE text # <<>>
    <2>1. /\ Len(new) = Len(old) + 1 /\ new[Len(old) + 1] = text
          /\ \A m \in 1..Len(old) : new[m] = old[m]
      BY <1>1, <1>2, <1>3, <1>9
    <2>2. \A m \in 1..Len(new) : m \in 1..Len(old) \/ m = Len(old) + 1
      BY <1>1, <2>1
    <2>3. 1..Len(old) \subseteq 1..Len(new) /\ Len(old) + 1 \in 1..Len(new)
      BY <1>1, <2>1
    <2>4. \A m \in 1..Len(new) : Piece(cmd, C, new[m])
      BY <1>4, <1>6, <1>9, <2>1, <2>2
    <2>5. ASSUME NEW i \in 1..Len(cmd), NEW j \in 1..Len(cmd), Stretch(cmd, i, j), j <= to
          PROVE  \E m \in 1..Len(new) : Within(cmd, i, j, new[m])
      <3>1. CASE j <= from - 1
        BY <1>4, <2>1, <2>3, <2>5, <3>1
      <3>2. CASE ~(j <= from - 1)
        BY <1>7, <2>1, <2>3, <2>5, <3>2
      <3> QED BY <3>1, <3>2
    <2> QED BY <2>4, <2>5 DEF MembersOf, new
  <1> QED BY <1>8, <1>9

\* Each turn keeps the members so.
LEMMA MembersTurn ==
  ASSUME NEW cmd, IsSeq(cmd), NEW st, ScanTable(st, cmd), NEW k \in 1..Len(cmd),
         MembersOf(cmd, CutSet(cmd, st), st[k - 1].members, st[k - 1].from - 1)
  PROVE  MembersOf(cmd, CutSet(cmd, st), st[k].members, st[k].from - 1)
  <1> DEFINE n == Len(cmd)
             T == ToSet(cmd)
             C == CutSet(cmd, st)
             s == st[k - 1]
             t == st[k]
             w == OperatorLength(cmd, k)
  <1>1. /\ n \in Nat /\ DOMAIN cmd = 1..n /\ cmd \in Seq(T) /\ k \in Nat \ {0} /\ k <= n
        /\ k - 1 \in 0..n
    BY DEF IsSeq
  <1>2. s \in States(T) /\ t = Consume(cmd, s, k)
    BY <1>1 DEF ScanTable
  <1>3. s.from \in 1..(k - 1) + 2 /\ (s.from = (k - 1) + 2 => s.skip)
    BY <1>1, FromBound
  <1>4. (s.from > 1 => s.from - 1 \in C) /\ \A j \in s.from..k - 1 : j \notin C
    BY <1>1, CollectedAll DEF Collected
  <1>5. \A i \in C : cmd[i] \in Chain
    BY CutsAreChain
  <1>6. MembersOf(cmd, C, s.members, s.from - 1)
    OBVIOUS
  <1> HIDE DEF s, t, T, C
  <1>7. CASE Cuts(cmd, s, k)
    <2>1. t.members = Collect(cmd, s, k - 1) /\ t.from = k + w
      BY <1>1, <1>2, <1>7, CutTurn
    <2>2. ~s.skip /\ w > 0
      BY <1>7 DEF Cuts
    <2>3. w \in {1, 2} /\ cmd[k] \in Chain /\ (w = 2 => cmd[k + 1] = cmd[k])
      <3>1. /\ w \in {0, 1, 2} /\ (w > 0 => cmd[k] \in Chain)
            /\ w = 2 => NextIs(cmd, k, cmd[k])
        BY OperatorLengths
      <3> HIDE DEF w
      <3> QED BY <2>2, <3>1 DEF NextIs
    <2>4. s.from - 1 <= k - 1
      BY <1>1, <1>3, <2>2
    <2> HIDE DEF w
    <2>5. MembersOf(cmd, C, t.members, k - 1)
      <3>1. MembersOf(cmd, C, Collect(cmd, s, k - 1), k - 1)
        BY <1>1, <1>2, <1>4, <1>5, <1>6, <2>4, CollectMembers DEF T
      <3> QED BY <2>1, <3>1
    <2>6. ASSUME NEW i \in 1..n, NEW j \in 1..n, Stretch(cmd, i, j), j <= t.from - 1
          PROVE  j <= k - 1
      <3> SUFFICES ASSUME j >= k PROVE FALSE
        BY <1>1
      <3>1. j \in i..j /\ (j = k \/ (w = 2 /\ j = k + 1))
        BY <1>1, <2>1, <2>3, <2>6 DEF Stretch
      <3>2. cmd[j] \in Chain
        BY <2>3, <3>1
      <3> QED BY <2>6, <3>1, <3>2 DEF Stretch
    <2> QED BY <2>5, <2>6 DEF MembersOf, n, t, C
  <1>8. CASE ~Cuts(cmd, s, k)
    <2>1. t.from = s.from /\ t.members = s.members
      BY <1>1, <1>2, <1>8, OtherTurn
    <2> QED BY <1>6, <2>1 DEF t, C
  <1> QED BY <1>7, <1>8

\* What the scan finds are pieces, and every stretch is in one of them.
LEMMA ScanMembers ==
  ASSUME NEW cmd, IsSeq(cmd), NEW st, ScanTable(st, cmd)
  PROVE  MembersOf(cmd, CutSet(cmd, st), Scan(cmd), Len(cmd))
  <1> DEFINE n == Len(cmd)
             C == CutSet(cmd, st)
             Fine == {k \in 0..n : MembersOf(cmd, C, st[k].members, st[k].from - 1)}
  <1>1. n \in Nat
    BY DEF IsSeq
  <1>2. 0 \in Fine
    <2>1. st[0].from = 1 /\ st[0].members = <<>>
      BY DEF ScanTable, ScanStart
    <2>2. \A e : e = <<>> => Len(e) = 0
      OBVIOUS
    <2>3. \A j \in 1..n : ~(j <= 1 - 1)
      BY <1>1
    <2>4. MembersOf(cmd, C, st[0].members, st[0].from - 1)
      BY <2>1, <2>2, <2>3 DEF MembersOf
    <2> QED BY <1>1, <2>4
  <1>3. ASSUME NEW k \in 1..n, k - 1 \in Fine PROVE k \in Fine
    <2>1. MembersOf(cmd, C, st[k - 1].members, st[k - 1].from - 1) /\ k \in 0..n
      BY <1>1, <1>3
    <2>2. MembersOf(cmd, C, st[k].members, st[k].from - 1)
      BY <2>1, MembersTurn
    <2> QED BY <2>1, <2>2
  <1>4. \A k \in 0..n : k \in Fine
    <2> HIDE DEF Fine, n
    <2> QED BY <1>1, <1>2, <1>3, InductionUpTo
  <1> DEFINE s == st[n]
  <1>5. n \in 0..n
    BY <1>1
  <1>6. MembersOf(cmd, C, s.members, s.from - 1)
    BY <1>4, <1>5
  <1>7. s \in States(ToSet(cmd)) /\ Scan(cmd) = Collect(cmd, s, n)
    BY <1>5 DEF ScanTable
  <1>8. s.from \in 1..n + 2 /\ s.from <= n + 1
    BY <1>5, FromBound
  <1>9. (s.from > 1 => s.from - 1 \in C) /\ \A j \in s.from..n : j \notin C
    BY <1>5, CollectedAll DEF Collected
  <1>10. \A i \in C : cmd[i] \in Chain
    BY CutsAreChain
  <1> HIDE DEF s, C, Fine
  <1>11. s.from - 1 <= n
    BY <1>1, <1>8
  <1>12. MembersOf(cmd, C, Collect(cmd, s, n), n)
    BY <1>5, <1>6, <1>7, <1>9, <1>10, <1>11, CollectMembers
  <1> QED BY <1>7, <1>12 DEF C

-----------------------------------------------------------------------------
(* A member of a chain on its own.                                           *)

\* A sequence over some set is one over its own elements.
LEMMA SeqIsSeq ==
  ASSUME NEW T, NEW s \in Seq(T)
  PROVE  IsSeq(s)
  <1>1. Len(s) \in Nat /\ s = [k \in 1..Len(s) |-> s[k]]
    OBVIOUS
  <1> QED BY <1>1, FunctionIsSeq

\* x is the part of a text from c to d, where c is outside of quotes and groups.
OuterPart(cmd, open, c, d, x) ==
    /\ c \in 1..Len(cmd) /\ d \in c..Len(cmd) /\ x = SubSeq(cmd, c, d)
    /\ open[c] = "none" /\ Depth(cmd, open, c) = 0

\* Quotes and groups are read in a part of a text as they are in the whole, if it
\* begins outside of them.
Reads(cmd, open, x, opened, c, j) ==
    opened[j] = open[c + j - 1] /\ Depth(x, opened, j) = Depth(cmd, open, c + j - 1)

\* A part that begins outside quotes and groups reads as it does in the whole.
LEMMA PartReads ==
  ASSUME NEW cmd, IsSeq(cmd), NEW open, QuotesOpen(open, cmd), NEW c, NEW d, NEW x,
         OuterPart(cmd, open, c, d, x), NEW opened, QuotesOpen(opened, x)
  PROVE  /\ IsSeq(x) /\ Len(x) = d - c + 1 /\ \A j \in 1..Len(x) : x[j] = cmd[c + j - 1]
         /\ \A j \in 1..Len(x) + 1 : Reads(cmd, open, x, opened, c, j)
  <1> USE DEF OuterPart
  <1> DEFINE T == ToSet(cmd)
             n == Len(x)
  <1>1. cmd \in Seq(T) /\ c \in Nat \ {0} /\ d \in 0..Len(cmd) /\ c <= d /\ Len(cmd) \in Nat
    BY DEF IsSeq
  <1>2. /\ x \in Seq(T) /\ n = d - c + 1 /\ \A j \in 1..d - c + 1 : x[j] = cmd[c + j - 1]
    <2> HIDE DEF T
    <2> QED BY <1>1, SubSeqType
  <1>3. IsSeq(x)
    BY <1>2, SeqIsSeq
  <1>4. n \in Nat
    BY <1>1, <1>2
  <1> DEFINE Fine == {k \in 0..n : Reads(cmd, open, x, opened, c, k + 1)}
  <1>5. 0 \in Fine
    <2>1. opened[1] = "none" /\ Depth(x, opened, 1) = 0
      BY <1>3, DepthStart DEF QuotesOpen
    <2>2. 0 + 1 = 1 /\ c + (0 + 1) - 1 = c
      BY <1>1
    <2>3. Reads(cmd, open, x, opened, c, 0 + 1)
      BY <2>1, <2>2 DEF Reads
    <2> QED BY <1>4, <2>3
  <1>6. ASSUME NEW k \in 1..n, k - 1 \in Fine PROVE k \in Fine
    <2> DEFINE i == c + k - 1
    <2>1. /\ i \in 1..Len(cmd) /\ (k - 1) + 1 = k /\ c + (k + 1) - 1 = i + 1 /\ k \in 0..n
          /\ k \in 1..d - c + 1
      BY <1>1, <1>2, <1>4
    <2>2. opened[k] = open[i] /\ Depth(x, opened, k) = Depth(cmd, open, i)
      BY <1>6, <2>1 DEF Reads
    <2>3. x[k] = cmd[i]
      BY <1>2, <2>1
    <2> HIDE DEF i, Fine
    <2>4. opened[k + 1] = open[i + 1]
      BY <2>1, <2>2, <2>3 DEF QuotesOpen
    <2>5. Depth(x, opened, k + 1) = Depth(cmd, open, i + 1)
      <3>1. Depth(cmd, open, i + 1) = IF cmd[i] \in Parens /\ open[i] = "none"
               THEN Depth(cmd, open, i) + Level(cmd[i]) ELSE Depth(cmd, open, i)
        BY <2>1, DepthStep
      <3>2. Depth(x, opened, k + 1) = IF x[k] \in Parens /\ opened[k] = "none"
               THEN Depth(x, opened, k) + Level(x[k]) ELSE Depth(x, opened, k)
        BY <1>3, DepthStep
      <3> QED BY <2>2, <2>3, <3>1, <3>2
    <2>6. Reads(cmd, open, x, opened, c, k + 1)
      BY <2>1, <2>4, <2>5 DEF Reads
    <2> QED BY <2>1, <2>6 DEF Fine
  <1>7. \A k \in 0..n : k \in Fine
    <2> HIDE DEF Fine, n
    <2> QED BY <1>4, <1>5, <1>6, InductionUpTo
  <1>8. ASSUME NEW j \in 1..n + 1 PROVE Reads(cmd, open, x, opened, c, j)
    <2>1. j - 1 \in 0..n /\ (j - 1) + 1 = j
      BY <1>4
    <2>2. j - 1 \in Fine
      BY <1>7, <2>1
    <2> QED BY <2>1, <2>2
  <1> QED BY <1>2, <1>3, <1>8

\* Nothing separates commands in a part that nothing separates in the whole.
LEMMA PartOfOne ==
  ASSUME NEW cmd, IsSeq(cmd), NEW open, QuotesOpen(open, cmd),
         NEW c, NEW d, NEW x, OuterPart(cmd, open, c, d, x),
         \A i \in c..d : ~Separates(cmd, open, i)
  PROVE  IsSeq(x) /\ Len(Commands(x)) <= 1
  <1> DEFINE opened == OpenQuotes(x)
             n == Len(x)
  <1>0. c \in 1..Len(cmd) /\ d \in c..Len(cmd)
    BY DEF OuterPart
  <1>1. IsSeq(x)
    <2>1. c \in Nat \ {0} /\ d \in 0..Len(cmd) /\ cmd \in Seq(ToSet(cmd))
      BY <1>0 DEF IsSeq
    <2>2. x = SubSeq(cmd, c, d)
      BY DEF OuterPart
    <2> QED BY <2>1, <2>2, SubSeqType, SeqIsSeq
  <1>2. QuotesOpen(opened, x)
    BY <1>1, QuotesFold
  <1> HIDE DEF opened
  <1>3. /\ n = d - c + 1 /\ \A j \in 1..n : x[j] = cmd[c + j - 1]
        /\ \A j \in 1..n + 1 : Reads(cmd, open, x, opened, c, j)
    BY <1>2, PartReads
  <1>4. /\ c \in Nat \ {0} /\ d \in Nat /\ d <= Len(cmd) /\ Len(cmd) \in Nat /\ n \in Nat
        /\ DOMAIN cmd = 1..Len(cmd) /\ DOMAIN x = 1..n
    BY <1>0, <1>1 DEF IsSeq
  <1> HIDE DEF n
  <1>5. ASSUME NEW j \in 1..n, j \in Outside(x, opened), Depth(x, opened, j) = 0, x[j] \in Chain
        PROVE  /\ ~NextIs(x, j, "&") /\ x[j] = "&"
               /\ c + j - 1 \in c..d
    <2> DEFINE i == c + j - 1
    <2>1. i \in c..d /\ i \in 1..Len(cmd) /\ j \in 1..n + 1 /\ j + 1 \in 1..n + 1
          /\ c + (j + 1) - 1 = i + 1
      BY <1>3, <1>4
    <2>2. x[j] = cmd[i] /\ opened[j] = open[i] /\ Depth(x, opened, j) = Depth(cmd, open, i)
      BY <1>3, <2>1 DEF Reads
    <2>3. opened[j + 1] = open[i + 1]
      BY <1>3, <2>1 DEF Reads
    <2> HIDE DEF i
    <2>4. i \in Outside(cmd, open) /\ Depth(cmd, open, i) = 0 /\ cmd[i] \in Chain
      BY <1>4, <1>5, <2>1, <2>2, <2>3 DEF Outside
    <2>5. ~Separates(cmd, open, i)
      BY <2>1
    <2>6. cmd[i] = "&" /\ ~NextIs(cmd, i, "&")
      BY <2>4, <2>5, SeparatesParts
    <2>7. NextIs(x, j, "&") => NextIs(cmd, i, "&")
      <3>1. ASSUME j < n PROVE i < Len(cmd) /\ x[j + 1] = cmd[i + 1]
        <4>1. j + 1 \in 1..n /\ c + (j + 1) - 1 = i + 1 /\ i < d
          BY <1>3, <1>4, <3>1 DEF i
        <4> QED BY <1>3, <1>4, <2>1, <4>1
      <3> QED BY <3>1 DEF NextIs, n
    <2> QED BY <2>1, <2>2, <2>6, <2>7 DEF i
  <1>6. ASSUME NEW j \in 1..n PROVE ~Separates(x, opened, j)
    <2> SUFFICES ASSUME Separates(x, opened, j) PROVE FALSE
      OBVIOUS
    <2>1. /\ j \in Outside(x, opened) /\ Depth(x, opened, j) = 0 /\ x[j] \in Chain
          /\ x[j] = "&" /\ ~NextIs(x, j, "&") => Cardinality(RunUpTo(x, j)) % 2 = 0
      BY SeparatesParts
    <2>2. x[j] = "&" /\ ~NextIs(x, j, "&")
      BY <1>5, <2>1
    <2>3. ~OddRun(x, j)
      <3>1. Cardinality(RunUpTo(x, j)) % 2 = 0
        BY <2>1, <2>2
      <3> QED BY <3>1 DEF OddRun
    <2>4. j # 1 /\ x[j - 1] = "&"
      BY <1>1, <2>2, <2>3, OddRunStep DEF n
    <2> DEFINE h == j - 1
    <2>5. h \in 1..n /\ h + 1 = j /\ h < n
      BY <1>4, <2>4
    <2>6. x[h] = "&"
      BY <2>4
    <2> HIDE DEF h
    <2>7. x[h] \in Chain /\ x[h] \notin Quotes /\ x[h] \notin Parens /\ x[h] # "none"
      BY <2>6 DEF Chain, Quotes, Parens
    <2>8. opened[h] = "none"
      <3>1. opened[h + 1] = NextQuote(opened[h], x[h])
        BY <1>2, <2>5 DEF QuotesOpen, n
      <3>2. opened[h + 1] = "none"
        BY <2>1, <2>5 DEF Outside
      <3>3. opened[h] \in Quotes \cup {"none"}
        BY <1>2, <1>4, <2>5 DEF QuotesOpen, n
      <3>4. opened[h] # x[h]
        BY <2>7, <3>3
      <3> QED BY <2>7, <3>1, <3>2, <3>4 DEF NextQuote
    <2>9. h \in Outside(x, opened)
      <3>1. opened[h + 1] = "none"
        BY <2>1, <2>5 DEF Outside
      <3> QED BY <1>4, <2>5, <2>8, <3>1 DEF Outside
    <2>10. Depth(x, opened, h) = 0
      <3>1. Depth(x, opened, h + 1) = Depth(x, opened, h)
        BY <1>1, <1>2, <2>5, <2>7, DepthStep DEF n
      <3> QED BY <2>1, <2>5, <3>1
    <2>11. ~NextIs(x, h, "&")
      BY <1>5, <2>5, <2>7, <2>9, <2>10
    <2>12. NextIs(x, h, "&")
      BY <2>2, <2>5 DEF NextIs, n
    <2> QED BY <2>11, <2>12
  <1>7. {j \in DOMAIN x : ~Separates(x, OpenQuotes(x), j)} = 1..n /\ n \in 0..n
    BY <1>4, <1>6 DEF opened
  <1>8. Len(Commands(x)) <= 1
    BY <1>1, <1>7, IntervalCommand DEF n
  <1> QED BY <1>1, <1>8

\* What occurs in a part occurs in the whole.
LEMMA OccursInPart ==
  ASSUME NEW cmd, IsSeq(cmd), NEW c \in 1..Len(cmd), NEW d \in c..Len(cmd),
         NEW part, Len(part) \in Nat \ {0}, Occurs(part, SubSeq(cmd, c, d))
  PROVE  Occurs(part, cmd)
  <1> DEFINE x == SubSeq(cmd, c, d)
             m == Len(part)
  <1>1. /\ cmd \in Seq(ToSet(cmd)) /\ c \in Nat \ {0} /\ d \in 0..Len(cmd) /\ c <= d
        /\ Len(cmd) \in Nat
    BY DEF IsSeq
  <1>2. Len(x) = d - c + 1
    BY <1>1, SubSeqType
  <1>3. PICK i \in 0..Len(x) - m : SubSeq(x, i + 1, i + m) = part
    BY DEF Occurs
  <1>4. /\ i + 1 \in 1..d - c + 1 /\ i + m \in i + 1..d - c + 1
        /\ c + (i + 1) - 1 = (c + i - 1) + 1 /\ c + (i + m) - 1 = (c + i - 1) + m
        /\ c + i - 1 \in 0..Len(cmd) - m
    BY <1>1, <1>2, <1>3
  <1>5. SubSeq(x, i + 1, i + m) = SubSeq(cmd, c + (i + 1) - 1, c + (i + m) - 1)
    <2> DEFINE e == i + 1
               f == i + m
    <2>1. e \in 1..d - c + 1 /\ f \in e..d - c + 1
      BY <1>4
    <2> HIDE DEF e, f, m
    <2>2. SubSeq(SubSeq(cmd, c, d), e, f) = SubSeq(cmd, c + e - 1, c + f - 1)
      BY <1>1, <2>1, SubSeqTwice
    <2> QED BY <2>2 DEF e, f
  <1>6. SubSeq(cmd, (c + i - 1) + 1, (c + i - 1) + m) = part
    BY <1>3, <1>4, <1>5
  <1> QED BY <1>4, <1>6 DEF Occurs

\* Over blanks, quotes and groups stay as they are.
LEMMA OverBlanks ==
  ASSUME NEW cmd, IsSeq(cmd), NEW open, QuotesOpen(open, cmd), NEW a \in 1..Len(cmd),
         open[a] = "none", Depth(cmd, open, a) = 0, NEW c \in a..Len(cmd),
         \A k \in a..c - 1 : cmd[k] = Blank
  PROVE  open[c] = "none" /\ Depth(cmd, open, c) = 0
  <1> DEFINE Fine == {k \in 0..c - a : open[a + k] = "none" /\ Depth(cmd, open, a + k) = 0}
  <1>1. a \in Nat \ {0} /\ c \in Nat \ {0} /\ a <= c /\ c <= Len(cmd) /\ Len(cmd) \in Nat
        /\ c - a \in Nat
    BY DEF IsSeq
  <1>2. 0 \in Fine
    <2>1. a + 0 = a /\ 0 \in 0..c - a
      BY <1>1
    <2> QED BY <2>1
  <1>3. ASSUME NEW k \in 1..c - a, k - 1 \in Fine PROVE k \in Fine
    <2> DEFINE i == a + (k - 1)
    <2>1. i \in a..c - 1 /\ i \in 1..Len(cmd) /\ i + 1 = a + k /\ k \in 0..c - a
      BY <1>1
    <2>2. open[i] = "none" /\ Depth(cmd, open, i) = 0
      BY <1>3
    <2>3. cmd[i] = Blank
      BY <2>1
    <2> HIDE DEF i
    <2>4. cmd[i] \notin Quotes /\ cmd[i] \notin Parens /\ cmd[i] # "none"
      BY <2>3 DEF Blank, Quotes, Parens
    <2>5. open[i + 1] = "none"
      <3>1. open[i + 1] = NextQuote(open[i], cmd[i])
        BY <2>1 DEF QuotesOpen
      <3> QED BY <2>2, <2>4, <3>1 DEF NextQuote
    <2>6. Depth(cmd, open, i + 1) = 0
      BY <2>1, <2>2, <2>4, DepthStep
    <2> QED BY <2>1, <2>5, <2>6
  <1>4. \A k \in 0..c - a : k \in Fine
    <2> DEFINE m == c - a
    <2>1. m \in Nat
      BY <1>1
    <2>2. \A k \in 0..m : k \in Fine
      <3> HIDE DEF Fine, m
      <3>1. \A k \in 1..m : k - 1 \in Fine => k \in Fine
        BY <1>3 DEF m
      <3> QED BY <1>2, <2>1, <3>1, InductionUpTo
    <2> QED BY <2>2
  <1>5. c - a \in Fine /\ a + (c - a) = c
    <2>1. c - a \in 0..c - a /\ a + (c - a) = c
      BY <1>1
    <2> HIDE DEF Fine
    <2> QED BY <1>4, <2>1
  <1> QED BY <1>5

\* What parsing returns is nothing, the text as it stands, or what the scan found.
LEMMA ParsedForms ==
  ASSUME NEW x
  PROVE  ParseCommandChain(x) \in {<<>>, <<Strip(x)>>, Scan(x)}
  <1>1. CASE Strip(x) = <<>>
    BY <1>1 DEF ParseCommandChain
  <1>2. CASE Strip(x) # <<>>
    <2>1. ParseCommandChain(x) =
             IF HasChaining(x) /\ Scan(x) # <<>> THEN Scan(x) ELSE <<Strip(x)>>
      BY <1>2 DEF ParseCommandChain
    <2> QED BY <2>1
  <1> QED BY <1>1, <1>2

\* Neither of the first two is a chain.
LEMMA NoChain ==
  ASSUME NEW e, NEW t, e = <<>> \/ e = <<t>>
  PROVE  ~(Len(e) > 1)
  <1>1. \A d : d = <<>> => ~(Len(d) > 1)
    OBVIOUS
  <1>2. \A u, d : d = <<u>> => ~(Len(d) > 1)
    OBVIOUS
  <1> QED BY <1>1, <1>2

\* A text without substitutions that nothing separates, or only its end, is not
\* taken apart.
LEMMA OneParsed ==
  ASSUME NEW x, IsSeq(x), ~Substitutes(x), Len(Commands(x)) <= 1
  PROVE  ~(Len(ParseCommandChain(x)) > 1)
  <1>1. Scan(x) = Commands(x) /\ Scan(x) \in Seq(Seq(ToSet(x)))
    BY ScanCommands, ScanKeeps
  <1>2. Len(Scan(x)) \in Nat
    BY <1>1
  <1>3. ~(Len(Scan(x)) > 1)
    BY <1>1, <1>2
  <1> QED BY <1>3, ParsedForms, NoChain

\* A member of a chain is one command.
LEMMA PieceAlone ==
  ASSUME NEW cmd, IsSeq(cmd), ~Substitutes(cmd), NEW st, ScanTable(st, cmd),
         NEW x, Piece(cmd, CutSet(cmd, st), x)
  PROVE  ~(Len(ParseCommandChain(x)) > 1)
  <1> DEFINE C == CutSet(cmd, st)
             T == ToSet(cmd)
             open == OpenQuotes(cmd)
  <1>1. /\ cmd \in Seq(T) /\ Len(cmd) \in Nat /\ DOMAIN cmd = 1..Len(cmd)
    BY DEF IsSeq
  <1>2. QuotesOpen(open, cmd)
    BY QuotesFold
  <1> HIDE DEF open
  <1>3. \A i \in 1..Len(cmd) : i \in C <=> Separates(cmd, open, i)
    BY <1>1, <1>2, CutsSeparate
  <1> HIDE DEF C
  <1>4. PICK a, b \in 1..Len(cmd) :
           /\ x = Strip(SubSeq(cmd, a, b)) /\ x # <<>>
           /\ a > 1 => a - 1 \in C
           /\ \A i \in a..b : i \notin C
    BY DEF Piece, C
  <1> DEFINE y == SubSeq(cmd, a, b)
  <1> HIDE DEF T
  <1>5. a \in Nat \ {0} /\ b \in 0..Len(cmd)
    BY <1>1
  <1>6. /\ y \in Seq(T) /\ (a <= b => Len(y) = b - a + 1) /\ (a > b => y = <<>>)
        /\ \A k \in 1..b - a + 1 : y[k] = cmd[a + k - 1]
    BY <1>1, <1>5, SubSeqType
  <1>7. a <= b
    <2> SUFFICES ASSUME a > b PROVE FALSE
      BY <1>1
    <2>1. y = <<>>
      BY <1>6
    <2>2. \A e : e = <<>> => e \in Seq(T) /\ Len(e) = 0
      OBVIOUS
    <2>3. \A e : e = <<>> => Strip(e) = <<>>
      BY <2>2, StripType
    <2> QED BY <1>4, <2>1, <2>3
  <1> HIDE DEF y
  <1>8. PICK e, f \in 1..Len(y) :
           /\ e <= f /\ \A k \in 1..Len(y) : y[k] # Blank => e <= k /\ k <= f
           /\ x = SubSeq(y, e, f)
    BY <1>4, <1>6, StripFacts DEF y
  <1> DEFINE c == a + e - 1
             d == a + f - 1
  <1>9. /\ e \in 1..b - a + 1 /\ f \in e..b - a + 1
    BY <1>6, <1>7, <1>8
  <1>10. c \in a..b /\ d \in c..b
    BY <1>5, <1>9
  <1>11. x = SubSeq(cmd, c, d)
    <2>1. b \in a..Len(cmd)
      BY <1>5, <1>7
    <2> QED BY <1>1, <1>5, <1>8, <1>9, <2>1, SubSeqTwice DEF y
  <1>12. \A k \in a..c - 1 : cmd[k] = Blank
    <2> TAKE k \in a..c - 1
    <2> DEFINE h == k - a + 1
    <2>1. h \in 1..b - a + 1 /\ a + h - 1 = k /\ ~(e <= h)
      BY <1>5, <1>9, <1>10
    <2> HIDE DEF h, c, d
    <2>2. y[h] = cmd[k]
      BY <1>6, <2>1
    <2>3. y[h] = Blank
      BY <1>6, <1>7, <1>8, <2>1
    <2> QED BY <2>2, <2>3
  <1>13. open[a] = "none" /\ Depth(cmd, open, a) = 0
    <2>1. CASE a = 1
      BY <1>2, <2>1, DepthStart DEF QuotesOpen
    <2>2. CASE a # 1
      <3> DEFINE i == a - 1
      <3>1. i \in 1..Len(cmd) /\ i + 1 = a /\ i \in C
        BY <1>4, <1>5, <2>2
      <3> HIDE DEF i
      <3>2. Separates(cmd, open, i)
        BY <1>3, <3>1
      <3>3. i \in Outside(cmd, open) /\ Depth(cmd, open, i) = 0 /\ cmd[i] \in Chain
        BY <3>2, SeparatesParts
      <3>4. open[i + 1] = "none"
        BY <3>3 DEF Outside
      <3>5. cmd[i] \notin Parens
        BY <3>3, ChainApart
      <3>6. Depth(cmd, open, i + 1) = 0
        BY <1>2, <3>1, <3>3, <3>5, DepthStep
      <3> QED BY <3>1, <3>4, <3>6
    <2> QED BY <2>1, <2>2
  <1> HIDE DEF c, d
  <1>14. c \in a..Len(cmd) /\ c \in 1..Len(cmd) /\ d \in c..Len(cmd) /\ a \in 1..Len(cmd)
    BY <1>1, <1>5, <1>10
  <1>15. open[c] = "none" /\ Depth(cmd, open, c) = 0
    BY <1>2, <1>12, <1>13, <1>14, OverBlanks
  <1>16. OuterPart(cmd, open, c, d, x)
    BY <1>11, <1>14, <1>15 DEF OuterPart
  <1>17. \A i \in c..d : ~Separates(cmd, open, i)
    <2> TAKE i \in c..d
    <2>1. i \in a..b /\ i \in 1..Len(cmd)
      BY <1>5, <1>10, <1>14
    <2> QED BY <1>3, <1>4, <2>1
  <1>18. IsSeq(x) /\ Len(Commands(x)) <= 1
    BY <1>2, <1>16, <1>17, PartOfOne
  <1>19. ~Substitutes(x)
    <2>1. \A p : p = <<Tick>> \/ p = <<"$", "(">> => Len(p) \in Nat \ {0}
      OBVIOUS
    <2>2. \A p : (p = <<Tick>> \/ p = <<"$", "(">>) /\ Occurs(p, x) => Occurs(p, cmd)
      BY <1>11, <1>14, <2>1, OccursInPart
    <2> QED BY <2>2 DEF Substitutes
  <1> QED BY <1>18, <1>19, OneParsed

\* What the scan takes apart still has the substitutions of the whole.
LEMMA OccursInMember ==
  ASSUME NEW cmd, IsSeq(cmd), NEW P, NEW part \in Seq(P), Len(part) > 0,
         \A k \in 1..Len(part) : part[k] \notin Chain \cup {Blank}, Occurs(part, cmd)
  PROVE  \E m \in 1..Len(Scan(cmd)) : Occurs(part, Scan(cmd)[m])
  <1> DEFINE n == Len(part)
             T == ToSet(cmd)
  <1>1. n \in Nat \ {0} /\ Len(cmd) \in Nat /\ cmd \in Seq(T)
    BY DEF IsSeq
  <1> HIDE DEF T
  <1>2. PICK i \in 0..Len(cmd) - n : SubSeq(cmd, i + 1, i + n) = part
    BY DEF Occurs
  <1> DEFINE a == i + 1
             b == i + n
  <1>3. /\ a \in 1..Len(cmd) /\ b \in a..Len(cmd) /\ a \in Nat \ {0} /\ b \in 0..Len(cmd)
        /\ a <= b /\ b - a + 1 = n /\ b \in 1..Len(cmd)
    BY <1>1, <1>2
  <1>4. SubSeq(cmd, a, b) = part
    BY <1>2
  <1> HIDE DEF a, b, n
  <1>5. \A k \in 1..b - a + 1 : part[k] = cmd[a + k - 1]
    BY <1>1, <1>3, <1>4, SubSeqType
  <1>6. Stretch(cmd, a, b)
    <2>1. ASSUME NEW k \in a..b PROVE cmd[k] \notin Chain \cup {Blank}
      <3>1. k - a + 1 \in 1..n /\ a + (k - a + 1) - 1 = k
        BY <1>1, <1>3
      <3>2. part[k - a + 1] = cmd[k]
        BY <1>3, <1>5, <3>1
      <3> QED BY <3>1, <3>2 DEF n
    <2> QED BY <1>3, <2>1 DEF Stretch
  <1>7. PICK st : ScanTable(st, cmd)
    BY ScanFold
  <1>8. PICK m \in 1..Len(Scan(cmd)) : Within(cmd, a, b, Scan(cmd)[m])
    <2>1. MembersOf(cmd, CutSet(cmd, st), Scan(cmd), Len(cmd))
      BY <1>7, ScanMembers
    <2>2. b <= Len(cmd)
      BY <1>1, <1>3
    <2> QED BY <1>3, <1>6, <2>1, <2>2 DEF MembersOf
  <1> DEFINE x == Scan(cmd)[m]
  <1>9. PICK c, d \in 1..Len(cmd) : c <= a /\ b <= d /\ x = SubSeq(cmd, c, d)
    BY <1>8 DEF Within
  <1> DEFINE e == a - c + 1
             f == b - c + 1
  <1>10. /\ c \in Nat \ {0} /\ d \in c..Len(cmd) /\ e \in 1..d - c + 1 /\ f \in e..d - c + 1
         /\ c + e - 1 = a /\ c + f - 1 = b /\ d \in 0..Len(cmd) /\ c <= d
         /\ (a - c) + 1 = e /\ (a - c) + n = f /\ a - c \in 0..(d - c + 1) - n
    BY <1>1, <1>3, <1>9
  <1> HIDE DEF x, e, f
  <1>11. SubSeq(x, e, f) = part
    <2>1. SubSeq(SubSeq(cmd, c, d), e, f) = SubSeq(cmd, c + e - 1, c + f - 1)
      BY <1>1, <1>10, SubSeqTwice
    <2> QED BY <1>4, <1>9, <1>10, <2>1
  <1>12. Len(x) = d - c + 1
    <2>1. Len(SubSeq(cmd, c, d)) = d - c + 1
      BY <1>1, <1>10, SubSeqType
    <2> QED BY <1>9, <2>1
  <1>13. Occurs(part, x)
    <2> DEFINE h == a - c
    <2>1. h \in 0..Len(x) - n /\ h + 1 = e /\ h + n = f
      BY <1>10, <1>12
    <2> HIDE DEF h
    <2> QED BY <1>11, <2>1 DEF Occurs, n
  <1> QED BY <1>13 DEF x

\* Nor does a substitution get lost when a text is taken apart.
LEMMA SubstitutesInMember ==
  ASSUME NEW cmd, IsSeq(cmd), Substitutes(cmd)
  PROVE  \E m \in 1..Len(Scan(cmd)) : Substitutes(Scan(cmd)[m])
  <1> DEFINE P == {Tick, "$", "("}
             Loud(p) == /\ p \in Seq(P) /\ Len(p) > 0
                        /\ \A k \in 1..Len(p) : p[k] \notin Chain \cup {Blank}
  <1>1. \A e \in P : e \notin Chain \cup {Blank}
    BY DEF Chain, Blank, Tick
  <1>2. <<Tick>> \in Seq(P) /\ Len(<<Tick>>) > 0
    OBVIOUS
  <1>2a. <<"$", "(">> \in Seq(P) /\ Len(<<"$", "(">>) > 0
    OBVIOUS
  <1>3. \A p \in Seq(P) : \A k \in 1..Len(p) : p[k] \in P
    OBVIOUS
  <1> HIDE DEF P
  <1>4. \A p : p = <<Tick>> \/ p = <<"$", "(">> => Loud(p)
    BY <1>1, <1>2, <1>2a, <1>3
  <1>5. PICK p : (p = <<Tick>> \/ p = <<"$", "(">>) /\ Occurs(p, cmd)
    BY DEF Substitutes
  <1>6. \E m \in 1..Len(Scan(cmd)) : Occurs(p, Scan(cmd)[m])
    BY <1>4, <1>5, OccursInMember
  <1> QED BY <1>5, <1>6 DEF Substitutes

-----------------------------------------------------------------------------
(* How a chain is judged.                                                    *)

\* A command that holds a substitution is refused, taken apart or not.
LEMMA SubstitutionRefused ==
  ASSUME NEW policy, NEW alias, NEW tags, NEW cmd, IsSeq(cmd), Substitutes(cmd)
  PROVE  ~IsAllowed(policy, alias, tags, cmd)
  <1> DEFINE parsed == ParseCommandChain(cmd)
  <1>1. \A x : Substitutes(x) => ~IsSingleCommandAllowed(policy, alias, tags, x)
    BY Zenon DEF IsSingleCommandAllowed, Banned
  <1>2. CASE Len(parsed) > 1
    <2>1. parsed = Scan(cmd)
      <3>1. parsed \in {<<>>, <<Strip(cmd)>>, Scan(cmd)}
        BY ParsedForms
      <3> HIDE DEF parsed
      <3> QED BY <1>2, <3>1, NoChain
    <2>2. PICK m \in 1..Len(Scan(cmd)) : Substitutes(Scan(cmd)[m])
      BY SubstitutesInMember
    <2>3. DOMAIN Scan(cmd) = 1..Len(Scan(cmd))
      <3>1. Scan(cmd) \in Seq(Seq(ToSet(cmd)))
        BY ScanKeeps
      <3> QED BY <3>1
    <2>4. ~IsSingleCommandAllowed(policy, alias, tags, parsed[m]) /\ m \in DOMAIN parsed
      BY <1>1, <2>1, <2>2, <2>3
    <2> HIDE DEF parsed
    <2> QED BY <1>2, <2>4 DEF IsAllowed, Judged, parsed
  <1>3. CASE ~(Len(parsed) > 1)
    BY <1>1, <1>3 DEF IsAllowed
  <1> QED BY <1>2, <1>3

\* The members of a chain without substitutions are parsed as they are counted, and
\* parsing one again leaves it one command.
LEMMA ChainMembers ==
  ASSUME NEW cmd, IsSeq(cmd), Strip(cmd) # <<>>, ~Substitutes(cmd), Len(Commands(cmd)) > 1
  PROVE  /\ ParseCommandChain(cmd) = Commands(cmd)
         /\ DOMAIN Commands(cmd) = 1..Len(Commands(cmd)) /\ Len(Commands(cmd)) \in Nat
         /\ \A k \in 1..Len(Commands(cmd)) : ~(Len(ParseCommandChain(Commands(cmd)[k])) > 1)
  <1>1. ParseCommandChain(cmd) = Commands(cmd)
    BY ParsedRight, Zenon DEF SplitRight
  <1>2. Scan(cmd) = Commands(cmd)
    BY ScanCommands
  <1>3. Scan(cmd) \in Seq(Seq(ToSet(cmd)))
    BY ScanKeeps
  <1>4. PICK st : ScanTable(st, cmd)
    BY ScanFold
  <1>5. \A m \in 1..Len(Scan(cmd)) : Piece(cmd, CutSet(cmd, st), Scan(cmd)[m])
    BY <1>4, ScanMembers DEF MembersOf
  <1>6. \A m \in 1..Len(Scan(cmd)) : ~(Len(ParseCommandChain(Scan(cmd)[m])) > 1)
    BY <1>4, <1>5, PieceAlone
  <1> QED BY <1>1, <1>2, <1>3, <1>6

\* A chain is judged by its members, each as if it came alone, and a refusal names
\* the first that is refused.
LEMMA MembersJudged ==
  ASSUME NEW policy, NEW alias, NEW tags, NEW cmd, IsSeq(cmd), Strip(cmd) # <<>>,
         ~Substitutes(cmd), Len(Commands(cmd)) > 1
  PROVE  /\ IsAllowed(policy, alias, tags, cmd)
              <=> \A k \in DOMAIN Commands(cmd) : IsAllowed(policy, alias, tags, Commands(cmd)[k])
         /\ ~IsAllowed(policy, alias, tags, cmd) => \E k \in DOMAIN Commands(cmd) :
              /\ DeniedCommandInChain(policy, alias, tags, cmd) = Commands(cmd)[k]
              /\ ~IsAllowed(policy, alias, tags, Commands(cmd)[k])
              /\ \A j \in 1..k - 1 : IsAllowed(policy, alias, tags, Commands(cmd)[j])
  <1> DEFINE members == Commands(cmd)
             n == Len(members)
             Single(x) == IsSingleCommandAllowed(policy, alias, tags, x)
             Allowed(x) == IsAllowed(policy, alias, tags, x)
             denied == {k \in DOMAIN members : ~Single(members[k])}
  <1>1. /\ ParseCommandChain(cmd) = members /\ DOMAIN members = 1..n /\ n \in Nat /\ n > 1
        /\ \A k \in 1..n : ~(Len(ParseCommandChain(members[k])) > 1)
    BY ChainMembers
  <1> HIDE DEF members
  <1>2. Allowed(cmd) <=> \A k \in 1..n : Single(members[k])
    BY <1>1 DEF IsAllowed, Judged
  <1>3. \A x : ~(Len(ParseCommandChain(x)) > 1) => (Allowed(x) <=> Single(x))
    BY Zenon DEF IsAllowed
  <1>4. \A k \in 1..n : Allowed(members[k]) <=> Single(members[k])
    BY <1>1, <1>3
  <1>5. ASSUME ~Allowed(cmd)
        PROVE  \E k \in 1..n : /\ DeniedCommandInChain(policy, alias, tags, cmd) = members[k]
                               /\ ~Single(members[k])
                               /\ \A j \in 1..k - 1 : Single(members[j])
    <2>1. denied # {} /\ denied \subseteq 1..n
      BY <1>1, <1>2, <1>5
    <2>2. \A k \in 1..n : k \in denied <=> ~Single(members[k])
      BY <1>1
    <2>3. DeniedCommandInChain(policy, alias, tags, cmd) =
             members[CHOOSE k \in denied : \A j \in denied : k <= j]
      <3>1. ~(n <= 1)
        BY <1>1
      <3> QED BY <1>1, <2>1, <3>1 DEF DeniedCommandInChain
    <2> HIDE DEF denied, Single
    <2>4. PICK k \in denied : \A j \in denied : k <= j
      <3>1. denied \subseteq Nat
        BY <1>1, <2>1
      <3> QED BY <2>1, <3>1, LeastElement
    <2>5. (CHOOSE i \in denied : \A j \in denied : i <= j) = k
      <3>1. \A i \in denied : (\A j \in denied : i <= j) => i = k
        BY <1>1, <2>1, <2>4
      <3> QED BY <2>4, <3>1
    <2>6. \A j \in 1..k - 1 : Single(members[j])
      BY <1>1, <2>1, <2>2, <2>4
    <2> QED BY <2>1, <2>2, <2>3, <2>4, <2>5, <2>6
  <1> HIDE DEF Single, Allowed
  <1>6. Allowed(cmd) <=> \A k \in DOMAIN members : Allowed(members[k])
    BY <1>1, <1>2, <1>4
  <1>7. ~Allowed(cmd) => \E k \in DOMAIN members :
              /\ DeniedCommandInChain(policy, alias, tags, cmd) = members[k]
              /\ ~Allowed(members[k])
              /\ \A j \in 1..k - 1 : Allowed(members[j])
    <2> SUFFICES ASSUME ~Allowed(cmd)
                 PROVE  \E k \in 1..n :
                          /\ DeniedCommandInChain(policy, alias, tags, cmd) = members[k]
                          /\ ~Allowed(members[k])
                          /\ \A j \in 1..k - 1 : Allowed(members[j])
      BY <1>1
    <2>1. PICK k \in 1..n : /\ DeniedCommandInChain(policy, alias, tags, cmd) = members[k]
                            /\ ~Single(members[k])
                            /\ \A j \in 1..k - 1 : Single(members[j])
      BY <1>5
    <2>2. \A j \in 1..k - 1 : j \in 1..n
      BY <1>1
    <2> QED BY <1>4, <2>1, <2>2
  <1> QED BY <1>6, <1>7 DEF members, Allowed

\* Nothing of a planned command is lost or moved, and it is taken apart at the
\* operators outside quotes and groups.
THEOREM ChainsSplitRight == Spec => []ChainSplit
  <1>1. AnswersInv => ChainSplit
    <2> SUFFICES ASSUME AnswersInv, plan.what = "plan" PROVE SplitRight(asked.command)
      BY DEF ChainSplit
    <2>1. IsSeq(asked.command) /\ Strip(asked.command) # <<>>
      BY RequestsAssumption DEF AnswersInv, ValidCommand
    <2> QED BY <2>1, ParsedRight
  <1> QED BY <1>1, AnswersInvariance, PTL

\* A planned chain is judged by its members, each as if it came alone; the plan
\* names the first that is refused, and refuses what holds a substitution.
THEOREM ChainsJudgedByMembers == Spec => []ChainJudgedByMembers
  <1>1. AnswersInv => ChainJudgedByMembers
    <2> DEFINE cmd == asked.command
               members == Commands(cmd)
               Allowed(x) == IsAllowed(asked.policy, asked.alias, TagsOf(asked.alias), x)
    <2> SUFFICES ASSUME AnswersInv, plan.what = "plan"
                 PROVE  IF Substitutes(cmd) THEN ~plan.allowed
                        ELSE Len(members) > 1 =>
                           /\ plan.allowed <=> \A k \in DOMAIN members : Allowed(members[k])
                           /\ ~plan.allowed => \E k \in DOMAIN members :
                                 /\ plan.denied = members[k] /\ ~Allowed(members[k])
                                 /\ \A j \in 1..k - 1 : Allowed(members[j])
      BY Zenon DEF ChainJudgedByMembers
    <2>1. IsSeq(cmd) /\ Strip(cmd) # <<>>
      BY RequestsAssumption DEF AnswersInv, ValidCommand
    <2>2. plan.allowed = Allowed(cmd)
      BY Zenon DEF AnswersInv, AskedAllowed
    <2>3. ~Allowed(cmd) => plan.denied =
             DeniedCommandInChain(asked.policy, asked.alias, TagsOf(asked.alias), cmd)
      BY Zenon DEF AnswersInv, AskedAllowed
    <2>4. CASE Substitutes(cmd)
      <3>1. ~Allowed(cmd)
        BY <2>1, <2>4, SubstitutionRefused
      <3> QED BY <2>2, <2>4, <3>1, Zenon
    <2>5. CASE ~Substitutes(cmd)
      <3> SUFFICES ASSUME Len(members) > 1
                   PROVE  /\ plan.allowed <=> \A k \in DOMAIN members : Allowed(members[k])
                          /\ ~plan.allowed => \E k \in DOMAIN members :
                                /\ plan.denied = members[k] /\ ~Allowed(members[k])
                                /\ \A j \in 1..k - 1 : Allowed(members[j])
        BY <2>5, Zenon
      <3>1. /\ Allowed(cmd) <=> \A k \in DOMAIN members : Allowed(members[k])
            /\ ~Allowed(cmd) => \E k \in DOMAIN members :
                 /\ DeniedCommandInChain(asked.policy, asked.alias, TagsOf(asked.alias), cmd)
                       = members[k]
                 /\ ~Allowed(members[k])
                 /\ \A j \in 1..k - 1 : Allowed(members[j])
        BY <2>1, <2>5, MembersJudged
      <3> HIDE DEF cmd, members, Allowed
      <3> QED BY <2>2, <2>3, <3>1, Zenon
    <2> QED BY <2>4, <2>5
  <1> QED BY <1>1, AnswersInvariance, PTL

-----------------------------------------------------------------------------
(* Blanks around a text.                                                     *)

\* y is what is in s from c to d, and the rest of s is blank.
Padded(s, c, d, y) ==
    /\ IsSeq(s) /\ c \in 1..Len(s) + 1 /\ d \in c - 1..Len(s) /\ y = SubSeq(s, c, d)
    /\ \A i \in 1..Len(s) : i < c \/ i > d => s[i] = Blank

\* Both are texts, and y has the symbols of s, c - 1 further on.
LEMMA PaddedFacts ==
  ASSUME NEW s, NEW c, NEW d, NEW y, Padded(s, c, d, y)
  PROVE  /\ s \in Seq(ToSet(s)) /\ DOMAIN s = 1..Len(s) /\ Len(s) \in Nat
         /\ c \in Nat \ {0} /\ d \in Nat /\ d <= Len(s) /\ c <= d + 1
         /\ IsSeq(y) /\ y \in Seq(ToSet(s)) /\ DOMAIN y = 1..Len(y) /\ Len(y) = d - c + 1
         /\ Len(y) \in Nat
         /\ \A j \in 1..Len(y) : y[j] = s[c + j - 1]
         /\ \A i \in 1..Len(s) : i < c \/ i > d => s[i] = Blank
  <1> DEFINE T == ToSet(s)
  <1>1. s \in Seq(T) /\ Len(s) \in Nat /\ DOMAIN s = 1..Len(s)
    BY DEF Padded, IsSeq
  <1> HIDE DEF T
  <1>2. /\ c \in Nat \ {0} /\ d \in Nat /\ d <= Len(s) /\ c <= d + 1 /\ y = SubSeq(s, c, d)
        /\ d \in 0..Len(s)
        /\ \A i \in 1..Len(s) : i < c \/ i > d => s[i] = Blank
    BY <1>1 DEF Padded
  <1>3. /\ y \in Seq(T) /\ (c <= d => Len(y) = d - c + 1) /\ (c > d => y = <<>>)
        /\ \A j \in 1..d - c + 1 : y[j] = s[c + j - 1]
    BY <1>1, <1>2, SubSeqType
  <1>4. Len(y) = d - c + 1
    <2>1. \A e : e = <<>> => Len(e) = 0
      OBVIOUS
    <2>2. c > d => d - c + 1 = 0
      BY <1>2
    <2>3. c <= d \/ c > d
      BY <1>2
    <2> QED BY <1>3, <2>1, <2>2, <2>3
  <1>5. DOMAIN y = 1..Len(y) /\ Len(y) \in Nat
    BY <1>3
  <1>6. IsSeq(y)
    BY <1>3, SeqIsSeq
  <1> QED BY <1>1, <1>2, <1>3, <1>4, <1>5, <1>6 DEF T

\* Taking the blanks off leaves such a text.
LEMMA StripPads ==
  ASSUME NEW s, IsSeq(s), Strip(s) # <<>>
  PROVE  \E c, d \in 1..Len(s) : c <= d /\ Padded(s, c, d, Strip(s))
  <1>1. s \in Seq(ToSet(s)) /\ Len(s) \in Nat
    BY DEF IsSeq
  <1>2. PICK c, d \in 1..Len(s) :
               /\ c <= d /\ \A i \in 1..Len(s) : s[i] # Blank => c <= i /\ i <= d
               /\ Strip(s) = SubSeq(s, c, d)
    BY <1>1, StripFacts
  <1>3. c \in 1..Len(s) + 1 /\ d \in c - 1..Len(s)
    BY <1>1, <1>2
  <1>4. \A i \in 1..Len(s) : i < c \/ i > d => s[i] = Blank
    BY <1>1, <1>2
  <1> QED BY <1>2, <1>3, <1>4 DEF Padded

\* What is left without blanks at the ends is the same.
LEMMA StripPadded ==
  ASSUME NEW s, NEW c, NEW d, NEW y, Padded(s, c, d, y)
  PROVE  Strip(s) = Strip(y)
  <1> DEFINE T == ToSet(s)
  <1>1. /\ s \in Seq(T) /\ Len(s) \in Nat /\ y \in Seq(T) /\ Len(y) = d - c + 1 /\ Len(y) \in Nat
        /\ c \in Nat \ {0} /\ d \in Nat /\ d <= Len(s) /\ c <= d + 1
        /\ \A j \in 1..Len(y) : y[j] = s[c + j - 1]
        /\ \A i \in 1..Len(s) : i < c \/ i > d => s[i] = Blank
    BY PaddedFacts
  <1> HIDE DEF T
  <1>2. \A i \in 1..Len(s) : s[i] # Blank => i - c + 1 \in 1..Len(y) /\ y[i - c + 1] = s[i]
    <2> SUFFICES ASSUME NEW i \in 1..Len(s), s[i] # Blank
                 PROVE  i - c + 1 \in 1..Len(y) /\ y[i - c + 1] = s[i]
      OBVIOUS
    <2>1. ~(i < c) /\ ~(i > d)
      BY <1>1
    <2>2. i - c + 1 \in 1..Len(y) /\ c + (i - c + 1) - 1 = i
      BY <1>1, <2>1
    <2> QED BY <1>1, <2>2
  <1>3. CASE \A i \in 1..Len(s) : s[i] = Blank
    <2>1. \A j \in 1..Len(y) : c + j - 1 \in 1..Len(s)
      BY <1>1
    <2>2. \A j \in 1..Len(y) : y[j] = Blank
      BY <1>1, <1>3, <2>1
    <2> QED BY <1>1, <1>3, <2>2, StripType
  <1>4. CASE ~\A i \in 1..Len(s) : s[i] = Blank
    <2>1. PICK a, b \in 1..Len(s) :
             /\ a <= b /\ s[a] # Blank /\ s[b] # Blank
             /\ \A i \in 1..Len(s) : s[i] # Blank => a <= i /\ i <= b
             /\ Strip(s) = SubSeq(s, a, b)
      BY <1>1, <1>4, StripFacts
    <2>2. PICK e, f \in 1..Len(y) :
             /\ e <= f /\ y[e] # Blank /\ y[f] # Blank
             /\ \A j \in 1..Len(y) : y[j] # Blank => e <= j /\ j <= f
             /\ Strip(y) = SubSeq(y, e, f)
      BY <1>1, <1>2, <1>4, StripFacts
    <2>3. a - c + 1 \in 1..Len(y) /\ b - c + 1 \in 1..Len(y)
          /\ y[a - c + 1] # Blank /\ y[b - c + 1] # Blank
      BY <1>2, <2>1
    <2>4. c + e - 1 \in 1..Len(s) /\ c + f - 1 \in 1..Len(s)
          /\ s[c + e - 1] # Blank /\ s[c + f - 1] # Blank
      <3>1. e \in 1..Len(y) /\ f \in 1..Len(y) /\ y[e] # Blank /\ y[f] # Blank
        BY <2>2
      <3>2. c + e - 1 \in 1..Len(s) /\ c + f - 1 \in 1..Len(s)
        BY <1>1, <3>1
      <3>3. y[e] = s[c + e - 1] /\ y[f] = s[c + f - 1]
        BY <1>1, <3>1
      <3> QED BY <3>1, <3>2, <3>3
    <2>5. a <= c + e - 1 /\ c + f - 1 <= b /\ e <= a - c + 1 /\ b - c + 1 <= f
      BY <2>1, <2>2, <2>3, <2>4
    <2>6. a = c + e - 1 /\ b = c + f - 1
      BY <1>1, <2>1, <2>2, <2>5
    <2>7. SubSeq(y, e, f) = SubSeq(s, a, b)
      <3>1. d \in c..Len(s) /\ e \in 1..d - c + 1 /\ f \in e..d - c + 1
        BY <1>1, <2>2
      <3>2. y = SubSeq(s, c, d)
        BY DEF Padded
      <3> QED BY <1>1, <2>6, <3>1, <3>2, SubSeqTwice
    <2> QED BY <2>1, <2>2, <2>7
  <1> QED BY <1>3, <1>4

-----------------------------------------------------------------------------
(* Positions moved.                                                          *)

\* q is p, each number h higher.
Moved(p, q, h) ==
    /\ p \in Seq(Nat) /\ q \in Seq(Nat) /\ Len(p) = Len(q)
    /\ \A k \in 1..Len(p) : q[k] = p[k] + h

\* B are the positions in s that positions A of y are.
Placed(c, d, A, B) ==
    /\ A \in SUBSET (1..d - c + 1) /\ B \in SUBSET (c..d)
    /\ \A j \in 1..d - c + 1 : j \in A <=> c + j - 1 \in B

\* One more number.
LEMMA MovedStep ==
  ASSUME NEW p, NEW q, NEW h \in Nat, Moved(p, q, h), NEW x \in Nat
  PROVE  Moved(Append(p, x), Append(q, x + h), h)
  <1> DEFINE n == Len(p)
             u == Append(p, x)
             v == Append(q, x + h)
  <1>1. p \in Seq(Nat) /\ q \in Seq(Nat) /\ n = Len(q) /\ n \in Nat /\ x + h \in Nat
        /\ \A k \in 1..n : q[k] = p[k] + h
    BY DEF Moved
  <1>2. /\ u \in Seq(Nat) /\ v \in Seq(Nat) /\ Len(u) = n + 1 /\ Len(v) = n + 1
        /\ \A k \in 1..n : u[k] = p[k] /\ v[k] = q[k]
        /\ u[n + 1] = x /\ v[n + 1] = x + h
    BY <1>1
  <1> HIDE DEF n, u, v
  <1>3. \A k \in 1..n + 1 : k \in 1..n \/ k = n + 1
    BY <1>1
  <1>4. \A k \in 1..n + 1 : v[k] = u[k] + h
    BY <1>1, <1>2, <1>3
  <1>5. Moved(u, v, h)
    BY <1>2, <1>4 DEF Moved
  <1> QED BY <1>5 DEF u, v

\* The positions of a set come in the same order where the text stands in another.
LEMMA OrderMoved ==
  ASSUME NEW s, NEW c, NEW d, NEW y, Padded(s, c, d, y), NEW A, NEW B, Placed(c, d, A, B)
  PROVE  Moved(InOrder(y, A), InOrder(s, B), c - 1)
  <1> DEFINE n == Len(y)
             h == c - 1
             Fine(j) == Moved(InOrder(y, A \cap (1..j)), InOrder(s, B \cap (1..h + j)), h)
             In == {j \in 0..n : Fine(j)}
  <1>1. /\ IsSeq(s) /\ DOMAIN s = 1..Len(s) /\ Len(s) \in Nat /\ IsSeq(y) /\ DOMAIN y = 1..n
        /\ c \in Nat \ {0} /\ d \in Nat /\ d <= Len(s) /\ n = d - c + 1 /\ n \in Nat /\ h \in Nat
    <2>1. IsSeq(s)
      BY DEF Padded
    <2>2. c \in Nat \ {0} => c - 1 \in Nat
      OBVIOUS
    <2> QED BY <2>1, <2>2, PaddedFacts
  <1>2. /\ A \in SUBSET (1..n) /\ B \in SUBSET (c..d)
        /\ \A j \in 1..n : j \in A <=> h + j \in B
    <2>1. \A j \in 1..n : h + j = c + j - 1
      BY <1>1
    <2> QED BY <1>1, <2>1 DEF Placed
  <1> HIDE DEF n
  <1>3. 0 \in In
    <2>1. A \cap (1..0) = {} /\ B \cap (1..h + 0) = {}
      BY <1>1, <1>2
    <2>2. InOrder(y, {}) = <<>> /\ InOrder(s, {}) = <<>>
      BY <1>1, InOrderNone
    <2>3. \A e : e = <<>> => e \in Seq(Nat) /\ Len(e) = 0
      OBVIOUS
    <2>4. \A e, x : e = <<>> => Moved(e, e, x)
      <3>1. \A k : k \notin 1..0
        OBVIOUS
      <3> QED BY <2>3, <3>1 DEF Moved
    <2>5. Fine(0)
      BY <2>1, <2>2, <2>4
    <2> QED BY <1>1, <2>5
  <1>4. ASSUME NEW j \in 1..n, j - 1 \in In PROVE j \in In
    <2> DEFINE i == h + j
               a == A \cap (1..j - 1)
               b == B \cap (1..i - 1)
    <2>1. j \in 0..n /\ i \in 1..Len(s) /\ i - 1 = h + (j - 1) /\ j \in Nat /\ j + h = i
      BY <1>1
    <2>2. Moved(InOrder(y, a), InOrder(s, b), h)
      BY <1>4, <2>1
    <2>3. (j \in A <=> i \in B) /\ a \in SUBSET (1..j - 1) /\ b \in SUBSET (1..i - 1)
      BY <1>2
    <2>4. 1..j = (1..j - 1) \cup {j} /\ 1..i = (1..i - 1) \cup {i}
      BY <1>1, <2>1
    <2>5. Fine(j)
      <3>1. CASE j \in A
        <4>1. A \cap (1..j) = a \cup {j} /\ B \cap (1..i) = b \cup {i}
          BY <2>3, <2>4, <3>1
        <4> HIDE DEF i, a, b, h
        <4>2. InOrder(y, a \cup {j}) = Append(InOrder(y, a), j)
          <5>1. j \in 1..Len(y)
            BY DEF n
          <5> QED BY <1>1, <2>3, <5>1, InOrderAppend
        <4>3. InOrder(s, b \cup {i}) = Append(InOrder(s, b), i)
          BY <1>1, <2>1, <2>3, InOrderAppend
        <4>4. Moved(Append(InOrder(y, a), j), Append(InOrder(s, b), j + h), h)
          BY <1>1, <2>1, <2>2, MovedStep
        <4> QED BY <2>1, <4>1, <4>2, <4>3, <4>4 DEF i
      <3>2. CASE j \notin A
        <4>1. A \cap (1..j) = a /\ B \cap (1..i) = b
          BY <2>3, <2>4, <3>2
        <4> QED BY <2>2, <4>1
      <3> QED BY <3>1, <3>2
    <2> QED BY <2>1, <2>5
  <1>5. \A j \in 0..n : j \in In
    <2> HIDE DEF In
    <2> QED BY <1>1, <1>3, <1>4, InductionUpTo
  <1>6. Fine(n)
    BY <1>1, <1>5
  <1>7. InOrder(y, A \cap (1..n)) = InOrder(y, A)
    BY <1>1, <1>2, InOrderSame
  <1>8. InOrder(s, B \cap (1..h + n)) = InOrder(s, B)
    <2>1. (B \cap (1..h + n)) \cap DOMAIN s = B \cap DOMAIN s
      BY <1>1, <1>2
    <2> QED BY <1>1, <2>1, InOrderSame
  <1> QED BY <1>6, <1>7, <1>8

\* How many positions there are up to the next.
LEMMA OrderLength ==
  ASSUME NEW cmd, IsSeq(cmd), NEW S, NEW j \in 1..Len(cmd)
  PROVE  /\ Len(InOrder(cmd, S \cap (1..j - 1))) \in Nat
         /\ Len(InOrder(cmd, S \cap (1..j))) =
              IF j \in S THEN Len(InOrder(cmd, S \cap (1..j - 1))) + 1
              ELSE Len(InOrder(cmd, S \cap (1..j - 1)))
  <1> DEFINE a == S \cap (1..j - 1)
             p == InOrder(cmd, a)
  <1>1. a \in SUBSET (1..j - 1) /\ 1..j = (1..j - 1) \cup {j}
    BY DEF IsSeq
  <1>2. p \in Seq(DOMAIN cmd)
    BY InOrderType
  <1>3. CASE j \in S
    <2>1. S \cap (1..j) = a \cup {j}
      BY <1>1, <1>3
    <2> HIDE DEF a
    <2>2. InOrder(cmd, a \cup {j}) = Append(p, j)
      BY <1>1, InOrderAppend
    <2> HIDE DEF p
    <2>3. Len(Append(p, j)) = Len(p) + 1 /\ Len(p) \in Nat
      BY <1>2
    <2> QED BY <1>3, <2>1, <2>2, <2>3 DEF p, a
  <1>4. CASE j \notin S
    <2>1. S \cap (1..j) = a
      BY <1>1, <1>4
    <2>2. Len(p) \in Nat
      <3> HIDE DEF p
      <3> QED BY <1>2
    <2> QED BY <1>4, <2>1, <2>2
  <1> QED BY <1>3, <1>4

\* Every run has an end.
LEMMA AllBalanced ==
  ASSUME NEW cmd, IsSeq(cmd), NEW In \in SUBSET DOMAIN cmd
  PROVE  Balanced(cmd, In)
  <1> DEFINE n == Len(cmd)
             ss(j) == Len(InOrder(cmd, Starts(In) \cap (1..j)))
             ee(j) == Len(InOrder(cmd, Ends(In) \cap (1..j)))
             Inside(j) == j \in In /\ j + 1 \in In
             Fine == {j \in 0..n : ss(j) = IF Inside(j) THEN ee(j) + 1 ELSE ee(j)}
  <1>1. n \in Nat /\ DOMAIN cmd = 1..n /\ In \in SUBSET (1..n)
    BY DEF IsSeq
  <1>2. 0 \in Fine
    <2>1. Starts(In) \cap (1..0) = {} /\ Ends(In) \cap (1..0) = {} /\ ~Inside(0) /\ 0 \in 0..n
      BY <1>1
    <2>2. ss(0) = ee(0)
      BY <2>1
    <2> QED BY <2>1, <2>2
  <1>3. ASSUME NEW j \in 1..n, j - 1 \in Fine PROVE j \in Fine
    <2>1. j \in 0..n /\ (j - 1) + 1 = j /\ j \in Nat
      BY <1>1
    <2>2. /\ ss(j - 1) \in Nat /\ ss(j) = IF j \in Starts(In) THEN ss(j - 1) + 1 ELSE ss(j - 1)
          /\ ee(j - 1) \in Nat /\ ee(j) = IF j \in Ends(In) THEN ee(j - 1) + 1 ELSE ee(j - 1)
      BY OrderLength
    <2>3. ss(j - 1) = IF j - 1 \in In /\ j \in In THEN ee(j - 1) + 1 ELSE ee(j - 1)
      BY <1>3, <2>1
    <2>4. (j \in Starts(In) <=> j \in In /\ j - 1 \notin In)
          /\ (j \in Ends(In) <=> j \in In /\ j + 1 \notin In)
      BY DEF Starts, Ends
    <2> HIDE DEF ss, ee
    <2>5. ss(j) = IF Inside(j) THEN ee(j) + 1 ELSE ee(j)
      BY <2>2, <2>3, <2>4
    <2> QED BY <2>1, <2>5
  <1>4. \A j \in 0..n : j \in Fine
    <2> HIDE DEF Fine, n
    <2> QED BY <1>1, <1>2, <1>3, InductionUpTo
  <1>5. ss(n) = ee(n)
    <2>1. n \in Fine /\ ~Inside(n)
      BY <1>1, <1>4
    <2> QED BY <2>1
  <1>6. Starts(In) \cap (1..n) = Starts(In) /\ Ends(In) \cap (1..n) = Ends(In)
    BY <1>1 DEF Starts, Ends
  <1> QED BY <1>5, <1>6 DEF Balanced

\* Runs are moved as their positions are.
RunsAt(y, A, s, B, h) ==
    /\ DOMAIN Runs(s, B) = DOMAIN Runs(y, A)
    /\ \A k \in DOMAIN Runs(y, A) :
         /\ Runs(y, A)[k][1] \in 1..Len(y) /\ Runs(y, A)[k][2] \in 1..Len(y)
         /\ Runs(s, B)[k][1] = Runs(y, A)[k][1] + h
         /\ Runs(s, B)[k][2] = Runs(y, A)[k][2] + h

\* Runs are moved as their positions are.
LEMMA RunsMoved ==
  ASSUME NEW s, NEW c, NEW d, NEW y, Padded(s, c, d, y), NEW A, NEW B, Placed(c, d, A, B)
  PROVE  RunsAt(y, A, s, B, c - 1)
  <1> DEFINE n == Len(y)
             h == c - 1
             p == InOrder(y, Starts(A))
             q == InOrder(y, Ends(A))
             u == InOrder(s, Starts(B))
             v == InOrder(s, Ends(B))
  <1>1. IsSeq(s)
    BY DEF Padded
  <1>2. /\ DOMAIN s = 1..Len(s) /\ Len(s) \in Nat /\ IsSeq(y) /\ DOMAIN y = 1..n
        /\ c \in Nat \ {0} /\ d \in Nat /\ d <= Len(s) /\ n = d - c + 1 /\ n \in Nat
    BY PaddedFacts
  <1>3. h \in Nat /\ h + 1 = c /\ h + n = d
    BY <1>2
  <1> HIDE DEF n, h
  <1>4. /\ A \in SUBSET (1..n) /\ B \in SUBSET (c..d)
        /\ \A j \in 1..n : j \in A <=> j + h \in B
    <2>1. \A j \in 1..n : j + h = c + j - 1
      BY <1>2, <1>3
    <2> QED BY <1>2, <2>1 DEF Placed
  <1>5. 0 \notin A /\ n + 1 \notin A /\ h \notin B /\ d + 1 \notin B
    BY <1>2, <1>3, <1>4
  <1>6. ASSUME NEW j \in 1..n
        PROVE  /\ c + j - 1 = j + h
               /\ j + h \in B <=> j \in A
               /\ (j + h) - 1 \in B <=> j - 1 \in A
               /\ (j + h) + 1 \in B <=> j + 1 \in A
    <2>1. c + j - 1 = j + h
      BY <1>2, <1>3
    <2>2. (j + h) - 1 \in B <=> j - 1 \in A
      <3>1. CASE j = 1
        BY <1>2, <1>3, <1>5, <3>1
      <3>2. CASE j # 1
        <4>1. j - 1 \in 1..n /\ (j - 1) + h = (j + h) - 1
          BY <1>2, <1>3, <3>2
        <4> QED BY <1>4, <4>1
      <3> QED BY <3>1, <3>2
    <2>3. (j + h) + 1 \in B <=> j + 1 \in A
      <3>1. CASE j = n
        <4>1. (j + h) + 1 = d + 1
          BY <1>2, <1>3, <3>1
        <4> QED BY <1>5, <3>1, <4>1
      <3>2. CASE j # n
        <4>1. j + 1 \in 1..n /\ (j + 1) + h = (j + h) + 1
          BY <1>2, <1>3, <3>2
        <4> QED BY <1>4, <4>1
      <3> QED BY <3>1, <3>2
    <2> QED BY <1>4, <2>1, <2>2, <2>3
  <1>7. Starts(A) \in SUBSET (1..n) /\ Starts(B) \in SUBSET (c..d)
        /\ Ends(A) \in SUBSET (1..n) /\ Ends(B) \in SUBSET (c..d)
    BY <1>4 DEF Starts, Ends
  <1>8. \A j \in 1..n : /\ j \in Starts(A) <=> c + j - 1 \in Starts(B)
                        /\ j \in Ends(A) <=> c + j - 1 \in Ends(B)
    BY <1>6 DEF Starts, Ends
  <1>9. Placed(c, d, Starts(A), Starts(B)) /\ Placed(c, d, Ends(A), Ends(B))
    BY <1>2, <1>7, <1>8 DEF Placed
  <1>10. Moved(p, u, h) /\ Moved(q, v, h)
    BY <1>9, OrderMoved DEF h
  <1>11. Balanced(y, A) /\ Balanced(s, B)
    <2>1. A \in SUBSET DOMAIN y /\ B \in SUBSET DOMAIN s
      BY <1>2, <1>4
    <2> QED BY <1>1, <1>2, <2>1, AllBalanced
  <1>12. /\ Runs(y, A) \in Seq((DOMAIN y) \X (DOMAIN y)) /\ Len(Runs(y, A)) = Len(p)
         /\ \A k \in 1..Len(Runs(y, A)) : Runs(y, A)[k] = <<p[k], q[k]>>
    BY <1>2, <1>11, RunsType
  <1>13. /\ Runs(s, B) \in Seq((DOMAIN s) \X (DOMAIN s)) /\ Len(Runs(s, B)) = Len(u)
         /\ \A k \in 1..Len(Runs(s, B)) : Runs(s, B)[k] = <<u[k], v[k]>>
    BY <1>1, <1>11, RunsType
  <1>14. p \in Seq(1..n) /\ q \in Seq(1..n) /\ Len(q) = Len(p)
    BY <1>2, <1>11, InOrderType DEF Balanced
  <1> HIDE DEF p, q, u, v
  <1>15. DOMAIN Runs(y, A) = 1..Len(p) /\ DOMAIN Runs(s, B) = 1..Len(p)
    BY <1>10, <1>12, <1>13 DEF Moved
  <1>16. ASSUME NEW k \in 1..Len(p)
         PROVE  /\ p[k] \in 1..n /\ q[k] \in 1..n /\ u[k] = p[k] + h /\ v[k] = q[k] + h
                /\ Runs(y, A)[k] = <<p[k], q[k]>> /\ Runs(s, B)[k] = <<u[k], v[k]>>
    <2>1. u[k] = p[k] + h /\ v[k] = q[k] + h
      BY <1>10, <1>14 DEF Moved
    <2>2. p[k] \in 1..n /\ q[k] \in 1..n
      <3>1. \A S : \A t \in Seq(S) : \A i \in 1..Len(t) : t[i] \in S
        OBVIOUS
      <3>2. k \in 1..Len(q)
        BY <1>14
      <3> QED BY <1>14, <3>1, <3>2
    <2>3. Runs(y, A)[k] = <<p[k], q[k]>>
      BY <1>12
    <2>4. Len(u) = Len(p)
      BY <1>10 DEF Moved
    <2>5. Runs(s, B)[k] = <<u[k], v[k]>>
      BY <1>13, <2>4
    <2> QED BY <2>1, <2>2, <2>3, <2>5
  <1>17. RunsAt(y, A, s, B, h)
    BY <1>15, <1>16 DEF RunsAt, n
  <1> QED BY <1>17 DEF h

\* What is between two positions of y is in s at the positions moved.
PartsAt(y, s, h) ==
    \A e \in 1..Len(y) + 1, f \in 0..Len(y) : SubSeq(y, e, f) = SubSeq(s, e + h, f + h)

\* So it is in a padded text.
LEMMA PaddedParts ==
  ASSUME NEW s, NEW c, NEW d, NEW y, Padded(s, c, d, y)
  PROVE  PartsAt(y, s, c - 1)
  <1> SUFFICES ASSUME NEW e \in 1..Len(y) + 1, NEW f \in 0..Len(y)
               PROVE  SubSeq(y, e, f) = SubSeq(s, e + (c - 1), f + (c - 1))
    BY DEF PartsAt
  <1>1. /\ s \in Seq(ToSet(s)) /\ Len(s) \in Nat /\ y \in Seq(ToSet(s)) /\ Len(y) = d - c + 1
        /\ Len(y) \in Nat /\ c \in Nat \ {0} /\ d \in Nat /\ d <= Len(s) /\ c <= d + 1
    BY PaddedFacts
  <1>2. CASE e <= f
    <2>1. d \in c..Len(s) /\ e \in 1..d - c + 1 /\ f \in e..d - c + 1
          /\ c + e - 1 = e + (c - 1) /\ c + f - 1 = f + (c - 1)
      BY <1>1, <1>2
    <2>2. y = SubSeq(s, c, d)
      BY DEF Padded
    <2> QED BY <1>1, <2>1, <2>2, SubSeqTwice
  <1>3. CASE e > f
    <2>1. SubSeq(y, e, f) = <<>>
      BY <1>1, <1>3, SubSeqType
    <2> DEFINE a == e + (c - 1)
               b == f + (c - 1)
    <2>2. a \in Nat \ {0} /\ b \in 0..Len(s) /\ a > b
      BY <1>1, <1>3
    <2> HIDE DEF a, b
    <2>3. SubSeq(s, a, b) = <<>>
      BY <1>1, <2>2, SubSeqType
    <2> QED BY <2>1, <2>3 DEF a, b
  <1> QED BY <1>1, <1>2, <1>3

-----------------------------------------------------------------------------
(* Blanks around a command mean nothing to shlex.                            *)

\* Before the text nothing is quoted, in it the same as in it alone, and after it
\* what is left open at its end.
SameQuotes(s, c, d, y) ==
    /\ \A i \in 1..c : OpenQuotes(s)[i] = "none"
    /\ \A j \in 1..Len(y) + 1 : OpenQuotes(y)[j] = OpenQuotes(s)[c + j - 1]
    /\ \A i \in d + 1..Len(s) + 1 : OpenQuotes(s)[i] = OpenQuotes(s)[d + 1]

\* Quotes are read so, as the text begins outside of them.
LEMMA QuotesPadded ==
  ASSUME NEW s, NEW c, NEW d, NEW y, Padded(s, c, d, y), c <= d
  PROVE  /\ SameQuotes(s, c, d, y)
         /\ OuterPart(s, OpenQuotes(s), c, d, y)
  <1> DEFINE open == OpenQuotes(s)
             n == Len(s)
  <1>1. IsSeq(s)
    BY DEF Padded
  <1>2. /\ Len(s) \in Nat /\ c \in Nat \ {0} /\ d \in Nat /\ d <= Len(s) /\ IsSeq(y)
        /\ \A i \in 1..Len(s) : i < c \/ i > d => s[i] = Blank
    BY PaddedFacts
  <1>3. QuotesOpen(open, s)
    BY <1>1, QuotesFold
  <1> HIDE DEF open
  <1>4. ASSUME NEW i \in 1..c PROVE open[i] = "none" /\ Depth(s, open, i) = 0
    <2>1. i \in 1..Len(s) /\ 1 \in 1..Len(s) /\ \A k \in 1..i - 1 : s[k] = Blank
      BY <1>2
    <2>2. open[1] = "none" /\ Depth(s, open, 1) = 0
      BY <1>1, <1>3, DepthStart DEF QuotesOpen
    <2>3. i \in 1..Len(s) /\ i \in Nat
      BY <1>2
    <2> QED BY <1>1, <1>3, <2>1, <2>2, <2>3, OverBlanks
  <1>5. OuterPart(s, open, c, d, y)
    <2>1. c \in 1..Len(s) /\ d \in c..Len(s) /\ c \in 1..c
      BY <1>2
    <2>2. y = SubSeq(s, c, d)
      BY DEF Padded
    <2> QED BY <1>4, <2>1, <2>2 DEF OuterPart
  <1>6. \A j \in 1..Len(y) + 1 : OpenQuotes(y)[j] = open[c + j - 1]
    <2>1. QuotesOpen(OpenQuotes(y), y)
      BY <1>2, QuotesFold
    <2>2. \A j \in 1..Len(y) + 1 : Reads(s, open, y, OpenQuotes(y), c, j)
      BY <1>1, <1>3, <1>5, <2>1, PartReads
    <2> QED BY <2>2 DEF Reads
  <1> DEFINE m == n - d
             Fine == {k \in 0..m : open[d + 1 + k] = open[d + 1]}
  <1>7. m \in Nat /\ 0 \in Fine
    BY <1>2
  <1>8. ASSUME NEW k \in 1..m, k - 1 \in Fine PROVE k \in Fine
    <2> DEFINE i == d + k
    <2>1. i \in 1..n /\ d + 1 + (k - 1) = i /\ d + 1 + k = i + 1 /\ i > d /\ k \in 0..m
      BY <1>2, <1>7
    <2>2. open[i] = open[d + 1] /\ s[i] = Blank
      BY <1>2, <1>8, <2>1
    <2>3. open[i + 1] = NextQuote(open[i], s[i]) /\ open[i] \in Quotes \cup {"none"}
      BY <1>3, <2>1 DEF QuotesOpen
    <2>4. NextQuote(open[i], Blank) = open[i]
      BY <2>3 DEF NextQuote, Blank, Quotes
    <2> QED BY <2>1, <2>2, <2>3, <2>4
  <1>9. \A k \in 0..m : k \in Fine
    <2> HIDE DEF Fine, m
    <2> QED BY <1>7, <1>8, InductionUpTo
  <1>10. ASSUME NEW i \in d + 1..n + 1 PROVE open[i] = open[d + 1]
    <2>1. i - d - 1 \in 0..m /\ d + 1 + (i - d - 1) = i
      BY <1>2
    <2>2. i - d - 1 \in Fine
      BY <1>9, <2>1
    <2> QED BY <2>1, <2>2
  <1>11. SameQuotes(s, c, d, y)
    BY <1>4, <1>6, <1>10 DEF SameQuotes, open, n
  <1> QED BY <1>5, <1>11 DEF open

\* The symbols at some positions are those at the positions moved.
LEMMA SymbolsPadded ==
  ASSUME NEW s, NEW c, NEW d, NEW y, Padded(s, c, d, y),
         NEW A, NEW B, \A j \in 1..Len(y) : j \in A <=> c + j - 1 \in B,
         NEW e \in 1..Len(y), NEW f \in 1..Len(y)
  PROVE  Symbols(s, e + (c - 1), f + (c - 1), B) = Symbols(y, e, f, A)
  <1> DEFINE n == Len(y)
             h == c - 1
             P == A \cap (e..f)
             Q == B \cap (e + h..f + h)
             p == InOrder(y, P)
             q == InOrder(s, Q)
  <1>1. /\ c \in Nat \ {0} /\ d \in Nat /\ n = d - c + 1 /\ n \in Nat /\ DOMAIN y = 1..n
        /\ IsSeq(y) /\ \A j \in 1..n : y[j] = s[c + j - 1]
    BY PaddedFacts
  <1>2. h \in Nat /\ c + e - 1 = e + h /\ e \in Nat /\ f \in Nat /\ e <= n /\ f <= n /\ e > 0
    BY <1>1
  <1> HIDE DEF n, h
  <1>3. \A j \in 1..n : c + j - 1 = j + h
    BY <1>1 DEF h
  <1>4. P \in SUBSET (1..n) /\ Q \in SUBSET (c..d)
    <2>1. \A i \in e + h..f + h : i \in c..d
      BY <1>1, <1>2 DEF h
    <2>2. \A i \in e..f : i \in 1..n
      BY <1>1, <1>2
    <2> QED BY <2>1, <2>2
  <1>5. \A j \in 1..n : j \in P <=> c + j - 1 \in Q
    <2>1. \A j \in 1..n : j \in e..f <=> j + h \in e + h..f + h
      BY <1>1, <1>2
    <2> QED BY <1>3, <2>1 DEF n
  <1>6. Placed(c, d, P, Q)
    BY <1>1, <1>4, <1>5 DEF Placed
  <1>7. Moved(p, q, h)
    BY <1>6, OrderMoved DEF h
  <1>8. p \in Seq(1..n)
    BY <1>1, InOrderType
  <1> HIDE DEF p, q, P, Q
  <1>9. /\ DOMAIN p = 1..Len(p) /\ DOMAIN q = 1..Len(p)
        /\ \A k \in 1..Len(p) : p[k] \in 1..n /\ q[k] = p[k] + h
    <2>1. \A S : \A t \in Seq(S) : \A i \in 1..Len(t) : t[i] \in S
      OBVIOUS
    <2>2. \A S : \A t \in Seq(S) : DOMAIN t = 1..Len(t)
      OBVIOUS
    <2>3. q \in Seq(Nat) /\ Len(p) = Len(q) /\ \A k \in 1..Len(p) : q[k] = p[k] + h
      BY <1>7 DEF Moved
    <2>4. \A k \in 1..Len(p) : p[k] \in 1..n
      BY <1>8, <2>1
    <2>5. DOMAIN p = 1..Len(p) /\ DOMAIN q = 1..Len(q)
      BY <1>8, <2>2, <2>3
    <2> QED BY <2>3, <2>4, <2>5
  <1>10. \A k \in 1..Len(p) : s[q[k]] = y[p[k]]
    BY <1>1, <1>3, <1>9
  <1>11. [k \in DOMAIN q |-> s[q[k]]] = [k \in DOMAIN p |-> y[p[k]]]
    BY <1>9, <1>10
  <1> QED BY <1>11 DEF Symbols, p, q, P, Q, h

\* So the arguments are the same.
LEMMA ArgsPadded ==
  ASSUME NEW s, NEW c, NEW d, NEW y, Padded(s, c, d, y), c <= d
  PROVE  SplitCommandArgs(s) = SplitCommandArgs(y)
  <1> DEFINE open == OpenQuotes(s)
             opened == OpenQuotes(y)
             h == c - 1
             solid == {i \in DOMAIN s : s[i] # Blank \/ open[i] # "none"}
             firm == {j \in DOMAIN y : y[j] # Blank \/ opened[j] # "none"}
             Kept == DOMAIN s \ Marks(s, open)
             Left == DOMAIN y \ Marks(y, opened)
  <1>1. /\ Len(s) \in Nat /\ c \in Nat \ {0} /\ d \in Nat /\ d <= Len(s) /\ IsSeq(y)
        /\ DOMAIN s = 1..Len(s) /\ DOMAIN y = 1..Len(y) /\ Len(y) = d - c + 1 /\ Len(y) \in Nat
        /\ \A j \in 1..Len(y) : y[j] = s[c + j - 1]
        /\ \A i \in 1..Len(s) : i < c \/ i > d => s[i] = Blank
    BY PaddedFacts
  <1>2. IsSeq(s)
    BY DEF Padded
  <1>3. /\ \A i \in 1..c : open[i] = "none"
        /\ \A j \in 1..Len(y) + 1 : opened[j] = open[c + j - 1]
        /\ \A i \in d + 1..Len(s) + 1 : open[i] = open[d + 1]
    BY QuotesPadded DEF SameQuotes
  <1>4. Len(open) = Len(s) + 1 /\ Len(opened) = Len(y) + 1
    BY <1>1, <1>2, QuotesFold DEF QuotesOpen
  <1> HIDE DEF open, opened
  <1>5. open[Len(open)] = opened[Len(opened)]
    <2>1. Len(s) + 1 \in d + 1..Len(s) + 1 /\ Len(y) + 1 \in 1..Len(y) + 1
          /\ c + (Len(y) + 1) - 1 = d + 1
      BY <1>1
    <2> QED BY <1>3, <1>4, <2>1
  <1>6. CASE open[Len(open)] # "none"
    BY <1>5, <1>6 DEF SplitCommandArgs, open, opened
  <1>7. CASE open[Len(open)] = "none"
    <2>1. open[d + 1] = "none"
      <3>1. Len(s) + 1 \in d + 1..Len(s) + 1
        BY <1>1
      <3> QED BY <1>3, <1>4, <1>7, <3>1
    <2>2. solid \in SUBSET (c..d)
      <3> SUFFICES ASSUME NEW i \in 1..Len(s), i < c \/ i > d
                   PROVE  s[i] = Blank /\ open[i] = "none"
        BY <1>1
      <3>1. i \in 1..c \/ i \in d + 1..Len(s) + 1
        BY <1>1
      <3> QED BY <1>1, <1>3, <2>1, <3>1
    <2>3. \A j \in 1..Len(y) : c + j - 1 \in 1..Len(s) /\ j \in 1..Len(y) + 1
                               /\ j + 1 \in 1..Len(y) + 1 /\ c + (j + 1) - 1 = (c + j - 1) + 1
      BY <1>1
    <2>4. \A j \in 1..Len(y) : j \in firm <=> c + j - 1 \in solid
      BY <1>1, <1>3, <2>3
    <2>5. \A j \in 1..Len(y) : j \in Left <=> c + j - 1 \in Kept
      <3>1. \A j \in 1..Len(y) : opened[j] = open[c + j - 1]
                                 /\ opened[j + 1] = open[(c + j - 1) + 1]
        <4> SUFFICES ASSUME NEW j \in 1..Len(y)
                     PROVE  /\ opened[j] = open[c + j - 1]
                            /\ opened[j + 1] = open[(c + j - 1) + 1]
          OBVIOUS
        <4>1. /\ j \in 1..Len(y) + 1 /\ j + 1 \in 1..Len(y) + 1
              /\ c + (j + 1) - 1 = (c + j - 1) + 1
          BY <2>3
        <4> QED BY <1>3, <4>1
      <3> QED BY <1>1, <2>3, <3>1 DEF Marks
    <2>6. Placed(c, d, firm, solid)
      <3>1. firm \in SUBSET (1..d - c + 1)
        BY <1>1
      <3>2. \A j \in 1..d - c + 1 : j \in firm <=> c + j - 1 \in solid
        BY <1>1, <2>4
      <3> HIDE DEF firm, solid
      <3> QED BY <2>2, <3>1, <3>2 DEF Placed
    <2>7. RunsAt(y, firm, s, solid, h)
      BY <2>6, RunsMoved
    <2> HIDE DEF firm, solid, Kept, Left
    <2>8. \A k \in DOMAIN Runs(y, firm) :
             Symbols(s, Runs(s, solid)[k][1], Runs(s, solid)[k][2], Kept)
               = Symbols(y, Runs(y, firm)[k][1], Runs(y, firm)[k][2], Left)
      <3> TAKE k \in DOMAIN Runs(y, firm)
      <3> DEFINE e == Runs(y, firm)[k][1]
                 f == Runs(y, firm)[k][2]
      <3>1. /\ e \in 1..Len(y) /\ f \in 1..Len(y)
            /\ Runs(s, solid)[k][1] = e + h /\ Runs(s, solid)[k][2] = f + h
        BY <2>7 DEF RunsAt
      <3> HIDE DEF e, f
      <3>2. Symbols(s, e + h, f + h, Kept) = Symbols(y, e, f, Left)
        BY <2>5, <3>1, SymbolsPadded
      <3> QED BY <3>1, <3>2 DEF e, f
    <2>9. [k \in DOMAIN Runs(s, solid) |->
             Symbols(s, Runs(s, solid)[k][1], Runs(s, solid)[k][2], Kept)]
          = [k \in DOMAIN Runs(y, firm) |->
               Symbols(y, Runs(y, firm)[k][1], Runs(y, firm)[k][2], Left)]
      BY <2>7, <2>8 DEF RunsAt
    <2> QED BY <1>5, <1>7, <2>9 DEF SplitCommandArgs, open, opened, solid, firm, Kept, Left
  <1> QED BY <1>6, <1>7

-----------------------------------------------------------------------------
(* Nor to the checks on substrings.                                          *)

\* Blanks put around a text pad it.
LEMMA ConcatPadded ==
  ASSUME NEW T, Blank \in T, NEW p \in Seq({Blank}), NEW y \in Seq(T), NEW q \in Seq({Blank})
  PROVE  Padded(p \o (y \o q), Len(p) + 1, Len(p) + Len(y), y)
  <1> DEFINE r == y \o q
             s == p \o r
             m == Len(p)
             n == Len(y)
             c == m + 1
             d == m + n
  <1>1. p \in Seq(T) /\ q \in Seq(T)
    OBVIOUS
  <1>2. m \in Nat /\ n \in Nat /\ Len(q) \in Nat
        /\ (\A i \in 1..m : p[i] = Blank) /\ (\A i \in 1..Len(q) : q[i] = Blank)
    OBVIOUS
  <1>3. /\ r \in Seq(T) /\ Len(r) = n + Len(q) /\ \A i \in 1..n : r[i] = y[i]
        /\ \A i \in 1..Len(q) : r[n + i] = q[i]
    BY <1>1, ConcatType
  <1> HIDE DEF r
  <1>4. /\ s \in Seq(T) /\ Len(s) = m + Len(r) /\ \A i \in 1..m : s[i] = p[i]
        /\ \A i \in 1..Len(r) : s[m + i] = r[i]
    <2>0. p \in Seq(T) /\ r \in Seq(T)
      BY <1>1, <1>3
    <2>1. /\ p \o r \in Seq(T) /\ Len(p \o r) = Len(p) + Len(r)
          /\ \A i \in 1..Len(p) : (p \o r)[i] = p[i]
          /\ \A i \in 1..Len(r) : (p \o r)[Len(p) + i] = r[i]
      BY <2>0, ConcatType
    <2> QED BY <2>1
  <1> HIDE DEF s, m, n
  <1>5. IsSeq(s)
    BY <1>4, SeqIsSeq
  <1>6. c \in 1..Len(s) + 1 /\ d \in c - 1..Len(s) /\ c \in Nat \ {0} /\ d \in 0..Len(s)
        /\ d - c + 1 = n
    BY <1>2, <1>3, <1>4
  <1> HIDE DEF c, d
  <1>10. c = m + 1 /\ d = m + n
    BY DEF c, d
  <1>7. \A i \in 1..Len(s) : i < c \/ i > d => s[i] = Blank
    <2> SUFFICES ASSUME NEW i \in 1..Len(s), i < c \/ i > d PROVE s[i] = Blank
      OBVIOUS
    <2>1. CASE i < c
      <3>1. i \in 1..m
        BY <1>2, <1>10, <2>1
      <3> QED BY <1>2, <1>4, <3>1
    <2>2. CASE i > d
      <3> DEFINE k == i - d
      <3>1. k \in 1..Len(q) /\ n + k \in 1..Len(r) /\ m + (n + k) = i
        BY <1>2, <1>3, <1>4, <1>10, <2>2
      <3> HIDE DEF k
      <3>2. s[m + (n + k)] = r[n + k] /\ r[n + k] = q[k] /\ q[k] = Blank
        BY <1>2, <1>3, <1>4, <3>1
      <3> QED BY <3>1, <3>2
    <2> QED BY <2>1, <2>2
  <1>8. y = SubSeq(s, c, d)
    <2> DEFINE t == SubSeq(s, c, d)
    <2>1. /\ t \in Seq(T) /\ (c <= d => Len(t) = d - c + 1) /\ (c > d => t = <<>>)
          /\ \A j \in 1..d - c + 1 : t[j] = s[c + j - 1]
      BY <1>4, <1>6, SubSeqType
    <2> HIDE DEF t
    <2>2. Len(t) = n
      <3>1. \A e : e = <<>> => Len(e) = 0
        OBVIOUS
      <3>2. c > d => n = 0
        BY <1>2, <1>10
      <3>3. c <= d \/ c > d
        BY <1>2, <1>10
      <3> QED BY <1>6, <2>1, <3>1, <3>2, <3>3
    <2>3. ASSUME NEW j \in 1..n PROVE t[j] = y[j]
      <3>1. c + j - 1 = m + j /\ j \in 1..Len(r) /\ j \in 1..d - c + 1
        BY <1>2, <1>3, <1>10
      <3>2. s[m + j] = r[j] /\ r[j] = y[j]
        BY <1>3, <1>4, <3>1
      <3>3. t[j] = s[c + j - 1]
        BY <2>1, <3>1
      <3> QED BY <3>1, <3>2, <3>3
    <2>4. t = y
      BY <2>1, <2>2, <2>3, SameElements DEF n
    <2> QED BY <2>4 DEF t
  <1>9. Padded(s, c, d, y)
    BY <1>5, <1>6, <1>7, <1>8 DEF Padded
  <1> QED BY <1>9 DEF s, r, c, d, m, n

\* A padded text is such.
LEMMA PaddedConcat ==
  ASSUME NEW s, NEW c, NEW d, NEW y, Padded(s, c, d, y)
  PROVE  \E p, q \in Seq({Blank}) : s = p \o (y \o q) /\ \A T : s \in Seq(T) => p \in Seq(T) /\ q \in Seq(T)
  <1> DEFINE T == ToSet(s)
             n == Len(s)
             p == SubSeq(s, 1, c - 1)
             r == SubSeq(s, c, n)
             q == SubSeq(s, d + 1, n)
  <1>1. /\ s \in Seq(T) /\ n \in Nat /\ c \in Nat \ {0} /\ d \in Nat /\ d <= n /\ c <= d + 1
        /\ \A i \in 1..n : i < c \/ i > d => s[i] = Blank
    BY PaddedFacts
  <1> HIDE DEF T, n
  <1>2. s = SubSeq(s, 1, n)
    BY <1>1 DEF n
  <1>3. SubSeq(s, 1, n) = p \o r
    <2>1. 1 \in Nat \ {0} /\ n \in 0..n /\ c - 1 \in 1 - 1..n /\ (c - 1) + 1 = c
      BY <1>1
    <2>2. SubSeq(s, 1, n) = SubSeq(s, 1, c - 1) \o SubSeq(s, (c - 1) + 1, n)
      BY <1>1, <2>1, CutInTwo DEF n
    <2> QED BY <2>1, <2>2
  <1>4. r = y \o q
    <2>1. n \in 0..n /\ d \in c - 1..n
      BY <1>1
    <2>2. r = SubSeq(s, c, d) \o q
      BY <1>1, <2>1, CutInTwo DEF n
    <2>3. y = SubSeq(s, c, d)
      BY DEF Padded
    <2> QED BY <2>2, <2>3
  <1>5. ASSUME NEW a \in Nat \ {0}, NEW b \in 0..n, \A i \in a..b : s[i] = Blank,
               NEW x, x = SubSeq(s, a, b)
        PROVE  x \in Seq({Blank})
    <2>1. /\ x \in Seq(T) /\ (a <= b => Len(x) = b - a + 1) /\ (a > b => x = <<>>)
          /\ \A j \in 1..b - a + 1 : x[j] = s[a + j - 1]
      BY <1>1, <1>5, SubSeqType DEF n
    <2>2. \A j \in 1..b - a + 1 : a + j - 1 \in a..b
      BY <1>5
    <2>3. \A j \in 1..b - a + 1 : x[j] = Blank
      BY <1>5, <2>1, <2>2
    <2>4. CASE a <= b
      <3>1. \A j \in 1..Len(x) : x[j] \in {Blank}
        BY <2>1, <2>3, <2>4
      <3> QED BY <2>1, <3>1
    <2>5. CASE a > b
      <3>1. \A e : e = <<>> => e \in Seq({Blank})
        OBVIOUS
      <3> QED BY <2>1, <2>5, <3>1
    <2> QED BY <1>5, <2>4, <2>5
  <1>6. p \in Seq({Blank}) /\ q \in Seq({Blank})
    <2>1. 1 \in Nat \ {0} /\ c - 1 \in 0..n /\ d + 1 \in Nat \ {0} /\ n \in 0..n
      BY <1>1
    <2>2. (\A i \in 1..c - 1 : s[i] = Blank) /\ (\A i \in d + 1..n : s[i] = Blank)
      BY <1>1
    <2> QED BY <1>5, <2>1, <2>2
  <1>7. \A U : s \in Seq(U) => p \in Seq(U) /\ q \in Seq(U)
    <2> TAKE U
    <2> HAVE s \in Seq(U)
    <2>1. 1 \in Nat \ {0} /\ c - 1 \in 0..Len(s) /\ d + 1 \in Nat \ {0} /\ n \in 0..Len(s)
      BY <1>1 DEF n
    <2> QED BY <2>1, SubSeqType
  <1> HIDE DEF p, q, r
  <1> QED BY <1>2, <1>3, <1>4, <1>6, <1>7

\* What is kept of a padded text is padded.
LEMMA AmongPadded ==
  ASSUME NEW s, NEW c, NEW d, NEW y, Padded(s, c, d, y), NEW K
  PROVE  \E a, b : Padded(Among(s, K), a, b, Among(y, K))
  <1> DEFINE T == ToSet(s) \cup {Blank}
  <1>1. s \in Seq(T) /\ y \in Seq(T) /\ Blank \in T
    <2>1. s \in Seq(ToSet(s)) /\ y \in Seq(ToSet(s))
      BY PaddedFacts
    <2>2. \A S : \A t \in Seq(S) : t \in Seq(S \cup {Blank})
      OBVIOUS
    <2> QED BY <2>1, <2>2
  <1> HIDE DEF T
  <1>2. PICK p \in Seq({Blank}), q \in Seq({Blank}) :
           s = p \o (y \o q) /\ \A U : s \in Seq(U) => p \in Seq(U) /\ q \in Seq(U)
    BY PaddedConcat
  <1>3. p \in Seq(T) /\ q \in Seq(T) /\ y \o q \in Seq(T)
    BY <1>1, <1>2, ConcatType
  <1>4. Among(y \o q, K) = Among(y, K) \o Among(q, K)
    <2>1. y \in Seq(T) /\ q \in Seq(T)
      BY <1>1, <1>3
    <2> QED BY <2>1, AmongConcat
  <1>5. Among(s, K) = Among(p, K) \o Among(y \o q, K)
    <2> DEFINE r == y \o q
    <2>1. r \in Seq(T) /\ s = p \o r
      BY <1>2, <1>3
    <2> HIDE DEF r
    <2>2. p \in Seq(T) /\ r \in Seq(T)
      BY <1>3, <2>1
    <2>3. Among(p \o r, K) = Among(p, K) \o Among(r, K)
      BY <2>2, AmongConcat
    <2> QED BY <2>1, <2>3 DEF r
  <1>6. Among(p, K) \in Seq({Blank}) /\ Among(q, K) \in Seq({Blank}) /\ Among(y, K) \in Seq(T)
    BY <1>1, <1>2, AmongType
  <1> QED BY <1>1, <1>4, <1>5, <1>6, ConcatPadded

\* The tokens and the normalized command are the same.
LEMMA TokensPadded ==
  ASSUME NEW s, NEW c, NEW d, NEW y, Padded(s, c, d, y)
  PROVE  Tokens(s) = Tokens(y) /\ NormalizeCommand(s) = NormalizeCommand(y)
  <1> DEFINE bare == Among(s, ToSet(s) \ Quotes)
             left == Among(y, ToSet(y) \ Quotes)
             solid == {i \in DOMAIN bare : bare[i] # Blank}
             firm == {j \in DOMAIN left : left[j] # Blank}
  <1>1. /\ IsSeq(y) /\ y \in Seq(ToSet(s)) /\ Len(y) \in Nat /\ DOMAIN y = 1..Len(y)
    BY PaddedFacts
  <1>2. left = Among(y, ToSet(s) \ Quotes)
    <2>1. \A k \in 1..Len(y) : y[k] \in ToSet(y) /\ y[k] \in ToSet(s)
      BY <1>1 DEF ToSet
    <2>2. \A k \in 1..Len(y) : y[k] \in ToSet(y) \ Quotes <=> y[k] \in ToSet(s) \ Quotes
      BY <2>1
    <2> QED BY <1>1, <2>2, AmongSame
  <1>3. PICK a, b : Padded(bare, a, b, left)
    BY <1>2, AmongPadded
  <1> HIDE DEF bare, left
  <1>4. /\ DOMAIN bare = 1..Len(bare) /\ Len(bare) \in Nat /\ DOMAIN left = 1..Len(left)
        /\ Len(left) = b - a + 1 /\ Len(left) \in Nat /\ a \in Nat \ {0} /\ b \in Nat /\ b <= Len(bare)
        /\ \A j \in 1..Len(left) : left[j] = bare[a + j - 1]
        /\ \A i \in 1..Len(bare) : i < a \/ i > b => bare[i] = Blank
    BY <1>3, PaddedFacts
  <1>5. Placed(a, b, firm, solid)
    <2>1. firm \in SUBSET (1..b - a + 1) /\ solid \in SUBSET (a..b)
      BY <1>4
    <2>2. \A j \in 1..b - a + 1 : j \in firm <=> a + j - 1 \in solid
      BY <1>4
    <2> HIDE DEF firm, solid
    <2> QED BY <2>1, <2>2 DEF Placed
  <1>6. RunsAt(left, firm, bare, solid, a - 1)
    BY <1>3, <1>5, RunsMoved
  <1> HIDE DEF firm, solid
  <1>10. PartsAt(left, bare, a - 1)
    BY <1>3, PaddedParts
  <1>7. \A k \in DOMAIN Runs(left, firm) :
           SubSeq(bare, Runs(bare, solid)[k][1], Runs(bare, solid)[k][2])
             = SubSeq(left, Runs(left, firm)[k][1], Runs(left, firm)[k][2])
    <2> TAKE k \in DOMAIN Runs(left, firm)
    <2> DEFINE e == Runs(left, firm)[k][1]
               f == Runs(left, firm)[k][2]
    <2>1. /\ e \in 1..Len(left) /\ f \in 0..Len(left)
          /\ Runs(bare, solid)[k][1] = e + (a - 1) /\ Runs(bare, solid)[k][2] = f + (a - 1)
      BY <1>4, <1>6 DEF RunsAt
    <2> HIDE DEF e, f
    <2>2. SubSeq(left, e, f) = SubSeq(bare, e + (a - 1), f + (a - 1))
      <3>1. e \in 1..Len(left) + 1
        BY <1>4, <2>1
      <3> QED BY <1>10, <2>1, <3>1 DEF PartsAt
    <2> QED BY <2>1, <2>2 DEF e, f
  <1>8. [k \in DOMAIN Runs(bare, solid) |->
            SubSeq(bare, Runs(bare, solid)[k][1], Runs(bare, solid)[k][2])]
        = [k \in DOMAIN Runs(left, firm) |->
            SubSeq(left, Runs(left, firm)[k][1], Runs(left, firm)[k][2])]
    BY <1>6, <1>7 DEF RunsAt
  <1>9. Tokens(s) = Tokens(y)
    BY <1>8 DEF Tokens, bare, left, solid, firm
  <1> QED BY <1>9 DEF NormalizeCommand

-----------------------------------------------------------------------------
(* Nor to the scan.                                                          *)

\* A blank changes nothing.
LEMMA BlankTurn ==
  ASSUME NEW T, NEW cmd \in Seq(T), NEW s \in States(T), NEW i \in 1..Len(cmd),
         cmd[i] = Blank, s.skip = FALSE
  PROVE  Consume(cmd, s, i) = s
  <1>1. cmd[i] \notin Quotes /\ cmd[i] # Tick /\ cmd[i] # "$" /\ cmd[i] \notin Parens
        /\ cmd[i] \notin Chain
    BY DEF Blank, Quotes, Tick, Parens, Chain
  <1>2. ~(OperatorLength(cmd, i) > 0)
    BY <1>1, OperatorLengths
  <1> QED BY <1>1, <1>2 DEF Consume

\* Before the text the scan is where it starts.
LEMMA PadStart ==
  ASSUME NEW s, NEW c, NEW d, NEW y, Padded(s, c, d, y), c <= d, NEW st, ScanTable(st, s)
  PROVE  st[c - 1] = ScanStart
  <1> DEFINE h == c - 1
             T == ToSet(s)
             Fine == {k \in 0..h : st[k] = ScanStart}
  <1>1. /\ s \in Seq(T) /\ Len(s) \in Nat /\ c \in Nat \ {0} /\ d \in Nat /\ d <= Len(s)
        /\ \A i \in 1..Len(s) : i < c \/ i > d => s[i] = Blank
    BY PaddedFacts
  <1>2. h \in Nat
    BY <1>1
  <1>3. 0 \in Fine
    BY <1>2 DEF ScanTable
  <1>4. ASSUME NEW k \in 1..h, k - 1 \in Fine PROVE k \in Fine
    <2>1. k \in 1..Len(s) /\ k \in 0..h /\ k < c
      BY <1>1
    <2>2. s[k] = Blank /\ st[k] = Consume(s, st[k - 1], k) /\ st[k - 1] = ScanStart
      BY <1>1, <1>4, <2>1 DEF ScanTable
    <2>3. ScanStart \in States(T) /\ ScanStart.skip = FALSE
      BY StartType DEF ScanStart
    <2>4. Consume(s, ScanStart, k) = ScanStart
      BY <1>1, <2>1, <2>2, <2>3, BlankTurn
    <2> QED BY <2>1, <2>2, <2>4
  <1>5. \A k \in 0..h : k \in Fine
    <2> HIDE DEF Fine, h
    <2> QED BY <1>2, <1>3, <1>4, InductionUpTo
  <1>6. h \in 0..h
    BY <1>2
  <1> QED BY <1>5, <1>6

\* After it the scan stays where it is.
LEMMA PadEnd ==
  ASSUME NEW s, NEW c, NEW d, NEW y, Padded(s, c, d, y), c <= d, NEW st, ScanTable(st, s),
         st[d].skip = FALSE
  PROVE  st[Len(s)] = st[d]
  <1> DEFINE n == Len(s)
             m == n - d
             T == ToSet(s)
             Fine == {k \in 0..m : st[d + k] = st[d]}
  <1>1. /\ s \in Seq(T) /\ n \in Nat /\ c \in Nat \ {0} /\ d \in Nat /\ d <= n
        /\ \A i \in 1..n : i < c \/ i > d => s[i] = Blank
    BY PaddedFacts
  <1>2. m \in Nat /\ d \in 0..n
    BY <1>1
  <1>3. 0 \in Fine
    <2>1. d + 0 = d /\ 0 \in 0..m
      BY <1>1, <1>2
    <2> QED BY <2>1
  <1>4. ASSUME NEW k \in 1..m, k - 1 \in Fine PROVE k \in Fine
    <2> DEFINE i == d + k
    <2>1. i \in 1..n /\ k \in 0..m /\ i > d /\ i - 1 = d + (k - 1)
      BY <1>1, <1>2
    <2>2. s[i] = Blank /\ st[i] = Consume(s, st[i - 1], i) /\ st[i - 1] = st[d]
      BY <1>1, <1>4, <2>1 DEF ScanTable
    <2>3. st[d] \in States(T)
      BY <1>2 DEF ScanTable
    <2> HIDE DEF i, n, T
    <2>4. Consume(s, st[d], i) = st[d]
      <3>1. i \in 1..Len(s)
        BY <2>1 DEF n
      <3> QED BY <1>1, <2>2, <2>3, <3>1, BlankTurn
    <2>5. st[i] = st[d]
      BY <2>2, <2>4
    <2> QED BY <2>1, <2>5 DEF i
  <1>5. \A k \in 0..m : k \in Fine
    <2> HIDE DEF Fine, m
    <2> QED BY <1>2, <1>3, <1>4, InductionUpTo
  <1>6. m \in 0..m /\ d + m = n
    BY <1>1, <1>2
  <1>7. m \in Fine
    BY <1>5, <1>6
  <1> QED BY <1>6, <1>7

\* A stretch of s that is one of y with blanks around it is the same without them.
LEMMA StretchPadded ==
  ASSUME NEW s, NEW c, NEW d, NEW y, Padded(s, c, d, y), NEW h, h = c - 1,
         NEW e \in 1..Len(y) + 1, NEW m \in e - 1..Len(y),
         NEW f \in 1..e + h, NEW g \in m + h..Len(s),
         \A i \in f..g : i < e + h \/ i > m + h => s[i] = Blank
  PROVE  Strip(SubSeq(s, f, g)) = Strip(SubSeq(y, e, m))
  <1> DEFINE T == ToSet(s)
             x == SubSeq(s, f, g)
             a == e + h - f + 1
             b == m + h - f + 1
             z == SubSeq(y, e, m)
  <1>1. /\ s \in Seq(T) /\ Len(s) \in Nat /\ y \in Seq(T) /\ Len(y) = d - c + 1
        /\ Len(y) \in Nat /\ c \in Nat \ {0} /\ d \in Nat /\ d <= Len(s) /\ c <= d + 1
    BY PaddedFacts
  <1>2. /\ h \in Nat /\ e \in Nat \ {0} /\ m \in 0..Len(y) /\ f \in Nat \ {0} /\ g \in 0..Len(s)
        /\ f <= e + h /\ m + h <= g /\ e - 1 <= m /\ e + h \in Nat \ {0} /\ m + h \in 0..Len(s)
        /\ m \in Nat /\ g \in Nat /\ e + h - 1 <= m + h
    BY <1>1
  <1>3. z = SubSeq(s, e + h, m + h)
    <2>1. PartsAt(y, s, h)
      BY PaddedParts
    <2> QED BY <1>2, <2>1 DEF PartsAt
  <1> DEFINE u == e + h
             v == m + h
  <1>4. /\ u \in Nat \ {0} /\ v \in Nat /\ f \in Nat \ {0} /\ g \in Nat /\ Len(s) \in Nat
        /\ f <= u /\ u <= v + 1 /\ v <= g /\ g <= Len(s)
        /\ (e > m <=> u > v) /\ (e <= m <=> u <= v)
    BY <1>1, <1>2
  <1>5. a = u - f + 1 /\ b = v - f + 1 /\ z = SubSeq(s, u, v)
        /\ \A i \in f..g : i < u \/ i > v => s[i] = Blank
    BY <1>3
  <1>6. u > v => z = <<>>
    BY <1>1, <1>2, <1>4, SubSeqType
  <1> HIDE DEF a, b, u, v, z, T
  <1>7. CASE f > g
    <2>1. u > v
      BY <1>7, <1>4
    <2>2. x = <<>>
      BY <1>1, <1>2, <1>7, SubSeqType
    <2> QED BY <1>6, <2>1, <2>2 DEF z
  <1>8. CASE f <= g
    <2>1. /\ x \in Seq(T) /\ Len(x) = g - f + 1 /\ \A j \in 1..g - f + 1 : x[j] = s[f + j - 1]
      BY <1>1, <1>2, <1>8, SubSeqType
    <2> HIDE DEF x
    <2>2. IsSeq(x)
      BY <2>1, SeqIsSeq
    <2>3. a \in 1..Len(x) + 1 /\ b \in a - 1..Len(x) /\ Len(x) \in Nat
      BY <1>8, <1>4, <1>5, <2>1
    <2>4. z = SubSeq(x, a, b)
      <3>1. CASE u <= v
        <4>1. f \in 1..Len(s) /\ g \in f..Len(s) /\ a \in 1..g - f + 1 /\ b \in a..g - f + 1
              /\ f + a - 1 = u /\ f + b - 1 = v
          BY <1>8, <1>4, <1>5, <3>1
        <4>2. SubSeq(SubSeq(s, f, g), a, b) = SubSeq(s, f + a - 1, f + b - 1)
          BY <1>1, <4>1, SubSeqTwice
        <4> QED BY <1>5, <4>1, <4>2 DEF x
      <3>2. CASE u > v
        <4>1. a \in Nat \ {0} /\ b \in 0..Len(x) /\ a > b
          BY <1>4, <1>5, <2>3, <3>2
        <4>2. SubSeq(x, a, b) = <<>>
          BY <2>1, <4>1, SubSeqType
        <4> QED BY <1>6, <3>2, <4>2
      <3> QED BY <1>4, <3>1, <3>2
    <2>5. ASSUME NEW j \in 1..Len(x), j < a \/ j > b PROVE x[j] = Blank
      <3>1. j \in 1..g - f + 1
        BY <2>1
      <3>2. f + j - 1 \in f..g /\ (f + j - 1 < u \/ f + j - 1 > v)
        BY <1>4, <1>5, <2>5, <3>1
      <3>3. s[f + j - 1] = Blank
        BY <1>5, <3>2
      <3> QED BY <2>1, <3>1, <3>3
    <2>6. Padded(x, a, b, z)
      BY <2>2, <2>3, <2>4, <2>5 DEF Padded
    <2>7. Strip(x) = Strip(z)
      BY <2>6, StripPadded
    <2> QED BY <2>7 DEF x, z
  <1> QED BY <1>4, <1>7, <1>8

\* The operators are the same, h further on.
LEMMA OperatorsPadded ==
  ASSUME NEW s, NEW c, NEW d, NEW y, Padded(s, c, d, y), NEW j \in 1..Len(y), NEW i, i = c + j - 1
  PROVE  s[i] = y[j] /\ OperatorLength(s, i) = OperatorLength(y, j)
  <1>1. /\ Len(s) \in Nat /\ Len(y) = d - c + 1 /\ Len(y) \in Nat /\ c \in Nat \ {0} /\ d \in Nat
        /\ d <= Len(s) /\ \A k \in 1..Len(y) : y[k] = s[c + k - 1]
        /\ \A k \in 1..Len(s) : k < c \/ k > d => s[k] = Blank
    BY PaddedFacts
  <1>2. s[i] = y[j] /\ i \in 1..Len(s) /\ i + 1 = c + (j + 1) - 1
    BY <1>1
  <1>3. ASSUME NEW x, x # Blank PROVE NextIs(s, i, x) <=> NextIs(y, j, x)
    <2>1. CASE j < Len(y)
      <3>1. j + 1 \in 1..Len(y) /\ i < Len(s)
        BY <1>1, <2>1
      <3>2. y[j + 1] = s[i + 1]
        BY <1>1, <1>2, <3>1
      <3> QED BY <2>1, <3>1, <3>2 DEF NextIs
    <2>2. CASE ~(j < Len(y))
      <3>1. i = d
        BY <1>1, <2>2
      <3>2. i < Len(s) => s[i + 1] = Blank
        <4>1. i < Len(s) => i + 1 \in 1..Len(s) /\ i + 1 > d
          BY <1>1, <1>2, <3>1
        <4> QED BY <1>1, <4>1
      <3> QED BY <1>3, <2>2, <3>2 DEF NextIs
    <2> QED BY <2>1, <2>2
  <1>4. s[i] \in {"&", "|"} => (NextIs(s, i, s[i]) <=> NextIs(y, j, y[j]))
    <2>1. s[i] \in {"&", "|"} => s[i] # Blank
      BY DEF Blank
    <2> QED BY <1>2, <1>3, <2>1
  <1>5. NextIs(s, i, "|") <=> NextIs(y, j, "|")
    <2>1. "|" # Blank
      BY DEF Blank
    <2> QED BY <1>3, <2>1
  <1> DEFINE a == OperatorLength(s, i)
             b == OperatorLength(y, j)
  <1>6. /\ a \in {0, 1, 2} /\ (a = 2 <=> s[i] \in {"&", "|"} /\ NextIs(s, i, s[i]))
        /\ a = 1 <=> \/ s[i] = ";"
                     \/ s[i] = "|" /\ ~NextIs(s, i, "|")
    BY OperatorLengths
  <1>7. /\ b \in {0, 1, 2} /\ (b = 2 <=> y[j] \in {"&", "|"} /\ NextIs(y, j, y[j]))
        /\ b = 1 <=> \/ y[j] = ";"
                     \/ y[j] = "|" /\ ~NextIs(y, j, "|")
    BY OperatorLengths
  <1> HIDE DEF a, b
  <1>8. (a = 2 <=> b = 2) /\ (a = 1 <=> b = 1)
    BY <1>2, <1>4, <1>5, <1>6, <1>7
  <1>9. a = b
    BY <1>6, <1>7, <1>8
  <1> QED BY <1>2, <1>9 DEF a, b

\* What the scan of s has collected where that of y is at position j.
Tracks(a, b, h) ==
    /\ a.skip = b.skip /\ a.members = b.members
    /\ a.from = b.from + h \/ (a.from = 1 /\ b.from = 1)

\* Where the scans are inside quotes and groups.
Agree(a, b) == a.quote = b.quote /\ a.tick = b.tick /\ a.dollar = b.dollar /\ a.paren = b.paren

\* Both texts with what there is of quotes and scans.
Twice(s, c, d, y, st, su) ==
    /\ Padded(s, c, d, y) /\ c <= d /\ ~Substitutes(s) /\ ~Substitutes(y)
    /\ ScanTable(st, s) /\ ScanTable(su, y)

\* The scans are inside the same quotes and groups at each position of the text.
LEMMA ScansAgree ==
  ASSUME NEW s, NEW c, NEW d, NEW y, NEW st, NEW su, Twice(s, c, d, y, st, su), NEW j \in 0..Len(y)
  PROVE  Agree(st[(c - 1) + j], su[j])
  <1> DEFINE open == OpenQuotes(s)
             opened == OpenQuotes(y)
             i == (c - 1) + j
  <1>1. Padded(s, c, d, y) /\ IsSeq(s) /\ IsSeq(y) /\ c <= d
    BY PaddedFacts DEF Twice, Padded
  <1>2. /\ Len(s) \in Nat /\ Len(y) = d - c + 1 /\ Len(y) \in Nat /\ c \in Nat \ {0} /\ d \in Nat
        /\ d <= Len(s)
    BY <1>1, PaddedFacts
  <1>3. i \in 0..Len(s) /\ i + 1 = c + (j + 1) - 1 /\ j + 1 \in 1..Len(y) + 1
    BY <1>2
  <1>4. QuotesOpen(open, s) /\ QuotesOpen(opened, y)
    BY <1>1, QuotesFold
  <1>5. OuterPart(s, open, c, d, y)
    BY <1>1, QuotesPadded
  <1> HIDE DEF open, opened, i
  <1>6. Reads(s, open, y, opened, c, j + 1)
    BY <1>1, <1>3, <1>4, <1>5, PartReads
  <1>7. opened[j + 1] = open[i + 1] /\ Depth(y, opened, j + 1) = Depth(s, open, i + 1)
    BY <1>3, <1>6 DEF Reads
  <1>8. Aligned(s, open, st, i)
    BY <1>1, <1>3, <1>4, AlignedAll DEF Twice
  <1>9. Aligned(y, opened, su, j)
    BY <1>1, <1>4, AlignedAll DEF Twice
  <1>10. Agree(st[i], su[j])
    BY <1>7, <1>8, <1>9 DEF Aligned, Agree
  <1> QED BY <1>10 DEF i

\* To end a command is the same for both.
LEMMA CollectTracked ==
  ASSUME NEW s, NEW c, NEW d, NEW y, NEW st, NEW su, Twice(s, c, d, y, st, su),
         NEW h, h = c - 1, NEW j \in 0..Len(y), NEW a, a = st[h + j], NEW b, b = su[j],
         Tracks(a, b, h), NEW m \in 0..Len(y), b.from <= m + 1, NEW g \in m + h..Len(s),
         g = m + h \/ m = Len(y)
  PROVE  Collect(s, a, g) = Collect(y, b, m)
  <1> DEFINE e == b.from
             f == a.from
  <1>1. Padded(s, c, d, y) /\ IsSeq(s) /\ IsSeq(y) /\ c <= d
    BY PaddedFacts DEF Twice, Padded
  <1>2. /\ Len(s) \in Nat /\ Len(y) = d - c + 1 /\ Len(y) \in Nat /\ c \in Nat \ {0} /\ d \in Nat
        /\ d <= Len(s) /\ \A i \in 1..Len(s) : i < c \/ i > d => s[i] = Blank
    BY <1>1, PaddedFacts
  <1>3. a \in States(ToSet(s)) /\ b \in States(ToSet(y))
    <2>1. h + j \in 0..Len(s)
      BY <1>2
    <2> QED BY <2>1 DEF Twice, ScanTable
  <1>4. e \in Nat \ {0} /\ f \in Nat \ {0} /\ (f = e + h \/ (f = 1 /\ e = 1)) /\ a.members = b.members
    BY <1>3 DEF States, Tracks
  <1>5. h \in Nat /\ m \in Nat /\ g \in Nat /\ e <= m + 1 /\ m <= Len(y) /\ h + Len(y) = d
        /\ g <= Len(s) /\ m + h <= g
    BY <1>2
  <1> HIDE DEF e, f
  <1>6. e \in 1..Len(y) + 1 /\ m \in e - 1..Len(y) /\ f \in 1..e + h /\ g \in m + h..Len(s)
    BY <1>2, <1>4, <1>5
  <1>7. ASSUME NEW i \in f..g, i < e + h \/ i > m + h PROVE s[i] = Blank
    <2>1. i \in 1..Len(s) /\ (i < e + h => f # e + h) /\ (i > m + h => g # m + h)
      BY <1>2, <1>4, <1>5
    <2>2. i < c \/ i > d
      <3>1. CASE i < e + h
        BY <1>2, <1>4, <2>1, <3>1
      <3>2. CASE i > m + h
        <4>1. m = Len(y)
          BY <2>1, <3>2
        <4> QED BY <1>5, <3>2, <4>1
      <3> QED BY <1>7, <3>1, <3>2
    <2> QED BY <1>2, <2>1, <2>2
  <1>8. Strip(SubSeq(s, f, g)) = Strip(SubSeq(y, e, m))
    BY <1>1, <1>6, <1>7, StretchPadded
  <1> QED BY <1>4, <1>8 DEF Collect, e, f

\* One more turn of each keeps them together.
LEMMA TracksTurn ==
  ASSUME NEW s, NEW c, NEW d, NEW y, NEW st, NEW su, Twice(s, c, d, y, st, su),
         NEW h, h = c - 1, NEW j \in 1..Len(y), Tracks(st[h + (j - 1)], su[j - 1], h)
  PROVE  Tracks(st[h + j], su[j], h)
  <1> DEFINE i == h + j
             a == st[i - 1]
             b == su[j - 1]
             u == st[i]
             v == su[j]
  <1>1. Padded(s, c, d, y) /\ IsSeq(s) /\ IsSeq(y) /\ c <= d
    BY PaddedFacts DEF Twice, Padded
  <1>2. /\ s \in Seq(ToSet(s)) /\ y \in Seq(ToSet(y)) /\ DOMAIN s = 1..Len(s)
        /\ Len(s) \in Nat /\ Len(y) = d - c + 1 /\ Len(y) \in Nat /\ c \in Nat \ {0} /\ d \in Nat
        /\ d <= Len(s)
    BY <1>1, PaddedFacts DEF IsSeq
  <1>3. /\ i \in 1..Len(s) /\ i - 1 = h + (j - 1) /\ i - 1 \in 0..Len(s) /\ j - 1 \in 0..Len(y)
        /\ i = c + j - 1 /\ h \in Nat /\ i \in Int
    BY <1>2
  <1>4. /\ a \in States(ToSet(s)) /\ b \in States(ToSet(y))
        /\ u = Consume(s, a, i) /\ v = Consume(y, b, j)
    BY <1>3 DEF Twice, ScanTable
  <1>5. Tracks(a, b, h) /\ Agree(a, b)
    BY <1>3, ScansAgree
  <1>6. s[i] = y[j] /\ OperatorLength(s, i) = OperatorLength(y, j)
    BY <1>1, <1>3, OperatorsPadded
  <1>7. b.from \in 1..(j - 1) + 2 /\ (b.from = (j - 1) + 2 => b.skip)
    BY <1>1, <1>3, FromBound DEF Twice
  <1> HIDE DEF i, a, b, u, v
  <1>8. Cuts(s, a, i) <=> Cuts(y, b, j)
    BY <1>5, <1>6 DEF Tracks, Agree, Cuts, Plain
  <1>9. CASE Cuts(s, a, i)
    <2>1. /\ u.members = Collect(s, a, i - 1) /\ u.from = i + OperatorLength(s, i)
          /\ u.skip <=> OperatorLength(s, i) = 2
          /\ u \in States(ToSet(s))
      <3>1. /\ s \in Seq(ToSet(s)) /\ a \in States(ToSet(s)) /\ i \in 1..Len(s)
            /\ Cuts(s, a, i) /\ u = Consume(s, a, i)
        BY <1>2, <1>3, <1>4, <1>9
      <3> QED BY <3>1, CutTurn
    <2>2. /\ v.members = Collect(y, b, j - 1) /\ v.from = j + OperatorLength(y, j)
          /\ v.skip <=> OperatorLength(y, j) = 2
          /\ v \in States(ToSet(y))
      BY <1>2, <1>4, <1>8, <1>9, CutTurn
    <2>3. Collect(s, a, i - 1) = Collect(y, b, j - 1)
      <3> DEFINE k == j - 1
                 g == i - 1
      <3>1. k \in 0..Len(y) /\ g = k + h /\ g \in k + h..Len(s) /\ g = h + k
        BY <1>2, <1>3
      <3>2. b.from <= k + 1
        <4>1. ~b.skip
          BY <1>8, <1>9 DEF Cuts
        <4> QED BY <1>7, <4>1
      <3>3. a = st[h + k] /\ b = su[k]
        BY <3>1 DEF a, b
      <3> HIDE DEF k, g
      <3>4. Collect(s, a, g) = Collect(y, b, k)
        BY <1>5, <3>1, <3>2, <3>3, CollectTracked
      <3> QED BY <3>4 DEF k, g
    <2>4. u.from = v.from + h
      <3>1. OperatorLength(y, j) \in {0, 1, 2}
        BY OperatorLengths
      <3>2. i = h + j /\ j \in Nat
        BY DEF i
      <3> DEFINE w == OperatorLength(y, j)
      <3>3. u.from = i + w /\ v.from = j + w /\ w \in Nat
        BY <1>6, <2>1, <2>2, <3>1
      <3> HIDE DEF w
      <3> QED BY <1>3, <3>2, <3>3
    <2>5. u.skip = v.skip
      BY <1>6, <2>1, <2>2 DEF States
    <2>6. Tracks(u, v, h)
      BY <2>1, <2>2, <2>3, <2>4, <2>5 DEF Tracks
    <2> QED BY <2>6 DEF u, v, i
  <1>10. CASE ~Cuts(s, a, i)
    <2>1. u.from = a.from /\ u.members = a.members
      BY <1>2, <1>3, <1>4, <1>10, OtherTurn
    <2>2. v.from = b.from /\ v.members = b.members
      BY <1>2, <1>4, <1>8, <1>10, OtherTurn
    <2>3. a.tick = FALSE /\ a.dollar = 0 /\ b.tick = FALSE /\ b.dollar = 0
      <3>1. Aligned(y, OpenQuotes(y), su, j - 1)
        BY <1>1, <1>3, QuotesFold, AlignedAll DEF Twice
      <3>2. b.tick = FALSE /\ b.dollar = 0
        BY <3>1 DEF Aligned, b
      <3> QED BY <1>5, <3>2 DEF Agree
    <2>4. u.skip = FALSE
      <3>1. s[i] # Tick /\ ~(s[i] = "$" /\ NextIs(s, i, "("))
        BY <1>1, <1>3, NoSubstitution DEF Twice
      <3>2. PlainNext(a, s[i], u)
        BY <1>2, <1>3, <1>4, <1>10, <2>3, <3>1, PlainTurn
      <3> QED BY <3>2 DEF PlainNext
    <2>5. v.skip = FALSE
      <3>1. y[j] # Tick /\ ~(y[j] = "$" /\ NextIs(y, j, "("))
        BY <1>1, NoSubstitution DEF Twice
      <3>2. PlainNext(b, y[j], v)
        BY <1>2, <1>4, <1>8, <1>10, <2>3, <3>1, PlainTurn
      <3> QED BY <3>2 DEF PlainNext
    <2>6. Tracks(u, v, h)
      BY <1>5, <2>1, <2>2, <2>4, <2>5 DEF Tracks
    <2> QED BY <2>6 DEF u, v, i
  <1> QED BY <1>9, <1>10

\* With blanks around it a text without substitutions is taken apart into the same.
LEMMA ScanPadded ==
  ASSUME NEW s, NEW c, NEW d, NEW y, Padded(s, c, d, y), c <= d,
         ~Substitutes(s), ~Substitutes(y)
  PROVE  Scan(s) = Scan(y)
  <1> DEFINE n == Len(y)
             h == c - 1
  <1>1. IsSeq(s) /\ IsSeq(y)
    BY PaddedFacts DEF Padded
  <1>2. /\ Len(s) \in Nat /\ n = d - c + 1 /\ n \in Nat /\ c \in Nat \ {0} /\ d \in Nat
        /\ d <= Len(s)
    BY PaddedFacts
  <1>3. PICK st : ScanTable(st, s)
    BY <1>1, ScanFold
  <1>4. PICK su : ScanTable(su, y)
    BY <1>1, ScanFold
  <1>5. Twice(s, c, d, y, st, su)
    BY <1>3, <1>4 DEF Twice
  <1> DEFINE Fine == {j \in 0..n : Tracks(st[h + j], su[j], h)}
  <1>6. 0 \in Fine
    <2>1. st[h] = ScanStart /\ su[0] = ScanStart
      BY <1>3, <1>4, PadStart DEF ScanTable
    <2>2. ScanStart.from = 1
      BY DEF ScanStart
    <2>3. Tracks(ScanStart, ScanStart, h)
      BY <2>2 DEF Tracks
    <2>4. h + 0 = h /\ 0 \in 0..n
      BY <1>2
    <2> QED BY <2>1, <2>3, <2>4
  <1>7. ASSUME NEW j \in 1..n, j - 1 \in Fine PROVE j \in Fine
    <2>1. Tracks(st[h + (j - 1)], su[j - 1], h) /\ j \in 0..n
      BY <1>2, <1>7
    <2> HIDE DEF h
    <2>2. Tracks(st[h + j], su[j], h)
      BY <1>5, <2>1, TracksTurn DEF h
    <2> QED BY <2>1, <2>2
  <1>8. \A j \in 0..n : j \in Fine
    <2> HIDE DEF Fine, n
    <2> QED BY <1>2, <1>6, <1>7, InductionUpTo
  <1> DEFINE a == st[h + n]
             b == su[n]
  <1>9. Tracks(a, b, h) /\ n \in 0..n /\ h + n = d
    BY <1>2, <1>8
  <1>10. b.skip = FALSE
    <2>1. Aligned(y, OpenQuotes(y), su, n)
      BY <1>1, <1>4, <1>9, QuotesFold, AlignedAll
    <2>2. b.skip => n < n
      BY <2>1 DEF Aligned, NextIs
    <2>3. b.skip \in BOOLEAN
      <3>1. b \in States(ToSet(y))
        BY <1>4, <1>9 DEF ScanTable
      <3> HIDE DEF b
      <3> QED BY <3>1 DEF States
    <2> QED BY <1>2, <2>2, <2>3
  <1>11. st[Len(s)] = a
    <2>1. st[d].skip = FALSE
      BY <1>9, <1>10 DEF Tracks
    <2> QED BY <1>3, <1>9, <2>1, PadEnd
  <1>12. Collect(s, a, Len(s)) = Collect(y, b, n)
    <2> DEFINE g == Len(s)
    <2>1. b.from <= n + 1
      BY <1>1, <1>4, <1>9, FromBound
    <2>2. g \in n + h..Len(s)
      BY <1>2
    <2> HIDE DEF g, h, a, b
    <2>3. h = c - 1 /\ a = st[h + n] /\ b = su[n]
      BY DEF h, a, b
    <2>4. Collect(s, a, g) = Collect(y, b, n)
      BY <1>5, <1>9, <2>1, <2>2, <2>3, CollectTracked
    <2> QED BY <2>4 DEF g
  <1>13. Scan(s) = Collect(s, st[Len(s)], Len(s)) /\ Scan(y) = Collect(y, su[n], n)
    BY <1>3, <1>4 DEF ScanTable
  <1> QED BY <1>11, <1>12, <1>13

-----------------------------------------------------------------------------
(* The verdict with blanks and without.                                      *)

\* Every layer of a policy denies texts.
LayersDenyTexts(policy) ==
    /\ DeniesTexts(policy.limits)
    /\ \A name \in DOMAIN policy.aliasLimits : DeniesTexts(policy.aliasLimits[name])
    /\ \A name \in DOMAIN policy.tagLimits : DeniesTexts(policy.tagLimits[name])

\* There are substrings to deny, and they are texts.
HasTexts(limits) == "deny_substrings" \in DOMAIN limits /\ DeniesTexts(limits)

\* One layer over others that have them keeps it so.
LEMMA OverTexts ==
  ASSUME NEW upper, DeniesTexts(upper), NEW lower, HasTexts(lower)
  PROVE  HasTexts(Over(upper, lower))
  BY DEF HasTexts, DeniesTexts, Over

\* The built-in ones are texts.
LEMMA DefaultTexts == HasTexts(DefaultLimits)
  <1>1. \A e : e = <<"ssh", Blank>> => e \in Seq({"ssh", Blank})
    OBVIOUS
  <1>2. \A e : e = <<"reboot">> => e \in Seq({"reboot"})
    OBVIOUS
  <1>3. \A T : \A e \in Seq(T) : IsSeq(e)
    BY SeqIsSeq
  <1>4. IsSeq(<<"ssh", Blank>>)
    BY <1>1, <1>3
  <1>5. IsSeq(<<"reboot">>)
    BY <1>2, <1>3
  <1> QED BY <1>4, <1>5 DEF HasTexts, DeniesTexts, DefaultLimits

\* So what _collect_limits finds are texts.
LEMMA CollectedTexts ==
  ASSUME NEW policy, LayersDenyTexts(policy), NEW alias, NEW T, NEW tags \in Seq(T)
  PROVE  \A text \in CollectLimits(policy, alias, tags).deny_substrings : IsSeq(text)
  <1> DEFINE n == Len(tags)
  <1>1. n \in Nat
    OBVIOUS
  <1>2. PICK f : /\ f[0] = UnderTags(policy, alias)
                 /\ f[n] = CollectLimits(policy, alias, tags)
                 /\ \A k \in 1..n : f[k] = OverTag(policy, alias, tags[k], f[k - 1])
    BY LimitsFold
  <1>3. \A layers : (\A name \in DOMAIN layers : DeniesTexts(layers[name]))
                      => \A name : DeniesTexts(LayerOf(layers, name))
    BY DEF LayerOf, Nothing, DeniesTexts
  <1>4. /\ DeniesTexts(policy.limits) /\ DeniesTexts(LayerOf(policy.aliasLimits, alias))
        /\ \A tag : DeniesTexts(LayerOf(policy.tagLimits, tag))
    BY <1>3 DEF LayersDenyTexts
  <1>5. \A tag : DeniesTexts(TagLayer(policy, alias, tag))
    BY <1>4 DEF DeniesTexts, TagLayer, Restrict
  <1> DEFINE In == {k \in 0..n : HasTexts(f[k])}
  <1>6. 0 \in In
    <2>1. HasTexts(Over(policy.limits, DefaultLimits))
      BY <1>4, DefaultTexts, OverTexts
    <2>2. HasTexts(UnderTags(policy, alias))
      BY <1>4, <2>1, OverTexts DEF UnderTags
    <2> QED BY <1>1, <1>2, <2>2
  <1>7. ASSUME NEW k \in 1..n, k - 1 \in In PROVE k \in In
    <2>1. HasTexts(f[k - 1]) /\ k \in 0..n
      BY <1>7
    <2>2. HasTexts(OverTag(policy, alias, tags[k], f[k - 1]))
      BY <1>5, <2>1, OverTexts DEF OverTag
    <2> QED BY <1>2, <2>1, <2>2
  <1>8. \A k \in 0..n : k \in In
    <2> HIDE DEF In, n
    <2> QED BY <1>1, <1>6, <1>7, InductionUpTo
  <1>9. HasTexts(f[n])
    BY <1>1, <1>8
  <1> QED BY <1>2, <1>9 DEF HasTexts, DeniesTexts

\* A text without the blanks around it has a substitution only if it has one with them.
LEMMA SubstitutesPadded ==
  ASSUME NEW s, NEW c, NEW d, NEW y, Padded(s, c, d, y), c <= d, Substitutes(y)
  PROVE  Substitutes(s)
  <1>1. IsSeq(s) /\ c \in 1..Len(s) /\ d \in c..Len(s) /\ y = SubSeq(s, c, d)
    BY PaddedFacts DEF Padded
  <1>2. \A e : e = <<Tick>> => Len(e) \in Nat \ {0}
    OBVIOUS
  <1>3. \A e : e = <<"$", "(">> => Len(e) \in Nat \ {0}
    OBVIOUS
  <1>4. \A e : Len(e) \in Nat \ {0} /\ Occurs(e, y) => Occurs(e, s)
    BY <1>1, OccursInPart
  <1>5. Occurs(<<Tick>>, y) => Occurs(<<Tick>>, s)
    BY <1>2, <1>4
  <1>6. Occurs(<<"$", "(">>, y) => Occurs(<<"$", "(">>, s)
    BY <1>3, <1>4
  <1> QED BY <1>5, <1>6 DEF Substitutes

\* What a policy lets through alone it lets through without the blanks around it, too.
LEMMA SingleUnpadded ==
  ASSUME NEW policy, LayersDenyTexts(policy), NEW alias, NEW T, NEW tags \in Seq(T),
         NEW s, NEW c, NEW d, NEW y, Padded(s, c, d, y), c <= d,
         IsSingleCommandAllowed(policy, alias, tags, s)
  PROVE  IsSingleCommandAllowed(policy, alias, tags, y)
  <1> DEFINE deny == CollectLimits(policy, alias, tags).deny_substrings
  <1>1. IsSeq(s) /\ c \in 1..Len(s) /\ d \in c..Len(s) /\ y = SubSeq(s, c, d)
    BY PaddedFacts DEF Padded
  <1>2. SplitCommandArgs(s) = SplitCommandArgs(y)
    BY ArgsPadded
  <1>3. Tokens(s) = Tokens(y) /\ NormalizeCommand(s) = NormalizeCommand(y)
    BY TokensPadded
  <1>4. Banned(y) => Banned(s)
    BY SubstitutesPadded DEF Banned
  <1>5. \A text \in deny : IsSeq(text)
    BY CollectedTexts
  <1> HIDE DEF deny
  <1>6. \A text \in deny \ {<<>>} : Len(text) \in Nat \ {0}
    BY <1>5 DEF IsSeq
  <1>7. \A text \in deny \ {<<>>} : Occurs(text, y) => Occurs(text, s)
    BY <1>1, <1>6, OccursInPart
  <1>8. DeniedBySubstring(deny, y) => DeniedBySubstring(deny, s)
    BY <1>3, <1>7 DEF DeniedBySubstring
  <1>9. /\ ~Banned(s) /\ SplitCommandArgs(s) # <<>>
        /\ ToSet(SplitCommandArgs(s)[1]) \cap Slashed = {} /\ ~DeniedBySubstring(deny, s)
        /\ LET matching == Matching(policy.rules, alias, tags, SplitCommandArgs(s))
           IN  matching # {} /\ policy.rules[DecidingRule(matching)].action = "allow"
    BY Zenon DEF IsSingleCommandAllowed, deny
  <1>10. /\ ~Banned(y) /\ SplitCommandArgs(y) # <<>>
         /\ ToSet(SplitCommandArgs(y)[1]) \cap Slashed = {} /\ ~DeniedBySubstring(deny, y)
         /\ LET matching == Matching(policy.rules, alias, tags, SplitCommandArgs(y))
            IN  matching # {} /\ policy.rules[DecidingRule(matching)].action = "allow"
    BY <1>2, <1>4, <1>8, <1>9, Zenon
  <1> QED BY <1>10, Zenon DEF IsSingleCommandAllowed, deny

\* The same for a command line that may be a chain.
LEMMA AllowedUnpadded ==
  ASSUME NEW policy, LayersDenyTexts(policy), NEW alias, NEW T, NEW tags \in Seq(T),
         NEW cmd, IsSeq(cmd), Strip(cmd) # <<>>, IsAllowed(policy, alias, tags, cmd)
  PROVE  IsAllowed(policy, alias, tags, Strip(cmd))
  <1> DEFINE x == Strip(cmd)
             p == ParseCommandChain(cmd)
             q == ParseCommandChain(x)
             Single(t) == IsSingleCommandAllowed(policy, alias, tags, t)
  <1>1. PICK c, d \in 1..Len(cmd) : c <= d /\ Padded(cmd, c, d, x)
    BY StripPads
  <1> HIDE DEF x
  <1>2. IsSeq(x) /\ Strip(x) = x
    BY <1>1, PaddedFacts, StripPadded DEF x
  <1>3. ~Substitutes(cmd)
    BY SubstitutionRefused
  <1>4. ~Substitutes(x)
    BY <1>1, <1>3, SubstitutesPadded
  <1>5. Commands(cmd) = Commands(x)
    <2>1. Scan(cmd) = Scan(x)
      BY <1>1, <1>3, <1>4, ScanPadded
    <2> QED BY <1>2, <1>3, <1>4, <2>1, ScanCommands
  <1>6. Scan(cmd) = Commands(cmd) /\ Len(Commands(cmd)) \in Nat
    <2>1. Scan(cmd) = Commands(cmd) /\ Scan(cmd) \in Seq(Seq(ToSet(cmd)))
      BY <1>3, ScanCommands, ScanKeeps
    <2> QED BY <2>1
  <1>7. Len(p) > 1 \/ Len(Commands(cmd)) > 1 => p = Commands(cmd)
    BY <1>3, ParsedRight, Zenon DEF SplitRight
  <1>8. Len(q) > 1 \/ Len(Commands(x)) > 1 => q = Commands(x)
    <2>1. Strip(x) # <<>>
      BY <1>2 DEF x
    <2> QED BY <1>2, <1>4, <2>1, ParsedRight, Zenon DEF SplitRight
  <1> HIDE DEF p, q
  <1>9. CASE Len(p) > 1
    <2>1. p = q
      BY <1>5, <1>7, <1>8, <1>9
    <2>2. \A k \in Judged(p) : Single(p[k])
      BY <1>9, Zenon DEF IsAllowed, p
    <2>3. IsAllowed(policy, alias, tags, x)
      BY <1>9, <2>1, <2>2, Zenon DEF IsAllowed, q
    <2> QED BY <2>3 DEF x
  <1>10. CASE ~(Len(p) > 1)
    <2>1. ~(Len(q) > 1)
      BY <1>5, <1>7, <1>8, <1>10
    <2>2. Single(cmd)
      BY <1>10, Zenon DEF IsAllowed, p
    <2>3. Single(x)
      BY <1>1, <2>2, SingleUnpadded
    <2>4. IsAllowed(policy, alias, tags, x)
      BY <2>1, <2>3, Zenon DEF IsAllowed, q
    <2> QED BY <2>4 DEF x
  <1> QED BY <1>9, <1>10

\* For an alias without blanks around it, ssh_run does what the plan shows, except that
\* it may let a command through which the plan denies for the blanks around it.
THEOREM PlansPredictRuns == Spec => []PlanPredictsRun
  <1>1. AnswersInv => PlanPredictsRun
    <2> DEFINE cmd == asked.command
               alias == asked.alias
               policy == asked.policy
               tags == TagsOf(alias)
    <2> SUFFICES ASSUME AnswersInv, alias = Strip(alias), plan.what = "plan",
                        run.what \in {"policy", "network", "goes"}
                 PROVE  /\ plan.allowed => run.what # "policy"
                        /\ cmd = Strip(cmd) /\ ~plan.allowed => run.what = "policy"
                        /\ run.what = "goes" => run.limits = plan.limits
      BY Zenon DEF PlanPredictsRun
    <2>1. IsSeq(cmd) /\ Strip(cmd) # <<>> /\ LayersDenyTexts(policy)
      BY RequestsAssumption DEF AnswersInv, ValidCommand, LayersDenyTexts
    <2>2. tags \in Seq(ToSet(tags))
      BY TagsAreSeq DEF IsSeq
    <2>3. /\ plan.allowed = IsAllowed(policy, alias, tags, cmd)
          /\ plan.limits = CollectLimits(policy, alias, tags)
      BY Zenon DEF AnswersInv, AskedAllowed, AskedLimits
    <2>4. /\ run.what = "policy" => ~IsAllowed(policy, alias, tags, Strip(cmd))
          /\ run.what \in {"network", "goes"} => IsAllowed(policy, alias, tags, Strip(cmd))
          /\ run.what = "goes" => run.limits = CollectLimits(policy, alias, tags)
      BY Zenon DEF AnswersInv, RunAllowed, RunLimits
    <2> HIDE DEF cmd, alias, policy, tags
    <2>5. IsAllowed(policy, alias, tags, cmd) => IsAllowed(policy, alias, tags, Strip(cmd))
      BY <2>1, <2>2, AllowedUnpadded
    <2>6. plan.allowed => run.what # "policy"
      BY <2>3, <2>4, <2>5, Zenon
    <2>7. cmd = Strip(cmd) /\ ~plan.allowed => run.what = "policy"
      BY <2>3, <2>4, Zenon
    <2>8. run.what = "goes" => run.limits = plan.limits
      BY <2>3, <2>4
    <2> QED BY <2>6, <2>7, <2>8
  <1> QED BY <1>1, AnswersInvariance, PTL

=============================================================================
