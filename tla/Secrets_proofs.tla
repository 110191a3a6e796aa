---------------------------- MODULE Secrets_proofs ----------------------------
(***************************************************************************)
(* A process takes its secrets from one version of the .env file: for any  *)
(* names, entries, environments and files, and however often it is edited. *)
(***************************************************************************)
EXTENDS Secrets, TLAPS

\* A file that was opened is one, and of the version that is on the disk.
LEMMA DotenvIsAFile ==
    ASSUME TypeOK
    PROVE  dotenv # NoFile /\ dotenv.version \in Nat
BY DEF TypeOK, Dotenv, Shapes, NoFile

LEMMA EditedDotenv ==
    ASSUME NEW c \in Dotenvs, NEW n \in Nat
    PROVE  DotenvOf(c, n) \in Dotenv
BY FilesAssumption DEF DotenvOf, Dotenv, Shapes, Keys

\* What a loaded file answers carries its version.
LEMMA DotenvAnswers ==
    ASSUME NEW s, NEW loaded
    PROVE  LET a == InDotenv(s, loaded)
           IN  a # NotYet => a.from = "dotenv" /\ a.version = loaded.version
BY DEF InDotenv, NotYet

\* The environment answers with nothing of the .env file.
LEMMA EnvironmentAnswers ==
    ASSUME NEW s
    PROVE  InEnvironment(s).from # "dotenv"
BY DEF InEnvironment, NotYet

LEMMA Initially == Init => LoadedOnce
<1> SUFFICES ASSUME Init PROVE LoadedOnce
    OBVIOUS
<1>1. dotenv \in Dotenv
  BY EditedDotenv DEF Init
<1> QED
  BY <1>1 DEF Init, LoadedOnce, TypeOK, NoFile

\* What Answer leaves of the invariant to be shown: that what is taken is of the
\* cached version.
LEMMA AnswerKeeps ==
    ASSUME LoadedOnce, NEW a, Answer(a),
           cache' \in Dotenv \cup {NoFile}, first' \in Dotenv \cup {NoFile},
           cache' = NoFile => cache = NoFile,
           cache # NoFile => cache' = cache,
           a.from = "dotenv" => cache' # NoFile /\ a.version = cache'.version
    PROVE  LoadedOnce'
<1>1. cache # NoFile => cache.version \in Nat
  BY DEF LoadedOnce, TypeOK, Dotenv
<1>2. cache' # NoFile => cache'.version \in Nat
  BY DEF Dotenv
<1>3. taken' \subseteq Nat /\ (cache' = NoFile => taken' = {})
                            /\ (cache' # NoFile => taken' \subseteq {cache'.version})
  <2>1. CASE a.from = "dotenv"
    BY <1>1, <1>2, <2>1 DEF Answer, LoadedOnce, TypeOK
  <2>2. CASE a.from # "dotenv"
    BY <1>1, <1>2, <2>2 DEF Answer, LoadedOnce, TypeOK
  <2> QED
    BY <2>1, <2>2
<1> QED
  BY <1>3 DEF Answer, LoadedOnce, TypeOK, disk

\* A step that only moves on, and not towards the disk unless nothing is cached.
LEMMA MoveKeeps ==
    ASSUME LoadedOnce, UNCHANGED <<dotenv, edits, cache, first, taken>>,
           \/ at' \in {"fallback", "read"}
           \/ cache = NoFile /\ at' \in {"size", "kind", "parse"}
    PROVE  LoadedOnce'
BY DEF LoadedOnce, TypeOK

LEMMA LookUpKeeps == LoadedOnce /\ LookUp => LoadedOnce'
<1> SUFFICES ASSUME LoadedOnce, LookUp PROVE LoadedOnce'
    OBVIOUS
<1> DEFINE known == IF InEnvironment(Secret) # NotYet THEN InEnvironment(Secret)
                    ELSE IF cache # NoFile THEN InDotenv(Secret, cache)
                    ELSE NotYet
<1>1. cache' = cache /\ first' = first /\ cache \in Dotenv \cup {NoFile}
                     /\ first \in Dotenv \cup {NoFile}
  BY DEF LookUp, LoadedOnce, TypeOK
<1>2. CASE Secret = Overlong
  <2>1. Answer(Nothing) /\ Nothing.from # "dotenv"
    BY <1>2 DEF LookUp, Nothing
  <2> QED
    BY <1>1, <2>1, AnswerKeeps
<1>3. CASE Secret # Overlong /\ known # NotYet
  <2>1. Answer(known)
    BY <1>3 DEF LookUp
  <2>2. known.from = "dotenv" => cache # NoFile /\ known.version = cache.version
    BY <1>3, EnvironmentAnswers, DotenvAnswers
  <2> HIDE DEF known
  <2> QED
    BY <1>1, <2>1, <2>2, AnswerKeeps
<1>4. CASE Secret # Overlong /\ known = NotYet
  <2>1. Goes("secret", IF cache # NoFile THEN "fallback" ELSE "size")
    BY <1>4 DEF LookUp
  <2> QED
    BY <2>1, MoveKeeps DEF Goes, disk, history
<1> QED
  BY <1>2, <1>3, <1>4

LEMMA ParseKeeps == LoadedOnce /\ Parse => LoadedOnce'
<1> SUFFICES ASSUME LoadedOnce, Parse PROVE LoadedOnce'
    OBVIOUS
<1> DEFINE loaded == IF dotenv.shape \in Openable THEN dotenv ELSE NoFile
           found  == IF dotenv.shape \in Openable THEN InDotenv(Secret, dotenv) ELSE NotYet
<1>1. /\ cache = NoFile /\ taken = {}
      /\ dotenv \in Dotenv /\ dotenv # NoFile /\ first \in Dotenv \cup {NoFile}
  BY DotenvIsAFile DEF Parse, LoadedOnce, TypeOK
<1>2. cache' = loaded /\ first' \in Dotenv \cup {NoFile}
  BY <1>1 DEF Parse, Kept
<1>3. CASE found # NotYet
  <2>1. Answer(found)
    BY <1>3 DEF Parse
  <2>2. cache' = dotenv
    BY <1>2, <1>3
  <2>3. found.version = dotenv.version
    BY <1>3, DotenvAnswers
  <2> HIDE DEF found, loaded
  <2> QED
    BY <1>1, <1>2, <2>1, <2>2, <2>3, AnswerKeeps
<1>4. CASE found = NotYet
  <2>1. at' = "fallback" /\ UNCHANGED <<dotenv, edits, taken>>
    BY <1>4 DEF Parse, disk
  <2> QED
    BY <1>1, <1>2, <2>1 DEF LoadedOnce, TypeOK
<1> QED
  BY <1>3, <1>4

LEMMA FileStepsKeep == LoadedOnce /\ (CheckFile \/ ReadFile) => LoadedOnce'
<1> SUFFICES ASSUME LoadedOnce, CheckFile \/ ReadFile PROVE LoadedOnce'
    OBVIOUS
<1>1. cache \in Dotenv \cup {NoFile} /\ first \in Dotenv \cup {NoFile}
  BY DEF LoadedOnce, TypeOK
<1>2. CASE Goes("fallback", "read")
  BY <1>2, MoveKeeps DEF Goes, disk, history
<1>3. ASSUME NEW a, Answer(a), a.from # "dotenv", UNCHANGED <<cache, first>>
      PROVE  LoadedOnce'
  BY <1>1, <1>3, AnswerKeeps
<1>4. CASE CheckFile
  BY <1>2, <1>3, <1>4 DEF CheckFile, Nothing
<1>5. CASE ReadFile
  <2> DEFINE a == IF files[Secret].shape \in Openable
                  THEN [from |-> "file", version |-> files[Secret].version] ELSE Nothing
  <2>1. Answer(a) /\ a.from # "dotenv" /\ UNCHANGED <<cache, first>>
    BY <1>5 DEF ReadFile, Nothing
  <2> HIDE DEF a
  <2> QED
    BY <1>3, <2>1
<1> QED
  BY <1>4, <1>5

\* No step of a call, of the operator or of a restart breaks the invariant.
LEMMA StepKeeps == LoadedOnce /\ [Next]_vars => LoadedOnce'
<1> SUFFICES ASSUME LoadedOnce, [Next]_vars PROVE LoadedOnce'
    OBVIOUS
<1>1. CASE \E e \in Entries : Begin(e)
  BY <1>1 DEF Begin, LoadedOnce, TypeOK, disk
<1>2. CASE LookUp
  BY <1>2, LookUpKeeps
<1>3. CASE CheckSize
  <2>1. at = "size" /\ cache = NoFile
    BY <1>3 DEF CheckSize, Goes, LoadedOnce
  <2> QED
    BY <1>3, <2>1, MoveKeeps DEF CheckSize, Goes, disk, history
<1>4. CASE CheckKind
  <2>1. at = "kind" /\ cache = NoFile
    BY <1>4 DEF CheckKind, Goes, LoadedOnce
  <2> QED
    BY <1>4, <2>1, MoveKeeps DEF CheckKind, Goes, disk, history
<1>5. CASE Parse
  BY <1>5, ParseKeeps
<1>6. CASE CheckFile \/ ReadFile
  BY <1>6, FileStepsKeep
<1>7. CASE Finish
  BY <1>7 DEF Finish, LoadedOnce, TypeOK, disk, history
<1>8. CASE EditDotenv
  <2>1. edits' \in Nat
    BY <1>8 DEF EditDotenv, LoadedOnce, TypeOK
  <2>2. dotenv' \in Dotenv
    BY <1>8, <2>1, EditedDotenv DEF EditDotenv
  <2> QED
    BY <1>8, <2>1, <2>2 DEF EditDotenv, LoadedOnce, TypeOK
<1>9. CASE \E s \in Safe : EditFile(s)
  BY <1>9 DEF EditFile, LoadedOnce, TypeOK
<1>10. CASE Restart
  BY <1>10 DEF Restart, LoadedOnce, TypeOK, disk
<1>11. CASE UNCHANGED vars
  BY <1>11 DEF vars, disk, history, LoadedOnce, TypeOK
<1> QED
  BY <1>1, <1>2, <1>3, <1>4, <1>5, <1>6, <1>7, <1>8, <1>9, <1>10, <1>11 DEF Next

\* The .env file is loaded at most once between two starts of the process.
THEOREM LoadsOnce == Spec => []LoadedOnce
<1> QED
  BY Initially, StepKeeps, PTL DEF Spec

\* All secrets a process takes from the .env file are of one version of it.
THEOREM TakesOneVersion == Spec => []OneEnvFile
<1>1. LoadedOnce => OneEnvFile
  BY DEF LoadedOnce, OneEnvFile
<1> QED
  BY <1>1, LoadsOnce, PTL

-----------------------------------------------------------------------------
(* The order of the sources.                                                 *)

Answers == [from : {"nowhere", "direct", "prefixed"}]
           \cup [from : {"dotenv"}, version : Nat, key : Keys]
           \cup [from : {"file"}, version : Nat]

\* What can be known of the sources: that the environment has nothing for a name,
\* and that the .env file has nothing or could not be loaded.
NotInEnvironment(s) == s \notin direct /\ s \notin prefixed
NotInDotenv(s) == IF cache # NoFile
                  THEN s \notin cache.keys /\ Upper[s] \notin cache.keys
                  ELSE dotenv.shape # "plain"

\* How far a call has come says which sources have been ruled out for the secret
\* at hand; what has been found on the disk still holds if no edit came between.
Ruled ==
    /\ first = cache /\ got \in Seq(Answers) /\ files \in [Safe -> SecretFiles]
    /\ at \in {"size", "kind", "parse", "fallback", "read"} =>
           NotInEnvironment(Secret) /\ Secret # Overlong
    /\ at = "kind" /\ quiet => dotenv.shape \notin {"absent", "huge"}
    /\ at = "parse" /\ quiet => dotenv.shape \in {"garbled", "plain"}
    /\ at \in {"fallback", "read"} /\ quiet => NotInDotenv(Secret)
    /\ at = "read" => Secret \in Safe
    /\ at = "read" /\ quiet => files[Secret].shape \in {"garbled", "plain"}

\* The first of some sources that has something.
LEMMA FirstIs ==
    ASSUME NEW S, NEW n \in Nat, DOMAIN S = 1..n,
           NEW i \in 1..n, S[i] # {}, \A j \in 1..n : j < i => S[j] = {}
    PROVE  FirstOf(S) = S[i]
<1> DEFINE P(k) == S[k] # {} /\ \A j \in 1..(k - 1) : S[j] = {}
<1>1. ASSUME NEW k \in 1..n, P(k) PROVE k = i
  <2>1. ~(k < i)
    BY <1>1
  <2>2. ~(i < k)
    BY <1>1
  <2> QED
    BY <2>1, <2>2
<1>2. P(i)
  OBVIOUS
<1>3. (CHOOSE k \in DOMAIN S : P(k)) = i
  <2> HIDE DEF P
  <2> QED
    BY <1>1, <1>2
<1> QED
  BY <1>3 DEF FirstOf

LineOf(key) ==
    IF EnvFileNow # NoFile /\ key \in EnvFileNow.keys
    THEN {[from |-> "dotenv", version |-> EnvFileNow.version, key |-> key]} ELSE {}

LEMMA FiveSources ==
    ASSUME NEW s
    PROVE  /\ DOMAIN Sources(s) = 1..5
           /\ Sources(s)[1] = IF s \in direct THEN {[from |-> "direct"]} ELSE {}
           /\ Sources(s)[2] = IF s \in prefixed THEN {[from |-> "prefixed"]} ELSE {}
           /\ Sources(s)[3] = LineOf(s)
           /\ Sources(s)[4] = LineOf(Upper[s])
           /\ Sources(s)[5] = IF s \in Safe /\ files[s].shape = "plain"
                              THEN {[from |-> "file", version |-> files[s].version]} ELSE {}
<1>1. {[from |-> "direct"] : x \in {s} \cap direct}
        = IF s \in direct THEN {[from |-> "direct"]} ELSE {}
  OBVIOUS
<1>2. {[from |-> "prefixed"] : x \in {s} \cap prefixed}
        = IF s \in prefixed THEN {[from |-> "prefixed"]} ELSE {}
  OBVIOUS
<1>3. {[from |-> "file", version |-> files[x].version] :
           x \in {y \in {s} \cap Safe : files[y].shape = "plain"}}
        = IF s \in Safe /\ files[s].shape = "plain"
          THEN {[from |-> "file", version |-> files[s].version]} ELSE {}
  OBVIOUS
<1> QED
  BY <1>1, <1>2, <1>3 DEF Sources, LineOf

Before(s, i) == \A j \in 1..5 : j < i => Sources(s)[j] = {}

LEMMA FirstSource ==
    ASSUME NEW s, NEW i \in 1..5, Sources(s)[i] # {}, Before(s, i)
    PROVE  FirstOf(Sources(s)) = Sources(s)[i]
<1> DEFINE S == Sources(s)
<1>1. DOMAIN S = 1..5
  BY FiveSources
<1>2. S[i] # {} /\ \A j \in 1..5 : j < i => S[j] = {}
  BY DEF Before
<1> HIDE DEF S
<1>3. FirstOf(S) = S[i]
  <2>1. 5 \in Nat
    OBVIOUS
  <2> QED
    BY <1>1, <1>2, <2>1, FirstIs
<1> QED
  BY <1>3 DEF S

\* The environment comes first.
LEMMA FromEnvironment ==
    ASSUME NEW s, InEnvironment(s) # NotYet
    PROVE  InEnvironment(s) \in FirstOf(Sources(s)) /\ InEnvironment(s) \in Answers
<1>1. CASE s \in direct
  <2>1. Sources(s)[1] = {[from |-> "direct"]} /\ DOMAIN Sources(s) = 1..5
    BY <1>1, FiveSources
  <2>2. 1 \in 1..5 /\ Before(s, 1) /\ Sources(s)[1] # {}
    BY <2>1 DEF Before
  <2>3. FirstOf(Sources(s)) = Sources(s)[1]
    BY <2>2, FirstSource
  <2> QED
    BY <1>1, <2>1, <2>3 DEF InEnvironment, Answers
<1>2. CASE s \notin direct /\ s \in prefixed
  <2>1. /\ Sources(s)[2] = {[from |-> "prefixed"]} /\ DOMAIN Sources(s) = 1..5
        /\ Sources(s)[1] = {}
    BY <1>2, FiveSources
  <2>2. 2 \in 1..5 /\ Before(s, 2) /\ Sources(s)[2] # {}
    BY <2>1 DEF Before
  <2>3. FirstOf(Sources(s)) = Sources(s)[2]
    BY <2>2, FirstSource
  <2> QED
    BY <1>2, <2>1, <2>3 DEF InEnvironment, Answers
<1> QED
  BY <1>1, <1>2 DEF InEnvironment

\* The .env file comes next, with the name as written before its upper case.
LEMMA FromDotenv ==
    ASSUME NEW s, NotInEnvironment(s), NEW loaded \in Dotenv, loaded = EnvFileNow,
           loaded # NoFile, InDotenv(s, loaded) # NotYet
    PROVE  InDotenv(s, loaded) \in FirstOf(Sources(s)) /\ InDotenv(s, loaded) \in Answers
<1>1. /\ Sources(s)[1] = {} /\ Sources(s)[2] = {} /\ DOMAIN Sources(s) = 1..5
      /\ Sources(s)[3] = LineOf(s) /\ Sources(s)[4] = LineOf(Upper[s])
  BY FiveSources DEF NotInEnvironment
<1>2. loaded.keys \subseteq Keys /\ loaded.version \in Nat
  BY DEF Dotenv
<1>3. CASE s \in loaded.keys
  <2>1. LineOf(s) = {InDotenv(s, loaded)}
    BY <1>3 DEF LineOf, InDotenv
  <2>2. FirstOf(Sources(s)) = Sources(s)[3]
    <3>1. 3 \in 1..5 /\ Before(s, 3) /\ Sources(s)[3] # {}
      BY <1>1, <2>1 DEF Before
    <3> QED
      BY <3>1, FirstSource
  <2>3. InDotenv(s, loaded) \in Answers
    BY <1>2, <1>3 DEF InDotenv, Answers
  <2> QED
    BY <1>1, <2>1, <2>2, <2>3
<1>4. CASE s \notin loaded.keys /\ Upper[s] \in loaded.keys
  <2>1. LineOf(s) = {} /\ LineOf(Upper[s]) = {InDotenv(s, loaded)}
    BY <1>4 DEF LineOf, InDotenv
  <2>2. FirstOf(Sources(s)) = Sources(s)[4]
    <3>1. 4 \in 1..5 /\ Before(s, 4) /\ Sources(s)[4] # {}
      BY <1>1, <2>1 DEF Before
    <3> QED
      BY <3>1, FirstSource
  <2>3. InDotenv(s, loaded) \in Answers
    BY <1>2, <1>4 DEF InDotenv, Answers
  <2> QED
    BY <1>1, <2>1, <2>2, <2>3
<1> QED
  BY <1>3, <1>4 DEF InDotenv

\* The file of the name's own comes last, and then there is nothing.
LEMMA FromFile ==
    ASSUME NEW s, NotInEnvironment(s), NotInDotenv(s), first = cache
    PROVE  FirstOf(Sources(s)) =
               IF s \in Safe /\ files[s].shape = "plain"
               THEN {[from |-> "file", version |-> files[s].version]} ELSE {Nothing}
<1>1. LineOf(s) = {} /\ LineOf(Upper[s]) = {}
  BY DEF NotInDotenv, LineOf, EnvFileNow
<1>2. 5 \in 1..5 /\ Before(s, 5)
  <2>1. /\ Sources(s)[1] = {} /\ Sources(s)[2] = {}
        /\ Sources(s)[3] = {} /\ Sources(s)[4] = {}
    BY <1>1, FiveSources DEF NotInEnvironment
  <2> QED
    BY <2>1 DEF Before
<1>3. DOMAIN Sources(s) = 1..5
  BY FiveSources
<1>4. CASE s \in Safe /\ files[s].shape = "plain"
  <2>1. Sources(s)[5] = {[from |-> "file", version |-> files[s].version]}
    BY <1>4, FiveSources
  <2>2. FirstOf(Sources(s)) = Sources(s)[5]
    <3>1. Sources(s)[5] # {}
      BY <2>1
    <3> QED
      BY <1>2, <3>1, FirstSource
  <2> QED
    BY <1>4, <2>1, <2>2
<1>5. CASE ~(s \in Safe /\ files[s].shape = "plain")
  <2>1. Sources(s)[5] = {}
    BY <1>5, FiveSources
  <2>2. \A j \in DOMAIN Sources(s) : Sources(s)[j] = {}
    BY <1>2, <1>3, <2>1 DEF Before
  <2> QED
    BY <1>5, <2>2 DEF FirstOf
<1> QED
  BY <1>4, <1>5

\* What is found in a loaded file is an answer.
LEMMA DotenvTyped ==
    ASSUME NEW s, NEW loaded \in Dotenv, InDotenv(s, loaded) # NotYet
    PROVE  InDotenv(s, loaded) \in Answers
BY DEF InDotenv, Dotenv, Answers

\* The step answers the secret at hand as the order of the sources has it.
InOrder == Len(got') > Len(got) /\ quiet /\ Secret # Overlong =>
               got'[Len(got')] \in FirstOf(Sources(Secret))

LEMMA NoAnswer ==
    ASSUME got \in Seq(Answers), got' = got \/ got' = <<>>
    PROVE  InOrder /\ got' \in Seq(Answers)
<1>1. got' \in Seq(Answers)
  <2>1. <<>> \in Seq(Answers)
    OBVIOUS
  <2>2. CASE got' = got
    BY <2>2
  <2>3. CASE got' = <<>>
    BY <2>1, <2>3
  <2> QED
    BY <2>2, <2>3
<1>2. Len(got) \in Nat
  OBVIOUS
<1>3. ~(Len(got') > Len(got))
  <2>1. CASE got' = got
    BY <1>2, <2>1
  <2>2. CASE got' = <<>>
    <3>1. Len(got') = 0
      BY <2>2
    <3> QED
      BY <1>2, <3>1
  <2> QED
    BY <2>1, <2>2
<1> QED
  BY <1>1, <1>3 DEF InOrder

LEMMA AnswerRules ==
    ASSUME Ruled, NEW a \in Answers, Answer(a), first' = cache',
           quiet /\ Secret # Overlong => a \in FirstOf(Sources(Secret))
    PROVE  Ruled' /\ InOrder
<1>1. got' = Append(got, a) /\ got \in Seq(Answers)
  BY DEF Answer, Ruled
<1>2. got' \in Seq(Answers) /\ got'[Len(got')] = a
  BY <1>1
<1>3. at' = "secret" /\ files' = files
  BY DEF Answer, disk
<1> QED
  BY <1>2, <1>3 DEF Ruled, InOrder

\* A step on to the next place a secret is looked for in.
LEMMA MoveRules ==
    ASSUME Ruled, NEW from, NEW to, Goes(from, to)
    PROVE  /\ InOrder /\ at = from /\ at' = to /\ Secret' = Secret
           /\ UNCHANGED <<direct, prefixed, dotenv, files, cache, first, got, quiet>>
           /\ NotInEnvironment(Secret)' = NotInEnvironment(Secret)
           /\ NotInDotenv(Secret)' = NotInDotenv(Secret)
<1>1. /\ at = from /\ at' = to /\ Secret' = Secret
      /\ UNCHANGED <<direct, prefixed, dotenv, files, cache, first, got, quiet>>
  BY DEF Goes, environment, disk, history, Secret
<1>2. InOrder
  BY <1>1, NoAnswer DEF Ruled
<1> QED
  BY <1>1, <1>2 DEF NotInEnvironment, NotInDotenv

LEMMA LookUpRules == LoadedOnce /\ Ruled /\ LookUp => Ruled' /\ InOrder
<1> SUFFICES ASSUME LoadedOnce, Ruled, LookUp PROVE Ruled' /\ InOrder
    OBVIOUS
<1>1. first = cache /\ first' = cache' /\ (cache # NoFile => cache \in Dotenv)
  BY DEF LookUp, LoadedOnce, TypeOK, Ruled
<1>2. CASE Secret = Overlong
  <2>1. Answer(Nothing) /\ Nothing \in Answers
    BY <1>2 DEF LookUp, Nothing, Answers
  <2> QED
    BY <1>1, <1>2, <2>1, AnswerRules
<1>3. CASE Secret # Overlong /\ InEnvironment(Secret) # NotYet
  <2>1. Answer(InEnvironment(Secret))
    BY <1>3 DEF LookUp
  <2> QED
    BY <1>1, <2>1, <1>3, FromEnvironment, AnswerRules
<1>4. CASE /\ Secret # Overlong /\ InEnvironment(Secret) = NotYet
           /\ cache # NoFile /\ InDotenv(Secret, cache) # NotYet
  <2>1. Answer(InDotenv(Secret, cache))
    BY <1>4 DEF LookUp
  <2>2. NotInEnvironment(Secret)
    BY <1>4 DEF InEnvironment, NotInEnvironment, NotYet
  <2>3. cache = EnvFileNow /\ cache \in Dotenv
    BY <1>1, <1>4 DEF EnvFileNow
  <2>4. /\ InDotenv(Secret, cache) \in FirstOf(Sources(Secret))
        /\ InDotenv(Secret, cache) \in Answers
    BY <1>4, <2>2, <2>3, FromDotenv
  <2> QED
    BY <1>1, <2>1, <2>4, AnswerRules
<1>5. CASE /\ Secret # Overlong /\ InEnvironment(Secret) = NotYet
           /\ cache # NoFile => InDotenv(Secret, cache) = NotYet
  <2>1. Goes("secret", IF cache # NoFile THEN "fallback" ELSE "size")
    BY <1>5 DEF LookUp
  <2>2. NotInEnvironment(Secret)
    BY <1>5 DEF InEnvironment, NotInEnvironment, NotYet
  <2>3. cache # NoFile => NotInDotenv(Secret)
    BY <1>5 DEF InDotenv, NotInDotenv, NotYet
  <2>4. at' = IF cache # NoFile THEN "fallback" ELSE "size"
    BY <2>1, MoveRules
  <2> QED
    BY <1>5, <2>1, <2>2, <2>3, <2>4, MoveRules DEF Ruled
<1> QED
  BY <1>2, <1>3, <1>4, <1>5

\* The checks of the .env file.
LEMMA CheckRules == LoadedOnce /\ Ruled /\ (CheckSize \/ CheckKind) => Ruled' /\ InOrder
<1> SUFFICES ASSUME LoadedOnce, Ruled, CheckSize \/ CheckKind PROVE Ruled' /\ InOrder
    OBVIOUS
<1>1. CASE CheckSize
  <2>1. Goes("size", IF dotenv.shape \in {"absent", "huge"} THEN "fallback" ELSE "kind")
    BY <1>1 DEF CheckSize
  <2>2. at = "size" /\ cache = NoFile /\ NotInEnvironment(Secret) /\ Secret # Overlong
    BY <2>1 DEF Goes, LoadedOnce, Ruled
  <2>3. dotenv.shape \in {"absent", "huge"} => NotInDotenv(Secret)
    BY <2>2 DEF NotInDotenv
  <2>4. at' = IF dotenv.shape \in {"absent", "huge"} THEN "fallback" ELSE "kind"
    BY <2>1, MoveRules
  <2> QED
    BY <2>1, <2>2, <2>3, <2>4, MoveRules DEF Ruled
<1>2. CASE CheckKind
  <2> DEFINE ok == ValidateFilePath(TRUE, dotenv.shape, TRUE)
  <2>1. Goes("kind", IF ok THEN "parse" ELSE "fallback")
    BY <1>2 DEF CheckKind
  <2>2. at = "kind" /\ cache = NoFile /\ NotInEnvironment(Secret) /\ Secret # Overlong
    BY <2>1 DEF Goes, LoadedOnce, Ruled
  <2>3. ~ok => NotInDotenv(Secret)
    BY <2>2 DEF NotInDotenv, ValidateFilePath
  <2>4. ok /\ quiet => dotenv.shape \in {"garbled", "plain"}
    BY <2>2 DEF ValidateFilePath, Ruled, LoadedOnce, TypeOK, Dotenv, Shapes
  <2> HIDE DEF ok
  <2>5. at' = IF ok THEN "parse" ELSE "fallback"
    BY <2>1, MoveRules
  <2> QED
    BY <2>1, <2>2, <2>3, <2>4, <2>5, MoveRules DEF Ruled
<1> QED
  BY <1>1, <1>2

LEMMA ParseRules == LoadedOnce /\ Ruled /\ Parse => Ruled' /\ InOrder
<1> SUFFICES ASSUME LoadedOnce, Ruled, Parse PROVE Ruled' /\ InOrder
    OBVIOUS
<1> DEFINE readable == dotenv.shape \in Openable
           found == IF readable THEN InDotenv(Secret, dotenv) ELSE NotYet
<1>1. /\ cache = NoFile /\ first = NoFile /\ NotInEnvironment(Secret) /\ Secret # Overlong
      /\ dotenv \in Dotenv /\ dotenv # NoFile
      /\ quiet => dotenv.shape \in {"garbled", "plain"}
  BY DotenvIsAFile DEF Parse, LoadedOnce, TypeOK, Ruled
<1>2. cache' = (IF readable THEN dotenv ELSE NoFile) /\ first' = cache'
  BY <1>1 DEF Parse, Kept
<1>3. CASE found # NotYet
  <2>1. Answer(found) /\ readable /\ found = InDotenv(Secret, dotenv)
    BY <1>3 DEF Parse
  <2>2. found \in Answers
    BY <1>1, <1>3, <2>1, DotenvTyped
  <2>3. quiet => dotenv = EnvFileNow
    BY <1>1, <2>1 DEF EnvFileNow, Openable
  <2>4. quiet => found \in FirstOf(Sources(Secret))
    BY <1>1, <1>3, <2>1, <2>3, FromDotenv
  <2> HIDE DEF found, readable
  <2> QED
    BY <1>2, <2>1, <2>2, <2>4, AnswerRules
<1>4. CASE found = NotYet
  <2>1. /\ at' = "fallback" /\ Secret' = Secret
        /\ UNCHANGED <<direct, prefixed, dotenv, files, got, quiet>>
    BY <1>4 DEF Parse, environment, disk, Secret
  <2>2. InOrder /\ got' \in Seq(Answers)
    BY <2>1, NoAnswer DEF Ruled
  <2>3. NotInDotenv(Secret)'
    <3>1. CASE readable
      BY <1>1, <1>2, <1>4, <2>1, <3>1 DEF NotInDotenv, InDotenv, NotYet
    <3>2. CASE ~readable
      BY <1>2, <2>1, <3>2 DEF NotInDotenv, Openable
    <3> QED
      BY <3>1, <3>2
  <2>4. NotInEnvironment(Secret)'
    BY <1>1, <2>1 DEF NotInEnvironment
  <2> QED
    BY <1>1, <1>2, <2>1, <2>2, <2>3, <2>4 DEF Ruled
<1> QED
  BY <1>3, <1>4

LEMMA FileRules == LoadedOnce /\ Ruled /\ (CheckFile \/ ReadFile) => Ruled' /\ InOrder
<1> SUFFICES ASSUME LoadedOnce, Ruled, CheckFile \/ ReadFile PROVE Ruled' /\ InOrder
    OBVIOUS
<1>1. /\ NotInEnvironment(Secret) /\ Secret # Overlong /\ first = cache
      /\ quiet => NotInDotenv(Secret)
      /\ files \in [Safe -> SecretFiles]
  BY DEF CheckFile, ReadFile, Answer, Goes, Ruled
<1>2. quiet => FirstOf(Sources(Secret)) =
                   IF Secret \in Safe /\ files[Secret].shape = "plain"
                   THEN {[from |-> "file", version |-> files[Secret].version]}
                   ELSE {Nothing}
  BY <1>1, FromFile
<1>3. Nothing \in Answers
  BY DEF Nothing, Answers
<1>4. CASE CheckFile
  <2> DEFINE ok == Secret \in Safe /\ ValidateFilePath(TRUE, files[Secret].shape, TRUE)
  <2>1. CASE ok
    <3>1. Goes("fallback", "read")
      BY <1>4, <2>1 DEF CheckFile
    <3>2. Secret \in Safe /\ files[Secret].shape \in {"garbled", "plain"}
      BY <1>1, <2>1 DEF ValidateFilePath, SecretFiles, Shapes
    <3>3. /\ at' = "read" /\ Secret' = Secret /\ InOrder
          /\ UNCHANGED <<files, cache, first, got, quiet>>
          /\ NotInEnvironment(Secret)' = NotInEnvironment(Secret)
          /\ NotInDotenv(Secret)' = NotInDotenv(Secret)
      BY <3>1, MoveRules
    <3> QED
      BY <1>1, <3>2, <3>3 DEF Ruled
  <2>2. CASE ~ok
    <3>1. Answer(Nothing) /\ UNCHANGED <<cache, first>>
      BY <1>4, <2>2 DEF CheckFile
    <3>2. ~(Secret \in Safe /\ files[Secret].shape = "plain")
      BY <2>2 DEF ValidateFilePath
    <3> QED
      BY <1>1, <1>2, <1>3, <3>1, <3>2, AnswerRules
  <2> QED
    BY <2>1, <2>2
<1>5. CASE ReadFile
  <2> DEFINE a == IF files[Secret].shape \in Openable
                  THEN [from |-> "file", version |-> files[Secret].version] ELSE Nothing
  <2>1. /\ at = "read" /\ Answer(a) /\ UNCHANGED <<cache, first>>
        /\ Secret \in Safe /\ quiet => files[Secret].shape \in {"garbled", "plain"}
    BY <1>5 DEF ReadFile, Ruled
  <2>2. Secret \in Safe /\ files[Secret] \in SecretFiles
    BY <1>1, <2>1 DEF Ruled
  <2>3. a \in Answers
    <3>1. files[Secret].version \in Nat
      BY <2>2, EditsAssumption DEF SecretFiles
    <3> QED
      BY <1>3, <3>1 DEF Answers
  <2>4. quiet => a \in FirstOf(Sources(Secret))
    BY <1>2, <2>1, <2>2 DEF Openable
  <2> HIDE DEF a
  <2> QED
    BY <1>1, <2>1, <2>3, <2>4, AnswerRules
<1> QED
  BY <1>4, <1>5

LEMMA InitRules == Init => Ruled
BY DEF Init, Ruled

\* Every step keeps what has been ruled out, and answers in order if it answers.
LEMMA StepRules == LoadedOnce /\ Ruled /\ [Next]_vars => Ruled' /\ [InOrder]_vars
<1> SUFFICES ASSUME LoadedOnce, Ruled, [Next]_vars PROVE Ruled' /\ [InOrder]_vars
    OBVIOUS
<1>1. CASE (\E e \in Entries : Begin(e)) \/ Finish \/ Restart
  <2>1. /\ at' \in {"secret", "idle"} /\ got' = <<>> /\ first' = cache' /\ files' = files
    BY <1>1 DEF Begin, Finish, Restart, Ruled, disk, history
  <2> QED
    BY <2>1, NoAnswer DEF Ruled
<1>2. CASE LookUp
  BY <1>2, LookUpRules
<1>3. CASE CheckSize \/ CheckKind
  BY <1>3, CheckRules
<1>4. CASE Parse
  BY <1>4, ParseRules
<1>5. CASE CheckFile \/ ReadFile
  BY <1>5, FileRules
<1>6. CASE EditDotenv \/ \E s \in Safe : EditFile(s)
  <2>1. /\ ~quiet' /\ Secret' = Secret
        /\ UNCHANGED <<direct, prefixed, cache, first, at, got>>
    BY <1>6 DEF EditDotenv, EditFile, environment, Secret
  <2>2. files' \in [Safe -> SecretFiles]
    BY <1>6 DEF EditDotenv, EditFile, Ruled
  <2> QED
    BY <2>1, <2>2, NoAnswer DEF Ruled, NotInEnvironment
<1>7. CASE UNCHANGED vars
  BY <1>7 DEF vars, environment, disk, history, Ruled, NotInEnvironment, NotInDotenv, Secret
<1> QED
  BY <1>1, <1>2, <1>3, <1>4, <1>5, <1>6, <1>7 DEF Next

\* A secret nobody edits while it is looked for comes from the first of its
\* variable, its prefixed variable, the .env file and its own file to have it.
THEOREM SourcesInOrder == Spec => AnswersInOrder
<1>1. Spec => [][InOrder]_vars
  BY Initially, StepKeeps, InitRules, StepRules, PTL DEF Spec
<1> QED
  BY <1>1 DEF AnswersInOrder, InOrder

=============================================================================
