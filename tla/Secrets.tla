------------------------------- MODULE Secrets -------------------------------
(***************************************************************************)
(* Credentials as src/mcp_ssh/config.py finds them: get_credentials        *)
(* resolves a key path and up to two secrets, each from an environment     *)
(* variable, the .env file or a file of its own, while an operator edits    *)
(* those files.  The .env file is cached for the life of the process.      *)
(*                                                                         *)
(* The tool handlers call get_credentials on the event loop without an     *)
(* await, so the calls follow one another.                                 *)
(***************************************************************************)
EXTENDS Naturals, FiniteSets, Sequences

CONSTANTS
    Names,      \* names of secrets
    Overlong,   \* a name above MAX_SECRET_NAME_LENGTH
    Safe,       \* the names of letters, digits, dashes and underscores
    Upper,      \* function: str.upper() of a name
    Entries,    \* entries of credentials.yml that calls ask for
    Environments,  \* environments the process may start in
    Dotenvs,    \* shapes and contents the .env file may have
    MaxEdits    \* bound on the edits of an operator

ASSUME NamesAssumption == Safe \subseteq Names /\ Overlong \notin Names /\ DOMAIN Upper = Names
ASSUME FilesAssumption ==
    /\ Environments \subseteq [direct : SUBSET Names, prefixed : SUBSET Names]
    /\ Dotenvs \subseteq [shape : {"absent", "directory", "garbled", "huge", "link", "plain"},
                         keys : SUBSET (Names \cup {Upper[s] : s \in Names})]
ASSUME EditsAssumption == MaxEdits \in Nat

Keys == Names \cup {Upper[s] : s \in Names}

\* A file as the checks and open() find it: "huge" is above MAX_ENV_FILE_SIZE, a
\* link opens as what it points to, and what is garbled cannot be read or decoded.
\* The version tells contents apart.
Shapes      == {"absent", "directory", "garbled", "huge", "link", "plain"}
Openable    == {"huge", "link", "plain"}
SecretFiles == [shape : Shapes \ {"huge"}, version : 0..MaxEdits]
DotenvOf(content, version) ==
    [shape |-> content.shape, keys |-> content.keys, version |-> version]

NoFile  == [shape |-> "none"]
Nothing == [from |-> "nowhere"]
NotYet  == [from |-> "pending"]
NoCreds == [returned |-> FALSE]

VARIABLES
    direct,    \* names whose upper case is an environment variable
    prefixed,  \* names with a variable MCP_SSH_SECRET_...
    dotenv,    \* the .env file
    files,     \* the secret files
    cache,     \* _env_file_cache[secrets_dir]
    at,        \* where the call under way is
    entry,     \* its entry
    todo,      \* the secrets it has yet to resolve
    got,       \* what it has resolved
    creds,     \* what get_credentials returned last
    edits,     \* edits so far
    quiet,     \* history: no edit since the secret at hand was begun
    first,     \* history: the first .env file this process could load
    taken      \* history: versions of .env this process took secrets from

environment == <<direct, prefixed>>
disk == <<dotenv, files, edits>>
history == <<quiet, first, taken>>
vars == <<environment, disk, cache, at, entry, todo, got, creds, history>>

Idle == [key |-> NoFile, password |-> "", inline |-> FALSE, passphrase |-> ""]

\* The process starts with an empty cache, on any environment and any files.
Init ==
    /\ \E e \in Environments : direct = e.direct /\ prefixed = e.prefixed
    /\ \E c \in Dotenvs : dotenv = DotenvOf(c, 0)
    /\ files \in [Safe -> {f \in SecretFiles : f.version = 0}]
    /\ cache = NoFile
    /\ at = "idle" /\ entry = Idle /\ todo = <<>> /\ got = <<>> /\ creds = NoCreds
    /\ edits = 0
    /\ quiet = TRUE /\ first = NoFile /\ taken = {}

-----------------------------------------------------------------------------
(* _validate_file_path, and _resolve_key_path on top of it: a path is what    *)
(* its text and its place under the keys directory make of it.                *)

ValidateFilePath(inside, shape, requireExists) ==
    /\ inside
    /\ shape \notin {"directory", "link"}
    /\ shape = "absent" => ~requireExists

KeyPaths == [text : {"empty", "overlong", "dotdot", "fine"}, inside : BOOLEAN,
             shape : Shapes]

ResolveKeyPath(p) ==
    IF p.text = "fine" /\ ValidateFilePath(p.inside, p.shape, FALSE) THEN p ELSE NoFile

-----------------------------------------------------------------------------
(* Slips a change to this code could make; the runs must notice each.        *)

\* The order of the two branches in _resolve_secret the other way round.
PrefixedFirst(s) ==
    IF s \in prefixed THEN [from |-> "prefixed"]
    ELSE IF s \in direct THEN [from |-> "direct"]
    ELSE NotYet

\* A parse that does not fill the cache.
Unkept(loaded) == NoFile

\* A parse that caches what it has, even when it fails.
KeptAnyhow(loaded) ==
    IF loaded = NoFile THEN [dotenv EXCEPT !.keys = {}] ELSE loaded

-----------------------------------------------------------------------------
(* get_credentials                                                           *)

Given(e) == SelectSeq(<<e.password, e.passphrase>>, LAMBDA s : s # "")

Begin(e) ==
    /\ at = "idle"
    /\ entry' = e
    /\ todo' = Given(e)
    /\ got' = <<>>
    /\ at' = "secret" /\ quiet' = TRUE /\ creds' = NoCreds
    /\ UNCHANGED <<environment, disk, cache, first, taken>>

Secret == Head(todo)

\* The secret at hand is resolved to the answer.
Answer(a) ==
    /\ got' = Append(got, a)
    /\ todo' = Tail(todo)
    /\ at' = "secret" /\ quiet' = TRUE
    /\ taken' = IF a.from = "dotenv" THEN taken \cup {a.version} ELSE taken
    /\ UNCHANGED <<environment, disk, entry, creds>>

Goes(from, to) ==
    /\ at = from /\ at' = to
    /\ UNCHANGED <<environment, disk, cache, entry, todo, got, creds, history>>

\* The environment: the variable of the name itself, then the prefixed one.
InEnvironment(s) ==
    IF s \in direct THEN [from |-> "direct"]
    ELSE IF s \in prefixed THEN [from |-> "prefixed"]
    ELSE NotYet

\* What a loaded .env file has for a name: the name itself, else its upper case.
InDotenv(s, loaded) ==
    LET as(key) == [from |-> "dotenv", version |-> loaded.version, key |-> key]
    IN  IF s \in loaded.keys THEN as(s)
        ELSE IF Upper[s] \in loaded.keys THEN as(Upper[s])
        ELSE NotYet

\* _resolve_secret, as far as it goes without touching the disk.
LookUp ==
    /\ at = "secret" /\ todo # <<>>
    /\ UNCHANGED <<cache, first>>
    /\ IF Secret = Overlong THEN Answer(Nothing)
       ELSE LET known == IF InEnvironment(Secret) # NotYet THEN InEnvironment(Secret)
                         ELSE IF cache # NoFile THEN InDotenv(Secret, cache)
                         ELSE NotYet
            IN  IF known # NotYet THEN Answer(known)
                ELSE Goes("secret", IF cache # NoFile THEN "fallback" ELSE "size")

\* _load_env_file: does it exist, and is it small enough ...
CheckSize == Goes("size", IF dotenv.shape \in {"absent", "huge"} THEN "fallback" ELSE "kind")

\* ... is it a regular file ...
CheckKind == Goes("kind", IF ValidateFilePath(TRUE, dotenv.shape, TRUE) THEN "parse"
                          ELSE "fallback")

\* ... and what is in it?  An edit may have come between: open() asks nothing of
\* size or kind.
Kept(loaded) == IF loaded # NoFile THEN loaded ELSE cache
Parse ==
    LET readable == dotenv.shape \in Openable
        loaded   == IF readable THEN dotenv ELSE NoFile
        found    == IF readable THEN InDotenv(Secret, dotenv) ELSE NotYet
    IN  /\ at = "parse"
        /\ cache' = Kept(loaded)
        /\ first' = IF first = NoFile THEN loaded ELSE first
        /\ IF found # NotYet THEN Answer(found)
           ELSE /\ at' = "fallback"
                /\ UNCHANGED <<environment, disk, entry, todo, got, creds, quiet, taken>>

\* The file of the secret's own name, if that is one a file may have.
CheckFile ==
    /\ at = "fallback"
    /\ IF Secret \in Safe /\ ValidateFilePath(TRUE, files[Secret].shape, TRUE)
       THEN Goes("fallback", "read")
       ELSE Answer(Nothing) /\ UNCHANGED <<cache, first>>

ReadFile ==
    /\ at = "read"
    /\ Answer(IF files[Secret].shape \in Openable
              THEN [from |-> "file", version |-> files[Secret].version] ELSE Nothing)
    /\ UNCHANGED <<cache, first>>

\* A password secret rules an inline password out, whatever it resolved to.
Finish ==
    LET password == IF entry.password # "" THEN got[1]
                    ELSE IF entry.inline THEN [from |-> "inline"] ELSE Nothing
        passphrase == IF entry.passphrase # "" THEN got[Len(got)] ELSE Nothing
    IN  /\ at = "secret" /\ todo = <<>>
        /\ creds' = [returned |-> TRUE, key |-> ResolveKeyPath(entry.key),
                     password |-> password, passphrase |-> passphrase]
        /\ at' = "idle" /\ entry' = Idle /\ got' = <<>>
        /\ UNCHANGED <<environment, disk, cache, todo, history>>

-----------------------------------------------------------------------------
(* The operator, and the end of the process                                  *)

EditDotenv ==
    /\ edits < MaxEdits
    /\ edits' = edits + 1
    /\ \E c \in Dotenvs : dotenv' = DotenvOf(c, edits')
    /\ quiet' = FALSE
    /\ UNCHANGED <<environment, files, cache, at, entry, todo, got, creds, first, taken>>

EditFile(s) ==
    /\ edits < MaxEdits
    /\ edits' = edits + 1
    /\ \E f \in SecretFiles : f.version = edits' /\ files' = [files EXCEPT ![s] = f]
    /\ quiet' = FALSE
    /\ UNCHANGED <<environment, dotenv, cache, at, entry, todo, got, creds, first, taken>>

Restart ==
    /\ cache' = NoFile /\ first' = NoFile /\ taken' = {}
    /\ at' = "idle" /\ entry' = Idle /\ todo' = <<>> /\ got' = <<>> /\ creds' = NoCreds
    /\ quiet' = TRUE
    /\ UNCHANGED <<environment, disk>>

Next == \/ \E e \in Entries : Begin(e)
        \/ LookUp \/ CheckSize \/ CheckKind \/ Parse \/ CheckFile \/ ReadFile \/ Finish
        \/ EditDotenv \/ \E s \in Safe : EditFile(s)
        \/ Restart

Spec == Init /\ [][Next]_vars

-----------------------------------------------------------------------------
(* Properties                                                                *)

Dotenv == [shape : Shapes, keys : SUBSET Keys, version : Nat]

TypeOK ==
    /\ dotenv \in Dotenv /\ edits \in Nat
    /\ cache \in Dotenv \cup {NoFile} /\ first \in Dotenv \cup {NoFile}
    /\ taken \subseteq Nat
    /\ at \in {"idle", "secret", "size", "kind", "parse", "fallback", "read"}

\* All that a process ever takes from the .env file is of one version of it,
\* whatever is edited meanwhile: a password never goes with the passphrase of
\* another day ("cached after first load", docs/wiki/06.2-credentials.yml.md:249).
OneEnvFile == \A v, w \in taken : v = w

\* Why it is so: the file is loaded only while the cache is empty, nothing is taken from it
\* before, and all that is taken later is of the cached version.
LoadedOnce ==
    /\ TypeOK
    /\ at \in {"size", "kind", "parse"} => cache = NoFile
    /\ cache = NoFile => taken = {}
    /\ cache # NoFile => taken \subseteq {cache.version}

\* What the documented order of sources (docs/wiki/06.2-credentials.yml.md:94)
\* says of a secret: its variable, its prefixed variable, the .env file, which is
\* the first this process could load, and its own file.
EnvFileNow == IF first # NoFile THEN first ELSE IF dotenv.shape = "plain" THEN dotenv ELSE NoFile
Sources(s) ==
    LET line(key) == IF EnvFileNow # NoFile /\ key \in EnvFileNow.keys
                     THEN {[from |-> "dotenv", version |-> EnvFileNow.version, key |-> key]} ELSE {}
    IN  << {[from |-> "direct"] : x \in {s} \cap direct},
           {[from |-> "prefixed"] : x \in {s} \cap prefixed},
           line(s), line(Upper[s]),
           {[from |-> "file", version |-> files[x].version] :
               x \in {y \in {s} \cap Safe : files[y].shape = "plain"}} >>
FirstOf(sources) ==
    IF \A i \in DOMAIN sources : sources[i] = {} THEN {Nothing}
    ELSE sources[CHOOSE i \in DOMAIN sources :
                     sources[i] # {} /\ \A j \in 1..(i - 1) : sources[j] = {}]

\* A secret nobody edits while it is looked for comes from the first source that
\* has it.  A .env file that was missing, unreadable or too large when it was
\* first asked for counts from the moment on that it can be read.
AnswersInOrder ==
    [][ Len(got') > Len(got) /\ quiet /\ Secret # Overlong =>
           got'[Len(got')] \in FirstOf(Sources(Secret)) ]_vars
=============================================================================
