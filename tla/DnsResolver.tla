---------------------------- MODULE DnsResolver -----------------------------
(***************************************************************************)
(* SSHClient.resolve_ips and its helpers (src/mcp_ssh/ssh_client.py): the  *)
(* cache, the per-host rate limiter and the process-wide socket timeout    *)
(* that callers on several threads share.  Both tables sit behind one      *)
(* lock, so a locked block is one step; but each helper reads the clock    *)
(* before it takes the lock, and the timeout is saved, set and restored    *)
(* with no lock at all, so these are steps of their own.                   *)
(***************************************************************************)
EXTENDS Integers, SequencesExt

CONSTANTS Callers,     \* threads that call resolve_ips
          Hosts,       \* the names they ask for
          Answers,     \* what getaddrinfo can give; a failure gives Nothing
          Nothing,     \* no addresses
          Second,      \* ticks of the clock in a second
          TTL,         \* DNS_CACHE_TTL_SECONDS, in ticks
          MaxPerSecond,\* DNS_MAX_RESOLUTIONS_PER_SECOND
          Unset,       \* the default socket timeout the process starts with
          DnsTimeout,  \* DNS_RESOLUTION_TIMEOUT_SECONDS
          MaxTime      \* bound: the last instant of the clock

ASSUME DnsAssumption ==
    /\ Second \in Nat \ {0} /\ TTL \in Nat
    /\ MaxPerSecond \in Nat \ {0} /\ MaxTime \in Nat
    /\ Nothing \in Answers

VARIABLES
    active,    \* the threads that do call; fixed
    clock,
    pc,        \* where each caller is in resolve_ips
    host,      \* its argument
    now,       \* its last reading of the clock
    ips,       \* the addresses it has, or last returned
    saved,     \* old_timeout
    cache,     \* _dns_cache
    stamps,    \* _dns_rate_limiter; an absent name is an empty list
    timeout,   \* socket.getdefaulttimeout()
    lookups    \* history: when getaddrinfo was called for each name

locals == <<host, ips, saved>>
tables == <<cache, stamps>>
vars == <<active, clock, pc, now, locals, tables, timeout, lookups>>

Places == {"idle", "cache", "limiter", "limit", "save", "set", "lookup",
           "restore", "expiry", "store"}
None == [ips |-> Nothing, expiry |-> -1]   \* a name with no entry
Entries == [ips : Answers, expiry : Nat]

TypeOK ==
    /\ active \subseteq Callers
    /\ clock \in 0..MaxTime
    /\ pc \in [Callers -> Places]
    /\ host \in [Callers -> Hosts]
    /\ now \in [Callers -> 0..MaxTime]
    /\ ips \in [Callers -> Answers]
    /\ saved \in [Callers -> {Unset, DnsTimeout}]
    /\ cache \in [Hosts -> Entries \cup {None}]
    /\ stamps \in [Hosts -> Seq(0..MaxTime)]
    /\ timeout \in {Unset, DnsTimeout}
    /\ lookups \in [Hosts -> Seq(0..MaxTime)]

Init ==
    /\ active \in (SUBSET Callers) \ {{}}
    /\ clock = 0
    /\ pc = [c \in Callers |-> "idle"]
    /\ host \in [Callers -> Hosts]
    /\ now = [c \in Callers |-> 0]
    /\ ips = [c \in Callers |-> Nothing]
    /\ saved = [c \in Callers |-> Unset]
    /\ cache = [h \in Hosts |-> None]
    /\ stamps = [h \in Hosts |-> <<>>]
    /\ timeout = Unset
    /\ lookups = [h \in Hosts |-> <<>>]

At(c, place) == pc[c] = place
GoTo(c, place) == pc' = [pc EXCEPT ![c] = place]
ReadClock(c) == now' = [now EXCEPT ![c] = clock]

\* The attempts of h made within a second of reading t, in their order.
Kept(h, t) ==
    FoldLeft(LAMBDA kept, a : IF t - a < Second THEN Append(kept, a) ELSE kept,
             <<>>, stamps[h])

-----------------------------------------------------------------------------
(* Slips a change to this code could make; the runs must notice each.        *)

\* An entry judged by its time to live without the grace, and deleted.
StrictUsable(h, t) == cache[h] # None /\ t < cache[h].expiry

\* Only answers with addresses are cached.
ProudStore(c) ==
    /\ At(c, "store") /\ GoTo(c, "idle")
    /\ cache' = IF ips[c] = Nothing THEN cache
                ELSE [cache EXCEPT ![host[c]] =
                        [ips |-> ips[c], expiry |-> now[c] + TTL]]
    /\ UNCHANGED <<clock, now, locals, stamps, timeout, lookups>>

\* A restore that a failed lookup jumps over.
SkippedRestore(c) ==
    /\ At(c, "restore") /\ GoTo(c, "expiry")
    /\ timeout' = IF ips[c] = Nothing THEN timeout ELSE saved[c]
    /\ UNCHANGED <<clock, now, locals, tables, lookups>>

\* An attempt counted before the limit is checked.
EagerCheckLimit(c) ==
    LET h == host[c]
        kept == Append(Kept(h, now[c]), now[c])
    IN  /\ At(c, "limit")
        /\ stamps' = [stamps EXCEPT ![h] = kept]
        /\ IF Len(kept) > MaxPerSecond
           THEN GoTo(c, "idle") /\ ips' = [ips EXCEPT ![c] = Nothing]
           ELSE GoTo(c, "save") /\ ips' = ips
        /\ UNCHANGED <<clock, now, host, saved, cache, timeout, lookups>>

\* Attempts newer than the caller's own reading swept along with the old.
WindowCheckLimit(c) ==
    LET h == host[c]
        kept == SelectSeq(Kept(h, now[c]), LAMBDA a : a <= now[c])
    IN  /\ At(c, "limit")
        /\ IF Len(kept) >= MaxPerSecond
           THEN /\ GoTo(c, "idle")
                /\ stamps' = [stamps EXCEPT ![h] = kept]
                /\ ips' = [ips EXCEPT ![c] = Nothing]
           ELSE /\ GoTo(c, "save")
                /\ stamps' = [stamps EXCEPT ![h] = Append(kept, now[c])]
                /\ ips' = ips
        /\ UNCHANGED <<clock, now, host, saved, cache, timeout, lookups>>

-----------------------------------------------------------------------------
(* resolve_ips                                                               *)

\* now < expiry_time + 1.0
Usable(h, t) == cache[h] # None /\ t < cache[h].expiry + Second

\* The call, and the clock reading with which _get_cached_ips begins.
Resolve(c, h) ==
    /\ At(c, "idle") /\ GoTo(c, "cache")
    /\ host' = [host EXCEPT ![c] = h]
    /\ ReadClock(c)
    /\ UNCHANGED <<clock, ips, saved, tables, timeout, lookups>>

CacheHit(c) ==
    LET h == host[c]
    IN  /\ At(c, "cache") /\ Usable(h, now[c])
        /\ GoTo(c, "idle")
        /\ ips' = [ips EXCEPT ![c] = cache[h].ips]
        /\ UNCHANGED <<clock, now, host, saved, tables, timeout, lookups>>

\* No entry, or one too old, which is deleted.
CacheMiss(c) ==
    LET h == host[c]
    IN  /\ At(c, "cache") /\ ~Usable(h, now[c])
        /\ GoTo(c, "limiter")
        /\ cache' = [cache EXCEPT ![h] = None]
        /\ UNCHANGED <<clock, now, locals, stamps, timeout, lookups>>

ReadLimiterClock(c) ==
    /\ At(c, "limiter") /\ GoTo(c, "limit")
    /\ ReadClock(c)
    /\ UNCHANGED <<clock, locals, tables, timeout, lookups>>

\* The locked block of _is_rate_limited, and the return when it says so.
CheckLimit(c) ==
    LET h == host[c]
        kept == Kept(h, now[c])
    IN  /\ At(c, "limit")
        /\ IF Len(kept) >= MaxPerSecond
           THEN /\ GoTo(c, "idle")
                /\ stamps' = [stamps EXCEPT ![h] = kept]
                /\ ips' = [ips EXCEPT ![c] = Nothing]
           ELSE /\ GoTo(c, "save")
                /\ stamps' = [stamps EXCEPT ![h] = Append(kept, now[c])]
                /\ ips' = ips
        /\ UNCHANGED <<clock, now, host, saved, cache, timeout, lookups>>

SaveTimeout(c) ==
    /\ At(c, "save") /\ GoTo(c, "set")
    /\ saved' = [saved EXCEPT ![c] = timeout]
    /\ UNCHANGED <<clock, now, host, ips, tables, timeout, lookups>>

\* setdefaulttimeout, and getaddrinfo called.
Ask(c) ==
    /\ At(c, "set") /\ GoTo(c, "lookup")
    /\ timeout' = DnsTimeout
    /\ lookups' = [lookups EXCEPT ![host[c]] = Append(@, clock)]
    /\ UNCHANGED <<clock, now, locals, tables>>

\* getaddrinfo answers, or raises and leaves the set empty.
Answered(c, a) ==
    /\ At(c, "lookup") /\ GoTo(c, "restore")
    /\ ips' = [ips EXCEPT ![c] = a]
    /\ UNCHANGED <<clock, now, host, saved, tables, timeout, lookups>>

RestoreTimeout(c) ==
    /\ At(c, "restore") /\ GoTo(c, "expiry")
    /\ timeout' = saved[c]
    /\ UNCHANGED <<clock, now, locals, tables, lookups>>

ReadExpiryClock(c) ==
    /\ At(c, "expiry") /\ GoTo(c, "store")
    /\ ReadClock(c)
    /\ UNCHANGED <<clock, locals, tables, timeout, lookups>>

\* The locked block of _cache_ips, and the return.
Store(c) ==
    /\ At(c, "store") /\ GoTo(c, "idle")
    /\ cache' = [cache EXCEPT ![host[c]] =
                    [ips |-> ips[c], expiry |-> now[c] + TTL]]
    /\ UNCHANGED <<clock, now, locals, stamps, timeout, lookups>>

Tick ==
    /\ clock < MaxTime
    /\ clock' = clock + 1
    /\ UNCHANGED <<pc, now, locals, tables, timeout, lookups>>

ResolverStep(c) ==
    \/ \E h \in Hosts : Resolve(c, h)
    \/ CacheHit(c) \/ CacheMiss(c)
    \/ ReadLimiterClock(c) \/ CheckLimit(c)
    \/ SaveTimeout(c) \/ Ask(c)
    \/ \E a \in Answers : Answered(c, a)
    \/ RestoreTimeout(c) \/ ReadExpiryClock(c) \/ Store(c)

Next == /\ Tick \/ \E c \in active : ResolverStep(c)
        /\ active' = active

Spec == Init /\ [][Next]_vars

-----------------------------------------------------------------------------
(* Properties                                                                *)

\* A reading is never ahead of the clock, so what it calls expired is.
ReadingsPast == \A c \in Callers : now[c] <= clock

\* _get_cached_ips deletes only entries whose grace is over, though the
\* clock was read before the lock and the entry may have been replaced by a
\* newer one in between.
DropsAreLate ==
    [][\A h \in Hosts :
         cache[h] # None /\ cache'[h] = None
            => clock >= cache[h].expiry + Second]_vars

\* The limiter keeps at most MaxPerSecond attempts of a name, whatever the
\* order in which its callers' readings reach it.
RecordsCapped == \A h \in Hosts : Len(stamps[h]) <= MaxPerSecond

\* An attempt the limiter lets through is on record when getaddrinfo is
\* called, unless a caller with a reading a second later has swept it.
GrantsRecorded ==
    \A c \in Callers :
        At(c, "save") =>
            \/ \E i \in DOMAIN stamps[host[c]] : stamps[host[c]][i] = now[c]
            \/ clock - now[c] >= Second

Alone == \E c \in Callers : active = {c}

\* With one caller, lookups of one name are a time to live and a grace
\* apart: every answer, a failed one too, is cached.
LookupsSpaced ==
    Alone => \A h \in Hosts : \A i, j \in DOMAIN lookups[h] :
        i < j => lookups[h][j] - lookups[h][i] >= TTL + Second

\* With one caller the process has its default socket timeout back when no
\* lookup is under way: the save and restore of resolve_ips, failed lookups
\* included.
TimeoutRestored ==
    Alone /\ (\A c \in Callers : pc[c] \notin {"lookup", "restore"}) => timeout = Unset

=============================================================================
