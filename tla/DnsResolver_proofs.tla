------------------------- MODULE DnsResolver_proofs -------------------------
(***************************************************************************)
(* What the shared DNS cache keeps, for every set of callers and of names, *)
(* every time to live and every instant at which a caller is held up.      *)
(***************************************************************************)
EXTENDS DnsResolver, FoldLemmas

\* What a delete relies on: readings are of the past, and an entry's expiry
\* is a number of ticks.
DnsInv ==
    /\ active \subseteq Callers
    /\ clock \in Nat
    /\ now \in [Callers -> Nat]
    /\ host \in [Callers -> Hosts]
    /\ ips \in [Callers -> Answers]
    /\ cache \in [Hosts -> Entries \cup {None}]
    /\ ReadingsPast

\* The resolver starts with empty tables and every reading at zero.
LEMMA InitDns == Init => DnsInv
  <1> SUFFICES ASSUME Init PROVE DnsInv
    OBVIOUS
  <1> USE DnsAssumption
  <1>1. active \subseteq Callers /\ clock = 0 /\ now = [c \in Callers |-> 0] /\ cache = [h \in Hosts |-> None]
    BY DEF Init
  <1>2. host \in [Callers -> Hosts] /\ ips \in [Callers -> Answers]
    BY DEF Init
  <1> QED BY <1>1, <1>2 DEF DnsInv, ReadingsPast

\* A step that reads no clock and stores no entry keeps the invariant.
LEMMA QuietDns ==
  ASSUME DnsInv, active' = active, clock' = clock, now' = now,
         host' \in [Callers -> Hosts], ips' \in [Callers -> Answers],
         cache' \in [Hosts -> Entries \cup {None}]
  PROVE  DnsInv'
  BY DEF DnsInv, ReadingsPast

\* A step that reads the clock for one caller keeps the invariant.
LEMMA ReadingDns ==
  ASSUME DnsInv, active' = active,
         NEW c \in Callers, ReadClock(c), clock' = clock,
         host' \in [Callers -> Hosts], ips' = ips, cache' = cache
  PROVE  DnsInv'
  <1>1. now \in [Callers -> Nat] /\ clock \in Nat
    BY DEF DnsInv
  <1>2. now' \in [Callers -> Nat]
    BY <1>1 DEF ReadClock
  <1>3. \A d \in Callers : now'[d] = IF d = c THEN clock ELSE now[d]
    BY <1>1 DEF ReadClock
  <1>4. ReadingsPast'
    BY <1>1, <1>3 DEF DnsInv, ReadingsPast
  <1> QED BY <1>2, <1>4 DEF DnsInv

\* Every step of a caller and of the clock keeps the invariant.
LEMMA NextDns == DnsInv /\ [Next]_vars => DnsInv'
  <1> SUFFICES ASSUME DnsInv, [Next]_vars PROVE DnsInv'
    OBVIOUS
  <1> USE DnsAssumption
  <1>0. /\ active \subseteq Callers /\ active' = active
        /\ clock \in Nat
        /\ now \in [Callers -> Nat]
        /\ host \in [Callers -> Hosts]
        /\ ips \in [Callers -> Answers]
        /\ cache \in [Hosts -> Entries \cup {None}]
    BY DEF DnsInv, Next, vars
  <1>1. ASSUME NEW c \in Callers, NEW h \in Hosts, Resolve(c, h) PROVE DnsInv'
    BY <1>0, <1>1, ReadingDns DEF Resolve, tables
  <1>2. ASSUME NEW c \in Callers, CacheHit(c) PROVE DnsInv'
    <2>1. cache[host[c]] \in Entries
      BY <1>0, <1>2 DEF CacheHit, Usable
    <2>2. cache[host[c]].ips \in Answers
      BY <2>1 DEF Entries
    <2>3. ips' \in [Callers -> Answers]
      BY <1>0, <1>2, <2>2 DEF CacheHit
    <2> QED BY <1>0, <1>2, <2>3, QuietDns DEF CacheHit, tables
  <1>3. ASSUME NEW c \in Callers, CacheMiss(c) PROVE DnsInv'
    <2>1. cache' \in [Hosts -> Entries \cup {None}]
      BY <1>0, <1>3 DEF CacheMiss
    <2> QED BY <1>0, <1>3, <2>1, QuietDns DEF CacheMiss, locals
  <1>4. ASSUME NEW c \in Callers, ReadLimiterClock(c) PROVE DnsInv'
    BY <1>0, <1>4, ReadingDns DEF ReadLimiterClock, tables, locals
  <1>5. ASSUME NEW c \in Callers, CheckLimit(c) PROVE DnsInv'
    <2>1. ips' \in [Callers -> Answers]
      BY <1>0, <1>5 DEF CheckLimit
    <2>2. clock' = clock /\ now' = now /\ host' = host /\ cache' = cache
      BY <1>5 DEF CheckLimit
    <2> QED BY <1>0, <2>1, <2>2, QuietDns
  <1>6. ASSUME NEW c \in Callers, SaveTimeout(c) PROVE DnsInv'
    BY <1>0, <1>6, QuietDns DEF SaveTimeout, tables
  <1>7. ASSUME NEW c \in Callers, Ask(c) PROVE DnsInv'
    BY <1>0, <1>7, QuietDns DEF Ask, tables, locals
  <1>8. ASSUME NEW c \in Callers, NEW a \in Answers, Answered(c, a) PROVE DnsInv'
    BY <1>0, <1>8, QuietDns DEF Answered, tables
  <1>9. ASSUME NEW c \in Callers, RestoreTimeout(c) PROVE DnsInv'
    BY <1>0, <1>9, QuietDns DEF RestoreTimeout, tables, locals
  <1>10. ASSUME NEW c \in Callers, ReadExpiryClock(c) PROVE DnsInv'
    BY <1>0, <1>10, ReadingDns DEF ReadExpiryClock, tables, locals
  <1>11. ASSUME NEW c \in Callers, Store(c) PROVE DnsInv'
    <2>1. [ips |-> ips[c], expiry |-> now[c] + TTL] \in Entries
      BY <1>0 DEF Entries
    <2>2. cache' \in [Hosts -> Entries \cup {None}]
      BY <1>0, <1>11, <2>1 DEF Store
    <2> QED BY <1>0, <1>11, <2>2, QuietDns DEF Store, locals
  <1>12. CASE Tick
    <2>1. clock' = clock + 1 /\ now' = now /\ cache' = cache
          /\ host' = host /\ ips' = ips
      BY <1>12 DEF Tick, locals, tables
    <2>2. ReadingsPast'
      BY <1>0, <2>1 DEF DnsInv, ReadingsPast
    <2> QED BY <1>0, <2>1, <2>2 DEF DnsInv
  <1>13. CASE UNCHANGED vars
    BY <1>0, <1>13, QuietDns DEF vars, locals, tables
  <1> QED
    BY <1>0, <1>1, <1>2, <1>3, <1>4, <1>5, <1>6, <1>7, <1>8, <1>9, <1>10, <1>11,
       <1>12, <1>13 DEF Next, ResolverStep

\* Readings are never ahead of the clock and every entry has an expiry.
THEOREM DnsInvariance == Spec => []DnsInv
  <1> QED BY InitDns, NextDns, PTL DEF Spec

\* Only CacheMiss deletes, and what it calls expired by its own reading is
\* expired by the clock.
LEMMA DropStep ==
  ASSUME DnsInv, [Next]_vars, NEW h \in Hosts,
         cache[h] # None, cache'[h] = None
  PROVE  clock >= cache[h].expiry + Second
  <1> USE DnsAssumption
  <1>0. /\ active \subseteq Callers
        /\ clock \in Nat
        /\ now \in [Callers -> Nat]
        /\ host \in [Callers -> Hosts]
        /\ cache \in [Hosts -> Entries \cup {None}]
        /\ \A c \in Callers : now[c] <= clock
    BY DEF DnsInv, ReadingsPast
  <1>1. cache[h] \in Entries
    BY <1>0
  <1>2. cache[h].expiry \in Nat
    BY <1>1 DEF Entries
  <1>3. cache' # cache
    OBVIOUS
  <1>4. PICK c \in Callers : CacheMiss(c) \/ Store(c)
    BY <1>0, <1>3 DEF Next, ResolverStep, Resolve, CacheHit, ReadLimiterClock,
       CheckLimit, SaveTimeout, Ask, Answered, RestoreTimeout,
       ReadExpiryClock, Tick, tables, vars
  <1>5. CASE Store(c)
    <2>1. cache' = [cache EXCEPT ![host[c]] =
                      [ips |-> ips[c], expiry |-> now[c] + TTL]]
      BY <1>5 DEF Store
    <2>2. h = host[c]
      BY <1>0, <2>1
    <2>3. cache'[h] = [ips |-> ips[c], expiry |-> now[c] + TTL]
      BY <1>0, <2>1, <2>2
    <2>4. now[c] + TTL = -1
      BY <2>3 DEF None
    <2> QED BY <1>0, <2>4
  <1>6. CASE CacheMiss(c)
    <2>1. h = host[c]
      BY <1>0, <1>6 DEF CacheMiss
    <2>2. ~ (now[c] < cache[h].expiry + Second)
      BY <1>6, <2>1 DEF CacheMiss, Usable
    <2> QED BY <1>0, <1>2, <2>2
  <1> QED BY <1>4, <1>5, <1>6

\* The step of a delete, as an action.
Drop == \A h \in Hosts : cache[h] # None /\ cache'[h] = None
                            => clock >= cache[h].expiry + Second

\* No entry that could still be served is deleted, however long its caller
\* waited for the lock after reading the clock.
THEOREM LateDrops == Spec => DropsAreLate
  <1>1. DnsInv /\ [Next]_vars => [Drop]_vars
    BY DropStep DEF Drop
  <1>2. Spec => [][Drop]_vars
    BY <1>1, DnsInvariance, PTL DEF Spec
  <1> QED BY <1>2 DEF DropsAreLate, Drop

-----------------------------------------------------------------------------
(* A caller that is alone.                                                   *)

\* From the miss to getaddrinfo, and from there to the entry.
Missed == {"limiter", "limit", "save", "set"}
Asking == {"lookup", "restore", "expiry", "store"}

LastLookup(h) == lookups[h][Len(lookups[h])]

\* The last lookup of a name is either not in the cache yet, or in an entry that
\* lasts long enough, or long ago.
Settled(d, h) ==
    lookups[h] # <<>> =>
      /\ LastLookup(h) <= clock
      /\ \/ pc[d] \in Asking /\ host[d] = h
         \/ cache[h] # None /\ cache[h].expiry >= LastLookup(h) + TTL
         \/ clock >= LastLookup(h) + TTL + Second

Spaced(h) ==
    \A i, j \in DOMAIN lookups[h] :
        i < j => lookups[h][j] - lookups[h][i] >= TTL + Second

AloneOf(d) ==
    /\ pc[d] \notin {"lookup", "restore"} => timeout = Unset
    /\ pc[d] \in {"set", "lookup", "restore"} => saved[d] = Unset
    /\ pc[d] \in Missed => cache[host[d]] = None
    /\ pc[d] = "store" /\ lookups[host[d]] # <<>> => now[d] >= LastLookup(host[d])
    /\ \A h \in Hosts : Settled(d, h)
    /\ \A h \in Hosts : Spaced(h)

AloneInv ==
    /\ pc \in [Callers -> Places]
    /\ saved = [c \in Callers |-> saved[c]]
    /\ lookups \in [Hosts -> Seq(Nat)]
    /\ \A d \in Callers : active = {d} => AloneOf(d)

\* The first three parts of the invariant, and the others, depend on this.
LEMMA AloneParts ==
  ASSUME NEW d \in Callers,
         pc'[d] \notin {"lookup", "restore"} => timeout' = Unset,
         pc'[d] \in {"set", "lookup", "restore"} => saved'[d] = Unset,
         pc'[d] \in Missed => cache'[host'[d]] = None,
         pc'[d] = "store" /\ lookups'[host'[d]] # <<>> => now'[d] >= LastLookup(host[d])',
         \A h \in Hosts : Settled(d, h)',
         \A h \in Hosts : Spaced(h)'
  PROVE  AloneOf(d)'
  BY DEF AloneOf

\* A step that looks nothing up, and loses no entry or is in no need of it.
LEMMA StaySettled ==
  ASSUME DnsInv, AloneInv, NEW d \in Callers, AloneOf(d), lookups' = lookups,
         clock' \in Nat, clock' >= clock, cache' = cache,
         pc[d] \in Asking => pc'[d] \in Asking /\ host'[d] = host[d]
  PROVE  \A h \in Hosts : Settled(d, h)' /\ Spaced(h)'
  <1> SUFFICES ASSUME NEW h \in Hosts PROVE Settled(d, h)' /\ Spaced(h)'
    OBVIOUS
  <1>1. Spaced(h)'
    BY DEF AloneOf, Spaced
  <1>2. Settled(d, h)
    BY DEF AloneOf
  <1>3. CASE lookups[h] = <<>>
    BY <1>1, <1>3 DEF Settled
  <1>4. CASE lookups[h] # <<>>
    <2>1. LastLookup(h)' = LastLookup(h) /\ LastLookup(h) \in Nat /\ clock \in Nat
      BY <1>4 DEF LastLookup, AloneInv, DnsInv
    <2> QED BY <1>1, <1>2, <1>4, <2>1, DnsAssumption DEF Settled
  <1> QED BY <1>3, <1>4

LEMMA InitAlone == Init => AloneInv
  <1> SUFFICES ASSUME Init PROVE AloneInv
    OBVIOUS
  <1>1. pc \in [Callers -> Places] /\ lookups \in [Hosts -> Seq(Nat)]
    BY DEF Init, Places
  <1>2. ASSUME NEW d \in Callers PROVE AloneOf(d)
    BY DEF Init, AloneOf, Settled, Spaced, Missed
  <1> QED BY <1>1, <1>2 DEF AloneInv, Init

\* The types are kept by every step.
LEMMA TypeAlone ==
  ASSUME DnsInv, AloneInv, [Next]_vars
  PROVE  /\ pc' \in [Callers -> Places] /\ saved' = [c \in Callers |-> saved'[c]]
         /\ lookups' \in [Hosts -> Seq(Nat)]
  <1>1. /\ pc \in [Callers -> Places] /\ saved = [c \in Callers |-> saved[c]]
        /\ lookups \in [Hosts -> Seq(Nat)] /\ clock \in Nat
        /\ host \in [Callers -> Hosts] /\ active \subseteq Callers
    BY DEF AloneInv, DnsInv
  <1>2. ASSUME NEW c \in Callers, Ask(c) PROVE lookups' \in [Hosts -> Seq(Nat)]
    <2>1. host[c] \in Hosts /\ lookups[host[c]] \in Seq(Nat)
      BY <1>1
    <2>2. Append(lookups[host[c]], clock) \in Seq(Nat)
      BY <1>1, <2>1
    <2> QED BY <1>1, <1>2, <2>1, <2>2 DEF Ask
  <1>3. lookups' = lookups \/ \E c \in Callers : Ask(c)
    BY <1>1 DEF Next, vars, ResolverStep, Resolve, CacheHit, CacheMiss, ReadLimiterClock,
       CheckLimit, SaveTimeout, Answered, RestoreTimeout, ReadExpiryClock, Store, Tick
  <1>4. saved' = saved \/ \E c \in Callers : SaveTimeout(c)
    BY <1>1 DEF Next, vars, ResolverStep, Resolve, CacheHit, CacheMiss, ReadLimiterClock,
       CheckLimit, Ask, Answered, RestoreTimeout, ReadExpiryClock, Store, Tick, locals
  <1>5. pc' = pc \/ \E c \in Callers, p \in Places : GoTo(c, p)
    BY <1>1 DEF Next, vars, ResolverStep, Resolve, CacheHit, CacheMiss, ReadLimiterClock,
       CheckLimit, SaveTimeout, Ask, Answered, RestoreTimeout, ReadExpiryClock, Store, Tick,
       Places
  <1>6. pc' \in [Callers -> Places]
    BY <1>1, <1>5 DEF GoTo
  <1>7. saved' = [c \in Callers |-> saved'[c]]
    BY <1>1, <1>4 DEF SaveTimeout
  <1>8. lookups' \in [Hosts -> Seq(Nat)]
    BY <1>1, <1>2, <1>3
  <1> QED BY <1>6, <1>7, <1>8

\* Every step of a caller that is alone, and of the clock.
LEMMA StepAlone ==
  ASSUME DnsInv, AloneInv, [Next]_vars, NEW d \in Callers, active = {d}
  PROVE  AloneOf(d)'
  <1> USE DnsAssumption
  <1>0. /\ clock \in Nat /\ now \in [Callers -> Nat] /\ host \in [Callers -> Hosts]
        /\ cache \in [Hosts -> Entries \cup {None}] /\ now[d] <= clock
        /\ pc \in [Callers -> Places] /\ saved = [c \in Callers |-> saved[c]]
        /\ lookups \in [Hosts -> Seq(Nat)] /\ AloneOf(d)
    BY DEF DnsInv, AloneInv, ReadingsPast
  <1>1. ASSUME NEW h \in Hosts, Resolve(d, h) PROVE AloneOf(d)'
    <2>1. pc[d] = "idle" /\ pc'[d] = "cache" /\ UNCHANGED <<clock, cache, lookups, timeout>>
      BY <1>0, <1>1 DEF Resolve, At, GoTo, tables
    <2>0. pc[d] \in Asking => pc'[d] \in Asking /\ host'[d] = host[d]
      BY <2>1 DEF Asking
    <2>2. \A x \in Hosts : Settled(d, x)' /\ Spaced(x)'
      <3>1. clock' \in Nat /\ clock' >= clock /\ cache' = cache /\ lookups' = lookups
        BY <1>0, <2>1
      <3> QED BY <1>0, <2>0, <3>1, StaySettled
    <2> QED BY <1>0, <2>1, <2>2 DEF AloneOf, Missed
  <1>2. ASSUME CacheHit(d) PROVE AloneOf(d)'
    <2>1. pc[d] = "cache" /\ pc'[d] = "idle" /\ UNCHANGED <<clock, cache, lookups, timeout>>
      BY <1>0, <1>2 DEF CacheHit, At, GoTo, tables
    <2>0. pc[d] \in Asking => pc'[d] \in Asking /\ host'[d] = host[d]
      BY <2>1 DEF Asking
    <2>2. \A x \in Hosts : Settled(d, x)' /\ Spaced(x)'
      <3>1. clock' \in Nat /\ clock' >= clock /\ cache' = cache /\ lookups' = lookups
        BY <1>0, <2>1
      <3> QED BY <1>0, <2>0, <3>1, StaySettled
    <2> QED BY <1>0, <2>1, <2>2 DEF AloneOf, Missed
  <1>3. ASSUME CacheMiss(d) PROVE AloneOf(d)'
    <2>1. /\ pc[d] = "cache" /\ pc'[d] = "limiter"
          /\ UNCHANGED <<clock, now, host, lookups, timeout>>
          /\ cache' = [cache EXCEPT ![host[d]] = None] /\ ~Usable(host[d], now[d])
      BY <1>0, <1>3 DEF CacheMiss, At, GoTo, locals
    <2>2. ASSUME NEW h \in Hosts PROVE Settled(d, h)'
      <3>1. CASE lookups[h] = <<>>
        BY <2>1, <3>1 DEF Settled
      <3>2. CASE lookups[h] # <<>>
        <4>1. LastLookup(h)' = LastLookup(h) /\ LastLookup(h) \in Nat
          BY <1>0, <2>1, <3>2 DEF LastLookup
        <4>2. Settled(d, h)
          BY <1>0 DEF AloneOf
        <4>3. CASE h # host[d]
          BY <1>0, <2>1, <3>2, <4>1, <4>2, <4>3 DEF Settled, Asking
        <4>4. CASE h = host[d] /\ cache[h] # None
          <5>1. now[d] >= cache[h].expiry + Second /\ cache[h].expiry \in Nat
            BY <1>0, <2>1, <4>4 DEF Usable, Entries
          <5> QED BY <1>0, <2>1, <3>2, <4>1, <4>2, <5>1 DEF Settled, Asking
        <4>5. CASE cache[h] = None
          BY <1>0, <2>1, <3>2, <4>1, <4>2, <4>5 DEF Settled, Asking
        <4> QED BY <4>3, <4>4, <4>5
      <3> QED BY <3>1, <3>2
    <2>3. \A h \in Hosts : Spaced(h)'
      BY <1>0, <2>1 DEF AloneOf, Spaced
    <2>4. cache'[host'[d]] = None
      BY <1>0, <2>1
    <2> QED BY <1>0, <2>1, <2>2, <2>3, <2>4 DEF AloneOf
  <1>4. ASSUME ReadLimiterClock(d) \/ CheckLimit(d) \/ SaveTimeout(d) PROVE AloneOf(d)'
    <2>1. /\ pc[d] \in {"limiter", "limit", "save"} /\ pc'[d] \in {"limit", "save", "set", "idle"}
          /\ UNCHANGED <<clock, cache, host, lookups, timeout>>
      BY <1>0, <1>4 DEF ReadLimiterClock, CheckLimit, SaveTimeout, At, GoTo, locals, tables
    <2>0. pc[d] \in Asking => pc'[d] \in Asking /\ host'[d] = host[d]
      BY <2>1 DEF Asking
    <2>2. \A x \in Hosts : Settled(d, x)' /\ Spaced(x)'
      <3>1. clock' \in Nat /\ clock' >= clock /\ cache' = cache /\ lookups' = lookups
        BY <1>0, <2>1
      <3> QED BY <1>0, <2>0, <3>1, StaySettled
    <2>3. pc'[d] = "set" => SaveTimeout(d)
      BY <1>0, <1>4 DEF ReadLimiterClock, CheckLimit, GoTo
    <2>4. pc'[d] = "set" => saved'[d] = Unset
      BY <1>0, <2>1, <2>3 DEF SaveTimeout, AloneOf
    <2> QED BY <1>0, <2>1, <2>2, <2>4 DEF AloneOf, Missed
  <1>5. ASSUME Ask(d) PROVE AloneOf(d)'
    <2>1. /\ pc[d] = "set" /\ pc'[d] = "lookup" /\ UNCHANGED <<clock, now, host, saved, cache>>
          /\ lookups' = [lookups EXCEPT ![host[d]] = Append(@, clock)]
      BY <1>0, <1>5 DEF Ask, At, GoTo, locals, tables
    <2>2. cache[host[d]] = None /\ saved[d] = Unset
      BY <1>0, <2>1 DEF AloneOf, Missed
    <2>3. ASSUME NEW h \in Hosts, h # host[d] PROVE Settled(d, h)' /\ Spaced(h)'
      <3>1. lookups'[h] = lookups[h] /\ LastLookup(h)' = LastLookup(h)
        BY <1>0, <2>1, <2>3 DEF LastLookup
      <3> QED BY <1>0, <2>1, <2>3, <3>1 DEF AloneOf, Settled, Spaced, Asking
    <2>4. ASSUME NEW h \in Hosts, h = host[d] PROVE Settled(d, h)' /\ Spaced(h)'
      <3> DEFINE s == lookups[h]
      <3>1. s \in Seq(Nat) /\ lookups'[h] = Append(s, clock)
        BY <1>0, <2>1, <2>4
      <3>2. /\ Len(lookups'[h]) = Len(s) + 1 /\ LastLookup(h)' = clock
            /\ \A i \in 1..Len(s) : lookups'[h][i] = s[i]
            /\ lookups'[h][Len(s) + 1] = clock
            /\ DOMAIN lookups'[h] = 1..Len(s) + 1 /\ DOMAIN s = 1..Len(s)
        BY <1>0, <3>1 DEF LastLookup
      <3>3. Settled(d, h)'
        BY <1>0, <2>1, <2>4, <3>2 DEF Settled, Asking
      <3>4. Settled(d, h) /\ Spaced(h)
        BY <1>0 DEF AloneOf
      <3>5. s # <<>> => clock >= LastLookup(h) + TTL + Second
        BY <2>1, <2>2, <2>4, <3>4 DEF Settled, Asking
      <3>6. ASSUME NEW i \in 1..Len(s) PROVE clock - s[i] >= TTL + Second
        <4> DEFINE last == s[Len(s)]
                   that == s[i]
        <4>1. s # <<>> /\ LastLookup(h) = last /\ Len(s) \in 1..Len(s)
          BY <3>1, <3>6 DEF LastLookup
        <4>2. that \in Nat /\ last \in Nat
          BY <3>1, <4>1
        <4>3. that = last \/ last - that >= TTL + Second
          <5>1. CASE i = Len(s)
            BY <5>1
          <5>2. CASE i < Len(s)
            <6>1. i \in DOMAIN lookups[h] /\ Len(s) \in DOMAIN lookups[h]
              BY <3>2, <4>1
            <6> QED BY <3>4, <5>2, <6>1 DEF Spaced
          <5> QED BY <3>1, <5>1, <5>2
        <4>4. clock >= last + TTL + Second
          BY <3>5, <4>1
        <4>5. clock \in Nat /\ TTL \in Nat /\ Second \in Nat
          BY <1>0
        <4> HIDE DEF last, that, s
        <4>6. clock - that >= TTL + Second
          BY <4>2, <4>3, <4>4, <4>5
        <4> QED BY <4>6 DEF that
      <3>7. ASSUME NEW i \in DOMAIN lookups'[h], NEW j \in DOMAIN lookups'[h], i < j
            PROVE  lookups'[h][j] - lookups'[h][i] >= TTL + Second
        <4>1. i \in 1..Len(s)
          BY <3>1, <3>2, <3>7
        <4>2. CASE j = Len(s) + 1
          BY <3>2, <3>6, <4>1, <4>2
        <4>3. CASE j # Len(s) + 1
          <5>1. j \in 1..Len(s)
            BY <3>1, <3>2, <4>3
          <5> QED BY <3>2, <3>4, <3>7, <4>1, <5>1 DEF Spaced
        <4> QED BY <4>2, <4>3
      <3> QED BY <3>3, <3>7 DEF Spaced
    <2> QED BY <1>0, <2>1, <2>2, <2>3, <2>4 DEF AloneOf, Missed
  <1>6. ASSUME NEW a \in Answers, Answered(d, a) PROVE AloneOf(d)'
    <2>1. /\ pc[d] = "lookup" /\ pc'[d] = "restore"
          /\ UNCHANGED <<clock, cache, host, saved, lookups, timeout>>
      BY <1>0, <1>6 DEF Answered, At, GoTo, tables
    <2>0. pc[d] \in Asking => pc'[d] \in Asking /\ host'[d] = host[d]
      BY <2>1 DEF Asking
    <2>2. \A x \in Hosts : Settled(d, x)' /\ Spaced(x)'
      <3>1. clock' \in Nat /\ clock' >= clock /\ cache' = cache /\ lookups' = lookups
        BY <1>0, <2>1
      <3> QED BY <1>0, <2>0, <3>1, StaySettled
    <2> QED BY <1>0, <2>1, <2>2 DEF AloneOf, Missed
  <1>7. ASSUME RestoreTimeout(d) PROVE AloneOf(d)'
    <2>1. /\ pc[d] = "restore" /\ pc'[d] = "expiry" /\ timeout' = saved[d]
          /\ UNCHANGED <<clock, cache, host, saved, lookups>>
      BY <1>0, <1>7 DEF RestoreTimeout, At, GoTo, locals, tables
    <2>0. pc[d] \in Asking => pc'[d] \in Asking /\ host'[d] = host[d]
      BY <2>1 DEF Asking
    <2>2. \A x \in Hosts : Settled(d, x)' /\ Spaced(x)'
      <3>1. clock' \in Nat /\ clock' >= clock /\ cache' = cache /\ lookups' = lookups
        BY <1>0, <2>1
      <3> QED BY <1>0, <2>0, <3>1, StaySettled
    <2> QED BY <1>0, <2>1, <2>2 DEF AloneOf, Missed
  <1>8. ASSUME ReadExpiryClock(d) PROVE AloneOf(d)'
    <2>1. /\ pc[d] = "expiry" /\ pc'[d] = "store" /\ now'[d] = clock
          /\ UNCHANGED <<clock, cache, host, saved, lookups, timeout>>
      BY <1>0, <1>8 DEF ReadExpiryClock, ReadClock, At, GoTo, locals, tables
    <2>0. pc[d] \in Asking => pc'[d] \in Asking /\ host'[d] = host[d]
      BY <2>1 DEF Asking
    <2>2. \A x \in Hosts : Settled(d, x)' /\ Spaced(x)'
      <3>1. clock' \in Nat /\ clock' >= clock /\ cache' = cache /\ lookups' = lookups
        BY <1>0, <2>1
      <3> QED BY <1>0, <2>0, <3>1, StaySettled
    <2>3. lookups'[host'[d]] # <<>> => now'[d] >= LastLookup(host[d])'
      BY <1>0, <2>1 DEF AloneOf, Settled, LastLookup
    <2> QED BY <1>0, <2>1, <2>2, <2>3 DEF AloneOf, Missed
  <1>9. ASSUME Store(d) PROVE AloneOf(d)'
    <2>1. /\ pc[d] = "store" /\ pc'[d] = "idle"
          /\ UNCHANGED <<clock, host, saved, lookups, timeout>>
          /\ cache' = [cache EXCEPT ![host[d]] = [ips |-> ips[d], expiry |-> now[d] + TTL]]
      BY <1>0, <1>9 DEF Store, At, GoTo, locals
    <2>2. ASSUME NEW h \in Hosts PROVE Settled(d, h)'
      <3>1. CASE lookups[h] = <<>>
        BY <2>1, <3>1 DEF Settled
      <3>2. CASE lookups[h] # <<>>
        <4>1. LastLookup(h)' = LastLookup(h) /\ LastLookup(h) \in Nat
          BY <1>0, <2>1, <3>2 DEF LastLookup
        <4>2. Settled(d, h)
          BY <1>0 DEF AloneOf
        <4>3. CASE h # host[d]
          BY <1>0, <2>1, <3>2, <4>1, <4>2, <4>3 DEF Settled, Asking
        <4>4. CASE h = host[d]
          <5>1. cache'[h] = [ips |-> ips[d], expiry |-> now[d] + TTL] /\ now[d] \in Nat
            BY <1>0, <2>1, <4>4
          <5>2. cache'[h].expiry = now[d] + TTL
            BY <5>1
          <5>3. cache'[h] # None
            BY <1>0, <5>1, <5>2 DEF None
          <5>4. now[d] >= LastLookup(h)
            BY <1>0, <2>1, <3>2, <4>4 DEF AloneOf
          <5>5. cache'[h].expiry >= LastLookup(h)' + TTL
            BY <4>1, <5>1, <5>2, <5>4
          <5>6. LastLookup(h)' <= clock'
            BY <2>1, <3>2, <4>1, <4>2 DEF Settled
          <5> QED BY <5>3, <5>5, <5>6 DEF Settled
        <4> QED BY <4>3, <4>4
      <3> QED BY <3>1, <3>2
    <2>3. \A h \in Hosts : Spaced(h)'
      BY <1>0, <2>1 DEF AloneOf, Spaced
    <2> QED BY <1>0, <2>1, <2>2, <2>3 DEF AloneOf, Missed
  <1>10. CASE Tick
    <2>1. clock' = clock + 1 /\ UNCHANGED <<pc, now, host, saved, cache, lookups, timeout>>
      BY <1>10 DEF Tick, locals, tables
    <2>0. pc[d] \in Asking => pc'[d] \in Asking /\ host'[d] = host[d]
      BY <2>1 DEF Asking
    <2>2. \A x \in Hosts : Settled(d, x)' /\ Spaced(x)'
      <3>1. clock' \in Nat /\ clock' >= clock /\ cache' = cache /\ lookups' = lookups
        BY <1>0, <2>1
      <3> QED BY <1>0, <2>0, <3>1, StaySettled
    <2> QED BY <1>0, <2>1, <2>2 DEF AloneOf, LastLookup
  <1>11. CASE UNCHANGED vars
    <2>1. UNCHANGED <<clock, pc, now, host, saved, cache, lookups, timeout>>
      BY <1>11 DEF vars, locals, tables
    <2> QED BY <1>0, <2>1 DEF AloneOf, LastLookup, Settled, Spaced
  <1> QED
    BY <1>1, <1>2, <1>3, <1>4, <1>5, <1>6, <1>7, <1>8, <1>9, <1>10, <1>11
       DEF Next, ResolverStep

\* What a caller that is alone relies on holds in every state.
LEMMA NextAlone == DnsInv /\ AloneInv /\ [Next]_vars => AloneInv'
  <1> SUFFICES ASSUME DnsInv, AloneInv, [Next]_vars PROVE AloneInv'
    OBVIOUS
  <1>1. active' = active
    BY DEF Next, vars
  <1> QED BY <1>1, TypeAlone, StepAlone DEF AloneInv

LEMMA AloneInvariance == Spec => []AloneInv
  <1> QED BY InitDns, NextDns, InitAlone, NextAlone, PTL DEF Spec

\* A caller that is alone leaves the process the socket timeout it found, however
\* its lookups end.
THEOREM TimeoutComesBack == Spec => []TimeoutRestored
  <1>1. AloneInv => TimeoutRestored
    BY DEF AloneInv, AloneOf, TimeoutRestored, Alone
  <1> QED BY <1>1, AloneInvariance, PTL

\* A caller that is alone asks for a name no sooner than a time to live and a
\* second after it last did, answered or not.
THEOREM LookupsAreSpaced == Spec => []LookupsSpaced
  <1>1. AloneInv => LookupsSpaced
    BY DEF AloneInv, AloneOf, Spaced, LookupsSpaced, Alone
  <1> QED BY <1>1, AloneInvariance, PTL

-----------------------------------------------------------------------------
(* The rate limiter.                                                         *)

\* The sweep of a name's attempts goes through them one by one.
LEMMA KeptFold ==
  ASSUME NEW T, NEW h, NEW t, stamps[h] \in Seq(T)
  PROVE  \E f \in [0..Len(stamps[h]) -> Seq(T)] :
            /\ f[0] = <<>> /\ f[Len(stamps[h])] = Kept(h, t)
            /\ \A k \in 1..Len(stamps[h]) :
                  f[k] = IF t - stamps[h][k] < Second THEN Append(f[k - 1], stamps[h][k])
                         ELSE f[k - 1]
  <1> DEFINE s == stamps[h]
             n == Len(s)
             X == Seq(T)
             step == [p \in X \X (1..n) |->
                        IF t - s[p[2]] < Second THEN Append(p[1], s[p[2]]) ELSE p[1]]
             Iter(f) == f = [S \in SUBSET DOMAIN s |-> IF S = {} THEN <<>> ELSE
                          LET m == Max(S) IN
                          IF t - s[m] < Second THEN Append(f[S \ {m}], s[m]) ELSE f[S \ {m}]]
             g == CHOOSE f : Iter(f)
             r == [k \in 0..n |-> g[1..k]]
  <1>1. n \in Nat /\ DOMAIN s = 1..n
    OBVIOUS
  <1>2. step \in [X \X (1..n) -> X] /\ <<>> \in X
    OBVIOUS
  <1>3. PICK f \in [SUBSET (1..n) -> X] : IsTable(f, n, <<>>, step)
    <2> HIDE DEF n, step, X
    <2> QED BY <1>1, <1>2, FoldTable
  <1>4. Iter(f)
    BY <1>1, <1>3, MaxInside DEF IsTable
  <1>5. Kept(h, t) = g[1..n]
    BY <1>1 DEF Kept, FoldLeft, MapThenFoldSet
  <1>6. Iter(g)
    BY <1>4
  <1> HIDE DEF g
  <1>7. g[1..0] = <<>>
    <2>1. 1..0 \in SUBSET (1..n) /\ 1..0 = {}
      OBVIOUS
    <2> QED BY <1>1, <1>6, <2>1
  <1>8. ASSUME NEW k \in 1..n
        PROVE  g[1..k] = IF t - s[k] < Second THEN Append(g[1..k - 1], s[k]) ELSE g[1..k - 1]
    <2>1. /\ 1..k \in SUBSET (1..n) /\ 1..k # {}
          /\ Max(1..k) = k /\ (1..k) \ {k} = 1..k - 1
      BY <1>1, IntervalStep
    <2> QED BY <1>1, <1>6, <2>1
  <1>9. r[0] = <<>> /\ r[n] = Kept(h, t)
    BY <1>1, <1>5, <1>7
  <1>10. \A k \in 1..n : r[k] = IF t - s[k] < Second THEN Append(r[k - 1], s[k]) ELSE r[k - 1]
    BY <1>1, <1>8
  <1>11. r = [k \in 0..n |-> r[k]]
    OBVIOUS
  <1> HIDE DEF r
  <1>12. \A k \in 0..n : r[k] \in Seq(T)
    <2> DEFINE S == {k \in 0..n : r[k] \in Seq(T)}
    <2>1. 0 \in S
      <3>1. \A e : e = <<>> => e \in Seq(T)
        OBVIOUS
      <3>2. r[0] \in Seq(T) /\ 0 \in 0..n
        BY <1>1, <1>9, <3>1
      <3> QED BY <3>2
    <2>2. ASSUME NEW k \in 1..n, k - 1 \in S PROVE k \in S
      <3>1. s[k] \in T /\ r[k - 1] \in Seq(T)
        BY <1>1, <2>2
      <3>2. Append(r[k - 1], s[k]) \in Seq(T)
        BY <3>1
      <3>3. r[k] = Append(r[k - 1], s[k]) \/ r[k] = r[k - 1]
        BY <1>10
      <3>4. r[k] \in Seq(T)
        BY <3>1, <3>2, <3>3
      <3> QED BY <1>1, <3>4
    <2>3. \A k \in 0..n : k \in S
      <3> HIDE DEF S
      <3> QED BY <1>1, <2>1, <2>2, InductionUpTo
    <2> QED BY <2>3
  <1>13. r \in [0..n -> Seq(T)]
    BY <1>11, <1>12
  <1> QED BY <1>9, <1>10, <1>13

\* A sweep adds nothing, and keeps every attempt of the second before.
LEMMA KeptAttempts ==
  ASSUME NEW T, NEW h, NEW t, stamps[h] \in Seq(T)
  PROVE  /\ Kept(h, t) \in Seq(T)
         /\ Len(Kept(h, t)) <= Len(stamps[h])
         /\ \A i \in DOMAIN stamps[h] :
               t - stamps[h][i] < Second =>
                  \E j \in DOMAIN Kept(h, t) : Kept(h, t)[j] = stamps[h][i]
  <1> DEFINE s == stamps[h]
             n == Len(s)
             Recent(i) == t - s[i] < Second
             Steps(f) == /\ f[0] = <<>> /\ f[n] = Kept(h, t)
                         /\ \A k \in 1..n :
                              f[k] = IF Recent(k) THEN Append(f[k - 1], s[k]) ELSE f[k - 1]
  <1>0. \E f \in [0..n -> Seq(T)] : Steps(f)
    <2>1. \E f \in [0..Len(stamps[h]) -> Seq(T)] :
            /\ f[0] = <<>> /\ f[Len(stamps[h])] = Kept(h, t)
            /\ \A k \in 1..Len(stamps[h]) :
                  f[k] = IF t - stamps[h][k] < Second THEN Append(f[k - 1], stamps[h][k])
                         ELSE f[k - 1]
      <3> HIDE DEF s, n, Recent, Steps
      <3> QED BY KeptFold
    <2> QED BY <2>1
  <1>1. PICK f \in [0..n -> Seq(T)] : Steps(f)
    BY <1>0
  <1>2. n \in Nat /\ DOMAIN s = 1..n /\ \A i \in 1..n : s[i] \in T
    OBVIOUS
  <1> DEFINE Good(k) == /\ Len(f[k]) <= k
                        /\ \A i \in 1..k : Recent(i) =>
                               \E j \in DOMAIN f[k] : f[k][j] = s[i]
             S == {k \in 0..n : Good(k)}
  <1> HIDE DEF Recent
  <1>3. 0 \in S
    BY <1>1, <1>2
  <1>4. ASSUME NEW k \in 1..n, k - 1 \in S PROVE k \in S
    <2>1. f[k - 1] \in Seq(T) /\ s[k] \in T /\ Good(k - 1)
      BY <1>2, <1>4
    <2>2. CASE ~Recent(k)
      <3>1. f[k] = f[k - 1]
        BY <1>1, <2>2
      <3>2. \A i \in 1..k : Recent(i) => i \in 1..k - 1
        BY <2>2
      <3>3. Len(f[k]) <= k
        BY <2>1, <3>1
      <3> QED BY <2>1, <3>1, <3>2, <3>3
    <2>3. CASE Recent(k)
      <3>1. f[k] = Append(f[k - 1], s[k])
        BY <1>1, <2>3
      <3>2. /\ Len(f[k]) = Len(f[k - 1]) + 1 /\ DOMAIN f[k] = 1..Len(f[k - 1]) + 1
            /\ \A j \in DOMAIN f[k - 1] : j \in DOMAIN f[k] /\ f[k][j] = f[k - 1][j]
            /\ f[k][Len(f[k - 1]) + 1] = s[k] /\ Len(f[k - 1]) + 1 \in DOMAIN f[k]
        BY <2>1, <3>1
      <3>3. Len(f[k]) <= k
        BY <2>1, <3>2
      <3>4. ASSUME NEW i \in 1..k, Recent(i) PROVE \E j \in DOMAIN f[k] : f[k][j] = s[i]
        <4>1. CASE i = k
          BY <3>2, <4>1
        <4>2. CASE i # k
          <5>1. i \in 1..k - 1
            BY <4>2
          <5>2. PICK j \in DOMAIN f[k - 1] : f[k - 1][j] = s[i]
            BY <2>1, <3>4, <5>1
          <5> QED BY <3>2, <5>2
        <4> QED BY <4>1, <4>2
      <3> QED BY <3>3, <3>4
    <2> QED BY <2>2, <2>3
  <1>5. \A k \in 0..n : k \in S
    <2> HIDE DEF S
    <2> QED BY <1>2, <1>3, <1>4, InductionUpTo
  <1>6. n \in 0..n /\ n \in S
    <2> HIDE DEF S
    <2> QED BY <1>2, <1>5
  <1> QED BY <1>1, <1>2, <1>6 DEF Recent

\* A reading is a moment the clock has been at, and the attempts on record are
\* such readings: what it takes to tell an attempt that was swept from a lost one.
LimiterInv ==
    /\ TypeOK
    /\ ReadingsPast
    /\ RecordsCapped
    /\ GrantsRecorded

LEMMA InitLimiter == Init => LimiterInv
  <1> SUFFICES ASSUME Init PROVE LimiterInv
    OBVIOUS
  <1> USE DnsAssumption
  <1>1. \A S, e : e = <<>> => e \in Seq(S)
    OBVIOUS
  <1>2. TypeOK
    BY <1>1 DEF Init, TypeOK, Places
  <1>3. ReadingsPast /\ RecordsCapped /\ GrantsRecorded
    BY DEF Init, ReadingsPast, RecordsCapped, GrantsRecorded, At
  <1> QED BY <1>2, <1>3 DEF LimiterInv

\* Every step keeps the types.
LEMMA TypeStep == TypeOK /\ [Next]_vars => TypeOK'
  <1> SUFFICES ASSUME TypeOK, [Next]_vars PROVE TypeOK'
    OBVIOUS
  <1> USE DnsAssumption
  <1> DEFINE T == 0..MaxTime
  <1>0. /\ active \subseteq Callers /\ active' = active
        /\ clock \in T /\ pc \in [Callers -> Places]
        /\ host \in [Callers -> Hosts] /\ now \in [Callers -> T]
        /\ ips \in [Callers -> Answers]
        /\ saved \in [Callers -> {Unset, DnsTimeout}]
        /\ cache \in [Hosts -> Entries \cup {None}]
        /\ stamps \in [Hosts -> Seq(T)]
        /\ timeout \in {Unset, DnsTimeout}
        /\ lookups \in [Hosts -> Seq(T)]
    BY DEF TypeOK, Next, vars
  <1>1. ASSUME NEW c \in Callers, NEW h \in Hosts, Resolve(c, h) PROVE TypeOK'
    BY <1>0, <1>1 DEF Resolve, GoTo, ReadClock, tables, TypeOK, Places
  <1>2. ASSUME NEW c \in Callers, CacheHit(c) PROVE TypeOK'
    <2>1. cache[host[c]] \in Entries
      BY <1>0, <1>2 DEF CacheHit, Usable
    <2>2. cache[host[c]].ips \in Answers
      BY <2>1 DEF Entries
    <2> QED BY <1>0, <1>2, <2>2 DEF CacheHit, GoTo, tables, TypeOK, Places
  <1>3. ASSUME NEW c \in Callers, CacheMiss(c) PROVE TypeOK'
    BY <1>0, <1>3 DEF CacheMiss, GoTo, locals, TypeOK, Places
  <1>4. ASSUME NEW c \in Callers, ReadLimiterClock(c) PROVE TypeOK'
    BY <1>0, <1>4 DEF ReadLimiterClock, GoTo, ReadClock, locals, tables, TypeOK, Places
  <1>5. ASSUME NEW c \in Callers, CheckLimit(c) PROVE TypeOK'
    <2> DEFINE kept == Kept(host[c], now[c])
    <2>1. host[c] \in Hosts /\ stamps[host[c]] \in Seq(T) /\ now[c] \in T
      BY <1>0
    <2>2. kept \in Seq(T)
      BY <2>1, KeptAttempts
    <2>3. Append(kept, now[c]) \in Seq(T)
      BY <2>1, <2>2
    <2> HIDE DEF kept, T
    <2>4. stamps' \in [Hosts -> Seq(T)]
      BY <1>0, <1>5, <2>2, <2>3 DEF CheckLimit, kept
    <2>5. pc' \in [Callers -> Places] /\ ips' \in [Callers -> Answers]
      BY <1>0, <1>5 DEF CheckLimit, GoTo, Places
    <2> QED BY <1>0, <1>5, <2>4, <2>5 DEF CheckLimit, TypeOK, T
  <1>6. ASSUME NEW c \in Callers, SaveTimeout(c) PROVE TypeOK'
    BY <1>0, <1>6 DEF SaveTimeout, GoTo, tables, TypeOK, Places
  <1>7. ASSUME NEW c \in Callers, Ask(c) PROVE TypeOK'
    <2>1. host[c] \in Hosts /\ lookups[host[c]] \in Seq(T)
      BY <1>0
    <2>2. Append(lookups[host[c]], clock) \in Seq(T)
      BY <1>0, <2>1
    <2> HIDE DEF T
    <2>3. lookups' \in [Hosts -> Seq(T)]
      BY <1>0, <1>7, <2>1, <2>2 DEF Ask
    <2> QED BY <1>0, <1>7, <2>3 DEF Ask, GoTo, locals, tables, TypeOK, Places, T
  <1>8. ASSUME NEW c \in Callers, NEW a \in Answers, Answered(c, a) PROVE TypeOK'
    BY <1>0, <1>8 DEF Answered, GoTo, tables, TypeOK, Places
  <1>9. ASSUME NEW c \in Callers, RestoreTimeout(c) PROVE TypeOK'
    BY <1>0, <1>9 DEF RestoreTimeout, GoTo, locals, tables, TypeOK, Places
  <1>10. ASSUME NEW c \in Callers, ReadExpiryClock(c) PROVE TypeOK'
    BY <1>0, <1>10 DEF ReadExpiryClock, ReadClock, GoTo, locals, tables, TypeOK, Places
  <1>11. ASSUME NEW c \in Callers, Store(c) PROVE TypeOK'
    <2>1. [ips |-> ips[c], expiry |-> now[c] + TTL] \in Entries
      BY <1>0 DEF Entries
    <2> QED BY <1>0, <1>11, <2>1 DEF Store, GoTo, locals, TypeOK, Places
  <1>12. CASE Tick
    BY <1>0, <1>12 DEF Tick, locals, tables, TypeOK
  <1>13. CASE UNCHANGED vars
    BY <1>0, <1>13 DEF vars, locals, tables, TypeOK
  <1> QED
    BY <1>0, <1>1, <1>2, <1>3, <1>4, <1>5, <1>6, <1>7, <1>8, <1>9, <1>10, <1>11,
       <1>12, <1>13 DEF Next, ResolverStep

\* What is on record for a caller that was let through and has not yet called.
OnRecord(c) ==
    \/ \E i \in DOMAIN stamps[host[c]] : stamps[host[c]][i] = now[c]
    \/ clock - now[c] >= Second

\* A sweep by one caller takes from another only what is a second old.
LEMMA LimitStep ==
  ASSUME LimiterInv, NEW c \in Callers, CheckLimit(c)
  PROVE  RecordsCapped' /\ GrantsRecorded'
  <1> USE DnsAssumption
  <1> DEFINE T == 0..MaxTime
             h == host[c]
             kept == Kept(h, now[c])
  <1>0. /\ clock \in T /\ pc \in [Callers -> Places]
        /\ host \in [Callers -> Hosts] /\ now \in [Callers -> T]
        /\ stamps \in [Hosts -> Seq(T)]
        /\ \A d \in Callers : now[d] <= clock
        /\ h \in Hosts /\ stamps[h] \in Seq(T)
        /\ \A x \in Hosts : Len(stamps[x]) <= MaxPerSecond
    BY DEF LimiterInv, TypeOK, ReadingsPast, RecordsCapped
  <1>1. /\ kept \in Seq(T) /\ Len(kept) <= Len(stamps[h])
        /\ \A i \in DOMAIN stamps[h] : now[c] - stamps[h][i] < Second =>
              \E j \in DOMAIN kept : kept[j] = stamps[h][i]
    <2>1. stamps[h] \in Seq(T)
      BY <1>0
    <2> HIDE DEF h, T
    <2> QED BY <2>1, KeptAttempts
  <1>2. UNCHANGED <<clock, now, host>>
    BY DEF CheckLimit
  <1> HIDE DEF kept, T
  <1>3. \/ /\ Len(kept) >= MaxPerSecond /\ pc' = [pc EXCEPT ![c] = "idle"]
           /\ stamps' = [stamps EXCEPT ![h] = kept]
        \/ /\ Len(kept) < MaxPerSecond /\ pc' = [pc EXCEPT ![c] = "save"]
           /\ stamps' = [stamps EXCEPT ![h] = Append(kept, now[c])]
    BY <1>0, <1>1 DEF CheckLimit, GoTo, kept
  <1> DEFINE new == stamps'[h]
  <1>4. /\ Len(new) <= MaxPerSecond
        /\ \A i \in DOMAIN kept : \E j \in DOMAIN new : new[j] = kept[i]
        /\ pc'[c] = "save" => \E j \in DOMAIN new : new[j] = now[c]
        /\ \A d \in Callers : d # c => pc'[d] = pc[d]
        /\ \A x \in Hosts : x # h => stamps'[x] = stamps[x]
    <2>1. CASE /\ Len(kept) >= MaxPerSecond /\ pc' = [pc EXCEPT ![c] = "idle"]
               /\ stamps' = [stamps EXCEPT ![h] = kept]
      <3>1. new = kept /\ pc'[c] = "idle"
        BY <1>0, <2>1
      <3>2. Len(new) <= MaxPerSecond
        BY <1>0, <1>1, <3>1
      <3> QED BY <1>0, <2>1, <3>1, <3>2
    <2>2. CASE /\ Len(kept) < MaxPerSecond /\ pc' = [pc EXCEPT ![c] = "save"]
               /\ stamps' = [stamps EXCEPT ![h] = Append(kept, now[c])]
      <3>1. new = Append(kept, now[c])
        BY <1>0, <2>2
      <3>2. /\ Len(new) = Len(kept) + 1 /\ DOMAIN new = 1..Len(kept) + 1
            /\ DOMAIN kept = 1..Len(kept) /\ Len(kept) \in Nat
            /\ new[Len(kept) + 1] = now[c] /\ \A i \in 1..Len(kept) : new[i] = kept[i]
        BY <1>0, <1>1, <3>1
      <3>3. Len(new) <= MaxPerSecond
        BY <2>2, <3>2
      <3>4. \A i \in DOMAIN kept : i \in DOMAIN new
        BY <3>2
      <3>5. Len(kept) + 1 \in DOMAIN new
        BY <3>2
      <3> HIDE DEF new
      <3> QED BY <1>0, <2>2, <3>2, <3>3, <3>4, <3>5
    <2> QED BY <1>3, <2>1, <2>2
  <1> HIDE DEF new
  <1>5. RecordsCapped'
    BY <1>0, <1>4 DEF RecordsCapped, new
  <1>6. ASSUME NEW d \in Callers, pc'[d] = "save" PROVE OnRecord(d)'
    <2>1. CASE d = c
      BY <1>2, <1>4, <1>6, <2>1 DEF OnRecord, new
    <2>2. CASE d # c /\ host[d] # h
      BY <1>0, <1>2, <1>4, <1>6, <2>2 DEF OnRecord, LimiterInv, GrantsRecorded, At
    <2>3. CASE d # c /\ host[d] = h
      <3>1. OnRecord(d)
        BY <1>4, <1>6, <2>3 DEF OnRecord, LimiterInv, GrantsRecorded, At
      <3>2. CASE clock - now[d] >= Second
        BY <1>2, <3>2 DEF OnRecord
      <3>3. CASE ~(clock - now[d] >= Second)
        <4>1. PICK i \in DOMAIN stamps[h] : stamps[h][i] = now[d]
          BY <2>3, <3>1, <3>3 DEF OnRecord
        <4>2. now[c] <= clock /\ now[c] \in Int /\ now[d] \in Int /\ clock \in Int
          BY <1>0 DEF T
        <4>3. now[c] - stamps[h][i] < Second
          BY <3>3, <4>1, <4>2
        <4>4. \E j \in DOMAIN new : new[j] = now[d]
          BY <1>1, <1>4, <4>1, <4>3
        <4> QED BY <1>2, <2>3, <4>4 DEF OnRecord, new
      <3> QED BY <3>2, <3>3
    <2> QED BY <2>1, <2>2, <2>3
  <1>7. GrantsRecorded'
    BY <1>6 DEF GrantsRecorded, OnRecord, At
  <1> QED BY <1>5, <1>7

\* The other steps leave the limiter's records alone, and time only passes.
LEMMA NextLimiter == LimiterInv /\ [Next]_vars => LimiterInv'
  <1> SUFFICES ASSUME LimiterInv, [Next]_vars PROVE LimiterInv'
    OBVIOUS
  <1> USE DnsAssumption
  <1>1. TypeOK'
    BY TypeStep DEF LimiterInv
  <1>2. DnsInv
    BY DEF LimiterInv, TypeOK, DnsInv
  <1>3. ReadingsPast'
    BY <1>2, NextDns DEF DnsInv
  <1>4. /\ active \subseteq Callers /\ clock \in 0..MaxTime /\ pc \in [Callers -> Places]
        /\ host \in [Callers -> Hosts] /\ now \in [Callers -> 0..MaxTime]
    BY DEF LimiterInv, TypeOK
  <1>5. ASSUME stamps' = stamps, clock' \in {clock, clock + 1},
               \A c \in Callers : pc'[c] = "save" =>
                  pc[c] = "save" /\ now'[c] = now[c] /\ host'[c] = host[c]
        PROVE  RecordsCapped' /\ GrantsRecorded'
    <2>1. RecordsCapped'
      BY <1>5 DEF LimiterInv, RecordsCapped
    <2>2. ASSUME NEW c \in Callers, pc'[c] = "save" PROVE OnRecord(c)'
      <3>1. /\ OnRecord(c) /\ now'[c] = now[c] /\ host'[c] = host[c]
        BY <1>5, <2>2 DEF LimiterInv, GrantsRecorded, OnRecord, At
      <3>2. CASE clock - now[c] >= Second
        <4>1. clock' - now'[c] >= Second
          BY <1>4, <1>5, <3>1, <3>2
        <4> QED BY <4>1 DEF OnRecord
      <3>3. CASE \E i \in DOMAIN stamps[host[c]] : stamps[host[c]][i] = now[c]
        BY <1>5, <3>1, <3>3 DEF OnRecord
      <3> QED BY <3>1, <3>2, <3>3 DEF OnRecord
    <2> QED BY <2>1, <2>2 DEF GrantsRecorded, OnRecord, At
  <1>6. ASSUME NEW c \in Callers, CheckLimit(c) PROVE RecordsCapped' /\ GrantsRecorded'
    BY <1>6, LimitStep
  <1>7. ASSUME NEW c \in Callers, ResolverStep(c), ~CheckLimit(c)
        PROVE  RecordsCapped' /\ GrantsRecorded'
    <2>1. stamps' = stamps /\ clock' = clock
      BY <1>7 DEF ResolverStep, Resolve, CacheHit, CacheMiss, ReadLimiterClock, SaveTimeout,
         Ask, Answered, RestoreTimeout, ReadExpiryClock, Store, tables
    <2>2. /\ pc'[c] # "save" /\ \A d \in Callers : d # c => pc'[d] = pc[d]
          /\ \A d \in Callers : d # c => now'[d] = now[d] /\ host'[d] = host[d]
      BY <1>4, <1>7 DEF ResolverStep, Resolve, CacheHit, CacheMiss, ReadLimiterClock,
         SaveTimeout, Ask, Answered, RestoreTimeout, ReadExpiryClock, Store, GoTo,
         ReadClock, locals
    <2> QED BY <1>5, <2>1, <2>2
  <1>8. ASSUME Tick \/ UNCHANGED vars PROVE RecordsCapped' /\ GrantsRecorded'
    <2>1. /\ stamps' = stamps /\ clock' \in {clock, clock + 1}
          /\ pc' = pc /\ now' = now /\ host' = host
      BY <1>8 DEF Tick, vars, locals, tables
    <2> QED BY <1>5, <2>1
  <1>9. RecordsCapped' /\ GrantsRecorded'
    <2>1. Tick \/ UNCHANGED vars \/ \E c \in Callers : ResolverStep(c)
      BY <1>4 DEF Next
    <2> QED BY <1>6, <1>7, <1>8, <2>1
  <1> QED BY <1>1, <1>3, <1>9 DEF LimiterInv

LEMMA LimiterInvariance == Spec => []LimiterInv
  <1> QED BY InitLimiter, NextLimiter, PTL DEF Spec

\* The resolver's variables keep their types.
THEOREM DnsTypes == Spec => []TypeOK
  <1> QED BY LimiterInvariance, PTL DEF LimiterInv

\* The limiter never has more attempts of a name on record than it allows in a
\* second, whatever the order in which its callers' readings reach it.
THEOREM LimiterCapped == Spec => []RecordsCapped
  <1> QED BY LimiterInvariance, PTL DEF LimiterInv

\* An attempt that was let through is on record until getaddrinfo is called, or a
\* second has gone by since the reading it was let through with.
THEOREM GrantsOnRecord == Spec => []GrantsRecorded
  <1> QED BY LimiterInvariance, PTL DEF LimiterInv

=============================================================================
