-------------------------- MODULE CredentialCache --------------------------
(***************************************************************************)
(* The in-memory credential cache of one session of the service            *)
(* (src/src/service.rs: Cache, expire, launch, cache_resolved, resume,     *)
(* refresh), with the guardians that look credentials up and the clock.    *)
(*                                                                         *)
(* A credential value is identified by the lookup it came from: the        *)
(* operation that looked it up, its profile, and in which epoch the        *)
(* operation was launched.  `epoch' counts what a user sees as clearing    *)
(* the cache (refresh, stop, resume), independently of the generation      *)
(* number the code compares.                                               *)
(*                                                                         *)
(* There are two clocks.  What expires is decided by Instants, the         *)
(* monotonic clock, here in ticks of which a second has several; inspect() *)
(* reports what timestamp() made of the wall clock in whole seconds.  The  *)
(* wall clock is ahead of the other by `offset', which anybody may change. *)
(***************************************************************************)
EXTENDS Naturals

CONSTANTS
    Operations,
    Profiles,
    CacheTtl,       \* cache_ttl_seconds of each profile, 0 for no cache
    Ttl,            \* ttl_seconds of every profile
    Second,         \* ticks in a second
    MaxTime,        \* bound of the monotonic clock
    MaxOffset,      \* bound of the wall clock's lead
    MaxEpoch,       \* bound of refresh, stop and resume
    NoValue

Time == 0 .. MaxTime
Value == [operation : Operations, profile : Profiles, epoch : 0 .. MaxEpoch]

ASSUME CacheAssumption ==
    /\ CacheTtl \in [Profiles -> Nat] /\ Ttl \in Nat
    /\ Second \in Nat \ {0}
    /\ MaxTime \in Nat /\ MaxOffset \in Nat /\ MaxEpoch \in Nat
    /\ NoValue \notin Value

VARIABLES
    now,        \* Instant::now()
    offset,     \* how far the wall clock is ahead of it
    session,    \* active, started, created_at, profile
    cache,      \* Session.cache: values, fetched, fetched_at, generation
    worker,     \* the guardian and its handler thread, per operation
    epoch,      \* history: user-visible clears so far
    steady      \* history: nobody has set the wall clock

clock == <<offset, steady>>
vars == <<now, clock, session, cache, worker, epoch>>

Worker == [pc : {"idle", "reserved", "looking_up", "resolved", "running", "done"},
           generation : Nat, epoch : 0 .. MaxEpoch,
           values : Value \union {NoValue}]

\* Types of the variables.
TypeOK ==
    /\ now \in Time /\ offset \in 0 .. MaxOffset /\ steady \in BOOLEAN
    /\ session \in [active : BOOLEAN, started : Time, created_at : Nat,
                    profile : Profiles]
    /\ cache \in [values : Value \union {NoValue}, fetched : Time,
                  fetched_at : Nat, generation : Nat]
    /\ worker \in [Operations -> Worker]
    /\ epoch \in 0 .. MaxEpoch

Unfinished(o) == worker[o].pc \notin {"idle", "done"}

-----------------------------------------------------------------------------
(* Cache::clear and State::expire *)

Clear(c) == [values |-> NoValue, fetched |-> 0, fetched_at |-> 0,
             generation |-> c.generation + 1]

Stale ==
    /\ cache.values # NoValue
    /\ now - cache.fetched >= CacheTtl[session.profile] * Second
Aged == session.active /\ now - session.started >= Ttl * Second

ExpiredCache ==
    LET kept == IF Stale THEN Clear(cache) ELSE cache IN
    IF Aged THEN Clear(kept) ELSE kept
ExpiredSession == [session EXCEPT !.active = @ /\ ~Aged]

Earlier(s, t) == IF s < t THEN s ELSE t

\* From this instant on expire() drops the value.
Deadline == Earlier(cache.fetched + CacheTtl[session.profile] * Second,
                    session.started + Ttl * Second)

\* timestamp() at instant t, and the deadline of the value in inspect()'s answer.
Timestamp(t) == (t + offset) \div Second
Reported == Earlier(cache.fetched_at + CacheTtl[session.profile],
                    session.created_at + Ttl)

\* Instant::now() is read first and timestamp() after it; in between time passes.
Later == now .. MaxTime

Tick ==
    /\ now < MaxTime
    /\ now' = now + 1
    /\ UNCHANGED <<clock, session, cache, worker, epoch>>

SetClock ==
    /\ offset' \in 0 .. MaxOffset \ {offset}
    /\ steady' = FALSE
    /\ UNCHANGED <<now, session, cache, worker, epoch>>

\* expire() from the main loop or from a request with no other effect.
Expire ==
    /\ Stale \/ Aged
    /\ cache' = ExpiredCache
    /\ session' = ExpiredSession
    /\ UNCHANGED <<now, clock, worker, epoch>>

-----------------------------------------------------------------------------
(* Requests *)

\* refresh() asks for no active session.
Refresh ==
    /\ epoch < MaxEpoch /\ epoch' = epoch + 1
    /\ cache' = Clear(ExpiredCache)
    /\ session' = ExpiredSession
    /\ UNCHANGED <<now, clock, worker>>

Stop ==
    /\ ExpiredSession.active
    /\ epoch < MaxEpoch /\ epoch' = epoch + 1
    /\ cache' = Clear(ExpiredCache)
    /\ session' = [session EXCEPT !.active = FALSE]
    /\ UNCHANGED <<now, clock, worker>>

Resume(p) ==
    /\ ~ExpiredSession.active
    /\ \A o \in Operations : ~Unfinished(o)
    /\ epoch < MaxEpoch /\ epoch' = epoch + 1
    /\ cache' = Clear(ExpiredCache)
    /\ now' \in Later
    /\ session' = [active |-> TRUE, started |-> now,
                    created_at |-> Timestamp(now'), profile |-> p]
    /\ UNCHANGED <<clock, worker>>

Reserve(o) ==
    /\ worker[o].pc = "idle"
    /\ ExpiredSession.active
    /\ cache' = ExpiredCache
    /\ session' = ExpiredSession
    /\ worker' = [worker EXCEPT ![o].pc = "reserved"]
    /\ UNCHANGED <<now, clock, epoch>>

-----------------------------------------------------------------------------
(* One operation: launch, lookup, report, finish *)

\* launch(): values and generation come from one critical section.
Launch(o) ==
    /\ worker[o].pc = "reserved"
    /\ ExpiredSession.active
    /\ cache' = ExpiredCache
    /\ session' = ExpiredSession
    /\ worker' = [worker EXCEPT ![o] =
            [pc |-> "looking_up", generation |-> ExpiredCache.generation,
             epoch |-> epoch, values |-> ExpiredCache.values]]
    /\ UNCHANGED <<now, clock, epoch>>

LaunchRefused(o) ==
    /\ worker[o].pc = "reserved"
    /\ ~ExpiredSession.active
    /\ cache' = ExpiredCache
    /\ session' = ExpiredSession
    /\ worker' = [worker EXCEPT ![o].pc = "done"]
    /\ UNCHANGED <<now, clock, epoch>>

AlwaysReports(o) == TRUE                \* wrong: reuse is reported like a lookup
Reports(o) == worker[o].values = NoValue /\ CacheTtl[session.profile] > 0

\* execute() in the guardian: resolve what was not handed over, and report it
\* before the command starts if the profile caches.
LookUp(o) ==
    /\ worker[o].pc = "looking_up"
    /\ worker' = [worker EXCEPT
            ![o].pc = IF Reports(o) THEN "resolved" ELSE "running",
            ![o].values = IF @ # NoValue THEN @
                          ELSE [operation |-> o, profile |-> session.profile,
                                epoch |-> worker[o].epoch]]
    /\ UNCHANGED <<now, clock, session, cache, epoch>>

AnyGeneration(o, c) == TRUE             \* wrong: late lookups are welcome
SameGeneration(o, c) == c.generation = worker[o].generation

\* cache_resolved(): expire, then store unless the generation moved on.
CacheResolved(o) ==
    /\ worker[o].pc = "resolved"
    /\ IF /\ ExpiredSession.active
          /\ SameGeneration(o, ExpiredCache)
          /\ CacheTtl[session.profile] > 0
       THEN /\ now' \in Later
            /\ cache' = [ExpiredCache EXCEPT !.values = worker[o].values,
                                             !.fetched = now,
                                             !.fetched_at = Timestamp(now')]
       ELSE now' = now /\ cache' = ExpiredCache
    /\ session' = ExpiredSession
    /\ worker' = [worker EXCEPT ![o].pc = "running"]
    /\ UNCHANGED <<clock, epoch>>

\* The guardian ends at any point: a failing lookup, a cancelled or finished
\* command.  A reported value is handled before the end of its guardian.
Finish(o) ==
    /\ worker[o].pc \in {"looking_up", "running"}
    /\ worker' = [worker EXCEPT ![o].pc = "done"]
    /\ UNCHANGED <<now, clock, session, cache, epoch>>

-----------------------------------------------------------------------------
Init ==
    /\ now \in Time /\ offset \in 0 .. MaxOffset /\ steady = TRUE
    /\ session \in [active : {TRUE}, started : {0}, created_at : {Timestamp(now)},
                    profile : Profiles]
    /\ cache = [values |-> NoValue, fetched |-> 0, fetched_at |-> 0,
                generation |-> 0]
    /\ worker = [o \in Operations |->
            [pc |-> "idle", generation |-> 0, epoch |-> 0, values |-> NoValue]]
    /\ epoch = 0

Next ==
    \/ Tick \/ SetClock \/ Expire \/ Refresh \/ Stop
    \/ \E p \in Profiles : Resume(p)
    \/ \E o \in Operations :
        \/ Reserve(o) \/ Launch(o) \/ LaunchRefused(o)
        \/ LookUp(o) \/ CacheResolved(o) \/ Finish(o)

Spec == Init /\ [][Next]_vars

-----------------------------------------------------------------------------
(* Properties *)

\* Whatever is cached was looked up under the session's present profile, which
\* caches, by an operation launched since the last refresh, stop or resume: a
\* late lookup never repopulates a cleared cache (cache_resolved, clear).
CachedIsCurrent ==
    cache.values # NoValue =>
        /\ session.active
        /\ cache.values.epoch = epoch
        /\ cache.values.profile = session.profile
        /\ CacheTtl[session.profile] > 0

\* A cached value keeps its deadline, the instant that counts and the second that
\* inspect() reports, however often it is reused; unless somebody clears it, it is
\* there until that instant and handed to no operation from then on (launch,
\* expire, Resolved frames).  The two deadlines differ by the fraction that whole
\* seconds cut off and the time between reading the two clocks: as long as nobody
\* sets the wall clock, a value is handed out while timestamp() shows the second
\* that was reported, but never when it shows a later one.
DeadlineKept ==
    /\ cache.values # NoValue /\ cache'.values = cache.values
        => Deadline' = Deadline /\ Reported' = Reported
    /\ cache.values # NoValue /\ cache'.values = NoValue /\ epoch' = epoch
        => now >= Deadline
    /\ \A o \in Operations :
        worker[o].pc = "reserved" /\ worker'[o].values # NoValue
            => now < Deadline /\ (steady => Timestamp(now) <= Reported)

DeadlineHolds == [][DeadlineKept]_vars

(* The inductive invariant of the proofs (CredentialCacheProofs). *)

\* A lookup under way carries the generation it was launched in; while that is
\* still the cache's, no user-visible clear came in between.
LookupInv(o) ==
    worker[o].pc \in {"looking_up", "resolved"} =>
        /\ worker[o].generation <= cache.generation
        /\ worker[o].generation = cache.generation => worker[o].epoch = epoch

\* What a guardian reports is its own lookup, for the profile the session still
\* has; an operation without a guardian was handed nothing.
ValueInv(o) ==
    /\ worker[o].pc = "resolved" =>
        /\ worker[o].values # NoValue
        /\ worker[o].values.operation = o
        /\ worker[o].values.profile = session.profile
        /\ worker[o].values.epoch = worker[o].epoch
    /\ worker[o].pc \in {"idle", "reserved"} => worker[o].values = NoValue

\* A value enters the cache once: its guardian does not report it again.
StoredInv ==
    cache.values # NoValue =>
        worker[cache.values.operation].pc \in {"running", "done"}

\* A timestamp is no earlier than the instant beside it.
StampInv ==
    steady => /\ session.created_at >= Timestamp(session.started)
              /\ cache.values # NoValue =>
                    cache.fetched_at >= Timestamp(cache.fetched)

CacheInv ==
    /\ CachedIsCurrent /\ StoredInv
    /\ \A o \in Operations : LookupInv(o) /\ ValueInv(o)
=============================================================================
