------------------------- MODULE CredentialCacheProofs -------------------------
(* Theorems about CredentialCache, for any operations, profiles, lifetimes    *)
(* and bounds.                                                                *)
EXTENDS CredentialCache, TLAPS

CacheType ==
    [values : Value \union {NoValue}, fetched : Time, fetched_at : Nat, generation : Nat]
SessionType ==
    [active : BOOLEAN, started : Time, created_at : Nat, profile : Profiles]

\* Cache::clear: no value, and a generation of its own.
LEMMA ClearFacts ==
    ASSUME NEW c \in CacheType
    PROVE  /\ Clear(c) \in CacheType
           /\ Clear(c).values = NoValue
           /\ Clear(c).generation = c.generation + 1
  BY CacheAssumption DEF Clear, CacheType, Time

\* State::expire: the cache and session it leaves behind.
LEMMA ExpireFacts ==
    ASSUME TypeOK
    PROVE  /\ ExpiredCache \in CacheType
           /\ ExpiredSession \in SessionType
           /\ ExpiredSession.profile = session.profile
           /\ ExpiredSession.started = session.started
           /\ ExpiredSession.created_at = session.created_at
           /\ ExpiredSession.active <=> session.active /\ ~Aged
           /\ \/ ExpiredCache = cache /\ ~Stale /\ ~Aged
              \/ /\ ExpiredCache.values = NoValue
                 /\ ExpiredCache.generation > cache.generation
                 /\ Stale \/ Aged
  <1>1. cache \in CacheType /\ session \in SessionType
    BY DEF TypeOK, CacheType, SessionType
  <1>2. /\ Clear(cache) \in CacheType
        /\ Clear(cache).values = NoValue
        /\ Clear(cache).generation = cache.generation + 1
    BY <1>1, ClearFacts
  <1>3. /\ Clear(Clear(cache)) \in CacheType
        /\ Clear(Clear(cache)).values = NoValue
        /\ Clear(Clear(cache)).generation = Clear(cache).generation + 1
    BY <1>2, ClearFacts
  <1>4. cache.generation \in Nat
    BY <1>1 DEF CacheType
  <1>5. /\ ExpiredSession \in SessionType
        /\ ExpiredSession.profile = session.profile
        /\ ExpiredSession.started = session.started
        /\ ExpiredSession.created_at = session.created_at
        /\ ExpiredSession.active <=> session.active /\ ~Aged
    BY <1>1 DEF ExpiredSession, SessionType
  <1>6. ExpiredCache = IF Aged THEN (IF Stale THEN Clear(Clear(cache)) ELSE Clear(cache))
                       ELSE (IF Stale THEN Clear(cache) ELSE cache)
    BY DEF ExpiredCache
  <1> QED BY <1>1, <1>2, <1>3, <1>4, <1>5, <1>6

-----------------------------------------------------------------------------
(* Types *)

\* Whole seconds are natural numbers.
LEMMA TimestampType ==
    ASSUME offset \in 0 .. MaxOffset, NEW t \in Nat
    PROVE  Timestamp(t) \in Nat
  BY CacheAssumption DEF Timestamp

\* Every step keeps the types.
LEMMA CacheTypeStep == TypeOK /\ [Next]_vars => TypeOK'
  <1> SUFFICES ASSUME TypeOK, [Next]_vars PROVE TypeOK'
    OBVIOUS
  <1>t. /\ now \in Time /\ offset \in 0 .. MaxOffset /\ steady \in BOOLEAN
        /\ session \in SessionType /\ cache \in CacheType
        /\ worker \in [Operations -> Worker] /\ epoch \in 0 .. MaxEpoch
    BY DEF TypeOK, SessionType, CacheType
  <1>e. ExpiredCache \in CacheType /\ ExpiredSession \in SessionType
    BY ExpireFacts
  <1>c. Clear(ExpiredCache) \in CacheType
    BY <1>e, ClearFacts
  <1> SUFFICES /\ now' \in Time /\ offset' \in 0 .. MaxOffset /\ steady' \in BOOLEAN
               /\ session' \in SessionType /\ cache' \in CacheType
               /\ worker' \in [Operations -> Worker] /\ epoch' \in 0 .. MaxEpoch
    BY DEF TypeOK, SessionType, CacheType
  <1>l. ASSUME now' \in Later PROVE now' \in Time /\ Timestamp(now') \in Nat
    <2>1. now' \in Time /\ now' \in Nat
      BY <1>l, <1>t, CacheAssumption DEF Later, Time
    <2> QED BY <1>t, <2>1, TimestampType
  <1> USE DEF clock
  <1>1. CASE Tick
    BY <1>1, <1>t, CacheAssumption DEF Tick, Time
  <1>s. CASE SetClock
    BY <1>s, <1>t DEF SetClock
  <1>2. CASE Expire
    BY <1>2, <1>t, <1>e DEF Expire
  <1>3. CASE Refresh
    BY <1>3, <1>t, <1>e, <1>c, CacheAssumption DEF Refresh
  <1>4. CASE Stop
    <2>1. session' \in SessionType
      BY <1>4, <1>t DEF Stop, SessionType
    <2> QED BY <1>4, <2>1, <1>t, <1>c, CacheAssumption DEF Stop
  <1>5. ASSUME NEW p \in Profiles, Resume(p) PROVE TypeOK'
    <2>1. now' \in Time /\ Timestamp(now') \in Nat
      BY <1>5, <1>l DEF Resume
    <2>2. session' \in SessionType
      BY <1>5, <1>t, <2>1 DEF Resume, SessionType
    <2>3. cache' \in CacheType /\ epoch' \in 0 .. MaxEpoch
      BY <1>5, <1>t, <1>c, CacheAssumption DEF Resume
    <2> QED BY <1>5, <1>t, <2>1, <2>2, <2>3 DEF Resume, SessionType, CacheType, TypeOK
  <1>6. ASSUME NEW o \in Operations, Reserve(o) PROVE TypeOK'
    BY <1>6, <1>t, <1>e DEF Reserve, Worker, TypeOK, SessionType, CacheType
  <1>7. ASSUME NEW o \in Operations, Launch(o) PROVE TypeOK'
    BY <1>7, <1>t, <1>e DEF Launch, Worker, TypeOK, SessionType, CacheType
  <1>8. ASSUME NEW o \in Operations, LaunchRefused(o) PROVE TypeOK'
    BY <1>8, <1>t, <1>e DEF LaunchRefused, Worker, TypeOK, SessionType, CacheType
  <1>9. ASSUME NEW o \in Operations, LookUp(o) PROVE TypeOK'
    <2>1. [operation |-> o, profile |-> session.profile,
           epoch |-> worker[o].epoch] \in Value
      BY <1>t DEF Value, SessionType, Worker
    <2> DEFINE w == [worker[o] EXCEPT
                        !.pc = IF Reports(o) THEN "resolved" ELSE "running",
                        !.values = worker'[o].values]
    <2>2. worker'[o] \in Worker
      <3>1. worker'[o].values \in Value \union {NoValue}
        BY <1>9, <1>t, <2>1 DEF LookUp, Worker
      <3>2. worker'[o].pc \in {"resolved", "running"}
        BY <1>9, <1>t DEF LookUp, Worker
      <3>3. worker'[o] = w
        BY <1>9, <1>t DEF LookUp, Worker
      <3> QED BY <3>1, <3>2, <3>3, <1>t DEF Worker
    <2>3. worker' = [worker EXCEPT ![o] = worker'[o]]
      BY <1>9, <1>t DEF LookUp
    <2> QED BY <1>9, <1>t, <2>2, <2>3 DEF LookUp, TypeOK, SessionType, CacheType
  <1>10. ASSUME NEW o \in Operations, CacheResolved(o) PROVE TypeOK'
    <2>1. /\ worker' = [worker EXCEPT ![o].pc = "running"]
          /\ session' = ExpiredSession /\ UNCHANGED <<offset, steady, epoch>>
      BY <1>10 DEF CacheResolved
    <2>2. worker' \in [Operations -> Worker]
      BY <1>t, <2>1 DEF Worker
    <2>3. now' \in Time /\ cache' \in CacheType
      <3>1. CASE now' = now /\ cache' = ExpiredCache
        BY <1>t, <1>e, <3>1
      <3>2. CASE /\ now' \in Later
                 /\ cache' = [ExpiredCache EXCEPT !.values = worker[o].values,
                                                  !.fetched = now,
                                                  !.fetched_at = Timestamp(now')]
        <4>1. now' \in Time /\ Timestamp(now') \in Nat
          BY <1>l, <3>2
        <4>2. worker[o].values \in Value \union {NoValue}
          BY <1>t DEF Worker
        <4> QED BY <1>t, <1>e, <3>2, <4>1, <4>2 DEF CacheType
      <3> QED BY <1>10, <3>1, <3>2 DEF CacheResolved
    <2> QED BY <1>t, <1>e, <2>1, <2>2, <2>3 DEF TypeOK, SessionType, CacheType
  <1>11. ASSUME NEW o \in Operations, Finish(o) PROVE TypeOK'
    BY <1>11, <1>t DEF Finish, Worker, TypeOK, SessionType, CacheType
  <1>12. CASE UNCHANGED vars
    BY <1>12, <1>t DEF vars
  <1>13. TypeOK' => /\ now' \in Time /\ offset' \in 0 .. MaxOffset
                    /\ steady' \in BOOLEAN
                    /\ session' \in SessionType /\ cache' \in CacheType
                    /\ worker' \in [Operations -> Worker] /\ epoch' \in 0 .. MaxEpoch
    BY DEF TypeOK, SessionType, CacheType
  <1> QED BY <1>1, <1>s, <1>2, <1>3, <1>4, <1>5, <1>6, <1>7, <1>8, <1>9, <1>10, <1>11,
             <1>12, <1>13 DEF Next

-----------------------------------------------------------------------------
(* The cache holds current values only *)

\* A cache that expire() left, or one it left and then cleared, is the old one
\* or an empty one with a newer generation.
LEMMA ClearedFacts ==
    ASSUME TypeOK
    PROVE  /\ Clear(ExpiredCache).values = NoValue
           /\ Clear(ExpiredCache).generation > cache.generation
  <1>1. cache.generation \in Nat
    BY DEF TypeOK
  <1>2. ExpiredCache \in CacheType /\ ExpiredCache.generation >= cache.generation
    BY <1>1, ExpireFacts DEF CacheType
  <1>3. /\ Clear(ExpiredCache).values = NoValue
        /\ Clear(ExpiredCache).generation = ExpiredCache.generation + 1
    BY <1>2, ClearFacts
  <1> QED BY <1>1, <1>2, <1>3 DEF CacheType

\* Clearing the cache, or letting it expire, keeps the invariant of every
\* operation that does not move: its generation is now behind.
LEMMA ClearKeeps ==
    ASSUME TypeOK, CacheInv, TypeOK', worker' = worker,
           \/ cache'.values = NoValue /\ cache'.generation > cache.generation
           \/ cache' = cache /\ epoch' = epoch /\ session' = session,
           session'.profile = session.profile
              \/ \A o \in Operations : worker[o].pc \in {"idle", "done"}
    PROVE  CacheInv'
  <1>1. CachedIsCurrent'
    BY DEF CacheInv, CachedIsCurrent
  <1>2. StoredInv'
    BY DEF CacheInv, StoredInv
  <1>3. ASSUME NEW o \in Operations PROVE LookupInv(o)' /\ ValueInv(o)'
    <2>1. worker[o].generation \in Nat /\ cache.generation \in Nat
          /\ cache'.generation \in Nat
      BY DEF TypeOK, Worker
    <2>2. LookupInv(o) /\ ValueInv(o)
      BY DEF CacheInv
    <2>3. LookupInv(o)'
      BY <2>1, <2>2 DEF LookupInv
    <2>4. ValueInv(o)'
      BY <2>2 DEF ValueInv
    <2> QED BY <2>3, <2>4
  <1> QED BY <1>1, <1>2, <1>3 DEF CacheInv

\* One operation moves: what the others, the cache and the session must keep.
LEMMA MoveKeeps ==
    ASSUME TypeOK, CacheInv, TypeOK', epoch' = epoch, NEW o \in Operations,
           cache' = ExpiredCache, session' = ExpiredSession,
           \A q \in Operations \ {o} : worker'[q] = worker[q],
           LookupInv(o)', ValueInv(o)',
           worker[o].pc \in {"running", "done"}
              => worker'[o].pc \in {"running", "done"}
    PROVE  CacheInv'
  <1>e. /\ ExpiredSession.profile = session.profile
        /\ ExpiredSession.active <=> session.active /\ ~Aged
        /\ \/ ExpiredCache = cache /\ ~Aged
           \/ /\ ExpiredCache.values = NoValue
              /\ ExpiredCache.generation > cache.generation
    BY ExpireFacts
  <1>1. CachedIsCurrent'
    BY <1>e DEF CacheInv, CachedIsCurrent
  <1>2. StoredInv'
    <2>1. ASSUME cache'.values # NoValue
          PROVE  worker'[cache'.values.operation].pc \in {"running", "done"}
      <3>1. cache' = cache
        BY <1>e, <2>1
      <3>2. worker[cache.values.operation].pc \in {"running", "done"}
        BY <2>1, <3>1 DEF CacheInv, StoredInv
      <3>3. cache.values.operation \in Operations
        BY <2>1, <3>1 DEF TypeOK, Value
      <3> QED BY <3>1, <3>2, <3>3
    <2> QED BY <2>1 DEF StoredInv
  <1>3. ASSUME NEW q \in Operations \ {o} PROVE LookupInv(q)' /\ ValueInv(q)'
    <2>1. worker[q].generation \in Nat /\ cache.generation \in Nat
          /\ cache'.generation \in Nat
      BY DEF TypeOK, Worker
    <2>2. LookupInv(q) /\ ValueInv(q)
      BY DEF CacheInv
    <2>3. LookupInv(q)'
      BY <1>e, <2>1, <2>2 DEF LookupInv
    <2>4. ValueInv(q)'
      BY <1>e, <2>2 DEF ValueInv
    <2> QED BY <2>3, <2>4
  <1> QED BY <1>1, <1>2, <1>3 DEF CacheInv

\* Every step keeps the invariant.
LEMMA CacheStep == TypeOK /\ CacheInv /\ [Next]_vars => CacheInv'
  <1> SUFFICES ASSUME TypeOK, CacheInv, [Next]_vars PROVE CacheInv'
    OBVIOUS
  <1>t. TypeOK'
    BY CacheTypeStep
  <1>e. /\ ExpiredCache \in CacheType /\ ExpiredSession \in SessionType
        /\ ExpiredSession.profile = session.profile
        /\ ExpiredSession.active <=> session.active /\ ~Aged
        /\ \/ ExpiredCache = cache /\ ~Stale /\ ~Aged
           \/ /\ ExpiredCache.values = NoValue
              /\ ExpiredCache.generation > cache.generation
              /\ Stale \/ Aged
    BY ExpireFacts
  <1>c. /\ Clear(ExpiredCache).values = NoValue
        /\ Clear(ExpiredCache).generation > cache.generation
    BY ClearedFacts
  <1>1. CASE Tick
    BY <1>1, <1>t, ClearKeeps DEF Tick
  <1>s. CASE SetClock
    BY <1>s, <1>t, ClearKeeps DEF SetClock
  <1>2. CASE Expire
    BY <1>2, <1>t, <1>e, ClearKeeps DEF Expire
  <1>3. CASE Refresh
    BY <1>3, <1>t, <1>e, <1>c, ClearKeeps DEF Refresh
  <1>4. CASE Stop
    <2>1. session'.profile = session.profile
      BY <1>4 DEF Stop, TypeOK
    <2> QED BY <1>4, <2>1, <1>t, <1>c, ClearKeeps DEF Stop
  <1>5. ASSUME NEW p \in Profiles, Resume(p) PROVE CacheInv'
    <2>1. \A o \in Operations : worker[o].pc \in {"idle", "done"}
      BY <1>5 DEF Resume, Unfinished
    <2> QED BY <1>5, <2>1, <1>t, <1>c, ClearKeeps DEF Resume
  <1>6. ASSUME NEW o \in Operations, Reserve(o) PROVE CacheInv'
    <2>1. worker'[o].pc = "reserved" /\ worker'[o].values = worker[o].values
      BY <1>6 DEF Reserve, TypeOK, Worker
    <2>2. worker[o].values = NoValue
      BY <1>6 DEF Reserve, CacheInv, ValueInv
    <2>3. \A q \in Operations \ {o} : worker'[q] = worker[q]
      BY <1>6 DEF Reserve, TypeOK
    <2>4. LookupInv(o)' /\ ValueInv(o)'
      BY <2>1, <2>2 DEF LookupInv, ValueInv
    <2> QED BY <1>6, <2>3, <2>4, <1>t, MoveKeeps DEF Reserve
  <1>7. ASSUME NEW o \in Operations, Launch(o) PROVE CacheInv'
    <2>1. /\ worker'[o].pc = "looking_up" /\ worker'[o].epoch = epoch
          /\ worker'[o].generation = ExpiredCache.generation
      BY <1>7 DEF Launch, TypeOK
    <2>2. \A q \in Operations \ {o} : worker'[q] = worker[q]
      BY <1>7 DEF Launch, TypeOK
    <2>3. cache'.generation = ExpiredCache.generation /\ epoch' = epoch
          /\ cache'.generation \in Nat
      BY <1>7, <1>e DEF Launch, CacheType
    <2>4. LookupInv(o)' /\ ValueInv(o)'
      BY <2>1, <2>3 DEF LookupInv, ValueInv
    <2> QED BY <1>7, <2>2, <2>4, <1>t, MoveKeeps DEF Launch
  <1>8. ASSUME NEW o \in Operations, LaunchRefused(o) PROVE CacheInv'
    <2>1. worker'[o].pc = "done"
      BY <1>8 DEF LaunchRefused, TypeOK
    <2>2. \A q \in Operations \ {o} : worker'[q] = worker[q]
      BY <1>8 DEF LaunchRefused, TypeOK
    <2>3. LookupInv(o)' /\ ValueInv(o)'
      BY <2>1 DEF LookupInv, ValueInv
    <2> QED BY <1>8, <2>1, <2>2, <2>3, <1>t, MoveKeeps DEF LaunchRefused
  <1>9. ASSUME NEW o \in Operations, LookUp(o) PROVE CacheInv'
    <2> DEFINE v == [operation |-> o, profile |-> session.profile,
                     epoch |-> worker[o].epoch]
    <2>1. v \in Value
      BY DEF TypeOK, Value, Worker
    <2>2. v # NoValue
      BY <2>1, CacheAssumption
    <2>3. /\ worker'[o].pc \in {"resolved", "running"}
          /\ worker'[o].pc = "resolved" => worker'[o].values = v
          /\ worker'[o].generation = worker[o].generation
          /\ worker'[o].epoch = worker[o].epoch
      BY <1>9 DEF LookUp, TypeOK, Worker, Reports
    <2>4. \A q \in Operations \ {o} : worker'[q] = worker[q]
      BY <1>9 DEF LookUp, TypeOK
    <2>5. UNCHANGED <<session, cache, epoch>> /\ worker[o].pc = "looking_up"
      BY <1>9 DEF LookUp
    <2>6. LookupInv(o)'
      BY <2>3, <2>5 DEF LookupInv, CacheInv
    <2>7. ValueInv(o)'
      BY <2>2, <2>3, <2>5 DEF ValueInv
    <2>8. CachedIsCurrent' /\ StoredInv'
      <3>1. CachedIsCurrent'
        BY <2>5 DEF CacheInv, CachedIsCurrent
      <3>2. ASSUME cache.values # NoValue
            PROVE  worker'[cache.values.operation].pc \in {"running", "done"}
        <4>1. worker[cache.values.operation].pc \in {"running", "done"}
              /\ cache.values.operation \in Operations
          BY <3>2 DEF CacheInv, StoredInv, TypeOK, Value
        <4> QED BY <4>1, <2>4, <2>5
      <3> QED BY <2>5, <3>1, <3>2 DEF StoredInv
    <2>9. ASSUME NEW q \in Operations \ {o} PROVE LookupInv(q)' /\ ValueInv(q)'
      BY <2>4, <2>5 DEF CacheInv, LookupInv, ValueInv
    <2> QED BY <2>6, <2>7, <2>8, <2>9 DEF CacheInv
  <1>10. ASSUME NEW o \in Operations, CacheResolved(o) PROVE CacheInv'
    <2>1. /\ worker'[o].pc = "running"
          /\ \A q \in Operations \ {o} : worker'[q] = worker[q]
      BY <1>10 DEF CacheResolved, TypeOK
    <2>2. LookupInv(o)' /\ ValueInv(o)'
      BY <2>1 DEF LookupInv, ValueInv
    <2>3. /\ worker[o].pc = "resolved" /\ session' = ExpiredSession
          /\ epoch' = epoch
      BY <1>10 DEF CacheResolved
    <2>4. CASE cache' = ExpiredCache
      BY <2>1, <2>2, <2>3, <2>4, <1>t, MoveKeeps
    <2>5. CASE cache' # ExpiredCache
      <3>1. /\ cache' = [ExpiredCache EXCEPT !.values = worker[o].values,
                                             !.fetched = now,
                                             !.fetched_at = Timestamp(now')]
            /\ ExpiredSession.active
            /\ ExpiredCache.generation = worker[o].generation
            /\ CacheTtl[session.profile] > 0
        BY <1>10, <2>5 DEF CacheResolved, SameGeneration
      <3>2. cache'.values = worker[o].values
            /\ cache'.generation = ExpiredCache.generation
        BY <3>1, <1>e DEF CacheType
      <3>3. LookupInv(o) /\ ValueInv(o)
        BY DEF CacheInv
      <3>4. /\ worker[o].generation \in Nat /\ cache.generation \in Nat
            /\ worker[o].generation <= cache.generation
        BY <2>3, <3>3 DEF TypeOK, Worker, LookupInv
      <3>5. ExpiredCache = cache
        BY <1>e, <3>1, <3>4
      <3>6. CachedIsCurrent'
        BY <1>e, <2>3, <3>1, <3>2, <3>3, <3>5 DEF CachedIsCurrent, LookupInv, ValueInv
      <3>7. StoredInv'
        BY <2>1, <2>3, <3>2, <3>3 DEF StoredInv, ValueInv
      <3>8. ASSUME NEW q \in Operations \ {o} PROVE LookupInv(q)' /\ ValueInv(q)'
        <4>1. LookupInv(q) /\ ValueInv(q)
          BY DEF CacheInv
        <4> QED BY <4>1, <1>e, <2>1, <2>3, <3>2, <3>5 DEF LookupInv, ValueInv
      <3> QED BY <2>2, <3>6, <3>7, <3>8 DEF CacheInv
    <2> QED BY <2>4, <2>5
  <1>11. ASSUME NEW o \in Operations, Finish(o) PROVE CacheInv'
    <2>1. /\ worker'[o].pc = "done"
          /\ \A q \in Operations \ {o} : worker'[q] = worker[q]
          /\ UNCHANGED <<session, cache, epoch>>
      BY <1>11 DEF Finish, TypeOK
    <2>2. LookupInv(o)' /\ ValueInv(o)'
      BY <2>1 DEF LookupInv, ValueInv
    <2>3. CachedIsCurrent'
      BY <2>1 DEF CacheInv, CachedIsCurrent
    <2>4. StoredInv'
      <3>1. ASSUME cache.values # NoValue
            PROVE  worker'[cache.values.operation].pc \in {"running", "done"}
        <4>1. worker[cache.values.operation].pc \in {"running", "done"}
              /\ cache.values.operation \in Operations
          BY <3>1 DEF CacheInv, StoredInv, TypeOK, Value
        <4> QED BY <4>1, <2>1
      <3> QED BY <2>1, <3>1 DEF StoredInv
    <2>5. ASSUME NEW q \in Operations \ {o} PROVE LookupInv(q)' /\ ValueInv(q)'
      BY <2>1 DEF CacheInv, LookupInv, ValueInv
    <2> QED BY <2>2, <2>3, <2>4, <2>5 DEF CacheInv
  <1>12. CASE UNCHANGED vars
    BY <1>12, <1>t, ClearKeeps DEF vars
  <1> QED BY <1>1, <1>s, <1>2, <1>3, <1>4, <1>5, <1>6, <1>7, <1>8, <1>9, <1>10, <1>11,
             <1>12 DEF Next

\* A started session's cache is empty.
LEMMA CacheInit == Init => TypeOK /\ CacheInv
  <1> SUFFICES ASSUME Init PROVE TypeOK /\ CacheInv
    OBVIOUS
  <1>1. 0 \in Time /\ 0 \in Nat /\ 0 \in 0 .. MaxEpoch
    BY CacheAssumption DEF Time
  <1>4. Timestamp(now) \in Nat
    <2>1. now \in Nat
      BY CacheAssumption DEF Init, Time
    <2> QED BY <2>1, TimestampType DEF Init
  <1>2. TypeOK
    BY <1>1, <1>4 DEF Init, TypeOK, Worker
  <1>3. CacheInv
    BY DEF Init, CacheInv, CachedIsCurrent, StoredInv, LookupInv, ValueInv
  <1> QED BY <1>2, <1>3

\* Types, and the invariant on lookups under way and the cached value, hold
\* in every reachable state.
THEOREM CacheInvariant == Spec => [](TypeOK /\ CacheInv)
  BY CacheInit, CacheTypeStep, CacheStep, PTL DEF Spec

\* The variables of the cache model keep their types.
THEOREM CacheTypeCorrect == Spec => []TypeOK
  BY CacheInvariant, PTL

\* A late lookup never repopulates a cleared cache, whatever refresh, stop,
\* resume and expiry do to the session in between.
THEOREM CacheStaysCurrent == Spec => []CachedIsCurrent
  <1>1. CacheInv => CachedIsCurrent
    BY DEF CacheInv
  <1> QED BY <1>1, CacheInvariant, PTL

-----------------------------------------------------------------------------
(* The two clocks *)

\* Quotient and remainder.
LEMMA WholeSeconds ==
    ASSUME NEW t \in Nat
    PROVE  /\ t \div Second \in Nat /\ t % Second \in 0 .. Second - 1
           /\ t = (t \div Second) * Second + (t % Second)
  BY CacheAssumption

\* Less than n seconds after t, the clock shows at most n seconds more.
LEMMA SecondsLater ==
    ASSUME NEW s \in Nat, NEW t \in Nat, NEW n \in Nat, s < t + n * Second
    PROVE  s \div Second <= t \div Second + n
  <1> DEFINE p == s \div Second
             q == t \div Second
  <1>1. /\ p \in Nat /\ q \in Nat /\ Second \in Nat \ {0}
        /\ p * Second <= s /\ t < q * Second + Second
    <2>1. /\ p \in Nat /\ s % Second \in 0 .. Second - 1
          /\ s = p * Second + (s % Second)
      BY WholeSeconds
    <2>2. /\ q \in Nat /\ t % Second \in 0 .. Second - 1
          /\ t = q * Second + (t % Second)
      BY WholeSeconds
    <2>3. p * Second \in Nat /\ q * Second \in Nat /\ Second \in Nat \ {0}
      BY <2>1, <2>2, CacheAssumption
    <2> HIDE DEF p, q
    <2> QED BY <2>1, <2>2, <2>3
  <1> HIDE DEF p, q
  <1> SUFFICES ASSUME q + n + 1 <= p PROVE FALSE
    BY <1>1 DEF p, q
  <1>2. (q + n + 1) * Second <= p * Second
    BY <1>1
  <1>3. (q + n + 1) * Second = q * Second + n * Second + Second
    BY <1>1
  <1>4. /\ p * Second \in Nat /\ q * Second \in Nat /\ n * Second \in Nat
        /\ (q + n + 1) * Second \in Nat
    BY <1>1
  <1> QED BY <1>1, <1>2, <1>3, <1>4

\* A later instant has no earlier timestamp.
LEMMA TimestampsGrow ==
    ASSUME offset \in 0 .. MaxOffset, NEW s \in Nat, NEW t \in Nat, s <= t
    PROVE  Timestamp(s) <= Timestamp(t)
  <1>1. /\ offset \in Nat /\ s + offset \in Nat /\ t + offset + 1 \in Nat
        /\ t + offset \in Nat
    BY CacheAssumption
  <1> DEFINE p == (s + offset) \div Second
             q == (t + offset) \div Second
  <1>2. /\ p \in Nat /\ q \in Nat /\ Second \in Nat \ {0}
        /\ p * Second <= s + offset /\ t + offset < q * Second + Second
    <2>1. /\ p \in Nat /\ (s + offset) % Second \in 0 .. Second - 1
          /\ s + offset = p * Second + ((s + offset) % Second)
      BY <1>1, WholeSeconds
    <2>2. /\ q \in Nat /\ (t + offset) % Second \in 0 .. Second - 1
          /\ t + offset = q * Second + ((t + offset) % Second)
      BY <1>1, WholeSeconds
    <2>3. p * Second \in Nat /\ q * Second \in Nat /\ Second \in Nat \ {0}
      BY <2>1, <2>2, CacheAssumption
    <2> HIDE DEF p, q
    <2> QED BY <1>1, <2>1, <2>2, <2>3
  <1> HIDE DEF p, q
  <1> SUFFICES ASSUME q + 1 <= p PROVE FALSE
    BY <1>2 DEF p, q, Timestamp
  <1>3. (q + 1) * Second <= p * Second /\ (q + 1) * Second = q * Second + Second
    BY <1>2
  <1>4. p * Second \in Nat /\ q * Second \in Nat
    BY <1>2
  <1> QED BY <1>1, <1>2, <1>3, <1>4

\* No timestamp is earlier than the instant beside it, while the wall clock is
\* steady.
LEMMA StampStep == TypeOK /\ StampInv /\ [Next]_vars => StampInv'
  <1> SUFFICES ASSUME TypeOK, StampInv, [Next]_vars, steady' PROVE StampInv'
    BY DEF StampInv
  <1>t. /\ now \in Nat /\ offset \in 0 .. MaxOffset /\ session \in SessionType
    BY CacheAssumption DEF TypeOK, Time, SessionType
  <1>e. /\ ExpiredSession.started = session.started
        /\ ExpiredSession.created_at = session.created_at
        /\ ExpiredCache = cache \/ ExpiredCache.values = NoValue
        /\ ExpiredCache \in CacheType
    BY ExpireFacts
  <1>c. Clear(ExpiredCache).values = NoValue
    BY ClearedFacts
  <1>l. ASSUME now' \in Later PROVE Timestamp(now) <= Timestamp(now')
    <2>1. now' \in Nat /\ now <= now'
      BY <1>l, <1>t, CacheAssumption DEF Later
    <2> QED BY <1>t, <2>1, TimestampsGrow
  <1>1. CASE SetClock
    BY <1>1 DEF SetClock
  <1>2. ASSUME UNCHANGED clock,
               session'.started = session.started,
               session'.created_at = session.created_at,
               \/ cache' = cache
               \/ cache'.values = NoValue
        PROVE  StampInv'
    BY <1>2 DEF clock, StampInv, Timestamp
  <1>3. CASE Tick \/ Expire \/ Refresh \/ Stop
    <2>1. UNCHANGED clock
      BY <1>3 DEF Tick, Expire, Refresh, Stop
    <2>2. session'.started = session.started /\ session'.created_at = session.created_at
      BY <1>3, <1>e, <1>t DEF Tick, Expire, Refresh, Stop, SessionType
    <2>3. cache' = cache \/ cache'.values = NoValue
      BY <1>3, <1>e, <1>c DEF Tick, Expire, Refresh, Stop
    <2> QED BY <1>2, <2>1, <2>2, <2>3
  <1>4. ASSUME NEW p \in Profiles, Resume(p) PROVE StampInv'
    <2>1. /\ UNCHANGED clock /\ cache'.values = NoValue
          /\ session'.started = now /\ session'.created_at = Timestamp(now')
          /\ Timestamp(now) <= Timestamp(now')
      BY <1>4, <1>c, <1>l DEF Resume
    <2>2. Timestamp(now) \in Nat /\ Timestamp(now') \in Nat
      <3>1. now' \in Nat
        BY <1>4, <1>t, CacheAssumption DEF Resume, Later
      <3> QED BY <1>t, <3>1, TimestampType
    <2> QED BY <2>1, <2>2 DEF clock, StampInv, Timestamp
  <1>5. ASSUME NEW o \in Operations,
               Reserve(o) \/ Launch(o) \/ LaunchRefused(o) \/ LookUp(o) \/ Finish(o)
        PROVE  StampInv'
    <2>1. UNCHANGED clock
      BY <1>5 DEF Reserve, Launch, LaunchRefused, LookUp, Finish
    <2>2. session'.started = session.started /\ session'.created_at = session.created_at
      BY <1>5, <1>e DEF Reserve, Launch, LaunchRefused, LookUp, Finish
    <2>3. cache' = cache \/ cache'.values = NoValue
      BY <1>5, <1>e DEF Reserve, Launch, LaunchRefused, LookUp, Finish
    <2> QED BY <1>2, <2>1, <2>2, <2>3
  <1>6. ASSUME NEW o \in Operations, CacheResolved(o) PROVE StampInv'
    <2>1. /\ UNCHANGED clock /\ session'.started = session.started
          /\ session'.created_at = session.created_at
      BY <1>6, <1>e DEF CacheResolved
    <2>2. CASE cache' = ExpiredCache
      BY <1>2, <1>e, <2>1, <2>2
    <2>3. CASE /\ now' \in Later
               /\ cache' = [ExpiredCache EXCEPT !.values = worker[o].values,
                                                !.fetched = now,
                                                !.fetched_at = Timestamp(now')]
      <3>1. cache'.fetched = now /\ cache'.fetched_at = Timestamp(now')
        BY <1>e, <2>3 DEF CacheType
      <3>2. Timestamp(now) <= Timestamp(now')
        BY <1>l, <2>3
      <3>3. Timestamp(now) \in Nat /\ Timestamp(now') \in Nat
        <4>1. now' \in Nat
          BY <2>3, <1>t, CacheAssumption DEF Later
        <4> QED BY <1>t, <4>1, TimestampType
      <3> QED BY <2>1, <3>1, <3>2, <3>3 DEF clock, StampInv, Timestamp
    <2> QED BY <1>6, <2>2, <2>3 DEF CacheResolved
  <1>7. CASE UNCHANGED vars
    BY <1>2, <1>7 DEF vars
  <1> QED BY <1>1, <1>3, <1>4, <1>5, <1>6, <1>7 DEF Next

-----------------------------------------------------------------------------
(* The deadline *)

\* A session starts with a timestamp no earlier than its instant.
LEMMA StampInit == Init => StampInv
  <1> SUFFICES ASSUME Init PROVE StampInv
    OBVIOUS
  <1>1. now \in Nat /\ offset \in 0 .. MaxOffset
    BY CacheAssumption DEF Init, Time
  <1>2. Timestamp(0) <= Timestamp(now)
    BY <1>1, TimestampsGrow
  <1>3. Timestamp(0) \in Nat /\ Timestamp(now) \in Nat
    BY <1>1, TimestampType
  <1> QED BY <1>2, <1>3 DEF Init, StampInv

\* A cached value is before its deadline exactly until expire() drops it.
LEMMA DeadlineFacts ==
    ASSUME TypeOK, session.active
    PROVE  /\ Aged => now >= Deadline
           /\ Stale => now >= Deadline
           /\ cache.values # NoValue /\ ~Aged /\ ~Stale => now < Deadline
  <1>1. /\ cache.fetched \in Nat /\ session.started \in Nat /\ now \in Nat
        /\ CacheTtl[session.profile] * Second \in Nat /\ Ttl * Second \in Nat
    BY CacheAssumption DEF TypeOK, Time
  <1> QED BY <1>1 DEF Deadline, Earlier, Aged, Stale

\* The wall clock shows no second after t + n while less than n seconds passed
\* since t, if it showed no more than t then.
LEMMA ShownLater ==
    ASSUME offset \in 0 .. MaxOffset, NEW s \in Nat, NEW t \in Nat, NEW n \in Nat,
           s < t + n * Second, NEW shown \in Nat, Timestamp(t) <= shown
    PROVE  Timestamp(s) <= shown + n
  <1>1. offset \in Nat
    BY CacheAssumption
  <1>2. n * Second \in Nat
    BY CacheAssumption
  <1>3. s + offset \in Nat /\ t + offset \in Nat
        /\ s + offset < (t + offset) + n * Second
    BY <1>1, <1>2
  <1>4. (s + offset) \div Second <= (t + offset) \div Second + n
    BY <1>3, SecondsLater
  <1>5. Timestamp(s) \in Nat /\ Timestamp(t) \in Nat
    BY TimestampType
  <1>6. Timestamp(s) <= Timestamp(t) + n
    BY <1>4 DEF Timestamp
  <1> QED BY <1>5, <1>6

\* While nobody sets the wall clock, it shows no second after the reported one
\* as long as the value is before its deadline.
LEMMA ReportedFacts ==
    ASSUME TypeOK, StampInv, steady, session.active, cache.values # NoValue,
           ~Aged, ~Stale
    PROVE  Timestamp(now) <= Reported
  <1>1. /\ cache.fetched \in Nat /\ session.started \in Nat /\ now \in Nat
        /\ cache.fetched_at \in Nat /\ session.created_at \in Nat
        /\ CacheTtl[session.profile] \in Nat /\ Ttl \in Nat
        /\ offset \in 0 .. MaxOffset
    BY CacheAssumption DEF TypeOK, Time
  <1>2. /\ CacheTtl[session.profile] * Second \in Nat /\ Ttl * Second \in Nat
    BY <1>1, CacheAssumption
  <1>3. Timestamp(now) <= cache.fetched_at + CacheTtl[session.profile]
    <2>1. now < cache.fetched + CacheTtl[session.profile] * Second
      BY <1>1, <1>2 DEF Stale
    <2>2. Timestamp(cache.fetched) <= cache.fetched_at
      BY <1>1, TimestampType DEF StampInv
    <2> QED BY <1>1, <2>1, <2>2, ShownLater
  <1>4. Timestamp(now) <= session.created_at + Ttl
    <2>1. now < session.started + Ttl * Second
      BY <1>1, <1>2 DEF Aged
    <2>2. Timestamp(session.started) <= session.created_at
      BY <1>1, TimestampType DEF StampInv
    <2> QED BY <1>1, <2>1, <2>2, ShownLater
  <1> QED BY <1>3, <1>4 DEF Reported, Earlier

\* A step that leaves the cache as expire() does and hands out nothing new.
LEMMA ExpireKeepsDeadline ==
    ASSUME TypeOK, CacheInv,
           \/ cache' = ExpiredCache
           \/ cache' = Clear(ExpiredCache) /\ epoch' # epoch
           \/ cache' = cache,
           \/ /\ session'.profile = session.profile
              /\ session'.started = session.started
              /\ session'.created_at = session.created_at
           \/ cache'.values = NoValue
    PROVE  /\ cache.values # NoValue /\ cache'.values = cache.values
                => Deadline' = Deadline /\ Reported' = Reported
           /\ cache.values # NoValue /\ cache'.values = NoValue /\ epoch' = epoch
                => now >= Deadline
  <1>e. \/ ExpiredCache = cache
        \/ ExpiredCache.values = NoValue /\ (Stale \/ Aged)
    BY ExpireFacts
  <1>c. Clear(ExpiredCache).values = NoValue
    BY ClearedFacts
  <1>1. ASSUME cache.values # NoValue, cache'.values = cache.values
        PROVE  Deadline' = Deadline /\ Reported' = Reported
    <2>1. cache' = cache
      BY <1>1, <1>e, <1>c
    <2> QED BY <1>1, <2>1 DEF Deadline, Reported, Earlier
  <1>2. ASSUME cache.values # NoValue, cache'.values = NoValue, epoch' = epoch
        PROVE  now >= Deadline
    <2>1. Stale \/ Aged
      BY <1>2, <1>e
    <2>2. session.active
      BY <1>2 DEF CacheInv, CachedIsCurrent
    <2> QED BY <2>1, <2>2, DeadlineFacts
  <1> QED BY <1>1, <1>2

\* Every step keeps the deadline it found.
LEMMA DeadlineStep == TypeOK /\ CacheInv /\ StampInv /\ [Next]_vars => [DeadlineKept]_vars
  <1> SUFFICES ASSUME TypeOK, CacheInv, StampInv, Next PROVE DeadlineKept
    OBVIOUS
  <1>e. /\ ExpiredSession.profile = session.profile
        /\ ExpiredSession.started = session.started
        /\ ExpiredSession.created_at = session.created_at
        /\ ExpiredSession.active <=> session.active /\ ~Aged
        /\ \/ ExpiredCache = cache /\ ~Stale /\ ~Aged
           \/ ExpiredCache.values = NoValue
    BY ExpireFacts
  <1>c. Clear(ExpiredCache).values = NoValue
    BY ClearedFacts
  <1>n. ASSUME epoch' = epoch + 1 PROVE epoch' # epoch
    BY <1>n DEF TypeOK
  <1>w. ASSUME NEW o \in Operations, worker[o].pc = "reserved"
        PROVE  worker[o].values = NoValue
    BY <1>w DEF CacheInv, ValueInv
  <1>1. CASE Tick \/ SetClock
    <2>1. worker' = worker /\ cache' = cache /\ session' = session
      BY <1>1 DEF Tick, SetClock
    <2> QED BY <2>1, <1>w, ExpireKeepsDeadline DEF DeadlineKept
  <1>2. CASE Expire
    <2>1. worker' = worker /\ cache' = ExpiredCache /\ session' = ExpiredSession
      BY <1>2 DEF Expire
    <2> QED BY <2>1, <1>e, <1>w, ExpireKeepsDeadline DEF DeadlineKept
  <1>3. CASE Refresh \/ Stop \/ \E p \in Profiles : Resume(p)
    <2>1. worker' = worker /\ cache' = Clear(ExpiredCache) /\ epoch' = epoch + 1
      BY <1>3 DEF Refresh, Stop, Resume
    <2> QED BY <2>1, <1>c, <1>n, <1>w, ExpireKeepsDeadline DEF DeadlineKept
  <1>4. ASSUME NEW o \in Operations, Reserve(o) \/ LaunchRefused(o)
        PROVE  DeadlineKept
    <2>1. cache' = ExpiredCache /\ session' = ExpiredSession
      BY <1>4 DEF Reserve, LaunchRefused
    <2>2. ASSUME NEW q \in Operations PROVE worker'[q].values = worker[q].values
      BY <1>4 DEF Reserve, LaunchRefused, TypeOK, Worker
    <2> QED BY <2>1, <2>2, <1>e, <1>w, ExpireKeepsDeadline DEF DeadlineKept
  <1>5. ASSUME NEW o \in Operations, Launch(o) PROVE DeadlineKept
    <2>1. /\ cache' = ExpiredCache /\ session' = ExpiredSession
          /\ ExpiredSession.active
      BY <1>5 DEF Launch
    <2>2. ASSUME NEW q \in Operations, worker[q].pc = "reserved",
                 worker'[q].values # NoValue
          PROVE  now < Deadline /\ (steady => Timestamp(now) <= Reported)
      <3>1. q = o
        BY <1>5, <2>2, <1>w DEF Launch, TypeOK
      <3>2. ExpiredCache.values # NoValue
        BY <1>5, <2>2, <3>1 DEF Launch, TypeOK
      <3>3. cache.values # NoValue /\ ~Stale /\ ~Aged /\ session.active
        BY <1>e, <2>1, <3>2
      <3> QED BY <3>3, DeadlineFacts, ReportedFacts
    <2> QED BY <2>1, <2>2, <1>e, ExpireKeepsDeadline DEF DeadlineKept
  <1>6. ASSUME NEW o \in Operations, LookUp(o) \/ Finish(o) PROVE DeadlineKept
    <2>1. cache' = cache /\ session' = session
      BY <1>6 DEF LookUp, Finish
    <2>2. ASSUME NEW q \in Operations, worker[q].pc = "reserved"
          PROVE  worker'[q] = worker[q]
      BY <1>6, <2>2 DEF LookUp, Finish, TypeOK
    <2> QED BY <2>1, <2>2, <1>w, ExpireKeepsDeadline DEF DeadlineKept
  <1>7. ASSUME NEW o \in Operations, CacheResolved(o) PROVE DeadlineKept
    <2>1. session' = ExpiredSession /\ worker[o].pc = "resolved"
      BY <1>7 DEF CacheResolved
    <2>2. ASSUME NEW q \in Operations, worker[q].pc = "reserved"
          PROVE  worker'[q] = worker[q]
      BY <1>7, <2>2 DEF CacheResolved, TypeOK
    <2>3. CASE cache' = ExpiredCache
      BY <2>1, <2>2, <2>3, <1>e, <1>w, ExpireKeepsDeadline DEF DeadlineKept
    <2>4. CASE cache' # ExpiredCache
      <3>1. cache' = [ExpiredCache EXCEPT !.values = worker[o].values,
                                          !.fetched = now,
                                          !.fetched_at = Timestamp(now')]
        BY <1>7, <2>4 DEF CacheResolved
      <3>2. ExpiredCache \in CacheType
        BY ExpireFacts
      <3>3. cache'.values = worker[o].values
        BY <3>1, <3>2 DEF CacheType
      <3>4. worker[o].values # NoValue /\ worker[o].values.operation = o
        BY <2>1 DEF CacheInv, ValueInv
      <3>5. cache.values # NoValue => cache'.values # cache.values
        BY <2>1, <3>3, <3>4 DEF CacheInv, StoredInv
      <3> QED BY <2>2, <3>3, <3>4, <3>5, <1>w DEF DeadlineKept
    <2> QED BY <2>3, <2>4
  <1> QED BY <1>1, <1>2, <1>3, <1>4, <1>5, <1>6, <1>7 DEF Next

\* Reuse moves neither the deadline that counts nor the reported one; a value is
\* there until the first and handed to no operation from then on, nor, on a wall
\* clock nobody sets, in a second after the reported one.
THEOREM DeadlineIsKept == Spec => DeadlineHolds
  <1>1. Spec => []StampInv
    BY StampInit, StampStep, CacheInvariant, PTL DEF Spec
  <1> QED BY <1>1, CacheInvariant, DeadlineStep, PTL DEF Spec, DeadlineHolds
=============================================================================
