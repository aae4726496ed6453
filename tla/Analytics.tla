----------------------------- MODULE Analytics -----------------------------
(***************************************************************************)
(* The analytics database (src/src/analytics.rs) and the service that      *)
(* feeds it: operation rows synchronised from the service's records, the   *)
(* denial and activity rows, and the report over one window of time.       *)
(*                                                                         *)
(* Times are wall-clock seconds.  A window is Buckets buckets of Width     *)
(* seconds, the current one included (24 hours or 7, 30, 90 days).  The    *)
(* records the service holds are also what a restart reads back from its   *)
(* journal, so a service that fails or crashes and the one that follows    *)
(* are one step here; Service has the steps between.                       *)
(***************************************************************************)
EXTENDS Naturals, FiniteSets, Functions

CONSTANTS
    Operations,
    Durations,      \* duration_ms values
    Reports,        \* activity ids
    Payloads,       \* agent, tool, source, duration and outcome of an activity
    Width, Buckets, \* the window of the report
    FirstTime, MaxTime,     \* bounds of the clock
    MaxDenials,     \* bound
    None            \* SQL NULL, and no row

ASSUME AnalyticsAssumption ==
    /\ IsFiniteSet(Operations)
    /\ Durations \subseteq Nat /\ None \notin Durations \union Payloads
    /\ Width \in Nat \ {0} /\ Buckets \in Nat \ {0}
    /\ FirstTime \in Nat /\ MaxTime \in Nat /\ FirstTime <= MaxTime
    /\ MaxDenials \in Nat

VARIABLES
    now,        \* the wall clock
    records,    \* State.operations
    rows,       \* table operations
    denials,    \* table denials: when each was recorded
    activity,   \* table activity
    acked       \* history: payloads answered "recorded", per id

vars == <<now, records, rows, denials, activity, acked>>

Time == FirstTime .. MaxTime
Row == [started : Time, cache : {"unknown", "hit", "miss"},
        status : {"reserved", "running", "succeeded", "failed", "unknown"},
        duration : Durations \union {None}]

\* Types of the variables.
TypeOK ==
    /\ now \in Time
    /\ records \in [Operations -> Row \union {None}]
    /\ rows \in [Operations -> Row \union {None}]
    /\ denials \in [1 .. MaxDenials -> Time \union {None}]
    /\ activity \in [Reports -> Payloads \union {None}]
    /\ acked \in [Reports -> SUBSET Payloads]

-----------------------------------------------------------------------------
(* record_operations and open *)

\* UPSERT_OPERATION: final outcomes, durations and cache labels stay.
Merged(row, record) ==
    [row EXCEPT
        !.status = IF \/ row.status \in {"succeeded", "failed"}
                      \/ /\ row.status = "unknown"
                         /\ record.status \in {"reserved", "running"}
                   THEN row.status ELSE record.status,
        !.duration = IF row.duration = None THEN record.duration ELSE row.duration,
        !.cache = IF record.cache = "unknown" THEN row.cache ELSE record.cache]

Synchronised(table, m) ==
    [o \in Operations |->
        CASE m[o] = None -> table[o]
          [] m[o] # None /\ table[o] = None -> m[o]
          [] OTHER -> Merged(table[o], m[o])]

\* The upsert leaves a row alone that started at another time, and the transaction
\* fails if a row does not change.
Accepts(table, m) ==
    \A o \in Operations :
        m[o] # None /\ table[o] # None => table[o].started = m[o].started

WithoutOwner(table) ==
    [o \in Operations |->
        IF table[o] # None /\ table[o].status \in {"reserved", "running"}
        THEN [table[o] EXCEPT !.status = "unknown"] ELSE table[o]]

-----------------------------------------------------------------------------
(* The service: persist() after every change of its records *)

Restarted(m) ==
    /\ records' = WithoutOwner(m)
    /\ Accepts(rows, records')
    /\ rows' = Synchronised(WithoutOwner(rows), records')

\* The transaction commits and the service goes on with `next', or the journal
\* or the transaction fails and another service takes over.
Stored(m, next) ==
    \/ Accepts(rows, m) /\ rows' = Synchronised(rows, m) /\ records' = next
    \/ Restarted(m)
    \/ Restarted(records)

Persist(m, next) ==
    /\ Stored(m, next)
    /\ UNCHANGED <<now, denials, activity, acked>>

Reserve(o) ==
    LET m == [records EXCEPT ![o] = [started |-> now, status |-> "reserved",
                                     duration |-> None, cache |-> "unknown"]] IN
    /\ records[o] = None /\ rows[o] = None
    /\ Persist(m, m)

\* launch() persists the cache label before the operation is running; that it
\* runs is stored with the next write.  Of the labels the report counts these two.
Launch(o) ==
    \E label \in {"hit", "miss"} :
        LET m == [records EXCEPT ![o].cache = label] IN
        /\ records[o] # None /\ records[o].status = "reserved"
        /\ Persist(m, [m EXCEPT ![o].status = "running"])

Finish(o) ==
    \E status \in {"succeeded", "failed", "unknown"}, duration \in Durations :
        LET m == [records EXCEPT ![o].status = status, ![o].duration = duration] IN
        /\ records[o] # None /\ records[o].status \in {"reserved", "running"}
        /\ Persist(m, m)

Prune(o) ==
    /\ records[o] # None /\ records[o].status \notin {"reserved", "running"}
    /\ LET m == [records EXCEPT ![o] = None] IN Persist(m, m)

\* deny() inserts the row and persists; an insert that fails shuts down.
Deny ==
    \E d \in 1 .. MaxDenials :
        /\ denials[d] = None
        /\ \/ denials' = [denials EXCEPT ![d] = now] /\ Stored(records, records)
           \/ denials' = denials /\ Restarted(records)
        /\ UNCHANGED <<now, activity, acked>>

-----------------------------------------------------------------------------
(* record_activity: a report may come again, its answer may be lost *)

AnyPayload(a, b) == TRUE                \* wrong: an id alone is enough
SamePayload(a, b) == a = b

RecordActivity(r, payload) ==
    /\ activity[r] # None => SamePayload(activity[r], payload)
    /\ activity' = [activity EXCEPT ![r] = IF @ = None THEN payload ELSE @]
    /\ acked' \in {acked, [acked EXCEPT ![r] = @ \union {payload}]}
    /\ UNCHANGED <<now, records, rows, denials>>

Tick ==
    /\ now < MaxTime
    /\ now' = now + 1
    /\ UNCHANGED <<records, rows, denials, activity, acked>>

Init ==
    /\ now = FirstTime
    /\ records = [o \in Operations |-> None]
    /\ rows = [o \in Operations |-> None]
    /\ denials = [d \in 1 .. MaxDenials |-> None]
    /\ activity = [r \in Reports |-> None]
    /\ acked = [r \in Reports |-> {}]

Next ==
    \/ \E o \in Operations : Reserve(o) \/ Launch(o) \/ Finish(o) \/ Prune(o)
    \/ Deny \/ Tick
    \/ \E r \in Reports, payload \in Payloads : RecordActivity(r, payload)

Spec == Init /\ [][Next]_vars

-----------------------------------------------------------------------------
(* query_at *)

\* `until' is now, `end' the second after it.
Since ==
    LET bucket == now \div Width IN
    IF bucket < Buckets - 1 THEN 0 ELSE (bucket - (Buckets - 1)) * Width
End == now + 1

Between(since, end) ==
    {o \in Operations : rows[o] # None /\ rows[o].started >= since
                                       /\ rows[o].started < end}

Totals(since, end) ==
    LET Count(field, values) ==
            Cardinality({o \in Between(since, end) : rows[o][field] \in values}) IN
    [accepted |-> Cardinality(Between(since, end)),
     succeeded |-> Count("status", {"succeeded"}),
     failed |-> Count("status", {"failed"}),
     unknown |-> Count("status", {"unknown"}),
     running |-> Count("status", {"reserved", "running"}),
     hits |-> Count("cache", {"hit"}),
     misses |-> Count("cache", {"miss"}),
     denied |-> Cardinality({d \in 1 .. MaxDenials :
                    denials[d] # None /\ denials[d] >= since /\ denials[d] < end})]

BeforeNow == {s \in Since .. now : s < now}     \* wrong: the current second
                                                \* opens no bucket
UpToNow == Since .. now
BucketStarts == {s \in UpToNow : (s - Since) % Width = 0}
BucketEnd(s) == IF s + Width < End THEN s + Width ELSE End

AnyDuration(o) == rows[o].duration # None       \* wrong: unknown outcomes count
Sampled(o) ==
    rows[o].duration # None /\ rows[o].status \in {"succeeded", "failed"}

\* The rank (n*p+99)/100 the queries select, and the value with that rank.
Rank(n, p) == (n * p + 99) \div 100
Ranked(S, k) ==
    CHOOSE d \in {rows[o].duration : o \in S} :
        /\ Cardinality({o \in S : rows[o].duration < d}) < k
        /\ k <= Cardinality({o \in S : rows[o].duration <= d})

Latency(since, end) ==
    LET S == {o \in Between(since, end) : Sampled(o)} IN
    [p \in {50, 95, 99} |->
        IF S = {} THEN None ELSE Ranked(S, Rank(Cardinality(S), p))]

-----------------------------------------------------------------------------
(* Properties *)

ColumnAddsUp(column) ==
    Totals(Since, End)[column]
        = SumFunction([s \in BucketStarts |-> Totals(s, BucketEnd(s))[column]])

\* Every operation and denial of the window is in exactly one bucket of the
\* timeline, also at the boundaries: the buckets' columns add up to the totals,
\* and the outcomes to the accepted operations.
ReportAddsUp ==
    LET totals == Totals(Since, End) IN
    /\ \A column \in DOMAIN totals : ColumnAddsUp(column)
    /\ totals.accepted = totals.succeeded + totals.failed + totals.unknown
                         + totals.running

\* Percentiles are exact nearest-rank percentiles of the succeeded and failed
\* operations' durations (docs/analytics.md): the least one that at least p
\* percent of the samples do not exceed.
PercentilesExact ==
    LET S == {o \in Between(Since, End) : /\ rows[o].duration # None
                                          /\ rows[o].status \in {"succeeded", "failed"}}
        Covers(d, p) ==
            100 * Cardinality({o \in S : rows[o].duration <= d}) >= p * Cardinality(S)
    IN
    \A p \in {50, 95, 99} :
        LET value == Latency(Since, End)[p] IN
        IF S = {} THEN value = None
        ELSE /\ value \in {rows[o].duration : o \in S} /\ Covers(value, p)
             /\ \A o \in S : rows[o].duration < value => ~Covers(rows[o].duration, p)

\* A report that was acknowledged is the one on record, however often it or a
\* different report with its id is sent (ON CONFLICT of record_activity).
AckedReportStands ==
    \A r \in Reports : \A payload \in acked[r] :
        activity[r] = payload
=============================================================================
