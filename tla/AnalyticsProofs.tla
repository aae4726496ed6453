-------------------------- MODULE AnalyticsProofs --------------------------
(***************************************************************************)
(* Theorems about Analytics, for any number of operations, samples,        *)
(* buckets, denials and reports.                                           *)
(***************************************************************************)
EXTENDS Analytics, FiniteSetTheorems, TLAPS

-----------------------------------------------------------------------------
(* Numbers and finite sets *)

\* A set of natural numbers has a least element.
LEMMA LeastOfNaturals ==
    ASSUME NEW N \in SUBSET Nat, N # {}
    PROVE  \E x \in N : \A y \in N : ~ (y < x)
  <1>1. \E x \in N : \A y \in N : ~ (<<y, x>> \in OpToRel(<, Nat))
    BY NatLessThanWellFounded, WFMin
  <1> QED BY <1>1, Zenon DEF OpToRel

\* Induction, for a set instead of a predicate.
LEMMA NaturalsByInduction ==
    ASSUME NEW N, 0 \in N, \A n \in Nat : n \in N => n + 1 \in N
    PROVE  Nat \subseteq N
  <1> SUFFICES ASSUME Nat \ N # {} PROVE FALSE
    OBVIOUS
  <1>1. PICK x \in Nat \ N : \A y \in Nat \ N : ~ (y < x)
    BY LeastOfNaturals
  <1>2. x # 0 /\ x - 1 \in Nat /\ x - 1 < x /\ (x - 1) + 1 = x
    BY <1>1
  <1> QED BY <1>1, <1>2

\* Quotient and remainder.
LEMMA Division ==
    ASSUME NEW a \in Nat, NEW w \in Nat \ {0}
    PROVE  /\ a \div w \in Nat /\ a % w \in 0 .. w - 1
           /\ a = (a \div w) * w + (a % w)
  OBVIOUS

\* A multiple leaves no remainder.
LEMMA Multiple ==
    ASSUME NEW q \in Nat, NEW w \in Nat \ {0}
    PROVE  (q * w) % w = 0
  OBVIOUS

\* Two multiples of w are at least w apart.
LEMMA Apart ==
    ASSUME NEW a \in Nat, NEW b \in Nat, NEW w \in Nat \ {0}, a % w = 0, b % w = 0, a < b
    PROVE  a + w <= b
  <1> DEFINE p == a \div w
             q == b \div w
  <1>1. p \in Nat /\ q \in Nat /\ a = p * w /\ b = q * w
    BY Division
  <1> HIDE DEF p, q
  <1>2. p < q
    BY <1>1
  <1>3. p + 1 <= q
    BY <1>1, <1>2
  <1>4. (p + 1) * w <= q * w
    BY <1>1, <1>3
  <1>5. (p + 1) * w = p * w + w
    BY <1>1
  <1> QED BY <1>1, <1>4, <1>5

\* The sizes of disjoint sets add up.
LEMMA DisjointUnion ==
    ASSUME NEW S, IsFiniteSet(S), NEW T, IsFiniteSet(T), S \intersect T = {}
    PROVE  /\ IsFiniteSet(S \union T)
           /\ Cardinality(S \union T) = Cardinality(S) + Cardinality(T)
  <1>1. IsFiniteSet(S \union T) /\ Cardinality(S \union T)
            = Cardinality(S) + Cardinality(T) - Cardinality({})
    BY FS_Union
  <1> QED BY <1>1, FS_EmptySet, FS_CardinalityType

\* What SumFunction computes of the sizes of disjoint sets: the size of their
\* union.  The sizes of the unions of fewer sets solve its recursion, and
\* by induction on their number nothing else does.
LEMMA SumOfDisjoint ==
    ASSUME NEW T, IsFiniteSet(T), NEW U, IsFiniteSet(U), NEW A \in [T -> SUBSET U],
           \A s, t \in T : s # t => A[s] \intersect A[t] = {}
    PROVE  SumFunction([s \in T |-> Cardinality(A[s])])
               = Cardinality(UNION {A[s] : s \in T})
  <1> DEFINE f == [s \in T |-> Cardinality(A[s])]
             Joined(t) == UNION {A[s] : s \in t}
             Body(g, t) == IF t = {} THEN 0
                           ELSE LET x == CHOOSE x \in t : TRUE IN f[x] + g[t \ {x}]
             Solves(g) == g = [t \in SUBSET T |-> Body(g, t)]
             count == [t \in SUBSET T |-> Cardinality(Joined(t))]
             sum == CHOOSE g : Solves(g)
  <1>1. SumFunction(f) = sum[T]
    <2>1. DOMAIN f = T
      OBVIOUS
    <2> HIDE DEF f
    <2> QED BY <2>1 DEF SumFunction, SumFunctionOnSet, FoldFunctionOnSet, MapThenFoldSet
  <1>2. ASSUME NEW t \in SUBSET T, t # {}
        PROVE  LET x == CHOOSE x \in t : TRUE IN
               /\ x \in t /\ t \ {x} \in SUBSET T
               /\ f[x] \in Nat /\ count[t \ {x}] \in Nat
               /\ count[t] = f[x] + count[t \ {x}]
    <2> DEFINE x == CHOOSE x \in t : TRUE
    <2>1. x \in t /\ t \ {x} \in SUBSET T /\ x \in T
      BY <1>2
    <2>2. Joined(t) = A[x] \union Joined(t \ {x})
      BY <2>1
    <2>3. A[x] \intersect Joined(t \ {x}) = {}
      <3>1. \A s \in t \ {x} : A[x] \intersect A[s] = {}
        BY <2>1
      <3> QED BY <3>1
    <2>4. A[x] \in SUBSET U /\ Joined(t \ {x}) \in SUBSET U
      BY <2>1
    <2>5. /\ IsFiniteSet(A[x]) /\ IsFiniteSet(Joined(t \ {x}))
      BY <2>4, FS_Subset
    <2>6. Cardinality(A[x]) \in Nat /\ Cardinality(Joined(t \ {x})) \in Nat
      BY <2>5, FS_CardinalityType
    <2>7. Cardinality(A[x] \union Joined(t \ {x}))
              = Cardinality(A[x]) + Cardinality(Joined(t \ {x}))
      BY <2>3, <2>5, DisjointUnion
    <2>8. count[t] = Cardinality(Joined(t)) /\ f[x] = Cardinality(A[x])
          /\ count[t \ {x}] = Cardinality(Joined(t \ {x}))
      BY <2>1
    <2> HIDE DEF count, f, x, Joined
    <2> QED BY <2>1, <2>2, <2>6, <2>7, <2>8 DEF x
  <1>3. count[{}] = 0
    <2>1. Joined({}) = {}
      OBVIOUS
    <2> QED BY <2>1, FS_EmptySet
  <1>4. Solves(count)
    <2>1. ASSUME NEW t \in SUBSET T PROVE count[t] = Body(count, t)
      <3>1. CASE t = {}
        BY <1>3, <3>1
      <3>2. CASE t # {}
        BY <1>2, <3>2
      <3> QED BY <3>1, <3>2
    <2>2. count = [t \in SUBSET T |-> count[t]]
      OBVIOUS
    <2> HIDE DEF Body, count
    <2> QED BY <2>1, <2>2
  <1>5. Solves(sum)
    <2> HIDE DEF Solves
    <2> QED BY <1>4
  <1>6. \A t \in SUBSET T : sum[t] = Body(sum, t)
    <2> HIDE DEF sum, Body
    <2> QED BY <1>5
  <1> DEFINE N == {n \in Nat : \A t \in SUBSET T : Cardinality(t) = n => sum[t] = count[t]}
  <1>7. \A t \in SUBSET T : IsFiniteSet(t) /\ Cardinality(t) \in Nat
    BY FS_Subset, FS_CardinalityType
  <1>8. 0 \in N
    <2> SUFFICES ASSUME NEW t \in SUBSET T, Cardinality(t) = 0 PROVE sum[t] = count[t]
      OBVIOUS
    <2>1. t = {}
      BY <1>7, FS_EmptySet
    <2> HIDE DEF sum, count
    <2> QED BY <2>1, <1>3, <1>6
  <1>9. ASSUME NEW n \in Nat, n \in N PROVE n + 1 \in N
    <2> SUFFICES ASSUME NEW t \in SUBSET T, Cardinality(t) = n + 1 PROVE sum[t] = count[t]
      <3> HIDE DEF sum, count
      <3> QED OBVIOUS
    <2> DEFINE x == CHOOSE x \in t : TRUE
    <2>1. t # {}
      BY FS_EmptySet
    <2>2. x \in t /\ t \ {x} \in SUBSET T
      BY <2>1
    <2>3. Cardinality(t \ {x}) = n
      <3> HIDE DEF x
      <3>1. IsFiniteSet(t)
        BY <1>7
      <3>2. Cardinality(t \ {x}) = Cardinality(t) - 1
        BY <2>2, <3>1, FS_RemoveElement
      <3> QED BY <3>2
    <2>4. sum[t \ {x}] = count[t \ {x}]
      BY <1>9, <2>2, <2>3
    <2>5. count[t] = f[x] + count[t \ {x}]
      BY <1>2, <2>1
    <2>6. sum[t] = f[x] + sum[t \ {x}]
      <3> HIDE DEF sum
      <3> QED BY <1>6, <2>1
    <2> HIDE DEF sum, count, x
    <2> QED BY <2>4, <2>5, <2>6
  <1>10. Nat \subseteq N
    <2> HIDE DEF N
    <2> QED BY <1>8, <1>9, NaturalsByInduction
  <1>11. sum[T] = count[T]
    <2> HIDE DEF sum, count
    <2> QED BY <1>7, <1>10
  <1> HIDE DEF sum
  <1> QED BY <1>1, <1>11

\* Naturals given by finitely many samples have an upper bound.
LEMMA Bounded ==
    ASSUME NEW S, IsFiniteSet(S), NEW v \in [S -> Nat]
    PROVE  \E b \in Nat : \A o \in S : v[o] <= b
  <1> DEFINE Below(t) == \E b \in Nat : \A o \in t : v[o] <= b
             N == {n \in Nat : \A t \in SUBSET S : Cardinality(t) = n => Below(t)}
  <1>1. \A t \in SUBSET S : IsFiniteSet(t) /\ Cardinality(t) \in Nat
    BY FS_Subset, FS_CardinalityType
  <1>2. 0 \in N
    BY <1>1, FS_EmptySet
  <1>3. ASSUME NEW n \in Nat, n \in N PROVE n + 1 \in N
    <2>1. ASSUME NEW t \in SUBSET S, Cardinality(t) = n + 1 PROVE Below(t)
      <3>1. PICK x : x \in t
        BY <2>1, FS_EmptySet
      <3>2. Cardinality(t \ {x}) = n
        <4>1. IsFiniteSet(t)
          BY <1>1
        <4>2. Cardinality(t \ {x}) = Cardinality(t) - 1
          BY <3>1, <4>1, FS_RemoveElement
        <4> QED BY <2>1, <4>2
      <3>3. Below(t \ {x})
        BY <1>3, <3>2
      <3>4. PICK b \in Nat : \A o \in t \ {x} : v[o] <= b
        BY <3>3
      <3>5. CASE v[x] <= b
        BY <3>1, <3>4, <3>5
      <3>6. CASE v[x] > b
        <4>1. v[x] \in Nat /\ \A o \in t : v[o] <= v[x]
          BY <3>1, <3>4, <3>6
        <4> QED BY <4>1
      <3>7. v[x] \in Nat
        BY <3>1
      <3> QED BY <3>4, <3>5, <3>6, <3>7
    <2> HIDE DEF Below
    <2> QED BY <2>1
  <1>4. Nat \subseteq N
    <2> HIDE DEF N
    <2> QED BY <1>2, <1>3, NaturalsByInduction
  <1>5. Below(S)
    <2> HIDE DEF Below
    <2> QED BY <1>1, <1>4
  <1> QED BY <1>5

\* Some sample has the k-th value: fewer than k are below it, k are not above.
LEMMA KthExists ==
    ASSUME NEW S, IsFiniteSet(S), NEW v \in [S -> Nat],
           NEW k \in 1 .. Cardinality(S)
    PROVE  \E d \in Nat, Less \in SUBSET S, Upto \in SUBSET S :
               /\ \E o \in S : v[o] = d
               /\ \A o \in S : (o \in Less <=> v[o] < d) /\ (o \in Upto <=> v[o] <= d)
               /\ Cardinality(Less) < k /\ k <= Cardinality(Upto)
  <1> DEFINE Upto(d) == {o \in S : v[o] <= d}
             N == {d \in Nat : k <= Cardinality(Upto(d))}
  <1>1. \A t \in SUBSET S : IsFiniteSet(t) /\ Cardinality(t) \in Nat
    BY FS_Subset, FS_CardinalityType
  <1>2. N # {}
    <2>1. PICK b \in Nat : \A o \in S : v[o] <= b
      BY Bounded
    <2>2. Upto(b) = S
      BY <2>1
    <2>3. Cardinality(S) \in Nat
      BY <1>1
    <2> QED BY <2>2, <2>3
  <1>3. PICK d \in N : \A y \in N : ~ (y < d)
    BY <1>2, LeastOfNaturals
  <1> DEFINE Less == {o \in S : v[o] < d}
  <1>4. Less \in SUBSET S /\ Upto(d) \in SUBSET S
    OBVIOUS
  <1>5. Cardinality(Less) \in Nat /\ Cardinality(Upto(d)) \in Nat
    BY <1>1, <1>4
  <1>6. Cardinality(Less) < k
    <2>1. CASE d = 0
      <3>1. Less = {}
        BY <2>1
      <3> QED BY <3>1, FS_EmptySet
    <2>2. CASE d # 0
      <3>1. d - 1 \in Nat /\ d - 1 < d
        BY <2>2
      <3>2. Less = Upto(d - 1)
        BY <3>1
      <3>3. d - 1 \notin N
        BY <1>3, <3>1
      <3>4. ~ (k <= Cardinality(Upto(d - 1)))
        BY <3>1, <3>3
      <3> HIDE DEF Less, Upto
      <3> QED BY <3>2, <3>4, <1>5
    <2> QED BY <2>1, <2>2
  <1>7. k <= Cardinality(Upto(d))
    BY <1>3
  <1>8. Less # Upto(d)
    <2> HIDE DEF Less, Upto
    <2> QED BY <1>5, <1>6, <1>7
  <1>9. PICK o \in S : v[o] <= d /\ ~ (v[o] < d)
    BY <1>8
  <1>10. v[o] = d
    BY <1>9
  <1>11. \A q \in S : (q \in Less <=> v[q] < d) /\ (q \in Upto(d) <=> v[q] <= d)
    OBVIOUS
  <1>12. d \in Nat
    BY <1>3
  <1> HIDE DEF Less, Upto
  <1> QED BY <1>4, <1>6, <1>7, <1>10, <1>11, <1>12

\* The rank the percentile queries select is the nearest rank: it is one of the
\* n ranks, at least p percent of the samples are within it, and one less
\* would be too few (latency and agents, in integer arithmetic).
THEOREM NearestRank ==
    ASSUME NEW n \in Nat \ {0}, NEW p \in 1 .. 100
    PROVE  /\ Rank(n, p) \in 1 .. n
           /\ 100 * Rank(n, p) >= p * n
           /\ 100 * (Rank(n, p) - 1) < p * n
  <1> DEFINE m == n * p
  <1>1. m \in Nat /\ m = p * n /\ 1 <= m /\ m <= 100 * n
    OBVIOUS
  <1>2. Rank(n, p) = (m + 99) \div 100
    BY DEF Rank
  <1> HIDE DEF m
  <1>3. /\ (m + 99) \div 100 \in 1 .. n
        /\ 100 * ((m + 99) \div 100) >= m
        /\ 100 * (((m + 99) \div 100) - 1) < m
    BY <1>1
  <1> QED BY <1>1, <1>2, <1>3

-----------------------------------------------------------------------------
(* Types *)

\* A table of operations: a row or none for each.
Tables == [Operations -> Row \union {None}]

\* A row with another status, duration or label is a row.
LEMMA RowUpdate ==
    ASSUME NEW row \in Row
    PROVE  /\ \A s \in {"reserved", "running", "succeeded", "failed", "unknown"} :
                [row EXCEPT !.status = s] \in Row
           /\ \A d \in Durations \union {None} : [row EXCEPT !.duration = d] \in Row
           /\ \A c \in {"unknown", "hit", "miss"} : [row EXCEPT !.cache = c] \in Row
  BY DEF Row

\* A merged row is a row.
LEMMA MergedType ==
    ASSUME NEW row \in Row, NEW record \in Row
    PROVE  Merged(row, record) \in Row
  <1> DEFINE status == IF \/ row.status \in {"succeeded", "failed"}
                          \/ /\ row.status = "unknown"
                             /\ record.status \in {"reserved", "running"}
                       THEN row.status ELSE record.status
             duration == IF row.duration = None THEN record.duration ELSE row.duration
             cache == IF record.cache = "unknown" THEN row.cache ELSE record.cache
  <1>1. /\ status \in {"reserved", "running", "succeeded", "failed", "unknown"}
        /\ duration \in Durations \union {None}
        /\ cache \in {"unknown", "hit", "miss"}
    BY DEF Row
  <1>2. Merged(row, record) = [[[row EXCEPT !.status = status]
                                     EXCEPT !.duration = duration]
                                     EXCEPT !.cache = cache]
    BY DEF Merged
  <1> HIDE DEF status, duration, cache
  <1>3. [row EXCEPT !.status = status] \in Row
    BY <1>1, RowUpdate
  <1>4. [[row EXCEPT !.status = status] EXCEPT !.duration = duration] \in Row
    BY <1>1, <1>3, RowUpdate
  <1>5. [[[row EXCEPT !.status = status] EXCEPT !.duration = duration]
            EXCEPT !.cache = cache] \in Row
    BY <1>1, <1>4, RowUpdate
  <1> QED BY <1>2, <1>5

\* The tables a synchronisation and a restart leave are tables.
LEMMA TablesType ==
    ASSUME NEW table \in Tables, NEW m \in Tables
    PROVE  Synchronised(table, m) \in Tables /\ WithoutOwner(m) \in Tables
  <1>1. Synchronised(table, m) \in Tables
    <2>1. ASSUME NEW o \in Operations
          PROVE  (CASE m[o] = None -> table[o]
                    [] m[o] # None /\ table[o] = None -> m[o]
                    [] OTHER -> Merged(table[o], m[o])) \in Row \union {None}
      <3>1. /\ m[o] \in Row \union {None} /\ table[o] \in Row \union {None}
        BY DEF Tables
      <3>2. m[o] # None /\ table[o] # None => Merged(table[o], m[o]) \in Row
        BY <3>1, MergedType
      <3> QED BY <3>1, <3>2
    <2> QED BY <2>1 DEF Synchronised, Tables
  <1>2. WithoutOwner(m) \in Tables
    <2>1. ASSUME NEW row \in Row
          PROVE  [row EXCEPT !.status = "unknown"] \in Row
      BY DEF Row
    <2> QED BY <2>1 DEF WithoutOwner, Tables
  <1> QED BY <1>1, <1>2

\* What is stored are tables.
LEMMA StoredType ==
    ASSUME rows \in Tables, records \in Tables,
           NEW m \in Tables, NEW next \in Tables, Stored(m, next)
    PROVE  rows' \in Tables /\ records' \in Tables
  <1>1. CASE rows' = Synchronised(rows, m) /\ records' = next
    BY <1>1, TablesType
  <1>2. ASSUME NEW n \in Tables, Restarted(n)
        PROVE  rows' \in Tables /\ records' \in Tables
    <2>1. records' \in Tables /\ WithoutOwner(rows) \in Tables
      BY <1>2, TablesType DEF Restarted
    <2> QED BY <1>2, <2>1, TablesType DEF Restarted
  <1> QED BY <1>1, <1>2 DEF Stored

\* The steps of one operation write tables.
LEMMA OperationType ==
    ASSUME TypeOK, NEW o \in Operations,
           Reserve(o) \/ Launch(o) \/ Finish(o) \/ Prune(o)
    PROVE  TypeOK'
  <1>1. rows \in Tables /\ records \in Tables /\ now \in Time
    BY DEF TypeOK, Tables
  <1> SUFFICES ASSUME NEW m \in Tables, NEW next \in Tables, Persist(m, next)
               PROVE  TypeOK'
    <2>1. CASE Reserve(o)
      <3> DEFINE m == [records EXCEPT ![o] = [started |-> now, status |-> "reserved",
                                          duration |-> None, cache |-> "unknown"]]
      <3>1. m \in Tables
        BY <1>1 DEF Tables, Row
      <3> QED BY <2>1, <3>1 DEF Reserve
    <2>2. CASE Launch(o)
      <3>1. PICK label \in {"hit", "miss"} :
              LET m == [records EXCEPT ![o].cache = label] IN
              /\ records[o] # None
              /\ Persist(m, [m EXCEPT ![o].status = "running"])
        BY <2>2 DEF Launch
      <3> DEFINE row == [records[o] EXCEPT !.cache = label]
                 m == [records EXCEPT ![o] = row]
                 running == [m EXCEPT ![o] = [row EXCEPT !.status = "running"]]
      <3>2. records[o] \in Row
        BY <1>1, <3>1 DEF Tables
      <3>3. row \in Row
        BY <3>2 DEF Row
      <3>4. [row EXCEPT !.status = "running"] \in Row
        BY <3>3 DEF Row
      <3>5. m \in Tables
        BY <1>1, <3>3 DEF Tables
      <3>6. running \in Tables
        BY <3>5, <3>4 DEF Tables
      <3>7. m[o] = row
        BY <1>1 DEF Tables
      <3>8. running = [m EXCEPT ![o].status = "running"]
        BY <3>7
      <3> HIDE DEF running, m
      <3>9. m = [records EXCEPT ![o].cache = label]
        BY DEF m
      <3> QED BY <3>1, <3>5, <3>6, <3>8, <3>9
    <2>3. CASE Finish(o)
      <3>1. PICK status \in {"succeeded", "failed", "unknown"}, duration \in Durations :
              LET m == [records EXCEPT ![o].status = status,
                                       ![o].duration = duration] IN
              /\ records[o] # None /\ Persist(m, m)
        BY <2>3 DEF Finish
      <3> DEFINE m == [records EXCEPT ![o].status = status, ![o].duration = duration]
      <3>2. records[o] \in Row
        BY <1>1, <3>1 DEF Tables
      <3>3. [[records[o] EXCEPT !.status = status] EXCEPT !.duration = duration] \in Row
        BY <3>2 DEF Row
      <3>4. m = [records EXCEPT ![o] =
                    [[records[o] EXCEPT !.status = status] EXCEPT !.duration = duration]]
        BY <1>1 DEF Tables
      <3>5. m \in Tables
        BY <1>1, <3>3, <3>4 DEF Tables
      <3> QED BY <3>1, <3>5
    <2>4. CASE Prune(o)
      <3> DEFINE m == [records EXCEPT ![o] = None]
      <3>1. m \in Tables
        BY <1>1 DEF Tables
      <3> QED BY <2>4, <3>1 DEF Prune
    <2> QED BY <2>1, <2>2, <2>3, <2>4
  <1>2. rows' \in Tables /\ records' \in Tables
    BY <1>1, StoredType DEF Persist
  <1> QED BY <1>2 DEF Persist, TypeOK, Tables

\* Every step keeps the types.
LEMMA TypeStep == TypeOK /\ [Next]_vars => TypeOK'
  <1> SUFFICES ASSUME TypeOK, [Next]_vars PROVE TypeOK'
    OBVIOUS
  <1>1. ASSUME NEW o \in Operations, Reserve(o) \/ Launch(o) \/ Finish(o) \/ Prune(o)
        PROVE  TypeOK'
    BY <1>1, OperationType
  <1>2. CASE Deny
    <2>1. PICK d \in 1 .. MaxDenials :
            /\ denials' = [denials EXCEPT ![d] = now] \/ denials' = denials
            /\ Stored(records, records) \/ Restarted(records)
            /\ UNCHANGED <<now, activity, acked>>
      BY <1>2 DEF Deny
    <2>2. Stored(records, records)
      BY <2>1 DEF Stored
    <2>3. rows \in Tables /\ records \in Tables
      BY DEF TypeOK, Tables
    <2>4. rows' \in Tables /\ records' \in Tables
      BY <2>2, <2>3, StoredType
    <2> QED BY <2>1, <2>4 DEF TypeOK, Tables
  <1>3. CASE Tick
    BY <1>3, AnalyticsAssumption DEF Tick, TypeOK, Time
  <1>4. ASSUME NEW r \in Reports, NEW payload \in Payloads, RecordActivity(r, payload)
        PROVE  TypeOK'
    <2>1. activity' \in [Reports -> Payloads \union {None}]
      BY <1>4 DEF RecordActivity, TypeOK
    <2>2. acked' \in [Reports -> SUBSET Payloads]
      BY <1>4 DEF RecordActivity, TypeOK
    <2> QED BY <1>4, <2>1, <2>2 DEF RecordActivity, TypeOK
  <1>5. CASE UNCHANGED vars
    BY <1>5 DEF vars, TypeOK
  <1> QED BY <1>1, <1>2, <1>3, <1>4, <1>5 DEF Next

\* The types hold at the start.
LEMMA TypeInit == Init => TypeOK
  BY AnalyticsAssumption DEF Init, TypeOK, Time

\* Clock, records and tables keep their types through failed writes, restarts
\* and pruning.
THEOREM AnalyticsTypeCorrect == Spec => []TypeOK
  BY TypeInit, TypeStep, PTL DEF Spec

-----------------------------------------------------------------------------
(* Latencies *)

\* The samples of the window: operations with a duration that is a number.
LEMMA SamplesType ==
    ASSUME TypeOK, NEW since, NEW end
    PROVE  LET S == {o \in Between(since, end) : Sampled(o)} IN
           /\ IsFiniteSet(S)
           /\ \A o \in S : rows[o].duration \in Nat
  <1> DEFINE S == {o \in Between(since, end) : Sampled(o)}
  <1>1. IsFiniteSet(S)
    <2>1. S \in SUBSET Operations
      BY DEF Between
    <2> QED BY <2>1, AnalyticsAssumption, FS_Subset
  <1>2. ASSUME NEW o \in S PROVE rows[o].duration \in Nat
    <2>1. o \in Operations /\ rows[o] # None /\ rows[o].duration # None
      BY <1>2 DEF Between, Sampled
    <2>2. rows[o] \in Row
      BY <2>1 DEF TypeOK
    <2> QED BY <2>1, <2>2, AnalyticsAssumption DEF Row
  <1> QED BY <1>1, <1>2

\* The samples below a duration, and those it covers.
Less(S, d) == {o \in S : rows[o].duration < d}
Upto(S, d) == {o \in S : rows[o].duration <= d}

\* At least p percent of the samples are not above d.
Reaches(S, p, d) == 100 * Cardinality(Upto(S, d)) >= p * Cardinality(S)

\* The value of the k-th row when the rows are ordered by duration: fewer than
\* k are below it, and k are not above.
LEMMA RankedValue ==
    ASSUME NEW S, IsFiniteSet(S), \A o \in S : rows[o].duration \in Nat,
           NEW k \in 1 .. Cardinality(S)
    PROVE  /\ \E o \in S : Ranked(S, k) = rows[o].duration
           /\ Cardinality(Less(S, Ranked(S, k))) < k
           /\ k <= Cardinality(Upto(S, Ranked(S, k)))
  <1> DEFINE v == [o \in S |-> rows[o].duration]
             Good(d) == /\ Cardinality(Less(S, d)) < k
                        /\ k <= Cardinality(Upto(S, d))
             D == {rows[o].duration : o \in S}
  <1>1. v \in [S -> Nat]
    OBVIOUS
  <1>2. PICK d \in Nat, less \in SUBSET S, upto \in SUBSET S :
               /\ \E o \in S : v[o] = d
               /\ \A o \in S : (o \in less <=> v[o] < d) /\ (o \in upto <=> v[o] <= d)
               /\ Cardinality(less) < k /\ k <= Cardinality(upto)
    <2> HIDE DEF v
    <2> QED BY <1>1, KthExists
  <1>3. less = Less(S, d) /\ upto = Upto(S, d) /\ d \in D
    BY <1>2 DEF Less, Upto
  <1>4. \E x \in D : Good(x)
    BY <1>2, <1>3
  <1>5. Ranked(S, k) = CHOOSE x \in D : Good(x)
    BY DEF Ranked, Less, Upto
  <1> HIDE DEF Good, D
  <1>6. Ranked(S, k) \in D /\ Good(Ranked(S, k))
    BY <1>4, <1>5
  <1> QED BY <1>6 DEF Good, D

\* The value with the rank the query selects is the nearest-rank percentile.
LEMMA RankIsExact ==
    ASSUME NEW S, IsFiniteSet(S), \A o \in S : rows[o].duration \in Nat,
           S # {}, NEW p \in 1 .. 100,
           NEW value, value = Ranked(S, Rank(Cardinality(S), p))
    PROVE  /\ value \in Nat /\ \E o \in S : value = rows[o].duration
           /\ Reaches(S, p, value)
           /\ \A o \in S : rows[o].duration < value => ~Reaches(S, p, rows[o].duration)
  <1> DEFINE n == Cardinality(S)
             k == Rank(n, p)
  <1>1. \A t \in SUBSET S : IsFiniteSet(t) /\ Cardinality(t) \in Nat
    BY FS_Subset, FS_CardinalityType
  <1>2. n \in Nat \ {0}
    BY <1>1, FS_EmptySet
  <1>3. k \in 1 .. n /\ 100 * k >= p * n /\ 100 * (k - 1) < p * n
    <2> HIDE DEF n
    <2> QED BY <1>2, NearestRank
  <1>4. /\ \E o \in S : value = rows[o].duration
        /\ Cardinality(Less(S, value)) < k
        /\ k <= Cardinality(Upto(S, value))
    <2>1. value = Ranked(S, k)
      OBVIOUS
    <2>2. k \in 1 .. Cardinality(S)
      BY <1>3
    <2> HIDE DEF k
    <2> QED BY <2>1, <2>2, RankedValue
  <1>5. value \in Nat
    BY <1>4
  <1>6. /\ \A d : Cardinality(Upto(S, d)) \in Nat
        /\ IsFiniteSet(Less(S, value)) /\ Cardinality(Less(S, value)) \in Nat
    BY <1>1 DEF Upto, Less
  <1> DEFINE share == p * n
  <1>7. share \in Nat
    BY <1>2
  <1>8. 100 * Cardinality(Upto(S, value)) >= share
    <2>1. Cardinality(Upto(S, value)) \in Nat
      BY <1>6
    <2> HIDE DEF k, n
    <2> QED BY <1>3, <1>4, <1>7, <2>1
  <1>9. ASSUME NEW o \in S, rows[o].duration < value
        PROVE  ~ (100 * Cardinality(Upto(S, rows[o].duration)) >= share)
    <2>1. Upto(S, rows[o].duration) \in SUBSET Less(S, value)
      BY <1>9, <1>5 DEF Upto, Less
    <2>2. Cardinality(Upto(S, rows[o].duration)) <= Cardinality(Less(S, value))
      BY <1>6, <2>1, FS_Subset
    <2>3. Cardinality(Upto(S, rows[o].duration)) \in Nat
      BY <1>6
    <2> HIDE DEF k, n
    <2> QED BY <1>3, <1>4, <1>6, <1>7, <2>2, <2>3
  <1> HIDE DEF k
  <1> QED BY <1>4, <1>5, <1>8, <1>9 DEF Reaches

\* The report's percentiles in a state of the right types.
LEMMA LatencyIsExact == TypeOK => PercentilesExact
  <1> SUFFICES ASSUME TypeOK PROVE PercentilesExact
    OBVIOUS
  <1> DEFINE S == {o \in Between(Since, End) : /\ rows[o].duration # None
                                               /\ rows[o].status \in {"succeeded", "failed"}}
             Covers(d, p) ==
               100 * Cardinality({o \in S : rows[o].duration <= d}) >= p * Cardinality(S)
  <1>1. S = {o \in Between(Since, End) : Sampled(o)}
    BY DEF Sampled
  <1>2. IsFiniteSet(S) /\ \A o \in S : rows[o].duration \in Nat
    <2> HIDE DEF S
    <2> QED BY <1>1, SamplesType
  <1>3. ASSUME NEW p \in {50, 95, 99}
        PROVE  LET value == Latency(Since, End)[p] IN
               IF S = {} THEN value = None
               ELSE /\ value \in {rows[o].duration : o \in S} /\ Covers(value, p)
                    /\ \A o \in S : rows[o].duration < value => ~Covers(rows[o].duration, p)
    <2> DEFINE value == Latency(Since, End)[p]
    <2>1. value = IF S = {} THEN None ELSE Ranked(S, Rank(Cardinality(S), p))
      <3> HIDE DEF S
      <3> QED BY <1>1 DEF Latency
    <2>2. CASE S = {}
      <3> HIDE DEF S
      <3> QED BY <2>1, <2>2
    <2>3. CASE S # {}
      <3> HIDE DEF S, value
      <3>1. value = Ranked(S, Rank(Cardinality(S), p))
        BY <2>1, <2>3
      <3>2. p \in 1 .. 100
        OBVIOUS
      <3>3. /\ \E o \in S : value = rows[o].duration
            /\ Reaches(S, p, value)
            /\ \A o \in S : rows[o].duration < value => ~Reaches(S, p, rows[o].duration)
        BY <1>2, <2>3, <3>1, <3>2, RankIsExact
      <3>4. \A d : Covers(d, p) <=> Reaches(S, p, d)
        BY Zenon DEF Upto, Reaches
      <3>5. /\ value \in {rows[o].duration : o \in S} /\ Covers(value, p)
            /\ \A o \in S : rows[o].duration < value => ~Covers(rows[o].duration, p)
        <4> HIDE DEF Covers
        <4> QED BY <3>3, <3>4
      <3> QED BY <2>3, <3>5, Zenon DEF value
    <2> QED BY <2>2, <2>3, Zenon
  <1> QED BY <1>3, Zenon DEF PercentilesExact

\* Percentiles are exact for any number of samples, whatever durations, statuses
\* and order the rows came in (latency).
THEOREM PercentilesAreExact == Spec => []PercentilesExact
  BY LatencyIsExact, AnalyticsTypeCorrect, PTL

-----------------------------------------------------------------------------
(* The timeline *)

\* The window begins at a time not after now.
LEMMA SinceType ==
    ASSUME now \in Nat
    PROVE  Since \in Nat /\ Since <= now /\ End \in Nat /\ now < End
  <1> DEFINE q == now \div Width
             k == q - (Buckets - 1)
  <1>1. q \in Nat /\ now = q * Width + (now % Width) /\ now % Width \in Nat
    BY AnalyticsAssumption, Division
  <1>2. End \in Nat /\ now < End
    BY DEF End
  <1>3. Since = IF q < Buckets - 1 THEN 0 ELSE k * Width
    BY DEF Since
  <1> HIDE DEF q
  <1>4. CASE q < Buckets - 1
    <2>1. Since = 0
      BY <1>3, <1>4
    <2> QED BY <1>2, <2>1
  <1>5. CASE ~ (q < Buckets - 1)
    <2>1. k \in Nat /\ k <= q /\ Width \in Nat
      BY <1>1, <1>5, AnalyticsAssumption
    <2>2. Since = k * Width
      BY <1>3, <1>5
    <2> HIDE DEF k
    <2>3. k * Width \in Nat /\ q * Width \in Nat /\ k * Width <= q * Width
      BY <1>1, <2>1
    <2> QED BY <1>1, <1>2, <2>2, <2>3
  <1> QED BY <1>4, <1>5

\* Every second of the window is in the bucket of some start.
LEMMA SomeBucket ==
    ASSUME now \in Nat, NEW x \in Nat, Since <= x, x < End
    PROVE  \E s \in BucketStarts : s <= x /\ x < BucketEnd(s)
  <1> DEFINE a == x - Since
             q == a \div Width
             s == Since + q * Width
  <1>1. Since \in Nat /\ Width \in Nat \ {0} /\ End = now + 1
    BY SinceType, AnalyticsAssumption DEF End
  <1>2. a \in Nat
    BY <1>1
  <1>3. q \in Nat /\ a = q * Width + (a % Width) /\ a % Width \in 0 .. Width - 1
    <2> HIDE DEF a
    <2> QED BY <1>1, <1>2, Division
  <1>4. (q * Width) % Width = 0
    <2> HIDE DEF q
    <2> QED BY <1>1, <1>3, Multiple
  <1> DEFINE m == q * Width
  <1>5. m \in Nat /\ m <= a /\ a < m + Width /\ m % Width = 0
    <2> HIDE DEF q, a
    <2> QED BY <1>1, <1>2, <1>3, <1>4
  <1>6. s = Since + m
    OBVIOUS
  <1> HIDE DEF m, q, s
  <1>7. s - Since = m /\ s \in Since .. now /\ s <= x /\ x < s + Width
    BY <1>1, <1>5, <1>6
  <1>8. s \in BucketStarts
    BY <1>5, <1>7 DEF BucketStarts, UpToNow
  <1>9. x < BucketEnd(s)
    BY <1>7 DEF BucketEnd
  <1> QED BY <1>7, <1>8, <1>9

\* Buckets do not overlap and do not reach beyond the window.
LEMMA BucketsApart ==
    ASSUME now \in Nat, NEW s \in BucketStarts
    PROVE  /\ s \in Nat /\ Since <= s
           /\ BucketEnd(s) \in Nat /\ BucketEnd(s) <= End
           /\ \A t \in BucketStarts : s < t => BucketEnd(s) <= t
  <1>1. Since \in Nat /\ Width \in Nat \ {0} /\ End = now + 1
    BY SinceType, AnalyticsAssumption DEF End
  <1>2. s \in Since .. now /\ (s - Since) % Width = 0
    BY DEF BucketStarts, UpToNow
  <1>3. /\ BucketEnd(s) \in Nat /\ BucketEnd(s) <= End
        /\ BucketEnd(s) <= s + Width
    BY <1>1, <1>2 DEF BucketEnd
  <1>4. ASSUME NEW t \in BucketStarts, s < t PROVE BucketEnd(s) <= t
    <2>1. t \in Since .. now /\ (t - Since) % Width = 0
      BY DEF BucketStarts, UpToNow
    <2> DEFINE a == s - Since
               b == t - Since
    <2>2. a \in Nat /\ b \in Nat /\ a < b /\ a % Width = 0 /\ b % Width = 0
      BY <1>1, <1>2, <1>4, <2>1
    <2>3. a + Width <= b
      <3> HIDE DEF a, b
      <3> QED BY <1>1, <2>2, Apart
    <2>4. s + Width <= t
      BY <1>1, <1>2, <2>1, <2>3
    <2> QED BY <1>1, <1>2, <1>3, <2>1, <2>4
  <1> QED BY <1>1, <1>2, <1>3, <1>4

\* The things that happened in an interval.
Within(X, at, since, end) == {x \in X : at[x] >= since /\ at[x] < end}

\* Things that happened at a time each: those of the window are those of its
\* buckets, each counted once.
LEMMA WindowSum ==
    ASSUME now \in Nat, NEW X, IsFiniteSet(X), NEW at \in [X -> Nat]
    PROVE  Cardinality(Within(X, at, Since, End))
               = SumFunction([s \in BucketStarts |->
                                 Cardinality(Within(X, at, s, BucketEnd(s)))])
  <1> DEFINE A == [s \in BucketStarts |-> Within(X, at, s, BucketEnd(s))]
  <1>1. IsFiniteSet(BucketStarts)
    <2>1. Since \in Int /\ now \in Int
      BY SinceType
    <2>2. IsFiniteSet(Since .. now)
      BY <2>1, FS_Interval
    <2>3. BucketStarts \in SUBSET (Since .. now)
      BY DEF BucketStarts, UpToNow
    <2> QED BY <2>2, <2>3, FS_Subset
  <1>2. A \in [BucketStarts -> SUBSET X]
    BY DEF Within
  <1>3. ASSUME NEW s \in BucketStarts, NEW t \in BucketStarts, s < t
        PROVE  A[s] \intersect A[t] = {}
    <2>1. s \in Nat /\ t \in Nat /\ BucketEnd(s) \in Nat /\ BucketEnd(s) <= t
      BY <1>3, BucketsApart
    <2>2. /\ A[s] = {x \in X : at[x] >= s /\ at[x] < BucketEnd(s)}
          /\ A[t] = {x \in X : at[x] >= t /\ at[x] < BucketEnd(t)}
      BY DEF Within
    <2> HIDE DEF A
    <2>3. ASSUME NEW x \in X, x \in A[s], x \in A[t] PROVE FALSE
      <3>1. at[x] \in Nat /\ at[x] < BucketEnd(s) /\ at[x] >= t
        BY <2>2, <2>3
      <3> QED BY <2>1, <3>1
    <2> QED BY <2>2, <2>3
  <1>4. \A s, t \in BucketStarts : s # t => A[s] \intersect A[t] = {}
    <2> HIDE DEF A
    <2>1. \A s \in BucketStarts : s \in Nat
      BY BucketsApart
    <2> SUFFICES ASSUME NEW s \in BucketStarts, NEW t \in BucketStarts, s # t
                 PROVE  A[s] \intersect A[t] = {}
      OBVIOUS
    <2>2. s < t \/ t < s
      BY <2>1
    <2> QED BY <1>3, <2>2
  <1>5. UNION {A[s] : s \in BucketStarts} = Within(X, at, Since, End)
    <2>1. ASSUME NEW x \in X, at[x] >= Since, at[x] < End
          PROVE  \E s \in BucketStarts : x \in A[s]
      <3>1. PICK s \in BucketStarts : s <= at[x] /\ at[x] < BucketEnd(s)
        BY <2>1, SomeBucket
      <3>2. at[x] >= s
        BY <3>1, BucketsApart
      <3> QED BY <3>1, <3>2 DEF Within
    <2>2. ASSUME NEW s \in BucketStarts, NEW x \in A[s]
          PROVE  x \in X /\ at[x] >= Since /\ at[x] < End
      <3>1. x \in X /\ at[x] >= s /\ at[x] < BucketEnd(s) /\ at[x] \in Nat
        BY <2>2 DEF Within
      <3>2. /\ s \in Nat /\ Since <= s /\ BucketEnd(s) \in Nat /\ BucketEnd(s) <= End
            /\ Since \in Nat /\ End \in Nat
        BY BucketsApart, SinceType
      <3> QED BY <3>1, <3>2
    <2>3. Within(X, at, Since, End) = {x \in X : at[x] >= Since /\ at[x] < End}
      BY DEF Within
    <2> HIDE DEF A
    <2> QED BY <2>1, <2>2, <2>3
  <1>6. SumFunction([s \in BucketStarts |-> Cardinality(A[s])])
            = Cardinality(UNION {A[s] : s \in BucketStarts})
    <2> HIDE DEF A
    <2> QED BY <1>1, <1>2, <1>4, SumOfDisjoint
  <1>7. [s \in BucketStarts |-> Cardinality(A[s])]
            = [s \in BucketStarts |-> Cardinality(Within(X, at, s, BucketEnd(s)))]
    OBVIOUS
  <1> HIDE DEF A
  <1> QED BY <1>5, <1>6, <1>7

\* A column of the timeline adds up when what it counts happened at a time each.
LEMMA EventsAddUp ==
    ASSUME now \in Nat, NEW X, IsFiniteSet(X), NEW at \in [X -> Nat],
           NEW column,
           Totals(Since, End)[column] = Cardinality(Within(X, at, Since, End)),
           \A s \in BucketStarts :
               Totals(s, BucketEnd(s))[column]
                   = Cardinality(Within(X, at, s, BucketEnd(s)))
    PROVE  ColumnAddsUp(column)
  <1>1. [s \in BucketStarts |-> Totals(s, BucketEnd(s))[column]]
            = [s \in BucketStarts |-> Cardinality(Within(X, at, s, BucketEnd(s)))]
    OBVIOUS
  <1>2. Cardinality(Within(X, at, Since, End))
            = SumFunction([s \in BucketStarts |->
                              Cardinality(Within(X, at, s, BucketEnd(s)))])
    BY WindowSum
  <1> QED BY <1>1, <1>2 DEF ColumnAddsUp

\* The columns that count the rows of some operations add up.
LEMMA RowsAddUp ==
    ASSUME TypeOK, NEW V \in SUBSET Operations, NEW column,
           \A since, end : Totals(since, end)[column]
                               = Cardinality({o \in Between(since, end) : o \in V})
    PROVE  ColumnAddsUp(column)
  <1> DEFINE X == {o \in V : rows[o] # None}
             at == [o \in X |-> rows[o].started]
  <1>1. IsFiniteSet(X)
    <2>1. X \in SUBSET Operations
      OBVIOUS
    <2> HIDE DEF X
    <2> QED BY <2>1, AnalyticsAssumption, FS_Subset
  <1>2. at \in [X -> Nat] /\ now \in Nat
    <2>1. \A o \in X : rows[o] \in Row
      BY DEF TypeOK
    <2>2. Time \in SUBSET Nat
      BY AnalyticsAssumption DEF Time
    <2>3. now \in Time
      BY DEF TypeOK
    <2> QED BY <2>1, <2>2, <2>3 DEF Row
  <1>3. \A since, end : {o \in Between(since, end) : o \in V} = Within(X, at, since, end)
    BY DEF Between, Within
  <1>4. \A since, end : Totals(since, end)[column] = Cardinality(Within(X, at, since, end))
    <2> HIDE DEF X, at
    <2> QED BY <1>3
  <1> HIDE DEF X, at
  <1>5. /\ Totals(Since, End)[column] = Cardinality(Within(X, at, Since, End))
        /\ \A s \in BucketStarts :
               Totals(s, BucketEnd(s))[column]
                   = Cardinality(Within(X, at, s, BucketEnd(s)))
    BY <1>4
  <1> QED BY <1>1, <1>2, <1>5, EventsAddUp

\* The outcomes of the operations of the window: four disjoint kinds.
LEMMA OutcomesAddUp ==
    ASSUME TypeOK
    PROVE  LET totals == Totals(Since, End) IN
           totals.accepted = totals.succeeded + totals.failed + totals.unknown
                             + totals.running
  <1> DEFINE B == Between(Since, End)
             Of(V) == {o \in B : rows[o].status \in V}
  <1>1. /\ Totals(Since, End).accepted = Cardinality(B)
        /\ Totals(Since, End).succeeded = Cardinality(Of({"succeeded"}))
        /\ Totals(Since, End).failed = Cardinality(Of({"failed"}))
        /\ Totals(Since, End).unknown = Cardinality(Of({"unknown"}))
        /\ Totals(Since, End).running = Cardinality(Of({"reserved", "running"}))
    BY DEF Totals
  <1>2. \A t \in SUBSET B : IsFiniteSet(t) /\ Cardinality(t) \in Nat
    <2>1. B \in SUBSET Operations
      BY DEF Between
    <2>2. IsFiniteSet(B)
      <3> HIDE DEF B
      <3> QED BY <2>1, AnalyticsAssumption, FS_Subset
    <2> HIDE DEF B
    <2> QED BY <2>2, FS_Subset, FS_CardinalityType
  <1>3. \A V, W : V \intersect W = {} =>
            /\ Cardinality(Of(V \union W)) = Cardinality(Of(V)) + Cardinality(Of(W))
            /\ Cardinality(Of(V)) \in Nat
    <2> SUFFICES ASSUME NEW V, NEW W, V \intersect W = {}
                 PROVE  /\ Cardinality(Of(V \union W))
                               = Cardinality(Of(V)) + Cardinality(Of(W))
                        /\ Cardinality(Of(V)) \in Nat
      OBVIOUS
    <2>1. /\ Of(V \union W) = Of(V) \union Of(W)
          /\ Of(V) \intersect Of(W) = {}
          /\ Of(V) \in SUBSET B /\ Of(W) \in SUBSET B
      OBVIOUS
    <2> HIDE DEF Of, B
    <2> QED BY <1>2, <2>1, DisjointUnion
  <1>4. B = Of({"succeeded"} \union ({"failed"}
                   \union ({"unknown"} \union {"reserved", "running"})))
    <2>1. \A o \in B : rows[o] \in Row
      BY DEF Between, TypeOK
    <2> HIDE DEF B
    <2> QED BY <2>1 DEF Row
  <1> HIDE DEF Of, B
  <1>5. /\ Cardinality(B) = Cardinality(Of({"succeeded"}))
              + Cardinality(Of({"failed"}
                   \union ({"unknown"} \union {"reserved", "running"})))
        /\ Cardinality(Of({"succeeded"})) \in Nat
    <2>1. {"succeeded"} \intersect ({"failed"}
              \union ({"unknown"} \union {"reserved", "running"})) = {}
      OBVIOUS
    <2> QED BY <1>3, <1>4, <2>1
  <1>6. /\ Cardinality(Of({"failed"}
                   \union ({"unknown"} \union {"reserved", "running"})))
            = Cardinality(Of({"failed"}))
              + Cardinality(Of({"unknown"} \union {"reserved", "running"}))
        /\ Cardinality(Of({"failed"})) \in Nat
    <2>1. {"failed"} \intersect ({"unknown"} \union {"reserved", "running"}) = {}
      OBVIOUS
    <2> QED BY <1>3, <2>1
  <1>7. /\ Cardinality(Of({"unknown"} \union {"reserved", "running"}))
            = Cardinality(Of({"unknown"})) + Cardinality(Of({"reserved", "running"}))
        /\ Cardinality(Of({"unknown"})) \in Nat
        /\ Cardinality(Of({"reserved", "running"})) \in Nat
    <2>1. {"unknown"} \intersect {"reserved", "running"} = {}
      OBVIOUS
    <2>2. {"reserved", "running"} \intersect {} = {}
      OBVIOUS
    <2> QED BY <1>3, <2>1, <2>2
  <1> QED BY <1>1, <1>5, <1>6, <1>7

\* The denials of the window add up.
LEMMA DenialsAddUp ==
    ASSUME TypeOK
    PROVE  ColumnAddsUp("denied")
  <1> DEFINE X == {d \in 1 .. MaxDenials : denials[d] # None}
             at == [d \in X |-> denials[d]]
  <1>1. IsFiniteSet(X)
    <2>1. X \in SUBSET (1 .. MaxDenials)
      OBVIOUS
    <2>2. IsFiniteSet(1 .. MaxDenials)
      BY AnalyticsAssumption, FS_Interval
    <2> HIDE DEF X
    <2> QED BY <2>1, <2>2, FS_Subset
  <1>2. at \in [X -> Nat] /\ now \in Nat
    <2>1. \A d \in X : denials[d] \in Time
      BY DEF TypeOK
    <2>2. Time \in SUBSET Nat
      BY AnalyticsAssumption DEF Time
    <2>3. now \in Time
      BY DEF TypeOK
    <2> QED BY <2>1, <2>2, <2>3
  <1>3. \A since, end : Within(X, at, since, end)
            = {d \in 1 .. MaxDenials :
                    denials[d] # None /\ denials[d] >= since /\ denials[d] < end}
    BY DEF Within
  <1>4. \A since, end : Totals(since, end)["denied"] = Cardinality(Within(X, at, since, end))
    <2>1. \A since, end : Totals(since, end)["denied"]
            = Cardinality({d \in 1 .. MaxDenials :
                    denials[d] # None /\ denials[d] >= since /\ denials[d] < end})
      BY DEF Totals
    <2> HIDE DEF X, at
    <2> QED BY <1>3, <2>1
  <1> HIDE DEF X, at
  <1>5. /\ Totals(Since, End)["denied"] = Cardinality(Within(X, at, Since, End))
        /\ \A s \in BucketStarts :
               Totals(s, BucketEnd(s))["denied"]
                   = Cardinality(Within(X, at, s, BucketEnd(s)))
    BY <1>4
  <1> QED BY <1>1, <1>2, <1>5, EventsAddUp

\* Every column of the timeline adds up.
LEMMA TimelineAddsUp == TypeOK => ReportAddsUp
  <1> SUFFICES ASSUME TypeOK PROVE ReportAddsUp
    OBVIOUS
  <1>1. DOMAIN Totals(Since, End) = {"accepted", "succeeded", "failed", "unknown",
                                     "running", "hits", "misses", "denied"}
    BY DEF Totals
  <1>2. ColumnAddsUp("accepted")
    <2>1. \A since, end : Totals(since, end)["accepted"]
              = Cardinality({o \in Between(since, end) : o \in Operations})
      <3>1. \A since, end :
              {o \in Between(since, end) : o \in Operations} = Between(since, end)
        BY DEF Between
      <3> QED BY <3>1 DEF Totals
    <2> QED BY <2>1, RowsAddUp
  <1>3. ASSUME NEW field, NEW values, NEW column,
               \A since, end : Totals(since, end)[column]
                 = Cardinality({o \in Between(since, end) : rows[o][field] \in values})
        PROVE  ColumnAddsUp(column)
    <2> DEFINE V == {o \in Operations : rows[o][field] \in values}
    <2>1. V \in SUBSET Operations
      OBVIOUS
    <2>2. \A since, end : {o \in Between(since, end) : rows[o][field] \in values}
                              = {o \in Between(since, end) : o \in V}
      BY DEF Between
    <2> HIDE DEF V
    <2>3. \A since, end : Totals(since, end)[column]
                              = Cardinality({o \in Between(since, end) : o \in V})
      BY <1>3, <2>2
    <2> QED BY <2>1, <2>3, RowsAddUp
  <1>4. ColumnAddsUp("succeeded")
    <2>1. \A since, end : Totals(since, end)["succeeded"] = Cardinality(
              {o \in Between(since, end) : rows[o]["status"] \in {"succeeded"}})
      BY DEF Totals
    <2> QED BY <1>3, <2>1
  <1>5. ColumnAddsUp("failed")
    <2>1. \A since, end : Totals(since, end)["failed"] = Cardinality(
              {o \in Between(since, end) : rows[o]["status"] \in {"failed"}})
      BY DEF Totals
    <2> QED BY <1>3, <2>1
  <1>6. ColumnAddsUp("unknown")
    <2>1. \A since, end : Totals(since, end)["unknown"] = Cardinality(
              {o \in Between(since, end) : rows[o]["status"] \in {"unknown"}})
      BY DEF Totals
    <2> QED BY <1>3, <2>1
  <1>7. ColumnAddsUp("running")
    <2>1. \A since, end : Totals(since, end)["running"] = Cardinality(
              {o \in Between(since, end) : rows[o]["status"] \in {"reserved", "running"}})
      BY DEF Totals
    <2> QED BY <1>3, <2>1
  <1>8. ColumnAddsUp("hits")
    <2>1. \A since, end : Totals(since, end)["hits"] = Cardinality(
              {o \in Between(since, end) : rows[o]["cache"] \in {"hit"}})
      BY DEF Totals
    <2> QED BY <1>3, <2>1
  <1>9. ColumnAddsUp("misses")
    <2>1. \A since, end : Totals(since, end)["misses"] = Cardinality(
              {o \in Between(since, end) : rows[o]["cache"] \in {"miss"}})
      BY DEF Totals
    <2> QED BY <1>3, <2>1
  <1>10. ColumnAddsUp("denied")
    BY DenialsAddUp
  <1>11. \A column \in DOMAIN Totals(Since, End) : ColumnAddsUp(column)
    BY <1>1, <1>2, <1>4, <1>5, <1>6, <1>7, <1>8, <1>9, <1>10
  <1> QED BY <1>11, OutcomesAddUp DEF ReportAddsUp

\* The columns of the timeline add up to the totals, and the outcomes to the
\* accepted operations, for any window, at its boundaries too (query_at).
THEOREM ReportAlwaysAddsUp == Spec => []ReportAddsUp
  BY TimelineAddsUp, AnalyticsTypeCorrect, PTL

-----------------------------------------------------------------------------
(* Activity reports *)

\* The steps other than a report leave the activity table alone.
LEMMA OthersKeepActivity ==
    ASSUME [Next]_vars,
           ~ \E r \in Reports, payload \in Payloads : RecordActivity(r, payload)
    PROVE  UNCHANGED <<activity, acked>>
  <1>1. ASSUME NEW o \in Operations, Reserve(o) \/ Launch(o) \/ Finish(o) \/ Prune(o)
        PROVE  UNCHANGED <<activity, acked>>
    BY <1>1 DEF Reserve, Launch, Finish, Prune, Persist
  <1> QED BY <1>1 DEF Next, Deny, Tick, vars

\* Every step keeps what an acknowledged report says: a report with an id on
\* record is accepted only if it is the one on record.
LEMMA ActivityStep ==
    TypeOK /\ AckedReportStands /\ [Next]_vars => AckedReportStands'
  <1> SUFFICES ASSUME TypeOK, AckedReportStands, [Next]_vars
               PROVE  AckedReportStands'
    OBVIOUS
  <1>1. CASE UNCHANGED <<activity, acked>>
    BY <1>1 DEF AckedReportStands
  <1>2. ASSUME NEW r \in Reports, NEW payload \in Payloads,
               RecordActivity(r, payload)
        PROVE  AckedReportStands'
    <2>1. ASSUME NEW q \in Reports, NEW b \in acked'[q]
          PROVE  activity'[q] = b
      <3>1. CASE q # r
        BY <1>2, <2>1, <3>1 DEF RecordActivity, TypeOK, AckedReportStands
      <3>2. CASE q = r
        <4>1. b \in acked[r] \/ b = payload
          BY <1>2, <2>1, <3>2 DEF RecordActivity, TypeOK
        <4>2. CASE activity[r] = None
          <5>1. acked[r] = {}
            BY <4>2, AnalyticsAssumption DEF TypeOK, AckedReportStands
          <5> QED BY <1>2, <3>2, <4>1, <4>2, <5>1 DEF RecordActivity, TypeOK
        <4>3. CASE activity[r] # None
          <5>1. activity[r] = payload /\ activity'[r] = activity[r]
            BY <1>2, <4>3 DEF RecordActivity, SamePayload, TypeOK
          <5> QED BY <3>2, <4>1, <5>1 DEF AckedReportStands
        <4> QED BY <4>2, <4>3
      <3> QED BY <3>1, <3>2
    <2> QED BY <2>1 DEF AckedReportStands
  <1> QED BY <1>1, <1>2, OthersKeepActivity

\* A report that was answered "recorded" is the one on record, for any number
\* of reports, repetitions, lost answers and restarts (record_activity).
THEOREM AcknowledgedReportStands == Spec => []AckedReportStands
  <1>1. Init => AckedReportStands
    BY DEF Init, AckedReportStands
  <1> QED BY <1>1, ActivityStep, AnalyticsTypeCorrect, PTL DEF Spec
=============================================================================
