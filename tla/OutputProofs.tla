---------------------------- MODULE OutputProofs ----------------------------
(***************************************************************************)
(* Theorems about the output of a command: its redaction (Redactor), for   *)
(* any secrets, any bytes and any reads, and its way to the client         *)
(* (Backpressure), for buffers of any size.                                *)
(*                                                                         *)
(* The scan and its reference are recursive functions on strings: the      *)
(* first part shows that such a recursion has a solution, the second that  *)
(* the two agree on whatever the scan does not hold back.                  *)
(***************************************************************************)
EXTENDS Redactor, Backpressure, SequenceTheorems, WellFoundedInduction, TLAPS

-----------------------------------------------------------------------------
(* Induction and recursion on the length of a string *)

\* A set of natural numbers has a least element.
LEMMA LeastOfNaturals ==
    ASSUME NEW N \in SUBSET Nat, N # {}
    PROVE  \E x \in N : \A y \in N : ~ (y < x)
  <1>1. \E x \in N : \A y \in N : ~ (<<y, x>> \in OpToRel(<, Nat))
    BY NatLessThanWellFounded, WFMin
  <1> QED BY <1>1, Zenon DEF OpToRel

\* A set that contains every string whose shorter strings it contains is the
\* set of all strings.
LEMMA LengthInduction ==
    ASSUME NEW B, NEW P,
           \A t \in Seq(B) : (\A u \in Seq(B) : Len(u) < Len(t) => u \in P) => t \in P
    PROVE  \A t \in Seq(B) : t \in P
  <1> DEFINE N == {n \in Nat : \E u \in Seq(B) : u \notin P /\ Len(u) = n}
  <1> SUFFICES ASSUME NEW w \in Seq(B), w \notin P PROVE FALSE
    OBVIOUS
  <1>1. N # {}
    BY LenProperties
  <1>2. PICK x \in N : \A y \in N : ~ (y < x)
    <2>1. N \in SUBSET Nat
      OBVIOUS
    <2> HIDE DEF N
    <2> QED BY <1>1, <2>1, LeastOfNaturals
  <1>3. PICK t \in Seq(B) : t \notin P /\ Len(t) = x
    BY <1>2
  <1>4. ASSUME NEW u \in Seq(B), Len(u) < Len(t) PROVE u \in P
    <2>1. Len(u) \in Nat /\ Len(u) \notin N
      BY <1>2, <1>3, <1>4, LenProperties
    <2> QED BY <2>1
  <1> QED BY <1>3, <1>4

\* Strings of at most n bytes.
Short(B, n) == {t \in Seq(B) : Len(t) <= n}

\* A recursion on strings: it stops, or goes on with a shorter string.
Recursion(B, V, Halt, base, next, H) ==
    /\ Halt \in SUBSET Seq(B) /\ base \in [Seq(B) -> V]
    /\ next \in [Seq(B) \ Halt -> Seq(B)]
    /\ \A t \in Seq(B) \ Halt : Len(next[t]) < Len(t)
    /\ H \in [Seq(B) \ Halt -> [V -> V]]

Solution(B, V, Halt, base, next, H) ==
    \E f \in [Seq(B) -> V] : \A t \in Seq(B) :
        f[t] = IF t \in Halt THEN base[t] ELSE H[t][f[next[t]]]

\* It has a solution: up to any length, by induction; solutions up to different
\* lengths agree; and the value at a string is that of the one up to its length.
LEMMA RecursionSolved ==
    ASSUME NEW B, NEW V, NEW Halt, NEW base, NEW next, NEW H,
           Recursion(B, V, Halt, base, next, H)
    PROVE  Solution(B, V, Halt, base, next, H)
  <1>r. /\ Halt \in SUBSET Seq(B) /\ base \in [Seq(B) -> V]
        /\ next \in [Seq(B) \ Halt -> Seq(B)]
        /\ \A t \in Seq(B) \ Halt : Len(next[t]) < Len(t)
        /\ H \in [Seq(B) \ Halt -> [V -> V]]
    BY DEF Recursion
  <1> USE <1>r
  <1> DEFINE Value(g, t) == IF t \in Halt THEN base[t] ELSE H[t][g[next[t]]]
             Solves(g, n) == g \in [Short(B, n) -> V]
                             /\ \A t \in Short(B, n) : g[t] = Value(g, t)
             N == {n \in Nat : \E g : Solves(g, n)}
  <1>1. 0 \in N
    <2> DEFINE g == [t \in Short(B, 0) |-> base[t]]
    <2>1. \A t \in Short(B, 0) : t \in Halt
      BY LenProperties DEF Short
    <2>2. Solves(g, 0)
      BY <2>1 DEF Short
    <2> QED BY <2>2
  <1>2. ASSUME NEW n \in Nat, n \in N PROVE n + 1 \in N
    <2>1. PICK g : Solves(g, n)
      BY <1>2
    <2> DEFINE h == [t \in Short(B, n + 1) |-> Value(g, t)]
    <2>2. Short(B, n) \in SUBSET Short(B, n + 1)
      BY LenProperties DEF Short
    <2>3. \A t \in Short(B, n + 1) \ Halt : next[t] \in Short(B, n)
      BY LenProperties DEF Short
    <2>4. \A t \in Short(B, n) : h[t] = g[t]
      BY <2>1, <2>2
    <2>5. \A t \in Short(B, n + 1) \ Halt : g[next[t]] \in V /\ h[next[t]] = g[next[t]]
      BY <2>1, <2>3, <2>4
    <2>6. \A t \in Short(B, n + 1) : h[t] = Value(h, t)
      BY <2>5
    <2>7. \A t \in Short(B, n + 1) : Value(g, t) \in V
      BY <2>5 DEF Short
    <2>8. Solves(h, n + 1)
      BY <2>6, <2>7
    <2> HIDE DEF Solves, h
    <2> QED BY <2>8
  <1>3. Nat \subseteq N
    <2> HIDE DEF N
    <2> SUFFICES ASSUME Nat \ N # {} PROVE FALSE
      OBVIOUS
    <2>1. PICK x \in Nat \ N : \A y \in Nat \ N : ~ (y < x)
      BY LeastOfNaturals
    <2>2. x # 0 /\ x - 1 \in Nat /\ x - 1 < x /\ (x - 1) + 1 = x
      BY <1>1, <2>1
    <2> QED BY <1>2, <2>1, <2>2
  <1> DEFINE F == [n \in Nat |-> CHOOSE g : Solves(g, n)]
  <1>4. \A n \in Nat : Solves(F[n], n)
    <2> HIDE DEF Solves
    <2> QED BY <1>3
  <1> HIDE DEF F, N
  <1> DEFINE Agree == {t \in Seq(B) : \A m, n \in Nat :
                           Len(t) <= m /\ Len(t) <= n => F[m][t] = F[n][t]}
  <1>5. \A t \in Seq(B) : t \in Agree
    <2>1. ASSUME NEW t \in Seq(B), \A u \in Seq(B) : Len(u) < Len(t) => u \in Agree
          PROVE  t \in Agree
      <3> SUFFICES ASSUME NEW m \in Nat, NEW n \in Nat, Len(t) <= m, Len(t) <= n
                   PROVE  F[m][t] = F[n][t]
        OBVIOUS
      <3>1. t \in Short(B, m) /\ t \in Short(B, n)
        BY DEF Short
      <3>2. F[m][t] = Value(F[m], t) /\ F[n][t] = Value(F[n], t)
        BY <1>4, <3>1
      <3>3. CASE t \in Halt
        BY <3>2, <3>3
      <3>4. CASE t \notin Halt
        <4>1. next[t] \in Seq(B) /\ Len(next[t]) < Len(t) /\ Len(next[t]) \in Nat
              /\ Len(t) \in Nat
          BY <3>4, LenProperties
        <4>2. Len(next[t]) <= m /\ Len(next[t]) <= n
          BY <4>1
        <4>3. F[m][next[t]] = F[n][next[t]]
          BY <2>1, <4>1, <4>2
        <4> QED BY <3>2, <3>4, <4>3
      <3> QED BY <3>3, <3>4
    <2> HIDE DEF Agree
    <2> QED BY <2>1, LengthInduction
  <1> DEFINE f == [t \in Seq(B) |-> F[Len(t)][t]]
  <1>6. ASSUME NEW t \in Seq(B) PROVE f[t] \in V /\ f[t] = Value(f, t)
    <2>1. Len(t) \in Nat /\ t \in Short(B, Len(t))
      BY LenProperties DEF Short
    <2>2. F[Len(t)][t] \in V /\ F[Len(t)][t] = Value(F[Len(t)], t)
      BY <1>4, <2>1
    <2>3. CASE t \in Halt
      BY <2>2, <2>3
    <2>4. CASE t \notin Halt
      <3>1. next[t] \in Seq(B) /\ Len(next[t]) \in Nat /\ Len(next[t]) <= Len(t)
        BY <2>4, LenProperties
      <3>2. F[Len(t)][next[t]] = F[Len(next[t])][next[t]]
        <4>1. next[t] \in Agree
          BY <1>5, <3>1
        <4> DEFINE j == Len(next[t])
                   k == Len(t)
        <4>2. j \in Nat /\ k \in Nat /\ j <= j /\ j <= k
          BY <2>1, <3>1
        <4>3. \A m, n \in Nat : j <= m /\ j <= n => F[m][next[t]] = F[n][next[t]]
          BY <4>1
        <4> HIDE DEF j, k, Agree
        <4>4. F[k][next[t]] = F[j][next[t]]
          BY <4>2, <4>3
        <4> QED BY <4>4 DEF j, k
      <3> QED BY <2>2, <2>4, <3>1, <3>2
    <2> QED BY <2>3, <2>4
  <1>7. f \in [Seq(B) -> V]
    BY <1>6
  <1> HIDE DEF f
  <1> QED BY <1>6, <1>7 DEF Solution

-----------------------------------------------------------------------------
(* Secrets at the beginning of a string *)

Output == Seq(Bytes \union {Mark})

\* A nonempty bounded set of natural numbers has a maximum.
LEMMA MaxIsMaximum ==
    ASSUME NEW S \in SUBSET Nat, S # {}, NEW n \in Nat, \A x \in S : x <= n
    PROVE  Max(S) \in S /\ \A y \in S : Max(S) >= y
  <1> DEFINE D == {d \in Nat : n - d \in S}
  <1>1. D # {}
    <2>1. PICK x \in S : TRUE
      OBVIOUS
    <2>2. n - x \in Nat /\ n - (n - x) = x
      BY <2>1
    <2> QED BY <2>1, <2>2
  <1>2. PICK d \in D : \A y \in D : ~ (y < d)
    <2>1. D \in SUBSET Nat
      OBVIOUS
    <2> HIDE DEF D
    <2> QED BY <1>1, <2>1, LeastOfNaturals
  <1>3. ASSUME NEW y \in S PROVE n - d >= y
    <2>1. n - y \in Nat /\ n - (n - y) = y
      OBVIOUS
    <2>2. n - y \in D
      BY <2>1
    <2> QED BY <1>2, <2>1, <2>2
  <1>4. n - d \in S
    BY <1>2
  <1>5. \E x \in S : \A y \in S : x >= y
    BY <1>3, <1>4
  <1> QED BY <1>5 DEF Max

\* The lengths the loop finds are those of the reference.
LEMMA MatchesAreStarting ==
    ASSUME NEW values \in SUBSET (Seq(Bytes) \ {<<>>}), NEW t \in Seq(Bytes)
    PROVE  Matches(values, t) = Starting(values, t)
  <1>1. ASSUME NEW s \in values, IsPrefix(s, t) PROVE Len(s) \in Starting(values, t)
    <2>1. Len(s) \in 1 .. Len(t) /\ SubSeq(s, 1, Len(s)) = SubSeq(t, 1, Len(s))
      BY <1>1, EmptySeq, LenProperties DEF IsPrefix
    <2>2. SubSeq(s, 1, Len(s)) = s
      BY SubSeqFull
    <2> QED BY <2>1, <2>2 DEF Starting
  <1>2. ASSUME NEW k \in Starting(values, t) PROVE k \in Matches(values, t)
    <2> DEFINE s == SubSeq(t, 1, k)
    <2>1. k \in 1 .. Len(t) /\ s \in values
      BY DEF Starting
    <2>2. Len(s) = k
      BY <2>1, LenProperties, SubSeqProperties
    <2>3. SubSeq(s, 1, k) = s
      <3> HIDE DEF s
      <3> QED BY <2>1, <2>2, SubSeqFull
    <2>4. IsPrefix(s, t) /\ s # <<>>
      <3>1. Len(s) <= Len(t)
        BY <2>1, <2>2, LenProperties
      <3> QED BY <2>1, <2>2, <2>3, <3>1 DEF IsPrefix
    <2> HIDE DEF s
    <2> QED BY <2>1, <2>2, <2>4 DEF Matches
  <1> QED BY <1>1, <1>2 DEF Matches

\* What follows cannot complete a secret the loop did not wait for.
LEMMA Decided ==
    ASSUME NEW values \in SUBSET (Seq(Bytes) \ {<<>>}),
           NEW t \in Seq(Bytes), t # <<>>, ~ Undecided(values, t),
           NEW r \in Seq(Bytes)
    PROVE  Starting(values, t \o r) = Starting(values, t)
  <1>1. /\ t \o r \in Seq(Bytes) /\ Len(t \o r) = Len(t) + Len(r)
        /\ Len(t) \in Nat \ {0} /\ Len(r) \in Nat
    BY ConcatProperties, EmptySeq, LenProperties
  <1>2. \A k \in 1 .. Len(t) : SubSeq(t \o r, 1, k) = SubSeq(t, 1, k)
    BY <1>1, SubSeqOfConcat1
  <1>3. ASSUME NEW k \in 1 .. Len(t \o r), SubSeq(t \o r, 1, k) \in values
        PROVE  k <= Len(t)
    <2> SUFFICES ASSUME k > Len(t) PROVE FALSE
      BY <1>1
    <2> DEFINE s == SubSeq(t \o r, 1, k)
    <2>1. Len(s) = k
      BY <1>1, SubSeqProperties, LenProperties
    <2>2. SubSeq(s, 1, Len(t)) = SubSeq(t \o r, 1, Len(t))
      <3>1. s \in Seq(Bytes)
        BY <1>3
      <3>2. /\ 1 \in 1 .. k /\ Len(t) \in 1 .. k - 1 + 1
            /\ 1 \in 1 .. Len(t \o r) /\ k \in 1 .. Len(t \o r)
            /\ 1 \in 1 .. k - 1 + 1
            /\ 1 + 1 - 1 = 1 /\ 1 + Len(t) - 1 = Len(t)
        BY <1>1
      <3>3. SubSeq(SubSeq(t \o r, 1, k), 1, Len(t)) = SubSeq(t \o r, 1 + 1 - 1, 1 + Len(t) - 1)
        BY <1>1, <3>1, <3>2, SubSeqOfSubSeq
      <3> QED BY <3>2, <3>3
    <2>3. SubSeq(t \o r, 1, Len(t)) = SubSeq(t, 1, Len(t))
      BY <1>1, <1>2
    <2>4. IsStrictPrefix(t, s)
      <3> HIDE DEF s
      <3>1. Len(t) <= Len(s) /\ Len(t) # Len(s)
        BY <1>1, <2>1
      <3> QED BY <2>2, <2>3, <3>1 DEF IsStrictPrefix, IsPrefix
    <2> QED BY <1>3, <2>4 DEF Undecided
  <1>4. ASSUME NEW k \in Int
        PROVE  k \in Starting(values, t \o r) <=> k \in Starting(values, t)
    <2>1. k \in 1 .. Len(t) => k \in 1 .. Len(t \o r)
      BY <1>1
    <2>2. k \in Starting(values, t \o r) => k \in 1 .. Len(t)
      BY <1>1, <1>3 DEF Starting
    <2> QED BY <1>2, <2>1, <2>2 DEF Starting
  <1>5. Starting(values, t \o r) \in SUBSET Int /\ Starting(values, t) \in SUBSET Int
    BY <1>1 DEF Starting
  <1> QED BY <1>4, <1>5

\* One turn takes at least one byte, and no more than there are.
LEMMA AdvanceBounds ==
    ASSUME NEW values \in SUBSET (Seq(Bytes) \ {<<>>}),
           NEW t \in Seq(Bytes), t # <<>>
    PROVE  /\ Advance(Starting(values, t)) \in 1 .. Len(t)
           /\ Written(Starting(values, t), t) \in Bytes \union {Mark}
           /\ After(Starting(values, t), t) \in Seq(Bytes)
           /\ Len(After(Starting(values, t), t)) < Len(t)
  <1> DEFINE found == Starting(values, t)
             n == Advance(found)
  <1>1. Len(t) \in Nat \ {0} /\ Head(t) \in Bytes
    BY EmptySeq, HeadTailProperties
  <1>2. found \in SUBSET (1 .. Len(t))
    BY DEF Starting
  <1>3. n \in 1 .. Len(t)
    <2>1. CASE found = {}
      BY <1>1, <2>1 DEF Advance
    <2>2. CASE found # {}
      <3> HIDE DEF found
      <3>1. found \in SUBSET Nat /\ \A x \in found : x <= Len(t)
        BY <1>2
      <3>2. Max(found) \in found
        BY <1>1, <2>2, <3>1, MaxIsMaximum
      <3> QED BY <1>2, <2>2, <3>2 DEF Advance, LongestMatch
    <2> QED BY <2>1, <2>2
  <1>4. Written(found, t) \in Bytes \union {Mark}
    BY <1>1 DEF Written
  <1>5. After(found, t) \in Seq(Bytes) /\ Len(After(found, t)) < Len(t)
    <2> HIDE DEF n
    <2>1. n + 1 \in Int /\ Len(t) \in Int /\ \A i \in n + 1 .. Len(t) : t[i] \in Bytes
      BY <1>1, <1>3, ElementOfSeq
    <2>2. /\ SubSeq(t, n + 1, Len(t)) \in Seq(Bytes)
          /\ Len(SubSeq(t, n + 1, Len(t)))
                 = IF n + 1 <= Len(t) THEN Len(t) - (n + 1) + 1 ELSE 0
      BY <2>1, SubSeqProperties
    <2> QED BY <1>1, <1>3, <2>2 DEF After, n
  <1> QED BY <1>3, <1>4, <1>5

\* A tail of a concatenation.
LEMMA TailOfConcat ==
    ASSUME NEW t \in Seq(Bytes), NEW r \in Seq(Bytes), NEW n \in 1 .. Len(t)
    PROVE  SubSeq(t \o r, n + 1, Len(t \o r)) = SubSeq(t, n + 1, Len(t)) \o r
  <1> DEFINE a == SubSeq(t \o r, n + 1, Len(t \o r))
             b == SubSeq(t, n + 1, Len(t))
  <1>1. /\ t \o r \in Seq(Bytes) /\ Len(t \o r) = Len(t) + Len(r)
        /\ Len(t) \in Nat /\ Len(r) \in Nat
        /\ \A i \in 1 .. Len(t) + Len(r) :
               (t \o r)[i] = IF i <= Len(t) THEN t[i] ELSE r[i - Len(t)]
    BY ConcatProperties, LenProperties
  <1>2. /\ a \in Seq(Bytes) /\ Len(a) = Len(t) + Len(r) - n
        /\ \A i \in 1 .. Len(a) : a[i] = (t \o r)[n + i]
    <2>1. \A i \in n + 1 .. Len(t \o r) : (t \o r)[i] \in Bytes
      BY <1>1, ElementOfSeq
    <2>2. n + 1 \in Int /\ Len(t \o r) \in Int
      BY <1>1
    <2>3. /\ a \in Seq(Bytes)
          /\ Len(a) = IF n + 1 <= Len(t \o r) THEN Len(t \o r) - (n + 1) + 1 ELSE 0
          /\ \A i \in 1 .. Len(t \o r) - (n + 1) + 1 : a[i] = (t \o r)[n + 1 + i - 1]
      BY <2>1, <2>2, SubSeqProperties
    <2> HIDE DEF a
    <2>4. Len(a) = Len(t) + Len(r) - n
      BY <1>1, <2>3
    <2>5. ASSUME NEW i \in 1 .. Len(a) PROVE a[i] = (t \o r)[n + i]
      <3>1. n + 1 + i - 1 = n + i /\ i \in 1 .. Len(t \o r) - (n + 1) + 1
        BY <1>1, <2>4
      <3> QED BY <2>3, <3>1
    <2> QED BY <2>3, <2>4, <2>5
  <1>3. /\ b \in Seq(Bytes) /\ Len(b) = Len(t) - n
        /\ \A i \in 1 .. Len(b) : b[i] = t[n + i]
    <2>1. \A i \in n + 1 .. Len(t) : t[i] \in Bytes
      BY <1>1, ElementOfSeq
    <2>2. n + 1 \in Int /\ Len(t) \in Int
      BY <1>1
    <2>3. /\ b \in Seq(Bytes)
          /\ Len(b) = IF n + 1 <= Len(t) THEN Len(t) - (n + 1) + 1 ELSE 0
          /\ \A i \in 1 .. Len(t) - (n + 1) + 1 : b[i] = t[n + 1 + i - 1]
      BY <2>1, <2>2, SubSeqProperties
    <2> HIDE DEF b
    <2>4. Len(b) = Len(t) - n
      BY <1>1, <2>3
    <2>5. ASSUME NEW i \in 1 .. Len(b) PROVE b[i] = t[n + i]
      <3>1. n + 1 + i - 1 = n + i /\ i \in 1 .. Len(t) - (n + 1) + 1
        BY <1>1, <2>4
      <3> QED BY <2>3, <3>1
    <2> QED BY <2>3, <2>4, <2>5
  <1> HIDE DEF a, b
  <1>4. /\ b \o r \in Seq(Bytes) /\ Len(b \o r) = Len(b) + Len(r)
        /\ \A i \in 1 .. Len(b) + Len(r) :
               (b \o r)[i] = IF i <= Len(b) THEN b[i] ELSE r[i - Len(b)]
    BY <1>3, ConcatProperties
  <1>5. Len(a) = Len(b \o r)
    BY <1>1, <1>2, <1>3, <1>4
  <1>6. ASSUME NEW i \in 1 .. Len(a) PROVE a[i] = (b \o r)[i]
    <2>1. i \in 1 .. Len(b) + Len(r) /\ n + i \in 1 .. Len(t) + Len(r)
      BY <1>1, <1>2, <1>3
    <2>2. a[i] = IF n + i <= Len(t) THEN t[n + i] ELSE r[n + i - Len(t)]
      BY <1>1, <1>2, <2>1
    <2>3. CASE i <= Len(b)
      <3>1. (b \o r)[i] = t[n + i]
        BY <1>3, <1>4, <2>1, <2>3
      <3>2. n + i <= Len(t)
        BY <1>1, <1>3, <2>3
      <3> QED BY <2>2, <3>1, <3>2
    <2>4. CASE ~ (i <= Len(b))
      <3>1. (b \o r)[i] = r[i - Len(b)]
        BY <1>4, <2>1, <2>4
      <3>2. ~ (n + i <= Len(t)) /\ n + i - Len(t) = i - Len(b)
        BY <1>1, <1>3, <2>4
      <3> QED BY <2>2, <3>1, <3>2
    <2> QED BY <2>3, <2>4
  <1>7. a = b \o r
    BY <1>2, <1>4, <1>5, <1>6, SeqEqual
  <1> QED BY <1>7 DEF a, b

-----------------------------------------------------------------------------
(* The two recursions *)

\* What the reference computes.
LEMMA RedactedIs ==
    ASSUME NEW values \in SUBSET (Seq(Bytes) \ {<<>>}), NEW text \in Seq(Bytes)
    PROVE  LET found == Starting(values, text) IN
           /\ Redacted(values, text) \in Output
           /\ text = <<>> => Redacted(values, text) = <<>>
           /\ text # <<>> =>
                Redacted(values, text)
                    = <<Written(found, text)>> \o Redacted(values, After(found, text))
  <1> DEFINE Body(g, t) ==
                IF t = <<>> THEN <<>>
                ELSE LET found == Starting(values, t)
                         size == IF found = {} THEN 1 ELSE Max(found)
                         token == IF found = {} THEN Head(t) ELSE Mark IN
                     <<token>> \o g[SubSeq(t, size + 1, Len(t))]
             Turn(g, t) ==
                IF t = <<>> THEN <<>>
                ELSE <<Written(Starting(values, t), t)>>
                         \o g[After(Starting(values, t), t)]
             Solves(g) == g = [t \in Seq(Bytes) |-> Body(g, t)]
             redacted == CHOOSE g : Solves(g)
  <1>1. \A t : Redacted(values, t) = redacted[t]
    BY DEF Redacted
  <1>2. \A g, t : Body(g, t) = Turn(g, t)
    BY DEF Written, After, Advance, LongestMatch
  <1> HIDE DEF Body
  <1>3. \E g : Solves(g)
    <2> DEFINE Halt == {<<>>}
               base == [t \in Seq(Bytes) |-> <<>>]
               next == [t \in Seq(Bytes) \ Halt |-> After(Starting(values, t), t)]
               H == [t \in Seq(Bytes) \ Halt |->
                        [v \in Output |-> <<Written(Starting(values, t), t)>> \o v]]
    <2>1. Halt \in SUBSET Seq(Bytes) /\ base \in [Seq(Bytes) -> Output]
      BY EmptySeq DEF Output
    <2>2. /\ next \in [Seq(Bytes) \ Halt -> Seq(Bytes)]
          /\ \A t \in Seq(Bytes) \ Halt : Len(next[t]) < Len(t)
      BY AdvanceBounds
    <2>3. H \in [Seq(Bytes) \ Halt -> [Output -> Output]]
      <3>1. ASSUME NEW t \in Seq(Bytes) \ Halt, NEW v \in Output
            PROVE  <<Written(Starting(values, t), t)>> \o v \in Output
        <4>1. Written(Starting(values, t), t) \in Bytes \union {Mark}
          BY AdvanceBounds
        <4>2. <<Written(Starting(values, t), t)>> \in Output
          BY <4>1 DEF Output
        <4> QED BY <4>2, ConcatProperties DEF Output
      <3> QED BY <3>1
    <2>4. PICK f \in [Seq(Bytes) -> Output] : \A t \in Seq(Bytes) :
               f[t] = IF t \in Halt THEN base[t] ELSE H[t][f[next[t]]]
      <3> HIDE DEF Halt, base, next, H
      <3>1. Recursion(Bytes, Output, Halt, base, next, H)
        BY <2>1, <2>2, <2>3 DEF Recursion
      <3>2. Solution(Bytes, Output, Halt, base, next, H)
        BY <3>1, RecursionSolved
      <3> QED BY <3>2 DEF Solution
    <2>5. ASSUME NEW t \in Seq(Bytes) PROVE f[t] = Turn(f, t)
      <3>1. CASE t = <<>>
        BY <2>4, <3>1
      <3>2. CASE t # <<>>
        <4>1. next[t] \in Seq(Bytes) /\ f[next[t]] \in Output
          BY <2>2, <2>4, <3>2
        <4>2. f[t] = H[t][f[next[t]]]
          BY <2>4, <3>2
        <4> QED BY <3>2, <4>1, <4>2
      <3> QED BY <3>1, <3>2
    <2>6. f = [t \in Seq(Bytes) |-> Body(f, t)]
      <3> HIDE DEF Turn
      <3> QED BY <1>2, <2>4, <2>5
    <2> QED BY <2>6
  <1>4. Solves(redacted)
    <2> HIDE DEF Solves
    <2> QED BY <1>3
  <1>5. ASSUME NEW t \in Seq(Bytes) PROVE redacted[t] = Turn(redacted, t)
    <2> HIDE DEF redacted, Turn
    <2> QED BY <1>2, <1>4
  <1> DEFINE P == {t \in Seq(Bytes) : redacted[t] \in Output}
  <1> HIDE DEF redacted
  <1>6. \A t \in Seq(Bytes) : t \in P
    <2>1. ASSUME NEW t \in Seq(Bytes), \A u \in Seq(Bytes) : Len(u) < Len(t) => u \in P
          PROVE  t \in P
      <3>1. CASE t = <<>>
        <4>1. redacted[t] = <<>>
          BY <1>5, <3>1
        <4> QED BY <4>1, EmptySeq DEF Output
      <3>2. CASE t # <<>>
        <4> DEFINE found == Starting(values, t)
        <4>1. redacted[t] = <<Written(found, t)>> \o redacted[After(found, t)]
          BY <1>5, <3>2
        <4>2. /\ Written(found, t) \in Bytes \union {Mark}
              /\ After(found, t) \in P
          BY <2>1, <3>2, AdvanceBounds
        <4>3. <<Written(found, t)>> \in Output /\ redacted[After(found, t)] \in Output
          BY <4>2 DEF Output
        <4> HIDE DEF found
        <4>4. redacted[t] \in Output
          BY <4>1, <4>3, ConcatProperties DEF Output
        <4> QED BY <4>4
      <3> QED BY <3>1, <3>2
    <2> HIDE DEF P
    <2> QED BY <2>1, LengthInduction
  <1>7. redacted[text] \in Output /\ redacted[text] = Turn(redacted, text)
    BY <1>5, <1>6
  <1> QED BY <1>1, <1>7

Scans == [out : Output, rest : Seq(Bytes)]

\* What the loop computes: nothing while it waits, and otherwise one turn and
\* what the loop does with what is left.
LEMMA ScanIs ==
    ASSUME NEW values \in SUBSET (Seq(Bytes) \ {<<>>}), NEW eof \in BOOLEAN,
           NEW text \in Seq(Bytes)
    PROVE  LET found == Matches(values, text)
               later == Scan(values, eof, After(found, text)) IN
           /\ Scan(values, eof, text) \in Scans
           /\ text = <<>> \/ (~eof /\ Undecided(values, text)) =>
                Scan(values, eof, text) = [out |-> <<>>, rest |-> text]
           /\ ~ (text = <<>> \/ (~eof /\ Undecided(values, text))) =>
                Scan(values, eof, text)
                    = [out |-> <<Written(found, text)>> \o later.out, rest |-> later.rest]
  <1> DEFINE Waits(t) == t = <<>> \/ (~eof /\ Undecided(values, t))
             Body(g, t) ==
                IF t = <<>> \/ (~eof /\ Undecided(values, t))
                THEN [out |-> <<>>, rest |-> t]
                ELSE LET found == Matches(values, t)
                         later == g[After(found, t)] IN
                     [out |-> <<Written(found, t)>> \o later.out, rest |-> later.rest]
             Solves(g) == g = [t \in Seq(Bytes) |-> Body(g, t)]
             scan == CHOOSE g : Solves(g)
  <1>1. \A t : Scan(values, eof, t) = scan[t]
    BY DEF Scan
  <1>2. ASSUME NEW t \in Seq(Bytes), ~ Waits(t)
        PROVE  /\ Written(Matches(values, t), t) \in Bytes \union {Mark}
               /\ After(Matches(values, t), t) \in Seq(Bytes)
               /\ Len(After(Matches(values, t), t)) < Len(t)
    <2>1. t # <<>> /\ Matches(values, t) = Starting(values, t)
      BY <1>2, MatchesAreStarting
    <2> QED BY <2>1, AdvanceBounds
  <1>3. ASSUME NEW t \in Seq(Bytes), ~ Waits(t), NEW v \in Scans
        PROVE  [out |-> <<Written(Matches(values, t), t)>> \o v.out, rest |-> v.rest]
                   \in Scans
    <2>1. v.out \in Output /\ v.rest \in Seq(Bytes)
      BY DEF Scans
    <2>2. <<Written(Matches(values, t), t)>> \in Output
      BY <1>2, <1>3 DEF Output
    <2>3. <<Written(Matches(values, t), t)>> \o v.out \in Output
      BY <2>1, <2>2, ConcatProperties DEF Output
    <2> QED BY <2>1, <2>3 DEF Scans
  <1>4. \A t \in Seq(Bytes) : [out |-> <<>>, rest |-> t] \in Scans
    BY EmptySeq DEF Scans, Output
  <1>5. \E g : Solves(g)
    <2> DEFINE Halt == {t \in Seq(Bytes) : Waits(t)}
               base == [t \in Seq(Bytes) |-> [out |-> <<>>, rest |-> t]]
               next == [t \in Seq(Bytes) \ Halt |-> After(Matches(values, t), t)]
               H == [t \in Seq(Bytes) \ Halt |-> [v \in Scans |->
                        [out |-> <<Written(Matches(values, t), t)>> \o v.out,
                         rest |-> v.rest]]]
    <2>1. Halt \in SUBSET Seq(Bytes) /\ base \in [Seq(Bytes) -> Scans]
      BY <1>4
    <2>2. /\ next \in [Seq(Bytes) \ Halt -> Seq(Bytes)]
          /\ \A t \in Seq(Bytes) \ Halt : Len(next[t]) < Len(t)
      <3> HIDE DEF Waits
      <3> QED BY <1>2
    <2>3. H \in [Seq(Bytes) \ Halt -> [Scans -> Scans]]
      <3> HIDE DEF Waits
      <3> QED BY <1>3
    <2>4. PICK f \in [Seq(Bytes) -> Scans] : \A t \in Seq(Bytes) :
               f[t] = IF t \in Halt THEN base[t] ELSE H[t][f[next[t]]]
      <3> HIDE DEF Halt, base, next, H
      <3>1. Recursion(Bytes, Scans, Halt, base, next, H)
        BY <2>1, <2>2, <2>3 DEF Recursion
      <3>2. Solution(Bytes, Scans, Halt, base, next, H)
        BY <3>1, RecursionSolved
      <3> QED BY <3>2 DEF Solution
    <2>5. ASSUME NEW t \in Seq(Bytes) PROVE f[t] = Body(f, t)
      <3>1. CASE Waits(t)
        BY <2>4, <3>1
      <3>2. CASE ~ Waits(t)
        <4>1. next[t] \in Seq(Bytes) /\ f[next[t]] \in Scans
          <5>1. t \in Seq(Bytes) \ Halt
            BY <3>2
          <5> HIDE DEF next
          <5> QED BY <2>2, <2>4, <5>1
        <4>2. f[t] = H[t][f[next[t]]]
          BY <2>4, <3>2
        <4>3. next[t] = After(Matches(values, t), t)
          BY <3>2
        <4>4. H[t][f[next[t]]]
                = [out |-> <<Written(Matches(values, t), t)>> \o f[next[t]].out,
                   rest |-> f[next[t]].rest]
          <5> HIDE DEF next
          <5> QED BY <3>2, <4>1
        <4> HIDE DEF next, H
        <4> QED BY <3>2, <4>2, <4>3, <4>4
      <3> QED BY <3>1, <3>2
    <2>6. f = [t \in Seq(Bytes) |-> Body(f, t)]
      <3> HIDE DEF Body
      <3> QED BY <2>4, <2>5
    <2> QED BY <2>6
  <1>6. Solves(scan)
    <2> HIDE DEF Solves
    <2> QED BY <1>5
  <1>7. ASSUME NEW t \in Seq(Bytes) PROVE scan[t] = Body(scan, t)
    <2> HIDE DEF scan, Body
    <2> QED BY <1>6
  <1> DEFINE P == {t \in Seq(Bytes) : scan[t] \in Scans}
  <1> HIDE DEF scan
  <1>8. \A t \in Seq(Bytes) : t \in P
    <2>1. ASSUME NEW t \in Seq(Bytes), \A u \in Seq(Bytes) : Len(u) < Len(t) => u \in P
          PROVE  t \in P
      <3>1. CASE Waits(t)
        <4>1. scan[t] = [out |-> <<>>, rest |-> t]
          BY <1>7, <3>1
        <4> QED BY <1>4, <4>1
      <3>2. CASE ~ Waits(t)
        <4> DEFINE later == scan[After(Matches(values, t), t)]
        <4>1. scan[t] = [out |-> <<Written(Matches(values, t), t)>> \o later.out,
                         rest |-> later.rest]
          BY <1>7, <3>2
        <4>2. later \in Scans
          <5> HIDE DEF Waits
          <5> QED BY <1>2, <2>1, <3>2
        <4> HIDE DEF later, Waits
        <4> QED BY <1>3, <3>2, <4>1, <4>2
      <3> QED BY <3>1, <3>2
    <2> HIDE DEF P
    <2> QED BY <2>1, LengthInduction
  <1>9. scan[text] \in Scans /\ scan[text] = Body(scan, text)
    <2> HIDE DEF Body
    <2> QED BY <1>7, <1>8
  <1> QED BY <1>1, <1>9


-----------------------------------------------------------------------------
(* The loop and the reference *)

\* Frames may be joined in any order.
LEMMA OutputAssociative ==
    ASSUME NEW a \in Output, NEW b \in Output, NEW c \in Output
    PROVE  a \o (b \o c) = (a \o b) \o c
  BY ConcatAssociative DEF Output

\* The reference takes the turn the loop takes, whatever follows.
LEMMA TurnOfReference ==
    ASSUME NEW values \in SUBSET (Seq(Bytes) \ {<<>>}),
           NEW t \in Seq(Bytes), t # <<>>, NEW r \in Seq(Bytes),
           ~ Undecided(values, t) \/ r = <<>>
    PROVE  LET found == Matches(values, t) IN
           Redacted(values, t \o r)
               = <<Written(found, t)>> \o Redacted(values, After(found, t) \o r)
  <1> DEFINE found == Starting(values, t)
  <1>1. /\ t \o r \in Seq(Bytes) /\ Len(t \o r) = Len(t) + Len(r)
        /\ Len(t) \in Nat \ {0} /\ Len(r) \in Nat
        /\ (t \o r)[1] = t[1]
    BY ConcatProperties, EmptySeq, LenProperties
  <1>2. t \o r # <<>>
    BY <1>1, EmptySeq
  <1>3. Starting(values, t \o r) = found
    <2>1. CASE ~ Undecided(values, t)
      BY <2>1, Decided
    <2>2. CASE r = <<>>
      BY <2>2, ConcatEmptySeq
    <2> QED BY <2>1, <2>2
  <1>4. Matches(values, t) = found
    BY MatchesAreStarting
  <1> HIDE DEF found
  <1>5. Head(t \o r) = Head(t)
    BY <1>1
  <1>6. Written(found, t \o r) = Written(found, t)
    BY <1>5 DEF Written
  <1>7. After(found, t \o r) = After(found, t) \o r
    <2>1. Advance(found) \in 1 .. Len(t)
      BY AdvanceBounds DEF found
    <2> QED BY <2>1, TailOfConcat DEF After
  <1>8. Redacted(values, t \o r)
            = <<Written(found, t \o r)>> \o Redacted(values, After(found, t \o r))
    BY <1>1, <1>2, <1>3, RedactedIs
  <1> QED BY <1>4, <1>6, <1>7, <1>8

\* The loop looks at t: what it writes, and the redaction of what it leaves with
\* whatever follows, are the redaction of t with what follows. At the end of file
\* nothing follows and nothing is left; before, only what may become a secret.
ScansRight(values, eof, t) ==
    LET scanned == Scan(values, eof, t) IN
    /\ \A r \in Seq(Bytes) : (eof => r = <<>>) =>
           Redacted(values, t \o r) = scanned.out \o Redacted(values, scanned.rest \o r)
    /\ eof => scanned.rest = <<>>
    /\ ~eof => scanned.rest = <<>> \/ Undecided(values, scanned.rest)

\* The loop looks right at every string.
LEMMA ScanIsRight ==
    ASSUME NEW values \in SUBSET (Seq(Bytes) \ {<<>>}), NEW eof \in BOOLEAN,
           NEW text \in Seq(Bytes)
    PROVE  ScansRight(values, eof, text)
  <1> DEFINE P == {t \in Seq(Bytes) : ScansRight(values, eof, t)}
  <1>1. ASSUME NEW t \in Seq(Bytes), \A u \in Seq(Bytes) : Len(u) < Len(t) => u \in P
        PROVE  ScansRight(values, eof, t)
    <2> DEFINE Waits == t = <<>> \/ (~eof /\ Undecided(values, t))
               found == Matches(values, t)
               later == Scan(values, eof, After(found, t))
               scanned == Scan(values, eof, t)
    <2>1. CASE Waits
      <3>1. scanned = [out |-> <<>>, rest |-> t]
        BY <2>1, ScanIs
      <3>2. ASSUME NEW r \in Seq(Bytes)
            PROVE  Redacted(values, t \o r) = <<>> \o Redacted(values, t \o r)
        <4>1. t \o r \in Seq(Bytes)
          BY ConcatProperties
        <4>2. Redacted(values, t \o r) \in Output
          BY <4>1, RedactedIs
        <4> QED BY <4>2, ConcatEmptySeq DEF Output
      <3>3. eof => t = <<>>
        BY <2>1
      <3>4. ~eof => t = <<>> \/ Undecided(values, t)
        BY <2>1
      <3>5. scanned.out = <<>> /\ scanned.rest = t
        BY <3>1
      <3> HIDE DEF Waits, scanned
      <3>6. /\ \A r \in Seq(Bytes) : (eof => r = <<>>) =>
                   Redacted(values, t \o r)
                       = scanned.out \o Redacted(values, scanned.rest \o r)
            /\ eof => scanned.rest = <<>>
            /\ ~eof => scanned.rest = <<>> \/ Undecided(values, scanned.rest)
        BY <3>2, <3>3, <3>4, <3>5
      <3> QED BY <3>6 DEF ScansRight, scanned
    <2>2. CASE ~ Waits
      <3>1. scanned = [out |-> <<Written(found, t)>> \o later.out, rest |-> later.rest]
        BY <2>2, ScanIs
      <3>2. t # <<>> /\ found = Starting(values, t)
        BY <2>2, MatchesAreStarting
      <3>3. /\ After(found, t) \in Seq(Bytes) /\ Len(After(found, t)) < Len(t)
            /\ <<Written(found, t)>> \in Output
        BY <3>2, AdvanceBounds DEF Output
      <3>4. ScansRight(values, eof, After(found, t))
        BY <1>1, <3>3
      <3>5. later \in Scans
        BY <3>3, ScanIs
      <3>6. later.out \in Output /\ later.rest \in Seq(Bytes)
        BY <3>5 DEF Scans
      <3>7. ASSUME NEW r \in Seq(Bytes), eof => r = <<>>
            PROVE  Redacted(values, t \o r)
                       = (<<Written(found, t)>> \o later.out)
                             \o Redacted(values, later.rest \o r)
        <4>1. ~ Undecided(values, t) \/ r = <<>>
          BY <2>2, <3>7
        <4>2. Redacted(values, t \o r)
                  = <<Written(found, t)>> \o Redacted(values, After(found, t) \o r)
          BY <3>2, <4>1, TurnOfReference
        <4>3. Redacted(values, After(found, t) \o r)
                  = later.out \o Redacted(values, later.rest \o r)
          BY <3>4, <3>7 DEF ScansRight
        <4>4. later.rest \o r \in Seq(Bytes)
          BY <3>6, ConcatProperties
        <4>5. Redacted(values, later.rest \o r) \in Output
          BY <4>4, RedactedIs
        <4> HIDE DEF later, found
        <4>6. <<Written(found, t)>> \o (later.out \o Redacted(values, later.rest \o r))
                  = (<<Written(found, t)>> \o later.out)
                        \o Redacted(values, later.rest \o r)
          BY <3>3, <3>6, <4>5, OutputAssociative
        <4> QED BY <4>2, <4>3, <4>6
      <3>8. /\ eof => later.rest = <<>>
            /\ ~eof => later.rest = <<>> \/ Undecided(values, later.rest)
        BY <3>4 DEF ScansRight
      <3> HIDE DEF later, found, Waits
      <3>9. scanned.out = <<Written(found, t)>> \o later.out /\ scanned.rest = later.rest
        BY <3>1
      <3> HIDE DEF scanned
      <3>10. /\ \A r \in Seq(Bytes) : (eof => r = <<>>) =>
                    Redacted(values, t \o r)
                        = scanned.out \o Redacted(values, scanned.rest \o r)
             /\ eof => scanned.rest = <<>>
             /\ ~eof => scanned.rest = <<>> \/ Undecided(values, scanned.rest)
        BY <3>7, <3>8, <3>9
      <3> QED BY <3>10 DEF ScansRight, scanned
    <2> QED BY <2>1, <2>2
  <1>2. \A t \in Seq(Bytes) : t \in P
    <2>1. ASSUME NEW t \in Seq(Bytes), \A u \in Seq(Bytes) : Len(u) < Len(t) => u \in P
          PROVE  t \in P
      BY <1>1, <2>1
    <2> HIDE DEF P
    <2> QED BY <2>1, LengthInduction
  <1> QED BY <1>2

\* Without secrets the reference changes nothing.
LEMMA NothingToRedact ==
    ASSUME NEW text \in Seq(Bytes), NEW r \in Seq(Bytes)
    PROVE  Redacted({}, text \o r) = text \o Redacted({}, r)
  <1> DEFINE P == {t \in Seq(Bytes) : Redacted({}, t \o r) = t \o Redacted({}, r)}
  <1>0. {} \in SUBSET (Seq(Bytes) \ {<<>>})
    OBVIOUS
  <1>1. Redacted({}, r) \in Output
    BY <1>0, RedactedIs
  <1>2. ASSUME NEW t \in Seq(Bytes), \A u \in Seq(Bytes) : Len(u) < Len(t) => u \in P
        PROVE  t \in P
    <2>1. CASE t = <<>>
      <3>1. t \o r = r /\ t \o Redacted({}, r) = Redacted({}, r)
        BY <1>1, <2>1, ConcatEmptySeq DEF Output
      <3> QED BY <3>1
    <2>2. CASE t # <<>>
      <3>1. Matches({}, t) = {} /\ ~ Undecided({}, t)
        BY DEF Matches, Undecided
      <3>2. Written({}, t) = Head(t) /\ After({}, t) = Tail(t)
        BY <2>2, TailIsSubSeq DEF Written, After, Advance
      <3>3. Redacted({}, t \o r) = <<Head(t)>> \o Redacted({}, Tail(t) \o r)
        <4> DEFINE found == Matches({}, t)
        <4>1. Redacted({}, t \o r)
                  = <<Written(found, t)>> \o Redacted({}, After(found, t) \o r)
          BY <1>0, <2>2, <3>1, TurnOfReference
        <4>2. Written(found, t) = Head(t) /\ After(found, t) = Tail(t)
          BY <3>1, <3>2
        <4> HIDE DEF found
        <4> QED BY <4>1, <4>2
      <3>4. /\ Tail(t) \in Seq(Bytes) /\ Len(Tail(t)) < Len(t) /\ Head(t) \in Bytes
            /\ t = <<Head(t)>> \o Tail(t)
        <4>1. Len(t) \in Nat \ {0}
          BY <2>2, EmptySeq
        <4>2. /\ Tail(t) \in Seq(Bytes) /\ Len(Tail(t)) = Len(t) - 1 /\ Head(t) \in Bytes
          BY <2>2, HeadTailProperties
        <4>3. SubSeq(t, 1, Len(t)) = t
          BY SubSeqFull
        <4>4. SubSeq(t, 1, Len(t)) = <<t[1]>> \o SubSeq(t, 2, Len(t))
          BY <4>1, SubSeqRecursiveFirst
        <4>5. Head(t) = t[1] /\ Tail(t) = SubSeq(t, 2, Len(t))
          BY <2>2, TailIsSubSeq
        <4> QED BY <4>1, <4>2, <4>3, <4>4, <4>5
      <3>5. Redacted({}, Tail(t) \o r) = Tail(t) \o Redacted({}, r)
        BY <1>2, <3>4
      <3>6. /\ <<Head(t)>> \in Output /\ Tail(t) \in Output
        BY <3>4, SeqMonotonic DEF Output
      <3>7. <<Head(t)>> \o (Tail(t) \o Redacted({}, r))
                = (<<Head(t)>> \o Tail(t)) \o Redacted({}, r)
        BY <1>1, <3>6, OutputAssociative
      <3> QED BY <3>3, <3>4, <3>5, <3>7
    <2> QED BY <2>1, <2>2
  <1>3. \A t \in Seq(Bytes) : t \in P
    <2> HIDE DEF P
    <2> QED BY <1>2, LengthInduction
  <1> QED BY <1>3

-----------------------------------------------------------------------------
(* Safety *)

\* The bounded strings are the strings that short.
LEMMA StringsAreShort ==
    ASSUME NEW n \in Nat
    PROVE  Strings(n) = Short(Bytes, n)
  <1>1. ASSUME NEW t \in Strings(n) PROVE t \in Short(Bytes, n)
    <2>1. PICK k \in 0 .. n : t \in [1 .. k -> Bytes]
      BY DEF Strings
    <2>2. t \in Seq(Bytes) /\ Len(t) = k
      BY <2>1
    <2> QED BY <2>2 DEF Short
  <1>2. ASSUME NEW t \in Short(Bytes, n) PROVE t \in Strings(n)
    <2>1. t \in Seq(Bytes) /\ Len(t) \in 0 .. n
      BY LenProperties DEF Short
    <2>2. t \in [1 .. Len(t) -> Bytes]
      BY <2>1, LenProperties
    <2> QED BY <2>1, <2>2 DEF Strings
  <1> QED BY <1>1, <1>2

\* A strict prefix is shorter.
LEMMA StrictlyShorter ==
    ASSUME NEW s \in Seq(Bytes), NEW t \in Seq(Bytes), IsStrictPrefix(t, s)
    PROVE  Len(t) < Len(s)
  <1>1. IsPrefix(t, s) /\ t # s
    BY DEF IsStrictPrefix
  <1>2. Len(t) <= Len(s) /\ SubSeq(s, 1, Len(t)) = SubSeq(t, 1, Len(t))
    BY <1>1 DEF IsPrefix
  <1>3. SubSeq(s, 1, Len(s)) = s /\ SubSeq(t, 1, Len(t)) = t
    BY SubSeqFull
  <1>4. Len(t) # Len(s)
    BY <1>1, <1>2, <1>3
  <1> QED BY <1>2, <1>4, LenProperties

\* Reads may be joined in any order.
LEMMA InputAssociative ==
    ASSUME NEW a \in Seq(Bytes), NEW b \in Seq(Bytes), NEW c \in Seq(Bytes)
    PROVE  (a \o b) \o c = a \o (b \o c)
  BY ConcatAssociative

\* What is written is output.
LEMMA Joined ==
    ASSUME NEW a \in Output, NEW b \in Output
    PROVE  a \o b \in Output
  BY ConcatProperties DEF Output

\* The profile's secrets are non-empty strings; they never change.
SecretsInv == <<>> \notin secrets

RedactorInv == StreamTypeOK /\ SecretsInv /\ PendingInv

\* What the types say of the strings at hand.
LEMMA Typing ==
    ASSUME StreamTypeOK, SecretsInv
    PROVE  /\ secrets \in SUBSET (Seq(Bytes) \ {<<>>})
           /\ pending \in Seq(Bytes) /\ sent \in Output
           /\ stream \in Seq(Bytes) /\ Len(stream) \in Nat /\ Len(stream) <= MaxInput
           /\ MaxInput - Len(stream) \in Nat
  <1>1. Strings(MaxSecret) = Short(Bytes, MaxSecret)
        /\ Strings(MaxSecret - 1) = Short(Bytes, MaxSecret - 1)
        /\ Strings(MaxInput) = Short(Bytes, MaxInput)
    BY RedactorAssumption, StringsAreShort
  <1>2. secrets \in SUBSET (Seq(Bytes) \ {<<>>})
    BY <1>1 DEF StreamTypeOK, SecretsInv, Short
  <1>3. stream \in Seq(Bytes) /\ Len(stream) <= MaxInput /\ Len(stream) \in Nat
    BY <1>1, LenProperties DEF StreamTypeOK, Short
  <1>4. MaxInput - Len(stream) \in Nat
    BY <1>3, RedactorAssumption
  <1>5. pending \in Seq(Bytes) /\ sent \in Output
    BY <1>1 DEF StreamTypeOK, Short, Output
  <1> QED BY <1>2, <1>3, <1>4, <1>5

\* One push: of a chunk that fits, or of the end of file.
LEMMA PushKeeps ==
    ASSUME RedactorInv, NEW chunk \in Seq(Bytes), NEW eof \in BOOLEAN,
           Len(stream) + Len(chunk) <= MaxInput, eof => chunk = <<>>,
           Push(chunk, eof)
    PROVE  RedactorInv'
  <1> DEFINE held == pending \o chunk
             scanned == Scan(secrets, eof, held)
  <1>1. StreamTypeOK /\ SecretsInv /\ PendingInv
    BY DEF RedactorInv
  <1>2. /\ secrets \in SUBSET (Seq(Bytes) \ {<<>>})
        /\ pending \in Seq(Bytes) /\ sent \in Output
        /\ stream \in Seq(Bytes) /\ Len(stream) \in Nat /\ MaxInput - Len(stream) \in Nat
    BY <1>1, Typing
  <1>3. /\ held \in Seq(Bytes) /\ Len(chunk) \in Nat
        /\ stream \o chunk \in Seq(Bytes)
        /\ Len(stream \o chunk) = Len(stream) + Len(chunk)
    BY <1>2, ConcatProperties, LenProperties
  <1>4. /\ ~ended /\ ended' = eof /\ stream' = stream \o chunk /\ secrets' = secrets
        /\ secrets = {} => sent' = sent \o chunk /\ pending' = pending
        /\ secrets # {} => sent' = sent \o scanned.out /\ pending' = scanned.rest
    BY DEF Push
  <1>5. scanned \in Scans /\ ScansRight(secrets, eof, held)
    BY <1>2, <1>3, ScanIs, ScanIsRight
  <1>6. scanned.out \in Output /\ scanned.rest \in Seq(Bytes)
    BY <1>5 DEF Scans
  <1>7. /\ \A r \in Seq(Bytes) : (eof => r = <<>>) =>
               Redacted(secrets, held \o r)
                   = scanned.out \o Redacted(secrets, scanned.rest \o r)
        /\ eof => scanned.rest = <<>>
        /\ ~eof => scanned.rest = <<>> \/ Undecided(secrets, scanned.rest)
    BY <1>5 DEF ScansRight
  <1>8. secrets = {} => pending = <<>>
    BY <1>1 DEF PendingInv
  <1> HIDE DEF scanned
  <1>9. ASSUME NEW r \in Seq(Bytes), Len(chunk) + Len(r) <= MaxInput - Len(stream)
        PROVE  Redacted(secrets, stream \o (chunk \o r))
                   = sent \o Redacted(secrets, pending \o (chunk \o r))
    <2>1. chunk \o r \in Seq(Bytes) /\ Len(chunk \o r) <= MaxInput - Len(stream)
      BY <1>9, ConcatProperties
    <2>2. chunk \o r \in Strings(MaxInput - Len(stream))
      BY <1>2, <2>1, StringsAreShort DEF Short
    <2> QED BY <1>1, <1>4, <2>2 DEF PendingInv
  <1>10. ASSUME NEW r \in Seq(Bytes), Len(chunk) + Len(r) <= MaxInput - Len(stream),
                eof => r = <<>>
         PROVE  Redacted(secrets, (stream \o chunk) \o r)
                    = sent' \o Redacted(secrets, pending' \o r)
    <2>1. (stream \o chunk) \o r = stream \o (chunk \o r)
      BY <1>2, InputAssociative
    <2>2. (pending \o chunk) \o r = pending \o (chunk \o r)
      BY <1>2, InputAssociative
    <2>3. Redacted(secrets, (stream \o chunk) \o r) = sent \o Redacted(secrets, held \o r)
      BY <1>9, <1>10, <2>1, <2>2
    <2>4. CASE secrets # {}
      <3>1. Redacted(secrets, held \o r)
                = scanned.out \o Redacted(secrets, scanned.rest \o r)
        BY <1>7, <1>10
      <3>2. scanned.rest \o r \in Seq(Bytes)
        BY <1>6, ConcatProperties
      <3>3. Redacted(secrets, scanned.rest \o r) \in Output
        BY <1>2, <3>2, RedactedIs
      <3>4. sent \o (scanned.out \o Redacted(secrets, scanned.rest \o r))
                = (sent \o scanned.out) \o Redacted(secrets, scanned.rest \o r)
        BY <1>2, <1>6, <3>3, OutputAssociative
      <3> HIDE DEF held
      <3> QED BY <1>4, <2>3, <2>4, <3>1, <3>4
    <2>5. CASE secrets = {}
      <3>1. held = chunk /\ pending' \o r = r
        BY <1>4, <1>8, <2>5, ConcatEmptySeq
      <3>2. Redacted(secrets, chunk \o r) = chunk \o Redacted(secrets, r)
        BY <2>5, NothingToRedact
      <3>3. Redacted(secrets, r) \in Output /\ chunk \in Output
        BY <1>2, RedactedIs, SeqMonotonic DEF Output
      <3>4. sent \o (chunk \o Redacted(secrets, r))
                = (sent \o chunk) \o Redacted(secrets, r)
        BY <1>2, <3>3, OutputAssociative
      <3> HIDE DEF held
      <3> QED BY <1>4, <2>3, <2>5, <3>1, <3>2, <3>4
    <2> QED BY <2>4, <2>5
  <1>11. StreamTypeOK'
    <2>1. secrets' \subseteq Strings(MaxSecret)
      BY <1>1, <1>4 DEF StreamTypeOK
    <2>2. pending' \in Strings(MaxSecret - 1)
      <3>1. CASE secrets = {}
        BY <1>1, <1>4, <3>1 DEF StreamTypeOK
      <3>2. CASE secrets # {} /\ scanned.rest = <<>>
        <4>1. <<>> \in Short(Bytes, MaxSecret - 1) /\ MaxSecret - 1 \in Nat
          BY EmptySeq, RedactorAssumption DEF Short
        <4>2. <<>> \in Strings(MaxSecret - 1)
          BY <4>1, StringsAreShort
        <4> QED BY <1>4, <3>2, <4>2
      <3>3. CASE secrets # {} /\ scanned.rest # <<>>
        <4>1. Undecided(secrets, scanned.rest)
          BY <1>7, <3>3
        <4>2. PICK s \in secrets : IsStrictPrefix(scanned.rest, s)
          BY <4>1 DEF Undecided
        <4>3. s \in Seq(Bytes) /\ Len(s) <= MaxSecret
          BY <1>1, RedactorAssumption, StringsAreShort DEF StreamTypeOK, Short
        <4>4. Len(scanned.rest) < Len(s)
          BY <1>6, <4>2, <4>3, StrictlyShorter
        <4>5. Len(scanned.rest) <= MaxSecret - 1
          BY <1>6, <4>3, <4>4, LenProperties, RedactorAssumption
        <4>6. scanned.rest \in Strings(MaxSecret - 1)
          BY <1>6, <4>5, StringsAreShort, RedactorAssumption DEF Short
        <4> QED BY <1>4, <3>3, <4>6
      <3> QED BY <3>1, <3>2, <3>3
    <2>3. sent' \in Seq(Bytes \union {Mark})
      <3>1. chunk \in Output
        BY SeqMonotonic DEF Output
      <3>2. sent' \in Output
        BY <1>2, <1>4, <1>6, <3>1, Joined
      <3> QED BY <3>2 DEF Output
    <2>4. ended' \in BOOLEAN
      BY <1>4
    <2>5. stream' \in Strings(MaxInput)
      BY <1>3, <1>4, StringsAreShort, RedactorAssumption DEF Short
    <2> QED BY <2>1, <2>2, <2>3, <2>4, <2>5 DEF StreamTypeOK
  <1>12. SecretsInv'
    BY <1>1, <1>4 DEF SecretsInv
  <1>13. secrets' = {} => pending' = <<>>
    BY <1>4, <1>8
  <1>14. CASE eof
    <2>1. Redacted(secrets, (stream \o chunk) \o <<>>)
              = sent' \o Redacted(secrets, pending' \o <<>>)
      <3>1. <<>> \in Seq(Bytes) /\ Len(<<>>) = 0 /\ chunk = <<>>
        BY <1>14, EmptySeq
      <3>2. Len(chunk) + Len(<<>>) <= MaxInput - Len(stream)
        BY <1>2, <3>1
      <3> QED BY <1>10, <3>1, <3>2
    <2>2. pending' = <<>>
      BY <1>4, <1>7, <1>8, <1>14
    <2>3. /\ (stream \o chunk) \o <<>> = stream \o chunk
          /\ <<>> \o <<>> = <<>> /\ <<>> \in Seq(Bytes)
      BY <1>3, EmptySeq, ConcatEmptySeq
    <2>4. Redacted(secrets, <<>>) = <<>>
      BY <1>2, EmptySeq, RedactedIs
    <2>5. sent' \o <<>> = sent'
      <3>1. sent' \in Seq(Bytes \union {Mark})
        BY <1>11 DEF StreamTypeOK
      <3> QED BY <3>1, ConcatEmptySeq
    <2>6. sent' = Redacted(secrets, stream \o chunk)
      BY <2>1, <2>2, <2>3, <2>4, <2>5
    <2>7. PendingInv'
      BY <1>4, <1>13, <1>14, <2>6 DEF PendingInv
    <2> QED BY <1>11, <1>12, <2>7 DEF RedactorInv
  <1>15. CASE ~eof
    <2>1. ASSUME NEW r \in Strings(MaxInput - Len(stream'))
          PROVE  Redacted(secrets, (stream \o chunk) \o r)
                     = sent' \o Redacted(secrets, pending' \o r)
      <3>1. MaxInput - Len(stream') = MaxInput - Len(stream) - Len(chunk)
            /\ MaxInput - Len(stream') \in Nat
        BY <1>2, <1>3, <1>4, RedactorAssumption
      <3>2. r \in Seq(Bytes) /\ Len(r) <= MaxInput - Len(stream')
        BY <3>1, StringsAreShort DEF Short
      <3>3. Len(chunk) + Len(r) <= MaxInput - Len(stream)
        BY <1>2, <1>3, <3>1, <3>2, LenProperties, RedactorAssumption
      <3> QED BY <1>10, <1>15, <3>2, <3>3
    <2>2. PendingInv'
      BY <1>4, <1>13, <1>15, <2>1 DEF PendingInv
    <2> QED BY <1>11, <1>12, <2>2 DEF RedactorInv
  <1> QED BY <1>14, <1>15

\* The invariant holds at the start.
LEMMA StartHolds == StreamInit => RedactorInv
  <1> SUFFICES ASSUME StreamInit PROVE RedactorInv
    OBVIOUS
  <1>1. /\ secrets \subseteq Strings(MaxSecret) /\ <<>> \notin secrets
        /\ pending = <<>> /\ sent = <<>> /\ ended = FALSE /\ stream = <<>>
    BY DEF StreamInit
  <1>2. /\ <<>> \in Strings(MaxSecret - 1) /\ <<>> \in Strings(MaxInput)
        /\ <<>> \in Output
    <2>1. <<>> \in Seq(Bytes) /\ Len(<<>>) = 0 /\ <<>> \in Output
      BY EmptySeq DEF Output
    <2>2. MaxSecret - 1 \in Nat /\ MaxInput \in Nat
      BY RedactorAssumption
    <2>3. <<>> \in Short(Bytes, MaxSecret - 1) /\ <<>> \in Short(Bytes, MaxInput)
      BY <2>1, <2>2 DEF Short
    <2>4. <<>> \in Strings(MaxSecret - 1)
      BY <2>2, <2>3, StringsAreShort
    <2>5. <<>> \in Strings(MaxInput)
      BY <2>2, <2>3, StringsAreShort
    <2> QED BY <2>1, <2>4, <2>5
  <1>3. StreamTypeOK
    BY <1>1, <1>2 DEF StreamTypeOK, Output
  <1>4. SecretsInv
    BY <1>1 DEF SecretsInv
  <1>5. ASSUME NEW rest \in Strings(MaxInput - Len(stream))
        PROVE  Redacted(secrets, stream \o rest)
                   = sent \o Redacted(secrets, pending \o rest)
    <2>1. rest \in Seq(Bytes)
      BY <1>3, <1>4, Typing, StringsAreShort DEF Short
    <2>2. stream \o rest = rest /\ pending \o rest = rest
      BY <1>1, <2>1, ConcatEmptySeq
    <2>3. Redacted(secrets, rest) \in Output
      BY <1>3, <1>4, <2>1, Typing, RedactedIs
    <2>4. sent \o Redacted(secrets, rest) = Redacted(secrets, rest)
      BY <1>1, <2>3, ConcatEmptySeq DEF Output
    <2> QED BY <2>2, <2>4
  <1>6. PendingInv
    BY <1>1, <1>5 DEF PendingInv
  <1> QED BY <1>3, <1>4, <1>6 DEF RedactorInv

\* Every read keeps it, and so does the end of file.
LEMMA StepKeeps == RedactorInv /\ [StreamNext]_streamVars => RedactorInv'
  <1> SUFFICES ASSUME RedactorInv, [StreamNext]_streamVars PROVE RedactorInv'
    OBVIOUS
  <1>1. CASE Read
    <2>1. PICK chunk \in Strings(MaxChunk) :
              Len(stream) + Len(chunk) <= MaxInput /\ Push(chunk, FALSE)
      BY <1>1 DEF Read
    <2>2. chunk \in Seq(Bytes)
      BY RedactorAssumption, StringsAreShort DEF Short
    <2> QED BY <2>1, <2>2, PushKeeps
  <1>2. CASE EndOfFile
    <2>1. <<>> \in Seq(Bytes) /\ Len(<<>>) = 0
      BY EmptySeq
    <2>2. Len(stream) + Len(<<>>) <= MaxInput
      BY <2>1, Typing DEF RedactorInv
    <2> QED BY <1>2, <2>1, <2>2, PushKeeps DEF EndOfFile
  <1>3. CASE UNCHANGED streamVars
    <2>1. /\ secrets' = secrets /\ pending' = pending /\ sent' = sent
          /\ ended' = ended /\ stream' = stream
      BY <1>3 DEF streamVars
    <2>2. StreamTypeOK' /\ SecretsInv'
      BY <2>1 DEF RedactorInv, StreamTypeOK, SecretsInv
    <2>3. PendingInv'
      BY <2>1 DEF RedactorInv, PendingInv
    <2> QED BY <2>2, <2>3 DEF RedactorInv
  <1> QED BY <1>1, <1>2, <1>3 DEF StreamNext

\* However long the secrets, the reads and the stream, and whatever the bytes:
\* what was written and what push still holds back account for the whole stream,
\* and push holds back less than the longest secret.
THEOREM RedactorInvariant == StreamSpec => []RedactorInv
  BY StartHolds, StepKeeps, PTL DEF StreamSpec

\* The types: in particular, pending never reaches the length of a secret.
THEOREM RedactorTypeCorrect == StreamSpec => []StreamTypeOK
  <1>1. RedactorInv => StreamTypeOK
    BY DEF RedactorInv
  <1> QED BY RedactorInvariant, <1>1, PTL

\* Redactor::push on the pieces of a stream, ended by the end of file, writes
\* what the redaction of the whole stream is, wherever the reads cut it.
THEOREM ChunksNeverMatter == StreamSpec => []ChunksDoNotMatter
  <1>1. RedactorInv => ChunksDoNotMatter
    BY DEF RedactorInv, PendingInv, ChunksDoNotMatter
  <1> QED BY RedactorInvariant, <1>1, PTL

-----------------------------------------------------------------------------
(* The way to the client (Backpressure) *)

\* The constants, one by one.
LEMMA Bounds ==
    /\ DrainLimit \in Nat /\ DrainLimit > 1 /\ MaxOutput \in Nat /\ OutputCap \in Nat
    /\ ChannelCap \in Nat /\ FrameCap \in Nat /\ SocketCap \in Nat
    /\ ControlCap \in Nat /\ QueueCap \in Nat
    /\ ChannelCap > 0 /\ FrameCap > 0 /\ ControlCap > 0
  <1>1. /\ DrainLimit \in Nat /\ DrainLimit > 1
        /\ MaxOutput \in Nat \ {0} /\ OutputCap \in Nat \ {0} /\ ChannelCap \in Nat \ {0}
        /\ FrameCap \in Nat \ {0} /\ SocketCap \in Nat \ {0} /\ ControlCap \in Nat \ {0}
        /\ QueueCap \in Nat \ {0}
    BY BackpressureAssumption
  <1> QED BY <1>1

\* What the frames of a pipe become.
LEMMA FramesKept ==
    ASSUME NEW S, NEW s \in Seq(S), NEW cap \in Nat, Len(s) <= cap
    PROVE /\ s # <<>> => /\ Head(s) \in S /\ Tail(s) \in Seq(S) /\ Len(Tail(s)) <= cap
                         /\ Head(s) = s[1] /\ 1 \in 1 .. Len(s)
                         /\ \A i \in 1 .. Len(Tail(s)) :
                                Tail(s)[i] = s[i + 1] /\ i + 1 \in 1 .. Len(s)
          /\ \A f \in S : Len(s) < cap =>
                /\ Append(s, f) \in Seq(S) /\ Len(Append(s, f)) <= cap
                /\ \A i \in 1 .. Len(Append(s, f)) :
                        Append(s, f)[i] = f \/ (i \in 1 .. Len(s) /\ Append(s, f)[i] = s[i])
  OBVIOUS

\* Parts of the types that a step does not touch.
LEMMA TypesKept ==
    /\ OutputType /\ UNCHANGED output => OutputType'
    /\ GuardianType /\ UNCHANGED guardian => GuardianType'
    /\ FramesType /\ UNCHANGED frames => FramesType'
    /\ HandlerType /\ UNCHANGED handler => HandlerType'
    /\ DeliveryType /\ UNCHANGED <<delivery, outcome>> => DeliveryType'
    /\ InputType /\ UNCHANGED <<state_lock, input>> => InputType'
    /\ ClockType /\ UNCHANGED clock => ClockType'
  BY DEF OutputType, output, GuardianType, guardian, FramesType, HandlerType, DeliveryType,
     delivery, InputType, input, ClockType

\* The steps of the main thread keep the types.
LEMMA MainTypes == TypeOK /\ Main => TypeOK'
  <1> SUFFICES ASSUME TypeOK, Main PROVE TypeOK'
    OBVIOUS
  <1> USE DEF TypeOK
  <1>0. HandlerType' /\ DeliveryType' /\ InputType'
    BY TypesKept DEF Main
  <1>1. ASSUME NEW r \in {"code", "error"}, End(r), UNCHANGED <<frames, clock>> PROVE TypeOK'
    <2>1. OutputType'
      BY <1>1, Bounds DEF End, OutputType
    <2>2. GuardianType'
      BY <1>1 DEF End, GuardianType
    <2> QED BY TypesKept, <1>0, <1>1, <2>1, <2>2
  <1>r. Report => GuardianType'
    BY DEF Report, GuardianType
  <1>2. CASE Report
    BY TypesKept, <1>0, <1>2, <1>r DEF Report
  <1>3. CASE SpawnCommand
    <2>1. CASE ps.cancelled
      BY <1>1, <1>3, <2>1 DEF SpawnCommand
    <2>2. CASE ~ ps.cancelled
      <3>1. OutputType' /\ GuardianType'
        BY <1>3, <2>2 DEF SpawnCommand, OutputType, GuardianType
      <3> QED BY TypesKept, <1>0, <1>3, <3>1 DEF SpawnCommand
    <2> QED BY <2>1, <2>2
  <1>4. CASE NoticeExit
    <2>1. GuardianType'
      BY <1>4 DEF NoticeExit, GuardianType
    <2>2. ClockType'
      BY <1>4, Bounds DEF NoticeExit, ClockType
    <2> QED BY TypesKept, <1>0, <1>4, <2>1, <2>2 DEF NoticeExit
  <1>5. CASE GiveUp \/ Finish
    BY <1>1, <1>5 DEF GiveUp, Finish
  <1>6. CASE Forward
    <2>1. OutputType'
      BY <1>6, Bounds DEF Forward, OutputType
    <2>2. GuardianType'
      BY <1>6 DEF Forward, GuardianType
    <2> QED BY TypesKept, <1>0, <1>6, <2>1, <2>2 DEF Forward
  <1>7. CASE Emit
    <2>1. GuardianType'
      BY <1>7 DEF Emit, GuardianType
    <2>2. FramesType'
      BY <1>7, FramesKept, Bounds DEF Emit, GuardianType, FramesType
    <2> QED BY TypesKept, <1>0, <1>7, <2>1, <2>2 DEF Emit
  <1> QED BY <1>2, <1>3, <1>4, <1>5, <1>6, <1>7 DEF Main

\* The steps of the handler thread keep the types.
LEMMA HandlerTypes == TypeOK /\ Handler => TypeOK'
  <1> SUFFICES ASSUME TypeOK, Handler PROVE TypeOK'
    OBVIOUS
  <1> USE DEF TypeOK
  <1>0. OutputType' /\ GuardianType'
    BY TypesKept DEF Handler
  <1>1. UNCHANGED closed => InputType'
    BY TypesKept DEF Handler, input
  <1>2. CASE HandlerReads
    <2>1. FramesType' /\ Head(frames) \in {"resolved", "output", "last"}
      BY <1>2, FramesKept, Bounds DEF HandlerReads, FramesType
    <2>2. HandlerType'
      BY <1>2, <2>1 DEF HandlerReads, HandlerType
    <2> QED BY TypesKept, <1>0, <1>1, <1>2, <2>1, <2>2 DEF HandlerReads
  <1>3. CASE HandlerLocks
    <2>1. HandlerType' /\ DeliveryType'
      BY <1>3 DEF HandlerLocks, HandlerType, DeliveryType, delivery
    <2>2. InputType'
      BY <1>3 DEF Handler, HandlerLocks, InputType
    <2> QED BY TypesKept, <1>0, <1>3, <2>1, <2>2 DEF HandlerLocks
  <1>4. CASE HandlerChecks
    <2>1. HandlerType'
      BY <1>4 DEF HandlerChecks, HandlerType
    <2> QED BY TypesKept, <1>0, <1>1, <1>4, <2>1 DEF HandlerChecks
  <1>5. CASE HandlerSends \/ SendFails
    <2>1. HandlerType' /\ ClockType'
      BY <1>5, Bounds DEF HandlerSends, SendFails, Sent, HandlerType, ClockType
    <2>2. DeliveryType'
      BY <1>5, Bounds DEF HandlerSends, SendFails, AfterFailure, DeliveryType
    <2> QED BY TypesKept, <1>0, <1>1, <1>5, <2>1, <2>2 DEF HandlerSends, SendFails
  <1> QED BY <1>2, <1>3, <1>4, <1>5 DEF Handler

\* Every step keeps the types.
LEMMA TypeStep == TypeOK /\ [Next]_vars => TypeOK'
  <1> SUFFICES ASSUME TypeOK, [Next]_vars PROVE TypeOK'
    OBVIOUS
  <1> USE DEF TypeOK
  <1>1. CASE Pump
    <2>1. OutputType'
      BY <1>1, Bounds DEF Pump, OutputType
    <2> QED BY TypesKept, <1>1, <2>1 DEF Pump
  <1>2. CASE Control
    <2>1. InputType'
      <3>1. CASE ControlReads
        <4>1. control' \in 0 .. ControlCap /\ queue' \in 0 .. QueueCap
          BY <3>1, Bounds DEF ControlReads, Room, InputType
        <4>2. ps' \in [cancelled : BOOLEAN, input_error : BOOLEAN]
          <5>1. ps' = ps \/ ps' = [cancelled |-> TRUE, input_error |-> TRUE]
            BY <3>1 DEF ControlReads
          <5>2. [cancelled |-> TRUE, input_error |-> TRUE]
                    \in [cancelled : BOOLEAN, input_error : BOOLEAN]
            OBVIOUS
          <5> QED BY <5>1, <5>2 DEF InputType
        <4> QED BY <1>2, <3>1, <4>1, <4>2 DEF Control, ControlReads, InputType
      <3>2. CASE ControlEnds
        BY <1>2, <3>2 DEF Control, ControlEnds, InputType
      <3>3. CASE InputFails
        BY <1>2, <3>3, Bounds DEF Control, InputFails, InputType
      <3> QED BY <1>2, <3>1, <3>2, <3>3 DEF Control
    <2> QED BY TypesKept, <1>2, <2>1 DEF Control
  <1>3. CASE Kill
    <2>1. OutputType'
      BY <1>3 DEF Kill, OutputType
    <2> QED BY TypesKept, <1>3, <2>1 DEF Kill
  <1>4. CASE WriteControl \/ Input \/ Stop \/ Deadline
    <2>1. InputType'
      <3>1. CASE WriteControl
        BY <3>1, Bounds DEF WriteControl, InputType
      <3>2. CASE Input \/ Stop \/ Deadline
        BY <3>2 DEF Input, Stop, Deadline, InputType, input
      <3> QED BY <1>4, <3>1, <3>2
    <2> QED BY TypesKept, <1>4, <2>1 DEF WriteControl, Input, Stop, Deadline
  <1>5. CASE CommandLives
    <2>1. OutputType' /\ InputType'
      BY <1>5, Bounds DEF CommandLives, OutputType, InputType
    <2> QED BY TypesKept, <1>5, <2>1 DEF CommandLives
  <1>6. CASE ClientReads \/ ClientLeaves
    <2>1. DeliveryType'
      BY <1>6, Bounds DEF ClientReads, ClientLeaves, DeliveryType
    <2>2. ClockType'
      BY <1>6 DEF ClientReads, ClientLeaves, TimedOut, ClockType
    <2> QED BY TypesKept, <1>6, <2>1, <2>2 DEF ClientReads, ClientLeaves
  <1>7. CASE Tick
    <2>1. ClockType'
      <3>1. clock' = [drain |-> IF Draining THEN clock.drain + 1 ELSE clock.drain,
                      send |-> IF Waiting THEN clock.send + 1 ELSE clock.send,
                      late |-> clock.late]
        BY <1>7 DEF Tick, ClockType
      <3>2. clock.drain \in 0 .. DrainLimit /\ clock.send \in 0 .. 1 /\ clock.late \in BOOLEAN
        BY DEF ClockType
      <3>3. (IF Draining THEN clock.drain + 1 ELSE clock.drain) \in 0 .. DrainLimit
        BY <3>2, Bounds DEF Draining
      <3>4. (IF Waiting THEN clock.send + 1 ELSE clock.send) \in 0 .. 1
        BY <3>2 DEF Waiting, TimedOut
      <3> QED BY <3>1, <3>2, <3>3, <3>4 DEF ClockType
    <2> QED BY TypesKept, <1>7, <2>1 DEF Tick
  <1>8. CASE UNCHANGED vars
    BY TypesKept, <1>8 DEF vars
  <1> QED BY <1>1, <1>2, <1>3, <1>4, <1>5, <1>6, <1>7, <1>8, MainTypes, HandlerTypes
       DEF Next, Threads, World

\* Every step keeps the order in which main thread, command and last frame come.
LEMMA MainStep == TypeOK /\ MainInv /\ [Next]_vars => MainInv'
  <1> SUFFICES ASSUME TypeOK, MainInv, [Next]_vars PROVE MainInv'
    OBVIOUS
  <1> USE DEF TypeOK, OutputType, GuardianType, MainInv, Ended
  <1>1. CASE Main
    <2>1. ASSUME NEW r \in {"code", "error"}, End(r) PROVE MainInv'
      BY <2>1 DEF End
    <2>2. CASE Report \/ NoticeExit
      BY <2>2 DEF Report, NoticeExit, output
    <2>3. CASE SpawnCommand
      BY <2>1, <2>3 DEF SpawnCommand
    <2>4. CASE GiveUp \/ Finish
      BY <2>1, <2>4 DEF GiveUp, Finish
    <2>5. CASE Forward
      BY <2>5 DEF Forward
    <2>6. CASE Emit
      BY <2>6 DEF Emit, output
    <2> QED BY <1>1, <2>2, <2>3, <2>4, <2>5, <2>6 DEF Main
  <1>2. CASE Kill \/ CommandLives
    BY <1>2 DEF Kill, CommandLives, guardian
  <1>3. CASE UNCHANGED <<guardian, command>>
    BY <1>3 DEF guardian
  <1>4. CASE Pump \/ Control \/ Handler \/ WriteControl
    BY <1>3, <1>4 DEF Pump, Control, Handler, WriteControl, output
  <1>5. CASE ClientReads \/ ClientLeaves \/ Deadline \/ Tick \/ Input \/ Stop \/ UNCHANGED vars
    BY <1>3, <1>5 DEF ClientReads, ClientLeaves, Deadline, Tick, Input, Stop, output, vars
  <1> QED BY <1>1, <1>2, <1>4, <1>5 DEF Next, Threads, World

\* Every step keeps what the handler thread has seen.
LEMMA HandlerStep == TypeOK /\ MainInv /\ HandlerInv /\ [Next]_vars => HandlerInv'
  <1> SUFFICES ASSUME TypeOK, MainInv, HandlerInv, [Next]_vars PROVE HandlerInv'
    OBVIOUS
  <1> USE Bounds
  <1>1. CASE Emit /\ UNCHANGED <<handler, delivery, result>>
    <2>1. result = "none" => main.frame # "last"
      BY DEF MainInv
    <2>2. \A i \in 1 .. Len(frames') : frames'[i] = main.frame
                \/ (i \in 1 .. Len(frames) /\ frames'[i] = frames[i])
      BY <1>1, FramesKept DEF Emit, TypeOK, GuardianType, FramesType
    <2> QED BY <1>1, <2>1, <2>2 DEF HandlerInv, delivery
  <1>2. CASE HandlerReads /\ UNCHANGED result
    <2>1. /\ Head(frames) = frames[1] /\ 1 \in 1 .. Len(frames)
          /\ \A i \in 1 .. Len(frames') :
                frames'[i] = frames[i + 1] /\ i + 1 \in 1 .. Len(frames)
      BY <1>2, FramesKept DEF HandlerReads, TypeOK, FramesType
    <2> QED BY <1>2, <2>1 DEF HandlerReads, HandlerInv, delivery
  <1>3. CASE HandlerLocks /\ UNCHANGED result
    BY <1>3 DEF HandlerLocks, HandlerInv, TypeOK, HandlerType, delivery
  <1>4. CASE HandlerChecks /\ UNCHANGED result
    BY <1>4 DEF HandlerChecks, HandlerInv, TypeOK, HandlerType, delivery
  <1>5. CASE (HandlerSends \/ SendFails) /\ UNCHANGED result
    BY <1>5 DEF HandlerSends, SendFails, Sent, HandlerInv, TypeOK, HandlerType
  <1>6. CASE UNCHANGED <<handler, frames, connection>> /\ (result' = "none" => result = "none")
    BY <1>6 DEF HandlerInv
  <1>7. CASE Main
    BY <1>1, <1>6, <1>7 DEF Main, Report, SpawnCommand, NoticeExit, GiveUp, Forward, Finish, Emit,
       End, delivery
  <1>8. CASE Handler
    BY <1>2, <1>3, <1>4, <1>5, <1>8 DEF Handler, guardian
  <1>9. CASE Pump \/ Control \/ Kill \/ WriteControl \/ World \/ UNCHANGED vars
    BY <1>6, <1>9 DEF Pump, Control, Kill, WriteControl, World, CommandLives, ClientReads,
       ClientLeaves, Deadline, Tick, Input, Stop, guardian, delivery, vars
  <1> QED BY <1>7, <1>8, <1>9 DEF Next, Threads

\* While the output drains after an exit and no thread can move, the handler
\* thread waits for the client, for the first time.
LEMMA WaitsForClient ==
    ASSUME TypeOK, MainInv, HandlerInv, Draining, ~ CanMove
    PROVE /\ handler.pc = "sending" /\ socket = SocketCap /\ client = "there"
          /\ connection = "open" /\ clock.send = 0
  <1>1. /\ main.noticed /\ Ended /\ command \in {"exited", "killed"}
        /\ result = "none" /\ main.frame # "last"
    BY DEF Draining, MainInv, Ended
  <1>2. main.pc \in {"poll", "emit"}
    BY <1>1 DEF MainInv, TypeOK, GuardianType
  <1>3. main.pc = "emit"
    <2> SUFFICES ASSUME main.pc = "poll" PROVE FALSE
      BY <1>2
    <2>1. channel = 0 /\ pump = "running"
      BY <1>1 DEF CanMove, MainMoves, TypeOK, OutputType
    <2> QED BY <1>1, <2>1, Bounds DEF CanMove, PumpMoves, TypeOK, OutputType
  <1>4. frames # <<>>
    <2>1. ~ (Len(frames) < FrameCap)
      BY <1>3 DEF CanMove, MainMoves
    <2> QED BY <2>1, Bounds
  <1>5. StateFree
    <2> SUFFICES ASSUME ~ StateFree PROVE FALSE
      OBVIOUS
    <2>1. control > 0 /\ control \in Nat
      BY Bounds DEF CanMove, WriterMoves, TypeOK, InputType
    <2> QED BY <1>3, <2>1 DEF CanMove, ControlMoves, WaitsForRoom, PsFree, HeldAt
  <1>6. handler.pc = "sending"
    BY <1>1, <1>4, <1>5 DEF CanMove, HandlerMoves, HandlerInv, TypeOK, HandlerType
  <1>7. ~ TimedOut /\ client # "gone" /\ ~ (socket < SocketCap)
    BY <1>6 DEF CanMove, HandlerMoves
  <1>8. socket = SocketCap /\ client = "there" /\ clock.send = 0
    BY <1>7, Bounds DEF TypeOK, DeliveryType, ClockType, TimedOut
  <1> QED BY <1>6, <1>8 DEF HandlerInv

\* Every step keeps the drain short, but for a client that reads late.
LEMMA DrainStep ==
    TypeOK /\ MainInv /\ HandlerInv /\ DrainIsShort /\ [Next]_vars => DrainIsShort'
  <1> SUFFICES ASSUME TypeOK, MainInv, HandlerInv, DrainIsShort, [Next]_vars
               PROVE DrainIsShort'
    OBVIOUS
  <1>0. clock \in [drain : 0 .. DrainLimit, send : 0 .. 1, late : BOOLEAN]
    BY DEF TypeOK, ClockType
  <1>1. CASE UNCHANGED <<clock, handler, socket, connection>>
                /\ (main'.noticed /\ result' = "none" => main.noticed /\ result = "none")
    BY <1>1 DEF DrainIsShort, TimedOut
  <1>2. CASE Tick
    <2>1. UNCHANGED <<main, result, handler, connection, socket>>
      BY <1>2 DEF Tick, guardian, delivery
    <2>2. clock'.late = clock.late
            /\ clock'.drain = (IF Draining THEN clock.drain + 1 ELSE clock.drain)
            /\ clock'.send = (IF Waiting THEN clock.send + 1 ELSE clock.send)
      BY <1>0, <1>2 DEF Tick
    <2>3. CASE Draining
      <3>1. /\ handler.pc = "sending" /\ socket = SocketCap /\ connection = "open"
            /\ clock.send = 0 /\ Waiting
        BY <1>2, <2>3, WaitsForClient DEF Tick, Waiting, TimedOut
      <3>2. clock.late \/ clock.drain = 0
        BY <2>3, <3>1 DEF DrainIsShort, TimedOut, Draining
      <3> QED BY <2>1, <2>2, <2>3, <3>1, <3>2 DEF DrainIsShort, TimedOut
    <2>4. CASE ~ Draining
      <3>1. Waiting /\ handler.pc = "sending" /\ clock.send = 0
        BY <1>0, <1>2, <2>4 DEF Tick, Waiting, TimedOut
      <3>2. client # "gone" /\ socket = SocketCap
        BY <1>2, <3>1, Bounds DEF Tick, CanMove, HandlerMoves, TypeOK, DeliveryType
      <3> QED BY <2>1, <2>2, <2>4, <3>1, <3>2 DEF DrainIsShort, TimedOut
    <2> QED BY <2>3, <2>4
  <1>3. CASE NoticeExit /\ UNCHANGED <<handler, socket, connection>>
    BY <1>0, <1>3 DEF NoticeExit, DrainIsShort, TimedOut
  <1>4. CASE (HandlerSends \/ SendFails) /\ UNCHANGED <<main, result>>
    <2>1. clock' = [clock EXCEPT !.send = 0] /\ handler.pc = "sending" /\ connection = "open"
      BY <1>4 DEF HandlerSends, SendFails, HandlerInv
    <2>2. clock'.late = clock.late /\ clock'.drain = clock.drain /\ clock'.send = 0
      BY <1>0, <2>1
    <2>3. HandlerSends => socket # SocketCap
      BY Bounds DEF HandlerSends
    <2>4. HandlerSends \/ connection' = "dropped"
      BY <1>4 DEF SendFails, AfterFailure
    <2> QED BY <1>4, <2>1, <2>2, <2>3, <2>4 DEF DrainIsShort, TimedOut
  <1>5. CASE ClientReads
    BY <1>0, <1>5 DEF ClientReads, DrainIsShort, TimedOut, guardian
  <1>6. CASE (HandlerReads \/ HandlerLocks \/ HandlerChecks) /\ UNCHANGED <<main, result>>
    <2>1. handler.pc # "sending" /\ UNCHANGED <<clock, connection>>
      BY <1>6 DEF HandlerReads, HandlerLocks, HandlerChecks, delivery
    <2> QED BY <1>6, <2>1 DEF DrainIsShort, TimedOut
  <1>7. CASE Main
    <2>1. UNCHANGED <<handler, socket, connection>>
      BY <1>7 DEF Main, delivery
    <2>2. CASE Report \/ SpawnCommand \/ GiveUp \/ Forward \/ Finish \/ Emit
      <3>1. /\ UNCHANGED clock /\ (main'.noticed => main.noticed)
            /\ result' = "none" => result = "none"
        BY <2>2 DEF TypeOK, GuardianType, Report, SpawnCommand, GiveUp, Forward, Finish, Emit, End,
           output
      <3> QED BY <1>1, <2>1, <3>1
    <2> QED BY <1>3, <1>7, <2>1, <2>2 DEF Main
  <1>8. CASE Handler
    BY <1>4, <1>6, <1>8 DEF Handler, guardian
  <1>9. CASE \/ Pump \/ Control \/ Kill \/ WriteControl \/ CommandLives \/ ClientLeaves
             \/ Deadline \/ Input \/ Stop \/ UNCHANGED vars
    BY <1>1, <1>9 DEF Pump, Control, Kill, WriteControl, CommandLives, ClientLeaves, Deadline,
       Input, Stop, vars, guardian, delivery
  <1> QED BY <1>2, <1>5, <1>7, <1>8, <1>9 DEF Next, Threads, World

\* Giving up before the drain is over takes a failed input, so an exit code that
\* was there is lost to a late reader only.
LEMMA ExitStep ==
    TypeOK /\ MainInv /\ DrainIsShort /\ ExitLostOnlyToLateReader /\ [Next]_vars
        => ExitLostOnlyToLateReader'
  <1> SUFFICES ASSUME TypeOK, MainInv, DrainIsShort, ExitLostOnlyToLateReader, [Next]_vars
               PROVE ExitLostOnlyToLateReader'
    OBVIOUS
  <1>0. (clock.late => clock'.late) /\ (ps.input_error => ps'.input_error)
    <2>1. clock \in [drain : 0 .. DrainLimit, send : 0 .. 1, late : BOOLEAN]
            /\ ps \in [cancelled : BOOLEAN, input_error : BOOLEAN]
      BY DEF TypeOK, ClockType, InputType
    <2>2. clock.late => clock'.late
      BY <2>1 DEF Next, Threads, World, vars, Main, Report, SpawnCommand, NoticeExit, GiveUp,
         Forward, Finish, Emit, Pump, Control, Kill, Handler, HandlerReads, HandlerLocks,
         HandlerChecks, HandlerSends, SendFails, WriteControl, CommandLives, ClientReads,
         ClientLeaves, Deadline, Tick, Input, Stop
    <2>3. ps.input_error => ps'.input_error
      BY <2>1 DEF Next, Threads, World, vars, Main, Pump, Control, ControlReads, ControlEnds,
         InputFails, Kill, Handler, WriteControl, CommandLives, ClientReads,
         ClientLeaves, Deadline, Tick, Input, Stop, input
    <2> QED BY <2>2, <2>3
  <1>1. CASE result' = result /\ (command' = "exited" => command = "exited")
    BY <1>0, <1>1 DEF ExitLostOnlyToLateReader
  <1>2. CASE CommandLives
    BY <1>2 DEF CommandLives, guardian, MainInv, ExitLostOnlyToLateReader
  <1>3. CASE SpawnCommand
    BY <1>3 DEF SpawnCommand, End, MainInv, ExitLostOnlyToLateReader
  <1>4. CASE Finish
    BY <1>4 DEF Finish, End, ExitLostOnlyToLateReader
  <1>5. CASE GiveUp
    <2>1. result = "none"
      BY <1>5 DEF GiveUp, MainInv
    <2>2. clock.late \/ ps.input_error
      BY <1>5, <2>1, Bounds DEF GiveUp, Hopeless, DrainIsShort
    <2> QED BY <1>0, <2>2 DEF ExitLostOnlyToLateReader
  <1>6. CASE \/ Report \/ NoticeExit \/ Forward \/ Emit
    BY <1>1, <1>6 DEF Report, NoticeExit, Forward, Emit, output
  <1>7. CASE \/ Pump \/ Control \/ Kill \/ Handler \/ WriteControl \/ ClientReads \/ ClientLeaves
             \/ Deadline \/ Tick \/ Input \/ Stop \/ UNCHANGED vars
    BY <1>1, <1>7 DEF Pump, Control, Kill, Handler, WriteControl, ClientReads, ClientLeaves,
       Deadline, Tick, Input, Stop, vars, guardian, output
  <1> QED BY <1>2, <1>3, <1>4, <1>5, <1>6, <1>7 DEF Next, Threads, World, Main

\* The types and the drain at the start.
LEMMA DrainInit == Init => DrainInv
  <1> SUFFICES ASSUME Init PROVE DrainInv
    OBVIOUS
  <1>1. OutputType /\ FramesType /\ DeliveryType
    <2>1. FramesType
      BY Bounds DEF Init, FramesType
    <2> QED BY <2>1, Bounds DEF Init, OutputType, DeliveryType
  <1>2. GuardianType /\ HandlerType
    BY DEF Init, GuardianType, HandlerType
  <1>3. InputType
    <2>1. [cancelled |-> FALSE, input_error |-> FALSE]
                    \in [cancelled : BOOLEAN, input_error : BOOLEAN]
      OBVIOUS
    <2>2. control = 0 /\ queue = 0 /\ closed = FALSE /\ state_lock = "free"
            /\ ps = [cancelled |-> FALSE, input_error |-> FALSE]
      BY DEF Init
    <2>3. control \in 0 .. ControlCap /\ queue \in 0 .. QueueCap
      BY <2>2, Bounds
    <2> QED BY <2>1, <2>2, <2>3, Zenon DEF InputType
  <1>4. ClockType
    BY Bounds DEF Init, ClockType
  <1>5. MainInv /\ HandlerInv /\ DrainIsShort /\ ExitLostOnlyToLateReader
    <2>1. MainInv /\ HandlerInv /\ ExitLostOnlyToLateReader
      <3>1. command = "unborn" /\ result = "none" /\ main.pc \in {"resolved", "spawn"}
              /\ main.frame = "resolved" /\ main.noticed = FALSE /\ frames = <<>>
              /\ handler.pc = "reading" /\ handler.frame = "resolved"
        BY DEF Init
      <3> QED BY <3>1 DEF MainInv, HandlerInv, ExitLostOnlyToLateReader
    <2>2. clock.send = 0 /\ ~ main.noticed
      BY DEF Init
    <2> QED BY <2>1, <2>2 DEF DrainIsShort, TimedOut
  <1> QED BY <1>1, <1>2, <1>3, <1>4, <1>5 DEF DrainInv, TypeOK

\* However threads, pipes and the client block each other, no step leaves the
\* types or the order of the frames, and an exit is noticed in time.
THEOREM DrainInvariant == Spec => []DrainInv
  <1>1. DrainInv /\ [Next]_vars => DrainInv'
    BY TypeStep, MainStep, HandlerStep, DrainStep, ExitStep DEF DrainInv
  <1> QED BY <1>1, DrainInit, PTL DEF Spec

\* A client that leaves or stops reading costs no exit code, whatever the size of
\* the channels, pipes and buffers between it and the command.
THEOREM NoExitLost == Spec => []ExitLostOnlyToLateReader
  <1>1. DrainInv => ExitLostOnlyToLateReader
    BY DEF DrainInv
  <1> QED BY <1>1, DrainInvariant, PTL
=============================================================================
