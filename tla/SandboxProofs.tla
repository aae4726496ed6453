---------------------------- MODULE SandboxProofs ----------------------------
(***************************************************************************)
(* Theorems about Sandbox, Filter and GitHelper, for any profiles, paths,  *)
(* links, limits and commands, any input of the credential helper, and any *)
(* numbers of the system calls.                                            *)
(*                                                                         *)
(* Filter and helper first: both are recursive functions, shown to have a  *)
(* solution and then to compute what they have to.  Then the invariant: at *)
(* every stage the profile is the one that was read, its lists resolved    *)
(* and, from the service on, with what the service protects; the command   *)
(* is one of its rules.  From it follows what the backends are told, and   *)
(* from that what they grant.                                              *)
(***************************************************************************)
EXTENDS Sandbox, FiniteSetTheorems, SequenceTheorems, WellFoundedInduction, TLAPS

-----------------------------------------------------------------------------
(* The filter of system calls *)

\* The accumulator of the machine.
Words32 == Numbers \union Architectures

\* The instructions of the filter, one by one.
LEMMA InstructionsAre ==
    /\ DOMAIN Program = 1 .. 11
    /\ Program[1] = Load("arch")
    /\ Program[2] = JumpEqual(1, 0, Native)
    /\ Program[3] = Return("kill")
    /\ Program[4] = Load("nr")
    /\ Program[5] = JumpSet(0, 1, X32)
    /\ Program[6] = Return("kill")
    /\ Program[7] = JumpEqual(3, 0, Socket)
    /\ Program[8] = JumpEqual(2, 0, Socketpair)
    /\ Program[9] = JumpEqual(ToErrno, 0, IoUringSetup)
    /\ Program[10] = Return("allow")
    /\ Program[11] = Return("errno")
  <1> HIDE DEF Load, JumpEqual, JumpSet, Return
  <1> QED BY DEF Program

\* The filter decides every system call of every architecture as sandbox.md says,
\* whatever the numbers of the forbidden calls are.
THEOREM FilterDecides ==
    ASSUME NEW nr \in Numbers, NEW arch \in Architectures
    PROVE  Verdict(nr, arch) = Wanted(nr, arch)
  <1> DEFINE A == Words32
             data == [nr |-> nr, arch |-> arch]
             Step(g, pc, accumulator) ==
                IF pc \notin DOMAIN Program THEN "fault"
                ELSE LET i == Program[pc] IN
                     CASE i.op = "load" -> g[pc + 1][data[i.field]]
                       [] i.op = "return" -> i.verdict
                       [] OTHER -> g[pc + 1 + (IF Taken(i, accumulator) THEN i.yes ELSE i.no)]
                                    [accumulator]
             Solves(g) == g = [pc \in Nat |-> [accumulator \in A |-> Step(g, pc, accumulator)]]
             run == CHOOSE g : Solves(g)
             X(a) == (a \div X32) % 2 = 1
             From7(a) == IF a \in {Socket, Socketpair, IoUringSetup} THEN "errno" ELSE "allow"
             From5(a) == IF X(a) THEN "kill" ELSE From7(a)
             From2(a) == IF a = Native THEN From5(nr) ELSE "kill"
  <1>1. Verdict(nr, arch) = run[1][0]
    BY DEF Verdict, Words32
  <1>2. /\ nr \in A /\ arch \in A /\ 0 \in A
        /\ data["nr"] = nr /\ data["arch"] = arch
    BY FilterAssumption DEF Words32, Numbers
  <1> HIDE DEF A, data
  <1>d. ASSUME NEW g, NEW a
        PROVE  /\ Step(g, 1, a) = g[2][arch]
               /\ Step(g, 2, a) = IF a = Native THEN g[4][a] ELSE g[3][a]
               /\ Step(g, 3, a) = "kill"
               /\ Step(g, 4, a) = g[5][nr]
               /\ Step(g, 5, a) = IF X(a) THEN g[6][a] ELSE g[7][a]
               /\ Step(g, 6, a) = "kill"
               /\ Step(g, 7, a) = IF a = Socket THEN g[11][a] ELSE g[8][a]
               /\ Step(g, 8, a) = IF a = Socketpair THEN g[11][a] ELSE g[9][a]
               /\ Step(g, 9, a) = IF a = IoUringSetup THEN g[11][a] ELSE g[10][a]
               /\ Step(g, 10, a) = "allow"
               /\ Step(g, 11, a) = "errno"
    <2> USE InstructionsAre DEF Load, JumpEqual, JumpSet, Return, Taken, ToErrno
    <2>1. Step(g, 1, a) = g[2][arch]
      BY <1>2
    <2>2. Step(g, 2, a) = IF a = Native THEN g[4][a] ELSE g[3][a]
      OBVIOUS
    <2>3. Step(g, 3, a) = "kill"
      OBVIOUS
    <2>4. Step(g, 4, a) = g[5][nr]
      BY <1>2
    <2>5. Step(g, 5, a) = IF X(a) THEN g[6][a] ELSE g[7][a]
      OBVIOUS
    <2>6. Step(g, 6, a) = "kill"
      OBVIOUS
    <2>7. Step(g, 7, a) = IF a = Socket THEN g[11][a] ELSE g[8][a]
      OBVIOUS
    <2>8. Step(g, 8, a) = IF a = Socketpair THEN g[11][a] ELSE g[9][a]
      OBVIOUS
    <2>9. Step(g, 9, a) = IF a = IoUringSetup THEN g[11][a] ELSE g[10][a]
      OBVIOUS
    <2>10. Step(g, 10, a) = "allow" /\ Step(g, 11, a) = "errno"
      OBVIOUS
    <2> HIDE DEF Step
    <2> QED BY <2>1, <2>2, <2>3, <2>4, <2>5, <2>6, <2>7, <2>8, <2>9, <2>10
  <1>e. ASSUME NEW g, NEW a, NEW pc \in Nat, pc \notin 1 .. 11
        PROVE  Step(g, pc, a) = "fault"
    BY <1>e, InstructionsAre
  <1> HIDE DEF Step, X
  <1>3. \E g : Solves(g)
    <2> DEFINE Table(pc, a) ==
                  CASE pc = 1 -> From2(arch)
                    [] pc = 2 -> IF a = Native THEN From5(nr) ELSE "kill"
                    [] pc = 4 -> From5(nr)
                    [] pc = 5 -> From5(a)
                    [] pc = 7 -> From7(a)
                    [] pc = 8 -> IF a \in {Socketpair, IoUringSetup} THEN "errno" ELSE "allow"
                    [] pc = 9 -> IF a = IoUringSetup THEN "errno" ELSE "allow"
                    [] pc = 10 -> "allow"
                    [] pc = 11 -> "errno"
                    [] pc \in {3, 6} -> "kill"
                    [] OTHER -> "fault"
               f == [pc \in Nat |-> [a \in A |-> Table(pc, a)]]
    <2>1. ASSUME NEW pc \in Nat, NEW a \in A PROVE f[pc][a] = Table(pc, a)
      OBVIOUS
    <2>2. ASSUME NEW pc \in Nat, NEW a \in A PROVE Table(pc, a) = Step(f, pc, a)
      <3> HIDE DEF f
      <3>1. CASE pc \notin 1 .. 11
        <4>1. Step(f, pc, a) = "fault"
          BY <3>1, <1>e
        <4> HIDE DEF From2, From5, From7, Step
        <4> QED BY <3>1, <4>1
      <3>2. CASE pc \in 1 .. 11
        <4> HIDE DEF X, Step
        <4>1. CASE pc \in {3, 6, 10, 11}
          BY <4>1, <1>d
        <4>2. CASE pc = 9
          BY <4>2, <1>d, <2>1
        <4>3. CASE pc = 8
          BY <4>3, <1>d, <2>1
        <4>4. CASE pc = 7
          BY <4>4, <1>d, <2>1
        <4>5. CASE pc = 5
          <5>1. f[6][a] = "kill" /\ f[7][a] = From7(a)
            BY <2>1
          <5> HIDE DEF From7, Table
          <5>2. Step(f, 5, a) = From5(a)
            BY <5>1, <1>d
          <5> QED BY <4>5, <5>2 DEF Table
        <4>6. CASE pc = 4
          <5>1. f[5][nr] = From5(nr)
            BY <1>2, <2>1
          <5> QED BY <4>6, <5>1, <1>d
        <4>7. CASE pc = 2
          <5>1. f[4][a] = From5(nr) /\ f[3][a] = "kill"
            BY <2>1
          <5> HIDE DEF From5
          <5> QED BY <4>7, <5>1, <1>d
        <4>8. CASE pc = 1
          <5>1. f[2][arch] = From2(arch)
            BY <1>2, <2>1
          <5> QED BY <4>8, <5>1, <1>d
        <4> QED BY <3>2, <4>1, <4>2, <4>3, <4>4, <4>5, <4>6, <4>7, <4>8
      <3> QED BY <3>1, <3>2
    <2>3. f = [pc \in Nat |-> [a \in A |-> Step(f, pc, a)]]
      <3> HIDE DEF Table
      <3> QED BY <2>2
    <2> QED BY <2>3
  <1>4. Solves(run)
    <2> HIDE DEF Solves
    <2> QED BY <1>3
  <1>5. ASSUME NEW pc \in Nat, NEW a \in A PROVE run[pc][a] = Step(run, pc, a)
    <2> HIDE DEF run
    <2> QED BY <1>4
  <1> HIDE DEF run
  <1>6. ASSUME NEW a \in A PROVE run[7][a] = From7(a)
    BY <1>5, <1>d
  <1>7. ASSUME NEW a \in A PROVE run[5][a] = From5(a)
    <2> HIDE DEF X, From7
    <2> QED BY <1>5, <1>6, <1>d
  <1>8. run[1][0] = From2(arch)
    <2> HIDE DEF From5
    <2> QED BY <1>2, <1>5, <1>7, <1>d
  <1>9. From2(arch) = Wanted(nr, arch)
    <2>1. Wanted(nr, arch) = IF arch # Native \/ X(nr) THEN "kill"
                             ELSE IF nr \in {Socket, Socketpair, IoUringSetup} THEN "errno"
                             ELSE "allow"
      BY Zenon DEF Wanted, X
    <2> QED BY <2>1
  <1> QED BY <1>1, <1>8, <1>9

-----------------------------------------------------------------------------
(* The credential helper *)

Keys == {"protocol", "host"}
Reads ==
    [protocol : {None, "https", "http"}, host : {None, Host, OtherHost},
     total : Nat, at : {"reading", "end", "refused"}]

\* The lines of the request among the first n.
Seen(lines, n) == {i \in 1 .. n : \A j \in 1 .. i : lines[j].key # "blank"}

\* Those and the empty line after them.
Counted(lines, n) == {i \in 1 .. n : \A j \in 1 .. i - 1 : lines[j].key # "blank"}

\* What is known of a key once these lines are read.
Known(lines, S, key, value) ==
    \/ value = None /\ \A i \in S : lines[i].key # key
    \/ \E i \in S : /\ lines[i].key = key /\ lines[i].value = value
                    /\ \A j \in S : lines[j].key = key => j = i

\* What the loop has when it has read n lines.
LoopInv(lines, n, read) ==
    /\ read \in Reads
    /\ read.at = "reading" => Seen(lines, n) = 1 .. n /\ read.total = Bytes(lines)[n]
    /\ read.at = "end" => \E j \in 1 .. n : lines[j].key = "blank"
    /\ read.at # "refused" =>
        /\ \A i \in Seen(lines, n) : lines[i].key # "malformed"
        /\ \A i \in Counted(lines, n) : Bytes(lines)[i] <= MaxRequest
        /\ Known(lines, Seen(lines, n), "protocol", read.protocol)
        /\ Known(lines, Seen(lines, n), "host", read.host)
    /\ read.at = "refused" =>
        \/ \E i \in Seen(lines, n) : lines[i].key = "malformed"
        \/ \E i \in Counted(lines, n) : Bytes(lines)[i] > MaxRequest
        \/ \E i, j \in Seen(lines, n) :
                i # j /\ lines[i].key \in Keys /\ lines[j].key = lines[i].key

\* What the keys and values of a line can be.
LEMMA LineIs ==
    ASSUME NEW line \in Lines
    PROVE  /\ line.key \in Keys \union {"path", "blank", "malformed"}
           /\ line.key = "protocol" => line.value \in {"https", "http"}
           /\ line.key = "host" => line.value \in {Host, OtherHost}
           /\ line.size \in Nat \ {0}
  <1>1. LineSizes \subseteq Nat \ {0}
    BY HelperAssumption
  <1>2. CASE line \in [key : {"protocol"}, value : {"https", "http"}, size : LineSizes]
    BY <1>1, <1>2 DEF Keys
  <1>3. CASE line \in [key : {"host"}, value : {Host, OtherHost}, size : LineSizes]
    BY <1>1, <1>3 DEF Keys
  <1>4. CASE line \in [key : {"path", "malformed"}, value : {None}, size : LineSizes]
    BY <1>1, <1>4 DEF Keys
  <1>5. CASE line \in [key : {"blank"}, value : {None}, size : {1}]
    BY <1>5 DEF Keys
  <1> QED BY <1>2, <1>3, <1>4, <1>5 DEF Lines

\* Where the request ends: before the first empty line.
LEMMA NewLine ==
    ASSUME NEW lines \in Seq(Lines), NEW n \in Nat, n + 1 <= Len(lines),
           Seen(lines, n) = 1 .. n
    PROVE  /\ lines[n + 1].key = "blank" => Seen(lines, n + 1) = 1 .. n
           /\ lines[n + 1].key # "blank" => Seen(lines, n + 1) = 1 .. n + 1
           /\ Counted(lines, n) = 1 .. n /\ Counted(lines, n + 1) = 1 .. n + 1
  <1>1. \A j \in 1 .. n : lines[j].key # "blank"
    BY DEF Seen
  <1>4. Counted(lines, n) = 1 .. n /\ Counted(lines, n + 1) = 1 .. n + 1
    <2>1. \A i \in 1 .. n + 1 : \A j \in 1 .. i - 1 : j \in 1 .. n
      OBVIOUS
    <2>2. \A i \in 1 .. n : i \in 1 .. n + 1
      OBVIOUS
    <2> QED BY <1>1, <2>1, <2>2 DEF Counted
  <1>2. CASE lines[n + 1].key = "blank"
    <2>1. ASSUME NEW i \in 1 .. n + 1
          PROVE  (\A j \in 1 .. i : lines[j].key # "blank") <=> i \in 1 .. n
      BY <1>1, <1>2
    <2> QED BY <1>2, <1>4, <2>1 DEF Seen
  <1>3. CASE lines[n + 1].key # "blank"
    <2>1. \A j \in 1 .. n + 1 : lines[j].key # "blank"
      BY <1>1, <1>3
    <2> QED BY <1>3, <1>4, <2>1 DEF Seen
  <1> QED BY <1>2, <1>3

\* What holds of 0 and of the next number of each holds of all up to n.
LEMMA UpTo ==
    ASSUME NEW n \in Nat, NEW N, 0 \in N,
           \A k \in Nat : k \in N /\ k < n => k + 1 \in N
    PROVE  n \in N
  <1> DEFINE Out == {k \in Nat : k <= n /\ k \notin N}
  <1> SUFFICES ASSUME n \notin N PROVE FALSE
    OBVIOUS
  <1>1. Out \in SUBSET Nat /\ Out # {}
    OBVIOUS
  <1>2. \E x \in Out : \A y \in Out : ~ (<<y, x>> \in OpToRel(<, Nat))
    <2> HIDE DEF Out
    <2> QED BY <1>1, NatLessThanWellFounded, WFMin
  <1>3. PICK x \in Out : \A y \in Out : ~ (y < x)
    BY <1>1, <1>2, Zenon DEF OpToRel
  <1>4. x # 0 /\ x - 1 \in Nat /\ x - 1 < n /\ (x - 1) + 1 = x
    BY <1>3
  <1>5. x - 1 \in N
    BY <1>3, <1>4
  <1> QED BY <1>3, <1>4, <1>5

\* A function that is given at 0, and at every further number by the one before,
\* exists.
Iterates(L, start, step, g) ==
    g = [n \in 0 .. L |-> IF n = 0 THEN start ELSE step[n][g[n - 1]]]

LEMMA IterationSolved ==
    ASSUME NEW L \in Nat, NEW start, NEW step
    PROVE  \E g : Iterates(L, start, step, g)
  <1> DEFINE Body(g, n) == IF n = 0 THEN start ELSE step[n][g[n - 1]]
             SolvesTo(g, n) == /\ g = [k \in 0 .. L |-> g[k]]
                               /\ \A k \in 0 .. n : k <= L => g[k] = Body(g, k)
             N == {n \in Nat : \E g : SolvesTo(g, n)}
  <1> SUFFICES \E g : g = [n \in 0 .. L |-> Body(g, n)]
    BY DEF Iterates
  <1>1. 0 \in N
    <2> DEFINE g == [k \in 0 .. L |-> start]
    <2>1. g = [k \in 0 .. L |-> g[k]] /\ \A k \in 0 .. 0 : k <= L => g[k] = Body(g, k)
      OBVIOUS
    <2> QED BY <2>1
  <1>2. ASSUME NEW n \in Nat, n \in N, n < L PROVE n + 1 \in N
    <2>1. PICK g : /\ g = [k \in 0 .. L |-> g[k]]
                   /\ \A k \in 0 .. n : k <= L => g[k] = Body(g, k)
      BY <1>2
    <2> DEFINE h == [k \in 0 .. L |-> IF k = n + 1 THEN Body(g, n + 1) ELSE g[k]]
    <2>2. h = [k \in 0 .. L |-> h[k]]
      OBVIOUS
    <2>3. \A k \in 0 .. n : k <= L => h[k] = g[k]
      OBVIOUS
    <2>4. h[n + 1] = Body(g, n + 1)
      BY <1>2
    <2> HIDE DEF h
    <2>5. ASSUME NEW k \in 0 .. n + 1, k <= L PROVE h[k] = Body(h, k)
      <3>1. CASE k = n + 1
        <4>1. h[n] = g[n]
          <5>1. n \in 0 .. n /\ n <= L
            BY <1>2
          <5> QED BY <2>3, <5>1
        <4>2. n + 1 # 0 /\ (n + 1) - 1 = n
          OBVIOUS
        <4> QED BY <2>4, <3>1, <4>1, <4>2
      <3>2. CASE k # n + 1
        <4>1. k \in 0 .. n /\ (k # 0 => k - 1 \in 0 .. n /\ k - 1 <= L)
          BY <2>5, <3>2
        <4>2. h[k] = g[k] /\ g[k] = Body(g, k)
          BY <2>1, <2>3, <2>5, <4>1
        <4>3. k # 0 => h[k - 1] = g[k - 1]
          BY <2>3, <4>1
        <4> QED BY <4>2, <4>3
      <3> QED BY <3>1, <3>2
    <2> HIDE DEF Body
    <2>6. SolvesTo(h, n + 1)
      BY <2>2, <2>5
    <2> HIDE DEF SolvesTo
    <2> QED BY <2>6
  <1>3. L \in N
    <2> HIDE DEF N
    <2> QED BY <1>1, <1>2, UpTo
  <1>4. PICK g : /\ g = [k \in 0 .. L |-> g[k]]
                 /\ \A k \in 0 .. L : k <= L => g[k] = Body(g, k)
    BY <1>3
  <1> HIDE DEF Body
  <1>5. \A k \in 0 .. L : g[k] = Body(g, k)
    <2>1. \A k \in 0 .. L : k <= L
      OBVIOUS
    <2> QED BY <1>4, <2>1
  <1>6. g = [k \in 0 .. L |-> Body(g, k)]
    BY <1>4, <1>5
  <1> QED BY <1>6

\* How long the first lines are, line by line.
LEMMA BytesAre ==
    ASSUME NEW lines \in Seq(Lines)
    PROVE  /\ Bytes(lines)[0] = 0
           /\ \A n \in 0 .. Len(lines) : Bytes(lines)[n] \in Nat
           /\ \A n \in Nat : n + 1 <= Len(lines)
                => Bytes(lines)[n + 1] = Bytes(lines)[n] + lines[n + 1].size
  <1> DEFINE L == Len(lines)
             Body(g, n) == IF n = 0 THEN 0 ELSE g[n - 1] + lines[n].size
             Solves(g) == g = [n \in 0 .. L |-> Body(g, n)]
             Adds(g) == /\ g[0] = 0
                        /\ \A n \in Nat : n + 1 <= L => g[n + 1] = g[n] + lines[n + 1].size
  <1>1. L \in Nat /\ \A n \in 1 .. L : lines[n].size \in Nat
    <2>1. ASSUME NEW n \in 1 .. L PROVE lines[n].size \in Nat
      <3>1. lines[n] \in Lines
        OBVIOUS
      <3> QED BY <3>1, LineIs
    <2> QED BY <2>1
  <1> HIDE DEF L
  <1>2. ASSUME NEW g, Solves(g) PROVE Adds(g)
    <2>1. \A n \in 0 .. L : g[n] = Body(g, n)
      <3> HIDE DEF Body
      <3> QED BY <1>2
    <2>2. g[0] = 0
      BY <1>1, <2>1
    <2>3. ASSUME NEW n \in Nat, n + 1 <= L PROVE g[n + 1] = g[n] + lines[n + 1].size
      <3>1. n + 1 \in 0 .. L /\ n + 1 # 0 /\ (n + 1) - 1 = n
        BY <1>1, <2>3
      <3> QED BY <2>1, <3>1
    <2> QED BY <2>2, <2>3
  <1>3. \E g : Solves(g)
    <2> DEFINE step == [n \in 1 .. L |-> [b \in Nat |-> b + lines[n].size]]
    <2>1. PICK g : Iterates(L, 0, step, g)
      <3> HIDE DEF step
      <3> QED BY <1>1, IterationSolved
    <2>2. /\ g[0] = 0
          /\ \A n \in 1 .. L : g[n] = step[n][g[n - 1]]
      <3> HIDE DEF step
      <3> QED BY <1>1, <2>1 DEF Iterates
    <2>3. ASSUME NEW n \in 1 .. L, g[n - 1] \in Nat
          PROVE  g[n] = g[n - 1] + lines[n].size
      <3>1. g[n] = step[n][g[n - 1]]
        BY <1>1, <2>2
      <3> QED BY <2>3, <3>1
    <2>4. ASSUME NEW n \in 0 .. L PROVE g[n] \in Nat
      <3> DEFINE N == {k \in Nat : k <= L => g[k] \in Nat}
      <3>1. 0 \in N
        BY <1>1, <2>2
      <3>2. ASSUME NEW k \in Nat, k \in N, k < n PROVE k + 1 \in N
        <4>1. k <= L /\ k + 1 \in 1 .. L /\ (k + 1) - 1 = k
          <5> HIDE DEF N, step
          <5> QED BY <1>1, <3>2
        <4>2. g[k] \in Nat
          <5> HIDE DEF step
          <5> QED BY <3>2, <4>1
        <4>3. g[k + 1] = g[k] + lines[k + 1].size
          BY <2>3, <4>1, <4>2
        <4> QED BY <1>1, <4>1, <4>2, <4>3
      <3>3. n \in N
        <4> HIDE DEF N
        <4> QED BY <3>1, <3>2, UpTo
      <3> QED BY <3>3
    <2>5. \A n \in 0 .. L : g[n] = Body(g, n)
      <3>1. ASSUME NEW n \in 0 .. L, n # 0 PROVE g[n] = g[n - 1] + lines[n].size
        <4>1. n \in 1 .. L /\ n - 1 \in 0 .. L
          BY <1>1, <3>1
        <4> QED BY <2>3, <2>4, <4>1
      <3>2. g[0] = 0
        BY <1>1, <2>2
      <3> QED BY <3>1, <3>2
    <2>6. g = [n \in 0 .. L |-> g[n]]
      <3> HIDE DEF step
      <3> QED BY <2>1 DEF Iterates
    <2> HIDE DEF Body
    <2>7. g = [n \in 0 .. L |-> Body(g, n)]
      BY <2>5, <2>6
    <2> QED BY <2>7
  <1>4. Adds(Bytes(lines))
    <2> DEFINE bytes == CHOOSE g : Solves(g)
    <2>1. Bytes(lines) = bytes
      BY DEF Bytes, L
    <2> HIDE DEF Solves, Adds
    <2> QED BY <1>2, <1>3, <2>1
  <1>5. ASSUME NEW n \in 0 .. L PROVE Bytes(lines)[n] \in Nat
    <2> DEFINE N == {k \in Nat : k <= L => Bytes(lines)[k] \in Nat}
    <2>1. 0 \in N
      BY <1>4
    <2>2. ASSUME NEW k \in Nat, k \in N, k < n PROVE k + 1 \in N
      <3>1. k + 1 <= L /\ k + 1 \in 1 .. L /\ k <= L
        BY <1>1, <2>2
      <3>2. Bytes(lines)[k + 1] = Bytes(lines)[k] + lines[k + 1].size
        BY <1>4, <3>1
      <3> QED BY <1>1, <2>2, <3>1, <3>2
    <2>3. n \in N
      <3> HIDE DEF N
      <3> QED BY <2>1, <2>2, UpTo
    <2> QED BY <2>3
  <1> QED BY <1>4, <1>5 DEF L

\* One turn of the loop of helper().
LEMMA LoopKeeps ==
    ASSUME NEW lines \in Seq(Lines), NEW n \in Nat, n + 1 <= Len(lines),
           NEW read, LoopInv(lines, n, read)
    PROVE  LoopInv(lines, n + 1, ReadLine(read, lines[n + 1]))
  <1> DEFINE line == lines[n + 1]
             new == ReadLine(read, line)
  <1> SUFFICES LoopInv(lines, n + 1, new)
    OBVIOUS
  <1>1. line \in Lines
    OBVIOUS
  <1>2. read \in Reads
    BY DEF LoopInv
  <1>3. /\ Seen(lines, n) \subseteq Seen(lines, n + 1)
        /\ Counted(lines, n) \subseteq Counted(lines, n + 1)
    BY DEF Seen, Counted
  <1>4. CASE read.at = "refused"
    <2>1. new = read
      BY <1>4 DEF ReadLine
    <2> HIDE DEF new, line
    <2> QED BY <1>3, <1>4, <2>1 DEF LoopInv
  <1>5. CASE read.at = "end"
    <2>1. new = read
      BY <1>5 DEF ReadLine
    <2>2. PICK j \in 1 .. n : lines[j].key = "blank"
      BY <1>5 DEF LoopInv
    <2>3. /\ Seen(lines, n + 1) = Seen(lines, n)
          /\ Counted(lines, n + 1) = Counted(lines, n)
      BY <2>2 DEF Seen, Counted
    <2>4. j \in 1 .. n + 1
      OBVIOUS
    <2> HIDE DEF new, line
    <2> QED BY <1>5, <2>1, <2>2, <2>3, <2>4 DEF LoopInv
  <1>6. CASE read.at = "reading"
    <2> DEFINE counted == [read EXCEPT !.total = @ + line.size]
    <2>1. Seen(lines, n) = 1 .. n /\ read.total = Bytes(lines)[n]
      BY <1>6 DEF LoopInv
    <2>2. Counted(lines, n) = 1 .. n /\ Counted(lines, n + 1) = 1 .. n + 1
      BY <2>1, NewLine
    <2>3. /\ counted \in Reads /\ counted.at = "reading"
          /\ counted.protocol = read.protocol /\ counted.host = read.host
          /\ counted.total = Bytes(lines)[n + 1]
      <3>1. read.total + line.size \in Nat
        BY <1>1, <1>2, LineIs DEF Reads
      <3>2. counted.total = read.total + line.size
        BY <1>2 DEF Reads
      <3>3. Bytes(lines)[n + 1] = Bytes(lines)[n] + line.size
        BY BytesAre
      <3> HIDE DEF line
      <3> QED BY <1>2, <1>6, <2>1, <3>1, <3>2, <3>3 DEF Reads
    <2>4. [counted EXCEPT !.at = "refused"] \in Reads
      BY <2>3 DEF Reads
    <2>5. [counted EXCEPT !.at = "refused"].at = "refused"
      BY <2>3 DEF Reads
    <2>6. /\ counted.total > MaxRequest => new = [counted EXCEPT !.at = "refused"]
          /\ counted.total <= MaxRequest =>
               new = CASE line.key = "blank" -> [counted EXCEPT !.at = "end"]
                       [] line.key = "malformed" -> [counted EXCEPT !.at = "refused"]
                       [] line.key = "path" -> counted
                       [] OTHER -> IF Repeated(read, line)
                                   THEN [counted EXCEPT !.at = "refused"]
                                   ELSE [counted EXCEPT ![line.key] = line.value]
      <3>1. counted.total \in Nat /\ MaxRequest \in Nat
        BY <2>3, HelperAssumption DEF Reads
      <3> QED BY <1>6, <3>1 DEF ReadLine
    <2>7. CASE counted.total > MaxRequest
      <3>1. n + 1 \in Counted(lines, n + 1)
        BY <2>2
      <3> HIDE DEF new, counted
      <3> QED BY <2>3, <2>4, <2>5, <2>6, <2>7, <3>1 DEF LoopInv
    <2>8. CASE counted.total <= MaxRequest
      <3> HIDE DEF counted
      <3>1. \A i \in Counted(lines, n + 1) : Bytes(lines)[i] <= MaxRequest
        <4>1. \A i \in 1 .. n : Bytes(lines)[i] <= MaxRequest
          BY <1>6, <2>2 DEF LoopInv
        <4>2. \A i \in 1 .. n + 1 : i \in 1 .. n \/ i = n + 1
          OBVIOUS
        <4> HIDE DEF line, new
        <4> QED BY <2>2, <2>3, <2>8, <4>1, <4>2
      <3>2. CASE line.key = "blank"
        <4>1. new = [counted EXCEPT !.at = "end"]
          BY <2>6, <2>8, <3>2
        <4>2. Seen(lines, n + 1) = Seen(lines, n)
          BY <2>1, <3>2, NewLine
        <4>3. new \in Reads /\ new.at = "end"
              /\ new.protocol = read.protocol /\ new.host = read.host
          BY <2>3, <4>1 DEF Reads
        <4>4. \E j \in 1 .. n + 1 : lines[j].key = "blank"
          BY <3>2
        <4> HIDE DEF new, line
        <4> QED BY <1>6, <3>1, <4>2, <4>3, <4>4 DEF LoopInv
      <3>3. CASE line.key # "blank"
        <4>1. Seen(lines, n + 1) = 1 .. n + 1
          BY <2>1, <3>3, NewLine
        <4>2. n + 1 \in Seen(lines, n + 1)
          BY <4>1
        <4>3. CASE line.key = "malformed"
          <5>1. new = [counted EXCEPT !.at = "refused"]
            BY <2>6, <2>8, <4>3
          <5> HIDE DEF new
          <5> QED BY <2>4, <2>5, <4>2, <4>3, <5>1 DEF LoopInv
        <4>4. /\ Known(lines, 1 .. n, "protocol", read.protocol)
              /\ Known(lines, 1 .. n, "host", read.host)
              /\ \A i \in 1 .. n : lines[i].key # "malformed"
          BY <1>6, <2>1 DEF LoopInv
        <4>5. \A i \in 1 .. n + 1 : i \in 1 .. n \/ i = n + 1
          OBVIOUS
        <4>6. CASE line.key = "path"
          <5>1. new = counted
            BY <2>6, <2>8, <4>6
          <5>2. Known(lines, 1 .. n + 1, "protocol", read.protocol)
            BY <4>4, <4>5, <4>6 DEF Known
          <5>3. Known(lines, 1 .. n + 1, "host", read.host)
            BY <4>4, <4>5, <4>6 DEF Known
          <5>4. \A i \in 1 .. n + 1 : lines[i].key # "malformed"
            BY <4>4, <4>5, <4>6
          <5> HIDE DEF new, line
          <5> QED BY <2>3, <3>1, <4>1, <5>1, <5>2, <5>3, <5>4 DEF LoopInv
        <4>7. CASE line.key \in Keys
          <5>1. CASE read[line.key] # None
            <6>1. new = [counted EXCEPT !.at = "refused"]
              BY <2>6, <2>8, <4>7, <5>1 DEF Repeated, Keys
            <6>2. Known(lines, 1 .. n, line.key, read[line.key])
              BY <4>4, <4>7 DEF Keys
            <6>3. PICK i \in 1 .. n : lines[i].key = line.key
              BY <5>1, <6>2 DEF Known
            <6>4. i # n + 1 /\ i \in Seen(lines, n + 1)
              BY <4>1
            <6> HIDE DEF new
            <6> QED BY <2>4, <2>5, <4>2, <4>7, <6>1, <6>3, <6>4 DEF LoopInv
          <5>2. CASE read[line.key] = None
            <6>1. new = [counted EXCEPT ![line.key] = line.value]
              BY <2>6, <2>8, <4>7, <5>2 DEF Repeated, Keys
            <6>2. /\ new \in Reads /\ new.at = "reading"
                  /\ new.total = counted.total
                  /\ new[line.key] = line.value
                  /\ \A key \in Keys : key # line.key => new[key] = read[key]
              BY <1>1, <2>3, <4>7, <6>1, LineIs DEF Reads, Keys
            <6>3. \A i \in 1 .. n : lines[i].key # line.key
              <7>1. Known(lines, 1 .. n, line.key, None)
                BY <4>4, <4>7, <5>2 DEF Keys
              <7>2. ASSUME NEW i \in 1 .. n, lines[i].key = line.key, lines[i].value = None
                    PROVE FALSE
                <8>1. lines[i] \in Lines
                  OBVIOUS
                <8> QED BY <4>7, <7>2, <8>1, LineIs, HelperAssumption DEF Keys, None
              <7> HIDE DEF line
              <7> QED BY <7>1, <7>2 DEF Known
            <6>4. Known(lines, 1 .. n + 1, line.key, line.value)
              BY <4>5, <6>3 DEF Known
            <6>5. ASSUME NEW key \in Keys, key # line.key
                  PROVE  Known(lines, 1 .. n + 1, key, read[key])
              <7>1. Known(lines, 1 .. n, key, read[key])
                BY <4>4 DEF Keys
              <7> QED BY <4>5, <6>5, <7>1 DEF Known
            <6>6. ASSUME NEW key \in Keys PROVE Known(lines, 1 .. n + 1, key, new[key])
              <7> HIDE DEF new, line
              <7> QED BY <6>2, <6>4, <6>5
            <6>7. \A i \in 1 .. n + 1 : lines[i].key # "malformed"
              BY <4>4, <4>5, <4>7 DEF Keys
            <6> HIDE DEF new, line
            <6>8. /\ Known(lines, 1 .. n + 1, "protocol", new.protocol)
                  /\ Known(lines, 1 .. n + 1, "host", new.host)
              BY <6>6 DEF Keys
            <6> QED BY <2>3, <3>1, <4>1, <6>2, <6>7, <6>8 DEF LoopInv
          <5> QED BY <5>1, <5>2
        <4> HIDE DEF new
        <4> QED BY <1>1, <3>3, <4>3, <4>6, <4>7, LineIs DEF Keys
      <3> QED BY <3>2, <3>3
    <2>9. counted.total \in Nat /\ MaxRequest \in Nat
      BY <2>3, HelperAssumption DEF Reads
    <2> HIDE DEF counted, new
    <2> QED BY <2>7, <2>8, <2>9
  <1> QED BY <1>2, <1>4, <1>5, <1>6 DEF Reads

\* What the loop has after every line, if each turn goes on from the one before.
LEMMA EveryTurn ==
    ASSUME NEW lines \in Seq(Lines), NEW g, g[0] = Start,
           \A n \in Nat : n + 1 <= Len(lines) /\ LoopInv(lines, n, g[n])
                => g[n + 1] = ReadLine(g[n], lines[n + 1])
    PROVE  \A n \in 0 .. Len(lines) : LoopInv(lines, n, g[n])
  <1> SUFFICES ASSUME NEW n \in 0 .. Len(lines) PROVE LoopInv(lines, n, g[n])
    OBVIOUS
  <1> DEFINE M == {k \in Nat : LoopInv(lines, k, g[k])}
  <1>1. 0 \in M
    <2>1. /\ Start \in Reads /\ Start.at = "reading" /\ Start.total = 0
          /\ Start.protocol = None /\ Start.host = None
      BY DEF Start, Reads
    <2>2. Seen(lines, 0) = {} /\ Counted(lines, 0) = {} /\ 1 .. 0 = {}
      BY DEF Seen, Counted
    <2>3. Bytes(lines)[0] = 0
      BY BytesAre
    <2>4. LoopInv(lines, 0, Start)
      BY <2>1, <2>2, <2>3 DEF LoopInv, Known
    <2> QED BY <2>4
  <1>2. ASSUME NEW k \in Nat, k \in M, k < n PROVE k + 1 \in M
    <2>1. k + 1 <= Len(lines) /\ LoopInv(lines, k, g[k])
      BY <1>2
    <2> QED BY <2>1, LoopKeeps
  <1>3. n \in M
    <2> HIDE DEF M
    <2> QED BY <1>1, <1>2, UpTo
  <1> QED BY <1>3

\* The loop reads to the end of any input: its recursion has a solution, and what
\* holds after each turn holds after the last.
LEMMA AllRead ==
    ASSUME NEW lines \in Seq(Lines)
    PROVE  LoopInv(lines, Len(lines), ReadAll(lines))
  <1> DEFINE L == Len(lines)
             Body(g, n) == IF n = 0 THEN Start ELSE ReadLine(g[n - 1], lines[n])
             Solves(g) == g = [n \in 0 .. L |-> Body(g, n)]
             read == CHOOSE g : Solves(g)
  <1>1. ReadAll(lines) = read[L] /\ L \in Nat
    BY DEF ReadAll
  <1>2. \E g : Solves(g)
    <2> DEFINE step == [n \in 1 .. L |-> [r \in Reads |-> ReadLine(r, lines[n])]]
    <2>1. PICK g : Iterates(L, Start, step, g)
      <3> HIDE DEF step, L
      <3> QED BY <1>1, IterationSolved
    <2> HIDE DEF L
    <2>2. /\ g[0] = Start
          /\ \A n \in 1 .. L : g[n] = step[n][g[n - 1]]
      <3> HIDE DEF step
      <3> QED BY <1>1, <2>1 DEF Iterates
    <2>3. ASSUME NEW n \in 1 .. L, g[n - 1] \in Reads
          PROVE  g[n] = ReadLine(g[n - 1], lines[n])
      <3>1. g[n] = step[n][g[n - 1]]
        BY <1>1, <2>2
      <3> QED BY <2>3, <3>1
    <2>4. g[0] = Start
      BY <1>1, <2>2
    <2>5. ASSUME NEW n \in Nat, n + 1 <= L, LoopInv(lines, n, g[n])
          PROVE  g[n + 1] = ReadLine(g[n], lines[n + 1])
      <3>1. n + 1 \in 1 .. L /\ (n + 1) - 1 = n /\ g[n] \in Reads
        BY <1>1, <2>5 DEF LoopInv
      <3> QED BY <2>3, <3>1
    <2>6. \A n \in 0 .. L : LoopInv(lines, n, g[n])
      <3> HIDE DEF step
      <3> QED BY <2>4, <2>5, EveryTurn DEF L
    <2>7. ASSUME NEW n \in 0 .. L PROVE g[n] = Body(g, n)
      <3>1. CASE n # 0
        <4>1. n \in 1 .. L /\ n - 1 \in 0 .. L
          BY <1>1, <3>1
        <4>2. g[n - 1] \in Reads
          BY <2>6, <4>1 DEF LoopInv
        <4> QED BY <2>3, <3>1, <4>1, <4>2
      <3> QED BY <2>4, <3>1
    <2>8. g = [n \in 0 .. L |-> g[n]]
      <3> HIDE DEF step
      <3> QED BY <2>1 DEF Iterates
    <2> HIDE DEF Body
    <2>9. g = [n \in 0 .. L |-> Body(g, n)]
      BY <2>7, <2>8
    <2> QED BY <2>9
  <1> HIDE DEF L
  <1>3. Solves(read)
    <2> HIDE DEF Solves
    <2> QED BY <1>2
  <1> HIDE DEF read
  <1>4. \A n \in 0 .. L : read[n] = Body(read, n)
    <2> HIDE DEF Body
    <2> QED BY <1>3
  <1>5. read[0] = Start
    BY <1>1, <1>4
  <1>6. ASSUME NEW n \in Nat, n + 1 <= L PROVE read[n + 1] = ReadLine(read[n], lines[n + 1])
    <2>1. n + 1 \in 0 .. L /\ n + 1 # 0 /\ (n + 1) - 1 = n
      BY <1>1, <1>6
    <2> QED BY <1>4, <2>1
  <1>7. \A n \in 0 .. L : LoopInv(lines, n, read[n])
    BY <1>5, <1>6, EveryTurn DEF L
  <1> QED BY <1>1, <1>7 DEF L

\* The helper tells the token to a request for the host that is short enough, and
\* to no other.
THEOREM HelperIsRight ==
    ASSUME NEW action \in {"get", "store", "erase", "other"}, NEW lines \in Seq(Lines),
           NEW usable \in BOOLEAN
    PROVE  Answer(action, lines, usable) = "token"
             <=> action = "get" /\ usable /\ NamesTheHost(lines)
  <1> DEFINE read == ReadAll(lines)
             S == Request(lines)
  <1>1. Seen(lines, Len(lines)) = S /\ Counted(lines, Len(lines)) = Ended(lines)
    BY DEF Seen, Request, Counted, Ended
  <1>2. LoopInv(lines, Len(lines), read)
    BY AllRead
  <1> HIDE DEF read, S
  <1>3. Answer(action, lines, usable) = "token"
          <=> /\ action = "get" /\ usable
              /\ read.at # "refused" /\ read.protocol = "https" /\ read.host = Host
    BY DEF Answer, read
  <1>4. CASE read.at = "refused"
    <2>1. CASE \E i \in S : lines[i].key = "malformed"
      BY <1>3, <1>4, <2>1 DEF NamesTheHost, S
    <2>3. CASE \E i \in Ended(lines) : Bytes(lines)[i] > MaxRequest
      <3>1. PICK i \in Ended(lines) : Bytes(lines)[i] > MaxRequest
        BY <2>3
      <3>2. Bytes(lines)[i] \in Nat /\ MaxRequest \in Nat
        <4>1. i \in 0 .. Len(lines)
          BY DEF Ended
        <4> QED BY <4>1, BytesAre, HelperAssumption
      <3>3. ~ NamesTheHost(lines)
        BY <3>1, <3>2 DEF NamesTheHost
      <3> QED BY <1>3, <1>4, <3>3
    <2>2. CASE \E i, j \in S : i # j /\ lines[i].key \in Keys /\ lines[j].key = lines[i].key
      <3>1. PICK i \in S, j \in S : i # j /\ lines[i].key \in Keys /\ lines[j].key = lines[i].key
        BY <2>2
      <3>2. ASSUME NEW key \in Keys, NEW value, Gives(lines, key, value) PROVE key # lines[i].key
        BY <3>1, <3>2 DEF Gives, S
      <3>3. ~ NamesTheHost(lines)
        BY <3>1, <3>2 DEF NamesTheHost, Keys
      <3> QED BY <1>3, <1>4, <3>3
    <2> QED BY <1>1, <1>2, <1>4, <2>1, <2>2, <2>3 DEF LoopInv
  <1>5. CASE read.at # "refused"
    <2>1. /\ \A i \in S : lines[i].key # "malformed"
          /\ \A i \in Ended(lines) : Bytes(lines)[i] <= MaxRequest
          /\ Known(lines, S, "protocol", read.protocol)
          /\ Known(lines, S, "host", read.host)
      BY <1>1, <1>2, <1>5 DEF LoopInv
    <2>2. ASSUME NEW key, NEW value, NEW wanted, wanted # None, Known(lines, S, key, value)
          PROVE  Gives(lines, key, wanted) <=> value = wanted
      <3>1. CASE value = None /\ \A i \in S : lines[i].key # key
        BY <2>2, <3>1 DEF Gives, S
      <3>2. CASE \E i \in S : /\ lines[i].key = key /\ lines[i].value = value
                              /\ \A j \in S : lines[j].key = key => j = i
        <4>1. PICK i \in S : /\ lines[i].key = key /\ lines[i].value = value
                             /\ \A j \in S : lines[j].key = key => j = i
          BY <3>2
        <4>2. Gives(lines, key, value)
          BY <4>1 DEF Gives, S
        <4>3. ASSUME NEW j \in S, lines[j].key = key, lines[j].value = wanted
              PROVE  value = wanted
          BY <4>1, <4>3
        <4> QED BY <4>2, <4>3 DEF Gives, S
      <3> QED BY <2>2, <3>1, <3>2 DEF Known
    <2>3. Gives(lines, "protocol", "https") <=> read.protocol = "https"
      BY <2>1, <2>2 DEF None
    <2>4. Gives(lines, "host", Host) <=> read.host = Host
      BY <2>1, <2>2, HelperAssumption
    <2>5. NamesTheHost(lines) <=> read.protocol = "https" /\ read.host = Host
      BY <2>1, <2>3, <2>4 DEF NamesTheHost, S
    <2> QED BY <1>3, <1>5, <2>5
  <1> QED BY <1>4, <1>5

-----------------------------------------------------------------------------
(* The inductive invariant *)

Stages ==
    {"written", "sent", "accepted", "called", "reserved", "checked", "prepared",
     "refused", "unapproved", "denied"}
Unread == {"written", "refused"}
Reserved == {"reserved", "checked", "denied", "prepared"}

\* What the system needs stays; a link that moved leads to a program.
FilesInv ==
    /\ \A q \in removed, k \in Kept : ~IsPrefix(q, k)
    /\ DOMAIN moved \subseteq Links /\ \A w \in DOMAIN moved : moved[w] \in Executables
    /\ stage = "written" => removed = {} /\ moved = <<>>

\* Profiles that differ from the one that was written in nothing but their lists.
Variant(pr) ==
    /\ pr = [asked EXCEPT !.read = pr.read, !.write = pr.write, !.protected = pr.protected,
                          !.commands = pr.commands, !.shell = pr.shell]
    /\ \A l \in Policy : pr[l] \subseteq Written \union Paths
    /\ pr.commands \union pr.shell \subseteq Argvs(Written \union Paths)

OptionsInv ==
    /\ asked \in Requested /\ Variant(profile)
    /\ stage = "written" => profile = Unordered(asked)
    /\ stage \notin Unread /\ asked.keychain => asked.enabled /\ platform = "macos"

\* The rules are those that were read, without links, and programs.
RulesInv ==
    stage \notin Unread =>
        /\ profile.commands = {AsRead(rule) : rule \in Range(asked.commands)}
        /\ profile.commands # {} /\ IsFiniteSet(profile.commands)
        /\ Cardinality(profile.commands) <= Limit["commands"]
        /\ \A rule \in profile.commands \union profile.shell : rule.executable \in Executables

\* A list without links keeps within its bound.
ListOK(pr, l) ==
    /\ pr[l] \subseteq Paths \ {<<>>}
    /\ IsFiniteSet(pr[l]) /\ Cardinality(pr[l]) <= Limit[l]

\* The lists are those that were read and, once the profile is accepted, what
\* the service adds; the masks cover what they have to, and none is in another.
ListsInv ==
    stage \notin Unread =>
        IF ~asked.enabled THEN \A l \in Policy : profile[l] = {}
        ELSE LET accepted == stage # "sent" IN
             /\ \A l \in Policy : ListOK(profile, l)
             /\ profile.read = Led("read") \union If(accepted, ToRead(asked))
             /\ profile.write = Led("write")
             /\ \A p \in Paths : Under(p, profile.protected)
                    <=> Under(p, Led("protected") \union If(accepted, ToProtect(asked)))
             /\ \A p \in profile.protected : ~IsPrefix(p, Project)
             /\ Outermost(profile.protected) = profile.protected

\* The command of the request is the one that was asked for until the service
\* resolves it, and a rule from then on.
RequestInv ==
    /\ stage \in Unread \union {"sent", "accepted"} => call = {}
    /\ stage = "called" => argv \in Argvs(Written \union Paths) /\ call = {argv}
    /\ stage \in Reserved => argv \in profile.commands
    /\ stage = "unapproved" => removed # {} \/ moved # <<>> \/ ~Approved
    /\ stage = "denied" => removed # {} \/ (asked.ssh /\ ~asked.network)

\* What is mounted is there, and the backend was told what the profile says.
PreparedInv ==
    stage \in {"checked", "prepared"} =>
        /\ Exists(argv.executable)
        /\ asked.enabled =>
            \A p \in profile.read \union profile.write \union profile.protected : Exists(p)
        /\ stage = "prepared" => command = Told /\ (asked.enabled => AgentAllowed)

SandboxInv ==
    /\ platform \in {"linux", "macos"} /\ stage \in Stages
    /\ FilesInv /\ OptionsInv /\ RulesInv /\ ListsInv /\ RequestInv /\ PreparedInv

-----------------------------------------------------------------------------
(* Paths *)

\* Prefixes order the paths.
LEMMA PrefixOrder ==
    ASSUME NEW p \in Seq(Names), NEW q \in Seq(Names), NEW r \in Seq(Names)
    PROVE  /\ IsPrefix(p, p) /\ IsPrefix(<<>>, p)
           /\ IsPrefix(p, <<>>) => p = <<>>
           /\ IsPrefix(p, q) => Len(p) <= Len(q) /\ (Len(p) = Len(q) => p = q)
           /\ IsPrefix(p, q) /\ IsPrefix(q, r) => IsPrefix(p, r)
  <1>1. IsPrefix(p, p)
    BY DEF IsPrefix
  <1>2. IsPrefix(<<>>, p)
    <2>1. Len(<<>>) = 0 /\ SubSeq(<<>>, 1, 0) = <<>> /\ SubSeq(p, 1, 0) = <<>>
      OBVIOUS
    <2> QED BY <2>1 DEF IsPrefix
  <1>3. ASSUME IsPrefix(p, q) PROVE Len(p) <= Len(q) /\ (Len(p) = Len(q) => p = q)
    <2>1. SubSeq(p, 1, Len(p)) = p /\ SubSeq(q, 1, Len(q)) = q
      OBVIOUS
    <2> QED BY <1>3, <2>1 DEF IsPrefix
  <1>4. IsPrefix(p, <<>>) => p = <<>>
    BY DEF IsPrefix
  <1>5. ASSUME IsPrefix(p, q), IsPrefix(q, r) PROVE IsPrefix(p, r)
    <2>1. Len(p) <= Len(q) /\ Len(q) <= Len(r)
      BY <1>5 DEF IsPrefix
    <2>2. \A i \in 1 .. Len(p) : p[i] = q[i]
      <3>1. ASSUME NEW i \in 1 .. Len(p)
            PROVE  SubSeq(p, 1, Len(p))[i] = p[i] /\ SubSeq(q, 1, Len(p))[i] = q[i]
        BY <2>1
      <3> QED BY <1>5, <3>1 DEF IsPrefix
    <2>3. \A i \in 1 .. Len(q) : q[i] = r[i]
      <3>1. ASSUME NEW i \in 1 .. Len(q)
            PROVE  SubSeq(q, 1, Len(q))[i] = q[i] /\ SubSeq(r, 1, Len(q))[i] = r[i]
        BY <2>1
      <3> QED BY <1>5, <3>1 DEF IsPrefix
    <2>4. SubSeq(p, 1, Len(p)) = SubSeq(r, 1, Len(p))
      <3>1. \A i \in 1 .. Len(p) : p[i] = r[i]
        BY <2>1, <2>2, <2>3
      <3> QED BY <2>1, <3>1
    <2> QED BY <2>1, <2>4 DEF IsPrefix
  <1> QED BY <1>1, <1>2, <1>3, <1>4, <1>5

\* What SandboxAssumption says of the places, spelled out.
LEMMA PathsAre ==
    /\ Paths \subseteq Seq(Names) /\ Missing \notin Paths
    /\ Places \subseteq Paths
    /\ Kept \subseteq Paths /\ Existing \subseteq Paths
    /\ {Project, Agent, DataDir, RuntimeDir, CredentialFile, Exe, Keychains, Temporary}
            \subseteq Paths
    /\ {Project, Agent} \subseteq Kept /\ SystemRoots \subseteq Kept /\ NetworkFiles \subseteq Kept
    /\ \A w \in Written : Resolve[w] \in Paths \union {Missing}
    /\ Links \subseteq Written /\ Links \intersect Paths = {}
    /\ \A p \in Paths : Leads(p) = p
  <1>1. Paths \subseteq Seq(Names)
    <2>1. ASSUME NEW p \in Places, NEW l \in 0 .. Len(p) PROVE SubSeq(p, 1, l) \in Seq(Names)
      BY SandboxAssumption
    <2> QED BY <2>1 DEF Paths, Prefixes
  <1>2. Places \subseteq Paths
    <2>1. ASSUME NEW p \in Places PROVE p \in Prefixes(p)
      <3>1. p \in Seq(Names)
        BY SandboxAssumption
      <3>2. p = SubSeq(p, 1, Len(p)) /\ Len(p) \in 0 .. Len(p)
        BY <3>1
      <3> QED BY <3>2 DEF Prefixes
    <2> QED BY <2>1 DEF Paths
  <1>3. /\ Kept \subseteq Places /\ Existing \subseteq Places
        /\ {Project, Agent, DataDir, RuntimeDir, CredentialFile, Exe, Keychains, Temporary}
                \subseteq Places
        /\ {Project, Agent} \subseteq Kept /\ SystemRoots \subseteq Kept
        /\ NetworkFiles \subseteq Kept
    BY DEF Places, Kept
  <1>4. \A w \in Written : Resolve[w] \in Paths \union {Missing}
    BY SandboxAssumption
  <1>5. Links \subseteq Written /\ Links \intersect Paths = {}
    BY SandboxAssumption DEF Links
  <1>6. \A p \in Paths : Leads(p) = p
    BY SandboxAssumption DEF Leads
  <1>7. Missing \notin Paths
    BY SandboxAssumption
  <1> QED BY <1>1, <1>2, <1>3, <1>4, <1>5, <1>6, <1>7

\* What is below one of the paths of a set is below an outermost one.
LEMMA OutermostCovers ==
    ASSUME NEW S \in SUBSET Seq(Names), NEW p \in Seq(Names)
    PROVE  Under(p, Outermost(S)) <=> Under(p, S)
  <1>1. Outermost(S) \subseteq S
    BY DEF Outermost
  <1>2. ASSUME Under(p, S) PROVE Under(p, Outermost(S))
    <2> DEFINE Lens == {n \in Nat : \E q \in S : IsPrefix(q, p) /\ Len(q) = n}
    <2>1. PICK q0 \in S : IsPrefix(q0, p)
      BY <1>2 DEF Under
    <2>2. Lens \in SUBSET Nat /\ Lens # {}
      BY <2>1
    <2>3. \E x \in Lens : \A y \in Lens : ~ (<<y, x>> \in OpToRel(<, Nat))
      <3> HIDE DEF Lens
      <3> QED BY <2>2, NatLessThanWellFounded, WFMin
    <2>4. PICK x \in Lens : \A y \in Lens : ~ (y < x)
      BY <2>2, <2>3, Zenon DEF OpToRel
    <2>5. PICK q \in S : IsPrefix(q, p) /\ Len(q) = x
      BY <2>4
    <2>6. ASSUME NEW r \in S, IsPrefix(r, q) PROVE r = q
      <3>1. IsPrefix(r, p) /\ Len(r) <= Len(q) /\ (Len(r) = Len(q) => r = q)
        BY <2>5, <2>6, PrefixOrder
      <3>2. Len(r) \in Lens /\ Len(q) \in Nat /\ Len(r) \in Nat
        BY <3>1
      <3>3. ~ (Len(r) < x)
        BY <2>4, <3>2
      <3> QED BY <2>5, <3>1, <3>2, <3>3
    <2>7. q \in Outermost(S)
      BY <2>5, <2>6 DEF Outermost
    <2> QED BY <2>5, <2>7 DEF Under
  <1> QED BY <1>1, <1>2 DEF Under

\* A list without nested masks stays as it is.
LEMMA OutermostTwice ==
    ASSUME NEW S
    PROVE  Outermost(S) \subseteq S /\ Outermost(Outermost(S)) = Outermost(S)
  BY DEF Outermost

-----------------------------------------------------------------------------
(* Files *)

\* Where paths lead: one without links to itself as long as it is there, and any
\* to where it led when the profile was read, as long as nothing is changed.
LEMMA RealIs ==
    ASSUME FilesInv
    PROVE  /\ \A p \in Paths : Real(p) = IF Exists(p) THEN p ELSE Missing
           /\ \A w \in Written \union Paths : Real(w) \in Paths \union {Missing}
           /\ \A w : Real(w) # Missing => Exists(Real(w))
           /\ removed = {} /\ moved = <<>> =>
                \A w \in Written \union Paths : Real(w) = Leads(w)
           /\ \A k \in Kept : Exists(k)
           /\ removed = {} => \A p : Exists(p)
  <1>1. /\ DOMAIN moved \subseteq Links
        /\ \A w \in DOMAIN moved : moved[w] \in Paths
    BY SandboxAssumption DEF FilesInv
  <1>2. ASSUME NEW p \in Paths PROVE LeadsNow(p) = p /\ p # Missing
    <2>1. p \notin DOMAIN moved
      BY <1>1, PathsAre
    <2> QED BY <2>1, PathsAre DEF LeadsNow
  <1>3. ASSUME NEW w \in Written \union Paths PROVE LeadsNow(w) \in Paths \union {Missing}
    BY <1>1, PathsAre DEF LeadsNow, Leads
  <1>4. removed = {} => \A p : Exists(p)
    BY DEF Exists
  <1>5. \A k \in Kept : Exists(k)
    BY DEF FilesInv, Exists
  <1>6. ASSUME removed = {}, moved = <<>>, NEW w \in Written \union Paths
        PROVE  Real(w) = Leads(w)
    <2>1. DOMAIN moved = {}
      BY <1>6
    <2>2. LeadsNow(w) = Leads(w)
      BY <2>1 DEF LeadsNow
    <2> QED BY <1>4, <1>6, <2>2 DEF Real
  <1>7. \A p \in Paths : Real(p) = IF Exists(p) THEN p ELSE Missing
    BY <1>2 DEF Real
  <1>8. \A w \in Written \union Paths : Real(w) \in Paths \union {Missing}
    BY <1>3 DEF Real
  <1>9. \A w : Real(w) # Missing => Exists(Real(w))
    BY DEF Real
  <1> QED BY <1>4, <1>5, <1>6, <1>7, <1>8, <1>9

\* Reading a list does not make it longer ...
LEMMA RangeSize ==
    ASSUME NEW X, NEW s \in Seq(X)
    PROVE  /\ IsFiniteSet(Range(s)) /\ Cardinality(Range(s)) <= Len(s)
           /\ Range(s) \subseteq X
           /\ Len(s) = 0 => Range(s) = {}
           /\ Len(s) # 0 => Range(s) # {}
  <1>1. s \in Surjection(1 .. Len(s), Range(s))
    BY DEF Surjection, Range
  <1>2. IsFiniteSet(1 .. Len(s)) /\ Cardinality(1 .. Len(s)) = Len(s) /\ Len(s) \in Nat
    <2>1. Len(s) \in Nat
      OBVIOUS
    <2>2. IsFiniteSet(1 .. Len(s)) /\ Cardinality(1 .. Len(s))
             = IF 1 > Len(s) THEN 0 ELSE Len(s) - 1 + 1
      BY <2>1, FS_Interval
    <2> QED BY <2>1, <2>2
  <1>3. IsFiniteSet(Range(s)) /\ Cardinality(Range(s)) <= Cardinality(1 .. Len(s))
    BY <1>1, <1>2, FS_Surjection
  <1> QED BY <1>2, <1>3 DEF Range

\* ... nor does resolving its paths or its rules.
LEMMA ResolvedSize ==
    ASSUME NEW S, IsFiniteSet(S)
    PROVE  /\ IsFiniteSet(Canonical(S)) /\ Cardinality(Canonical(S)) <= Cardinality(S)
           /\ IsFiniteSet(ResolvedAll(S)) /\ Cardinality(ResolvedAll(S)) <= Cardinality(S)
  <1>1. [w \in S |-> Real(w)] \in Surjection(S, Canonical(S))
    BY DEF Surjection, Canonical
  <1>2. [a \in S |-> Resolved(a)] \in Surjection(S, ResolvedAll(S))
    BY DEF Surjection, ResolvedAll
  <1>3. IsFiniteSet(Canonical(S)) /\ Cardinality(Canonical(S)) <= Cardinality(S)
    BY <1>1, FS_Surjection
  <1>4. IsFiniteSet(ResolvedAll(S)) /\ Cardinality(ResolvedAll(S)) <= Cardinality(S)
    BY <1>2, FS_Surjection
  <1> QED BY <1>3, <1>4

-----------------------------------------------------------------------------
(* Profiles *)

\* The parts of a profile: of any that differs from the file's in its lists only,
LEMMA VariantIs ==
    ASSUME asked \in Requested, NEW pr, Variant(pr)
    PROVE  /\ pr.enabled = asked.enabled /\ pr.network = asked.network
           /\ pr.keychain = asked.keychain /\ pr.ssh = asked.ssh
           /\ pr.git = asked.git /\ pr.file = asked.file
           /\ \A option \in {"enabled", "network", "keychain", "ssh", "git", "file"} :
                    asked[option] \in BOOLEAN
           /\ pr["read"] = pr.read /\ pr["write"] = pr.write /\ pr["protected"] = pr.protected
  BY RequestAssumption DEF Variant

\* ... of the profile as the file has it,
LEMMA UnorderedIs ==
    ASSUME asked \in Requested
    PROVE  LET pr == Unordered(asked) IN
           /\ Variant(pr)
           /\ pr.read = Range(asked.read) /\ pr.write = Range(asked.write)
           /\ pr.protected = Range(asked.protected) /\ pr.commands = Range(asked.commands)
           /\ pr.shell = asked.shell /\ asked.shell \subseteq Argvs(Written)
           /\ asked.commands \in Seq(Argvs(Written))
           /\ asked.read \in Seq(Written) /\ asked.write \in Seq(Written)
           /\ asked.protected \in Seq(Written)
  <1> DEFINE pr == Unordered(asked)
  <1>1. /\ asked.shell \subseteq Argvs(Written) /\ asked.commands \in Seq(Argvs(Written))
        /\ asked.read \in Seq(Written) /\ asked.write \in Seq(Written)
        /\ asked.protected \in Seq(Written)
    BY RequestAssumption
  <1>2. /\ pr.read = Range(asked.read) /\ pr.write = Range(asked.write)
        /\ pr.protected = Range(asked.protected) /\ pr.commands = Range(asked.commands)
        /\ pr.shell = asked.shell
        /\ pr["read"] = pr.read /\ pr["write"] = pr.write /\ pr["protected"] = pr.protected
    BY RequestAssumption DEF Unordered
  <1>3. pr = [asked EXCEPT !.read = pr.read, !.write = pr.write, !.protected = pr.protected,
                           !.commands = pr.commands, !.shell = pr.shell]
    BY RequestAssumption DEF Unordered
  <1>4. Argvs(Written) \subseteq Argvs(Written \union Paths)
    BY DEF Argvs
  <1> HIDE DEF pr
  <1>5. Range(asked.read) \subseteq Written /\ Range(asked.write) \subseteq Written
        /\ Range(asked.protected) \subseteq Written
        /\ Range(asked.commands) \subseteq Argvs(Written)
    BY <1>1, RangeSize
  <1>6. Variant(pr)
    BY <1>1, <1>2, <1>3, <1>4, <1>5 DEF Variant, Policy
  <1> QED BY <1>1, <1>2, <1>6 DEF pr

\* ... and of one that validate has normalised.
LEMMA NormalIs ==
    ASSUME asked \in Requested, FilesInv, NEW pr, Variant(pr),
           Canonical(pr.read) \subseteq Paths, Canonical(pr.write) \subseteq Paths,
           Canonical(pr.protected) \subseteq Paths,
           ResolvedAll(pr.commands) \union ResolvedAll(pr.shell) \subseteq Argvs(Paths)
    PROVE  LET n == Normal(pr) IN
           /\ Variant(n)
           /\ n.read = Canonical(pr.read) /\ n.write = Canonical(pr.write)
           /\ n.protected = Outermost(Canonical(pr.protected))
           /\ n.commands = ResolvedAll(pr.commands) /\ n.shell = ResolvedAll(pr.shell)
  <1> DEFINE n == Normal(pr)
  <1>1. pr = [asked EXCEPT !.read = pr.read, !.write = pr.write, !.protected = pr.protected,
                           !.commands = pr.commands, !.shell = pr.shell]
    BY DEF Variant
  <1>2. /\ n.read = Canonical(pr.read) /\ n.write = Canonical(pr.write)
        /\ n.protected = Outermost(Canonical(pr.protected))
        /\ n.commands = ResolvedAll(pr.commands) /\ n.shell = ResolvedAll(pr.shell)
        /\ n["read"] = n.read /\ n["write"] = n.write /\ n["protected"] = n.protected
    BY <1>1, RequestAssumption DEF Normal
  <1>3. n = [asked EXCEPT !.read = n.read, !.write = n.write, !.protected = n.protected,
                          !.commands = n.commands, !.shell = n.shell]
    BY <1>1, RequestAssumption DEF Normal
  <1>4. Argvs(Paths) \subseteq Argvs(Written \union Paths)
    BY DEF Argvs
  <1>5. Outermost(Canonical(pr.protected)) \subseteq Canonical(pr.protected)
    BY OutermostTwice
  <1> HIDE DEF n
  <1>6. Variant(n)
    BY <1>2, <1>3, <1>4, <1>5 DEF Variant, Policy
  <1> QED BY <1>2, <1>6 DEF n

\* Rules that validate accepted are resolved to programs.
LEMMA RulesResolved ==
    ASSUME FilesInv, NEW rules \in SUBSET Argvs(Written \union Paths),
           \A rule \in rules : Executable(rule.executable) # Missing
    PROVE  /\ ResolvedAll(rules) \subseteq Argvs(Paths)
           /\ \A rule \in ResolvedAll(rules) : rule.executable \in Executables
           /\ ResolvedAll(rules) = {} <=> rules = {}
           /\ removed = {} /\ moved = <<>> /\ rules \subseteq Argvs(Written) =>
                ResolvedAll(rules) = {AsRead(rule) : rule \in rules}
  <1>1. ASSUME NEW rule \in rules
        PROVE  Resolved(rule) \in Argvs(Paths) /\ Resolved(rule).executable \in Executables
    <2>1. Real(rule.executable) \in Executables
      BY DEF Executable
    <2> QED BY <2>1, SandboxAssumption DEF Resolved, Argvs
  <1>2. ASSUME removed = {}, moved = <<>>, rules \subseteq Argvs(Written), NEW rule \in rules
        PROVE  Resolved(rule) = AsRead(rule)
    <2>1. rule.executable \in Written
      BY <1>2 DEF Argvs
    <2>2. Real(rule.executable) = Resolve[rule.executable]
      BY <1>2, <2>1, RealIs DEF Leads
    <2> QED BY <2>2 DEF Resolved, AsRead
  <1>3. removed = {} /\ moved = <<>> /\ rules \subseteq Argvs(Written) =>
            ResolvedAll(rules) = {AsRead(rule) : rule \in rules}
    BY <1>2 DEF ResolvedAll
  <1>4. ResolvedAll(rules) = {} <=> rules = {}
    BY DEF ResolvedAll
  <1> QED BY <1>1, <1>3, <1>4 DEF ResolvedAll

\* A list that validate accepted is resolved to paths that are there.
LEMMA ListResolved ==
    ASSUME FilesInv, NEW S \in SUBSET (Written \union Paths),
           \A w \in S : Real(w) \notin {Missing, <<>>}
    PROVE  /\ Canonical(S) \subseteq Paths \ {<<>>}
           /\ \A p \in Canonical(S) : Exists(p)
           /\ S \subseteq Paths => Canonical(S) = S
           /\ removed = {} /\ moved = <<>> /\ S \subseteq Written =>
                Canonical(S) = {Resolve[w] : w \in S}
  <1>1. ASSUME NEW w \in S
        PROVE  Real(w) \in Paths /\ Real(w) # <<>> /\ Exists(Real(w))
    BY RealIs
  <1>2. ASSUME NEW w \in S, w \in Paths PROVE Real(w) = w
    BY <1>1, <1>2, RealIs, PathsAre
  <1>3. ASSUME removed = {}, moved = <<>>, NEW w \in S, w \in Written
        PROVE  Real(w) = Resolve[w]
    BY <1>3, RealIs DEF Leads
  <1>4. S \subseteq Paths => Canonical(S) = S
    BY <1>2 DEF Canonical
  <1>5. removed = {} /\ moved = <<>> /\ S \subseteq Written =>
            Canonical(S) = {Resolve[w] : w \in S}
    BY <1>3 DEF Canonical
  <1> QED BY <1>1, <1>4, <1>5 DEF Canonical

\* What validate leaves of a profile it accepts, whose lists are no longer than
\* it was told.
LEMMA ValidGives ==
    ASSUME asked \in Requested, FilesInv, NEW pr, Variant(pr), NEW size, Valid(pr, size),
           \A l \in Policy : IsFiniteSet(pr[l]) /\ Cardinality(pr[l]) <= size[l],
           IsFiniteSet(pr.commands), Cardinality(pr.commands) <= size["commands"],
           size \in [Policy \union {"commands"} -> Nat]
    PROVE  LET n == Normal(pr) IN
           /\ Variant(n)
           /\ n.commands = ResolvedAll(pr.commands) /\ n.shell = ResolvedAll(pr.shell)
           /\ n.commands \union n.shell \subseteq Argvs(Paths)
           /\ \A rule \in n.commands \union n.shell : rule.executable \in Executables
           /\ IsFiniteSet(n.commands) /\ Cardinality(n.commands) <= Limit["commands"]
           /\ asked.keychain => asked.enabled /\ platform = "macos"
           /\ ~asked.enabled =>
                \A l \in Policy : pr[l] = {} /\ n[l] = {}
           /\ asked.enabled =>
                /\ \A l \in Policy : ListOK(n, l)
                /\ n.read = Canonical(pr.read) /\ n.write = Canonical(pr.write)
                /\ n.protected = Outermost(Canonical(pr.protected))
                /\ \A p \in n.read \union n.write \union n.protected : Exists(p)
                /\ \A w \in pr.read \union pr.write \union pr.protected :
                        Real(w) \notin {Missing, <<>>}
                /\ \A p \in n.protected : ~IsPrefix(p, Project)
                /\ Outermost(n.protected) = n.protected
                /\ \A p \in Paths : Under(p, n.protected) <=> Under(p, Canonical(pr.protected))
  <1> DEFINE n == Normal(pr)
             rules == pr.commands \union pr.shell
  <1>1. /\ pr.enabled = asked.enabled /\ pr.keychain = asked.keychain
        /\ asked.enabled \in BOOLEAN
        /\ pr["read"] = pr.read /\ pr["write"] = pr.write /\ pr["protected"] = pr.protected
    BY VariantIs
  <1>2. /\ size["commands"] \in 1 .. Limit["commands"]
        /\ \A rule \in rules : Executable(rule.executable) # Missing
    BY DEF Valid, Runnable
  <1>3. rules \subseteq Argvs(Written \union Paths)
    BY DEF Variant
  <1>4. /\ pr.read \subseteq Written \union Paths /\ pr.write \subseteq Written \union Paths
        /\ pr.protected \subseteq Written \union Paths
    BY <1>1 DEF Variant, Policy
  <1>5. /\ ResolvedAll(pr.commands) \subseteq Argvs(Paths)
        /\ ResolvedAll(pr.shell) \subseteq Argvs(Paths)
        /\ \A rule \in ResolvedAll(pr.commands) \union ResolvedAll(pr.shell) :
                rule.executable \in Executables
    <2>1. /\ pr.commands \subseteq Argvs(Written \union Paths)
          /\ \A rule \in pr.commands : Executable(rule.executable) # Missing
      BY <1>2, <1>3
    <2>2. /\ pr.shell \subseteq Argvs(Written \union Paths)
          /\ \A rule \in pr.shell : Executable(rule.executable) # Missing
      BY <1>2, <1>3
    <2>3. /\ ResolvedAll(pr.commands) \subseteq Argvs(Paths)
          /\ \A rule \in ResolvedAll(pr.commands) : rule.executable \in Executables
      BY <2>1, RulesResolved
    <2>4. /\ ResolvedAll(pr.shell) \subseteq Argvs(Paths)
          /\ \A rule \in ResolvedAll(pr.shell) : rule.executable \in Executables
      BY <2>2, RulesResolved
    <2> QED BY <2>3, <2>4
  <1>6. /\ IsFiniteSet(ResolvedAll(pr.commands))
        /\ Cardinality(ResolvedAll(pr.commands)) <= Limit["commands"]
    <2>1. /\ IsFiniteSet(ResolvedAll(pr.commands))
          /\ Cardinality(ResolvedAll(pr.commands)) <= Cardinality(pr.commands)
      BY ResolvedSize
    <2>2. Cardinality(ResolvedAll(pr.commands)) \in Nat /\ Cardinality(pr.commands) \in Nat
      BY <2>1, FS_CardinalityType
    <2>3. size["commands"] \in Nat /\ size["commands"] <= Limit["commands"]
          /\ Limit["commands"] \in Nat
      BY <1>2, SandboxAssumption
    <2> QED BY <2>1, <2>2, <2>3
  <1>7. asked.keychain => asked.enabled /\ platform = "macos"
    BY <1>1 DEF Valid, Acceptable
  <1>8. ASSUME ~asked.enabled, NEW l \in Policy PROVE pr[l] = {}
    <2>1. size[l] = 0
      BY <1>1, <1>8 DEF Valid, Acceptable
    <2>2. Cardinality(pr[l]) \in Nat
      BY FS_CardinalityType
    <2>3. Cardinality(pr[l]) = 0
      BY <2>1, <2>2
    <2> QED BY <2>3, FS_EmptySet
  <1>9. ASSUME asked.enabled
        PROVE  /\ \A l \in Policy : size[l] <= Limit[l]
               /\ \A w \in pr.read \union pr.write \union pr.protected :
                        Real(w) \notin {Missing, <<>>}
               /\ \A w \in pr.protected : ~IsPrefix(Real(w), Project)
    BY <1>1, <1>9 DEF Valid, Acceptable
  <1>10. /\ Canonical(pr.read) \subseteq Paths /\ Canonical(pr.write) \subseteq Paths
         /\ Canonical(pr.protected) \subseteq Paths
    <2>1. CASE asked.enabled
      BY <1>4, <1>9, <2>1, ListResolved
    <2>2. CASE ~asked.enabled
      <3>1. pr.read = {} /\ pr.write = {} /\ pr.protected = {}
        BY <1>1, <1>8, <2>2 DEF Policy
      <3> QED BY <3>1 DEF Canonical
    <2> QED BY <1>1, <2>1, <2>2
  <1>11. /\ Variant(n)
         /\ n.read = Canonical(pr.read) /\ n.write = Canonical(pr.write)
         /\ n.protected = Outermost(Canonical(pr.protected))
         /\ n.commands = ResolvedAll(pr.commands) /\ n.shell = ResolvedAll(pr.shell)
    BY <1>5, <1>10, NormalIs
  <1> HIDE DEF n
  <1>12. n["read"] = n.read /\ n["write"] = n.write /\ n["protected"] = n.protected
    BY <1>11, VariantIs
  <1>13. ASSUME ~asked.enabled, NEW l \in Policy PROVE n[l] = {}
    <2>1. pr.read = {} /\ pr.write = {} /\ pr.protected = {}
      BY <1>1, <1>8, <1>13 DEF Policy
    <2>2. Canonical({}) = {} /\ Outermost({}) = {}
      BY DEF Canonical, Outermost
    <2> QED BY <1>11, <1>12, <2>1, <2>2 DEF Policy
  <1>14. ASSUME asked.enabled, NEW l \in Policy PROVE ListOK(n, l)
    <2>1. /\ pr[l] \subseteq Written \union Paths
          /\ \A w \in pr[l] : Real(w) \notin {Missing, <<>>}
      BY <1>1, <1>4, <1>9, <1>14 DEF Policy
    <2>2. Canonical(pr[l]) \subseteq Paths \ {<<>>}
      BY <2>1, ListResolved
    <2>3. n[l] \subseteq Canonical(pr[l])
      BY <1>1, <1>11, <1>12, OutermostTwice DEF Policy
    <2>4. IsFiniteSet(Canonical(pr[l])) /\ Cardinality(Canonical(pr[l])) <= Cardinality(pr[l])
      BY ResolvedSize
    <2>5. IsFiniteSet(n[l]) /\ Cardinality(n[l]) <= Cardinality(Canonical(pr[l]))
      BY <2>3, <2>4, FS_Subset
    <2>6. /\ Cardinality(n[l]) \in Nat /\ Cardinality(Canonical(pr[l])) \in Nat
          /\ Cardinality(pr[l]) \in Nat
      BY <2>4, <2>5, FS_CardinalityType
    <2>7. size[l] \in Nat /\ Limit[l] \in Nat
      BY SandboxAssumption DEF Policy
    <2>8. Cardinality(n[l]) <= Limit[l]
      BY <1>9, <1>14, <2>4, <2>5, <2>6, <2>7
    <2> QED BY <2>2, <2>3, <2>5, <2>8 DEF ListOK
  <1>15. ASSUME asked.enabled
         PROVE  /\ \A p \in n.read \union n.write \union n.protected : Exists(p)
                /\ \A p \in n.protected : ~IsPrefix(p, Project)
                /\ Outermost(n.protected) = n.protected
                /\ \A p \in Paths : Under(p, n.protected) <=> Under(p, Canonical(pr.protected))
    <2>1. n.protected \subseteq Canonical(pr.protected)
      BY <1>11, OutermostTwice
    <2>2. /\ \A p \in Canonical(pr.read) : Exists(p)
          /\ \A p \in Canonical(pr.write) : Exists(p)
          /\ \A p \in Canonical(pr.protected) : Exists(p)
      BY <1>4, <1>9, <1>15, ListResolved
    <2>3. \A p \in Canonical(pr.protected) : ~IsPrefix(p, Project)
      BY <1>9, <1>15 DEF Canonical
    <2>4. Outermost(n.protected) = n.protected
      BY <1>11, OutermostTwice
    <2>5. Canonical(pr.protected) \in SUBSET Seq(Names)
      BY <1>10, PathsAre
    <2>6. \A p \in Paths : Under(p, n.protected) <=> Under(p, Canonical(pr.protected))
      <3> DEFINE S == Canonical(pr.protected)
      <3>1. ASSUME NEW p \in Paths PROVE Under(p, Outermost(S)) <=> Under(p, S)
        <4>1. p \in Seq(Names)
          BY PathsAre
        <4> HIDE DEF S
        <4>2. S \in SUBSET Seq(Names)
          BY <2>5 DEF S
        <4> QED BY <4>1, <4>2, OutermostCovers
      <3> HIDE DEF S
      <3>2. n.protected = Outermost(S)
        BY <1>11 DEF S
      <3>3. \A p \in Paths : Under(p, n.protected) <=> Under(p, S)
        BY <3>1, <3>2
      <3> QED BY <3>3 DEF S
    <2> QED BY <1>11, <2>1, <2>2, <2>3, <2>4, <2>6
  <1>16. n.commands \union n.shell \subseteq Argvs(Paths)
    BY <1>5, <1>11
  <1> QED
    <2> HIDE DEF rules
    <2> QED BY <1>5, <1>6, <1>7, <1>8, <1>9, <1>11, <1>13, <1>14, <1>15, <1>16 DEF n

-----------------------------------------------------------------------------
(* The invariant holds *)

\* The profile as it is written.
LEMMA StartHolds == Init => SandboxInv
  <1> SUFFICES ASSUME Init PROVE SandboxInv
    OBVIOUS
  <1> USE DEF Init
  <1>1. platform \in {"linux", "macos"} /\ stage \in Stages
    BY DEF Stages
  <1>2. FilesInv
    BY DEF FilesInv
  <1>3. OptionsInv
    BY UnorderedIs DEF OptionsInv, Unread
  <1>4. RulesInv /\ ListsInv
    BY DEF RulesInv, ListsInv, Unread
  <1>5. RequestInv
    BY DEF RequestInv, Reserved
  <1>6. PreparedInv
    BY DEF PreparedInv
  <1> QED BY <1>1, <1>2, <1>3, <1>4, <1>5, <1>6 DEF SandboxInv

\* A step that refuses the profile.
LEMMA RefusalKeeps ==
    ASSUME SandboxInv, stage' = "refused", stage # "called", call = {},
           UNCHANGED <<platform, profile, argv, command, files, history>>
    PROVE  SandboxInv'
  <1> USE DEF files, history
  <1>1. (platform \in {"linux", "macos"} /\ stage \in Stages)'
    BY DEF SandboxInv, Stages
  <1>2. FilesInv'
    BY DEF SandboxInv, FilesInv, Exists, Links
  <1>3. OptionsInv'
    BY DEF SandboxInv, OptionsInv, Variant, Unread
  <1>4. RulesInv' /\ ListsInv'
    BY DEF RulesInv, ListsInv, Unread
  <1>5. RequestInv'
    BY DEF RequestInv, Reserved
  <1>6. PreparedInv'
    BY DEF PreparedInv
  <1> QED BY <1>1, <1>2, <1>3, <1>4, <1>5, <1>6 DEF SandboxInv

\* The client reads the file: from here on the lists hold what the user asked for,
\* without links.
LEMMA ReadKeeps == SandboxInv /\ Read => SandboxInv'
  <1> SUFFICES ASSUME SandboxInv, Read PROVE SandboxInv'
    OBVIOUS
  <1> USE DEF files, history
  <1> DEFINE size == Lengths(asked)
             n == Normal(profile)
  <1>1. /\ stage = "written" /\ Validate(profile, size, "sent")
        /\ UNCHANGED <<platform, argv, command, files, history>>
    BY DEF Read
  <1>2. /\ removed = {} /\ moved = <<>> /\ FilesInv /\ call = {}
        /\ asked \in Requested /\ Variant(profile) /\ profile = Unordered(asked)
    BY <1>1 DEF SandboxInv, FilesInv, OptionsInv, RequestInv, Unread
  <1>3. CASE ~ Valid(profile, size)
    BY <1>1, <1>2, <1>3, RefusalKeeps DEF Validate
  <1>4. CASE Valid(profile, size)
    <2>1. profile' = n /\ stage' = "sent"
      BY <1>1, <1>4 DEF Validate
    <2>2. /\ profile.read = Range(asked.read) /\ profile.write = Range(asked.write)
          /\ profile.protected = Range(asked.protected)
          /\ profile.commands = Range(asked.commands) /\ profile.shell = asked.shell
          /\ asked.shell \subseteq Argvs(Written)
          /\ asked.commands \in Seq(Argvs(Written))
          /\ asked.read \in Seq(Written) /\ asked.write \in Seq(Written)
          /\ asked.protected \in Seq(Written)
          /\ profile["read"] = profile.read /\ profile["write"] = profile.write
          /\ profile["protected"] = profile.protected
      BY <1>2, UnorderedIs, VariantIs
    <2>3. /\ size \in [Policy \union {"commands"} -> Nat]
          /\ \A l \in Policy : size[l] = Len(asked[l])
          /\ size["commands"] = Len(asked.commands)
      BY <2>2 DEF Lengths, Policy
    <2>4. ASSUME NEW l \in Policy
          PROVE  /\ IsFiniteSet(profile[l]) /\ Cardinality(profile[l]) <= size[l]
                 /\ profile[l] = Range(asked[l]) /\ profile[l] \subseteq Written
      <3>1. asked[l] \in Seq(Written) /\ profile[l] = Range(asked[l])
        BY <2>2 DEF Policy
      <3> QED BY <2>3, <3>1, RangeSize
    <2>5. /\ IsFiniteSet(profile.commands)
          /\ Cardinality(profile.commands) <= size["commands"]
          /\ profile.commands \subseteq Argvs(Written)
          /\ Len(asked.commands) # 0 => profile.commands # {}
      BY <2>2, <2>3, RangeSize
    <2> HIDE DEF size
    <2>6. /\ Variant(n)
          /\ n.commands = ResolvedAll(profile.commands) /\ n.shell = ResolvedAll(profile.shell)
          /\ n.commands \union n.shell \subseteq Argvs(Paths)
          /\ \A rule \in n.commands \union n.shell : rule.executable \in Executables
          /\ IsFiniteSet(n.commands) /\ Cardinality(n.commands) <= Limit["commands"]
          /\ asked.keychain => asked.enabled /\ platform = "macos"
          /\ ~asked.enabled => \A l \in Policy : profile[l] = {} /\ n[l] = {}
          /\ asked.enabled =>
               /\ \A l \in Policy : ListOK(n, l)
               /\ n.read = Canonical(profile.read) /\ n.write = Canonical(profile.write)
               /\ \A w \in profile.read \union profile.write \union profile.protected :
                        Real(w) \notin {Missing, <<>>}
               /\ \A p \in n.protected : ~IsPrefix(p, Project)
               /\ Outermost(n.protected) = n.protected
               /\ \A p \in Paths : Under(p, n.protected)
                        <=> Under(p, Canonical(profile.protected))
      BY <1>2, <1>4, <2>3, <2>4, <2>5, ValidGives
    <2> HIDE DEF n
    <2>7. \A rule \in profile.commands : Executable(rule.executable) # Missing
      BY <1>4 DEF Valid, Runnable
    <2>8. /\ n.commands = {AsRead(rule) : rule \in Range(asked.commands)}
          /\ n.commands # {}
      <3>1. profile.commands \in SUBSET Argvs(Written \union Paths)
        BY <1>2 DEF Variant
      <3>2. /\ ResolvedAll(profile.commands) = {AsRead(rule) : rule \in profile.commands}
            /\ ResolvedAll(profile.commands) = {} <=> profile.commands = {}
        BY <1>2, <2>5, <2>7, <3>1, RulesResolved
      <3>3. Len(asked.commands) # 0
        <4>1. size["commands"] \in 1 .. Limit["commands"]
          BY <1>4 DEF Valid, Runnable
        <4> QED BY <2>3, <4>1
      <3> QED BY <2>2, <2>5, <2>6, <3>2, <3>3
    <2>9. ASSUME asked.enabled, NEW l \in Policy PROVE Canonical(profile[l]) = Led(l)
      <3>1. /\ profile[l] \in SUBSET (Written \union Paths)
            /\ \A w \in profile[l] : Real(w) \notin {Missing, <<>>}
        BY <2>2, <2>4, <2>6, <2>9 DEF Policy
      <3>2. Canonical(profile[l]) = {Resolve[w] : w \in profile[l]}
        BY <1>2, <2>4, <3>1, ListResolved
      <3> QED BY <2>4, <3>2 DEF Led
    <2>10. asked.enabled =>
             /\ n.read = Led("read") /\ n.write = Led("write")
             /\ \A p \in Paths : Under(p, n.protected) <=> Under(p, Led("protected"))
      <3> SUFFICES ASSUME asked.enabled
                   PROVE  /\ n.read = Led("read") /\ n.write = Led("write")
                          /\ \A p \in Paths : Under(p, n.protected) <=> Under(p, Led("protected"))
        OBVIOUS
      <3>1. /\ Canonical(profile.read) = Led("read") /\ Canonical(profile.write) = Led("write")
            /\ Canonical(profile.protected) = Led("protected")
        BY <2>2, <2>9 DEF Policy
      <3> QED BY <2>6, <3>1
    <2>11. (platform \in {"linux", "macos"} /\ stage \in Stages)'
      BY <1>1, <2>1 DEF SandboxInv, Stages
    <2>12. FilesInv'
      BY <1>1, <1>2, <2>1 DEF FilesInv, Links
    <2>13. OptionsInv'
      <3>1. Variant(profile)'
        BY <1>1, <2>1, <2>6 DEF Variant
      <3> QED BY <1>1, <1>2, <2>1, <2>6, <3>1 DEF OptionsInv, Unread
    <2>14. RulesInv'
      BY <1>1, <2>1, <2>6, <2>8 DEF RulesInv
    <2>15. ListsInv'
      <3>1. CASE ~asked.enabled
        BY <1>1, <2>1, <2>6, <3>1 DEF ListsInv
      <3>2. CASE asked.enabled
        <4>1. Led("read")' = Led("read") /\ Led("write")' = Led("write")
              /\ Led("protected")' = Led("protected")
          BY <1>1 DEF Led
        <4>2. \A l \in Policy : ListOK(profile', l)
          BY <2>1, <2>6, <3>2
        <4>3. \A S : S \union {} = S
          OBVIOUS
        <4> QED BY <1>1, <2>1, <2>6, <2>10, <3>2, <4>1, <4>2, <4>3 DEF ListsInv, If
      <3> QED BY <3>1, <3>2
    <2>16. RequestInv'
      BY <1>1, <1>2, <2>1 DEF RequestInv, Reserved
    <2>17. PreparedInv'
      BY <2>1 DEF PreparedInv
    <2> QED BY <2>11, <2>12, <2>13, <2>14, <2>15, <2>16, <2>17 DEF SandboxInv
  <1> QED BY <1>3, <1>4

\* Rules without links are left as they are.
LEMMA RulesSame ==
    ASSUME FilesInv, NEW rules \in SUBSET Argvs(Written \union Paths),
           \A rule \in rules : /\ rule.executable \in Executables
                               /\ Executable(rule.executable) # Missing
    PROVE  ResolvedAll(rules) = rules /\ \A rule \in rules : Exists(rule.executable)
  <1>1. ASSUME NEW rule \in rules PROVE Resolved(rule) = rule /\ Exists(rule.executable)
    <2>1. rule.executable \in Paths
      BY SandboxAssumption
    <2>2. Real(rule.executable) # Missing
      BY <2>1, SandboxAssumption, RealIs, PathsAre DEF Executable
    <2>3. Real(rule.executable) = rule.executable /\ Exists(rule.executable)
      BY <2>1, <2>2, RealIs
    <2> QED BY <2>3 DEF Resolved, Argvs
  <1> QED BY <1>1 DEF ResolvedAll

\* What protect_runtime adds, and nothing else.
LEMMA ProtectingIs ==
    ASSUME asked \in Requested, Variant(profile)
    PROVE  LET pr == Protecting(profile) IN
           /\ Variant(pr)
           /\ pr.commands = profile.commands /\ pr.shell = profile.shell
           /\ pr.write = profile.write
           /\ ~asked.enabled => pr.read = profile.read /\ pr.protected = profile.protected
           /\ asked.enabled =>
                /\ pr.read = profile.read \union ToRead(asked)
                /\ pr.protected = profile.protected \union ToProtect(asked)
  <1> DEFINE pr == Protecting(profile)
  <1>1. /\ profile.enabled = asked.enabled /\ asked.enabled \in BOOLEAN
        /\ ToRead(profile) = ToRead(asked) /\ ToProtect(profile) = ToProtect(asked)
        /\ profile["read"] = profile.read /\ profile["write"] = profile.write
        /\ profile["protected"] = profile.protected
    BY VariantIs DEF ToRead, ToProtect
  <1>2. ToRead(asked) \subseteq Paths /\ ToProtect(asked) \subseteq Paths
    BY PathsAre DEF ToRead, ToProtect, If
  <1>3. CASE ~asked.enabled
    BY <1>1, <1>3 DEF Protecting
  <1>4. CASE asked.enabled
    <2>1. profile = [asked EXCEPT !.read = profile.read, !.write = profile.write,
                                  !.protected = profile.protected,
                                  !.commands = profile.commands, !.shell = profile.shell]
      BY DEF Variant
    <2>2. pr = [profile EXCEPT !.protected = @ \union ToProtect(asked),
                               !.read = @ \union ToRead(asked)]
      BY <1>1, <1>4 DEF Protecting
    <2> HIDE DEF pr
    <2>3. /\ pr.read = profile.read \union ToRead(asked)
          /\ pr.protected = profile.protected \union ToProtect(asked)
          /\ pr.write = profile.write
          /\ pr.commands = profile.commands /\ pr.shell = profile.shell
          /\ pr["read"] = pr.read /\ pr["write"] = pr.write /\ pr["protected"] = pr.protected
      BY <2>1, <2>2, RequestAssumption
    <2>4. pr = [asked EXCEPT !.read = pr.read, !.write = pr.write, !.protected = pr.protected,
                             !.commands = pr.commands, !.shell = pr.shell]
      BY <2>1, <2>2, RequestAssumption
    <2>5. /\ profile.read \subseteq Written \union Paths
          /\ profile.write \subseteq Written \union Paths
          /\ profile.protected \subseteq Written \union Paths
          /\ profile.commands \union profile.shell \subseteq Argvs(Written \union Paths)
      BY <1>1 DEF Variant, Policy
    <2>6. Variant(pr)
      BY <1>2, <2>3, <2>4, <2>5 DEF Variant, Policy
    <2> QED BY <1>4, <2>3, <2>6 DEF pr
  <1> QED BY <1>1, <1>3, <1>4

\* The service counts every path it adds.
LEMMA ProtectedIs ==
    ASSUME asked \in Requested, Variant(profile), IsFiniteSet(profile.commands),
           \A l \in Policy : IsFiniteSet(profile[l])
    PROVE  LET pr == Protecting(profile)
               size == Protected(profile) IN
           /\ size \in [Policy \union {"commands"} -> Nat]
           /\ \A l \in Policy : IsFiniteSet(pr[l]) /\ Cardinality(pr[l]) <= size[l]
           /\ Cardinality(pr.commands) <= size["commands"]
  <1> DEFINE pr == Protecting(profile)
             size == Protected(profile)
             n == Sizes(profile)
  <1>1. /\ profile.enabled = asked.enabled /\ asked.enabled \in BOOLEAN
        /\ profile.git = asked.git /\ asked.git \in BOOLEAN
        /\ profile.file = asked.file /\ asked.file \in BOOLEAN
        /\ profile["read"] = profile.read /\ profile["write"] = profile.write
        /\ profile["protected"] = profile.protected
        /\ profile["commands"] = profile.commands
    BY VariantIs
  <1>2. /\ Variant(pr)
        /\ pr.commands = profile.commands /\ pr.write = profile.write
        /\ ~asked.enabled => pr.read = profile.read /\ pr.protected = profile.protected
        /\ asked.enabled =>
             /\ pr.read = profile.read \union ToRead(asked)
             /\ pr.protected = profile.protected \union ToProtect(asked)
    BY ProtectingIs
  <1> HIDE DEF pr
  <1>3. pr["read"] = pr.read /\ pr["write"] = pr.write /\ pr["protected"] = pr.protected
    BY <1>2, VariantIs
  <1>4. /\ n \in [Policy \union {"commands"} -> Nat]
        /\ \A l \in Policy : n[l] = Cardinality(profile[l])
        /\ n["commands"] = Cardinality(profile.commands)
    <2>1. \A l \in Policy \union {"commands"} : Cardinality(profile[l]) \in Nat
      BY <1>1, FS_CardinalityType
    <2> QED BY <1>1, <2>1 DEF Sizes
  <1> HIDE DEF n
  <1>5. CASE ~asked.enabled
    <2>1. size = n
      BY <1>1, <1>5 DEF Protected, n
    <2>2. \A l \in Policy : pr[l] = profile[l]
      BY <1>1, <1>2, <1>3, <1>5 DEF Policy
    <2>3. \A l \in Policy : Cardinality(profile[l]) \in Nat
      BY FS_CardinalityType
    <2>4. Cardinality(profile.commands) \in Nat
      BY FS_CardinalityType
    <2> QED BY <1>2, <1>4, <2>1, <2>2, <2>3, <2>4 DEF pr
  <1>6. CASE asked.enabled
    <2> DEFINE more == (IF DataDir \in profile.protected THEN 0 ELSE 1) + 1
                          + (IF asked.file THEN 1 ELSE 0)
               extra == IF asked.git THEN 1 ELSE 0
    <2>1. size = [n EXCEPT !["protected"] = @ + (IF DataDir \in profile.protected THEN 0 ELSE 1)
                                              + 1 + (IF asked.file THEN 1 ELSE 0),
                           !["read"] = @ + (IF asked.git THEN 1 ELSE 0)]
      BY <1>1, <1>6 DEF Protected, n
    <2>2. /\ size \in [Policy \union {"commands"} -> Nat]
          /\ size["protected"] = n["protected"] + more
          /\ size["read"] = n["read"] + extra
          /\ size["write"] = n["write"] /\ size["commands"] = n["commands"]
      BY <1>4, <2>1 DEF Policy
    <2> HIDE DEF size
    <2>3. IsFiniteSet(profile.read) /\ IsFiniteSet(profile.write)
          /\ IsFiniteSet(profile.protected)
      BY <1>1 DEF Policy
    <2>4. IsFiniteSet(pr.read) /\ Cardinality(pr.read) <= size["read"]
      <3>1. CASE asked.git
        <4>1. pr.read = profile.read \union {Exe}
          BY <1>2, <1>6, <3>1 DEF ToRead, If
        <4>2. /\ IsFiniteSet(pr.read)
              /\ Cardinality(pr.read) = IF Exe \in profile.read THEN Cardinality(profile.read)
                                        ELSE Cardinality(profile.read) + 1
          BY <2>3, <4>1, FS_AddElement
        <4>3. Cardinality(profile.read) \in Nat
          BY <2>3, FS_CardinalityType
        <4> QED BY <1>1, <1>4, <2>2, <3>1, <4>2, <4>3 DEF Policy
      <3>2. CASE ~asked.git
        <4>1. pr.read = profile.read
          BY <1>2, <1>6, <3>2 DEF ToRead, If
        <4>2. Cardinality(profile.read) \in Nat
          BY <2>3, FS_CardinalityType
        <4> QED BY <1>1, <1>4, <2>2, <2>3, <3>2, <4>1, <4>2 DEF Policy
      <3> QED BY <3>1, <3>2
    <2>5. IsFiniteSet(pr.protected) /\ Cardinality(pr.protected) <= size["protected"]
      <3> DEFINE S1 == profile.protected \union {DataDir}
                 S2 == S1 \union {RuntimeDir}
                 S3 == S2 \union {CredentialFile}
      <3>1. /\ IsFiniteSet(S1)
            /\ Cardinality(S1) = IF DataDir \in profile.protected
                                 THEN Cardinality(profile.protected)
                                 ELSE Cardinality(profile.protected) + 1
        BY <2>3, FS_AddElement
      <3>2. IsFiniteSet(S2) /\ Cardinality(S2) = IF RuntimeDir \in S1 THEN Cardinality(S1)
                                                 ELSE Cardinality(S1) + 1
        <4> HIDE DEF S1
        <4> QED BY <3>1, FS_AddElement
      <3>3. IsFiniteSet(S3) /\ Cardinality(S3) = IF CredentialFile \in S2 THEN Cardinality(S2)
                                                 ELSE Cardinality(S2) + 1
        <4> HIDE DEF S2
        <4> QED BY <3>2, FS_AddElement
      <3>4. pr.protected = IF asked.file THEN S3 ELSE S2
        BY <1>2, <1>6 DEF ToProtect, If
      <3>5. Cardinality(profile.protected) \in Nat /\ Cardinality(S1) \in Nat
            /\ Cardinality(S2) \in Nat /\ Cardinality(S3) \in Nat
        <4> HIDE DEF S1, S2, S3
        <4> QED BY <2>3, <3>1, <3>2, <3>3, FS_CardinalityType
      <3>6. size["protected"] = Cardinality(profile.protected) + more
        BY <1>1, <1>4, <2>2 DEF Policy
      <3> HIDE DEF S1, S2, S3
      <3>7. CASE asked.file
        BY <3>1, <3>2, <3>3, <3>4, <3>5, <3>6, <3>7
      <3>8. CASE ~asked.file
        BY <3>1, <3>2, <3>4, <3>5, <3>6, <3>8
      <3> QED BY <3>7, <3>8
    <2>6. /\ Cardinality(pr.write) <= size["write"]
          /\ Cardinality(pr.commands) <= size["commands"]
      <3>1. Cardinality(profile.write) \in Nat /\ Cardinality(profile.commands) \in Nat
        BY <2>3, FS_CardinalityType
      <3> QED BY <1>1, <1>2, <1>4, <2>2, <3>1 DEF Policy
    <2>7. \A l \in Policy : IsFiniteSet(pr[l]) /\ Cardinality(pr[l]) <= size[l]
      BY <1>2, <1>3, <2>3, <2>4, <2>5, <2>6 DEF Policy
    <2> QED BY <2>2, <2>6, <2>7 DEF pr, size
  <1> QED BY <1>1, <1>5, <1>6

\* The service adds what it protects and validates again.
LEMMA AcceptKeeps == SandboxInv /\ Accept => SandboxInv'
  <1> SUFFICES ASSUME SandboxInv, Accept PROVE SandboxInv'
    OBVIOUS
  <1> USE DEF files, history
  <1> DEFINE pr == Protecting(profile)
             size == Protected(profile)
             n == Normal(pr)
  <1>1. /\ stage = "sent"
        /\ UNCHANGED <<platform, argv, command, files, history>>
        /\ \/ stage' = "refused" /\ UNCHANGED profile
           \/ Valid(pr, size) /\ profile' = n /\ stage' = "accepted"
    BY DEF Accept, Validate
  <1>2. /\ FilesInv /\ OptionsInv /\ RulesInv /\ ListsInv /\ call = {}
        /\ asked \in Requested /\ Variant(profile)
    BY <1>1 DEF SandboxInv, OptionsInv, RequestInv, Unread
  <1>3. CASE stage' = "refused" /\ UNCHANGED profile
    BY <1>1, <1>2, <1>3, RefusalKeeps
  <1>4. CASE Valid(pr, size) /\ profile' = n /\ stage' = "accepted"
    <2>1. /\ profile.commands = {AsRead(rule) : rule \in Range(asked.commands)}
          /\ profile.commands # {} /\ IsFiniteSet(profile.commands)
          /\ \A rule \in profile.commands \union profile.shell :
                rule.executable \in Executables
          /\ profile.commands \subseteq Argvs(Written \union Paths)
      BY <1>1, <1>2 DEF RulesInv, Unread, Variant
    <2>2. /\ profile["read"] = profile.read /\ profile["write"] = profile.write
          /\ profile["protected"] = profile.protected
          /\ asked.enabled \in BOOLEAN
      BY <1>2, VariantIs
    <2>3. IF ~asked.enabled THEN \A l \in Policy : profile[l] = {}
          ELSE /\ \A l \in Policy : ListOK(profile, l)
               /\ profile.read = Led("read") /\ profile.write = Led("write")
               /\ \A p \in Paths : Under(p, profile.protected) <=> Under(p, Led("protected"))
      <3>1. \A S : S \union {} = S
        OBVIOUS
      <3> QED BY <1>1, <1>2, <3>1 DEF ListsInv, Unread, If
    <2>4. \A l \in Policy : IsFiniteSet(profile[l])
      BY <2>2, <2>3, FS_EmptySet DEF ListOK
    <2>5. /\ Variant(pr)
          /\ pr.commands = profile.commands /\ pr.shell = profile.shell
          /\ pr.write = profile.write
          /\ asked.enabled =>
               /\ pr.read = profile.read \union ToRead(asked)
               /\ pr.protected = profile.protected \union ToProtect(asked)
      BY <1>2, ProtectingIs
    <2>6. /\ size \in [Policy \union {"commands"} -> Nat]
          /\ \A l \in Policy : IsFiniteSet(pr[l]) /\ Cardinality(pr[l]) <= size[l]
          /\ Cardinality(pr.commands) <= size["commands"]
      BY <1>2, <2>1, <2>4, ProtectedIs
    <2> HIDE DEF pr, size
    <2>7. /\ Variant(n)
          /\ n.commands = ResolvedAll(pr.commands) /\ n.shell = ResolvedAll(pr.shell)
          /\ \A rule \in n.commands \union n.shell : rule.executable \in Executables
          /\ IsFiniteSet(n.commands) /\ Cardinality(n.commands) <= Limit["commands"]
          /\ asked.keychain => asked.enabled /\ platform = "macos"
          /\ ~asked.enabled => \A l \in Policy : n[l] = {}
          /\ asked.enabled =>
               /\ \A l \in Policy : ListOK(n, l)
               /\ n.read = Canonical(pr.read) /\ n.write = Canonical(pr.write)
               /\ \A w \in pr.read \union pr.write \union pr.protected :
                        Real(w) \notin {Missing, <<>>}
               /\ \A p \in n.protected : ~IsPrefix(p, Project)
               /\ Outermost(n.protected) = n.protected
               /\ \A p \in Paths : Under(p, n.protected) <=> Under(p, Canonical(pr.protected))
      BY <1>2, <1>4, <2>1, <2>5, <2>6, ValidGives
    <2> HIDE DEF n
    <2>8. n.commands = profile.commands
      <3>1. \A rule \in pr.commands : Executable(rule.executable) # Missing
        BY <1>4 DEF Valid, Runnable
      <3>2. ResolvedAll(profile.commands) = profile.commands
        BY <1>2, <2>1, <2>5, <3>1, RulesSame
      <3> QED BY <2>5, <2>7, <3>2
    <2>9. asked.enabled =>
            /\ n.read = Led("read") \union ToRead(asked) /\ n.write = Led("write")
            /\ \A p \in Paths : Under(p, n.protected)
                   <=> Under(p, Led("protected") \union ToProtect(asked))
      <3> SUFFICES ASSUME asked.enabled
                   PROVE  /\ n.read = Led("read") \union ToRead(asked)
                          /\ n.write = Led("write")
                          /\ \A p \in Paths : Under(p, n.protected)
                                 <=> Under(p, Led("protected") \union ToProtect(asked))
        OBVIOUS
      <3>1. ToRead(asked) \subseteq Paths /\ ToProtect(asked) \subseteq Paths
        BY PathsAre DEF ToRead, ToProtect, If
      <3>2. profile.read \subseteq Paths /\ profile.write \subseteq Paths
            /\ profile.protected \subseteq Paths
        BY <2>2, <2>3 DEF ListOK, Policy
      <3>3. pr.read \subseteq Paths /\ pr.write \subseteq Paths /\ pr.protected \subseteq Paths
        BY <2>5, <3>1, <3>2
      <3>4. /\ Canonical(pr.read) = pr.read /\ Canonical(pr.write) = pr.write
            /\ Canonical(pr.protected) = pr.protected
        BY <1>2, <2>7, <3>3, ListResolved
      <3>5. \A p \in Paths : Under(p, pr.protected)
                <=> Under(p, Led("protected") \union ToProtect(asked))
        BY <2>3, <2>5 DEF Under
      <3> QED BY <2>3, <2>5, <2>7, <3>4, <3>5
    <2>10. (platform \in {"linux", "macos"} /\ stage \in Stages)'
      BY <1>1, <1>4 DEF SandboxInv, Stages
    <2>11. FilesInv'
      BY <1>1, <1>2, <1>4 DEF FilesInv, Links
    <2>12. OptionsInv'
      <3>1. Variant(profile)'
        BY <1>1, <1>4, <2>7 DEF Variant
      <3> QED BY <1>1, <1>2, <1>4, <2>7, <3>1 DEF OptionsInv, Unread
    <2>13. RulesInv'
      BY <1>1, <1>4, <2>1, <2>7, <2>8 DEF RulesInv
    <2>14. ListsInv'
      <3>1. CASE ~asked.enabled
        BY <1>1, <1>4, <2>7, <3>1 DEF ListsInv
      <3>2. CASE asked.enabled
        <4>1. Led("read")' = Led("read") /\ Led("write")' = Led("write")
              /\ Led("protected")' = Led("protected")
          BY <1>1 DEF Led
        <4>2. \A l \in Policy : ListOK(profile', l)
          BY <1>4, <2>7, <3>2
        <4> QED BY <1>1, <1>4, <2>7, <2>9, <3>2, <4>1, <4>2 DEF ListsInv, If
      <3> QED BY <3>1, <3>2
    <2>15. RequestInv'
      BY <1>1, <1>2, <1>4 DEF RequestInv, Reserved
    <2>16. PreparedInv'
      BY <1>4 DEF PreparedInv
    <2> QED BY <2>10, <2>11, <2>12, <2>13, <2>14, <2>15, <2>16 DEF SandboxInv
  <1> QED BY <1>1, <1>3, <1>4

\* A step that leaves the profile and the files as they are, to a stage where the
\* profile is accepted.
LEMMA ProfileKeeps ==
    ASSUME SandboxInv, stage \notin Unread \union {"sent"}, stage' \in Stages,
           stage' \notin Unread \union {"sent"},
           UNCHANGED <<platform, profile, files, asked>>
    PROVE  /\ (platform \in {"linux", "macos"} /\ stage \in Stages)'
           /\ FilesInv' /\ OptionsInv' /\ RulesInv' /\ ListsInv'
  <1> USE DEF files
  <1>1. (platform \in {"linux", "macos"} /\ stage \in Stages)'
    BY DEF SandboxInv
  <1>2. FilesInv'
    BY DEF SandboxInv, FilesInv, Links, Unread
  <1>3. OptionsInv'
    <2>1. Variant(profile)'
      BY DEF SandboxInv, OptionsInv, Variant
    <2> QED BY <2>1 DEF SandboxInv, OptionsInv, Unread
  <1>4. RulesInv'
    BY DEF SandboxInv, RulesInv
  <1>5. ListsInv'
    <2>1. \A l : Led(l)' = Led(l)
      BY DEF Led
    <2>2. \A l \in Policy : ListOK(profile', l) <=> ListOK(profile, l)
      OBVIOUS
    <2> QED BY <2>1, <2>2 DEF SandboxInv, ListsInv, If
  <1> QED BY <1>1, <1>2, <1>3, <1>4, <1>5

\* A command that is approved is found to be, as long as no file is changed.
LEMMA ApprovedIsAuthorized ==
    ASSUME SandboxInv, stage \notin Unread, removed = {}, moved = <<>>,
           NEW a \in Argvs(Written \union Paths), NEW rule \in Range(asked.commands),
           Leads(rule.executable) = Leads(a.executable), rule.args = a.args
    PROVE  /\ Real(a.executable) # Missing
           /\ Authorized(profile, a) /\ Authorized(profile, Resolved(a))
  <1>1. FilesInv /\ asked \in Requested
    BY DEF SandboxInv, OptionsInv
  <1>2. rule \in Argvs(Written)
    <2>1. asked.commands \in Seq(Argvs(Written))
      BY <1>1, UnorderedIs
    <2>2. Range(asked.commands) \subseteq Argvs(Written)
      BY <2>1, RangeSize
    <2> QED BY <2>2
  <1> DEFINE x == Resolve[rule.executable]
  <1>3. /\ AsRead(rule) \in profile.commands /\ x \in Executables
        /\ AsRead(rule).executable = x /\ AsRead(rule).args = a.args
    <2>1. AsRead(rule) \in profile.commands /\ AsRead(rule).executable \in Executables
      BY DEF SandboxInv, RulesInv
    <2>2. AsRead(rule).executable = x /\ AsRead(rule).args = rule.args
      BY <1>2 DEF AsRead, Argvs
    <2> QED BY <2>1, <2>2
  <1>4. x \in Paths /\ x # Missing
    BY <1>3, SandboxAssumption, PathsAre
  <1>5. Real(a.executable) = x
    <2>1. Leads(rule.executable) = x
      BY <1>2 DEF Leads, Argvs
    <2>2. a.executable \in Written \union Paths
      BY DEF Argvs
    <2> QED BY <1>1, <2>1, <2>2, RealIs
  <1>6. Real(x) = x
    BY <1>1, <1>4, RealIs
  <1>7. Executable(a.executable) = x /\ Executable(x) = x
    BY <1>3, <1>5, <1>6 DEF Executable
  <1>8. Resolved(a).executable = x /\ Resolved(a).args = a.args
    BY <1>5 DEF Resolved, Argvs
  <1> HIDE DEF x
  <1> QED BY <1>3, <1>4, <1>5, <1>7, <1>8 DEF Authorized

\* A request that is not approved is refused.
LEMMA UnapprovedKeeps ==
    ASSUME SandboxInv, stage \in {"accepted", "called"}, stage' = "unapproved",
           UNCHANGED <<platform, profile, argv, command, files, asked>>,
           NEW a \in Argvs(Written \union Paths), call' \subseteq {a},
           a \in call' => \/ Real(a.executable) = Missing
                          \/ ~Authorized(profile, a) \/ ~Authorized(profile, Resolved(a))
    PROVE  SandboxInv'
  <1> USE DEF files
  <1>1. stage' \in Stages \ (Unread \union {"sent"}) /\ stage \notin Unread \union {"sent"}
    BY DEF Stages, Unread
  <1>2. /\ (platform \in {"linux", "macos"} /\ stage \in Stages)'
        /\ FilesInv' /\ OptionsInv' /\ RulesInv' /\ ListsInv'
    BY <1>1, ProfileKeeps
  <1>3. ASSUME removed' = {}, moved' = <<>>, Approved' PROVE FALSE
    <2>1. PICK b \in call', rule \in Range(asked.commands) :
               Leads(rule.executable) = Leads(b.executable) /\ rule.args = b.args
      BY <1>3 DEF Approved
    <2>2. b = a
      BY <2>1
    <2>3. removed = {} /\ moved = <<>>
      BY <1>3
    <2>4. /\ Real(a.executable) # Missing
          /\ Authorized(profile, a) /\ Authorized(profile, Resolved(a))
      BY <1>1, <2>1, <2>2, <2>3, ApprovedIsAuthorized
    <2> QED BY <2>1, <2>2, <2>4
  <1>4. RequestInv'
    BY <1>3 DEF RequestInv, Reserved, Unread
  <1>5. PreparedInv'
    BY DEF PreparedInv
  <1> QED BY <1>2, <1>4, <1>5 DEF SandboxInv

\* A request that goes on.
LEMMA CalledKeeps ==
    ASSUME SandboxInv, stage = "accepted", stage' = "called",
           UNCHANGED <<platform, profile, command, files, asked>>,
           NEW a \in Argvs(Written \union Paths), argv' = a, call' = {a}
    PROVE  SandboxInv'
  <1>1. stage' \in Stages \ (Unread \union {"sent"}) /\ stage \notin Unread \union {"sent"}
    BY DEF Stages, Unread
  <1>2. /\ (platform \in {"linux", "macos"} /\ stage \in Stages)'
        /\ FilesInv' /\ OptionsInv' /\ RulesInv' /\ ListsInv'
    BY <1>1, ProfileKeeps
  <1>3. RequestInv'
    BY DEF RequestInv, Reserved, Unread
  <1>4. PreparedInv'
    BY DEF PreparedInv
  <1> QED BY <1>2, <1>3, <1>4 DEF SandboxInv

\* A request names a command.
LEMMA CallKeeps ==
    ASSUME SandboxInv, NEW a \in Called, Call(a)
    PROVE  SandboxInv'
  <1>1. a \in Argvs(Written \union Paths)
    BY RequestAssumption DEF Argvs
  <1>2. /\ stage = "accepted" /\ stage' = "called" /\ argv' = a /\ call' = {a}
        /\ UNCHANGED <<platform, profile, command, files, asked>>
    BY DEF Call
  <1> QED BY <1>1, <1>2, CalledKeeps

\* A request for a script is a command with one argument more, approved the same way.
LEMMA CallShellKeeps ==
    ASSUME SandboxInv, NEW script \in Words, CallShell(script)
    PROVE  SandboxInv'
  <1>1. stage = "accepted" /\ UNCHANGED <<platform, profile, command, files, asked>>
    BY DEF CallShell
  <1>2. CASE stage' = "unapproved" /\ UNCHANGED <<argv, call>>
    <2>1. call' = {}
      BY <1>1, <1>2 DEF SandboxInv, RequestInv
    <2>2. PICK a : a \in Argvs(Written \union Paths)
      <3>1. PICK rule \in profile.commands : TRUE
        BY <1>1 DEF SandboxInv, RulesInv, Unread
      <3>2. rule \in Argvs(Written \union Paths)
        BY DEF SandboxInv, OptionsInv, Variant
      <3> QED BY <3>2
    <2> QED BY <1>1, <1>2, <2>1, <2>2, UnapprovedKeeps
  <1>3. ASSUME NEW shell \in profile.shell,
               call' = {ShellCommand(shell, script)},
               \/ /\ Authorized(profile, ShellCommand(shell, script))
                  /\ argv' = ShellCommand(shell, script) /\ stage' = "called"
               \/ /\ ~Authorized(profile, ShellCommand(shell, script))
                  /\ UNCHANGED argv /\ stage' = "unapproved"
        PROVE  SandboxInv'
    <2> DEFINE a == ShellCommand(shell, script)
    <2>1. a \in Argvs(Written \union Paths)
      <3>1. shell \in Argvs(Written \union Paths)
        BY DEF SandboxInv, OptionsInv, Variant
      <3>2. Append(shell.args, script) \in Seq(Words)
        BY <3>1 DEF Argvs
      <3> QED BY <3>1, <3>2 DEF ShellCommand, Argvs
    <2> HIDE DEF a
    <2>2. CASE argv' = a /\ stage' = "called"
      BY <1>1, <1>3, <2>1, <2>2, CalledKeeps DEF a
    <2>3. CASE ~Authorized(profile, a) /\ UNCHANGED argv /\ stage' = "unapproved"
      BY <1>1, <1>3, <2>1, <2>3, UnapprovedKeeps DEF a
    <2> QED BY <1>3, <2>2, <2>3 DEF a
  <1> QED BY <1>2, <1>3 DEF CallShell

\* The service resolves the command: from here on it is a rule, wherever a link leads.
LEMMA ReserveKeeps == SandboxInv /\ Reserve => SandboxInv'
  <1> SUFFICES ASSUME SandboxInv, Reserve PROVE SandboxInv'
    OBVIOUS
  <1> DEFINE a == Resolved(argv)
  <1>1. /\ stage = "called"
        /\ UNCHANGED <<platform, profile, command, files, history>>
        /\ \/ /\ Real(argv.executable) # Missing /\ Authorized(profile, a)
              /\ argv' = a /\ stage' = "reserved"
           \/ /\ ~ (Real(argv.executable) # Missing /\ Authorized(profile, a))
              /\ UNCHANGED argv /\ stage' = "unapproved"
    BY DEF Reserve, Normalized
  <1>2. argv \in Argvs(Written \union Paths) /\ call = {argv} /\ FilesInv
    BY <1>1 DEF SandboxInv, RequestInv
  <1>3. CASE /\ ~ (Real(argv.executable) # Missing /\ Authorized(profile, a))
             /\ UNCHANGED argv /\ stage' = "unapproved"
    BY <1>1, <1>2, <1>3, UnapprovedKeeps DEF history
  <1>4. CASE /\ Real(argv.executable) # Missing /\ Authorized(profile, a)
             /\ argv' = a /\ stage' = "reserved"
    <2>1. /\ a \in Argvs(Paths) /\ a.executable = Real(argv.executable)
          /\ a = [executable |-> a.executable, args |-> a.args]
      <3>1. Real(argv.executable) \in Paths
        <4>1. argv.executable \in Written \union Paths
          BY <1>2 DEF Argvs
        <4> QED BY <1>2, <1>4, <4>1, RealIs
      <3> QED BY <1>2, <3>1 DEF Resolved, Argvs
    <2> HIDE DEF a
    <2>2. PICK rule \in profile.commands :
               rule.executable = Executable(a.executable) /\ rule.args = a.args
      BY <1>4 DEF Authorized
    <2>3. rule.executable \in Executables
          /\ rule = [executable |-> rule.executable, args |-> rule.args]
      <3>1. rule \in Argvs(Written \union Paths)
        BY DEF SandboxInv, OptionsInv, Variant
      <3> QED BY <1>1, <3>1 DEF SandboxInv, RulesInv, Unread, Argvs
    <2>4. rule.executable = Real(a.executable) /\ Real(a.executable) # Missing
      BY <2>2, <2>3, SandboxAssumption, PathsAre DEF Executable
    <2>5. Real(a.executable) = a.executable
      BY <1>2, <2>1, <2>4, RealIs DEF Argvs
    <2>6. a \in profile.commands
      BY <2>1, <2>2, <2>3, <2>4, <2>5
    <2>7. stage' \in Stages \ (Unread \union {"sent"}) /\ stage \notin Unread \union {"sent"}
      BY <1>1, <1>4 DEF Stages, Unread
    <2>8. /\ (platform \in {"linux", "macos"} /\ stage \in Stages)'
          /\ FilesInv' /\ OptionsInv' /\ RulesInv' /\ ListsInv'
      BY <1>1, <2>7, ProfileKeeps DEF history
    <2>9. RequestInv'
      BY <1>1, <1>4, <2>6 DEF RequestInv, Reserved, Unread
    <2>10. PreparedInv'
      BY <1>4 DEF PreparedInv
    <2> QED BY <2>8, <2>9, <2>10 DEF SandboxInv
  <1> QED BY <1>1, <1>3, <1>4

\* Looking at an accepted profile again finds it as it is, with its files there.
LEMMA NormalStays ==
    ASSUME SandboxInv, stage \notin Unread \union {"sent"}, Valid(profile, Sizes(profile))
    PROVE  /\ Normal(profile) = profile
           /\ \A rule \in profile.commands : Exists(rule.executable)
           /\ asked.enabled =>
                \A p \in profile.read \union profile.write \union profile.protected : Exists(p)
  <1> DEFINE n == Normal(profile)
             size == Sizes(profile)
  <1>1. FilesInv /\ asked \in Requested /\ Variant(profile)
    BY DEF SandboxInv, OptionsInv
  <1>2. /\ IsFiniteSet(profile.commands)
        /\ \A rule \in profile.commands \union profile.shell : rule.executable \in Executables
        /\ profile.commands \subseteq Argvs(Written \union Paths)
        /\ profile.shell \subseteq Argvs(Written \union Paths)
    BY <1>1 DEF SandboxInv, RulesInv, Variant
  <1>3. /\ profile["read"] = profile.read /\ profile["write"] = profile.write
        /\ profile["protected"] = profile.protected
        /\ profile["commands"] = profile.commands /\ asked.enabled \in BOOLEAN
    BY <1>1, VariantIs
  <1>4. IF ~asked.enabled THEN \A l \in Policy : profile[l] = {}
        ELSE /\ \A l \in Policy : ListOK(profile, l)
             /\ Outermost(profile.protected) = profile.protected
    BY DEF SandboxInv, ListsInv
  <1>5. \A l \in Policy : IsFiniteSet(profile[l])
    BY <1>3, <1>4, FS_EmptySet DEF ListOK
  <1>6. /\ size \in [Policy \union {"commands"} -> Nat]
        /\ \A l \in Policy : size[l] = Cardinality(profile[l])
        /\ size["commands"] = Cardinality(profile.commands)
    <2>1. \A l \in Policy \union {"commands"} : Cardinality(profile[l]) \in Nat
      BY <1>2, <1>3, <1>5, FS_CardinalityType
    <2> QED BY <1>3, <2>1 DEF Sizes
  <1>7. /\ \A l \in Policy : IsFiniteSet(profile[l]) /\ Cardinality(profile[l]) <= size[l]
        /\ Cardinality(profile.commands) <= size["commands"]
    <2>1. Cardinality(profile.commands) \in Nat
      BY <1>2, FS_CardinalityType
    <2>2. \A l \in Policy : Cardinality(profile[l]) \in Nat
      BY <1>5, FS_CardinalityType
    <2> HIDE DEF size
    <2> QED BY <1>5, <1>6, <2>1, <2>2
  <1>8. \A rule \in profile.commands \union profile.shell :
            Executable(rule.executable) # Missing
    BY DEF Valid, Runnable
  <1> HIDE DEF size
  <1>9. /\ Variant(n)
        /\ n.commands = ResolvedAll(profile.commands) /\ n.shell = ResolvedAll(profile.shell)
        /\ ~asked.enabled => \A l \in Policy : n[l] = {}
        /\ asked.enabled =>
             /\ n.read = Canonical(profile.read) /\ n.write = Canonical(profile.write)
             /\ n.protected = Outermost(Canonical(profile.protected))
             /\ \A p \in n.read \union n.write \union n.protected : Exists(p)
             /\ \A w \in profile.read \union profile.write \union profile.protected :
                        Real(w) \notin {Missing, <<>>}
    BY <1>1, <1>2, <1>6, <1>7, ValidGives DEF size
  <1> HIDE DEF n
  <1>10. /\ n.commands = profile.commands
         /\ \A rule \in profile.commands : Exists(rule.executable)
    <2>1. /\ ResolvedAll(profile.commands) = profile.commands
          /\ \A rule \in profile.commands : Exists(rule.executable)
      BY <1>1, <1>2, <1>8, RulesSame
    <2> QED BY <1>9, <2>1
  <1>11. n.shell = profile.shell
    <2>1. ResolvedAll(profile.shell) = profile.shell
      BY <1>1, <1>2, <1>8, RulesSame
    <2> QED BY <1>9, <2>1
  <1>12. n["read"] = n.read /\ n["write"] = n.write /\ n["protected"] = n.protected
    BY <1>1, <1>9, VariantIs
  <1>13. n.read = profile.read /\ n.write = profile.write /\ n.protected = profile.protected
    <2>1. CASE ~asked.enabled
      BY <1>3, <1>4, <1>9, <1>12, <2>1 DEF Policy
    <2>2. CASE asked.enabled
      <3>1. profile.read \subseteq Paths /\ profile.write \subseteq Paths
            /\ profile.protected \subseteq Paths
        BY <1>3, <1>4, <2>2 DEF ListOK, Policy
      <3>2. /\ Canonical(profile.read) = profile.read
            /\ Canonical(profile.write) = profile.write
            /\ Canonical(profile.protected) = profile.protected
        BY <1>1, <1>9, <2>2, <3>1, ListResolved
      <3> QED BY <1>4, <1>9, <2>2, <3>2
    <2> QED BY <1>3, <2>1, <2>2
  <1>14. n = profile
    BY <1>1, <1>9, <1>10, <1>11, <1>13, Zenon DEF Variant
  <1> QED BY <1>9, <1>10, <1>14 DEF n

\* As long as no file is gone, it is accepted again, and so is the command.
LEMMA StillValid ==
    ASSUME SandboxInv, stage = "reserved", removed = {}
    PROVE  Valid(profile, Sizes(profile)) /\ Authorized(profile, argv)
  <1> DEFINE size == Sizes(profile)
  <1>1. FilesInv /\ asked \in Requested /\ Variant(profile) /\ argv \in profile.commands
    BY DEF SandboxInv, OptionsInv, RequestInv, Reserved
  <1>2. /\ profile.commands # {} /\ IsFiniteSet(profile.commands)
        /\ Cardinality(profile.commands) <= Limit["commands"]
        /\ \A rule \in profile.commands \union profile.shell : rule.executable \in Executables
        /\ asked.keychain => asked.enabled /\ platform = "macos"
    BY DEF SandboxInv, RulesInv, OptionsInv, Unread
  <1>3. /\ profile["read"] = profile.read /\ profile["write"] = profile.write
        /\ profile["protected"] = profile.protected
        /\ profile["commands"] = profile.commands
        /\ profile.enabled = asked.enabled /\ profile.keychain = asked.keychain
        /\ asked.enabled \in BOOLEAN
    BY <1>1, VariantIs
  <1>4. IF ~asked.enabled THEN \A l \in Policy : profile[l] = {}
        ELSE /\ \A l \in Policy : ListOK(profile, l)
             /\ \A p \in profile.protected : ~IsPrefix(p, Project)
    BY DEF SandboxInv, ListsInv, Unread
  <1>5. \A p \in Paths : Real(p) = p /\ p # Missing
    BY <1>1, RealIs, PathsAre
  <1>6. \A x \in Executables : Executable(x) = x /\ x # Missing
    BY <1>5, SandboxAssumption DEF Executable
  <1>7. Exists(Project)
    BY DEF Exists
  <1>8. /\ \A l \in Policy : size[l] = Cardinality(profile[l])
        /\ size["commands"] = Cardinality(profile.commands)
    BY <1>3 DEF Sizes, Policy
  <1> HIDE DEF size
  <1>9. Runnable(profile, size)
    <2>1. Cardinality(profile.commands) \in Nat /\ Cardinality(profile.commands) # 0
      BY <1>2, FS_CardinalityType, FS_EmptySet
    <2>2. Limit["commands"] \in Nat
      BY SandboxAssumption
    <2>3. Cardinality(profile.commands) \in 1 .. Limit["commands"]
      BY <1>2, <2>1, <2>2
    <2> QED BY <1>2, <1>6, <1>8, <2>3 DEF Runnable
  <1>10. Acceptable(profile, size)
    <2>1. CASE ~asked.enabled
      BY <1>2, <1>3, <1>4, <1>8, <2>1, FS_EmptySet DEF Acceptable
    <2>2. CASE asked.enabled
      <3>1. \A l \in Policy : profile[l] \subseteq Paths \ {<<>>}
            /\ Cardinality(profile[l]) <= Limit[l]
        BY <1>4, <2>2 DEF ListOK
      <3>2. \A w \in profile.read \union profile.write \union profile.protected :
                w \in Paths /\ w # <<>>
        BY <1>3, <3>1 DEF Policy
      <3>3. \A w \in profile.read \union profile.write \union profile.protected :
                Real(w) \notin {Missing, <<>>}
        BY <1>5, <3>2
      <3>4. \A w \in profile.protected : ~IsPrefix(Real(w), Project)
        BY <1>4, <1>5, <2>2, <3>2
      <3> QED BY <1>2, <1>3, <1>8, <2>2, <3>1, <3>3, <3>4 DEF Acceptable
    <2> QED BY <1>3, <2>1, <2>2
  <1>11. Authorized(profile, argv)
    BY <1>1, <1>2, <1>6 DEF Authorized
  <1> QED BY <1>7, <1>9, <1>10, <1>11 DEF Valid, size

\* The guardian validates and approves once more: only a path that is gone changes its
\* verdict.
LEMMA CheckKeeps == SandboxInv /\ Check => SandboxInv'
  <1> SUFFICES ASSUME SandboxInv, Check PROVE SandboxInv'
    OBVIOUS
  <1> DEFINE again == Valid(profile, Sizes(profile)) /\ Authorized(Normal(profile), argv)
  <1>1. /\ stage = "reserved"
        /\ UNCHANGED <<platform, argv, command, files, history>>
        /\ IF again THEN profile' = Normal(profile) /\ stage' = "checked"
           ELSE UNCHANGED profile /\ stage' = "denied"
    BY DEF Check
  <1>2. stage \notin Unread \union {"sent"} /\ argv \in profile.commands
    BY <1>1 DEF SandboxInv, RequestInv, Reserved, Unread
  <1>3. CASE again
    <2>1. /\ Normal(profile) = profile
          /\ \A rule \in profile.commands : Exists(rule.executable)
          /\ asked.enabled =>
               \A p \in profile.read \union profile.write \union profile.protected : Exists(p)
      BY <1>2, <1>3, NormalStays
    <2>2. UNCHANGED profile /\ stage' = "checked"
      BY <1>1, <1>3, <2>1
    <2>3. stage' \in Stages \ (Unread \union {"sent"})
      BY <2>2 DEF Stages, Unread
    <2>4. /\ (platform \in {"linux", "macos"} /\ stage \in Stages)'
          /\ FilesInv' /\ OptionsInv' /\ RulesInv' /\ ListsInv'
      BY <1>1, <1>2, <2>2, <2>3, ProfileKeeps DEF history
    <2>5. RequestInv'
      BY <1>1, <1>2, <2>2 DEF RequestInv, Reserved, Unread
    <2>6. PreparedInv'
      <3>1. \A p : Exists(p)' <=> Exists(p)
        BY <1>1 DEF Exists, files
      <3> QED BY <1>1, <1>2, <2>1, <2>2, <3>1 DEF PreparedInv, history
    <2> QED BY <2>4, <2>5, <2>6 DEF SandboxInv
  <1>4. CASE ~again
    <2>1. removed # {}
      <3> SUFFICES ASSUME removed = {} PROVE FALSE
        OBVIOUS
      <3>1. Valid(profile, Sizes(profile)) /\ Authorized(profile, argv)
        BY <1>1, StillValid
      <3>2. Normal(profile) = profile
        BY <1>2, <3>1, NormalStays
      <3> QED BY <1>4, <3>1, <3>2
    <2>2. UNCHANGED profile /\ stage' = "denied"
      BY <1>1, <1>4
    <2>3. stage' \in Stages \ (Unread \union {"sent"})
      BY <2>2 DEF Stages, Unread
    <2>4. /\ (platform \in {"linux", "macos"} /\ stage \in Stages)'
          /\ FilesInv' /\ OptionsInv' /\ RulesInv' /\ ListsInv'
      BY <1>1, <1>2, <2>2, <2>3, ProfileKeeps DEF history
    <2>5. RequestInv'
      BY <1>1, <1>2, <2>1, <2>2 DEF RequestInv, Reserved, Unread, files
    <2>6. PreparedInv'
      BY <2>2 DEF PreparedInv
    <2> QED BY <2>4, <2>5, <2>6 DEF SandboxInv
  <1> QED BY <1>3, <1>4

\* A change of the files, as far as it leaves what is mounted.
LEMMA ChangeKeeps ==
    ASSUME SandboxInv, stage \in {"sent", "accepted", "called", "reserved", "checked"},
           UNCHANGED <<platform, profile, stage, argv, command, history>>,
           FilesInv', stage = "checked" => UNCHANGED removed
    PROVE  SandboxInv'
  <1> USE DEF history
  <1>1. (platform \in {"linux", "macos"} /\ stage \in Stages)'
    BY DEF SandboxInv
  <1>2. OptionsInv'
    <2>1. Variant(profile)'
      BY DEF SandboxInv, OptionsInv, Variant
    <2> QED BY <2>1 DEF SandboxInv, OptionsInv
  <1>3. RulesInv'
    BY DEF SandboxInv, RulesInv
  <1>4. ListsInv'
    <2>1. \A l : Led(l)' = Led(l)
      BY DEF Led
    <2>2. \A l \in Policy : ListOK(profile', l) <=> ListOK(profile, l)
      OBVIOUS
    <2> QED BY <2>1, <2>2 DEF SandboxInv, ListsInv, If
  <1>5. RequestInv'
    BY DEF SandboxInv, RequestInv, Unread, Reserved
  <1>6. PreparedInv'
    <2>1. ASSUME UNCHANGED removed PROVE \A p : Exists(p)' <=> Exists(p)
      BY <2>1 DEF Exists
    <2> QED BY <2>1 DEF SandboxInv, PreparedInv
  <1> QED BY <1>1, <1>2, <1>3, <1>4, <1>5, <1>6 DEF SandboxInv

\* A path that is gone ...
LEMMA UnlinkKeeps ==
    ASSUME SandboxInv, NEW p \in {q \in Existing : \A k \in Kept : ~IsPrefix(q, k)}, Unlink(p)
    PROVE  SandboxInv'
  <1>1. /\ stage \in {"sent", "accepted", "called", "reserved"}
        /\ removed' = {p}
        /\ UNCHANGED <<platform, profile, stage, argv, command, moved, history>>
    BY DEF Unlink, Changes
  <1>2. FilesInv'
    BY <1>1 DEF SandboxInv, FilesInv, Links
  <1> QED BY <1>1, <1>2, ChangeKeeps

\* ... and a link that leads elsewhere.
LEMMA RelinkKeeps ==
    ASSUME SandboxInv, NEW w \in Links, NEW p \in Executables, Relink(w, p)
    PROVE  SandboxInv'
  <1>1. /\ stage \in {"sent", "accepted", "called", "reserved", "checked"}
        /\ moved' = [v \in {w} |-> p]
        /\ UNCHANGED <<platform, profile, stage, argv, command, removed, history>>
    BY DEF Relink, Changes
  <1>2. DOMAIN moved' = {w} /\ \A v \in DOMAIN moved' : moved'[v] = p
    BY <1>1
  <1>3. FilesInv'
    BY <1>1, <1>2 DEF SandboxInv, FilesInv, Links
  <1> QED BY <1>1, <1>3, ChangeKeeps

\* What the backend is told depends on the profile, the command and the files.
LEMMA ToldKeeps ==
    ASSUME UNCHANGED <<platform, profile, argv, removed, moved>>
    PROVE  Told' = Told
  <1>1. Grants' = Grants /\ Masks' = Masks /\ Rules' = Rules
    BY DEF Grants, Masks, Rules
  <1>2. Resolved(argv)' = Resolved(argv)
    BY DEF Resolved, Real, LeadsNow, Exists
  <1>3. Mounts' = Mounts
    BY <1>1 DEF Mounts
  <1> QED BY <1>1, <1>2, <1>3 DEF Told

\* The guardian tells the backend.
LEMMA PrepareKeeps == SandboxInv /\ Prepare => SandboxInv'
  <1> SUFFICES ASSUME SandboxInv, Prepare PROVE SandboxInv'
    OBVIOUS
  <1>1. /\ stage = "checked"
        /\ UNCHANGED <<platform, profile, argv, files, history>>
        /\ IF profile.enabled /\ ~AgentAllowed
           THEN stage' = "denied" /\ UNCHANGED command
           ELSE stage' = "prepared" /\ command' = Told
    BY DEF Prepare
  <1>2. /\ profile.enabled = asked.enabled /\ profile.network = asked.network
        /\ profile.ssh = asked.ssh
        /\ asked.enabled \in BOOLEAN /\ asked.network \in BOOLEAN /\ asked.ssh \in BOOLEAN
    BY VariantIs DEF SandboxInv, OptionsInv
  <1>3. stage' \in Stages \ (Unread \union {"sent"}) /\ stage \notin Unread \union {"sent"}
    BY <1>1 DEF Stages, Unread
  <1>4. /\ (platform \in {"linux", "macos"} /\ stage \in Stages)'
        /\ FilesInv' /\ OptionsInv' /\ RulesInv' /\ ListsInv'
    BY <1>1, <1>3, ProfileKeeps DEF history
  <1>5. argv \in profile.commands
    BY <1>1 DEF SandboxInv, RequestInv, Reserved
  <1>6. CASE profile.enabled /\ ~AgentAllowed
    <2>1. stage' = "denied" /\ asked.ssh /\ ~asked.network
      BY <1>1, <1>2, <1>6 DEF AgentAllowed
    <2>2. RequestInv'
      BY <1>1, <1>5, <2>1 DEF RequestInv, Reserved, Unread, history
    <2>3. PreparedInv'
      BY <2>1 DEF PreparedInv
    <2> QED BY <1>4, <2>2, <2>3 DEF SandboxInv
  <1>7. CASE ~ (profile.enabled /\ ~AgentAllowed)
    <2>1. stage' = "prepared" /\ command' = Told
      BY <1>1, <1>7
    <2>2. RequestInv'
      BY <1>1, <1>5, <2>1 DEF RequestInv, Reserved, Unread, history
    <2>3. PreparedInv'
      <3>1. \A p : Exists(p)' <=> Exists(p)
        BY <1>1 DEF Exists, files
      <3>2. command' = Told'
        BY <1>1, <2>1, ToldKeeps DEF files
      <3>3. asked.enabled => AgentAllowed'
        BY <1>1, <1>2, <1>7 DEF AgentAllowed
      <3> QED BY <1>1, <2>1, <3>1, <3>2, <3>3 DEF SandboxInv, PreparedInv, history
    <2> QED BY <1>4, <2>2, <2>3 DEF SandboxInv
  <1> QED BY <1>6, <1>7

\* A step that changes nothing.
LEMMA StutterKeeps == SandboxInv /\ UNCHANGED vars => SandboxInv'
  <1> SUFFICES ASSUME SandboxInv, UNCHANGED vars PROVE SandboxInv'
    OBVIOUS
  <1> USE DEF vars, files, history
  <1>1. (platform \in {"linux", "macos"} /\ stage \in Stages)'
    BY DEF SandboxInv
  <1>2. FilesInv'
    BY DEF SandboxInv, FilesInv, Links
  <1>3. OptionsInv'
    <2>1. Variant(profile)'
      BY DEF SandboxInv, OptionsInv, Variant
    <2> QED BY <2>1 DEF SandboxInv, OptionsInv
  <1>4. RulesInv'
    BY DEF SandboxInv, RulesInv
  <1>5. ListsInv'
    <2>1. \A l : Led(l)' = Led(l)
      BY DEF Led
    <2>2. \A l \in Policy : ListOK(profile', l) <=> ListOK(profile, l)
      OBVIOUS
    <2> QED BY <2>1, <2>2 DEF SandboxInv, ListsInv, If
  <1>6. RequestInv'
    BY DEF SandboxInv, RequestInv, Unread, Reserved, Approved
  <1>7. PreparedInv'
    <2>1. \A p : Exists(p)' <=> Exists(p)
      BY DEF Exists
    <2>2. Told' = Told
      BY ToldKeeps
    <2> QED BY <2>1, <2>2 DEF SandboxInv, PreparedInv, AgentAllowed
  <1> QED BY <1>1, <1>2, <1>3, <1>4, <1>5, <1>6, <1>7 DEF SandboxInv

\* Every step keeps the invariant.
LEMMA StepKeeps == SandboxInv /\ [Next]_vars => SandboxInv'
  <1> SUFFICES ASSUME SandboxInv, [Next]_vars PROVE SandboxInv'
    OBVIOUS
  <1>1. CASE Read
    BY <1>1, ReadKeeps
  <1>2. CASE Accept
    BY <1>2, AcceptKeeps
  <1>3. CASE Reserve
    BY <1>3, ReserveKeeps
  <1>4. CASE Check
    BY <1>4, CheckKeeps
  <1>5. CASE Prepare
    BY <1>5, PrepareKeeps
  <1>6. CASE \E a \in Called : Call(a)
    BY <1>6, CallKeeps
  <1>7. CASE \E script \in Words : CallShell(script)
    BY <1>7, CallShellKeeps
  <1>8. CASE \E p \in {q \in Existing : \A k \in Kept : ~IsPrefix(q, k)} : Unlink(p)
    BY <1>8, UnlinkKeeps
  <1>9. CASE \E w \in Links, p \in Executables : Relink(w, p)
    BY <1>9, RelinkKeeps
  <1>10. CASE UNCHANGED vars
    BY <1>10, StutterKeeps
  <1> QED BY <1>1, <1>2, <1>3, <1>4, <1>5, <1>6, <1>7, <1>8, <1>9, <1>10 DEF Next

\* The profile the guardian works with is the one that was read, with what the
\* service protects and nothing else; the command is one of its rules.
THEOREM SandboxInvariant == Spec => []SandboxInv
  <1> QED BY StartHolds, StepKeeps, PTL DEF Spec

-----------------------------------------------------------------------------
(* What the backends do with what they are told *)

\* A nonempty set of positions has a last one.
LEMMA LastIs ==
    ASSUME NEW n \in Nat, NEW S \in SUBSET (1 .. n), S # {}
    PROVE  Max(S) \in S /\ \A y \in S : Max(S) >= y
  <1> DEFINE D == {d \in Nat : n - d \in S}
  <1>1. D \in SUBSET Nat /\ D # {}
    <2>1. PICK x \in S : TRUE
      OBVIOUS
    <2>2. n - x \in Nat /\ n - (n - x) = x
      BY <2>1
    <2> QED BY <2>1, <2>2
  <1>2. \E d \in D : \A y \in D : ~ (<<y, d>> \in OpToRel(<, Nat))
    <2> HIDE DEF D
    <2> QED BY <1>1, NatLessThanWellFounded, WFMin
  <1>3. PICK d \in D : \A y \in D : ~ (y < d)
    BY <1>1, <1>2, Zenon DEF OpToRel
  <1>4. ASSUME NEW y \in S PROVE n - d >= y
    <2>1. n - y \in D /\ n - y \in Nat
      OBVIOUS
    <2> QED BY <1>3, <2>1
  <1>5. \E x \in S : \A y \in S : x >= y
    BY <1>3, <1>4
  <1> QED BY <1>5 DEF Max

\* What is below one of two sets of paths.
LEMMA UnderUnion ==
    \A p, S, T : /\ Under(p, S \union T) <=> Under(p, S) \/ Under(p, T)
                 /\ ~Under(p, {})
  BY DEF Under

\* The mounts, one by one.
LEMMA MountsAre ==
    /\ DOMAIN Mounts = 1 .. 8
    /\ Mounts[1] = Layer("fresh", {Temporary})
    /\ Mounts[2] = Layer("ro", SystemRoots)
    /\ Mounts[3] = Layer("ro", {Project})
    /\ Mounts[4] = Layer("ro", profile.read)
    /\ Mounts[5] = Layer("rw", profile.write)
    /\ Mounts[6] = Layer("ro", If(profile.network, NetworkFiles))
    /\ Mounts[7] = Layer("ro", If(profile.network /\ profile.ssh, {Agent}))
    /\ Mounts[8] = Layer("mask", profile.protected)
  <1> DEFINE L1 == Layer("fresh", {Temporary})
             L2 == Layer("ro", SystemRoots)
             L3 == Layer("ro", {Project})
             L4 == Layer("ro", profile.read)
             L5 == Layer("rw", profile.write)
             L6 == Layer("ro", If(profile.network, NetworkFiles))
             L7 == Layer("ro", If(profile.network /\ profile.ssh, {Agent}))
             L8 == Layer("mask", profile.protected)
  <1>1. Mounts = Append(<<L1, L2, L3, L4, L5, L6, L7>>, L8)
    BY DEF Mounts, Grants, Masks
  <1> HIDE DEF L1, L2, L3, L4, L5, L6, L7, L8
  <1>2. /\ DOMAIN Mounts = 1 .. 8
        /\ Mounts[1] = L1 /\ Mounts[2] = L2 /\ Mounts[3] = L3 /\ Mounts[4] = L4
        /\ Mounts[5] = L5 /\ Mounts[6] = L6 /\ Mounts[7] = L7 /\ Mounts[8] = L8
    BY <1>1
  <1> QED BY <1>2 DEF L1, L2, L3, L4, L5, L6, L7, L8

\* The rules, one by one.
LEMMA RulesAre ==
    /\ DOMAIN Rules = 1 .. 7
    /\ Rules[1] = Rule(TRUE, {"read"}, SystemRoots \union {Project} \union profile.read)
    /\ Rules[2] = Rule(TRUE, {"read", "write"}, profile.write)
    /\ Rules[3] = Rule(TRUE, {"network"}, If(profile.network, {<<>>}))
    /\ Rules[4] = Rule(TRUE, {"read"}, If(profile.network, NetworkFiles))
    /\ Rules[5] = Rule(TRUE, {"read", "write"}, If(profile.network /\ profile.ssh, {Agent}))
    /\ Rules[6] = Rule(TRUE, {"read", "write"}, If(profile.keychain, {Keychains}))
    /\ Rules[7] = Rule(FALSE, {"read", "write", "network"}, profile.protected)
  <1> DEFINE R1 == Rule(TRUE, {"read"}, SystemRoots \union {Project} \union profile.read)
             R2 == Rule(TRUE, {"read", "write"}, profile.write)
             R3 == Rule(TRUE, {"network"}, If(profile.network, {<<>>}))
             R4 == Rule(TRUE, {"read"}, If(profile.network, NetworkFiles))
             R5 == Rule(TRUE, {"read", "write"}, If(profile.network /\ profile.ssh, {Agent}))
             R6 == Rule(TRUE, {"read", "write"}, If(profile.keychain, {Keychains}))
             R7 == Rule(FALSE, {"read", "write", "network"}, profile.protected)
  <1>1. Rules = <<R1, R2, R3, R4, R5, R6, R7>>
    BY DEF Rules
  <1> HIDE DEF R1, R2, R3, R4, R5, R6, R7
  <1>2. /\ DOMAIN Rules = 1 .. 7
        /\ Rules[1] = R1 /\ Rules[2] = R2 /\ Rules[3] = R3 /\ Rules[4] = R4
        /\ Rules[5] = R5 /\ Rules[6] = R6 /\ Rules[7] = R7
    BY <1>1
  <1> QED BY <1>2 DEF R1, R2, R3, R4, R5, R6, R7

\* The last mount over a path decides: a mask, or else the last of the grants.
LEMMA LinuxGives ==
    ASSUME command.mounts = Mounts, NEW p
    PROVE  LinuxAccess(p) =
             IF Under(p, profile.protected) THEN "none"
             ELSE IF Under(p, If(profile.network /\ profile.ssh, {Agent}))
                     \/ Under(p, If(profile.network, NetworkFiles)) THEN "read"
             ELSE IF Under(p, profile.write) THEN "write"
             ELSE IF Under(p, profile.read) \/ Under(p, {Project}) \/ Under(p, SystemRoots)
             THEN "read" ELSE "none"
  <1> DEFINE over == {i \in DOMAIN command.mounts : Under(p, command.mounts[i].paths)}
             A(i) == Under(p, Mounts[i].paths)
  <1>1. over = {i \in 1 .. 8 : A(i)}
    BY MountsAre
  <1>2. LinuxAccess(p) = IF over = {} THEN "none"
                         ELSE CASE Mounts[Max(over)].kind = "rw" -> "write"
                                [] Mounts[Max(over)].kind = "ro" -> "read"
                                [] OTHER -> "none"
    BY DEF LinuxAccess
  <1>3. /\ Mounts[1].kind = "fresh" /\ Mounts[2].kind = "ro" /\ Mounts[3].kind = "ro"
        /\ Mounts[4].kind = "ro" /\ Mounts[5].kind = "rw" /\ Mounts[6].kind = "ro"
        /\ Mounts[7].kind = "ro" /\ Mounts[8].kind = "mask"
    BY MountsAre DEF Layer
  <1>4. /\ A(2) <=> Under(p, SystemRoots)
        /\ A(3) <=> Under(p, {Project})
        /\ A(4) <=> Under(p, profile.read)
        /\ A(5) <=> Under(p, profile.write)
        /\ A(6) <=> Under(p, If(profile.network, NetworkFiles))
        /\ A(7) <=> Under(p, If(profile.network /\ profile.ssh, {Agent}))
        /\ A(8) <=> Under(p, profile.protected)
    BY MountsAre DEF Layer
  <1> HIDE DEF over, A
  <1>5. over # {} => Max(over) \in over /\ \A y \in over : Max(over) >= y
    BY <1>1, LastIs
  <1>6. LinuxAccess(p) = IF A(8) THEN "none" ELSE IF A(7) \/ A(6) THEN "read"
                         ELSE IF A(5) THEN "write"
                         ELSE IF A(4) \/ A(3) \/ A(2) THEN "read" ELSE "none"
    <2>1. CASE A(8)
      <3>1. Max(over) = 8
        BY <1>1, <1>5, <2>1
      <3> QED BY <1>1, <1>2, <1>3, <2>1, <3>1
    <2>2. CASE ~A(8) /\ (A(7) \/ A(6))
      <3>1. Max(over) \in {6, 7}
        BY <1>1, <1>5, <2>2
      <3> QED BY <1>1, <1>2, <1>3, <2>2, <3>1
    <2>3. CASE ~A(8) /\ ~A(7) /\ ~A(6) /\ A(5)
      <3>1. Max(over) = 5
        BY <1>1, <1>5, <2>3
      <3> QED BY <1>1, <1>2, <1>3, <2>3, <3>1
    <2>4. CASE ~A(8) /\ ~A(7) /\ ~A(6) /\ ~A(5) /\ (A(4) \/ A(3) \/ A(2))
      <3>1. Max(over) \in {2, 3, 4}
        BY <1>1, <1>5, <2>4
      <3> QED BY <1>1, <1>2, <1>3, <2>4, <3>1
    <2>5. CASE ~A(8) /\ ~A(7) /\ ~A(6) /\ ~A(5) /\ ~A(4) /\ ~A(3) /\ ~A(2)
      <3>1. over # {} => Max(over) = 1
        BY <1>1, <1>5, <2>5
      <3> QED BY <1>2, <1>3, <2>5, <3>1
    <2> QED BY <2>1, <2>2, <2>3, <2>4, <2>5
  <1> QED BY <1>4, <1>6

\* The last rule for an operation decides: the refusal, or else any permission.
LEMMA MacGives ==
    ASSUME command.rules = Rules, NEW p
    PROVE  LET Agents == If(profile.network /\ profile.ssh, {Agent})
               Chains == If(profile.keychain, {Keychains}) IN
           /\ MacAllows("read", p)
                <=> /\ ~Under(p, profile.protected)
                    /\ \/ Under(p, SystemRoots \union {Project} \union profile.read)
                       \/ Under(p, profile.write)
                       \/ Under(p, If(profile.network, NetworkFiles))
                       \/ Under(p, Agents) \/ Under(p, Chains)
           /\ MacAllows("write", p)
                <=> /\ ~Under(p, profile.protected)
                    /\ Under(p, profile.write) \/ Under(p, Agents) \/ Under(p, Chains)
           /\ MacAllows("network", p)
                <=> ~Under(p, profile.protected) /\ Under(p, If(profile.network, {<<>>}))
  <1> DEFINE A(i) == Under(p, Rules[i].paths)
  <1>1. /\ A(1) <=> Under(p, SystemRoots \union {Project} \union profile.read)
        /\ A(2) <=> Under(p, profile.write)
        /\ A(3) <=> Under(p, If(profile.network, {<<>>}))
        /\ A(4) <=> Under(p, If(profile.network, NetworkFiles))
        /\ A(5) <=> Under(p, If(profile.network /\ profile.ssh, {Agent}))
        /\ A(6) <=> Under(p, If(profile.keychain, {Keychains}))
        /\ A(7) <=> Under(p, profile.protected)
    BY RulesAre DEF Rule
  <1>2. /\ Rules[1].ops = {"read"} /\ Rules[2].ops = {"read", "write"}
        /\ Rules[3].ops = {"network"} /\ Rules[4].ops = {"read"}
        /\ Rules[5].ops = {"read", "write"} /\ Rules[6].ops = {"read", "write"}
        /\ Rules[7].ops = {"read", "write", "network"}
    BY RulesAre DEF Rule
  <1>3. (\A i \in 1 .. 6 : Rules[i].allow) /\ ~Rules[7].allow
    BY RulesAre DEF Rule
  <1>4. ASSUME NEW op \in {"read", "write", "network"}
        PROVE  MacAllows(op, p) <=> ~A(7) /\ \E i \in 1 .. 6 : A(i) /\ op \in Rules[i].ops
    <2> DEFINE over == {i \in DOMAIN command.rules : /\ Under(p, command.rules[i].paths)
                                                     /\ op \in command.rules[i].ops}
    <2>1. over = {i \in 1 .. 7 : A(i) /\ op \in Rules[i].ops}
      BY RulesAre
    <2>2. MacAllows(op, p) <=> over # {} /\ Rules[Max(over)].allow
      BY DEF MacAllows
    <2> HIDE DEF over, A
    <2>3. over # {} => Max(over) \in over /\ \A y \in over : Max(over) >= y
      BY <2>1, LastIs
    <2>4. 7 \in over <=> A(7)
      BY <1>2, <2>1
    <2>5. CASE A(7)
      <3>1. Max(over) = 7
        BY <2>1, <2>3, <2>4, <2>5
      <3> QED BY <1>3, <2>2, <2>5, <3>1
    <2>6. CASE ~A(7)
      <3>1. over # {} => Max(over) \in 1 .. 6
        BY <2>1, <2>3, <2>4, <2>6
      <3>2. over # {} <=> \E i \in 1 .. 6 : A(i) /\ op \in Rules[i].ops
        BY <2>1, <2>4, <2>6
      <3> QED BY <1>3, <2>2, <2>6, <3>1, <3>2
    <2> QED BY <2>5, <2>6
  <1> HIDE DEF A
  <1>5. MacAllows("read", p) <=> ~A(7) /\ (A(1) \/ A(2) \/ A(4) \/ A(5) \/ A(6))
    BY <1>2, <1>4
  <1>6. MacAllows("write", p) <=> ~A(7) /\ (A(2) \/ A(5) \/ A(6))
    BY <1>2, <1>4
  <1>7. MacAllows("network", p) <=> ~A(7) /\ A(3)
    BY <1>2, <1>4
  <1> QED BY <1>1, <1>5, <1>6, <1>7

-----------------------------------------------------------------------------
(* The properties *)

\* What the guardian knows once the backend was told what to do.
LEMMA WhenPrepared ==
    ASSUME SandboxInv, stage = "prepared"
    PROVE  /\ platform \in {"linux", "macos"}
           /\ profile.enabled = asked.enabled /\ profile.network = asked.network
           /\ profile.keychain = asked.keychain /\ profile.ssh = asked.ssh
           /\ asked.enabled \in BOOLEAN /\ asked.network \in BOOLEAN
           /\ asked.keychain \in BOOLEAN /\ asked.ssh \in BOOLEAN
           /\ asked.git \in BOOLEAN /\ asked.file \in BOOLEAN
           /\ command = Told
           /\ asked.keychain => platform = "macos"
           /\ asked.enabled =>
                /\ asked.ssh => asked.network
                /\ profile.read = Led("read") \union If(asked.git, {Exe})
                /\ profile.write = Led("write")
                /\ \A p \in Paths : Under(p, profile.protected) <=> Hidden(p)
           /\ asked.enabled /\ platform = "linux" =>
                /\ command.mounts = Mounts /\ command.filtered = ~asked.network
           /\ asked.enabled /\ platform = "macos" =>
                command.rules = Rules /\ command.mounts = <<>>
           /\ ~asked.enabled => command.mounts = <<>>
           /\ command.program = Resolved(argv)
  <1>1. /\ platform \in {"linux", "macos"} /\ OptionsInv /\ ListsInv /\ PreparedInv
        /\ asked \in Requested /\ Variant(profile)
    BY DEF SandboxInv, OptionsInv
  <1>2. /\ profile.enabled = asked.enabled /\ profile.network = asked.network
        /\ profile.keychain = asked.keychain /\ profile.ssh = asked.ssh
        /\ asked.enabled \in BOOLEAN /\ asked.network \in BOOLEAN
        /\ asked.keychain \in BOOLEAN /\ asked.ssh \in BOOLEAN
        /\ asked.git \in BOOLEAN /\ asked.file \in BOOLEAN
    BY <1>1, VariantIs
  <1>3. stage \notin Unread /\ stage # "sent"
    BY DEF Unread
  <1>4. command = Told /\ (asked.enabled => AgentAllowed)
    BY <1>1 DEF PreparedInv
  <1>5. asked.keychain => platform = "macos"
    BY <1>1, <1>3 DEF OptionsInv
  <1>6. asked.enabled => (asked.ssh => asked.network)
    BY <1>2, <1>4 DEF AgentAllowed
  <1>7. ASSUME asked.enabled
        PROVE  /\ profile.read = Led("read") \union If(asked.git, {Exe})
               /\ profile.write = Led("write")
               /\ \A p \in Paths : Under(p, profile.protected) <=> Hidden(p)
    <2>1. /\ profile.read = Led("read") \union If(TRUE, ToRead(asked))
          /\ profile.write = Led("write")
          /\ \A p \in Paths : Under(p, profile.protected)
                <=> Under(p, Led("protected") \union If(TRUE, ToProtect(asked)))
      <3>1. (stage # "sent") = TRUE
        BY <1>3
      <3> QED BY <1>1, <1>3, <1>7, <3>1 DEF ListsInv, If
    <2>2. Led("read") \union If(TRUE, ToRead(asked)) = Led("read") \union If(asked.git, {Exe})
      BY DEF If, ToRead
    <2>3. Led("protected") \union If(TRUE, ToProtect(asked))
            = Led("protected") \union {DataDir, RuntimeDir} \union If(asked.file, {CredentialFile})
      BY DEF If, ToProtect
    <2> QED BY <2>1, <2>2, <2>3 DEF Hidden
  <1>8. asked.enabled /\ platform = "linux" =>
                /\ command.mounts = Mounts /\ command.filtered = ~asked.network
    BY <1>2, <1>4 DEF Told
  <1>9. asked.enabled /\ platform = "macos" => command.rules = Rules /\ command.mounts = <<>>
    BY <1>2, <1>4 DEF Told
  <1>10. ~asked.enabled => command.mounts = <<>>
    BY <1>2, <1>4 DEF Told, NoCommand
  <1>11. command.program = Resolved(argv)
    BY <1>2, <1>4 DEF Told, NoCommand
  <1> QED BY <1>1, <1>2, <1>4, <1>5, <1>6, <1>7, <1>8, <1>9, <1>10, <1>11

\* The token is for the host of the profile alone: the helper's verdict on every
\* request, whatever its lines and however many bytes, is that of NamesTheHost.
THEOREM TokenIsForTheHost == Spec => []TokenOnlyForTheHost
  <1>1. Requests \subseteq Seq(Lines)
    BY DEF Requests
  <1>2. TokenOnlyForTheHost
    BY <1>1, HelperIsRight DEF TokenOnlyForTheHost
  <1> QED BY <1>2, PTL

\* Without network no system call of a command makes a socket and no rule of
\* sandbox-exec allows it one; with it, whatever is not protected is open to it.
LEMMA NetworkIs == SandboxInv => NetworkFollowsPolicy
  <1> SUFFICES ASSUME SandboxInv, stage = "prepared", asked.enabled
               PROVE  IF platform = "linux"
                      THEN /\ command.filtered = ~asked.network
                           /\ command.filtered =>
                                \A nr \in Numbers, arch \in Architectures :
                                    Verdict(nr, arch) = Wanted(nr, arch)
                      ELSE \A p \in Paths :
                            MacAllows("network", p) <=> asked.network /\ ~Hidden(p)
    BY DEF NetworkFollowsPolicy
  <1>1. CASE platform = "linux"
    <2>1. command.filtered = ~asked.network
      BY <1>1, WhenPrepared
    <2>2. \A nr \in Numbers, arch \in Architectures : Verdict(nr, arch) = Wanted(nr, arch)
      BY FilterDecides
    <2> QED BY <1>1, <2>1, <2>2
  <1>2. CASE platform # "linux"
    <2> SUFFICES ASSUME NEW p \in Paths
                 PROVE  MacAllows("network", p) <=> asked.network /\ ~Hidden(p)
      BY <1>2
    <2>1. command.rules = Rules /\ (Under(p, profile.protected) <=> Hidden(p))
      BY <1>2, WhenPrepared
    <2>2. MacAllows("network", p)
            <=> ~Under(p, profile.protected) /\ Under(p, If(profile.network, {<<>>}))
      BY <2>1, MacGives
    <2>3. IsPrefix(<<>>, p)
      BY PathsAre, PrefixOrder
    <2>4. Under(p, If(profile.network, {<<>>})) <=> asked.network
      BY <2>3, WhenPrepared DEF Under, If
    <2> QED BY <2>1, <2>2, <2>4
  <1> QED BY <1>1, <1>2

\* The network of a command is what its profile says, in every state.
THEOREM NetworkIsAsAsked == Spec => []NetworkFollowsPolicy
  <1> QED BY SandboxInvariant, NetworkIs, PTL

\* The backends grant what was asked for, path by path.
LEMMA PolicyIs == SandboxInv => EnforcesPolicy
  <1> SUFFICES ASSUME SandboxInv, stage = "prepared"
               PROVE  /\ \A p \in Paths \ {Agent} : Access(p) = Granted(p)
                      /\ asked.enabled /\ asked.ssh =>
                            (Access(Agent) = "none" <=> Hidden(Agent))
    BY DEF EnforcesPolicy
  <1> DEFINE Mask(p) == Under(p, profile.protected)
             AgentOver(p) == Under(p, If(profile.network /\ profile.ssh, {Agent}))
             Net(p) == Under(p, If(profile.network, NetworkFiles))
             Writable(p) == Under(p, profile.write)
             Readable(p) == Under(p, profile.read)
             Base(p) == Under(p, SystemRoots) \/ Under(p, {Project})
             Chain(p) == Under(p, If(profile.keychain, {Keychains}))
  <1>1. /\ platform \in {"linux", "macos"} /\ profile.enabled = asked.enabled
        /\ asked.enabled \in BOOLEAN
    BY WhenPrepared
  <1>2. CASE ~asked.enabled
    <2>1. \A p : Access(p) = Granted(p)
      BY <1>1, <1>2 DEF Access, Granted
    <2> QED BY <1>2, <2>1
  <1>3. CASE asked.enabled
    <2>1. ASSUME NEW p \in Paths
          PROVE  Access(p) = IF Mask(p) THEN "none"
                             ELSE IF platform = "linux" /\ (AgentOver(p) \/ Net(p)) THEN "read"
                             ELSE IF Writable(p) \/ Chain(p) \/ AgentOver(p) THEN "write"
                             ELSE IF Readable(p) \/ Base(p) \/ Net(p) THEN "read" ELSE "none"
      <3>1. CASE platform = "linux"
        <4>1. ~Chain(p)
          <5>1. ~profile.keychain
            BY <3>1, WhenPrepared
          <5> QED BY <5>1 DEF Under, If
        <4>2. Access(p) = LinuxAccess(p) /\ command.mounts = Mounts
          BY <1>1, <1>3, <3>1, WhenPrepared DEF Access
        <4>3. LinuxAccess(p) = IF Mask(p) THEN "none"
                               ELSE IF AgentOver(p) \/ Net(p) THEN "read"
                               ELSE IF Writable(p) THEN "write"
                               ELSE IF Readable(p) \/ Base(p) THEN "read" ELSE "none"
          <5>1. LinuxAccess(p) =
                  IF Under(p, profile.protected) THEN "none"
                  ELSE IF Under(p, If(profile.network /\ profile.ssh, {Agent}))
                          \/ Under(p, If(profile.network, NetworkFiles)) THEN "read"
                  ELSE IF Under(p, profile.write) THEN "write"
                  ELSE IF Under(p, profile.read) \/ Under(p, {Project}) \/ Under(p, SystemRoots)
                  THEN "read" ELSE "none"
            BY <4>2, LinuxGives
          <5> QED BY <5>1, Zenon
        <4> HIDE DEF Mask, AgentOver, Net, Writable, Readable, Base, Chain
        <4> QED BY <3>1, <4>1, <4>2, <4>3
      <3>2. CASE platform # "linux"
        <4>1. command.rules = Rules
          BY <1>1, <1>3, <3>2, WhenPrepared
        <4>2. Access(p) = IF MacAllows("write", p) THEN "write"
                          ELSE IF MacAllows("read", p) THEN "read" ELSE "none"
          BY <1>1, <1>3, <3>2 DEF Access
        <4>3. MacAllows("write", p) <=> ~Mask(p) /\ (Writable(p) \/ AgentOver(p) \/ Chain(p))
          BY <4>1, MacGives
        <4>4. MacAllows("read", p)
                <=> /\ ~Mask(p)
                    /\ \/ Under(p, SystemRoots \union {Project} \union profile.read)
                       \/ Writable(p) \/ Net(p) \/ AgentOver(p) \/ Chain(p)
          BY <4>1, MacGives
        <4>5. Under(p, SystemRoots \union {Project} \union profile.read)
                <=> Base(p) \/ Readable(p)
          BY UnderUnion
        <4> HIDE DEF Mask, AgentOver, Net, Writable, Readable, Base, Chain
        <4> QED BY <3>2, <4>2, <4>3, <4>4, <4>5
      <3> QED BY <3>1, <3>2
    <2>2. ASSUME NEW p \in Paths
          PROVE  Granted(p) = IF Mask(p) THEN "none"
                              ELSE IF platform = "linux" /\ Net(p) THEN "read"
                              ELSE IF Writable(p) \/ Chain(p) THEN "write"
                              ELSE IF Readable(p) \/ Base(p) \/ Net(p) THEN "read" ELSE "none"
      <3>1. Hidden(p) <=> Mask(p)
        BY <1>3, WhenPrepared
      <3>2. Under(p, If(asked.network, NetworkFiles)) <=> Net(p)
        BY WhenPrepared
      <3>3. Under(p, Led("write") \union If(asked.keychain, {Keychains}))
              <=> Writable(p) \/ Chain(p)
        <4>1. profile.write = Led("write") /\ profile.keychain = asked.keychain
          BY <1>3, WhenPrepared
        <4> QED BY <4>1, UnderUnion
      <3>4. Under(p, SystemRoots \union {Project} \union Led("read")
                     \union If(asked.git, {Exe}) \union If(asked.network, NetworkFiles))
              <=> Readable(p) \/ Base(p) \/ Net(p)
        <4>1. profile.read = Led("read") \union If(asked.git, {Exe})
              /\ profile.network = asked.network
          BY <1>3, WhenPrepared
        <4>2. Readable(p) <=> Under(p, Led("read")) \/ Under(p, If(asked.git, {Exe}))
          BY <4>1, UnderUnion
        <4>3. Net(p) <=> Under(p, If(asked.network, NetworkFiles))
          BY <4>1
        <4> DEFINE A == SystemRoots \union {Project}
                   B == If(asked.git, {Exe})
                   C == If(asked.network, NetworkFiles)
        <4>4. Under(p, A) <=> Base(p)
          BY UnderUnion
        <4>5. Under(p, A \union Led("read")) <=> Under(p, A) \/ Under(p, Led("read"))
          BY UnderUnion
        <4> HIDE DEF A, B, C
        <4>6. Under(p, A \union Led("read") \union B)
                <=> Under(p, A \union Led("read")) \/ Under(p, B)
          BY UnderUnion
        <4>7. Under(p, A \union Led("read") \union B \union C)
                <=> Under(p, A \union Led("read") \union B) \/ Under(p, C)
          BY UnderUnion
        <4>8. /\ Readable(p) <=> Under(p, Led("read")) \/ Under(p, B)
              /\ Net(p) <=> Under(p, C)
          BY <4>2, <4>3 DEF B, C
        <4>9. Under(p, A \union Led("read") \union B \union C)
                <=> Readable(p) \/ Base(p) \/ Net(p)
          BY <4>4, <4>5, <4>6, <4>7, <4>8, Zenon
        <4> QED BY <4>9 DEF A, B, C
      <3> HIDE DEF Mask, Net, Writable, Readable, Base, Chain
      <3> QED BY <1>3, <3>1, <3>2, <3>3, <3>4 DEF Granted
    <2>3. ASSUME NEW p \in Paths, p # Agent PROVE ~AgentOver(p)
      BY <2>3, SandboxAssumption DEF Under, If
    <2>4. ASSUME asked.ssh PROVE AgentOver(Agent)
      <3>1. profile.network /\ profile.ssh
        BY <1>3, <2>4, WhenPrepared
      <3>2. IsPrefix(Agent, Agent)
        BY PathsAre, PrefixOrder
      <3> QED BY <3>1, <3>2 DEF Under, If
    <2>5. Agent \in Paths /\ (Hidden(Agent) <=> Mask(Agent))
      BY <1>3, WhenPrepared, PathsAre
    <2> HIDE DEF Mask, AgentOver, Net, Writable, Readable, Base, Chain
    <2>6. \A p \in Paths \ {Agent} : Access(p) = Granted(p)
      BY <2>1, <2>2, <2>3
    <2>7. asked.ssh => (Access(Agent) = "none" <=> Hidden(Agent))
      BY <2>1, <2>4, <2>5
    <2> QED BY <2>6, <2>7
  <1> QED BY <1>1, <1>2, <1>3

\* Every command has the access its profile asked for, on both backends.
THEOREM PolicyIsEnforced == Spec => []EnforcesPolicy
  <1> QED BY SandboxInvariant, PolicyIs, PTL

\* Every mount of bubblewrap finds its place.
LEMMA MountsFindPlaces ==
    ASSUME SandboxInv, stage = "prepared", asked.enabled, platform = "linux",
           NEW i \in DOMAIN command.mounts, NEW p \in command.mounts[i].paths
    PROVE  Mounted(i, p)
  <1> DEFINE over == {j \in 1 .. i - 1 : Under(p, Mounts[j].paths)}
  <1>1. command.mounts = Mounts /\ i \in 1 .. 8 /\ p \in Mounts[i].paths
    BY WhenPrepared, MountsAre
  <1>2. /\ \A k \in 2 .. 4 \union 6 .. 7 : Mounts[k].kind = "ro"
        /\ Mounts[1].kind = "fresh" /\ Mounts[5].kind = "rw" /\ Mounts[8].kind = "mask"
    BY MountsAre DEF Layer
  <1>3. /\ Mounts[1].paths = {Temporary} /\ Mounts[2].paths = SystemRoots
        /\ Mounts[3].paths = {Project} /\ Mounts[4].paths = profile.read
        /\ Mounts[5].paths = profile.write
        /\ Mounts[6].paths = If(profile.network, NetworkFiles)
        /\ Mounts[7].paths = If(profile.network /\ profile.ssh, {Agent})
        /\ Mounts[8].paths = profile.protected
    BY MountsAre DEF Layer
  <1>4. i # 1 => Exists(p)
    <2>1. \A k \in Kept : Exists(k)
      BY RealIs DEF SandboxInv
    <2>2. \A q \in profile.read \union profile.write \union profile.protected : Exists(q)
      BY DEF SandboxInv, PreparedInv
    <2>3. /\ {Project, Agent} \subseteq Kept /\ SystemRoots \subseteq Kept
          /\ NetworkFiles \subseteq Kept
      BY PathsAre
    <2>4. CASE i \in {4, 5, 8}
      BY <1>1, <1>3, <2>2, <2>4
    <2>5. CASE i \in {2, 3, 6, 7}
      <3>1. p \in Kept
        BY <1>1, <1>3, <2>3, <2>5 DEF If
      <3> QED BY <2>1, <3>1
    <2> QED BY <1>1, <2>4, <2>5
  <1>5. Mounts[i].kind \in {"ro", "rw"} => Exists(p)
    BY <1>2, <1>4
  <1>6. ASSUME NEW q \in Mounts[i].paths, q # p, IsPrefix(q, p)
        PROVE  Mounts[i].kind # "mask" /\ Exists(p)
    <2>1. i # 1
      BY <1>1, <1>3, <1>6
    <2>2. i # 8
      <3> SUFFICES ASSUME i = 8 PROVE FALSE
        OBVIOUS
      <3>1. Outermost(profile.protected) = profile.protected
        <4>1. stage \notin Unread
          BY DEF Unread
        <4> QED BY <4>1 DEF SandboxInv, ListsInv
      <3> QED BY <1>1, <1>3, <1>6, <3>1 DEF Outermost
    <2> QED BY <1>1, <1>2, <1>4, <2>1, <2>2
  <1>7. ASSUME over # {}
        PROVE  \/ Mounts[Max(over)].kind = "fresh"
               \/ Mounts[Max(over)].kind # "mask" /\ Exists(p)
    <2>1. over \in SUBSET (1 .. 7) /\ i # 1
      BY <1>1, <1>7
    <2> HIDE DEF over
    <2>2. Max(over) \in 1 .. 7
      BY <1>7, <2>1, LastIs
    <2> QED BY <1>2, <1>4, <2>1, <2>2
  <1> QED BY <1>1, <1>5, <1>6, <1>7 DEF Mounted

\* Looking at an approved command again changes nothing, and what runs is a rule.
LEMMA ApprovedRuns == SandboxInv => ApprovedCommandRuns
  <1> SUFFICES ASSUME SandboxInv PROVE ApprovedCommandRuns
    OBVIOUS
  <1>1. /\ stage = "unapproved" => removed # {} \/ moved # <<>> \/ ~Approved
        /\ stage = "denied" => removed # {} \/ (asked.ssh /\ ~asked.network)
    BY DEF SandboxInv, RequestInv
  <1>2. ASSUME stage = "prepared", NEW i \in DOMAIN command.mounts,
               NEW p \in command.mounts[i].paths
        PROVE  Mounted(i, p)
    <2>1. command.mounts # <<>>
      BY <1>2
    <2>2. asked.enabled /\ platform = "linux"
      BY <1>2, <2>1, WhenPrepared
    <2> QED BY <1>2, <2>2, MountsFindPlaces
  <1>3. ASSUME stage = "prepared"
        PROVE  \E rule \in Range(asked.commands) : command.program = AsRead(rule)
    <2>1. /\ stage \notin Unread /\ stage \in Reserved
      BY <1>3 DEF Unread, Reserved
    <2>2. /\ argv \in profile.commands
          /\ profile.commands = {AsRead(rule) : rule \in Range(asked.commands)}
          /\ argv.executable \in Executables
      BY <2>1 DEF SandboxInv, RequestInv, RulesInv
    <2>3. argv \in Argvs(Written \union Paths)
      BY <2>2 DEF SandboxInv, OptionsInv, Variant
    <2>4. Real(argv.executable) = argv.executable
      <3>1. argv.executable \in Paths /\ Exists(argv.executable)
        BY <1>3, <2>2, SandboxAssumption DEF SandboxInv, PreparedInv
      <3> QED BY <3>1, RealIs DEF SandboxInv
    <2>5. Resolved(argv) = argv
      BY <2>3, <2>4 DEF Resolved, Argvs
    <2> QED BY <1>3, <2>2, <2>5, WhenPrepared
  <1> QED BY <1>1, <1>2, <1>3 DEF ApprovedCommandRuns

\* An approved command runs and no other does, however often it is looked at and
\* whatever becomes of the files in between.
THEOREM ApprovalIsKept == Spec => []ApprovedCommandRuns
  <1> QED BY SandboxInvariant, ApprovedRuns, PTL
=============================================================================
