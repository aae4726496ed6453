---------------------------- MODULE ServiceProofs ----------------------------
(* Theorems about Service: its types, commands and their sessions, operation *)
(* ids with their records and answers, and that Service implements Ledger.   *)
EXTENDS Service, FiniteSetTheorems, TLAPS

(***************************************************************************)
(* The methods of State keep its type.                                     *)
(***************************************************************************)

\* Stopping sessions keeps the type of a state and touches neither the used
\* ids nor the flags.
LEMMA StopSessionsType ==
    ASSUME NEW m \in State, NEW S, NEW status \in SessionStatus
    PROVE  LET n == StopSessions(m, S, status) IN
           /\ n \in State
           /\ n.used_operations = m.used_operations
           /\ n.stopping = m.stopping /\ n.journal_failed = m.journal_failed
  <1> DEFINE stopped == {s \in S : m.sessions[s].status = "active"}
             sess == [s \in Sessions |->
                IF s \in stopped THEN [m.sessions[s] EXCEPT !.status = status]
                                 ELSE m.sessions[s]]
             ops == [o \in Operations |->
                IF Active(m, o) /\ LosesPipe(m.operations[o].session, stopped)
                THEN [m.operations[o] EXCEPT !.control = FALSE]
                ELSE m.operations[o]]
  <1>1. sess \in [Sessions -> Session]
    BY DEF State, Session
  <1>2. ops \in [Operations -> Operation]
    BY DEF State, Operation
  <1>3. StopSessions(m, S, status)
            = [m EXCEPT !.sessions = sess, !.operations = ops]
    BY DEF StopSessions
  <1> HIDE DEF sess, ops
  <1> QED BY <1>1, <1>2, <1>3 DEF State

\* expire() keeps the type of a state and its used ids.
LEMMA ExpireType ==
    ASSUME NEW m \in State
    PROVE  /\ Expire(m) \in State
           /\ Expire(m).used_operations = m.used_operations
           /\ Expire(m).stopping = m.stopping
           /\ Expire(m).journal_failed = m.journal_failed
  BY StopSessionsType DEF Expire, SessionStatus

\* shutdown() keeps the type of a state, its used ids and journal_failed.
LEMMA ShutdownType ==
    ASSUME NEW m \in State
    PROVE  /\ Shutdown(m) \in State
           /\ Shutdown(m).used_operations = m.used_operations
           /\ Shutdown(m).stopping
           /\ Shutdown(m).journal_failed = m.journal_failed
  <1>1. StopSessions(m, Sessions, "stopped") \in State
    BY StopSessionsType DEF SessionStatus
  <1>2. /\ StopSessions(m, Sessions, "stopped").used_operations
               = m.used_operations
        /\ StopSessions(m, Sessions, "stopped").journal_failed
               = m.journal_failed
    BY StopSessionsType DEF SessionStatus
  <1> QED BY <1>1, <1>2 DEF Shutdown, State

\* What a failed persist() leaves in memory is a state with the same used ids.
LEMMA FailClosedType ==
    ASSUME NEW m \in State
    PROVE  /\ FailClosed(m) \in State
           /\ FailClosed(m).used_operations = m.used_operations
           /\ FailClosed(m).stopping
           /\ FailClosed(m).journal_failed
  <1> DEFINE n == [m EXCEPT !.journal_failed = TRUE]
  <1>1. n \in State /\ n.used_operations = m.used_operations /\ n.journal_failed
    BY DEF State
  <1> QED BY <1>1, ShutdownType DEF FailClosed

\* persist() writes a well-formed journal.
LEMMA SnapshotType ==
    ASSUME NEW m \in State
    PROVE  Snapshot(m) \in Saved /\ Snapshot(m).used_operations = m.used_operations
  BY DEF State, Saved, Snapshot, Tombstones, Session, Operation

\* A service without history has a well-formed state and journal.
LEMMA EmptyStateType ==
    EmptyState \in State /\ Snapshot(EmptyState) \in Saved
  <1>1. EmptyState \in State
    BY DEF EmptyState, State, NoSessionRecord, NoOperation, Session, Operation,
           SessionStatus, OperationStatus
  <1> QED BY <1>1, SnapshotType

\* recover() turns a well-formed journal into a well-formed state.
LEMMA RecoveredType ==
    ASSUME NEW saved \in Saved
    PROVE  /\ Recovered(saved) \in State
           /\ Recovered(saved).used_operations = saved.used_operations
  BY EmptyStateType DEF Recovered, EmptyState, RecoveredStatus, State, Saved,
     Session, Operation, SessionStatus, OperationStatus, Final, Unfinished

\* The upsert and the marking of Analytics::open keep the type of the rows.
LEMMA RowsType ==
    ASSUME NEW m \in State, NEW rows \in [Operations -> OperationStatus]
    PROVE  /\ Upsert(rows, m) \in [Operations -> OperationStatus]
           /\ MarkUnknown(rows) \in [Operations -> OperationStatus]
  BY DEF Upsert, MarkUnknown, KeepsRow, State, Operation, OperationStatus, Final

\* A critical section that ends with persist() keeps the types.
LEMMA CommitType ==
    ASSUME TypeOK, NEW m \in State, Commit(m)
    PROVE  /\ state' \in State
           /\ journal' \in Saved
           /\ analytics' \in [Operations -> OperationStatus]
           /\ faults' \in 0 .. MaxFaults
  <1>1. Snapshot(m) \in Saved
    BY SnapshotType
  <1>2. CASE PersistOk(m) /\ state' = m
    BY <1>1, <1>2, RowsType DEF PersistOk, TypeOK
  <1>3. CASE PersistErr(m) /\ state' = FailClosed(m)
    BY <1>1, <1>3, FailClosedType, ServiceAssumption DEF PersistErr, TypeOK
  <1> QED BY <1>2, <1>3 DEF Commit

(***************************************************************************)
(* Type correctness.                                                       *)
(***************************************************************************)

\* A request answered by dispatch keeps the types.
LEMMA RequestsType ==
    ASSUME TypeOK, Requests
    PROVE  TypeOK'
  <1> DEFINE m == Expire(state)
  <1>m. state \in State /\ m \in State
    BY ExpireType DEF TypeOK
  <1>d. ASSUME NEW n \in State, Dispatch(n), aged' \subseteq Sessions
        PROVE  TypeOK'
    BY <1>d, CommitType DEF Dispatch, TypeOK, history
  <1> HIDE DEF m
  <1>1. CASE ExpireTick
    BY <1>1, <1>m, <1>d DEF ExpireTick, TypeOK, m
  <1>2. CASE Terminate
    <2>1. Shutdown(m) \in State
      BY <1>m, ShutdownType
    <2> QED BY <1>2, <2>1, <1>d DEF Terminate, TypeOK, m
  <1>3. CASE Deny
    <2>1. FailClosed(state) \in State
      BY <1>m, FailClosedType
    <2> QED BY <1>3, <2>1, <1>m, <1>d DEF Deny, TypeOK
  <1>4. CASE ExpireOnly
    BY <1>4, <1>m DEF ExpireOnly, TypeOK, durable, history, m
  <1>10. CASE TerminateUnwritten
    <2>1. Shutdown(state) \in State
      BY <1>m, ShutdownType
    <2> QED BY <1>10, <2>1 DEF TerminateUnwritten, TypeOK, durable, history
  <1>5. ASSUME NEW s \in Sessions, NEW p \in Profiles, Start(s, p) \/ Resume(s, p)
        PROVE  TypeOK'
    <2> DEFINE n == [m EXCEPT !.sessions[s] = [status |-> "active", profile |-> p]]
    <2>1. n \in State
      BY <1>m DEF State, Session, SessionStatus
    <2>2. Dispatch(n) /\ aged' \subseteq Sessions
      BY <1>5 DEF Start, Resume, TypeOK, m
    <2> QED BY <2>1, <2>2, <1>d
  <1>6. ASSUME NEW s \in Sessions, Stop(s)
        PROVE  TypeOK'
    <2>1. StopSessions(m, {s}, "stopped") \in State
      BY <1>m, StopSessionsType DEF SessionStatus
    <2> QED BY <1>6, <2>1, <1>d DEF Stop, TypeOK, m
  <1>7. ASSUME NEW s \in Sessions, Age(s)
        PROVE  TypeOK'
    BY <1>7 DEF Age, TypeOK, durable, history
  <1>8. ASSUME NEW R \in SUBSET Operations, Prune(R)
        PROVE  TypeOK'
    <2> DEFINE ops == [o \in Operations |->
                    IF o \in R THEN NoOperation ELSE m.operations[o]]
               kept == [m EXCEPT !.operations = ops]
               n == [kept EXCEPT !.sessions = [s \in Sessions |->
                    IF Retained(kept, s) THEN m.sessions[s] ELSE NoSessionRecord]]
    <2>1. ops \in [Operations -> Operation]
      BY <1>m DEF State, Operation, NoOperation, OperationStatus
    <2>2. kept \in State
      BY <2>1, <1>m DEF State
    <2>3. n \in State
      BY <2>2, <1>m DEF State, Session, SessionStatus, NoSessionRecord
    <2>4. Dispatch(n) /\ UNCHANGED aged
      BY <1>8 DEF Prune, m
    <2> QED BY <2>3, <2>4, <1>d DEF TypeOK
  <1>9. ASSUME NEW o \in Operations, NEW s \in Sessions, NEW a \in Commands,
               Reserve(o, s, a)
        PROVE  TypeOK'
    <2> DEFINE n == [m EXCEPT
            !.used_operations = @ \union {o},
            !.operations[o] = [status |-> "reserved", session |-> s,
                               control |-> FALSE]]
    <2>1. n \in State
      BY <1>m DEF State, Operation, OperationStatus, Unfinished
    <2>2. Commit(n)
      BY <1>9 DEF Reserve, Commit, PersistReservation, m
    <2>3. thread' \in [Operations -> Thread]
      <3> DEFINE t == [pc |-> "launch", session |-> s, argv |-> a,
                       result |-> "none"]
      <3>1. t \in Thread
        BY DEF Thread, Busy
      <3>2. thread' \in {thread, [thread EXCEPT ![o] = t]}
        BY <1>9 DEF Reserve
      <3> HIDE DEF t
      <3> QED BY <3>1, <3>2 DEF TypeOK
    <2> QED BY <2>1, <2>2, <2>3, <1>9, CommitType DEF Reserve, TypeOK, history
  <1> QED BY <1>1, <1>2, <1>3, <1>4, <1>5, <1>6, <1>7, <1>8, <1>9,
             <1>10 DEF Requests

\* finish() keeps the type of a state and its used ids.
LEMMA FinishedType ==
    ASSUME NEW m \in State, NEW o \in Operations, NEW status \in OperationStatus
    PROVE  Finished(m, o, status) \in State
  <1> DEFINE op == m.operations[o]
             op1 == [op EXCEPT !.status = status]
             op2 == [op1 EXCEPT !.control = FALSE]
             ops == [m.operations EXCEPT ![o] = op2]
  <1>1. op2 \in Operation
    BY DEF State, Operation
  <1>2. ops \in [Operations -> Operation]
    BY <1>1 DEF State
  <1>3. [m EXCEPT !.operations = ops] \in State
    BY <1>2 DEF State
  <1>4. [m EXCEPT !.operations[o].status = status,
                      !.operations[o].control = FALSE]
            = [m EXCEPT !.operations = ops]
    BY DEF State
  <1> QED BY <1>3, <1>4 DEF Finished

\* The updates of a handler thread keep its type.
LEMMA ThreadMoves ==
    ASSUME TypeOK, NEW o \in Operations, thread[o].pc # "idle",
           NEW pc \in {"failing", "relay", "answer"},
           NEW r \in Results \union {"none"}
    PROVE  /\ thread[o] \in Busy
           /\ [thread EXCEPT ![o].pc = pc] \in [Operations -> Thread]
           /\ [thread EXCEPT ![o].pc = pc, ![o].result = r]
                  \in [Operations -> Thread]
  <1> DEFINE t == thread[o]
             t1 == [t EXCEPT !.pc = pc]
             t2 == [t1 EXCEPT !.result = r]
  <1>1. thread \in [Operations -> Thread] /\ t \in Busy
    BY DEF TypeOK, Thread, Idle
  <1>2. t1 \in Busy /\ t2 \in Busy
    BY <1>1 DEF Busy
  <1>3. t1 \in Thread /\ t2 \in Thread
    BY <1>2 DEF Thread
  <1>4. /\ [thread EXCEPT ![o].pc = pc] = [thread EXCEPT ![o] = t1]
        /\ [thread EXCEPT ![o].pc = pc, ![o].result = r]
               = [thread EXCEPT ![o] = t2]
    BY <1>1
  <1> HIDE DEF t, t1, t2
  <1> QED BY <1>1, <1>3, <1>4 DEF t

\* The updates of a guardian keep its type.
LEMMA GuardianMoves ==
    ASSUME TypeOK, NEW o \in Operations, guardian[o].phase # "none",
           NEW r \in Results
    PROVE  /\ guardian[o] \in Started
           /\ [guardian EXCEPT ![o].phase = "ended", ![o].result = r]
                  \in [Operations -> Guardian]
  <1> DEFINE g == guardian[o]
             g1 == [g EXCEPT !.phase = "ended"]
             g2 == [g1 EXCEPT !.result = r]
  <1>1. guardian \in [Operations -> Guardian] /\ g \in Started
    BY DEF TypeOK, Guardian, NoGuardian
  <1>2. g2 \in Started
    BY <1>1 DEF Started
  <1>3. [guardian EXCEPT ![o].phase = "ended", ![o].result = r]
            = [guardian EXCEPT ![o] = g2]
    BY <1>1
  <1> HIDE DEF g2
  <1> QED BY <1>1, <1>2, <1>3 DEF Guardian

\* A step of the handler thread or the guardian of an operation keeps the types.
LEMMA OperationType ==
    ASSUME TypeOK, NEW o \in Operations,
           Launching(o) \/ GuardianEnds(o) \/ Finishing(o) \/ Answer(o)
    PROVE  TypeOK'
  <1> DEFINE m == LaunchState
  <1>m. state \in State /\ m \in State
    BY ExpireType DEF TypeOK, LaunchState
  <1> HIDE DEF m
  <1>1. CASE LaunchRefused(o)
    <2>1. thread' \in [Operations -> Thread]
      BY <1>1, ThreadMoves DEF LaunchRefused, GoesOnToFail
    <2> QED BY <1>1, <1>m, <2>1 DEF LaunchRefused, TypeOK, durable, history, m
  <1>2. CASE LaunchFailed(o)
    <2>1. Commit(m) /\ thread' \in [Operations -> Thread]
      BY <1>2, ThreadMoves DEF LaunchFailed, m
    <2> QED BY <1>2, <2>1, <1>m, CommitType DEF LaunchFailed, TypeOK, history
  <1>3. CASE Launch(o)
    <2> DEFINE s == thread[o].session
               n == [m EXCEPT !.operations[o].status = "running",
                              !.operations[o].control = TRUE]
               g == [phase |-> "live", session |-> s,
                     profile |-> m.sessions[s].profile,
                     argv |-> thread[o].argv, result |-> "none"]
    <2>1. thread[o] \in Busy
      BY <1>3, ThreadMoves DEF Launch
    <2>2. s \in Sessions /\ thread[o].argv \in Commands
      BY <2>1 DEF Busy
    <2>3. g \in Guardian
      BY <2>2, <1>m DEF Guardian, Started, State, Session
    <2>4. n \in State
      <3> DEFINE op1 == [m.operations[o] EXCEPT !.status = "running"]
                 op2 == [op1 EXCEPT !.control = TRUE]
                 ops == [m.operations EXCEPT ![o] = op2]
      <3> HIDE DEF n, g
      <3>0. m.operations[o] \in Operation
        BY <1>m DEF State
      <3>1. op2 \in Operation
        BY <3>0 DEF Operation, OperationStatus, Unfinished
      <3>2. ops \in [Operations -> Operation]
        BY <3>1, <1>m DEF State
      <3>3. [m EXCEPT !.operations = ops] \in State
        BY <3>2, <1>m DEF State
      <3>4. n = [m EXCEPT !.operations = ops]
        BY <1>m DEF State, n
      <3> QED BY <3>3, <3>4
    <2>5. [thread EXCEPT ![o].pc = "relay"] \in [Operations -> Thread]
      BY <1>3, ThreadMoves DEF Launch
    <2>6. /\ journal' \in Saved
          /\ analytics' \in [Operations -> OperationStatus]
          /\ UNCHANGED faults
      BY <1>3, <1>m, SnapshotType, RowsType DEF Launch, PersistOk, TypeOK, m
    <2>7. launches' \in [Operations -> Nat]
      BY <1>3 DEF Launch, TypeOK
    <2>8. state' = n /\ guardian' = [guardian EXCEPT ![o] = g]
      BY <1>3 DEF Launch, m
    <2> HIDE DEF n, g
    <2> QED BY <1>3, <2>3, <2>4, <2>5, <2>6, <2>7, <2>8 DEF Launch, TypeOK
  <1>4. CASE GuardianEnds(o)
    <2>1. PICK r \in Results :
            guardian' = [guardian EXCEPT ![o].phase = "ended", ![o].result = r]
      BY <1>4 DEF GuardianEnds
    <2>2. guardian' \in [Operations -> Guardian]
      BY <1>4, <2>1, GuardianMoves DEF GuardianEnds
    <2> QED BY <1>4, <2>2 DEF GuardianEnds, TypeOK, durable, history
  <1>5. CASE FinishUnlaunched(o)
    <2>1. Finished(state, o, "failed") \in State
      BY <1>m, FinishedType DEF OperationStatus, Final
    <2>2. thread' \in [Operations -> Thread]
      BY <1>5, ThreadMoves DEF FinishUnlaunched, Results
    <2>3. Commit(Finished(state, o, "failed"))
      BY <1>5 DEF FinishUnlaunched
    <2> QED BY <1>5, <2>1, <2>2, <2>3, CommitType
            DEF FinishUnlaunched, TypeOK, history
  <1>6. CASE Finish(o)
    <2> DEFINE n == Finished(state, o, Outcome(guardian[o].result))
    <2>1. Outcome(guardian[o].result) \in OperationStatus
      BY DEF Outcome, OperationStatus, Final
    <2>2. n \in State
      BY <2>1, <1>m, FinishedType
    <2>3. thread' \in [Operations -> Thread]
      <3>1. guardian[o].result \in Results \union {"none"}
        BY DEF TypeOK, Guardian, Started, NoGuardian
      <3> QED BY <1>6, <3>1, ThreadMoves DEF Finish
    <2>4. Commit(n)
      BY <1>6 DEF Finish
    <2> HIDE DEF n
    <2> QED BY <1>6, <2>2, <2>3, <2>4, CommitType DEF Finish, TypeOK, history
  <1>7. CASE Answer(o)
    <2>1. thread[o].result \in Results \union {"none"}
      BY <1>7, ThreadMoves DEF Answer, Busy
    <2>2. Response(thread[o].result) \in Results \union {"none"}
      BY <2>1 DEF Response, Results
    <2> QED BY <1>7, <2>2 DEF Answer, TypeOK, Thread, durable
  <1> QED BY <1>1, <1>2, <1>3, <1>4, <1>5, <1>6, <1>7 DEF Launching, Finishing

\* A crash, the end of the drain and a restart keep the types.
LEMMA ProcessType ==
    ASSUME TypeOK, Crash \/ Exit \/ Recover
    PROVE  TypeOK'
  <1>1. CASE Gone
    <2>1. state' \in State /\ thread' \in [Operations -> Thread]
      BY <1>1, EmptyStateType DEF Gone, Thread
    <2>2. faults' \in 0 .. MaxFaults
      BY ServiceAssumption DEF Crash, Exit, Recover, Gone, TypeOK
    <2> QED BY <1>1, <2>1, <2>2 DEF Gone, TypeOK, durable, history
  <1>2. CASE Recover
    <2> DEFINE m == Recovered(journal)
    <2>1. m \in State /\ Snapshot(m) \in Saved
      BY RecoveredType, SnapshotType DEF TypeOK
    <2>2. MarkUnknown(analytics) \in [Operations -> OperationStatus]
      BY <2>1, RowsType DEF TypeOK
    <2>3. Upsert(MarkUnknown(analytics), m) \in [Operations -> OperationStatus]
      BY <2>1, <2>2, RowsType
    <2>4. /\ state' \in State /\ journal' \in Saved
          /\ analytics' \in [Operations -> OperationStatus]
      <3> HIDE DEF m
      <3>1. /\ state' \in {state, m}
            /\ journal' \in {journal, Snapshot(m)}
            /\ analytics' \in {MarkUnknown(analytics),
                               Upsert(MarkUnknown(analytics), m)}
        BY <1>2 DEF Recover, m
      <3> QED BY <3>1, <2>1, <2>2, <2>3 DEF TypeOK
    <2>5. up' \in BOOLEAN
      BY <1>2 DEF Recover, TypeOK
    <2>6. \/ faults' = faults
          \/ faults < MaxFaults /\ faults' = faults + 1
      BY <1>2 DEF Recover
    <2>7. faults' \in 0 .. MaxFaults
      BY <2>6, ServiceAssumption DEF TypeOK
    <2> QED BY <1>2, <2>4, <2>5, <2>7 DEF Recover, TypeOK, history
  <1> QED BY <1>1, <1>2 DEF Crash, Exit

\* The initial state is well typed.
LEMMA InitType == Init => TypeOK
  <1> SUFFICES ASSUME Init PROVE TypeOK
    OBVIOUS
  <1>1. state \in State /\ journal \in Saved
    BY EmptyStateType DEF Init
  <1>2. thread \in [Operations -> Thread] /\ guardian \in [Operations -> Guardian]
    BY DEF Init, Thread, Guardian
  <1>3. /\ analytics \in [Operations -> OperationStatus]
        /\ told \in [Operations -> Results \union {"none"}]
        /\ launches \in [Operations -> Nat]
    BY DEF Init, OperationStatus
  <1>4. aged \subseteq Sessions /\ faults \in 0 .. MaxFaults
    BY ServiceAssumption DEF Init
  <1>5. up \in BOOLEAN
    BY DEF Init
  <1> QED BY <1>1, <1>2, <1>3, <1>4, <1>5 DEF TypeOK

\* Every step keeps the types.
LEMMA NextType == TypeOK /\ [Next]_vars => TypeOK'
  <1> SUFFICES ASSUME TypeOK, [Next]_vars PROVE TypeOK'
    OBVIOUS
  <1>1. CASE UNCHANGED vars
    BY <1>1 DEF vars, TypeOK
  <1>2. CASE Next
    BY <1>2, RequestsType, OperationType, ProcessType DEF Next
  <1> QED BY <1>1, <1>2

\* The state of the service, both stores and the history variables keep their
\* types in every behaviour, failing writes, crashes and restarts included.
THEOREM TypeCorrect == Spec => []TypeOK
  BY InitType, NextType, PTL DEF Spec

(***************************************************************************)
(* Commands follow their sessions.                                         *)
(***************************************************************************)

Threads == [Operations -> Thread]

\* What stopping sessions changes: the status of the active ones among them,
\* and the pipes of their unfinished operations.
LEMMA StopSessionsParts ==
    ASSUME NEW m \in State, NEW S, NEW status \in SessionStatus
    PROVE  LET n == StopSessions(m, S, status) IN
           /\ \A s \in Sessions :
                /\ n.sessions[s].profile = m.sessions[s].profile
                /\ IF s \in S /\ m.sessions[s].status = "active"
                   THEN n.sessions[s].status = status
                   ELSE n.sessions[s] = m.sessions[s]
           /\ \A o \in Operations :
                LET s == m.operations[o].session IN
                /\ n.operations[o].status = m.operations[o].status
                /\ n.operations[o].session = s
                /\ n.operations[o].control <=>
                        /\ m.operations[o].control
                        /\ ~(Active(m, o) /\ s \in S /\ m.sessions[s].status = "active")
  <1> DEFINE stopped == {s \in S : m.sessions[s].status = "active"}
             sess == [s \in Sessions |->
                IF s \in stopped THEN [m.sessions[s] EXCEPT !.status = status]
                                 ELSE m.sessions[s]]
             ops == [o \in Operations |->
                IF Active(m, o) /\ LosesPipe(m.operations[o].session, stopped)
                THEN [m.operations[o] EXCEPT !.control = FALSE]
                ELSE m.operations[o]]
             n == StopSessions(m, S, status)
  <1>1. n.sessions = sess /\ n.operations = ops
    BY DEF StopSessions, State
  <1>2. \A s \in Sessions :
            /\ sess[s].profile = m.sessions[s].profile
            /\ IF s \in S /\ m.sessions[s].status = "active"
               THEN sess[s].status = status ELSE sess[s] = m.sessions[s]
    BY DEF State, Session
  <1>3. ASSUME NEW o \in Operations
        PROVE  LET s == m.operations[o].session IN
               /\ ops[o].status = m.operations[o].status /\ ops[o].session = s
               /\ ops[o].control <=>
                    /\ m.operations[o].control
                    /\ ~(Active(m, o) /\ s \in S /\ m.sessions[s].status = "active")
    <2>1. m.operations[o] \in Operation
      BY DEF State
    <2>2. CASE Active(m, o) /\ LosesPipe(m.operations[o].session, stopped)
      BY <2>1, <2>2 DEF Operation, LosesPipe
    <2>3. CASE ~(Active(m, o) /\ LosesPipe(m.operations[o].session, stopped))
      BY <2>1, <2>3 DEF Operation, LosesPipe
    <2> QED BY <2>2, <2>3
  <1> HIDE DEF sess, ops, n
  <1> QED BY <1>1, <1>2, <1>3 DEF n

\* What Agrees says depends on the record, thread and guardian of the operation
\* and on its session.
LEMMA SameAgrees ==
    ASSUME NEW m, NEW n, NEW t, NEW u, NEW g, NEW h, NEW o, Agrees(m, t, g, o),
           m.used_operations \subseteq n.used_operations,
           n.operations[o] = m.operations[o], SessionOf(n, o) = SessionOf(m, o),
           u[o] = t[o], h[o] = g[o]
    PROVE  Agrees(n, u, h, o)
  BY DEF Agrees, Working, Active

\* The session of an operation with an open pipe is one.
LEMMA SessionOfPipe ==
    ASSUME NEW m \in State, NEW t \in Threads, NEW g, Consistent(m, t, g),
           NEW o \in Operations, Working(t, o)
    PROVE  m.operations[o].session \in Sessions
  <1>1. t[o] \in Busy
    BY DEF Threads, Thread, Working, Idle
  <1> QED BY <1>1 DEF Consistent, Agrees, Busy

\* Stopping sessions keeps a state consistent.
LEMMA StopSessionsConsistent ==
    ASSUME NEW m \in State, NEW S, NEW status \in SessionStatus \ {"absent"},
           NEW t \in Threads, NEW g, Consistent(m, t, g)
    PROVE  /\ Consistent(StopSessions(m, S, status), t, g)
           /\ Covered(m, t) => Covered(StopSessions(m, S, status), t)
  <1> DEFINE n == StopSessions(m, S, status)
  <1>1. /\ n \in State /\ n.used_operations = m.used_operations
        /\ n.stopping = m.stopping /\ n.journal_failed = m.journal_failed
    BY StopSessionsType
  <1>2. \A o \in Operations : Active(n, o) <=> Active(m, o)
    BY StopSessionsParts DEF Active
  <1>3. ASSUME NEW o \in Operations, Working(t, o)
        PROVE  /\ n.operations[o].session = m.operations[o].session
               /\ SessionOf(n, o).profile = SessionOf(m, o).profile
               /\ SessionOf(m, o).status # "absent" => SessionOf(n, o).status # "absent"
    <2>1. m.operations[o].session \in Sessions
      BY <1>3, SessionOfPipe
    <2> QED BY <2>1, StopSessionsParts DEF SessionOf
  <1>4. ASSUME NEW o \in Operations, n.operations[o].control
        PROVE  /\ m.operations[o].control /\ Working(t, o)
               /\ n.operations[o].status = m.operations[o].status
               /\ n.operations[o].session = m.operations[o].session
               /\ SessionOf(n, o) = SessionOf(m, o)
    <2>1. m.operations[o].control
      BY <1>4, StopSessionsParts
    <2>2. Working(t, o) /\ Active(m, o) /\ SessionOf(m, o).status = "active"
      BY <2>1 DEF Consistent, Agrees, Working
    <2>3. m.operations[o].session \in Sessions
      BY <2>2, SessionOfPipe
    <2> QED BY <1>4, <2>1, <2>2, <2>3, StopSessionsParts DEF SessionOf
  <1> HIDE DEF n
  <1>5. Consistent(n, t, g)
    <2>1. ASSUME NEW o \in Operations
          PROVE  /\ t[o].pc # "idle" => o \in n.used_operations
                 /\ Working(t, o) =>
                        /\ Active(n, o) /\ n.operations[o].session = t[o].session
                        /\ SessionOf(n, o).status # "absent"
                 /\ t[o].pc = "launch" => <<SessionOf(n, o).profile, t[o].argv>> \in Allows
      BY <1>1, <1>2, <1>3 DEF Consistent, Agrees, Working
    <2>2. ASSUME NEW o \in Operations, n.operations[o].control
          PROVE  /\ t[o].pc = "relay" /\ n.operations[o].status = "running"
                 /\ SessionOf(n, o).status = "active"
                 /\ g[o].session = n.operations[o].session
                 /\ g[o].profile = SessionOf(n, o).profile
      BY <1>4, <2>2 DEF Consistent, Agrees
    <2>3. n.journal_failed => n.stopping
      BY <1>1 DEF Consistent, Agrees
    <2> QED BY <2>1, <2>2, <2>3 DEF Consistent, Agrees
  <1>6. Covered(m, t) => Covered(n, t)
    BY <1>1, <1>2 DEF Covered
  <1> QED BY <1>5, <1>6 DEF n

\* Setting a flag of the service keeps a state consistent.
LEMMA FlagConsistent ==
    ASSUME NEW m \in State, NEW n \in State, NEW t \in Threads, NEW g,
           Consistent(m, t, g),
           n.sessions = m.sessions, n.operations = m.operations,
           n.used_operations = m.used_operations,
           n.journal_failed => n.stopping,
           m.journal_failed /\ m.stopping => n.journal_failed /\ n.stopping
    PROVE  /\ Consistent(n, t, g)
           /\ Covered(m, t) => Covered(n, t)
  BY DEF Consistent, Agrees, Covered, Active, SessionOf

\* expire() keeps a state consistent.
LEMMA ExpireConsistent ==
    ASSUME NEW m \in State, NEW t \in Threads, NEW g, Consistent(m, t, g)
    PROVE  /\ Consistent(Expire(m), t, g)
           /\ Covered(m, t) => Covered(Expire(m), t)
  BY StopSessionsConsistent DEF Expire, SessionStatus

\* shutdown() keeps a state consistent.
LEMMA ShutdownConsistent ==
    ASSUME NEW m \in State, NEW t \in Threads, NEW g, Consistent(m, t, g)
    PROVE  /\ Consistent(Shutdown(m), t, g)
           /\ Covered(m, t) => Covered(Shutdown(m), t)
  <1> DEFINE n == StopSessions(m, Sessions, "stopped")
  <1>1. n \in State /\ Consistent(n, t, g) /\ (Covered(m, t) => Covered(n, t))
    BY StopSessionsType, StopSessionsConsistent DEF SessionStatus
  <1>2. Shutdown(m) = [n EXCEPT !.stopping = TRUE] /\ Shutdown(m) \in State
    BY ShutdownType DEF Shutdown
  <1> HIDE DEF n
  <1> QED BY <1>1, <1>2, FlagConsistent DEF State

\* A failed persist() keeps a state consistent, and covers every operation.
LEMMA FailClosedConsistent ==
    ASSUME NEW m \in State, NEW t \in Threads, NEW g, Consistent(m, t, g)
    PROVE  Consistent(FailClosed(m), t, g) /\ Covered(FailClosed(m), t)
  <1> DEFINE n == [m EXCEPT !.journal_failed = TRUE]
             f == [n EXCEPT !.stopping = TRUE]
  <1>1. n \in State /\ f \in State
    BY DEF State
  <1>2. Consistent(f, t, g)
    BY <1>1, FlagConsistent DEF State
  <1>3. Consistent(Shutdown(f), t, g)
    BY <1>1, <1>2, ShutdownConsistent
  <1>4. Shutdown(f) = Shutdown(n)
    <2>1. StopSessions(f, Sessions, "stopped")
            = [StopSessions(n, Sessions, "stopped") EXCEPT !.stopping = TRUE]
      BY <1>1 DEF StopSessions, Active, State
    <2>2. StopSessions(n, Sessions, "stopped") \in State
      BY <1>1, StopSessionsType DEF SessionStatus
    <2> QED BY <2>1, <2>2 DEF Shutdown, State
  <1>5. Covered(FailClosed(m), t)
    BY FailClosedType DEF Covered
  <1> QED BY <1>3, <1>4, <1>5 DEF FailClosed

\* A critical section that ends with persist() leaves a consistent state.
LEMMA CommitConsistent ==
    ASSUME NEW m \in State, NEW t \in Threads, NEW g,
           Consistent(m, t, g), Covered(m, t), Commit(m)
    PROVE  Consistent(state', t, g) /\ Covered(state', t)
  BY FailClosedConsistent DEF Commit

\* A session nobody works in gets another record.
LEMMA SessionReplaced ==
    ASSUME NEW m \in State, NEW t \in Threads, NEW g, Consistent(m, t, g),
           NEW s \in Sessions, NEW record \in Session,
           \A o \in Operations : Working(t, o) => m.operations[o].session # s
    PROVE  LET n == [m EXCEPT !.sessions[s] = record] IN
           /\ n \in State /\ Consistent(n, t, g)
           /\ Covered(m, t) => Covered(n, t)
  <1> DEFINE n == [m EXCEPT !.sessions[s] = record]
  <1>1. /\ n \in State /\ n.operations = m.operations
        /\ n.used_operations = m.used_operations
        /\ n.stopping = m.stopping /\ n.journal_failed = m.journal_failed
        /\ \A x \in Sessions : x # s => n.sessions[x] = m.sessions[x]
    BY DEF State
  <1>2. ASSUME NEW o \in Operations, Working(t, o)
        PROVE  SessionOf(n, o) = SessionOf(m, o)
    <2>1. m.operations[o].session \in Sessions
      BY <1>2, SessionOfPipe
    <2> QED BY <1>1, <1>2, <2>1 DEF SessionOf
  <1> HIDE DEF n
  <1>3. /\ \A o \in Operations : n.operations[o] = m.operations[o]
        /\ n.used_operations = m.used_operations
    BY <1>1
  <1>4. Consistent(n, t, g)
    <2>1. ASSUME NEW o \in Operations
          PROVE  /\ t[o].pc # "idle" => o \in n.used_operations
                 /\ Working(t, o) =>
                        /\ Active(n, o) /\ n.operations[o].session = t[o].session
                        /\ SessionOf(n, o).status # "absent"
                 /\ t[o].pc = "launch" => <<SessionOf(n, o).profile, t[o].argv>> \in Allows
      <3>1. Working(t, o) => SessionOf(n, o) = SessionOf(m, o)
        BY <1>2
      <3> QED BY <1>3, <3>1 DEF Consistent, Agrees, Working, Active
    <2>2. ASSUME NEW o \in Operations, n.operations[o].control
          PROVE  /\ t[o].pc = "relay" /\ n.operations[o].status = "running"
                 /\ SessionOf(n, o).status = "active"
                 /\ g[o].session = n.operations[o].session
                 /\ g[o].profile = SessionOf(n, o).profile
      <3>1. Working(t, o)
        BY <1>3, <2>2 DEF Consistent, Agrees, Working
      <3>2. SessionOf(n, o) = SessionOf(m, o)
        BY <1>2, <3>1
      <3>3. m.operations[o].control
        BY <1>3, <2>2
      <3>4. /\ t[o].pc = "relay" /\ m.operations[o].status = "running"
            /\ SessionOf(m, o).status = "active"
            /\ g[o].session = m.operations[o].session
            /\ g[o].profile = SessionOf(m, o).profile
        BY <3>3 DEF Consistent, Agrees
      <3> QED BY <1>3, <3>2, <3>4
    <2>3. n.journal_failed => n.stopping
      BY <1>1 DEF Consistent, Agrees
    <2> QED BY <2>1, <2>2, <2>3 DEF Consistent, Agrees
  <1>5. Covered(m, t) => Covered(n, t)
    BY <1>1, <1>3 DEF Covered, Active
  <1> QED BY <1>1, <1>4, <1>5 DEF n

\* Finished operations are pruned, and the sessions nobody refers to any more.
LEMMA Pruned ==
    ASSUME NEW m \in State, NEW n \in State, NEW t \in Threads, NEW g,
           Consistent(m, t, g), NEW R \in SUBSET Operations,
           \A o \in R : ~Active(m, o),
           \A o \in Operations :
                n.operations[o] = IF o \in R THEN NoOperation ELSE m.operations[o],
           \A s \in Sessions :
                (\E o \in Operations : n.operations[o].session = s)
                    => n.sessions[s] = m.sessions[s],
           n.used_operations = m.used_operations,
           n.stopping = m.stopping, n.journal_failed = m.journal_failed
    PROVE  /\ Consistent(n, t, g)
           /\ Covered(m, t) => Covered(n, t)
  <1>1. \A o \in Operations : Active(n, o) => Active(m, o)
    BY DEF Active, NoOperation, Unfinished
  <1>2. ASSUME NEW o \in Operations, Working(t, o)
        PROVE  n.operations[o] = m.operations[o] /\ SessionOf(n, o) = SessionOf(m, o)
    <2>1. n.operations[o] = m.operations[o]
      BY <1>2 DEF Consistent, Agrees
    <2>2. m.operations[o].session \in Sessions
      BY <1>2, SessionOfPipe
    <2> QED BY <2>1, <2>2 DEF SessionOf
  <1>3. ASSUME NEW o \in Operations, n.operations[o].control
        PROVE  m.operations[o].control /\ Working(t, o)
    <2>1. n.operations[o] = m.operations[o]
      BY <1>3 DEF NoOperation
    <2> QED BY <1>3, <2>1 DEF Consistent, Agrees, Working
  <1>4. ASSUME NEW o \in Operations
        PROVE  /\ t[o].pc # "idle" => o \in n.used_operations
               /\ Working(t, o) =>
                    /\ Active(n, o) /\ n.operations[o].session = t[o].session
                    /\ SessionOf(n, o).status # "absent"
               /\ t[o].pc = "launch" => <<SessionOf(n, o).profile, t[o].argv>> \in Allows
    BY <1>2 DEF Consistent, Agrees, Working, Active
  <1>5. ASSUME NEW o \in Operations, n.operations[o].control
        PROVE  /\ t[o].pc = "relay" /\ n.operations[o].status = "running"
               /\ SessionOf(n, o).status = "active"
               /\ g[o].session = n.operations[o].session
               /\ g[o].profile = SessionOf(n, o).profile
    <2>1. m.operations[o].control /\ Working(t, o)
      BY <1>3, <1>5
    <2>2. n.operations[o] = m.operations[o] /\ SessionOf(n, o) = SessionOf(m, o)
      BY <1>2, <2>1
    <2>3. /\ t[o].pc = "relay" /\ m.operations[o].status = "running"
          /\ SessionOf(m, o).status = "active"
          /\ g[o].session = m.operations[o].session
          /\ g[o].profile = SessionOf(m, o).profile
      BY <2>1 DEF Consistent, Agrees
    <2> QED BY <2>2, <2>3
  <1>6. n.journal_failed => n.stopping
    BY DEF Consistent, Agrees
  <1>7. Consistent(n, t, g)
    BY <1>4, <1>5, <1>6 DEF Consistent, Agrees
  <1> QED BY <1>1, <1>7 DEF Covered

\* Requests keep SessionInv.
LEMMA RequestsSession ==
    ASSUME TypeOK, SessionInv, Requests
    PROVE  SessionInv'
  <1> DEFINE m == Expire(state)
  <1>m. /\ state \in State /\ m \in State /\ thread \in Threads
        /\ Consistent(state, thread, guardian) /\ Covered(state, thread)
        /\ Consistent(m, thread, guardian) /\ Covered(m, thread)
    BY ExpireType, ExpireConsistent DEF TypeOK, Threads, SessionInv
  <1>d. ASSUME NEW n \in State, Consistent(n, thread, guardian), Covered(n, thread),
               Dispatch(n)
        PROVE  SessionInv'
    <2>1. Consistent(state', thread, guardian) /\ Covered(state', thread)
      BY <1>d, <1>m, CommitConsistent DEF Dispatch
    <2> QED BY <1>d, <2>1 DEF Dispatch, SessionInv, RunsAuthorized
  <1>q. ASSUME Consistent(state', thread, guardian), Covered(state', thread),
               UNCHANGED <<up, thread, guardian>>
        PROVE  SessionInv'
    BY <1>q DEF SessionInv, RunsAuthorized
  <1> HIDE DEF m
  <1>1. CASE ExpireTick
    BY <1>1, <1>m, <1>d DEF ExpireTick, m
  <1>2. CASE Terminate
    BY <1>2, <1>m, <1>d, ShutdownType, ShutdownConsistent DEF Terminate, m
  <1>3. CASE Deny
    BY <1>3, <1>m, <1>d, FailClosedType, FailClosedConsistent DEF Deny
  <1>4. CASE ExpireOnly
    BY <1>4, <1>m, <1>q DEF ExpireOnly, m
  <1>5. CASE TerminateUnwritten
    BY <1>5, <1>m, <1>q, ShutdownConsistent DEF TerminateUnwritten
  <1>6. ASSUME NEW s \in Sessions, NEW p \in Profiles, Start(s, p) \/ Resume(s, p)
        PROVE  SessionInv'
    <2> DEFINE record == [status |-> "active", profile |-> p]
               n == [m EXCEPT !.sessions[s] = record]
    <2>1. record \in Session
      BY DEF Session, SessionStatus
    <2>2. \A o \in Operations : Working(thread, o) => m.operations[o].session # s
      <3>1. CASE Start(s, p)
        <4>1. m.sessions[s].status = "absent"
          BY <3>1 DEF Start, Present, m
        <4>2. \A o \in Operations : Working(thread, o) => SessionOf(m, o).status # "absent"
          BY <1>m DEF Consistent, Agrees
        <4> QED BY <4>1, <4>2 DEF SessionOf
      <3>2. CASE Resume(s, p)
        BY <1>m, <3>2 DEF Resume, Quiescent, Consistent, Agrees, m
      <3> QED BY <1>6, <3>1, <3>2
    <2>3. Dispatch(n)
      BY <1>6 DEF Start, Resume, m
    <2> HIDE DEF record
    <2>4. n \in State /\ Consistent(n, thread, guardian) /\ Covered(n, thread)
      BY <1>m, <2>1, <2>2, SessionReplaced
    <2> HIDE DEF n
    <2> QED BY <2>3, <2>4, <1>d
  <1>7. ASSUME NEW s \in Sessions, Stop(s)
        PROVE  SessionInv'
    <2> DEFINE n == StopSessions(m, {s}, "stopped")
    <2>1. n \in State /\ Consistent(n, thread, guardian) /\ Covered(n, thread)
      BY <1>m, StopSessionsType, StopSessionsConsistent DEF SessionStatus
    <2>2. Dispatch(n)
      BY <1>7 DEF Stop, m
    <2> HIDE DEF n
    <2> QED BY <2>1, <2>2, <1>d
  <1>8. ASSUME NEW s \in Sessions, Age(s)
        PROVE  SessionInv'
    BY <1>8, <1>m, <1>q DEF Age
  <1>9. ASSUME NEW R \in SUBSET Operations, Prune(R)
        PROVE  SessionInv'
    <2> DEFINE ops == [o \in Operations |->
                    IF o \in R THEN NoOperation ELSE m.operations[o]]
               kept == [m EXCEPT !.operations = ops]
               sess == [s \in Sessions |->
                    IF Retained(kept, s) THEN m.sessions[s] ELSE NoSessionRecord]
               n == [kept EXCEPT !.sessions = sess]
    <2>1. ops \in [Operations -> Operation]
      BY <1>m DEF State, Operation, NoOperation, OperationStatus
    <2>2. kept \in State /\ kept.operations = ops
      BY <2>1, <1>m DEF State
    <2>3. sess \in [Sessions -> Session]
      BY <1>m DEF State, Session, SessionStatus, NoSessionRecord
    <2>4. \A s \in Sessions :
            (\E o \in Operations : ops[o].session = s) => sess[s] = m.sessions[s]
      BY <2>2 DEF Retained
    <2>5. Dispatch(n) /\ \A o \in R : ~Active(m, o)
      BY <1>9 DEF Prune, m
    <2>6. \A o \in Operations :
            ops[o] = IF o \in R THEN NoOperation ELSE m.operations[o]
      OBVIOUS
    <2> HIDE DEF ops, sess
    <2>7. /\ n \in State /\ n.operations = ops /\ n.sessions = sess
          /\ n.used_operations = m.used_operations
          /\ n.stopping = m.stopping /\ n.journal_failed = m.journal_failed
      BY <1>m, <2>1, <2>3 DEF State
    <2> HIDE DEF n
    <2>8. Consistent(n, thread, guardian) /\ Covered(n, thread)
      BY <1>m, <2>4, <2>5, <2>6, <2>7, Pruned
    <2> QED BY <2>5, <2>7, <2>8, <1>d
  <1>10. ASSUME NEW o \in Operations, NEW s \in Sessions, NEW a \in Commands,
                Reserve(o, s, a)
         PROVE  SessionInv'
    <2> DEFINE op == [status |-> "reserved", session |-> s, control |-> FALSE]
               n == [m EXCEPT !.used_operations = @ \union {o}, !.operations[o] = op]
               job == [pc |-> "launch", session |-> s, argv |-> a, result |-> "none"]
    <2>1. /\ op \in Operation /\ op.status = "reserved" /\ op.session = s /\ ~op.control
          /\ job \in Thread /\ job.pc = "launch" /\ job.session = s /\ job.argv = a
      BY DEF Operation, OperationStatus, Unfinished, Thread, Busy
    <2>2. /\ o \notin m.used_operations /\ m.sessions[s].status = "active"
          /\ <<m.sessions[s].profile, a>> \in Allows
          /\ up /\ UNCHANGED <<up, guardian>>
          /\ \/ state' = n /\ thread' = [thread EXCEPT ![o] = job]
             \/ state' = FailClosed(n) /\ UNCHANGED thread
      BY <1>10 DEF Reserve, Used, m
    <2> HIDE DEF op, job
    <2>3. /\ n \in State /\ n.sessions = m.sessions
          /\ n.used_operations = m.used_operations \union {o}
          /\ n.stopping = m.stopping /\ n.journal_failed = m.journal_failed
          /\ n.operations[o] = op
          /\ \A x \in Operations : x # o => n.operations[x] = m.operations[x]
      BY <1>m, <2>1 DEF State
    <2> HIDE DEF n
    <2>4. thread[o].pc = "idle"
      BY <1>m, <2>2 DEF Consistent, Agrees
    <2>5. \A x \in Operations : x # o =>
            SessionOf(n, x) = SessionOf(m, x) /\ (Active(n, x) <=> Active(m, x))
      BY <2>3 DEF SessionOf, Active
    <2>6. CASE state' = FailClosed(n) /\ UNCHANGED thread
      <3>1. Consistent(n, thread, guardian)
        BY <1>m, <2>1, <2>3, <2>4, <2>5 DEF Consistent, Agrees, Working
      <3> QED BY <1>m, <2>2, <2>3, <2>6, <3>1, FailClosedConsistent, <1>q
    <2>7. CASE state' = n /\ thread' = [thread EXCEPT ![o] = job]
      <3>1. thread'[o] = job /\ \A x \in Operations : x # o => thread'[x] = thread[x]
        BY <1>m, <2>7 DEF Threads
      <3>2. Active(n, o) /\ SessionOf(n, o) = m.sessions[s]
        BY <2>1, <2>3 DEF Active, SessionOf, Unfinished
      <3>3. Consistent(n, thread', guardian)
        BY <1>m, <2>1, <2>2, <2>3, <2>5, <3>1, <3>2 DEF Consistent, Agrees, Working
      <3>4. Covered(n, thread')
        BY <1>m, <2>1, <2>3, <2>5, <3>1 DEF Covered, Working
      <3>5. \A x \in Operations : thread'[x].pc # "idle" => up'
        BY <2>2
      <3> QED BY <2>2, <2>7, <3>3, <3>4, <3>5 DEF SessionInv, RunsAuthorized
    <2> QED BY <2>2, <2>6, <2>7
  <1> QED BY <1>1, <1>2, <1>3, <1>4, <1>5, <1>6, <1>7, <1>8, <1>9, <1>10 DEF Requests

\* A thread about to launch, whose pipe is not open yet, fails.
LEMMA ThreadFails ==
    ASSUME NEW m \in State, NEW t \in Threads, NEW u \in Threads, NEW g,
           Consistent(m, t, g), NEW o \in Operations, t[o].pc = "launch",
           u = [t EXCEPT ![o].pc = "failing"]
    PROVE  /\ Consistent(m, u, g)
           /\ Covered(m, t) => Covered(m, u)
  <1>1. /\ u[o].pc = "failing" /\ u[o].session = t[o].session
        /\ \A x \in Operations : x # o => u[x] = t[x]
    <2>1. t[o] \in Busy
      BY DEF Threads, Thread, Idle
    <2> QED BY <2>1 DEF Threads, Busy
  <1>2. ~m.operations[o].control
    BY DEF Consistent, Agrees
  <1>3. Consistent(m, u, g)
    BY <1>1, <1>2 DEF Consistent, Agrees, Working
  <1> QED BY <1>1, <1>3 DEF Covered, Working

\* finish() of the operation of a thread, which goes on to answer.
LEMMA FinishedConsistent ==
    ASSUME NEW m \in State, NEW t \in Threads, NEW u \in Threads, NEW g,
           Consistent(m, t, g), Covered(m, t), NEW o \in Operations, Working(t, o),
           NEW status \in Final, u[o].pc = "answer",
           \A x \in Operations : x # o => u[x] = t[x]
    PROVE  LET n == Finished(m, o, status) IN
           n \in State /\ Consistent(n, u, g) /\ Covered(n, u)
  <1> DEFINE n == Finished(m, o, status)
  <1>1. m.operations[o].status # "absent"
    BY DEF Consistent, Agrees, Active, Unfinished
  <1>2. n \in State
    BY FinishedType DEF OperationStatus
  <1>3. /\ n.sessions = m.sessions /\ n.used_operations = m.used_operations
        /\ n.stopping = m.stopping /\ n.journal_failed = m.journal_failed
        /\ n.operations[o].status = status /\ ~n.operations[o].control
        /\ \A x \in Operations : x # o => n.operations[x] = m.operations[x]
    BY <1>1 DEF Finished, State, Operation
  <1> HIDE DEF n
  <1>4. \A x \in Operations : x # o =>
            SessionOf(n, x) = SessionOf(m, x) /\ (Active(n, x) <=> Active(m, x))
    BY <1>3 DEF SessionOf, Active
  <1>5. ~Active(n, o) /\ ~Working(u, o)
    BY <1>3 DEF Active, Working, Final, Unfinished
  <1>6. t[o].pc # "idle"
    BY DEF Working
  <1>7. Consistent(n, u, g)
    <2>1. Agrees(n, u, g, o)
      BY <1>3, <1>5, <1>6 DEF Consistent, Agrees, Working
    <2>2. ASSUME NEW x \in Operations, x # o PROVE Agrees(n, u, g, x)
      BY <1>3, <1>4, <2>2, SameAgrees DEF Consistent
    <2> QED BY <1>3, <2>1, <2>2 DEF Consistent
  <1>8. Covered(n, u)
    BY <1>3, <1>4, <1>5 DEF Covered, Working
  <1> QED BY <1>2, <1>7, <1>8 DEF n

\* launch(): the pipe is open, its guardian has the session's profile.
LEMMA Launched ==
    ASSUME NEW m \in State, NEW n \in State, NEW t \in Threads, NEW u \in Threads,
           NEW g, NEW h, Consistent(m, t, g), Covered(m, t),
           NEW o \in Operations, t[o].pc = "launch",
           SessionOf(m, o).status = "active",
           n.sessions = m.sessions, n.used_operations = m.used_operations,
           n.stopping = m.stopping, n.journal_failed = m.journal_failed,
           n.operations[o].status = "running",
           n.operations[o].session = m.operations[o].session,
           \A x \in Operations : x # o =>
                n.operations[x] = m.operations[x] /\ u[x] = t[x] /\ h[x] = g[x],
           u[o].pc = "relay", u[o].session = t[o].session,
           h[o].session = m.operations[o].session,
           h[o].profile = SessionOf(m, o).profile
    PROVE  Consistent(n, u, h) /\ Covered(n, u)
  <1>1. \A x \in Operations : SessionOf(n, x) = SessionOf(m, x)
    BY DEF SessionOf
  <1>2. \A x \in Operations : x # o => (Active(n, x) <=> Active(m, x))
    BY DEF Active
  <1>3. Active(n, o) /\ Working(t, o) /\ Working(u, o)
    BY DEF Active, Unfinished, Working
  <1>4. Consistent(n, u, h)
    <2>1. Agrees(n, u, h, o)
      BY <1>1, <1>3 DEF Consistent, Agrees
    <2>2. ASSUME NEW x \in Operations, x # o PROVE Agrees(n, u, h, x)
      BY <1>1, <2>2, SameAgrees DEF Consistent
    <2> QED BY <2>1, <2>2 DEF Consistent
  <1> QED BY <1>2, <1>3, <1>4 DEF Covered, Working

\* Thread and guardian steps keep SessionInv.
LEMMA OperationSession ==
    ASSUME TypeOK, SessionInv, NEW o \in Operations,
           Launching(o) \/ GuardianEnds(o) \/ Finishing(o) \/ Answer(o)
    PROVE  SessionInv'
  <1> DEFINE m == LaunchState
  <1>m. /\ state \in State /\ m \in State /\ thread \in Threads
        /\ Consistent(state, thread, guardian) /\ Covered(state, thread)
        /\ Consistent(m, thread, guardian) /\ Covered(m, thread)
    BY ExpireType, ExpireConsistent DEF TypeOK, Threads, SessionInv, LaunchState
  <1>t. thread' \in Threads
    BY OperationType DEF TypeOK, Threads
  <1> HIDE DEF m
  <1>u. thread[o].pc # "idle" => up
    BY DEF SessionInv
  <1>p. ASSUME Consistent(state', thread', guardian), Covered(state', thread'),
               UNCHANGED <<up, guardian>>, thread[o].pc # "idle",
               \A x \in Operations : x # o => thread'[x] = thread[x]
        PROVE  SessionInv'
    BY <1>p, <1>u DEF SessionInv, RunsAuthorized
  <1>x. ASSUME NEW r, thread' = [thread EXCEPT ![o] = r]
        PROVE  \A x \in Operations : x # o => thread'[x] = thread[x]
    BY <1>x, <1>m DEF Threads
  <1>1. CASE LaunchRefused(o)
    <2>1. Consistent(m, thread', guardian) /\ Covered(m, thread')
      BY <1>1, <1>m, <1>t, ThreadFails DEF LaunchRefused, GoesOnToFail
    <2>2. \A x \in Operations : x # o => thread'[x] = thread[x]
      BY <1>1, <1>m DEF LaunchRefused, GoesOnToFail, Threads
    <2> QED BY <1>1, <1>p, <2>1, <2>2 DEF LaunchRefused, m
  <1>2. CASE LaunchFailed(o)
    <2>1. Consistent(m, thread', guardian) /\ Covered(m, thread')
      BY <1>2, <1>m, <1>t, ThreadFails DEF LaunchFailed
    <2>2. Consistent(state', thread', guardian) /\ Covered(state', thread')
      BY <1>2, <1>m, <1>t, <2>1, CommitConsistent DEF LaunchFailed, m
    <2>3. \A x \in Operations : x # o => thread'[x] = thread[x]
      BY <1>2, <1>m DEF LaunchFailed, Threads
    <2> QED BY <1>2, <1>p, <2>2, <2>3 DEF LaunchFailed
  <1>3. CASE Launch(o)
    <2> DEFINE s == thread[o].session
               job == [phase |-> "live", session |-> s, profile |-> m.sessions[s].profile,
                       argv |-> thread[o].argv, result |-> "none"]
    <2>1. /\ thread[o].pc = "launch" /\ m.sessions[s].status = "active"
          /\ state' = [m EXCEPT !.operations[o].status = "running",
                                !.operations[o].control = TRUE]
          /\ guardian' = [guardian EXCEPT ![o] = job]
          /\ thread' = [thread EXCEPT ![o].pc = "relay"]
          /\ UNCHANGED up
      BY <1>3 DEF Launch, m
    <2>2. m.operations[o].session = s /\ SessionOf(m, o) = m.sessions[s]
      BY <1>m, <2>1 DEF Consistent, Agrees, Working, SessionOf
    <2>3. state' \in State
      BY OperationType DEF TypeOK
    <2>4. /\ state'.sessions = m.sessions /\ state'.used_operations = m.used_operations
          /\ state'.stopping = m.stopping /\ state'.journal_failed = m.journal_failed
          /\ state'.operations[o].status = "running"
          /\ state'.operations[o].session = m.operations[o].session
          /\ \A x \in Operations : x # o => state'.operations[x] = m.operations[x]
      BY <1>m, <2>1 DEF State, Operation
    <2>5. /\ thread'[o].pc = "relay" /\ thread'[o].session = s
          /\ \A x \in Operations : x # o => thread'[x] = thread[x]
      <3>1. thread[o] \in Busy
        BY <1>m, <2>1 DEF Threads, Thread, Idle
      <3> QED BY <1>m, <2>1, <3>1 DEF Threads, Busy
    <2>6. /\ guardian'[o] = job
          /\ \A x \in Operations : x # o => guardian'[x] = guardian[x]
      BY <2>1 DEF TypeOK
    <2>7. job.session = s /\ job.profile = m.sessions[s].profile
            /\ job.argv = thread[o].argv
      OBVIOUS
    <2>8. <<m.sessions[s].profile, thread[o].argv>> \in Allows
      BY <1>m, <2>1, <2>2 DEF Consistent, Agrees
    <2> HIDE DEF job
    <2>9. Consistent(state', thread', guardian') /\ Covered(state', thread')
      <3>1. SessionOf(m, o).status = "active" /\ guardian'[o].session = m.operations[o].session
              /\ guardian'[o].profile = SessionOf(m, o).profile
        BY <2>1, <2>2, <2>6, <2>7
      <3>2. \A x \in Operations : x # o =>
                /\ state'.operations[x] = m.operations[x]
                /\ thread'[x] = thread[x] /\ guardian'[x] = guardian[x]
        BY <2>4, <2>5, <2>6
      <3>3. /\ thread[o].pc = "launch"
            /\ thread'[o].pc = "relay" /\ thread'[o].session = thread[o].session
        BY <2>1, <2>5
      <3> QED BY <1>m, <1>t, <2>3, <2>4, <3>1, <3>2, <3>3, Launched
    <2>10. RunsAuthorized'
      BY <2>6, <2>7, <2>8 DEF RunsAuthorized, SessionInv
    <2> QED BY <1>u, <2>1, <2>5, <2>9, <2>10 DEF SessionInv
  <1>4. CASE GuardianEnds(o)
    <2>1. PICK r \in Results :
            guardian' = [guardian EXCEPT ![o].phase = "ended", ![o].result = r]
      BY <1>4 DEF GuardianEnds
    <2>2. guardian[o] \in Started /\ guardian[o].phase = "live"
      BY <1>4, GuardianMoves DEF GuardianEnds, Results
    <2>3. \A x \in Operations :
            /\ guardian'[x].session = guardian[x].session
            /\ guardian'[x].profile = guardian[x].profile
            /\ guardian'[x].argv = guardian[x].argv
            /\ guardian'[x].phase # "none" => guardian[x].phase # "none"
      BY <2>1, <2>2 DEF TypeOK, Started
    <2>4. UNCHANGED <<up, state, thread>>
      BY <1>4 DEF GuardianEnds
    <2>5. Consistent(state, thread, guardian')
      BY <1>m, <2>3 DEF Consistent, Agrees
    <2>6. RunsAuthorized'
      BY <2>3 DEF RunsAuthorized, SessionInv
    <2> QED BY <2>4, <2>5, <2>6 DEF SessionInv
  <1>f. ASSUME NEW status \in Final, Working(thread, o),
               Commit(Finished(state, o, status)), UNCHANGED <<up, guardian>>,
               NEW r \in Results \union {"none"},
               thread' = [thread EXCEPT ![o].pc = "answer", ![o].result = r]
        PROVE  SessionInv'
    <2>1. thread'[o].pc = "answer" /\ \A x \in Operations : x # o => thread'[x] = thread[x]
      <3>1. thread[o] \in Busy
        BY <1>f, <1>m DEF Threads, Thread, Idle, Working
      <3> QED BY <1>f, <1>m, <3>1 DEF Threads, Busy
    <2> DEFINE n == Finished(state, o, status)
    <2>2. n \in State /\ Consistent(n, thread', guardian) /\ Covered(n, thread')
      BY <1>f, <1>m, <1>t, <2>1, FinishedConsistent
    <2> HIDE DEF n
    <2>3. Consistent(state', thread', guardian) /\ Covered(state', thread')
      BY <1>f, <1>t, <2>2, CommitConsistent DEF n
    <2>4. thread[o].pc # "idle"
      BY <1>f DEF Working
    <2> QED BY <1>f, <1>p, <2>1, <2>3, <2>4
  <1>5. CASE FinishUnlaunched(o)
    <2>1. Working(thread, o) /\ "failed" \in Final /\ "error" \in Results \union {"none"}
      BY <1>5 DEF FinishUnlaunched, Working, Final, Results
    <2> QED BY <1>5, <1>f, <2>1 DEF FinishUnlaunched
  <1>6. CASE Finish(o)
    <2>1. Working(thread, o) /\ Outcome(guardian[o].result) \in Final
      BY <1>6 DEF Finish, Working, Final, Outcome
    <2>2. guardian[o].result \in Results \union {"none"}
      BY DEF TypeOK, Guardian, Started, NoGuardian
    <2> QED BY <1>6, <1>f, <2>1, <2>2 DEF Finish
  <1>7. CASE Answer(o)
    <2>1. /\ thread[o].pc = "answer" /\ thread' = [thread EXCEPT ![o] = Idle]
          /\ UNCHANGED <<up, state, guardian>>
      BY <1>7 DEF Answer
    <2>2. thread'[o].pc = "idle" /\ \A x \in Operations : x # o => thread'[x] = thread[x]
      BY <1>m, <2>1 DEF Threads, Idle
    <2>3. ~Working(thread, o)
      BY <2>1 DEF Working
    <2>4. Consistent(state, thread', guardian)
      <3>1. Agrees(state, thread', guardian, o)
        BY <1>m, <2>1, <2>2 DEF Consistent, Agrees, Working
      <3>2. ASSUME NEW x \in Operations, x # o
            PROVE  Agrees(state, thread', guardian, x)
        BY <1>m, <2>2, <3>2, SameAgrees DEF Consistent
      <3> QED BY <1>m, <3>1, <3>2 DEF Consistent
    <2>5. Covered(state, thread')
      BY <1>m, <2>2, <2>3 DEF Covered, Working
    <2> QED BY <1>p, <2>1, <2>2, <2>4, <2>5
  <1> QED BY <1>1, <1>2, <1>3, <1>4, <1>5, <1>6, <1>7 DEF Launching, Finishing

\* A service without operations and threads is consistent.
LEMMA RestedConsistent ==
    ASSUME NEW m \in State, NEW g, ~m.journal_failed,
           \A o \in Operations : ~Active(m, o) /\ ~m.operations[o].control
    PROVE  LET t == [o \in Operations |-> Idle] IN
           Consistent(m, t, g) /\ Covered(m, t)
  BY DEF Consistent, Agrees, Covered, Working, Idle

\* Nothing is left of the state after a crash, no thread after a restart.
LEMMA ProcessSession ==
    ASSUME TypeOK, SessionInv, Crash \/ Exit \/ Recover
    PROVE  SessionInv'
  <1> DEFINE t == [o \in Operations |-> Idle]
  <1>0. \A o \in Operations : t[o].pc = "idle"
    BY DEF Idle
  <1>1. CASE Gone
    <2>1. EmptyState \in State /\ ~EmptyState.journal_failed /\ \A o \in Operations :
            ~Active(EmptyState, o) /\ ~EmptyState.operations[o].control
      BY EmptyStateType DEF EmptyState, NoOperation, Active, Unfinished
    <2>2. Consistent(EmptyState, t, guardian) /\ Covered(EmptyState, t)
      BY <2>1, RestedConsistent
    <2>3. state' = EmptyState /\ thread' = t /\ UNCHANGED guardian
      BY <1>1 DEF Gone
    <2> HIDE DEF t
    <2> QED BY <1>0, <2>2, <2>3 DEF SessionInv, RunsAuthorized
  <1>2. CASE Recover
    <2> DEFINE m == Recovered(journal)
    <2>1. UNCHANGED <<thread, guardian>> /\ ~up
      BY <1>2 DEF Recover
    <2>2. thread = t
      <3>1. \A o \in Operations : thread[o].pc = "idle"
        BY <2>1 DEF SessionInv
      <3>2. \A o \in Operations : thread[o] = Idle
        BY <3>1 DEF TypeOK, Thread, Busy
      <3> QED BY <3>2 DEF TypeOK
    <2>3. m \in State /\ ~m.journal_failed
      BY RecoveredType DEF TypeOK, Recovered, EmptyState
    <2>4. \A o \in Operations : ~Active(m, o) /\ ~m.operations[o].control
      BY DEF Recovered, EmptyState, RecoveredStatus, Active, Unfinished
    <2>5. state' \in {state, m}
      BY <1>2 DEF Recover
    <2> HIDE DEF m
    <2>6. Consistent(m, t, guardian) /\ Covered(m, t)
      BY <2>3, <2>4, RestedConsistent
    <2> HIDE DEF t
    <2>7. Consistent(state', thread', guardian') /\ Covered(state', thread')
      BY <2>1, <2>2, <2>5, <2>6 DEF SessionInv
    <2> QED BY <1>0, <2>1, <2>2, <2>7 DEF SessionInv, RunsAuthorized
  <1> QED BY <1>1, <1>2 DEF Crash, Exit

\* The initial state satisfies SessionInv.
LEMMA InitSession == Init => SessionInv
  <1> SUFFICES ASSUME Init PROVE SessionInv
    OBVIOUS
  <1>1. EmptyState \in State /\ ~EmptyState.journal_failed /\ \A o \in Operations :
            ~Active(EmptyState, o) /\ ~EmptyState.operations[o].control
    BY EmptyStateType DEF EmptyState, NoOperation, Active, Unfinished
  <1>2. Consistent(state, thread, guardian) /\ Covered(state, thread)
    BY <1>1, RestedConsistent DEF Init
  <1>3. /\ \A o \in Operations : thread[o].pc = "idle"
        /\ \A o \in Operations : guardian[o].phase = "none"
    BY DEF Init, Idle, NoGuardian
  <1> QED BY <1>2, <1>3 DEF SessionInv, RunsAuthorized

\* Every step keeps SessionInv.
LEMMA NextSession == TypeOK /\ SessionInv /\ [Next]_vars => SessionInv'
  <1> SUFFICES ASSUME TypeOK, SessionInv, [Next]_vars PROVE SessionInv'
    OBVIOUS
  <1>1. CASE UNCHANGED vars
    BY <1>1 DEF vars, SessionInv, RunsAuthorized
  <1>2. CASE Next
    BY <1>2, RequestsSession, OperationSession, ProcessSession DEF Next
  <1> QED BY <1>1, <1>2

\* Threads, guardians and sessions agree, whatever requests, failed writes,
\* crashes and restarts come between the critical sections of a Run.
THEOREM SessionInvariant == Spec => [](TypeOK /\ SessionInv)
  BY InitType, InitSession, NextType, NextSession, PTL DEF Spec

\* No guardian is given an argv its profile does not approve.
THEOREM AuthorizedAlways == Spec => []RunsAuthorized
  <1>1. SessionInv => RunsAuthorized
    BY DEF SessionInv
  <1> QED BY <1>1, SessionInvariant, PTL

\* An open pipe is a running operation's, in an active session with its profile.
THEOREM PipeFollows == Spec => []PipeFollowsSession
  <1>1. SessionInv => PipeFollowsSession
    BY DEF SessionInv, Consistent, Agrees, SessionOf, PipeFollowsSession
  <1> QED BY <1>1, SessionInvariant, PTL

\* An unfinished operation has a thread, or the service is going away.
THEOREM NoneForgotten == Spec => []NobodyForgotten
  <1>1. SessionInv => NobodyForgotten
    BY DEF SessionInv, Covered, Working, NobodyForgotten
  <1> QED BY <1>1, SessionInvariant, PTL

\* launch() finds the session active, its TTL not passed, and no write lost.
THEOREM InTimeAlways == Spec => LaunchesInTime
  <1>1. ASSUME TypeOK, SessionInv, Next, NEW o \in Operations,
               launches'[o] # launches[o]
        PROVE  LET s == thread[o].session IN
               /\ state'.sessions[s].status = "active" /\ s \notin aged
               /\ ~state'.stopping /\ ~state'.journal_failed
    <2>1. \E x \in Operations : Launch(x)
      BY <1>1 DEF Next, Requests, ExpireTick, Terminate, TerminateUnwritten, Deny,
            ExpireOnly, Start, Resume, Stop, Age, Prune, Reserve, Dispatch, Launching,
            LaunchRefused, LaunchFailed, GuardianEnds, Finishing, FinishUnlaunched,
            Finish, Answer, Crash, Exit, Gone, Recover, history
    <2>2. Launch(o)
      BY <1>1, <2>1 DEF Launch, TypeOK
    <2> DEFINE m == LaunchState
               s == thread[o].session
    <2>3. m \in State /\ state \in State
      BY ExpireType, <1>1 DEF TypeOK, LaunchState
    <2>4. /\ m.sessions[s].status = "active" /\ ~m.stopping
          /\ state'.sessions = m.sessions /\ state'.stopping = m.stopping
          /\ state'.journal_failed = m.journal_failed
      BY <2>2, <2>3 DEF Launch, State
    <2>5. s \in Sessions
      BY <1>1, <2>2, ThreadMoves DEF Launch, Busy
    <2>6. s \notin aged
      <3>1. ~(s \in aged /\ state.sessions[s].status = "active")
        BY <2>3, <2>4, <2>5, StopSessionsParts DEF LaunchState, Expire, SessionStatus
      <3>2. s \in aged => m.sessions[s] = state.sessions[s]
        BY <2>3, <2>5, <3>1, StopSessionsParts DEF LaunchState, Expire, SessionStatus
      <3> QED BY <2>4, <3>1, <3>2
    <2>7. ~m.journal_failed
      <3>1. state.journal_failed => state.stopping
        BY <1>1 DEF SessionInv, Consistent
      <3> QED BY <2>3, <2>4, <3>1, ExpireType DEF LaunchState
    <2> QED BY <2>4, <2>6, <2>7
  <1>2. TypeOK /\ SessionInv /\ [Next]_vars =>
            [\A o \in Operations : launches'[o] # launches[o] =>
                LET s == thread[o].session IN
                /\ state'.sessions[s].status = "active" /\ s \notin aged
                /\ ~state'.stopping /\ ~state'.journal_failed]_vars
    BY <1>1
  <1> QED BY <1>2, SessionInvariant, PTL DEF Spec, LaunchesInTime

(***************************************************************************)
(* Pipes close for a reason.                                               *)
(***************************************************************************)

Inactive(m, o) == SessionOf(m, o).status # "active"

\* From m to n, the operations of threads before finish() lose their pipes to
\* sessions that are not active any more only, and no session comes back.
Follows(m, n, t) ==
    \A o \in Operations : Working(t, o) =>
        /\ n.operations[o].session = m.operations[o].session
        /\ Inactive(m, o) => Inactive(n, o)
        /\ m.operations[o].control => n.operations[o].control \/ Inactive(n, o)

\* One change of the state after another.
LEMMA FollowsOn ==
    ASSUME NEW m, NEW n, NEW p, NEW t, Follows(m, n, t), Follows(n, p, t)
    PROVE  Follows(m, p, t)
  BY DEF Follows

\* Stopping sessions closes the pipes of their operations.
LEMMA StopSessionsFollows ==
    ASSUME NEW m \in State, NEW S, NEW status \in SessionStatus \ {"active"},
           NEW t \in Threads, NEW g, Consistent(m, t, g)
    PROVE  Follows(m, StopSessions(m, S, status), t)
  <1> DEFINE n == StopSessions(m, S, status)
  <1>1. ASSUME NEW o \in Operations, Working(t, o)
        PROVE  /\ n.operations[o].session = m.operations[o].session
               /\ Inactive(m, o) => Inactive(n, o)
               /\ m.operations[o].control => n.operations[o].control \/ Inactive(n, o)
    <2>1. m.operations[o].session \in Sessions
      BY <1>1, SessionOfPipe
    <2>2. n.operations[o].session = m.operations[o].session
      BY StopSessionsParts
    <2>3. Inactive(m, o) => Inactive(n, o)
      BY <2>1, <2>2, StopSessionsParts DEF Inactive, SessionOf
    <2>4. m.operations[o].control => n.operations[o].control \/ Inactive(n, o)
      BY <2>1, <2>2, StopSessionsParts DEF Inactive, SessionOf
    <2> QED BY <2>2, <2>3, <2>4
  <1> QED BY <1>1 DEF Follows

\* Only sessions and operations matter.
LEMMA SameFollows ==
    ASSUME NEW m, NEW n, NEW p, NEW t, Follows(m, n, t),
           p.sessions = n.sessions, p.operations = n.operations
    PROVE  Follows(m, p, t)
  BY DEF Follows, Inactive, SessionOf

\* expire(), shutdown() and a failed persist() close pipes for a reason.
LEMMA MethodsFollow ==
    ASSUME NEW m \in State, NEW t \in Threads, NEW g, Consistent(m, t, g)
    PROVE  /\ Follows(m, Expire(m), t)
           /\ Follows(m, Shutdown(m), t)
           /\ Follows(m, FailClosed(m), t)
  <1> DEFINE n == StopSessions(m, Sessions, "stopped")
             f == [m EXCEPT !.journal_failed = TRUE]
             h == StopSessions(f, Sessions, "stopped")
  <1>1. Follows(m, Expire(m), t)
    BY StopSessionsFollows DEF Expire, SessionStatus
  <1>2. Follows(m, n, t) /\ n \in State
    BY StopSessionsFollows, StopSessionsType DEF SessionStatus
  <1>3. Shutdown(m).sessions = n.sessions /\ Shutdown(m).operations = n.operations
    BY <1>2 DEF Shutdown, State
  <1>4. f \in State /\ h \in State
    <2>1. f \in State
      BY DEF State
    <2> QED BY <2>1, StopSessionsType DEF SessionStatus
  <1>5. h.sessions = n.sessions /\ h.operations = n.operations
    BY <1>4 DEF StopSessions, Active, State
  <1>6. FailClosed(m).sessions = h.sessions /\ FailClosed(m).operations = h.operations
    BY <1>4 DEF FailClosed, Shutdown, State
  <1> HIDE DEF n, h
  <1> QED BY <1>1, <1>2, <1>3, <1>5, <1>6, SameFollows

\* What a critical section does to a state, persist() included.
LEMMA CommitFollows ==
    ASSUME NEW m, NEW n \in State, NEW t \in Threads, NEW g,
           Consistent(n, t, g), Follows(m, n, t), Commit(n)
    PROVE  Follows(m, state', t)
  BY MethodsFollow, FollowsOn DEF Commit

\* An operation some of whose neighbours change.
LEMMA KeptFollows ==
    ASSUME NEW m, NEW n, NEW t,
           \A o \in Operations : Working(t, o) =>
                n.operations[o] = m.operations[o] /\ SessionOf(n, o) = SessionOf(m, o)
    PROVE  Follows(m, n, t)
  BY DEF Follows, Inactive

\* Requests close pipes for a reason.
LEMMA RequestsFollow ==
    ASSUME TypeOK, SessionInv, Requests
    PROVE  Follows(state, state', thread)
  <1> DEFINE m == Expire(state)
  <1>m. /\ state \in State /\ m \in State /\ thread \in Threads
        /\ Consistent(state, thread, guardian) /\ Consistent(m, thread, guardian)
        /\ Follows(state, m, thread)
    BY ExpireType, ExpireConsistent, MethodsFollow DEF TypeOK, Threads, SessionInv
  <1>d. ASSUME NEW n \in State, Follows(m, n, thread), Consistent(n, thread, guardian),
               Dispatch(n)
        PROVE  Follows(state, state', thread)
    BY <1>d, <1>m, FollowsOn, CommitFollows DEF Dispatch
  <1>s. Follows(state, state, thread) /\ Follows(m, m, thread)
    BY DEF Follows
  <1> HIDE DEF m
  <1>1. CASE ExpireTick
    BY <1>1, <1>m, <1>s, <1>d DEF ExpireTick, m
  <1>2. CASE Terminate
    BY <1>2, <1>m, <1>d, ShutdownType, ShutdownConsistent, MethodsFollow DEF Terminate, m
  <1>3. CASE Deny
    BY <1>3, <1>m, <1>s, CommitFollows, FailClosedType, FailClosedConsistent,
       MethodsFollow DEF Deny, Dispatch
  <1>4. CASE ExpireOnly
    BY <1>4, <1>m DEF ExpireOnly, m
  <1>5. CASE TerminateUnwritten
    BY <1>5, <1>m, MethodsFollow DEF TerminateUnwritten
  <1>6. ASSUME NEW s \in Sessions, NEW p \in Profiles, Start(s, p) \/ Resume(s, p)
        PROVE  Follows(state, state', thread)
    <2> DEFINE record == [status |-> "active", profile |-> p]
               n == [m EXCEPT !.sessions[s] = record]
    <2>1. record \in Session
      BY DEF Session, SessionStatus
    <2>2. \A o \in Operations : Working(thread, o) => m.operations[o].session # s
      <3>1. CASE Start(s, p)
        <4>1. m.sessions[s].status = "absent"
          BY <3>1 DEF Start, Present, m
        <4>2. \A o \in Operations : Working(thread, o) => SessionOf(m, o).status # "absent"
          BY <1>m DEF Consistent, Agrees
        <4> QED BY <4>1, <4>2 DEF SessionOf
      <3>2. CASE Resume(s, p)
        BY <1>m, <3>2 DEF Resume, Quiescent, Consistent, Agrees, m
      <3> QED BY <1>6, <3>1, <3>2
    <2>3. Dispatch(n)
      BY <1>6 DEF Start, Resume, m
    <2> HIDE DEF record
    <2>4. n \in State /\ Consistent(n, thread, guardian)
      BY <1>m, <2>1, <2>2, SessionReplaced
    <2>5. /\ n.operations = m.operations
          /\ \A x \in Sessions : x # s => n.sessions[x] = m.sessions[x]
      BY <1>m, <2>1 DEF State
    <2> HIDE DEF n
    <2>6. \A o \in Operations : Working(thread, o) =>
                n.operations[o] = m.operations[o] /\ SessionOf(n, o) = SessionOf(m, o)
      BY <1>m, <2>2, <2>5, SessionOfPipe DEF SessionOf
    <2>7. Follows(m, n, thread)
      BY <2>6, KeptFollows
    <2> QED BY <2>3, <2>4, <2>7, <1>d
  <1>7. ASSUME NEW s \in Sessions, Stop(s)
        PROVE  Follows(state, state', thread)
    <2> DEFINE n == StopSessions(m, {s}, "stopped")
    <2>1. n \in State /\ Consistent(n, thread, guardian) /\ Follows(m, n, thread)
      BY <1>m, StopSessionsType, StopSessionsConsistent, StopSessionsFollows
         DEF SessionStatus
    <2>2. Dispatch(n)
      BY <1>7 DEF Stop, m
    <2> HIDE DEF n
    <2> QED BY <2>1, <2>2, <1>d
  <1>8. ASSUME NEW s \in Sessions, Age(s)
        PROVE  Follows(state, state', thread)
    BY <1>8, <1>s DEF Age
  <1>9. ASSUME NEW R \in SUBSET Operations, Prune(R)
        PROVE  Follows(state, state', thread)
    <2> DEFINE ops == [o \in Operations |->
                    IF o \in R THEN NoOperation ELSE m.operations[o]]
               kept == [m EXCEPT !.operations = ops]
               sess == [s \in Sessions |->
                    IF Retained(kept, s) THEN m.sessions[s] ELSE NoSessionRecord]
               n == [kept EXCEPT !.sessions = sess]
    <2>1. ops \in [Operations -> Operation]
      BY <1>m DEF State, Operation, NoOperation, OperationStatus
    <2>2. kept \in State /\ kept.operations = ops
      BY <2>1, <1>m DEF State
    <2>3. sess \in [Sessions -> Session]
      BY <1>m DEF State, Session, SessionStatus, NoSessionRecord
    <2>4. \A s \in Sessions :
            (\E o \in Operations : ops[o].session = s) => sess[s] = m.sessions[s]
      BY <2>2 DEF Retained
    <2>5. Dispatch(n) /\ \A o \in R : ~Active(m, o)
      BY <1>9 DEF Prune, m
    <2>6. \A o \in Operations :
            ops[o] = IF o \in R THEN NoOperation ELSE m.operations[o]
      OBVIOUS
    <2> HIDE DEF ops, sess
    <2>7. /\ n \in State /\ n.operations = ops /\ n.sessions = sess
          /\ n.used_operations = m.used_operations
          /\ n.stopping = m.stopping /\ n.journal_failed = m.journal_failed
      BY <1>m, <2>1, <2>3 DEF State
    <2> HIDE DEF n
    <2>8. Consistent(n, thread, guardian)
      BY <1>m, <2>4, <2>5, <2>6, <2>7, Pruned
    <2>9. ASSUME NEW o \in Operations, Working(thread, o)
          PROVE  n.operations[o] = m.operations[o] /\ SessionOf(n, o) = SessionOf(m, o)
      <3>1. n.operations[o] = m.operations[o]
        BY <1>m, <2>5, <2>6, <2>7, <2>9 DEF Consistent, Agrees
      <3>2. m.operations[o].session \in Sessions
        BY <1>m, <2>9, SessionOfPipe
      <3> QED BY <2>4, <2>7, <3>1, <3>2 DEF SessionOf
    <2>10. Follows(m, n, thread)
      BY <2>9, KeptFollows
    <2> QED BY <2>5, <2>7, <2>8, <2>10, <1>d
  <1>10. ASSUME NEW o \in Operations, NEW s \in Sessions, NEW a \in Commands,
                Reserve(o, s, a)
         PROVE  Follows(state, state', thread)
    <2> DEFINE op == [status |-> "reserved", session |-> s, control |-> FALSE]
               n == [m EXCEPT !.used_operations = @ \union {o}, !.operations[o] = op]
    <2>1. op \in Operation
      BY DEF Operation, OperationStatus, Unfinished
    <2>2. o \notin m.used_operations /\ state' \in {n, FailClosed(n)}
      BY <1>10 DEF Reserve, Used, m
    <2>3. ~Working(thread, o)
      BY <1>m, <2>2 DEF Consistent, Agrees, Working
    <2> HIDE DEF op
    <2>4. /\ n \in State /\ n.sessions = m.sessions
          /\ \A x \in Operations : x # o => n.operations[x] = m.operations[x]
          /\ n.used_operations = m.used_operations \union {o}
          /\ n.stopping = m.stopping /\ n.journal_failed = m.journal_failed
          /\ n.operations[o] = op
      BY <1>m, <2>1 DEF State
    <2> HIDE DEF n
    <2>5. \A x \in Operations : Working(thread, x) =>
                n.operations[x] = m.operations[x] /\ SessionOf(n, x) = SessionOf(m, x)
      BY <2>3, <2>4 DEF SessionOf
    <2>6. Follows(state, n, thread)
      BY <1>m, <2>5, KeptFollows, FollowsOn
    <2>7. Consistent(n, thread, guardian)
      <3>1. Agrees(n, thread, guardian, o)
        <4>1. ~op.control
          BY DEF op
        <4>2. thread[o].pc = "idle"
          BY <1>m, <2>2 DEF Consistent, Agrees
        <4> QED BY <2>3, <2>4, <4>1, <4>2 DEF Agrees, Working
      <3>2. ASSUME NEW x \in Operations, x # o PROVE Agrees(n, thread, guardian, x)
        BY <1>m, <2>4, <3>2, SameAgrees DEF Consistent, SessionOf
      <3> QED BY <1>m, <2>4, <3>1, <3>2 DEF Consistent
    <2> QED BY <1>m, <2>2, <2>4, <2>6, <2>7, MethodsFollow, FollowsOn
  <1> QED BY <1>1, <1>2, <1>3, <1>4, <1>5, <1>6, <1>7, <1>8, <1>9, <1>10 DEF Requests

\* launch(), a guardian's end and the answer close pipes for a reason.
LEMMA LaunchingFollows ==
    ASSUME TypeOK, SessionInv, NEW o \in Operations,
           Launching(o) \/ GuardianEnds(o) \/ Answer(o)
    PROVE  Follows(state, state', thread)
  <1> DEFINE m == LaunchState
  <1>m. /\ state \in State /\ m \in State /\ thread \in Threads
        /\ Consistent(m, thread, guardian) /\ Follows(state, m, thread)
    BY ExpireType, ExpireConsistent, MethodsFollow
       DEF TypeOK, Threads, SessionInv, LaunchState
  <1> HIDE DEF m
  <1>1. CASE LaunchRefused(o)
    BY <1>1, <1>m DEF LaunchRefused, m
  <1>2. CASE LaunchFailed(o)
    BY <1>2, <1>m, CommitFollows DEF LaunchFailed, m
  <1>3. CASE Launch(o)
    <2>1. state' = [m EXCEPT !.operations[o].status = "running",
                             !.operations[o].control = TRUE]
      BY <1>3 DEF Launch, m
    <2>2. /\ state'.sessions = m.sessions
          /\ state'.operations[o].session = m.operations[o].session
          /\ state'.operations[o].control
          /\ \A x \in Operations : x # o => state'.operations[x] = m.operations[x]
      BY <1>m, <2>1 DEF State, Operation
    <2>3. Follows(m, state', thread)
      BY <2>2 DEF Follows, Inactive, SessionOf
    <2> QED BY <1>m, <2>3, FollowsOn
  <1>4. CASE GuardianEnds(o) \/ Answer(o)
    BY <1>4 DEF GuardianEnds, Answer, Follows
  <1> QED BY <1>1, <1>2, <1>3, <1>4 DEF Launching

\* A failed persist() keeps the status of every operation.
LEMMA CommitKeepsStatus ==
    ASSUME NEW n \in State, Commit(n), NEW o \in Operations
    PROVE  state'.operations[o].status = n.operations[o].status
  <1> DEFINE f == [n EXCEPT !.journal_failed = TRUE]
             h == StopSessions(f, Sessions, "stopped")
  <1>1. f \in State /\ f.operations = n.operations /\ h \in State
    <2>1. f \in State /\ f.operations = n.operations
      BY DEF State
    <2> QED BY <2>1, StopSessionsType DEF SessionStatus
  <1>2. h.operations[o].status = f.operations[o].status
    <2>1. f \in State /\ "stopped" \in SessionStatus
      BY <1>1 DEF SessionStatus
    <2> HIDE DEF f
    <2> QED BY <2>1, StopSessionsParts
  <1>3. FailClosed(n).operations = h.operations
    BY <1>1 DEF FailClosed, Shutdown, State
  <1> HIDE DEF h, f
  <1> QED BY <1>1, <1>2, <1>3 DEF Commit

\* finish() closes the pipe of the operation it gives a final status, and its
\* persist() those of the sessions it stops.
LEMMA FinishingFollows ==
    ASSUME TypeOK, SessionInv, NEW o \in Operations, NEW status \in Final,
           NEW r, Working(thread, o), Commit(Finished(state, o, status)),
           thread' = [thread EXCEPT ![o].pc = "answer", ![o].result = r],
           thread' \in Threads
    PROVE  Follows(state, state', thread') /\ state'.operations[o].status \in Final
  <1> DEFINE n == Finished(state, o, status)
  <1>m. /\ state \in State /\ thread \in Threads
        /\ Consistent(state, thread, guardian) /\ Covered(state, thread)
    BY DEF TypeOK, Threads, SessionInv
  <1>1. thread'[o].pc = "answer" /\ \A x \in Operations : x # o => thread'[x] = thread[x]
    <2>1. thread[o] \in Busy
      BY <1>m DEF Threads, Thread, Idle, Working
    <2> QED BY <1>m, <2>1 DEF Threads, Busy
  <1>2. n \in State /\ Consistent(n, thread', guardian)
    BY <1>m, <1>1, FinishedConsistent
  <1>3. /\ n.sessions = state.sessions /\ n.operations[o].status = status
        /\ \A x \in Operations : x # o => n.operations[x] = state.operations[x]
    <2>1. state.operations[o].status # "absent"
      BY <1>m DEF Consistent, Agrees, Active, Unfinished
    <2> QED BY <1>m, <2>1 DEF Finished, State, Operation
  <1> HIDE DEF n
  <1>4. Follows(state, n, thread')
    BY <1>1, <1>3, KeptFollows DEF Working, SessionOf
  <1> QED BY <1>2, <1>3, <1>4, CommitFollows, CommitKeepsStatus DEF n

\* What Follows says of the pipes of a state with its threads.
LEMMA FollowedPipe ==
    ASSUME SessionInv, NEW o \in Operations, NEW t, t[o] = thread[o],
           Follows(state, state', t),
           state.operations[o].control, ~state'.operations[o].control
    PROVE  state'.sessions[state.operations[o].session].status # "active"
  <1>1. Working(t, o)
    BY DEF SessionInv, Consistent, Agrees, Working
  <1>2. /\ state'.operations[o].session = state.operations[o].session
        /\ Inactive(state', o)
    BY <1>1 DEF Follows
  <1> QED BY <1>2 DEF Inactive, SessionOf

\* Stopping or expiring one session never cancels the commands of another.
THEOREM ReasonAlways == Spec => PipesCloseForAReason
  <1> DEFINE Reason(o) ==
        \/ ~up'
        \/ state'.operations[o].status \in Final
        \/ state'.sessions[state.operations[o].session].status # "active"
  <1>1. ASSUME TypeOK, SessionInv, Next, NEW o \in Operations,
               state.operations[o].control, ~state'.operations[o].control
        PROVE  Reason(o)
    <2>1. CASE Requests
      BY <1>1, <2>1, RequestsFollow, FollowedPipe
    <2>2. ASSUME NEW x \in Operations, Launching(x) \/ GuardianEnds(x) \/ Answer(x)
          PROVE  Reason(o)
      BY <1>1, <2>2, LaunchingFollows, FollowedPipe
    <2>3. ASSUME NEW x \in Operations, Finishing(x)
          PROVE  Reason(o)
      <3>t. thread' \in Threads
        BY <1>1, <2>3, OperationType DEF TypeOK, Threads
      <3>f. ASSUME NEW status \in Final, NEW r, Working(thread, x),
                   Commit(Finished(state, x, status)),
                   thread' = [thread EXCEPT ![x].pc = "answer", ![x].result = r]
            PROVE  Reason(o)
        <4>1. Follows(state, state', thread') /\ state'.operations[x].status \in Final
          BY <1>1, <3>t, <3>f, FinishingFollows
        <4>2. CASE x = o
          BY <4>1, <4>2
        <4>3. CASE x # o
          <5>1. thread'[o] = thread[o]
            BY <1>1, <3>f, <4>3 DEF TypeOK
          <5> QED BY <1>1, <4>1, <5>1, FollowedPipe
        <4> QED BY <4>2, <4>3
      <3>1. CASE FinishUnlaunched(x)
        <4>1. Working(thread, x) /\ "failed" \in Final
          BY <3>1 DEF FinishUnlaunched, Working, Final
        <4> QED BY <3>1, <3>f, <4>1 DEF FinishUnlaunched
      <3>2. CASE Finish(x)
        <4>1. Working(thread, x) /\ Outcome(guardian[x].result) \in Final
          BY <3>2 DEF Finish, Working, Final, Outcome
        <4> QED BY <3>2, <3>f, <4>1 DEF Finish
      <3> QED BY <2>3, <3>1, <3>2 DEF Finishing
    <2>4. CASE Crash \/ Exit
      BY <2>4 DEF Crash, Exit, Gone
    <2>5. CASE Recover
      <3>1. ~up /\ thread[o].pc = "relay"
        BY <1>1, <2>5 DEF Recover, SessionInv, Consistent, Agrees
      <3> QED BY <1>1, <3>1 DEF SessionInv
    <2> QED BY <1>1, <2>1, <2>2, <2>3, <2>4, <2>5 DEF Next
  <1>2. TypeOK /\ SessionInv /\ [Next]_vars =>
            [\A o \in Operations :
                state.operations[o].control /\ ~state'.operations[o].control =>
                    \/ ~up'
                    \/ state'.operations[o].status \in Final
                    \/ state'.sessions[state.operations[o].session].status # "active"]_vars
    BY <1>1
  <1> QED BY <1>2, SessionInvariant, PTL DEF Spec, PipesCloseForAReason

(***************************************************************************)
(* An operation id launches at most one guardian, reserved on disk before. *)
(***************************************************************************)

\* A persist() whose state keeps the reservations keeps them on disk.
LEMMA CommitUsed ==
    ASSUME TypeOK, OnceInv, up, NEW m \in State,
           state.used_operations \subseteq m.used_operations, Commit(m)
    PROVE  /\ state'.used_operations = m.used_operations
           /\ journal.used_operations \subseteq journal'.used_operations
           /\ journal'.used_operations \subseteq state'.used_operations
  <1>1. Snapshot(m).used_operations = m.used_operations
    BY SnapshotType
  <1>2. state'.used_operations = m.used_operations
    BY FailClosedType DEF Commit
  <1>3. journal' \in {journal, Snapshot(m)}
    BY DEF Commit, PersistOk, PersistErr
  <1> QED BY <1>1, <1>2, <1>3 DEF OnceInv

\* Steps that neither reserve nor launch: it is enough that the ids on disk
\* stay and are reserved in memory.
LEMMA QuietStep ==
    ASSUME OnceInv, up, up', UNCHANGED launches,
           journal.used_operations \subseteq journal'.used_operations,
           journal'.used_operations \subseteq state'.used_operations,
           \A o \in Operations : thread'[o].pc = "launch" => thread[o].pc = "launch"
    PROVE  OnceInv'
  BY DEF OnceInv, ReservedBeforeLaunch, LaunchedOnce

\* A persist() that reserves and launches nothing keeps OnceInv.
LEMMA QuietCommit ==
    ASSUME TypeOK, OnceInv, up, up', UNCHANGED launches, NEW m \in State,
           state.used_operations \subseteq m.used_operations, Commit(m),
           \A o \in Operations : thread'[o].pc = "launch" => thread[o].pc = "launch"
    PROVE  OnceInv'
  <1>1. /\ journal.used_operations \subseteq journal'.used_operations
        /\ journal'.used_operations \subseteq state'.used_operations
    BY CommitUsed
  <1> QED BY <1>1, QuietStep

\* Requests keep OnceInv: only Reserve adds an id, on disk and in memory.
LEMMA RequestsOnce ==
    ASSUME TypeOK, OnceInv, Requests
    PROVE  OnceInv'
  <1> DEFINE m == Expire(state)
  <1>m. /\ state \in State /\ m \in State
        /\ m.used_operations = state.used_operations
    BY ExpireType DEF TypeOK
  <1>d. ASSUME NEW n \in State, n.used_operations = state.used_operations,
               Dispatch(n)
        PROVE  OnceInv'
    BY <1>d, QuietCommit DEF Dispatch, history
  <1>q. ASSUME up, UNCHANGED <<up, thread, durable, history>>,
               state'.used_operations = state.used_operations
        PROVE  OnceInv'
    BY <1>q, QuietStep DEF OnceInv, durable, history
  <1> HIDE DEF m
  <1>1. CASE ExpireTick
    BY <1>1, <1>m, <1>d DEF ExpireTick, m
  <1>2. CASE Terminate
    BY <1>2, <1>m, <1>d, ShutdownType DEF Terminate, m
  <1>3. CASE Deny
    BY <1>3, <1>m, <1>d, FailClosedType DEF Deny
  <1>4. CASE ExpireOnly
    BY <1>4, <1>m, <1>q DEF ExpireOnly, m
  <1>10. CASE TerminateUnwritten
    BY <1>10, <1>m, <1>q, ShutdownType DEF TerminateUnwritten
  <1>5. ASSUME NEW s \in Sessions, NEW p \in Profiles, Start(s, p) \/ Resume(s, p)
        PROVE  OnceInv'
    <2> DEFINE n == [m EXCEPT !.sessions[s] = [status |-> "active", profile |-> p]]
    <2>1. n \in State /\ n.used_operations = m.used_operations
      BY <1>m DEF State, Session, SessionStatus
    <2>2. Dispatch(n)
      BY <1>5 DEF Start, Resume, m
    <2> HIDE DEF n
    <2> QED BY <2>1, <2>2, <1>m, <1>d
  <1>6. ASSUME NEW s \in Sessions, Stop(s)
        PROVE  OnceInv'
    <2> DEFINE n == StopSessions(m, {s}, "stopped")
    <2>1. n \in State /\ n.used_operations = m.used_operations
      BY <1>m, StopSessionsType DEF SessionStatus
    <2>2. Dispatch(n)
      BY <1>6 DEF Stop, m
    <2> HIDE DEF n
    <2> QED BY <2>1, <2>2, <1>m, <1>d
  <1>7. ASSUME NEW s \in Sessions, Age(s)
        PROVE  OnceInv'
    BY <1>7, <1>q DEF Age
  <1>8. ASSUME NEW R \in SUBSET Operations, Prune(R)
        PROVE  OnceInv'
    <2> DEFINE ops == [o \in Operations |->
                    IF o \in R THEN NoOperation ELSE m.operations[o]]
               kept == [m EXCEPT !.operations = ops]
               n == [kept EXCEPT !.sessions = [s \in Sessions |->
                    IF Retained(kept, s) THEN m.sessions[s] ELSE NoSessionRecord]]
    <2>1. ops \in [Operations -> Operation]
      BY <1>m DEF State, Operation, NoOperation, OperationStatus
    <2>2. kept \in State /\ kept.used_operations = m.used_operations
      BY <2>1, <1>m DEF State
    <2>3. n \in State /\ n.used_operations = m.used_operations
      BY <2>2, <1>m DEF State, Session, SessionStatus, NoSessionRecord
    <2>4. Dispatch(n)
      BY <1>8 DEF Prune, m
    <2> HIDE DEF n
    <2> QED BY <2>3, <2>4, <1>m, <1>d
  <1>9. ASSUME NEW o \in Operations, NEW s \in Sessions, NEW a \in Commands,
               Reserve(o, s, a)
        PROVE  OnceInv'
    <2> DEFINE n == [m EXCEPT
            !.used_operations = @ \union {o},
            !.operations[o] = [status |-> "reserved", session |-> s,
                               control |-> FALSE]]
    <2>1. n \in State /\ n.used_operations = state.used_operations \union {o}
      BY <1>m DEF State, Operation, OperationStatus, Unfinished
    <2>2. Commit(n) /\ up /\ up' /\ UNCHANGED launches
      BY <1>9 DEF Reserve, Commit, PersistReservation, history, m
    <2>3. /\ journal.used_operations \subseteq journal'.used_operations
          /\ journal'.used_operations \subseteq state'.used_operations
      BY <2>1, <2>2, CommitUsed
    <2>4. o \notin journal.used_operations /\ launches[o] = 0
      <3>1. o \notin state.used_operations
        BY <1>9, <1>m DEF Reserve, Used, m
      <3>2. launches[o] \in Nat /\ ~(launches[o] > 0)
        BY <3>1, <2>2 DEF TypeOK, OnceInv, ReservedBeforeLaunch
      <3> QED BY <3>1, <3>2, <2>2 DEF OnceInv
    <2>5. CASE PersistOk(n) /\ thread' = [thread EXCEPT ![o] =
                    [pc |-> "launch", session |-> s, argv |-> a, result |-> "none"]]
      <3>1. o \in journal'.used_operations
        BY <2>1, <2>5, SnapshotType DEF PersistOk
      <3>2. \A x \in Operations : x # o => thread'[x] = thread[x]
        BY <2>5 DEF TypeOK
      <3> QED BY <3>1, <3>2, <2>2, <2>3, <2>4
              DEF OnceInv, ReservedBeforeLaunch, LaunchedOnce
    <2>6. CASE UNCHANGED thread
      BY <2>2, <2>3, <2>6, QuietStep
    <2> QED BY <1>9, <2>5, <2>6 DEF Reserve, PersistReservation, m
  <1> QED BY <1>1, <1>2, <1>3, <1>4, <1>5, <1>6, <1>7, <1>8, <1>9,
             <1>10 DEF Requests

\* Thread and guardian steps keep OnceInv: only Launch starts a guardian, and
\* its thread never launches again.
LEMMA OperationOnce ==
    ASSUME TypeOK, OnceInv, NEW o \in Operations,
           Launching(o) \/ GuardianEnds(o) \/ Finishing(o) \/ Answer(o)
    PROVE  OnceInv'
  <1> DEFINE m == LaunchState
  <1>m. /\ state \in State /\ m \in State
        /\ m.used_operations = state.used_operations
    BY ExpireType DEF TypeOK, LaunchState
  <1> HIDE DEF m
  <1>u. thread[o].pc # "idle" => up
    BY DEF OnceInv
  <1>1. CASE LaunchRefused(o)
    <2>1. up /\ up' /\ UNCHANGED <<launches, journal>>
      BY <1>1, <1>u DEF LaunchRefused, durable, history
    <2>2. \A x \in Operations : thread'[x].pc = "launch" => thread[x].pc = "launch"
      BY <1>1 DEF LaunchRefused, GoesOnToFail, TypeOK
    <2>3. state'.used_operations = state.used_operations
      BY <1>1, <1>m DEF LaunchRefused, m
    <2> QED BY <2>1, <2>2, <2>3, QuietStep DEF OnceInv
  <1>2. CASE LaunchFailed(o)
    <2>1. up /\ up' /\ UNCHANGED launches /\ Commit(m)
      BY <1>2, <1>u DEF LaunchFailed, history, m
    <2>2. \A x \in Operations : thread'[x].pc = "launch" => thread[x].pc = "launch"
      BY <1>2 DEF LaunchFailed, TypeOK
    <2> QED BY <2>1, <2>2, <1>m, QuietCommit
  <1>3. CASE Launch(o)
    <2>1. up /\ up' /\ thread[o].pc = "launch" /\ PersistOk(m)
      BY <1>3, <1>u DEF Launch, m
    <2>2. o \in journal.used_operations /\ launches[o] = 0
      BY <2>1 DEF OnceInv
    <2>3. journal'.used_operations = state.used_operations
      BY <2>1, <1>m, SnapshotType DEF PersistOk
    <2>4. state'.used_operations = state.used_operations
      BY <1>3, <1>m DEF Launch, State, m
    <2>5. /\ \A x \in Operations : thread'[x].pc = "launch" =>
                x # o /\ thread[x].pc = "launch"
          /\ \A x \in Operations : x # o => launches'[x] = launches[x]
          /\ launches'[o] = launches[o] + 1
      BY <1>3 DEF Launch, TypeOK
    <2>6. journal.used_operations \subseteq journal'.used_operations
      BY <2>1, <2>3 DEF OnceInv
    <2> QED BY <2>1, <2>2, <2>3, <2>4, <2>5, <2>6
            DEF OnceInv, ReservedBeforeLaunch, LaunchedOnce
  <1>4. CASE GuardianEnds(o)
    BY <1>4 DEF GuardianEnds, durable, history, OnceInv, ReservedBeforeLaunch,
            LaunchedOnce
  <1>f. ASSUME NEW status
        PROVE  Finished(state, o, status).used_operations = state.used_operations
    BY <1>m DEF Finished, State
  <1>g. ASSUME NEW status \in OperationStatus, NEW pc, pc # "launch",
               thread[o].pc # "idle", Commit(Finished(state, o, status)),
               UNCHANGED <<up, launches>>,
               \A x \in Operations : thread'[x].pc \in {thread[x].pc, pc}
        PROVE  OnceInv'
    <2>1. Finished(state, o, status) \in State
      BY FinishedType DEF TypeOK
    <2> QED BY <1>g, <1>f, <1>u, <2>1, QuietCommit
  <1>5. CASE FinishUnlaunched(o)
    <2>1. \A x \in Operations : thread'[x].pc \in {thread[x].pc, "answer"}
      BY <1>5 DEF FinishUnlaunched, TypeOK
    <2>2. "failed" \in OperationStatus
      BY DEF OperationStatus, Final
    <2> QED BY <1>5, <1>g, <2>1, <2>2 DEF FinishUnlaunched, history
  <1>6. CASE Finish(o)
    <2>1. \A x \in Operations : thread'[x].pc \in {thread[x].pc, "answer"}
      BY <1>6 DEF Finish, TypeOK
    <2>2. Outcome(guardian[o].result) \in OperationStatus
      BY DEF Outcome, OperationStatus, Final
    <2> QED BY <1>6, <1>g, <2>1, <2>2 DEF Finish, history
  <1>7. CASE Answer(o)
    <2>1. \A x \in Operations : thread'[x].pc \in {thread[x].pc, "idle"}
      BY <1>7 DEF Answer, TypeOK, Idle
    <2> QED BY <1>7, <1>u, <2>1 DEF Answer, durable, OnceInv,
            ReservedBeforeLaunch, LaunchedOnce
  <1> QED BY <1>1, <1>2, <1>3, <1>4, <1>5, <1>6, <1>7 DEF Launching, Finishing

\* A crash drops the threads, a restart reads the reserved ids back.
LEMMA ProcessOnce ==
    ASSUME TypeOK, OnceInv, Crash \/ Exit \/ Recover
    PROVE  OnceInv'
  <1>1. CASE Gone
    BY <1>1 DEF Gone, Idle, durable, history, OnceInv, ReservedBeforeLaunch,
            LaunchedOnce
  <1>2. CASE Recover
    <2>1. Recovered(journal).used_operations = journal.used_operations
      BY RecoveredType DEF TypeOK
    <2>2. Snapshot(Recovered(journal)).used_operations = journal.used_operations
      BY <2>1, RecoveredType, SnapshotType DEF TypeOK
    <2>3. journal'.used_operations = journal.used_operations
      BY <1>2, <2>2 DEF Recover
    <2>4. up' => state'.used_operations = journal.used_operations
      BY <1>2, <2>1 DEF Recover
    <2>5. \A o \in Operations : thread'[o].pc = thread[o].pc /\ thread[o].pc = "idle"
      BY <1>2 DEF Recover, OnceInv
    <2> QED BY <1>2, <2>3, <2>4, <2>5 DEF Recover, history, OnceInv,
            ReservedBeforeLaunch, LaunchedOnce
  <1> QED BY <1>1, <1>2 DEF Crash, Exit

\* The initial state satisfies OnceInv.
LEMMA InitOnce == Init => OnceInv
  BY DEF Init, OnceInv, ReservedBeforeLaunch, LaunchedOnce, Idle

\* Every step keeps OnceInv.
LEMMA NextOnce == TypeOK /\ OnceInv /\ [Next]_vars => OnceInv'
  <1> SUFFICES ASSUME TypeOK, OnceInv, [Next]_vars PROVE OnceInv'
    OBVIOUS
  <1>1. CASE UNCHANGED vars
    BY <1>1 DEF vars, durable, history, OnceInv, ReservedBeforeLaunch, LaunchedOnce
  <1>2. CASE Next
    BY <1>2, RequestsOnce, OperationOnce, ProcessOnce DEF Next
  <1> QED BY <1>1, <1>2

\* Whatever duplicates, prunings, failed writes, crashes and restarts happen.
THEOREM OnceInvariant == Spec => []OnceInv
  BY InitType, InitOnce, NextType, NextOnce, PTL DEF Spec

\* An operation id starts at most one command.
THEOREM LaunchedAtMostOnce == Spec => []LaunchedOnce
  BY OnceInvariant, PTL DEF OnceInv

\* What was launched is, and stays, reserved in the journal.
THEOREM ReservationIsDurable == Spec => []ReservedBeforeLaunch
  BY OnceInvariant, PTL DEF OnceInv

(***************************************************************************)
(* How the records of one state follow from those of another.              *)
(***************************************************************************)

\* The same records with other profiles and pipes, and sessions in the same
\* places; a lost write is not forgotten.
Same(m, n) ==
    /\ n.used_operations = m.used_operations
    /\ m.journal_failed => n.journal_failed
    /\ \A o \in Operations :
        /\ n.operations[o].status = m.operations[o].status
        /\ n.operations[o].session = m.operations[o].session
    /\ \A s \in Sessions :
        n.sessions[s].status = "absent" <=> m.sessions[s].status = "absent"

\* Records move on: an unfinished operation gets on or ends, a finished one is
\* pruned, a new one appears with a new id.
Moves(m, n) ==
    /\ m.used_operations \subseteq n.used_operations
    /\ m.journal_failed => n.journal_failed
    /\ \A o \in Operations :
        LET before == m.operations[o].status
            after == n.operations[o].status IN
        \/ after = before
        \/ before \in Unfinished /\ after \in Unfinished \union Final
        \/ before \in Final /\ after = "absent"
        \/ o \notin m.used_operations /\ after \in Unfinished

\* One after another.
LEMMA SameMoves ==
    ASSUME NEW m, NEW n, NEW p
    PROVE  /\ Same(m, n) => Moves(m, n)
           /\ Same(m, n) /\ Moves(n, p) => Moves(m, p)
           /\ Moves(m, n) /\ Same(n, p) => Moves(m, p)
           /\ Same(m, n) /\ Same(n, p) => Same(m, p)
  BY DEF Same, Moves

\* Stopping sessions keeps the records.
LEMMA StopSessionsSame ==
    ASSUME NEW m \in State, NEW S, NEW status \in SessionStatus \ {"absent"}
    PROVE  Same(m, StopSessions(m, S, status))
  <1> DEFINE n == StopSessions(m, S, status)
  <1>1. n.used_operations = m.used_operations /\ n.journal_failed = m.journal_failed
    BY StopSessionsType
  <1>2. /\ \A o \in Operations :
            /\ n.operations[o].status = m.operations[o].status
            /\ n.operations[o].session = m.operations[o].session
        /\ \A s \in Sessions :
            n.sessions[s].status = "absent" <=> m.sessions[s].status = "absent"
    BY StopSessionsParts
  <1> QED BY <1>1, <1>2 DEF Same

\* So do expire(), shutdown() and a failed persist().
LEMMA MethodsSame ==
    ASSUME NEW m \in State
    PROVE  Same(m, Expire(m)) /\ Same(m, Shutdown(m)) /\ Same(m, FailClosed(m))
  <1>1. \A k \in State : Same(k, Shutdown(k))
    <2> SUFFICES ASSUME NEW k \in State PROVE Same(k, Shutdown(k))
      OBVIOUS
    <2> DEFINE n == StopSessions(k, Sessions, "stopped")
    <2>1. Same(k, n) /\ n \in State
      BY StopSessionsSame, StopSessionsType DEF SessionStatus
    <2>2. /\ Shutdown(k).sessions = n.sessions /\ Shutdown(k).operations = n.operations
          /\ Shutdown(k).used_operations = n.used_operations
          /\ Shutdown(k).journal_failed = n.journal_failed
      BY <2>1 DEF Shutdown, State
    <2> HIDE DEF n
    <2> QED BY <2>1, <2>2 DEF Same
  <1>2. Same(m, Expire(m))
    BY StopSessionsSame DEF Expire, SessionStatus
  <1>3. Same(m, FailClosed(m))
    <2> DEFINE f == [m EXCEPT !.journal_failed = TRUE]
    <2>1. f \in State /\ Same(m, f)
      BY DEF State, Same
    <2> HIDE DEF f
    <2>2. Same(f, Shutdown(f))
      BY <1>1, <2>1
    <2>3. Same(m, Shutdown(f))
      BY <2>1, <2>2, SameMoves
    <2> QED BY <2>3 DEF FailClosed, f
  <1> QED BY <1>1, <1>2, <1>3

(***************************************************************************)
(* recover() never rejects a journal the service itself wrote.             *)
(***************************************************************************)

\* What Loads says of the state the journal is a snapshot of.
Fits(m) ==
    /\ IsFiniteSet(Present(m)) /\ Cardinality(Present(m)) <= MaxSessions
    /\ IsFiniteSet(Details(m)) /\ Cardinality(Details(m)) <= MaxOperations
    /\ IsFiniteSet(m.used_operations) /\ Cardinality(m.used_operations) <= MaxUsed
    /\ \A o \in Details(m) :
        /\ m.operations[o].session \in Sessions
        /\ SessionOf(m, o).status # "absent"
        /\ o \in m.used_operations

\* A state fits exactly if its snapshot loads.
LEMMA FitsLoads ==
    ASSUME NEW m \in State
    PROVE  Fits(m) <=> Loads(Snapshot(m))
  <1> DEFINE saved == Snapshot(m)
  <1>1. /\ {s \in Sessions : saved.sessions[s] # "absent"} = Present(m)
        /\ {o \in Operations : saved.operations[o].status # "absent"} = Details(m)
        /\ saved.used_operations = m.used_operations
    BY DEF Snapshot, Present, Details, Tombstones
  <1>2. \A o \in Operations : saved.operations[o].session = m.operations[o].session
    BY DEF Snapshot
  <1>3. \A s \in Sessions : saved.sessions[s] = m.sessions[s].status
    BY DEF Snapshot
  <1> HIDE DEF saved
  <1>4. Loads(saved) <=>
            /\ IsFiniteSet(Present(m)) /\ Cardinality(Present(m)) <= MaxSessions
            /\ IsFiniteSet(Details(m)) /\ Cardinality(Details(m)) <= MaxOperations
            /\ IsFiniteSet(m.used_operations) /\ Cardinality(m.used_operations) <= MaxUsed
            /\ \A o \in Details(m) :
                /\ saved.operations[o].session \in Sessions
                /\ saved.sessions[saved.operations[o].session] # "absent"
                /\ o \in saved.used_operations
    BY <1>1 DEF Loads, Loadable
  <1>5. Details(m) \subseteq Operations
    BY DEF Details
  <1> QED BY <1>1, <1>2, <1>3, <1>4, <1>5 DEF Fits, SessionOf, saved

\* The same records fit as well.
LEMMA SameFits ==
    ASSUME NEW m, NEW n, Same(m, n), Fits(m)
    PROVE  Fits(n)
  <1>1. Present(n) = Present(m) /\ Details(n) = Details(m)
    BY DEF Same, Present, Details
  <1>2. Details(m) \subseteq Operations
    BY DEF Details
  <1> QED BY <1>1, <1>2 DEF Same, Fits, SessionOf

\* Starting or resuming a session: one record more, at most.
LEMMA SessionFits ==
    ASSUME NEW m \in State, Fits(m), NEW s \in Sessions, NEW p \in Profiles,
           s \in Present(m) \/ Cardinality(Present(m)) < MaxSessions
    PROVE  LET n == [m EXCEPT !.sessions[s] = [status |-> "active", profile |-> p]] IN
           n \in State /\ Moves(m, n) /\ Fits(n)
  <1> DEFINE record == [status |-> "active", profile |-> p]
             n == [m EXCEPT !.sessions[s] = record]
  <1>1. record \in Session /\ record.status = "active"
    BY DEF Session, SessionStatus
  <1> HIDE DEF record
  <1>2. /\ n \in State /\ n.operations = m.operations
        /\ n.used_operations = m.used_operations /\ n.sessions[s].status = "active"
        /\ n.journal_failed = m.journal_failed
        /\ \A x \in Sessions : x # s => n.sessions[x] = m.sessions[x]
    BY <1>1 DEF State
  <1> HIDE DEF n
  <1>3. Present(n) = Present(m) \union {s} /\ Details(n) = Details(m)
    BY <1>2 DEF Present, Details
  <1>4. IsFiniteSet(Present(n)) /\ Cardinality(Present(n)) <= MaxSessions
    <2>1. Cardinality(Present(m)) \in Nat /\ MaxSessions \in Nat
      BY FS_CardinalityType, ServiceAssumption DEF Fits
    <2>2. /\ IsFiniteSet(Present(m) \union {s})
          /\ Cardinality(Present(m) \union {s}) =
                IF s \in Present(m) THEN Cardinality(Present(m))
                                    ELSE Cardinality(Present(m)) + 1
      BY FS_AddElement DEF Fits
    <2> QED BY <1>3, <2>1, <2>2 DEF Fits
  <1>5. \A o \in Details(n) :
            n.operations[o].session \in Sessions /\ SessionOf(n, o).status # "absent"
    BY <1>2, <1>3 DEF Fits, SessionOf
  <1>6. Moves(m, n)
    BY <1>2 DEF Moves
  <1> QED BY <1>1, <1>2, <1>3, <1>4, <1>5, <1>6 DEF Fits, n, record

\* Pruning: a session stays as long as an operation of it does.
LEMMA PruneFits ==
    ASSUME NEW m \in State, Fits(m), NEW R \in SUBSET Operations,
           R \subseteq {o \in Details(m) : ~Active(m, o)}
    PROVE  LET kept == [m EXCEPT !.operations = [o \in Operations |->
                          IF o \in R THEN NoOperation ELSE m.operations[o]]]
               n == [kept EXCEPT !.sessions = [s \in Sessions |->
                          IF Retained(kept, s) THEN m.sessions[s] ELSE NoSessionRecord]] IN
           n \in State /\ Moves(m, n) /\ Fits(n)
  <1> DEFINE ops == [o \in Operations |->
                  IF o \in R THEN NoOperation ELSE m.operations[o]]
             kept == [m EXCEPT !.operations = ops]
             sess == [s \in Sessions |->
                  IF Retained(kept, s) THEN m.sessions[s] ELSE NoSessionRecord]
             n == [kept EXCEPT !.sessions = sess]
  <1>1. ops \in [Operations -> Operation]
    BY DEF State, Operation, NoOperation, OperationStatus
  <1>2. kept \in State /\ kept.operations = ops
    BY <1>1 DEF State
  <1>3. sess \in [Sessions -> Session]
    BY DEF State, Session, SessionStatus, NoSessionRecord
  <1>4. /\ \A s \in Sessions :
            (\E o \in Operations : ops[o].session = s) => sess[s] = m.sessions[s]
        /\ \A s \in Sessions : sess[s].status # "absent" => sess[s] = m.sessions[s]
    BY <1>2 DEF Retained, NoSessionRecord
  <1>5. \A o \in Operations :
            ops[o] = IF o \in R THEN NoOperation ELSE m.operations[o]
    OBVIOUS
  <1> HIDE DEF ops, sess
  <1>6. /\ n \in State /\ n.operations = ops /\ n.sessions = sess
        /\ n.used_operations = m.used_operations
        /\ n.journal_failed = m.journal_failed
    BY <1>1, <1>3 DEF State
  <1> HIDE DEF n
  <1>7. Moves(m, n)
    BY <1>5, <1>6 DEF Moves, Active, Details, NoOperation, State, Operation, OperationStatus
  <1>8. Present(n) \in SUBSET Present(m) /\ Details(n) \in SUBSET Details(m)
    BY <1>4, <1>5, <1>6 DEF Present, Details, NoOperation
  <1>9. /\ IsFiniteSet(Present(n)) /\ Cardinality(Present(n)) <= MaxSessions
        /\ IsFiniteSet(Details(n)) /\ Cardinality(Details(n)) <= MaxOperations
    <2>1. /\ IsFiniteSet(Present(n)) /\ Cardinality(Present(n)) <= Cardinality(Present(m))
          /\ IsFiniteSet(Details(n)) /\ Cardinality(Details(n)) <= Cardinality(Details(m))
      BY <1>8, FS_Subset DEF Fits
    <2>2. /\ Cardinality(Present(n)) \in Nat /\ Cardinality(Present(m)) \in Nat
          /\ Cardinality(Details(n)) \in Nat /\ Cardinality(Details(m)) \in Nat
      BY <2>1, FS_CardinalityType DEF Fits
    <2> QED BY <2>1, <2>2, ServiceAssumption DEF Fits
  <1>10. ASSUME NEW o \in Details(n)
         PROVE  /\ n.operations[o].session \in Sessions
                /\ SessionOf(n, o).status # "absent" /\ o \in n.used_operations
    <2>1. o \in Details(m) /\ o \in Operations /\ o \notin R
      BY <1>5, <1>6, <1>8, <1>10 DEF Details, NoOperation
    <2>2. n.operations[o] = m.operations[o]
      BY <1>5, <1>6, <2>1
    <2>3. m.operations[o].session \in Sessions /\ SessionOf(m, o).status # "absent"
      BY <2>1 DEF Fits
    <2>4. sess[m.operations[o].session] = SessionOf(m, o)
      BY <1>4, <1>6, <2>1, <2>2, <2>3 DEF SessionOf
    <2> QED BY <1>6, <2>1, <2>2, <2>3, <2>4 DEF Fits, SessionOf
  <1> QED BY <1>6, <1>7, <1>9, <1>10 DEF Fits, n, ops, sess

\* A reservation: one record and one id more.
LEMMA ReserveFits ==
    ASSUME NEW m \in State, Fits(m), NEW o \in Operations, NEW s \in Sessions,
           o \notin m.used_operations, m.sessions[s].status # "absent",
           Cardinality(m.used_operations) < MaxUsed,
           Cardinality(Details(m)) < MaxOperations
    PROVE  LET n == [m EXCEPT
                !.used_operations = @ \union {o},
                !.operations[o] = [status |-> "reserved", session |-> s,
                                   control |-> FALSE]] IN
           n \in State /\ Moves(m, n) /\ Fits(n) /\ o \in n.used_operations
  <1> DEFINE op == [status |-> "reserved", session |-> s, control |-> FALSE]
             n == [m EXCEPT !.used_operations = @ \union {o}, !.operations[o] = op]
  <1>1. op \in Operation /\ op.status = "reserved" /\ op.session = s
    BY DEF Operation, OperationStatus, Unfinished
  <1> HIDE DEF op
  <1>2. /\ n \in State /\ n.sessions = m.sessions
        /\ \A x \in Operations : x # o => n.operations[x] = m.operations[x]
        /\ n.used_operations = m.used_operations \union {o}
        /\ n.operations[o] = op /\ n.journal_failed = m.journal_failed
    BY <1>1 DEF State
  <1> HIDE DEF n
  <1>3. Moves(m, n)
    BY <1>1, <1>2 DEF Moves, Unfinished
  <1>4. Present(n) = Present(m) /\ Details(n) = Details(m) \union {o}
    BY <1>1, <1>2 DEF Present, Details
  <1>5. /\ IsFiniteSet(Details(n)) /\ Cardinality(Details(n)) <= MaxOperations
        /\ IsFiniteSet(n.used_operations) /\ Cardinality(n.used_operations) <= MaxUsed
    <2>1. /\ Cardinality(Details(m)) \in Nat /\ Cardinality(m.used_operations) \in Nat
      BY FS_CardinalityType DEF Fits
    <2>2. /\ IsFiniteSet(Details(m) \union {o})
          /\ Cardinality(Details(m) \union {o}) <= Cardinality(Details(m)) + 1
      BY <2>1, FS_AddElement DEF Fits
    <2>3. /\ IsFiniteSet(m.used_operations \union {o})
          /\ Cardinality(m.used_operations \union {o}) <= Cardinality(m.used_operations) + 1
      <3> DEFINE used == m.used_operations
      <3>1. IsFiniteSet(used) /\ Cardinality(used) \in Nat
        BY <2>1 DEF Fits
      <3> HIDE DEF used
      <3>2. /\ IsFiniteSet(used \union {o})
            /\ Cardinality(used \union {o}) =
                    IF o \in used THEN Cardinality(used) ELSE Cardinality(used) + 1
        BY <3>1, FS_AddElement
      <3>3. Cardinality(used \union {o}) <= Cardinality(used) + 1
        BY <3>1, <3>2
      <3> QED BY <3>2, <3>3 DEF used
    <2>4. Cardinality(Details(n)) \in Nat /\ Cardinality(n.used_operations) \in Nat
      BY <1>2, <1>4, <2>2, <2>3, FS_CardinalityType
    <2> QED BY <1>2, <1>4, <2>1, <2>2, <2>3, <2>4, ServiceAssumption
  <1>6. \A x \in Details(n) :
            /\ n.operations[x].session \in Sessions
            /\ SessionOf(n, x).status # "absent" /\ x \in n.used_operations
    <2>1. Details(m) \subseteq Operations
      BY DEF Details
    <2> QED BY <1>1, <1>2, <1>4, <2>1 DEF Fits, SessionOf
  <1> QED BY <1>2, <1>3, <1>4, <1>5, <1>6 DEF Fits, n, op

\* launch() and finish(): the same records with another status.
LEMMA StatusFits ==
    ASSUME NEW m \in State, NEW n \in State, Fits(m), NEW o \in Operations, Active(m, o),
           n.sessions = m.sessions, n.used_operations = m.used_operations,
           n.journal_failed = m.journal_failed,
           n.operations[o].session = m.operations[o].session,
           n.operations[o].status \in Unfinished \union Final,
           \A x \in Operations : x # o => n.operations[x] = m.operations[x]
    PROVE  Moves(m, n) /\ Fits(n)
  <1>1. Moves(m, n)
    BY DEF Moves, Active
  <1>2. Present(n) = Present(m) /\ Details(n) = Details(m)
    BY DEF Present, Details, Active, Unfinished, Final
  <1>3. \A x \in Details(m) :
            /\ n.operations[x].session = m.operations[x].session
            /\ SessionOf(n, x) = SessionOf(m, x)
    BY DEF Details, SessionOf
  <1> QED BY <1>1, <1>2, <1>3 DEF Fits

\* What every request does: it moves the records on, and persist() follows
\* unless nothing was recorded; only a reservation starts a thread.
LEMMA RequestsMove ==
    ASSUME TypeOK, Fits(state), Requests
    PROVE  /\ up /\ UNCHANGED <<up, guardian, history>>
           /\ \E n \in State :
                /\ Moves(state, n) /\ Fits(n)
                /\ \/ Commit(n)
                   \/ /\ state' = n /\ n.journal_failed = state.journal_failed
                      /\ UNCHANGED <<durable, faults>>
           /\ \/ UNCHANGED thread
              \/ \E o \in Operations :
                    /\ o \notin state.used_operations /\ o \in journal'.used_operations
                    /\ \E r : thread' = [thread EXCEPT ![o] = r] /\ r.pc = "launch"
  <1> DEFINE m == Expire(state)
             Moved == \E n \in State :
                /\ Moves(state, n) /\ Fits(n)
                /\ \/ Commit(n)
                   \/ /\ state' = n /\ n.journal_failed = state.journal_failed
                      /\ UNCHANGED <<durable, faults>>
             Rest == up /\ UNCHANGED <<up, guardian, history>>
  <1>m. /\ state \in State /\ m \in State /\ Same(state, m) /\ Fits(m)
        /\ m.used_operations = state.used_operations
        /\ m.journal_failed = state.journal_failed
    BY ExpireType, MethodsSame, SameFits DEF TypeOK
  <1>s. Moves(state, state) /\ Moves(m, m)
    BY DEF Moves
  <1>d. ASSUME NEW n \in State, Moves(m, n), Fits(n), Dispatch(n)
        PROVE  Rest /\ Moved /\ UNCHANGED thread
    <2>1. Moves(state, n)
      BY <1>m, <1>d, SameMoves
    <2> QED BY <1>d, <2>1 DEF Dispatch
  <1> HIDE DEF m
  <1>1. CASE ExpireTick
    BY <1>1, <1>m, <1>s, <1>d DEF ExpireTick, m
  <1>2. CASE Terminate
    <2>1. /\ Shutdown(m) \in State /\ Moves(m, Shutdown(m)) /\ Fits(Shutdown(m))
      BY <1>m, ShutdownType, MethodsSame, SameFits, SameMoves
    <2> QED BY <1>2, <1>d, <2>1 DEF Terminate, m
  <1>3. CASE Deny
    <2>1. /\ FailClosed(state) \in State /\ Moves(state, FailClosed(state))
          /\ Fits(FailClosed(state))
      BY <1>m, FailClosedType, MethodsSame, SameFits, SameMoves
    <2> QED BY <1>3, <1>m, <1>s, <2>1 DEF Deny, Dispatch
  <1>4. CASE ExpireOnly
    <2>1. state' = m /\ Moves(state, m)
      BY <1>4, <1>m, SameMoves DEF ExpireOnly, m
    <2> QED BY <1>4, <1>m, <2>1 DEF ExpireOnly
  <1>5. CASE TerminateUnwritten
    <2>1. /\ Shutdown(state) \in State /\ Moves(state, Shutdown(state))
          /\ Fits(Shutdown(state))
          /\ Shutdown(state).journal_failed = state.journal_failed
      BY <1>m, ShutdownType, MethodsSame, SameFits, SameMoves
    <2> QED BY <1>5, <2>1 DEF TerminateUnwritten
  <1>6. ASSUME NEW s \in Sessions, NEW p \in Profiles, Start(s, p) \/ Resume(s, p)
        PROVE  Rest /\ Moved /\ UNCHANGED thread
    <2> DEFINE n == [m EXCEPT !.sessions[s] = [status |-> "active", profile |-> p]]
    <2>1. s \in Present(m) \/ Cardinality(Present(m)) < MaxSessions
      BY <1>6 DEF Start, Resume, Present, m
    <2>2. n \in State /\ Moves(m, n) /\ Fits(n)
      BY <1>m, <2>1, SessionFits
    <2>3. Dispatch(n)
      BY <1>6 DEF Start, Resume, m
    <2> HIDE DEF n
    <2> QED BY <1>d, <2>2, <2>3
  <1>7. ASSUME NEW s \in Sessions, Stop(s)
        PROVE  Rest /\ Moved /\ UNCHANGED thread
    <2> DEFINE n == StopSessions(m, {s}, "stopped")
    <2>1. n \in State /\ Same(m, n)
      BY <1>m, StopSessionsType, StopSessionsSame DEF SessionStatus
    <2>2. Dispatch(n)
      BY <1>7 DEF Stop, m
    <2> HIDE DEF n
    <2>3. Moves(m, n) /\ Fits(n)
      BY <1>m, <2>1, SameMoves, SameFits
    <2> QED BY <1>d, <2>1, <2>2, <2>3
  <1>8. ASSUME NEW s \in Sessions, Age(s)
        PROVE  Rest /\ Moved /\ UNCHANGED thread
    BY <1>8, <1>m, <1>s DEF Age
  <1>9. ASSUME NEW R \in SUBSET Operations, Prune(R)
        PROVE  Rest /\ Moved /\ UNCHANGED thread
    BY <1>9, <1>d, <1>m, PruneFits DEF Prune, m
  <1>10. ASSUME NEW o \in Operations, NEW s \in Sessions, NEW a \in Commands,
                Reserve(o, s, a)
         PROVE  Rest /\ Moved /\ (UNCHANGED thread \/
                    /\ o \notin state.used_operations /\ o \in journal'.used_operations
                    /\ \E r : thread' = [thread EXCEPT ![o] = r] /\ r.pc = "launch")
    <2> DEFINE n == [m EXCEPT
                !.used_operations = @ \union {o},
                !.operations[o] = [status |-> "reserved", session |-> s,
                                   control |-> FALSE]]
    <2>1. /\ o \notin m.used_operations /\ m.sessions[s].status # "absent"
          /\ Cardinality(m.used_operations) < MaxUsed
          /\ Cardinality(Details(m)) < MaxOperations
      BY <1>10 DEF Reserve, Used, m
    <2>2. n \in State /\ Moves(m, n) /\ Fits(n) /\ o \in n.used_operations
      BY <1>m, <2>1, ReserveFits
    <2>3. /\ Rest
          /\ \/ PersistOk(n) /\ state' = n
                /\ \E r : thread' = [thread EXCEPT ![o] = r] /\ r.pc = "launch"
             \/ PersistErr(n) /\ state' = FailClosed(n) /\ UNCHANGED thread
      <3> DEFINE r0 == [pc |-> "launch", session |-> s, argv |-> a, result |-> "none"]
      <3>1. /\ Rest
            /\ \/ PersistOk(n) /\ state' = n /\ thread' = [thread EXCEPT ![o] = r0]
               \/ PersistErr(n) /\ state' = FailClosed(n) /\ UNCHANGED thread
        BY <1>10 DEF Reserve, PersistReservation, m
      <3>2. r0.pc = "launch"
        OBVIOUS
      <3> HIDE DEF n, r0
      <3> QED BY <3>1, <3>2
    <2> HIDE DEF n
    <2>4. Commit(n) /\ Moves(state, n)
      BY <1>m, <2>2, <2>3, SameMoves DEF Commit
    <2>5. PersistOk(n) => o \in journal'.used_operations
      BY <2>2, SnapshotType DEF PersistOk
    <2> QED BY <1>m, <2>1, <2>2, <2>3, <2>4, <2>5
  <1> QED BY <1>1, <1>2, <1>3, <1>4, <1>5, <1>6, <1>7, <1>8, <1>9, <1>10 DEF Requests

\* A write of a state that fits leaves a journal that loads.
LEMMA CommitLoads ==
    ASSUME NEW n \in State, Fits(n), Loads(journal), Commit(n)
    PROVE  Loads(journal') /\ Fits(state') /\ state' \in State
  <1>1. Loads(Snapshot(n))
    BY FitsLoads
  <1>2. Fits(FailClosed(n)) /\ FailClosed(n) \in State
    BY MethodsSame, SameFits, FailClosedType
  <1> QED BY <1>1, <1>2 DEF Commit, PersistOk, PersistErr

\* What each step of an operation does to the records.
LEMMA OperationMoves ==
    ASSUME TypeOK, SessionInv, Fits(state), NEW o \in Operations
    PROVE  LET m == Expire(state) IN
           /\ m \in State /\ Fits(m) /\ Moves(state, m)
           /\ m.journal_failed = state.journal_failed
           /\ Launch(o) => Moves(m, state') /\ Fits(state')
           /\ \A status \in Final : Working(thread, o) =>
                LET n == Finished(state, o, status) IN
                /\ n \in State /\ Fits(n) /\ Moves(state, n)
                /\ n.operations[o].status = status
                /\ n.used_operations = state.used_operations
  <1> DEFINE m == Expire(state)
  <1>m. /\ state \in State /\ m \in State /\ Fits(m) /\ Moves(state, m)
        /\ m.journal_failed = state.journal_failed
        /\ Consistent(state, thread, guardian) /\ Consistent(m, thread, guardian)
    BY ExpireType, ExpireConsistent, MethodsSame, SameFits, SameMoves
       DEF TypeOK, Threads, SessionInv
  <1> HIDE DEF m
  <1>1. ASSUME Launch(o)
        PROVE  Moves(m, state') /\ Fits(state')
    <2>1. /\ state' = [m EXCEPT !.operations[o].status = "running",
                                !.operations[o].control = TRUE]
          /\ thread[o].pc = "launch"
      BY <1>1 DEF Launch, LaunchState, m
    <2>2. state' \in State
      BY <1>1, OperationType DEF TypeOK, Launching
    <2>3. Active(m, o)
      BY <1>m, <2>1 DEF Consistent, Agrees, Working
    <2>4. /\ state'.sessions = m.sessions /\ state'.used_operations = m.used_operations
          /\ state'.journal_failed = m.journal_failed
          /\ state'.operations[o].status = "running"
          /\ state'.operations[o].session = m.operations[o].session
          /\ \A x \in Operations : x # o => state'.operations[x] = m.operations[x]
      BY <1>m, <2>1 DEF State, Operation
    <2>5. "running" \in Unfinished \union Final
      BY DEF Unfinished
    <2> QED BY <1>m, <2>2, <2>3, <2>4, <2>5, StatusFits
  <1>2. ASSUME NEW status \in Final, Working(thread, o)
        PROVE  LET n == Finished(state, o, status) IN
               /\ n \in State /\ Fits(n) /\ Moves(state, n)
               /\ n.operations[o].status = status
               /\ n.used_operations = state.used_operations
    <2> DEFINE n == Finished(state, o, status)
    <2>1. Active(state, o) /\ state.operations[o].status # "absent"
      BY <1>2, <1>m DEF Consistent, Agrees, Active, Unfinished
    <2>2. n \in State
      BY <1>m, FinishedType DEF OperationStatus
    <2>3. /\ n.sessions = state.sessions /\ n.used_operations = state.used_operations
          /\ n.journal_failed = state.journal_failed
          /\ n.operations[o].status = status
          /\ n.operations[o].session = state.operations[o].session
          /\ \A x \in Operations : x # o => n.operations[x] = state.operations[x]
      BY <1>m, <2>1 DEF Finished, State, Operation
    <2> HIDE DEF n
    <2>4. Moves(state, n) /\ Fits(n)
      BY <1>m, <2>1, <2>2, <2>3, StatusFits
    <2> QED BY <2>2, <2>3, <2>4 DEF n
  <1> QED BY <1>m, <1>1, <1>2 DEF m

\* A restart finds what the journal holds.
LEMMA RecoveredFits ==
    ASSUME NEW saved \in Saved, Loads(saved)
    PROVE  Recovered(saved) \in State /\ Fits(Recovered(saved))
  <1> DEFINE m == Recovered(saved)
  <1>1. m \in State /\ m.used_operations = saved.used_operations
    BY RecoveredType
  <1>2. /\ \A s \in Sessions :
            m.sessions[s].status = "absent" <=> saved.sessions[s] = "absent"
        /\ \A o \in Operations :
            /\ m.operations[o].status = RecoveredStatus(saved.operations[o].status)
            /\ m.operations[o].session = saved.operations[o].session
    BY DEF Recovered, EmptyState
  <1> HIDE DEF m
  <1>3. /\ Present(m) = {s \in Sessions : saved.sessions[s] # "absent"}
        /\ Details(m) = {o \in Operations : saved.operations[o].status # "absent"}
    BY <1>2 DEF Present, Details, RecoveredStatus
  <1>4. \A o \in Details(m) :
            /\ m.operations[o].session \in Sessions
            /\ SessionOf(m, o).status # "absent"
            /\ o \in m.used_operations
    BY <1>1, <1>2, <1>3 DEF Loads, Loadable, SessionOf
  <1> QED BY <1>1, <1>3, <1>4 DEF Fits, Loads, Loadable, m

\* Every step keeps LoadInv.
LEMMA NextLoads == TypeOK /\ SessionInv /\ LoadInv /\ [Next]_vars => LoadInv'
  <1> SUFFICES ASSUME TypeOK, SessionInv, LoadInv, [Next]_vars PROVE LoadInv'
    OBVIOUS
  <1>t. state \in State /\ journal \in Saved
    BY DEF TypeOK
  <1>u. up => Fits(state)
    BY <1>t, FitsLoads DEF LoadInv
  <1>f. ASSUME NEW n \in State, Fits(n), state' = n PROVE Loads(Snapshot(state'))
    BY <1>f, FitsLoads
  <1>c. ASSUME NEW n \in State, Fits(n), Commit(n) PROVE LoadInv'
    BY <1>c, CommitLoads, FitsLoads DEF LoadInv
  <1>1. CASE UNCHANGED vars
    BY <1>1 DEF vars, durable, LoadInv
  <1>2. CASE Requests
    <2>1. up
      BY <1>2 DEF Requests, ExpireTick, Terminate, TerminateUnwritten, Deny, ExpireOnly,
            Start, Resume, Stop, Age, Prune, Reserve, Dispatch
    <2>2. PICK n \in State : /\ Fits(n)
                             /\ Commit(n) \/ (state' = n /\ UNCHANGED <<durable, faults>>)
      BY <1>2, <1>u, <2>1, RequestsMove
    <2> QED BY <1>c, <1>f, <2>2 DEF LoadInv, durable
  <1>3. ASSUME NEW o \in Operations, Launching(o) \/ Finishing(o)
        PROVE  LoadInv'
    <2>1. thread[o].pc # "idle"
      BY <1>3 DEF Launching, LaunchRefused, LaunchFailed, Launch, Finishing,
            FinishUnlaunched, Finish
    <2>2. up /\ Fits(state)
      BY <1>u, <2>1 DEF SessionInv
    <2> DEFINE m == Expire(state)
    <2>3. m \in State /\ Fits(m)
      BY <2>2, OperationMoves
    <2>4. CASE LaunchRefused(o)
      BY <1>f, <2>3, <2>4 DEF LaunchRefused, LaunchState, LoadInv, durable
    <2>5. CASE LaunchFailed(o)
      BY <1>c, <2>3, <2>5 DEF LaunchFailed, LaunchState
    <2>6. CASE Launch(o)
      <3>1. Fits(state') /\ state' \in State
        BY <1>3, <2>2, <2>6, OperationMoves, OperationType DEF TypeOK, Launching
      <3>2. journal' = Snapshot(m)
        BY <2>6 DEF Launch, LaunchState, PersistOk
      <3> HIDE DEF m
      <3> QED BY <2>3, <3>1, <3>2, FitsLoads DEF LoadInv
    <2> HIDE DEF m
    <2>7. CASE FinishUnlaunched(o)
      <3>1. Working(thread, o) /\ "failed" \in Final
        BY <2>7 DEF FinishUnlaunched, Working, Final
      <3>2. Finished(state, o, "failed") \in State /\ Fits(Finished(state, o, "failed"))
        BY <2>2, <3>1, OperationMoves
      <3> QED BY <1>c, <2>7, <3>2 DEF FinishUnlaunched
    <2>8. CASE Finish(o)
      <3> DEFINE status == Outcome(guardian[o].result)
      <3>1. Working(thread, o) /\ status \in Final
        BY <2>8 DEF Finish, Working, Final, Outcome
      <3>2. Commit(Finished(state, o, status))
        BY <2>8 DEF Finish
      <3> HIDE DEF status
      <3>3. Finished(state, o, status) \in State /\ Fits(Finished(state, o, status))
        BY <2>2, <3>1, OperationMoves
      <3> QED BY <1>c, <3>2, <3>3
    <2> QED BY <1>3, <2>4, <2>5, <2>6, <2>7, <2>8 DEF Launching, Finishing
  <1>4. ASSUME NEW o \in Operations, GuardianEnds(o) \/ Answer(o)
        PROVE  LoadInv'
    BY <1>4 DEF GuardianEnds, Answer, LoadInv, durable
  <1>5. CASE Crash \/ Exit
    BY <1>5 DEF Crash, Exit, Gone, LoadInv, durable
  <1>6. CASE Recover
    <2> DEFINE m == Recovered(journal)
    <2>1. m \in State /\ Fits(m) /\ Loads(Snapshot(m))
      BY <1>t, RecoveredFits, FitsLoads DEF LoadInv
    <2>2. /\ journal' \in {journal, Snapshot(m)}
          /\ ~up
          /\ up' => state' = m
      BY <1>6 DEF Recover
    <2> HIDE DEF m
    <2> QED BY <2>1, <2>2 DEF LoadInv
  <1> QED BY <1>1, <1>2, <1>3, <1>4, <1>5, <1>6 DEF Next

\* The empty journal loads.
LEMMA InitLoads == Init => LoadInv
  <1>1. EmptyState \in State
    BY EmptyStateType
  <1>2. /\ Present(EmptyState) = {} /\ Details(EmptyState) = {}
        /\ EmptyState.used_operations = {}
    BY DEF EmptyState, Present, Details, NoSessionRecord, NoOperation
  <1>3. Fits(EmptyState)
    BY <1>2, FS_EmptySet, ServiceAssumption DEF Fits
  <1> QED BY <1>1, <1>3, FitsLoads DEF Init, LoadInv

\* recover() never rejects a journal the service itself wrote.
THEOREM LoadableAlways == Spec => []JournalLoadable
  <1>1. LoadInv => JournalLoadable
    BY DEF LoadInv, Loads, JournalLoadable
  <1>2. TypeOK /\ SessionInv /\ LoadInv /\ [Next]_vars => LoadInv'
    BY NextLoads
  <1> QED BY <1>1, <1>2, InitLoads, SessionInvariant, PTL DEF Spec

(***************************************************************************)
(* Records only move forward, in memory and on disk.                       *)
(***************************************************************************)

OutcomeIn(m, o) == OutcomeOf(m.operations[o].status, o \in m.used_operations)

\* The ledger's order of outcomes is transitive.
LEMMA AdvancesOn ==
    ASSUME NEW a, NEW b, NEW c, Promise!Advances(a, b), Promise!Advances(b, c)
    PROVE  Promise!Advances(a, c)
  BY DEF Promise!Advances, Promise!Recorded

\* Records that move on advance in the ledger, with the rows behind them.
LEMMA MovesAdvance ==
    ASSUME NEW m \in State, NEW n \in State, Moves(m, n), NEW o \in Operations
    PROVE  /\ Promise!Advances(OutcomeIn(m, o), OutcomeIn(n, o))
           /\ \A row \in OperationStatus :
                (row # "absent" => o \in m.used_operations)
                    /\ Behind(row, m.operations[o].status)
                => Behind(row, n.operations[o].status)
  <1> DEFINE before == m.operations[o].status
             after == n.operations[o].status
  <1>1. before \in OperationStatus /\ after \in OperationStatus
    BY DEF State, Operation
  <1>2. \/ after = before
        \/ before \in Unfinished /\ after \in Unfinished \union Final
        \/ before \in Final /\ after = "absent"
        \/ o \notin m.used_operations /\ after \in Unfinished
    BY DEF Moves
  <1>3. o \in m.used_operations => o \in n.used_operations
    BY DEF Moves
  <1>4. /\ OutcomeIn(m, o) = OutcomeOf(before, o \in m.used_operations)
        /\ OutcomeIn(n, o) = OutcomeOf(after, o \in n.used_operations)
    BY DEF OutcomeIn
  <1> HIDE DEF before, after
  <1>5. Promise!Advances(OutcomeIn(m, o), OutcomeIn(n, o))
    BY <1>1, <1>2, <1>3, <1>4 DEF OutcomeOf, OperationStatus, Unfinished, Final,
       Promise!Advances, Promise!Recorded
  <1>6. ASSUME NEW row \in OperationStatus, row # "absent" => o \in m.used_operations,
               Behind(row, before)
        PROVE  Behind(row, after)
    BY <1>1, <1>2, <1>6 DEF Behind, OperationStatus, Unfinished, Final
  <1> QED BY <1>5, <1>6 DEF before, after

\* Both stores only move forward.
StoresOn ==
    /\ journal.used_operations \subseteq journal'.used_operations
    /\ \A o \in Operations :
        /\ Promise!Advances(LedgerOutcome(o), LedgerOutcome(o)')
        /\ analytics[o] \in {"succeeded", "failed"} => analytics'[o] = analytics[o]

\* What RecordInv says of the stores alone.
StoresInv ==
    /\ MemoryAhead /\ JournalAhead /\ StoresAgree
    /\ \A o \in Operations : analytics[o] # "absent" => o \in journal.used_operations

\* The upsert of rows that are behind a state brings them up to it.
LEMMA UpsertBehind ==
    ASSUME NEW n \in State, NEW rows \in [Operations -> OperationStatus],
           NEW o \in Operations, Behind(rows[o], n.operations[o].status)
    PROVE  LET after == n.operations[o].status IN
           /\ after # "absent" => Upsert(rows, n)[o] = after
           /\ after = "absent" => Upsert(rows, n)[o] = rows[o]
           /\ rows[o] \in {"succeeded", "failed"} => Upsert(rows, n)[o] = rows[o]
  <1> DEFINE after == n.operations[o].status
  <1>1. after \in OperationStatus /\ rows[o] \in OperationStatus
    BY DEF State, Operation
  <1>2. Upsert(rows, n)[o] =
            IF after = "absent" \/ KeepsRow(rows[o], after) THEN rows[o] ELSE after
    BY DEF Upsert
  <1> HIDE DEF after
  <1>3. Behind(rows[o], after)
    BY DEF after
  <1> QED BY <1>1, <1>2, <1>3 DEF KeepsRow, Behind, Unfinished, Final, after

\* A write of records that moved on, whichever of its outcomes happens.
LEMMA WriteStores ==
    ASSUME TypeOK, StoresInv, up, NEW n \in State, Fits(n), Moves(state, n),
           state' \in State, Moves(n, state'), journal.used_operations \subseteq state.used_operations,
           PersistOk(n) \/ (PersistErr(n) /\ state'.journal_failed)
    PROVE  /\ StoresOn /\ StoresInv'
           /\ PersistOk(n) => \A o \in Operations :
                /\ LedgerOutcome(o)' = OutcomeIn(n, o)
                /\ n.operations[o].status # "absent" =>
                        analytics'[o] = n.operations[o].status
  <1>t. /\ state \in State /\ journal \in Saved
        /\ analytics \in [Operations -> OperationStatus]
    BY DEF TypeOK
  <1>1. \A o \in Operations :
            /\ Promise!Advances(LedgerOutcome(o), OutcomeIn(state, o))
            /\ Promise!Advances(LedgerOutcome(o), OutcomeIn(n, o))
            /\ Behind(analytics[o], n.operations[o].status)
    <2> SUFFICES ASSUME NEW o \in Operations
                 PROVE  /\ Promise!Advances(LedgerOutcome(o), OutcomeIn(state, o))
                        /\ Promise!Advances(LedgerOutcome(o), OutcomeIn(n, o))
                        /\ Behind(analytics[o], n.operations[o].status)
      OBVIOUS
    <2>1. /\ Promise!Advances(LedgerOutcome(o), OutcomeIn(state, o))
          /\ Behind(analytics[o], state.operations[o].status)
          /\ analytics[o] # "absent" => o \in state.used_operations
      BY DEF StoresInv, MemoryAhead, OutcomeIn
    <2>2. /\ Promise!Advances(OutcomeIn(state, o), OutcomeIn(n, o))
          /\ Behind(analytics[o], n.operations[o].status)
      BY <1>t, <2>1, MovesAdvance
    <2> QED BY <2>1, <2>2, AdvancesOn
  <1>2. \A o \in Operations :
            /\ Promise!Advances(OutcomeIn(n, o), OutcomeIn(state', o))
            /\ \A row \in OperationStatus :
                (row # "absent" => o \in n.used_operations)
                    /\ Behind(row, n.operations[o].status)
                => Behind(row, state'.operations[o].status)
    BY MovesAdvance
  <1>3. /\ Snapshot(n).used_operations = n.used_operations
        /\ \A o \in Operations : Snapshot(n).operations[o].status = n.operations[o].status
    BY SnapshotType DEF Snapshot
  <1>4. state.used_operations \subseteq n.used_operations
    BY DEF Moves
  <1>5. \A o \in Operations : n.operations[o].status # "absent" => o \in n.used_operations
    BY DEF Fits, Details
  <1>6. CASE PersistOk(n)
    <2>1. journal' = Snapshot(n) /\ analytics' = Upsert(analytics, n)
      BY <1>6 DEF PersistOk
    <2>2. \A o \in Operations : LedgerOutcome(o)' = OutcomeIn(n, o)
      BY <1>3, <2>1 DEF LedgerOutcome, OutcomeIn
    <2>3. \A o \in Operations :
            /\ n.operations[o].status # "absent" => analytics'[o] = n.operations[o].status
            /\ n.operations[o].status = "absent" => analytics'[o] = analytics[o]
            /\ analytics[o] \in {"succeeded", "failed"} => analytics'[o] = analytics[o]
            /\ analytics'[o] \in OperationStatus
      <3>1. \A o \in Operations : n.operations[o].status \in OperationStatus
        BY DEF State, Operation
      <3> QED BY <1>1, <1>t, <2>1, <3>1, UpsertBehind
    <2>4. journal'.used_operations = n.used_operations
      BY <1>3, <2>1
    <2>5. StoresOn
      BY <1>1, <1>4, <2>2, <2>3, <2>4 DEF StoresOn
    <2>6. \A o \in Operations : analytics'[o] # "absent" => o \in journal'.used_operations
      BY <1>4, <1>5, <2>3, <2>4 DEF StoresInv
    <2>7. MemoryAhead'
      <3>1. \A o \in Operations : Behind(analytics'[o], n.operations[o].status)
        BY <2>3 DEF Behind
      <3>2. \A o \in Operations : Behind(analytics'[o], state'.operations[o].status)
        BY <1>2, <2>3, <2>4, <2>6, <3>1
      <3>3. \A o \in Operations :
                Promise!Advances(LedgerOutcome(o)', OutcomeIn(state', o))
        BY <1>2, <2>2
      <3> QED BY <3>2, <3>3 DEF MemoryAhead, OutcomeIn
    <2>8. JournalAhead' /\ StoresAgree'
      BY <1>3, <2>1, <2>3 DEF JournalAhead, StoresAgree
    <2> QED BY <2>2, <2>3, <2>5, <2>6, <2>7, <2>8 DEF StoresInv
  <1>7. CASE PersistErr(n) /\ state'.journal_failed /\ ~PersistOk(n)
    <2>1. UNCHANGED analytics /\ journal' \in {journal, Snapshot(n)}
      BY <1>7 DEF PersistErr
    <2>2. \A o \in Operations :
            /\ LedgerOutcome(o)' \in {LedgerOutcome(o), OutcomeIn(n, o)}
            /\ journal'.operations[o].status
                    \in {journal.operations[o].status, n.operations[o].status}
      BY <1>3, <2>1 DEF LedgerOutcome, OutcomeIn
    <2>3. journal.used_operations \subseteq journal'.used_operations
      BY <1>3, <1>4, <2>1
    <2>4. StoresOn
      BY <1>1, <2>1, <2>2, <2>3 DEF StoresOn, Promise!Advances
    <2>5. MemoryAhead'
      <3>1. \A o \in Operations :
                Promise!Advances(LedgerOutcome(o)', OutcomeIn(n, o))
        BY <1>1, <2>2 DEF Promise!Advances
      <3>2. \A o \in Operations :
                Promise!Advances(LedgerOutcome(o)', OutcomeIn(state', o))
        BY <1>2, <3>1, AdvancesOn
      <3>3. \A o \in Operations : Behind(analytics'[o], state'.operations[o].status)
        BY <1>1, <1>2, <1>4, <1>t, <2>1 DEF StoresInv
      <3> QED BY <3>2, <3>3 DEF MemoryAhead, OutcomeIn
    <2>6. JournalAhead'
      <3> SUFFICES ASSUME NEW o \in Operations, analytics[o] \in {"succeeded", "failed"}
                   PROVE  journal'.operations[o].status \in {"absent", analytics[o]}
        BY <2>1 DEF JournalAhead
      <3>1. n.operations[o].status \in {"absent", analytics[o]}
        BY <1>1 DEF Behind, Unfinished
      <3>2. journal.operations[o].status \in {"absent", analytics[o]}
        BY DEF StoresInv, JournalAhead
      <3> QED BY <2>2, <3>1, <3>2
    <2>7. StoresAgree'
      BY <1>7 DEF StoresAgree
    <2> QED BY <1>7, <2>1, <2>3, <2>4, <2>5, <2>6, <2>7 DEF StoresInv
  <1> QED BY <1>6, <1>7

\* A critical section that ends with persist().
LEMMA CommitStores ==
    ASSUME TypeOK, StoresInv, up, NEW n \in State, Fits(n), Moves(state, n),
           journal.used_operations \subseteq state.used_operations, Commit(n)
    PROVE  /\ StoresOn /\ StoresInv' /\ (state.journal_failed => state'.journal_failed)
           /\ ~state'.journal_failed => \A o \in Operations :
                /\ LedgerOutcome(o)' = OutcomeIn(n, o)
                /\ n.operations[o].status # "absent" =>
                        analytics'[o] = n.operations[o].status
  <1> DEFINE f == FailClosed(n)
  <1>1. f \in State /\ f.journal_failed /\ Moves(n, f) /\ Moves(n, n)
    BY FailClosedType, MethodsSame, SameMoves DEF Moves
  <1> HIDE DEF f
  <1>2. \/ PersistOk(n) /\ state' = n
        \/ PersistErr(n) /\ state' = f
    BY DEF Commit, f
  <1>3. state' \in State /\ Moves(n, state')
        /\ (PersistOk(n) \/ (PersistErr(n) /\ state'.journal_failed))
    BY <1>1, <1>2
  <1>4. /\ StoresOn /\ StoresInv'
        /\ PersistOk(n) => \A o \in Operations :
            /\ LedgerOutcome(o)' = OutcomeIn(n, o)
            /\ n.operations[o].status # "absent" => analytics'[o] = n.operations[o].status
    BY <1>3, WriteStores
  <1> QED BY <1>3, <1>4 DEF Moves

\* Records that move on in memory only.
LEMMA MemoryStores ==
    ASSUME TypeOK, StoresInv, up, state' \in State, Moves(state, state'),
           journal.used_operations \subseteq state.used_operations,
           state'.journal_failed = state.journal_failed, UNCHANGED <<durable, up>>
    PROVE  StoresOn /\ StoresInv'
  <1>1. UNCHANGED <<journal, analytics>>
    BY DEF durable
  <1>2. \A o \in Operations : LedgerOutcome(o)' = LedgerOutcome(o)
    BY <1>1 DEF LedgerOutcome
  <1>3. \A o \in Operations :
            /\ Promise!Advances(LedgerOutcome(o)', OutcomeIn(state', o))
            /\ Behind(analytics'[o], state'.operations[o].status)
    <2> SUFFICES ASSUME NEW o \in Operations
                 PROVE  /\ Promise!Advances(LedgerOutcome(o), OutcomeIn(state', o))
                        /\ Behind(analytics[o], state'.operations[o].status)
      BY <1>1, <1>2
    <2>1. /\ Promise!Advances(LedgerOutcome(o), OutcomeIn(state, o))
          /\ Behind(analytics[o], state.operations[o].status)
          /\ analytics[o] # "absent" => o \in state.used_operations
      BY DEF StoresInv, MemoryAhead, OutcomeIn
    <2>2. state \in State /\ analytics[o] \in OperationStatus
      BY DEF TypeOK
    <2>3. /\ Promise!Advances(OutcomeIn(state, o), OutcomeIn(state', o))
          /\ Behind(analytics[o], state'.operations[o].status)
      BY <2>1, <2>2, MovesAdvance
    <2> QED BY <2>1, <2>3, AdvancesOn
  <1>4. MemoryAhead'
    BY <1>3 DEF MemoryAhead, OutcomeIn
  <1>5. StoresOn
    BY <1>1, <1>2 DEF StoresOn, Promise!Advances
  <1> QED BY <1>1, <1>4, <1>5 DEF StoresInv, JournalAhead, StoresAgree

\* Stores that are left alone.
LEMMA GoneStores ==
    ASSUME TypeOK, StoresInv, Gone
    PROVE  StoresOn /\ StoresInv'
  <1>1. UNCHANGED <<journal, analytics>> /\ ~up'
    BY DEF Gone, durable
  <1>2. \A o \in Operations : LedgerOutcome(o)' = LedgerOutcome(o)
    BY <1>1 DEF LedgerOutcome
  <1> QED BY <1>1, <1>2 DEF StoresOn, StoresInv, MemoryAhead, JournalAhead, StoresAgree,
             Promise!Advances

\* A restart gives what was unfinished the outcome unknown, in both stores,
\* also if it fails half-way.
LEMMA RecoverStores ==
    ASSUME TypeOK, StoresInv, Recover
    PROVE  StoresOn /\ StoresInv'
  <1> DEFINE m == Recovered(journal)
             rows == MarkUnknown(analytics)
  <1>t. /\ journal \in Saved /\ analytics \in [Operations -> OperationStatus]
        /\ rows \in [Operations -> OperationStatus]
    BY RowsType DEF TypeOK
  <1>1. m \in State /\ m.used_operations = journal.used_operations
    BY <1>t, RecoveredType
  <1>2. /\ ~m.journal_failed
        /\ \A o \in Operations :
            m.operations[o].status = RecoveredStatus(journal.operations[o].status)
    BY DEF Recovered, EmptyState
  <1>3. \A o \in Operations :
            rows[o] = IF analytics[o] \in Unfinished THEN "unknown" ELSE analytics[o]
    BY DEF MarkUnknown
  <1> HIDE DEF rows
  <1>4. /\ Snapshot(m).used_operations = journal.used_operations
        /\ \A o \in Operations : Snapshot(m).operations[o].status = m.operations[o].status
    BY <1>1, SnapshotType DEF Snapshot
  <1>5. /\ journal' \in {journal, Snapshot(m)}
        /\ \/ /\ up' /\ state' = m /\ journal' = Snapshot(m)
              /\ analytics' = Upsert(rows, m)
           \/ ~up' /\ analytics' = rows
        /\ \A o \in Operations : journal.operations[o].status # "absent" =>
                o \in journal.used_operations
    BY DEF Recover, Loadable, rows
  <1> HIDE DEF m
  <1>6. \A o \in Operations :
            LET saved == journal.operations[o].status IN
            /\ Promise!Advances(LedgerOutcome(o), OutcomeIn(m, o))
            /\ Behind(rows[o], m.operations[o].status)
            /\ m.operations[o].status \in {"absent"} \union Final
            /\ saved \in {"absent", "succeeded", "failed"} => m.operations[o].status = saved
    <2> SUFFICES ASSUME NEW o \in Operations
                 PROVE  LET saved == journal.operations[o].status IN
                        /\ Promise!Advances(LedgerOutcome(o), OutcomeIn(m, o))
                        /\ Behind(rows[o], m.operations[o].status)
                        /\ m.operations[o].status \in {"absent"} \union Final
                        /\ saved \in {"absent", "succeeded", "failed"} =>
                                m.operations[o].status = saved
      OBVIOUS
    <2> DEFINE saved == journal.operations[o].status
    <2>1. saved \in OperationStatus /\ analytics[o] \in OperationStatus
      BY <1>t DEF Saved
    <2>2. m.operations[o].status = RecoveredStatus(saved)
      BY <1>2
    <2>3. analytics[o] \in {"succeeded", "failed"} => saved \in {"absent", analytics[o]}
      BY DEF StoresInv, JournalAhead
    <2>4. /\ LedgerOutcome(o) = OutcomeOf(saved, o \in journal.used_operations)
          /\ OutcomeIn(m, o) = OutcomeOf(RecoveredStatus(saved), o \in journal.used_operations)
      BY <1>1, <2>2 DEF LedgerOutcome, OutcomeIn
    <2>5. rows[o] = IF analytics[o] \in Unfinished THEN "unknown" ELSE analytics[o]
      BY <1>3
    <2> HIDE DEF saved
    <2>6. RecoveredStatus(saved) \in {"absent"} \union Final
          /\ (saved \in {"absent", "succeeded", "failed"} => RecoveredStatus(saved) = saved)
      BY <2>1 DEF RecoveredStatus, Final
    <2>7. Promise!Advances(LedgerOutcome(o), OutcomeIn(m, o))
      BY <2>1, <2>4 DEF OutcomeOf, RecoveredStatus, OperationStatus, Unfinished, Final,
         Promise!Advances, Promise!Recorded
    <2>8. Behind(rows[o], RecoveredStatus(saved))
      BY <2>1, <2>3, <2>5 DEF Behind, RecoveredStatus, OperationStatus, Unfinished, Final
    <2> QED BY <2>2, <2>6, <2>7, <2>8 DEF saved
  <1>7. \A o \in Operations :
            /\ LedgerOutcome(o)' \in {LedgerOutcome(o), OutcomeIn(m, o)}
            /\ journal' = Snapshot(m) => LedgerOutcome(o)' = OutcomeIn(m, o)
    BY <1>1, <1>4, <1>5 DEF LedgerOutcome, OutcomeIn
  <1>8. \A o \in Operations :
            /\ rows[o] # "absent" => o \in journal.used_operations
            /\ m.operations[o].status # "absent" => o \in journal.used_operations
            /\ analytics[o] \in {"succeeded", "failed"} <=> rows[o] \in {"succeeded", "failed"}
            /\ analytics[o] \in {"succeeded", "failed"} => rows[o] = analytics[o]
    BY <1>3, <1>5, <1>6 DEF StoresInv, Unfinished
  <1>9. \A o \in Operations :
            LET after == m.operations[o].status IN
            /\ after # "absent" => Upsert(rows, m)[o] = after
            /\ after = "absent" => Upsert(rows, m)[o] = rows[o]
            /\ rows[o] \in {"succeeded", "failed"} => Upsert(rows, m)[o] = rows[o]
    BY <1>1, <1>6, <1>t, UpsertBehind
  <1>10. journal'.used_operations = journal.used_operations
    BY <1>4, <1>5
  <1>11. StoresOn
    BY <1>5, <1>6, <1>7, <1>8, <1>9, <1>10 DEF StoresOn, Promise!Advances
  <1>12. \A o \in Operations : analytics'[o] # "absent" => o \in journal'.used_operations
    BY <1>5, <1>8, <1>9, <1>10
  <1>13. MemoryAhead'
    <2>1. ASSUME up', NEW o \in Operations
          PROVE  /\ Promise!Advances(LedgerOutcome(o)', OutcomeIn(state', o))
                 /\ Behind(analytics'[o], state'.operations[o].status)
      BY <1>5, <1>7, <1>9, <2>1 DEF Behind, Promise!Advances
    <2> QED BY <2>1 DEF MemoryAhead, OutcomeIn
  <1>14. JournalAhead'
    <2> SUFFICES ASSUME NEW o \in Operations, analytics'[o] \in {"succeeded", "failed"}
                 PROVE  journal'.operations[o].status \in {"absent", analytics'[o]}
      BY DEF JournalAhead
    <2>1. CASE up'
      BY <1>4, <1>5, <1>9, <2>1
    <2>2. CASE ~up'
      <3>1. analytics'[o] = analytics[o] /\ analytics[o] \in {"succeeded", "failed"}
        BY <1>5, <1>8, <2>2
      <3>2. journal.operations[o].status \in {"absent", analytics[o]}
        BY <3>1 DEF StoresInv, JournalAhead
      <3>3. m.operations[o].status = journal.operations[o].status
        BY <1>6, <3>1, <3>2
      <3> QED BY <1>4, <1>5, <3>1, <3>2, <3>3
    <2> QED BY <2>1, <2>2
  <1>15. StoresAgree'
    BY <1>4, <1>5, <1>9 DEF StoresAgree
  <1> QED BY <1>11, <1>12, <1>13, <1>14, <1>15 DEF StoresInv

(***************************************************************************)
(* An answer stands.                                                       *)
(***************************************************************************)

\* An exit code that agrees with the stores goes on doing so.
LEMMA StandsOn ==
    ASSUME StoresOn, NEW o \in Operations, NEW r \in Exits, Stands(o, r)
    PROVE  /\ LedgerOutcome(o)' \in {"forgotten", Outcome(r)}
           /\ analytics'[o] = Outcome(r)
  <1>1. Outcome(r) \in {"succeeded", "failed"}
    BY DEF Outcome, Exits
  <1>2. Promise!Advances(LedgerOutcome(o), LedgerOutcome(o)')
    BY DEF StoresOn
  <1>3. analytics[o] = Outcome(r) /\ LedgerOutcome(o) \in {"forgotten", Outcome(r)}
    BY DEF Stands
  <1>4. analytics'[o] = analytics[o]
    BY <1>1, <1>3 DEF StoresOn
  <1> QED BY <1>1, <1>2, <1>3, <1>4 DEF Promise!Advances, Promise!Recorded

\* What a step does to the thread of an operation that is not launched,
\* answered or given an exit code by it.
Quiet(o) ==
    \/ thread'[o].pc = "idle"
    \/ thread'[o] = thread[o] /\ (state.journal_failed => state'.journal_failed)
    \/ /\ \/ thread'[o].pc \in {"launch", "failing"}
          \/ thread'[o].pc = "answer" /\ thread'[o].result \notin Exits
       /\ told[o] = "none" /\ o \in journal'.used_operations

\* The part of RecordInv that is about one operation's thread and answer.
AnswerOf(o) ==
    /\ told[o] # "none" \/ thread[o].pc # "idle" => o \in journal.used_operations
    /\ LET exited == thread[o].pc = "answer" /\ thread[o].result \in Exits IN
       /\ thread[o].pc # "idle" => told[o] = "none"
       /\ (thread[o].pc = "relay" \/ exited \/ told[o] \in Exits) => launches[o] = 1
       /\ told[o] \in Exits => Stands(o, told[o])
       /\ exited /\ ~state.journal_failed => Stands(o, thread[o].result)

\* RecordInv is what holds of the stores and of every answer.
LEMMA RecordParts == RecordInv <=> StoresInv /\ \A o \in Operations : AnswerOf(o)
  BY DEF RecordInv, StoresInv, OnDisk, AnswersStand, AnswerOf

\* A quiet step keeps what an operation's thread and answer say.
LEMMA QuietAnswer ==
    ASSUME StoresOn, NEW o \in Operations, AnswerOf(o), Quiet(o),
           told'[o] = told[o], launches'[o] = launches[o]
    PROVE  AnswerOf(o)'
  <1>1. told'[o] # "none" \/ thread'[o].pc # "idle" => o \in journal'.used_operations
    BY DEF AnswerOf, Quiet, StoresOn
  <1>2. thread'[o].pc # "idle" => told'[o] = "none"
    BY DEF AnswerOf, Quiet
  <1>3. thread'[o].pc = "relay" \/ (thread'[o].pc = "answer" /\ thread'[o].result \in Exits)
            \/ told'[o] \in Exits
            => launches'[o] = 1
    BY DEF AnswerOf, Quiet
  <1>4. told'[o] \in Exits => Stands(o, told[o])'
    BY StandsOn DEF AnswerOf, Stands
  <1>5. ASSUME thread'[o].pc = "answer", thread'[o].result \in Exits,
               ~state'.journal_failed
        PROVE  Stands(o, thread[o].result)'
    <2>1. /\ thread'[o] = thread[o] /\ ~state.journal_failed
          /\ Stands(o, thread[o].result)
      BY <1>5 DEF Quiet, AnswerOf
    <2> QED BY <1>5, <2>1, StandsOn DEF Stands
  <1> QED BY <1>1, <1>2, <1>3, <1>4, <1>5 DEF AnswerOf

(***************************************************************************)
(* Every step is one of the ledger.                                        *)
(***************************************************************************)

\* The ledger's outcomes and answers.
Told(o) == IF told[o] \in Exits THEN told[o] ELSE "none"

\* What the ledger sees of the stores and of the answers has the ledger's types.
LEMMA OutcomesType ==
    ASSUME NEW saved \in Saved, NEW o \in Operations
    PROVE  OutcomeOf(saved.operations[o].status, o \in saved.used_operations)
                \in Promise!Outcomes
  BY DEF Saved, OutcomeOf, Promise!Outcomes, Promise!Recorded, OperationStatus,
         Unfinished, Final

\* The stores' way on is a record of the ledger.
LEMMA StoresRecord ==
    ASSUME TypeOK, TypeOK', StoresOn
    PROVE  Promise!Record(journal'.used_operations)
  <1>1. journal'.used_operations = journal.used_operations \union journal'.used_operations
    BY DEF StoresOn
  <1>2. [o \in Operations |-> LedgerOutcome(o)]' \in [Operations -> Promise!Outcomes]
    <2>1. \A o \in Operations : LedgerOutcome(o)' \in Promise!Outcomes
      BY OutcomesType DEF TypeOK, LedgerOutcome
    <2> QED BY <2>1
  <1>3. \A o \in Operations :
            /\ Promise!Advances(LedgerOutcome(o), LedgerOutcome(o)')
            /\ o \notin journal'.used_operations => LedgerOutcome(o)' = "pending"
    BY DEF StoresOn, LedgerOutcome, OutcomeOf
  <1> QED BY <1>1, <1>2, <1>3 DEF Promise!Record

\* A step that launches nothing and sends no exit code is a write.
LEMMA StoresWrite ==
    ASSUME TypeOK, TypeOK', StoresOn, UNCHANGED launches,
           \A o \in Operations : Told(o)' = Told(o)
    PROVE  Promise!Write
  <1>1. Promise!Record(journal'.used_operations)
    BY StoresRecord
  <1>2. journal'.used_operations \in SUBSET Operations
    BY DEF TypeOK, Saved
  <1>3. [o \in Operations |-> IF told[o] \in {"zero", "nonzero"} THEN told[o] ELSE "none"]'
            = [o \in Operations |->
                    IF told[o] \in {"zero", "nonzero"} THEN told[o] ELSE "none"]
    BY DEF Told, Exits
  <1> QED BY <1>1, <1>2, <1>3 DEF Promise!Write

\* A quiet step keeps RecordInv and is a write of the ledger.
LEMMA QuietStepRecord ==
    ASSUME TypeOK, TypeOK', RecordInv, StoresOn, StoresInv',
           \A o \in Operations : Quiet(o), UNCHANGED history
    PROVE  RecordInv' /\ Promise!Write
  <1>1. told' = told /\ launches' = launches
    BY DEF history
  <1>2. \A o \in Operations : AnswerOf(o)'
    <2> SUFFICES ASSUME NEW o \in Operations PROVE AnswerOf(o)'
      OBVIOUS
    <2>1. AnswerOf(o) /\ Quiet(o) /\ told'[o] = told[o] /\ launches'[o] = launches[o]
      BY <1>1, RecordParts
    <2> QED BY <2>1, QuietAnswer
  <1>3. RecordInv'
    BY <1>2 DEF RecordInv, StoresInv, OnDisk, AnswersStand, AnswerOf
  <1> QED BY <1>1, <1>3, StoresWrite DEF Told

\* Requests record what they do, and answer no Run with an exit code.
LEMMA RequestsRecord ==
    ASSUME TypeOK, OnceInv, LoadInv, RecordInv, Requests
    PROVE  RecordInv' /\ Promise!Write
  <1>t. TypeOK' /\ state \in State /\ state' \in State
    BY RequestsType DEF TypeOK
  <1>u. up
    BY DEF Requests, ExpireTick, Terminate, TerminateUnwritten, Deny, ExpireOnly,
           Start, Resume, Stop, Age, Prune, Reserve, Dispatch
  <1>f. Fits(state) /\ journal.used_operations \subseteq state.used_operations
    BY <1>t, <1>u, FitsLoads DEF LoadInv, OnceInv
  <1>r. StoresInv
    BY RecordParts
  <1>1. /\ UNCHANGED <<up, history>>
        /\ \/ UNCHANGED thread
           \/ \E o \in Operations :
                 /\ o \notin state.used_operations /\ o \in journal'.used_operations
                 /\ \E r : thread' = [thread EXCEPT ![o] = r] /\ r.pc = "launch"
    BY <1>f, RequestsMove
  <1>2. PICK n \in State :
            /\ Moves(state, n) /\ Fits(n)
            /\ \/ Commit(n)
               \/ /\ state' = n /\ n.journal_failed = state.journal_failed
                  /\ UNCHANGED <<durable, faults>>
    BY <1>f, RequestsMove
  <1>3. StoresOn /\ StoresInv' /\ (state.journal_failed => state'.journal_failed)
    <2>1. CASE Commit(n)
      BY <1>2, <1>f, <1>r, <1>u, <2>1, CommitStores
    <2>2. CASE ~Commit(n)
      <3>1. /\ state' = n /\ n.journal_failed = state.journal_failed
            /\ UNCHANGED <<durable, up>>
        BY <1>1, <1>2, <2>2
      <3> QED BY <1>2, <1>f, <1>r, <1>t, <1>u, <3>1, MemoryStores
    <2> QED BY <2>1, <2>2
  <1>4. ASSUME NEW o \in Operations PROVE Quiet(o)
    <2>1. CASE thread'[o] = thread[o]
      BY <1>3, <2>1 DEF Quiet
    <2>2. CASE thread'[o] # thread[o]
      <3>1. /\ o \notin state.used_operations /\ o \in journal'.used_operations
            /\ thread'[o].pc = "launch"
        BY <1>1, <2>2 DEF TypeOK
      <3>2. told[o] = "none"
        BY <1>f, <3>1 DEF RecordInv, OnDisk
      <3> QED BY <3>1, <3>2 DEF Quiet
    <2> QED BY <2>1, <2>2
  <1> QED BY <1>1, <1>3, <1>4, <1>t, QuietStepRecord

\* What the steps of an operation start from.
Ready(o) ==
    /\ up /\ Fits(state) /\ journal.used_operations \subseteq state.used_operations
    /\ StoresInv /\ AnswerOf(o) /\ o \in journal.used_operations /\ told[o] = "none"

\* A thread of an operation starts each of its steps from there.
LEMMA ThreadReady ==
    ASSUME TypeOK, OnceInv, LoadInv, RecordInv, NEW o \in Operations,
           thread[o].pc # "idle"
    PROVE  Ready(o)
  <1>1. up /\ state \in State
    BY DEF OnceInv, TypeOK
  <1>2. Fits(state)
    BY <1>1, FitsLoads DEF LoadInv
  <1>3. StoresInv /\ AnswerOf(o)
    BY RecordParts
  <1> QED BY <1>1, <1>2, <1>3 DEF Ready, OnceInv, AnswerOf

\* Threads that a step leaves alone are quiet.
LEMMA OthersQuiet ==
    ASSUME TypeOK, NEW o \in Operations, NEW r, thread' = [thread EXCEPT ![o] = r],
           state.journal_failed => state'.journal_failed
    PROVE  /\ \A x \in Operations : x # o => Quiet(x)
           /\ thread'[o] = r
  BY DEF TypeOK, Quiet

\* A launch that is refused or fails leaves a thread that will say so.
LEMMA RefusalRecord ==
    ASSUME TypeOK, OnceInv, SessionInv, LoadInv, RecordInv, NEW o \in Operations,
           LaunchRefused(o) \/ LaunchFailed(o)
    PROVE  RecordInv' /\ Promise!Write
  <1> DEFINE m == Expire(state)
             r == [thread[o] EXCEPT !.pc = "failing"]
  <1>1. /\ thread[o].pc = "launch" /\ thread' = [thread EXCEPT ![o] = r]
        /\ UNCHANGED <<up, history>>
    BY DEF LaunchRefused, LaunchFailed, GoesOnToFail
  <1>2. Ready(o)
    BY <1>1, ThreadReady
  <1>3. m \in State /\ Fits(m) /\ Moves(state, m) /\ m.journal_failed = state.journal_failed
    BY <1>2, OperationMoves DEF Ready
  <1>4. TypeOK'
    BY OperationType DEF Launching
  <1> HIDE DEF m
  <1>5. StoresOn /\ StoresInv' /\ (state.journal_failed => state'.journal_failed)
    <2>1. CASE LaunchRefused(o)
      <3>1. state' = m /\ UNCHANGED <<durable, up>>
        BY <2>1 DEF LaunchRefused, LaunchState, m
      <3> QED BY <1>2, <1>3, <3>1, MemoryStores DEF Ready
    <2>2. CASE LaunchFailed(o)
      <3>1. Commit(m)
        BY <2>2 DEF LaunchFailed, LaunchState, m
      <3> QED BY <1>2, <1>3, <3>1, CommitStores DEF Ready
    <2> QED BY <2>1, <2>2
  <1>6. r.pc = "failing"
    BY <1>1, ThreadMoves DEF Busy
  <1> HIDE DEF r
  <1>7. \A x \in Operations : Quiet(x)
    <2>1. /\ \A x \in Operations : x # o => Quiet(x)
          /\ thread'[o] = r
      BY <1>1, <1>5, OthersQuiet
    <2>2. o \in journal'.used_operations
      BY <1>2, <1>5 DEF Ready, StoresOn
    <2>3. Quiet(o)
      BY <1>2, <1>6, <2>1, <2>2 DEF Quiet, Ready
    <2> QED BY <2>1, <2>3
  <1> QED BY <1>1, <1>4, <1>5, <1>7, QuietStepRecord

\* A launch is the one execution of a claimed operation without an outcome.
LEMMA LaunchRecord ==
    ASSUME TypeOK, OnceInv, SessionInv, LoadInv, RecordInv, NEW o \in Operations,
           Launch(o)
    PROVE  RecordInv' /\ Promise!Execute(o)
  <1> DEFINE m == Expire(state)
             r == [thread[o] EXCEPT !.pc = "relay"]
  <1>1. /\ thread[o].pc = "launch" /\ thread' = [thread EXCEPT ![o] = r]
        /\ UNCHANGED <<up, told>> /\ PersistOk(m)
        /\ launches' = [launches EXCEPT ![o] = @ + 1]
    BY DEF Launch, LaunchState
  <1>2. Ready(o) /\ launches[o] = 0
    BY <1>1, ThreadReady DEF OnceInv
  <1>3. /\ m \in State /\ Fits(m) /\ Moves(state, m)
        /\ m.journal_failed = state.journal_failed
        /\ Moves(m, state') /\ Fits(state')
    BY <1>2, OperationMoves DEF Ready
  <1>4. TypeOK' /\ state' \in State
    BY OperationType DEF Launching, TypeOK
  <1>5. Active(m, o)
    <2>1. Consistent(m, thread, guardian)
      BY ExpireConsistent DEF TypeOK, Threads, SessionInv
    <2> QED BY <1>1, <2>1 DEF Consistent, Agrees, Working
  <1> HIDE DEF m
  <1>6. /\ StoresOn /\ StoresInv' /\ LedgerOutcome(o)' = OutcomeIn(m, o)
        /\ state.journal_failed => state'.journal_failed
    <2>1. StoresOn /\ StoresInv' /\ LedgerOutcome(o)' = OutcomeIn(m, o)
      BY <1>1, <1>2, <1>3, <1>4, WriteStores DEF Ready
    <2> QED BY <1>3, <2>1 DEF Moves
  <1>7. r.pc = "relay"
    BY <1>1, ThreadMoves DEF Busy
  <1> HIDE DEF r
  <1>8. /\ \A x \in Operations : x # o => Quiet(x)
        /\ thread'[o] = r
    BY <1>1, <1>6, OthersQuiet
  <1>9. launches' = [launches EXCEPT ![o] = 1] /\ launches'[o] = 1
        /\ \A x \in Operations : x # o => launches'[x] = launches[x]
    BY <1>1, <1>2 DEF TypeOK
  <1>10. RecordInv'
    <2>1. AnswerOf(o)'
      BY <1>1, <1>2, <1>6, <1>7, <1>8, <1>9 DEF AnswerOf, Ready, StoresOn, Exits
    <2>2. ASSUME NEW x \in Operations, x # o PROVE AnswerOf(x)'
      BY <1>1, <1>6, <1>8, <1>9, <2>2, QuietAnswer, RecordParts
    <2>3. \A x \in Operations : AnswerOf(x)'
      BY <2>1, <2>2
    <2> QED BY <1>6, <2>3 DEF RecordInv, StoresInv, OnDisk, AnswersStand, AnswerOf
  <1>11. LedgerOutcome(o) = "pending" /\ LedgerOutcome(o)' = "pending"
    <2>1. LedgerOutcome(o)' = "pending"
      BY <1>5, <1>6 DEF OutcomeIn, OutcomeOf, Active
    <2>2. Promise!Advances(LedgerOutcome(o), LedgerOutcome(o)')
      BY <1>6 DEF StoresOn
    <2> QED BY <2>1, <2>2 DEF Promise!Advances, Promise!Recorded
  <1>12. Promise!Execute(o)
    <2>1. /\ Promise!Record(journal'.used_operations)
          /\ journal'.used_operations \in SUBSET Operations
      BY <1>4, <1>6, StoresRecord DEF TypeOK, Saved
    <2>2. o \in journal.used_operations
      BY <1>2 DEF Ready
    <2> QED BY <1>1, <1>2, <1>9, <1>11, <2>1, <2>2 DEF Promise!Execute
  <1> QED BY <1>10, <1>12

\* finish() writes the outcome that the answer will stand on.
LEMMA FinishRecord ==
    ASSUME TypeOK, OnceInv, SessionInv, LoadInv, RecordInv, TypeOK',
           NEW o \in Operations, Working(thread, o),
           NEW status \in Final, NEW result \in Results \union {"none"},
           result \in Exits => status = Outcome(result) /\ thread[o].pc = "relay",
           Commit(Finished(state, o, status)), UNCHANGED <<up, history>>,
           thread' = [thread EXCEPT ![o].pc = "answer", ![o].result = result]
    PROVE  RecordInv' /\ Promise!Write
  <1> DEFINE n == Finished(state, o, status)
             r == [thread[o] EXCEPT !.pc = "answer", !.result = result]
  <1>1. Ready(o)
    BY ThreadReady DEF Working
  <1>2. /\ n \in State /\ Fits(n) /\ Moves(state, n)
        /\ n.operations[o].status = status
        /\ n.used_operations = state.used_operations
    BY <1>1, OperationMoves DEF Ready
  <1>3. Commit(n)
    OBVIOUS
  <1> HIDE DEF n
  <1>4. /\ StoresOn /\ StoresInv' /\ (state.journal_failed => state'.journal_failed)
        /\ ~state'.journal_failed =>
                /\ LedgerOutcome(o)' = OutcomeIn(n, o)
                /\ analytics'[o] = status
    <2>1. status # "absent"
      BY DEF Final
    <2> QED BY <1>1, <1>2, <1>3, <2>1, CommitStores DEF Ready
  <1>5. r.pc = "answer" /\ r.result = result /\ thread' = [thread EXCEPT ![o] = r]
    <2>1. thread[o] \in Busy
      BY ThreadMoves DEF Working
    <2>2. r.pc = "answer" /\ r.result = result
      BY <2>1 DEF Busy
    <2>3. thread' = [thread EXCEPT ![o] = r]
      BY DEF TypeOK
    <2> QED BY <2>2, <2>3
  <1> HIDE DEF r
  <1>6. /\ \A x \in Operations : x # o => Quiet(x)
        /\ thread'[o] = r
    BY <1>4, <1>5, OthersQuiet
  <1>7. o \in journal'.used_operations /\ told[o] = "none"
    BY <1>1, <1>4 DEF Ready, StoresOn
  <1>8. CASE result \notin Exits
    <2>1. Quiet(o)
      BY <1>5, <1>6, <1>7, <1>8 DEF Quiet
    <2> QED BY <1>4, <1>6, <2>1, QuietStepRecord
  <1>9. CASE result \in Exits
    <2>1. launches[o] = 1
      BY <1>1, <1>9 DEF Ready, AnswerOf
    <2>2. ~state'.journal_failed => Stands(o, thread[o].result)'
      <3>1. OutcomeIn(n, o) = status
        BY <1>1, <1>2 DEF OutcomeIn, OutcomeOf, Ready, Final, Unfinished
      <3> QED BY <1>4, <1>5, <1>6, <1>9, <3>1 DEF Stands
    <2>3. UNCHANGED <<told, launches>>
      BY DEF history
    <2>4. AnswerOf(o)'
      BY <1>5, <1>6, <1>7, <2>1, <2>2, <2>3 DEF AnswerOf, Exits
    <2>5. ASSUME NEW x \in Operations, x # o PROVE AnswerOf(x)'
      BY <1>4, <1>6, <2>3, <2>5, QuietAnswer, RecordParts
    <2>6. \A x \in Operations : AnswerOf(x)'
      BY <2>4, <2>5
    <2>7. RecordInv'
      BY <1>4, <2>6 DEF RecordInv, StoresInv, OnDisk, AnswersStand, AnswerOf
    <2> QED BY <1>4, <2>3, <2>7, StoresWrite DEF Told
  <1> QED BY <1>8, <1>9

\* An answer is an exit code only if the stores have it.
LEMMA AnswerRecord ==
    ASSUME TypeOK, OnceInv, SessionInv, LoadInv, RecordInv, TypeOK',
           NEW o \in Operations, Answer(o)
    PROVE  RecordInv' /\ (Promise!Write \/ \E code \in Exits : Promise!AnswerTo(o, code))
  <1> DEFINE result == thread[o].result
  <1>1. /\ thread[o].pc = "answer" /\ thread' = [thread EXCEPT ![o] = Idle]
        /\ told' = [told EXCEPT ![o] = Response(result)]
        /\ UNCHANGED <<up, state, journal, analytics, launches>>
    BY DEF Answer, durable
  <1>2. Ready(o)
    BY <1>1, ThreadReady
  <1>3. told'[o] = Response(result) /\ \A x \in Operations : x # o => told'[x] = told[x]
    BY <1>1 DEF TypeOK
  <1>4. /\ \A x \in Operations : x # o => Quiet(x)
        /\ thread'[o].pc = "idle"
    <2>1. /\ \A x \in Operations : x # o => Quiet(x)
          /\ thread'[o] = Idle
      BY <1>1, OthersQuiet
    <2> QED BY <2>1 DEF Idle
  <1>5. \A x \in Operations : LedgerOutcome(x)' = LedgerOutcome(x)
    BY <1>1 DEF LedgerOutcome
  <1>6. StoresOn /\ StoresInv'
    BY <1>1, <1>2, <1>5 DEF StoresOn, Promise!Advances, Ready, StoresInv, MemoryAhead,
       JournalAhead, StoresAgree
  <1>7. Response(result) \in Exits =>
            /\ Response(result) = result /\ ~state.journal_failed
            /\ launches[o] = 1 /\ Stands(o, result)
    BY <1>1, <1>2 DEF Response, Exits, Ready, AnswerOf
  <1>8. RecordInv'
    <2>1. Response(result) \in Exits => Stands(o, told[o])'
      BY <1>1, <1>3, <1>5, <1>7 DEF Stands
    <2>2. AnswerOf(o)'
      BY <1>1, <1>2, <1>3, <1>4, <1>7, <2>1 DEF AnswerOf, Ready
    <2>3. ASSUME NEW x \in Operations, x # o PROVE AnswerOf(x)'
      BY <1>1, <1>3, <1>4, <1>6, <2>3, QuietAnswer, RecordParts
    <2>4. \A x \in Operations : AnswerOf(x)'
      BY <2>2, <2>3
    <2> QED BY <1>6, <2>4 DEF RecordInv, StoresInv, OnDisk, AnswersStand, AnswerOf
  <1>9. CASE Response(result) \notin Exits
    <2>1. \A x \in Operations : Told(x)' = Told(x)
      BY <1>2, <1>3, <1>9 DEF Told, Ready
    <2> QED BY <1>1, <1>6, <1>8, <2>1, StoresWrite
  <1>10. CASE Response(result) \in Exits
    <2> DEFINE answers == [x \in Operations |->
                    IF told[x] \in {"zero", "nonzero"} THEN told[x] ELSE "none"]
    <2>1. answers[o] = "none" /\ answers' = [answers EXCEPT ![o] = result]
      BY <1>2, <1>3, <1>7, <1>10 DEF Ready, Exits
    <2>2. [x \in Operations |-> LedgerOutcome(x)]' = [x \in Operations |-> LedgerOutcome(x)]
      BY <1>5
    <2>3. LedgerOutcome(o)
            \in {"forgotten", IF result = "zero" THEN "succeeded" ELSE "failed"}
      BY <1>7, <1>10 DEF Stands, Outcome, Exits
    <2>4. PICK code \in Exits : code = result
      BY <1>7, <1>10
    <2>5. Promise!AnswerTo(o, code)
      BY <1>1, <1>7, <1>10, <2>1, <2>2, <2>3, <2>4 DEF Promise!AnswerTo
    <2> QED BY <1>8, <2>5
  <1> QED BY <1>9, <1>10

\* A crash, the end of the drain and a restart are writes, if anything.
LEMMA ProcessRecord ==
    ASSUME TypeOK, OnceInv, RecordInv, Crash \/ Exit \/ Recover
    PROVE  RecordInv' /\ Promise!Write
  <1>1. TypeOK'
    BY ProcessType
  <1>2. StoresInv
    BY RecordParts
  <1>3. StoresOn /\ StoresInv'
    BY <1>2, GoneStores, RecoverStores DEF Crash, Exit
  <1>4. UNCHANGED history
    BY DEF Crash, Exit, Gone, Recover
  <1>5. ASSUME NEW o \in Operations PROVE Quiet(o)
    <2>1. thread'[o].pc = "idle"
      BY DEF Crash, Exit, Gone, Recover, OnceInv, Idle
    <2> QED BY <2>1 DEF Quiet
  <1> QED BY <1>1, <1>3, <1>4, <1>5, QuietStepRecord

\* A guardian's end touches neither the records nor the answers.
LEMMA GuardianRecord ==
    ASSUME TypeOK, RecordInv, TypeOK', NEW o \in Operations, GuardianEnds(o)
    PROVE  RecordInv' /\ Promise!Write
  <1>1. UNCHANGED <<up, state, thread, journal, analytics, history>>
    BY DEF GuardianEnds, durable
  <1>2. \A x \in Operations : LedgerOutcome(x)' = LedgerOutcome(x)
    BY <1>1 DEF LedgerOutcome
  <1>3. StoresInv
    BY RecordParts
  <1>4. StoresOn /\ StoresInv'
    BY <1>1, <1>2, <1>3 DEF StoresOn, Promise!Advances, StoresInv, MemoryAhead,
       JournalAhead, StoresAgree
  <1>5. \A x \in Operations : Quiet(x)
    BY <1>1 DEF Quiet
  <1> QED BY <1>1, <1>4, <1>5, QuietStepRecord

ServiceInv == TypeOK /\ OnceInv /\ SessionInv /\ LoadInv /\ RecordInv

\* Every step keeps RecordInv and is a step of the ledger, or none.
LEMMA NextRecord ==
    ServiceInv /\ [Next]_vars => RecordInv' /\ [Promise!Next]_(Promise!vars)
  <1> SUFFICES ASSUME ServiceInv, [Next]_vars
               PROVE  RecordInv' /\ [Promise!Next]_(Promise!vars)
    OBVIOUS
  <1>i. TypeOK /\ OnceInv /\ SessionInv /\ LoadInv /\ RecordInv /\ TypeOK'
    BY NextType DEF ServiceInv
  <1>w. Promise!Write => Promise!Next
    BY DEF Promise!Next
  <1>1. CASE UNCHANGED vars
    <2>1. UNCHANGED <<up, state, thread, journal, analytics, told, launches>>
      BY <1>1 DEF vars, durable, history
    <2>2. \A o \in Operations : LedgerOutcome(o)' = LedgerOutcome(o)
      BY <2>1 DEF LedgerOutcome
    <2>3. RecordInv'
      BY <1>i, <2>1, <2>2 DEF RecordInv, MemoryAhead, JournalAhead, OnDisk, AnswersStand,
         StoresAgree, Stands
    <2> QED BY <2>1, <2>2, <2>3 DEF Promise!vars
  <1>2. CASE Requests
    BY <1>2, <1>i, <1>w, RequestsRecord
  <1>3. ASSUME NEW o \in Operations, Launching(o)
        PROVE  RecordInv' /\ [Promise!Next]_(Promise!vars)
    <2>1. CASE LaunchRefused(o) \/ LaunchFailed(o)
      BY <1>i, <1>w, <2>1, RefusalRecord
    <2>2. CASE Launch(o)
      BY <1>i, <2>2, LaunchRecord DEF Promise!Next
    <2> QED BY <1>3, <2>1, <2>2 DEF Launching
  <1>4. ASSUME NEW o \in Operations, Finishing(o)
        PROVE  RecordInv' /\ [Promise!Next]_(Promise!vars)
    <2>1. CASE FinishUnlaunched(o)
      <3>1. /\ Working(thread, o) /\ "failed" \in Final
            /\ "error" \in Results \union {"none"} /\ "error" \notin Exits
        BY <2>1 DEF FinishUnlaunched, Working, Final, Results, Exits
      <3> QED BY <1>i, <1>w, <2>1, <3>1, FinishRecord DEF FinishUnlaunched
    <2>2. CASE Finish(o)
      <3>1. PICK result \in Results \union {"none"} : result = guardian[o].result
        BY <1>i DEF TypeOK, Guardian, NoGuardian, Started
      <3>2. /\ Working(thread, o) /\ thread[o].pc = "relay"
            /\ Outcome(result) \in Final
        BY <2>2 DEF Finish, Working, Final, Outcome
      <3>3. /\ Commit(Finished(state, o, Outcome(result)))
            /\ thread' = [thread EXCEPT ![o].pc = "answer", ![o].result = result]
            /\ UNCHANGED <<up, history>>
        BY <2>2, <3>1 DEF Finish
      <3> QED BY <1>i, <1>w, <3>2, <3>3, FinishRecord
    <2> QED BY <1>4, <2>1, <2>2 DEF Finishing
  <1>5. ASSUME NEW o \in Operations, GuardianEnds(o) \/ Answer(o)
        PROVE  RecordInv' /\ [Promise!Next]_(Promise!vars)
    <2>1. CASE GuardianEnds(o)
      BY <1>i, <1>w, <2>1, GuardianRecord
    <2>2. CASE Answer(o)
      <3>1. RecordInv' /\ (Promise!Write \/ \E code \in Exits : Promise!AnswerTo(o, code))
        BY <1>i, <2>2, AnswerRecord
      <3> QED BY <1>w, <3>1 DEF Promise!Next, Exits
    <2> QED BY <1>5, <2>1, <2>2
  <1>6. CASE Crash \/ Exit \/ Recover
    BY <1>6, <1>i, <1>w, ProcessRecord
  <1> QED BY <1>1, <1>2, <1>3, <1>4, <1>5, <1>6 DEF Next

\* The first state of the service is the ledger's.
LEMMA InitRecord == Init => RecordInv /\ Promise!Init
  <1> SUFFICES ASSUME Init PROVE RecordInv /\ Promise!Init
    OBVIOUS
  <1>1. /\ ~up /\ journal.used_operations = {}
        /\ \A o \in Operations : /\ thread[o].pc = "idle" /\ told[o] = "none"
                                 /\ analytics[o] = "absent" /\ launches[o] = 0
    BY EmptyStateType, SnapshotType DEF Init, Idle, EmptyState
  <1>2. RecordInv
    BY <1>1 DEF RecordInv, MemoryAhead, JournalAhead, OnDisk, AnswersStand, StoresAgree, Exits
  <1>3. \A o \in Operations : LedgerOutcome(o) = "pending"
    BY <1>1 DEF LedgerOutcome, OutcomeOf
  <1>4. /\ [o \in Operations |-> LedgerOutcome(o)] = [o \in Operations |-> "pending"]
        /\ [o \in Operations |-> IF told[o] \in {"zero", "nonzero"} THEN told[o] ELSE "none"]
                = [o \in Operations |-> "none"]
        /\ launches = [o \in Operations |-> 0]
    BY <1>1, <1>3 DEF Init
  <1> QED BY <1>1, <1>2, <1>4 DEF Promise!Init

\* Records only move forward, the analytics never ahead of the journal, and
\* every answer that can still be given stands (reserve, finish, persist,
\* recover).
THEOREM RecordInvariant == Spec => []ServiceInv
  <1>1. Init => ServiceInv
    BY InitType, InitOnce, InitSession, InitLoads, InitRecord DEF ServiceInv
  <1>2. ServiceInv /\ [Next]_vars => ServiceInv'
    BY NextType, NextOnce, NextSession, NextLoads, NextRecord DEF ServiceInv
  <1> QED BY <1>1, <1>2, PTL DEF Spec

\* A client that was sent an exit code finds that outcome, or a pruned record,
\* in the journal of every later service, and in the analytics.
THEOREM AnswersAreDurable == Spec => []AnswerIsDurable
  <1>1. ASSUME ServiceInv, NEW o \in Operations, told[o] \in {"zero", "nonzero"}
        PROVE  /\ journal.operations[o].status \in {Outcome(told[o]), "absent"}
               /\ analytics[o] = Outcome(told[o])
    <2>1. Stands(o, told[o]) /\ o \in journal.used_operations
      BY <1>1 DEF ServiceInv, RecordInv, OnDisk, AnswersStand, Exits
    <2>2. Outcome(told[o]) \in {"succeeded", "failed"}
      BY <1>1 DEF Outcome
    <2>3. /\ analytics[o] = Outcome(told[o])
          /\ LedgerOutcome(o) \in {"forgotten", Outcome(told[o])}
      BY <2>1 DEF Stands
    <2>4. LedgerOutcome(o) # "forgotten" => LedgerOutcome(o) = journal.operations[o].status
            \/ LedgerOutcome(o) = "pending"
      BY DEF LedgerOutcome, OutcomeOf
    <2>5. LedgerOutcome(o) = "forgotten" => journal.operations[o].status \in {"absent", "forgotten"}
      BY DEF LedgerOutcome, OutcomeOf
    <2>6. journal.operations[o].status # "forgotten"
      BY <1>1 DEF ServiceInv, TypeOK, Saved, OperationStatus, Unfinished, Final
    <2> QED BY <2>2, <2>3, <2>4, <2>5, <2>6
  <1>2. ServiceInv => AnswerIsDurable
    BY <1>1 DEF AnswerIsDurable
  <1> QED BY <1>2, RecordInvariant, PTL

\* While no write has failed the two stores agree.
THEOREM StoresAlwaysAgree == Spec => []StoresAgree
  <1>1. ServiceInv => StoresAgree
    BY DEF ServiceInv, RecordInv
  <1> QED BY <1>1, RecordInvariant, PTL

\* The service implements the ledger: its initial state is the ledger's, every
\* step of it one of the ledger or none.
THEOREM LedgerImplemented == Spec => ImplementsLedger
  <1>1. Init => Promise!Init
    BY InitRecord
  <1>2. ServiceInv /\ [Next]_vars => [Promise!Next]_(Promise!vars)
    BY NextRecord
  <1> QED BY <1>1, <1>2, RecordInvariant, PTL DEF Spec, ImplementsLedger, Promise!Spec
=============================================================================
