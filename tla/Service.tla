------------------------------ MODULE Service ------------------------------
(***************************************************************************)
(* The local service of latchrun (src/src/service.rs): sessions, operation *)
(* reservations, the handler thread of every accepted Run request, the     *)
(* guardian process it launches, the durable journal, the analytics rows,  *)
(* persistence failures, crashes and restarts.                             *)
(*                                                                         *)
(* The Mutex<State> of the service is the variable `state': every action   *)
(* below that reads or writes it is one critical section of the code, with *)
(* everything that section does, the trailing persist() included.          *)
(*                                                                         *)
(* Abstractions.  A session is named by its random id (a name resolves to  *)
(* an id under the same lock); an id drawn by random_id is any id not in   *)
(* use.  Events, sequence numbers, timestamps and the denial counter are   *)
(* left out: no decision depends on them.  Whether a TTL has elapsed is    *)
(* the set `aged', which only grows while the session stays as it is.  The *)
(* credential cache has a module of its own (CredentialCache).             *)
(***************************************************************************)
EXTENDS Naturals, FiniteSets

CONSTANTS
    Sessions,       \* ids random_id can draw
    Operations,     \* operation ids clients submit
    Profiles,       \* profiles that pass Profile::validate
    Commands,       \* canonical argv values
    Allows,         \* the <<profile, argv>> pairs Profile::authorize accepts
    MaxSessions,    \* MAX_SESSIONS
    MaxOperations,  \* MAX_OPERATIONS
    MaxRunning,     \* MAX_RUNNING
    MaxUsed,        \* the 65,536 reserved ids
    MaxFaults,      \* bound: persistence failures and crashes of a behaviour
    NoSession, NoProfile, NoCommand

ASSUME ServiceAssumption ==
    /\ Allows \subseteq Profiles \X Commands
    /\ NoSession \notin Sessions /\ NoProfile \notin Profiles
    /\ NoCommand \notin Commands
    /\ MaxSessions \in Nat /\ MaxOperations \in Nat /\ MaxRunning \in Nat
    /\ MaxUsed \in Nat /\ MaxFaults \in Nat

VARIABLES
    up,         \* a service process owns the runtime directory
    state,      \* Mutex<State>; EmptyState while no process is up
    aged,       \* sessions whose TTL has elapsed since `started'
    thread,     \* the handler thread of each accepted Run request
    guardian,   \* the guardian process of each operation
    journal,    \* history.json as a restart would read it
    analytics,  \* status column of the analytics operations table
    told,       \* history: the final response sent for the operation
    launches,   \* history: guardians started for the operation
    faults      \* bound

durable == <<journal, analytics>>
history == <<told, launches>>
vars == <<up, state, aged, thread, guardian, journal, analytics, told,
          launches, faults>>

-----------------------------------------------------------------------------
(* Types *)

Final == {"succeeded", "failed", "unknown"}
Unfinished == {"reserved", "running"}
SessionStatus == {"absent", "active", "stopped", "expired", "interrupted"}
OperationStatus == {"absent"} \union Unfinished \union Final
Results == {"zero", "nonzero", "error", "lost"}

Session == [status : SessionStatus, profile : Profiles \union {NoProfile}]
Operation == [status : OperationStatus, session : Sessions \union {NoSession},
              control : BOOLEAN]
State == [sessions : [Sessions -> Session],
          operations : [Operations -> Operation],
          used_operations : SUBSET Operations,
          stopping : BOOLEAN, journal_failed : BOOLEAN]
Saved == [sessions : [Sessions -> SessionStatus],
          operations : [Operations -> [status : OperationStatus,
                                       session : Sessions \union {NoSession}]],
          used_operations : SUBSET Operations]
Idle == [pc |-> "idle", session |-> NoSession, argv |-> NoCommand,
         result |-> "none"]
Busy == [pc : {"launch", "failing", "relay", "answer"},
         session : Sessions, argv : Commands, result : Results \union {"none"}]
Thread == {Idle} \union Busy
NoGuardian == [phase |-> "none", session |-> NoSession, profile |-> NoProfile,
               argv |-> NoCommand, result |-> "none"]
Started == [phase : {"live", "ended"}, session : Sessions,
            profile : Profiles \union {NoProfile}, argv : Commands,
            result : Results \union {"none"}]
Guardian == {NoGuardian} \union Started

NoSessionRecord == [status |-> "absent", profile |-> NoProfile]
NoOperation == [status |-> "absent", session |-> NoSession, control |-> FALSE]
EmptyState ==
    [sessions |-> [s \in Sessions |-> NoSessionRecord],
     operations |-> [o \in Operations |-> NoOperation],
     used_operations |-> {}, stopping |-> FALSE, journal_failed |-> FALSE]

-----------------------------------------------------------------------------
(* The methods of State: pure functions of a state m *)

Active(m, o) == m.operations[o].status \in Unfinished
Details(m) == {o \in Operations : m.operations[o].status # "absent"}
Present(m) == {s \in Sessions : m.sessions[s].status # "absent"}

LosesPipeNever(s, stopped) == FALSE     \* wrong: pipes stay open
LosesPipeAlways(s, stopped) == TRUE     \* wrong: pipes of other sessions too
LosesPipe(s, stopped) == s \in stopped

\* Stops every active session of S: its status, and the control pipe of each
\* active operation of it is taken, which its guardian sees as end of file.
StopSessions(m, S, status) ==
    LET stopped == {s \in S : m.sessions[s].status = "active"} IN
    [m EXCEPT
        !.sessions = [s \in Sessions |->
            IF s \in stopped THEN [m.sessions[s] EXCEPT !.status = status]
                             ELSE m.sessions[s]],
        !.operations = [o \in Operations |->
            IF Active(m, o) /\ LosesPipe(m.operations[o].session, stopped)
            THEN [m.operations[o] EXCEPT !.control = FALSE]
            ELSE m.operations[o]]]

Expire(m) == StopSessions(m, aged, "expired")

Shutdown(m) == [StopSessions(m, Sessions, "stopped") EXCEPT !.stopping = TRUE]

\* What persist() leaves in memory when the journal or analytics write fails.
FailClosed(m) == Shutdown([m EXCEPT !.journal_failed = TRUE])

TombstonesOfDetails(m) == Details(m)    \* wrong: pruned ids are forgotten
Tombstones(m) == m.used_operations

Snapshot(m) ==
    [sessions |-> [s \in Sessions |-> m.sessions[s].status],
     operations |-> [o \in Operations |->
        [status |-> m.operations[o].status, session |-> m.operations[o].session]],
     used_operations |-> Tombstones(m)]

\* UPSERT_OPERATION on the row of every operation m still has details of:
\* succeeded and failed stay, unknown gives way only to a final outcome.
KeepsAnyOutcome(before, after) == before \in Final   \* wrong: unknown stays
KeepsRow(before, after) ==
    \/ before \in {"succeeded", "failed"}
    \/ before = "unknown" /\ after \in Unfinished

Upsert(rows, m) ==
    [o \in Operations |->
        LET status == m.operations[o].status IN
        IF status = "absent" \/ KeepsRow(rows[o], status) THEN rows[o] ELSE status]

\* Analytics::open: no previous owner can still finish these operations.
MarkUnknown(rows) ==
    [o \in Operations |-> IF rows[o] \in Unfinished THEN "unknown" ELSE rows[o]]

\* What recover() makes of a saved operation status.
RecoveredStatus(status) ==
    IF status \in {"absent", "succeeded", "failed"} THEN status ELSE "unknown"

\* State::recover, the in-memory state rebuilt from a journal.
Recovered(saved) ==
    [EmptyState EXCEPT
        !.sessions = [s \in Sessions |->
            [status |-> IF saved.sessions[s] \in {"absent", "stopped", "expired"}
                        THEN saved.sessions[s] ELSE "interrupted",
             profile |-> NoProfile]],
        !.operations = [o \in Operations |->
            [status |-> RecoveredStatus(saved.operations[o].status),
             session |-> saved.operations[o].session,
             control |-> FALSE]],
        !.used_operations = saved.used_operations]

\* What recover() demands of a journal before it uses it.
Loadable(saved) ==
    LET kept == {o \in Operations : saved.operations[o].status # "absent"} IN
    /\ Cardinality({s \in Sessions : saved.sessions[s] # "absent"}) <= MaxSessions
    /\ Cardinality(kept) <= MaxOperations
    /\ Cardinality(saved.used_operations) <= MaxUsed
    /\ \A o \in kept :
         /\ saved.operations[o].session \in Sessions
         /\ saved.sessions[saved.operations[o].session] # "absent"
         /\ o \in saved.used_operations

-----------------------------------------------------------------------------
(* persist() *)

\* journal::save and Analytics::record_operations both succeed.
PersistOk(m) ==
    /\ journal' = Snapshot(m)
    /\ analytics' = Upsert(analytics, m)
    /\ UNCHANGED faults

\* One of them fails.  The new journal may already be in place: the rename
\* precedes the directory fsync and the analytics transaction.
PersistErr(m) ==
    /\ faults < MaxFaults
    /\ faults' = faults + 1
    /\ journal' \in {journal, Snapshot(m)}
    /\ UNCHANGED analytics

\* A critical section that changes the state to m and ends with persist().
\* A crash inside persist() is PersistErr followed by Crash, which forgets
\* the state.
Commit(m) ==
    \/ PersistOk(m) /\ state' = m
    \/ PersistErr(m) /\ state' = FailClosed(m)

-----------------------------------------------------------------------------
(* Requests answered by dispatch(): expire, refuse while stopping, act,    *)
(* persist if anything was recorded.                                       *)

Dispatch(m) ==
    /\ up
    /\ Commit(m)
    /\ UNCHANGED <<up, thread, guardian, history>>

\* A request or a turn of the service's main loop whose only effect on the
\* state is expire().
ExpireTick ==
    /\ Expire(state) # state
    /\ Dispatch(Expire(state))
    /\ UNCHANGED aged

Start(s, p) ==
    LET m == Expire(state) IN
    /\ ~m.stopping
    /\ Cardinality(Present(m)) < MaxSessions
    /\ s \notin Present(m)
    /\ Dispatch([m EXCEPT !.sessions[s] = [status |-> "active", profile |-> p]])
    /\ aged' = aged \ {s}

Stop(s) ==
    LET m == Expire(state) IN
    /\ ~m.stopping
    /\ m.sessions[s].status = "active"
    /\ Dispatch(StopSessions(m, {s}, "stopped"))
    /\ UNCHANGED aged

NoMatter(m, s) == TRUE                  \* wrong: resume beside a reservation
Quiescent(m, s) ==
    \A o \in Operations : Active(m, o) => m.operations[o].session # s

Resume(s, p) ==
    LET m == Expire(state) IN
    /\ ~m.stopping
    /\ m.sessions[s].status \notin {"absent", "active"}
    /\ Quiescent(m, s)
    /\ Dispatch([m EXCEPT !.sessions[s] = [status |-> "active", profile |-> p]])
    /\ aged' = aged \ {s}

OnlyActive(m, s) == m.sessions[s].status = "active"   \* wrong: orphans details
Retained(m, s) ==
    \/ m.sessions[s].status = "active"
    \/ \E o \in Operations : m.operations[o].session = s

\* Which finished operations are the oldest depends on the clock: any set.
Prune(R) ==
    LET m == Expire(state)
        kept == [m EXCEPT !.operations = [o \in Operations |->
                    IF o \in R THEN NoOperation ELSE m.operations[o]]] IN
    /\ ~m.stopping
    /\ R \subseteq {o \in Details(m) : ~Active(m, o)}
    /\ Dispatch([kept EXCEPT !.sessions = [s \in Sessions |->
            IF Retained(kept, s) THEN m.sessions[s] ELSE NoSessionRecord]])
    /\ UNCHANGED aged

\* A Shutdown request or a termination signal that stops a session: the stop
\* is recorded, hence persisted.
Terminate ==
    LET m == Shutdown(Expire(state)) IN
    /\ ~state.stopping
    /\ m.sessions # state.sessions
    /\ Dispatch(m)
    /\ UNCHANGED aged

\* A failing accept() shuts down without a write, and so does a request or a
\* signal that finds no session to stop: nothing was recorded.
TerminateUnwritten ==
    /\ up /\ ~state.stopping
    /\ state' = Shutdown(state)
    /\ UNCHANGED <<up, aged, thread, guardian, durable, history, faults>>

-----------------------------------------------------------------------------
(* Run: reserve, launch, relay the guardian's frames, finish, answer.      *)

\* The session's TTL passes.
Age(s) ==
    /\ up
    /\ state.sessions[s].status = "active" /\ s \notin aged
    /\ aged' = aged \union {s}
    /\ UNCHANGED <<up, state, thread, guardian, durable, history, faults>>

UsedDetails(m) == Details(m)            \* wrong: pruned ids can be reused
Used(m) == m.used_operations

Running(m) == {o \in Operations : Active(m, o)}

Postponed(m) == UNCHANGED <<durable, faults>>   \* wrong: left to a later write
PersistReservation(m) == PersistOk(m)

\* expire() then reserve(); the client thread goes on only if the reservation
\* was persisted.
Reserve(o, s, a) ==
    LET m == Expire(state)
        reserved == [m EXCEPT
            !.used_operations = @ \union {o},
            !.operations[o] = [status |-> "reserved", session |-> s,
                               control |-> FALSE]] IN
    /\ up
    /\ o \notin Used(m)
    /\ m.sessions[s].status = "active" /\ ~m.stopping
    /\ <<m.sessions[s].profile, a>> \in Allows
    /\ Cardinality(m.used_operations) < MaxUsed
    /\ Cardinality(Details(m)) < MaxOperations
    /\ Cardinality(Running(m)) < MaxRunning
    /\ \/ /\ PersistReservation(reserved)
          /\ state' = reserved
          /\ thread' = [thread EXCEPT ![o] = [pc |-> "launch", session |-> s,
                                             argv |-> a, result |-> "none"]]
       \/ /\ PersistErr(reserved)
          /\ state' = FailClosed(reserved)
          /\ UNCHANGED thread
    /\ UNCHANGED <<up, aged, guardian, history>>

\* A critical section that calls expire() and persists nothing: a Run that
\* reserve() refuses, a Resolved frame given to cache_resolved().
ExpireOnly ==
    /\ up
    /\ Expire(state) # state
    /\ state' = Expire(state)
    /\ UNCHANGED <<up, aged, thread, guardian, durable, history, faults>>

\* The second critical section of a refused Run or Shell: the denial row,
\* whose failure stops the service, then persist().
Deny ==
    /\ Dispatch(state) \/ Dispatch(FailClosed(state))
    /\ UNCHANGED aged

GivesUp(o) == [thread EXCEPT ![o] = Idle]       \* wrong: nothing is finished
GoesOnToFail(o) == [thread EXCEPT ![o].pc = "failing"]

LaunchStale == state                    \* wrong: the TTL is not looked at again
LaunchState == Expire(state)

\* launch() under the state lock, in the order of its early returns.
LaunchRefused(o) ==
    LET m == LaunchState IN
    /\ thread[o].pc = "launch"
    /\ m.sessions[thread[o].session].status # "active" \/ m.stopping
    /\ state' = m
    /\ thread' = GoesOnToFail(o)
    /\ UNCHANGED <<up, aged, guardian, durable, history, faults>>

\* persist() fails, or succeeds and no guardian can be spawned.
LaunchFailed(o) ==
    LET m == LaunchState IN
    /\ thread[o].pc = "launch"
    /\ m.sessions[thread[o].session].status = "active" /\ ~m.stopping
    /\ Commit(m)
    /\ thread' = [thread EXCEPT ![o].pc = "failing"]
    /\ UNCHANGED <<up, aged, guardian, history>>

Launch(o) ==
    LET m == LaunchState
        s == thread[o].session IN
    /\ thread[o].pc = "launch"
    /\ m.sessions[s].status = "active" /\ ~m.stopping
    /\ PersistOk(m)
    /\ state' = [m EXCEPT !.operations[o].status = "running",
                          !.operations[o].control = TRUE]
    /\ guardian' = [guardian EXCEPT ![o] =
                        [phase |-> "live", session |-> s,
                         profile |-> m.sessions[s].profile,
                         argv |-> thread[o].argv, result |-> "none"]]
    /\ launches' = [launches EXCEPT ![o] = @ + 1]
    /\ thread' = [thread EXCEPT ![o].pc = "relay"]
    /\ UNCHANGED <<up, aged, told>>

\* The guardian's control pipe is at end of file: the service took its end,
\* or the process that held it is gone.
Cancelled(o) == ~up \/ ~state.operations[o].control

\* The command exits, fails to start, is cancelled or times out, or the
\* guardian itself dies: its last frame is in the output pipe.
GuardianEnds(o) ==
    /\ guardian[o].phase = "live"
    /\ \E r \in Results :
         guardian' = [guardian EXCEPT ![o].phase = "ended", ![o].result = r]
    /\ UNCHANGED <<up, state, aged, thread, durable, history, faults>>

Outcome(result) ==
    CASE result = "zero" -> "succeeded"
      [] result = "lost" -> "unknown"
      [] OTHER -> "failed"

\* finish(): the final status, the control pipe dropped, then persist().
Finished(m, o, status) ==
    IF m.operations[o].status = "absent" THEN m ELSE
    [m EXCEPT !.operations[o].status = status, !.operations[o].control = FALSE]

FinishUnlaunched(o) ==
    /\ thread[o].pc = "failing"
    /\ Commit(Finished(state, o, "failed"))
    /\ thread' = [thread EXCEPT ![o].pc = "answer", ![o].result = "error"]
    /\ UNCHANGED <<up, aged, guardian, history>>

Finish(o) ==
    /\ thread[o].pc = "relay"
    /\ guardian[o].phase = "ended"
    /\ Commit(Finished(state, o, Outcome(guardian[o].result)))
    /\ thread' = [thread EXCEPT ![o].pc = "answer",
                                ![o].result = guardian[o].result]
    /\ UNCHANGED <<up, aged, guardian, history>>

ResponseUnchecked(result) == result     \* wrong: journal_failed is not read
\* The final frame.  An exit code is sent only if journal_failed, read under
\* the lock a second time, is still unset.
Response(result) ==
    IF result \in {"error", "lost"} THEN result
    ELSE IF state.journal_failed THEN "lost" ELSE result

Answer(o) ==
    /\ thread[o].pc = "answer"
    /\ told' = [told EXCEPT ![o] = Response(thread[o].result)]
    /\ thread' = [thread EXCEPT ![o] = Idle]
    /\ UNCHANGED <<up, state, aged, guardian, durable, launches, faults>>

-----------------------------------------------------------------------------
(* The process: crash, exit at the end of the drain, restart. *)

Gone ==
    /\ up /\ up' = FALSE
    /\ state' = EmptyState
    /\ aged' = {}
    /\ thread' = [o \in Operations |-> Idle]
    /\ UNCHANGED <<guardian, durable, history>>

Crash == Gone /\ faults < MaxFaults /\ faults' = faults + 1

\* serve() returns when nothing is active, or after five seconds anyway: the
\* deadline may pass at any moment, whatever is still active.
Exit == state.stopping /\ Gone /\ UNCHANGED faults

\* Analytics::open, load, rebuild, persist: a failure leaves no service.
Recover ==
    LET m == Recovered(journal) IN
    /\ ~up /\ Loadable(journal)
    /\ \/ /\ up' = TRUE /\ state' = m
          /\ journal' = Snapshot(m)
          /\ analytics' = Upsert(MarkUnknown(analytics), m)
          /\ UNCHANGED faults
       \/ /\ UNCHANGED <<up, state>>
          /\ faults < MaxFaults /\ faults' = faults + 1
          /\ journal' \in {journal, Snapshot(m)}
          /\ analytics' = MarkUnknown(analytics)
    /\ UNCHANGED <<aged, thread, guardian, history>>

-----------------------------------------------------------------------------
Init ==
    /\ up = FALSE
    /\ state = EmptyState
    /\ aged = {}
    /\ thread = [o \in Operations |-> Idle]
    /\ guardian = [o \in Operations |-> NoGuardian]
    /\ journal = Snapshot(EmptyState)
    /\ analytics = [o \in Operations |-> "absent"]
    /\ told = [o \in Operations |-> "none"]
    /\ launches = [o \in Operations |-> 0]
    /\ faults = 0

Requests ==
    \/ ExpireTick \/ Terminate \/ TerminateUnwritten \/ Deny \/ ExpireOnly
    \/ \E s \in Sessions, p \in Profiles : Start(s, p) \/ Resume(s, p)
    \/ \E s \in Sessions : Stop(s) \/ Age(s)
    \/ \E R \in SUBSET Operations : Prune(R)
    \/ \E o \in Operations, s \in Sessions, a \in Commands : Reserve(o, s, a)

Launching(o) == LaunchRefused(o) \/ LaunchFailed(o) \/ Launch(o)
Finishing(o) == FinishUnlaunched(o) \/ Finish(o)

Next ==
    \/ Requests
    \/ \E o \in Operations :
         Launching(o) \/ GuardianEnds(o) \/ Finishing(o) \/ Answer(o)
    \/ Crash \/ Exit \/ Recover

Spec == Init /\ [][Next]_vars

(* A handler thread keeps running, and a guardian whose control pipe closed *)
(* ends its command (TERM, then KILL).  Nothing obliges a client, a restart *)
(* or a command that was not cancelled.                                     *)
Fairness ==
    \A o \in Operations :
        /\ WF_vars(Launching(o)) /\ WF_vars(Finishing(o)) /\ WF_vars(Answer(o))
        /\ WF_vars(Cancelled(o) /\ GuardianEnds(o))

FairSpec == Spec /\ Fairness
-----------------------------------------------------------------------------
(* Properties *)

\* Types of the state, of both stores and of the history variables.
TypeOK ==
    /\ up \in BOOLEAN
    /\ state \in State
    /\ aged \subseteq Sessions
    /\ thread \in [Operations -> Thread]
    /\ guardian \in [Operations -> Guardian]
    /\ journal \in Saved
    /\ analytics \in [Operations -> OperationStatus]
    /\ told \in [Operations -> Results \union {"none"}]
    /\ launches \in [Operations -> Nat]
    /\ faults \in 0 .. MaxFaults

\* An operation id starts at most one guardian, through duplicated requests,
\* pruning, failed writes, crashes and restarts (reserve, recover).
LaunchedOnce == \A o \in Operations : launches[o] <= 1

\* What was launched is reserved on disk, now and for ever: neither a crash nor
\* history pruning nor a failed journal write frees the id (reserve, launch).
ReservedBeforeLaunch ==
    \A o \in Operations : launches[o] > 0 => o \in journal.used_operations

\* No guardian was ever given an argv its profile does not approve, although
\* reserve() authorizes under one profile and launch() reads the profile again
\* in another critical section (stop and resume may come between).
RunsAuthorized ==
    \A o \in Operations :
        guardian[o].phase # "none" =>
            <<guardian[o].profile, guardian[o].argv>> \in Allows

\* An open control pipe belongs to a running operation of an active session
\* that still has the profile the guardian was given (stop_session, resume).
PipeFollowsSession ==
    \A o \in Operations : state.operations[o].control =>
        LET s == state.operations[o].session IN
        /\ state.operations[o].status = "running"
        /\ state.sessions[s].status = "active"
        /\ guardian[o].session = s
        /\ guardian[o].profile = state.sessions[s].profile

\* A client that was sent an exit code finds that outcome, or a pruned record,
\* in the journal of every later service, and in the analytics (run_operation
\* reads journal_failed in a critical section after finish()).
AnswerIsDurable ==
    \A o \in Operations : told[o] \in {"zero", "nonzero"} =>
        /\ journal.operations[o].status \in {Outcome(told[o]), "absent"}
        /\ analytics[o] = Outcome(told[o])

\* recover() never rejects a journal the service itself wrote.
JournalLoadable == Loadable(journal)

\* While no write has failed, every operation of the journal has the journal's
\* status in the analytics (persist writes one store after the other).
StoresAgree ==
    up /\ ~state.journal_failed =>
        \A o \in Operations :
            LET kept == journal.operations[o].status IN
            kept # "absent" => analytics[o] = kept

\* An unfinished operation has a thread that will finish it; the exception is
\* the reservation whose persist() failed, in a service that is going away.
NobodyForgotten ==
    \A o \in Operations :
        Active(state, o) /\ thread[o].pc = "idle" =>
            state.journal_failed /\ state.stopping

\* A control pipe closes only because its operation finished, its session is no
\* longer active or the process is gone: stopping or expiring one session never
\* cancels the commands of another.
PipesCloseForAReason ==
    [][\A o \in Operations :
        state.operations[o].control /\ ~state'.operations[o].control =>
            \/ ~up'
            \/ state'.operations[o].status \in Final
            \/ state'.sessions[state.operations[o].session].status # "active"]_vars

\* A guardian starts only in an active session whose TTL has not passed, in a
\* service that is not stopping and has lost no write (launch calls expire).
LaunchesInTime ==
    [][\A o \in Operations : launches'[o] # launches[o] =>
        LET s == thread[o].session IN
        /\ state'.sessions[s].status = "active" /\ s \notin aged
        /\ ~state'.stopping /\ ~state'.journal_failed]_vars

\* Once its session is not active any more, or its service is gone, a running
\* command comes to an end.
StopEndsCommands ==
    \A o \in Operations :
        (/\ guardian[o].phase = "live"
         /\ ~up \/ state.sessions[guardian[o].session].status # "active")
        ~> guardian[o].phase = "ended"

\* Every operation a thread works on in a session that is not active gets its
\* final status, unless the service goes away.
StopSettlesOperations ==
    \A o \in Operations :
        (/\ thread[o].pc # "idle"
         /\ state.sessions[thread[o].session].status # "active")
        ~> (~up \/ ~Active(state, o))

-----------------------------------------------------------------------------
(* What the service implements: the ledger's claims are the ids of the     *)
(* journal, its outcomes the journal's, its executions the guardians.      *)
OutcomeOf(status, used) ==
    IF ~used \/ status \in Unfinished THEN "pending"
    ELSE IF status = "absent" THEN "forgotten" ELSE status
LedgerOutcome(o) ==
    OutcomeOf(journal.operations[o].status, o \in journal.used_operations)

Promise == INSTANCE Ledger WITH
    claimed <- journal.used_operations,
    outcome <- [o \in Operations |-> LedgerOutcome(o)],
    executed <- launches,
    told <- [o \in Operations |->
                IF told[o] \in {"zero", "nonzero"} THEN told[o] ELSE "none"]

\* Every behaviour of the service is one the ledger allows.
ImplementsLedger == Promise!Spec
-----------------------------------------------------------------------------
(* The inductive invariants of the proofs (ServiceProofs). *)

\* Why an id is launched once: handler threads belong to the process; what is
\* on disk is reserved in memory too; a thread about to launch has its id on
\* disk, not launched before.
OnceInv ==
    /\ \A o \in Operations : thread[o].pc # "idle" => up
    /\ up => journal.used_operations \subseteq state.used_operations
    /\ \A o \in Operations : thread[o].pc = "launch" =>
            o \in journal.used_operations /\ launches[o] = 0
    /\ ReservedBeforeLaunch
    /\ LaunchedOnce

\* Why commands follow their sessions: in a state m with the threads t and the
\* guardians g, the operation of a thread before finish() is unfinished and of
\* the thread's session, a thread about to launch has an approved argv (no
\* resume changes the profile beside it), and an open pipe is that of a thread
\* that relays, in an active session its guardian knows.
SessionOf(m, o) == m.sessions[m.operations[o].session]
Working(t, o) == t[o].pc \in {"launch", "failing", "relay"}
Agrees(m, t, g, o) ==
    /\ t[o].pc # "idle" => o \in m.used_operations
    /\ Working(t, o) =>
        /\ Active(m, o) /\ m.operations[o].session = t[o].session
        /\ SessionOf(m, o).status # "absent"
    /\ t[o].pc = "launch" => <<SessionOf(m, o).profile, t[o].argv>> \in Allows
    /\ m.operations[o].control =>
        /\ t[o].pc = "relay" /\ m.operations[o].status = "running"
        /\ SessionOf(m, o).status = "active"
        /\ g[o].session = m.operations[o].session
        /\ g[o].profile = SessionOf(m, o).profile
Consistent(m, t, g) ==
    /\ m.journal_failed => m.stopping
    /\ \A o \in Operations : Agrees(m, t, g, o)

\* Every unfinished operation of m is one of a thread before finish(), in a
\* service that is not going away for a failed write.
Covered(m, t) ==
    \A o \in Operations :
        Active(m, o) => Working(t, o) \/ (m.journal_failed /\ m.stopping)

SessionInv ==
    /\ Consistent(state, thread, guardian) /\ Covered(state, thread)
    /\ \A o \in Operations : thread[o].pc # "idle" => up
    /\ RunsAuthorized

\* What a row of the analytics may say while memory or a journal has status.
Behind(row, status) ==
    \/ row \in {"absent"} \union Unfinished
    \/ status \in {"absent", row}
    \/ row = "unknown" /\ status \in Final

Exits == {"zero", "nonzero"}
Stands(o, result) ==
    /\ LedgerOutcome(o) \in {"forgotten", Outcome(result)}
    /\ analytics[o] = Outcome(result)

\* Why records are final: the journal is behind the memory of the process that
\* serves it, and the analytics behind both.
MemoryAhead ==
    up => \A o \in Operations :
        LET status == state.operations[o].status IN
        /\ Promise!Advances(LedgerOutcome(o), OutcomeOf(status, o \in state.used_operations))
        /\ Behind(analytics[o], status)
JournalAhead ==
    \A o \in Operations : analytics[o] \in {"succeeded", "failed"} =>
        journal.operations[o].status \in {"absent", analytics[o]}

\* The id of a row, of an answer and of a thread is on disk.
OnDisk ==
    \A o \in Operations :
        analytics[o] # "absent" \/ told[o] # "none" \/ thread[o].pc # "idle" =>
            o \in journal.used_operations

\* A thread has not answered yet, and only what was launched has an exit code;
\* one that was sent, or still may be, stands.
AnswersStand ==
    \A o \in Operations :
        LET exited == thread[o].pc = "answer" /\ thread[o].result \in Exits IN
        /\ thread[o].pc # "idle" => told[o] = "none"
        /\ (thread[o].pc = "relay" \/ exited \/ told[o] \in Exits) => launches[o] = 1
        /\ told[o] \in Exits => Stands(o, told[o])
        /\ exited /\ ~state.journal_failed => Stands(o, thread[o].result)

RecordInv == MemoryAhead /\ JournalAhead /\ OnDisk /\ AnswersStand /\ StoresAgree

\* Why a journal can be loaded: so could the one that memory is about to become.
Loads(saved) ==
    /\ Loadable(saved)
    /\ IsFiniteSet({s \in Sessions : saved.sessions[s] # "absent"})
    /\ IsFiniteSet({o \in Operations : saved.operations[o].status # "absent"})
    /\ IsFiniteSet(saved.used_operations)
LoadInv == Loads(journal) /\ (up => Loads(Snapshot(state)))
=============================================================================
