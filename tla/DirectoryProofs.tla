--------------------------- MODULE DirectoryProofs ---------------------------
(***************************************************************************)
(* Theorems about the state directory: the journal file it holds, for any  *)
(* number of saves, failures and crashes (Journal), and the services that  *)
(* want to own it, for any number of services and operations (Ownership).  *)
(***************************************************************************)
EXTENDS Journal, Ownership, TLAPS

-----------------------------------------------------------------------------
(* The journal file *)

\* The type invariant is inductive.
LEMMA JournalType == SaveTypeOK /\ [SaveNext]_saveVars => SaveTypeOK'
  <1> SUFFICES ASSUME SaveTypeOK, [SaveNext]_saveVars PROVE SaveTypeOK'
    OBVIOUS
  <1> USE JournalAssumption
  <1>1. CASE Recover
    BY <1>1 DEF Recover, Loaded, SaveTypeOK, Contents
  <1>2. CASE Begin
    BY <1>2 DEF Begin, AfterError, SaveTypeOK, Snapshots
  <1>3. CASE Create \/ Write \/ Sync
    BY <1>3 DEF Create, Write, Sync, Synced, SaveTypeOK
  <1>4. CASE Rename
    BY <1>4 DEF Rename, SaveTypeOK, Contents
  <1>5. CASE SyncDirectory
    BY <1>5 DEF SyncDirectory, Settled, Saved, AfterError, SaveTypeOK
  <1>6. CASE Fail
    BY <1>6 DEF Fail, AfterError, SaveTypeOK
  <1>7. CASE ProcessEnds \/ PowerLoss
    BY <1>7 DEF ProcessEnds, PowerLoss, CutShort, SaveTypeOK
  <1>8. CASE UNCHANGED saveVars
    BY <1>8 DEF saveVars, SaveTypeOK
  <1> QED BY <1>1, <1>2, <1>3, <1>4, <1>5, <1>6, <1>7, <1>8 DEF SaveNext

\* Every start, every step of save(), every failure and every crash keeps SaveInv.
LEMMA JournalStep == SaveTypeOK /\ SaveInv /\ [SaveNext]_saveVars => SaveInv'
  <1> SUFFICES ASSUME SaveTypeOK, SaveInv, [SaveNext]_saveVars PROVE SaveInv'
    OBVIOUS
  <1> USE JournalAssumption DEF SaveTypeOK, SaveInv, Snapshots, Contents, LoadedSurvives
  <1>t. /\ \A v \in after : v \in Nat
        /\ view \in Nat /\ view \in after
    OBVIOUS
  <1>1. CASE Recover
    <2>1. /\ UNCHANGED <<step, attempt, temp, view, after, acked>>
          /\ loaded' = view /\ step = "idle"
      BY <1>1 DEF Recover
    <2>2. CASE view = 0
      <3>1. service' = "serving" /\ \A v \in after : loaded' <= v
        BY <1>1, <1>t, <2>1, <2>2 DEF Recover, Loaded
      <3> QED BY <2>1, <3>1
    <2>3. CASE view # 0
      <3>1. service' = "recovering"
        BY <1>1, <2>3 DEF Recover, Loaded
      <3> QED BY <1>t, <2>1, <3>1
    <2> QED BY <2>2, <2>3
  <1>2. CASE Begin
    <2>1. /\ UNCHANGED <<temp, view, after, acked, loaded>>
          /\ attempt' = attempt + 1 /\ step = "idle" /\ service # "down"
          /\ \/ step' = "create" /\ service' = service
             \/ step' = "idle" /\ service' \in {service, "down"}
      BY <1>2 DEF Begin, AfterError
    <2>2. view <= attempt'
      BY <1>t, <2>1
    <2> QED BY <1>t, <2>1, <2>2
  <1>3. CASE Create \/ Write \/ Sync
    BY <1>3 DEF Create, Write, Sync, Synced
  <1>4. CASE Rename
    <2>1. after' = after \union {attempt} /\ view' = attempt
      BY <1>4 DEF Rename
    <2>2. acked <= attempt /\ \A v \in after : v <= attempt
      BY <1>t
    <2>3. loaded <= attempt \/ service = "down"
      BY <1>t
    <2> QED BY <1>4, <1>t, <2>1, <2>2, <2>3 DEF Rename
  <1>5. CASE SyncDirectory
    <2>1. loaded <= view
      BY <1>5, <1>t DEF SyncDirectory
    <2>2. /\ UNCHANGED <<attempt, temp, view, loaded>>
          /\ after' = {view} /\ acked' = view /\ step' = "idle"
      BY <1>5 DEF SyncDirectory, Settled, Saved
    <2>3. service' # "down" \/ step' = "idle"
      BY <2>2
    <2> QED BY <1>5, <1>t, <2>1, <2>2, <2>3 DEF SyncDirectory
  <1>6. CASE Fail
    BY <1>6, <1>t DEF Fail, AfterError
  <1>7. CASE ProcessEnds
    BY <1>7 DEF ProcessEnds, CutShort
  <1>8. CASE PowerLoss
    <2>1. /\ UNCHANGED <<attempt, acked>> /\ service' = "down"
          /\ step' = "idle" /\ temp' = "none"
          /\ view' \in after /\ after' = {view'}
      BY <1>8 DEF PowerLoss, CutShort
    <2>2. acked <= view' /\ view' <= view
      BY <2>1
    <2>3. view' <= attempt
      BY <1>t, <2>1, <2>2
    <2> QED BY <1>t, <2>1, <2>2, <2>3
  <1>9. CASE UNCHANGED saveVars
    BY <1>9 DEF saveVars
  <1> QED BY <1>1, <1>2, <1>3, <1>4, <1>5, <1>6, <1>7, <1>8, <1>9 DEF SaveNext

\* Nothing is saved yet.
LEMMA JournalInit == SaveInit => SaveTypeOK /\ SaveInv
  BY JournalAssumption
  DEF SaveInit, SaveTypeOK, SaveInv, LoadedSurvives, Snapshots, Contents

\* Whatever fails or crashes, the state of a save keeps its type and SaveInv.
THEOREM SaveInvariant == SaveSpec => [](SaveTypeOK /\ SaveInv)
  BY JournalInit, JournalType, JournalStep, PTL DEF SaveSpec

\* The variables of a save keep their types.
THEOREM JournalTypeCorrect == SaveSpec => []SaveTypeOK
  BY SaveInvariant, PTL

\* load() finds a whole journal, never older than the last acknowledged one.
THEOREM AcknowledgedSurvives == SaveSpec => []AckedSurvives
  <1>1. SaveInv => AckedSurvives
    BY DEF SaveInv, AckedSurvives
  <1> QED BY <1>1, SaveInvariant, PTL

\* A service that serves has made what it started from durable.
THEOREM ServedFromDurable == SaveSpec => []LoadedSurvives
  <1>1. SaveInv => LoadedSurvives
    BY DEF SaveInv
  <1> QED BY <1>1, SaveInvariant, PTL

-----------------------------------------------------------------------------
(* The owner of the directories *)

\* listener() keeps OwnerInv.
LEMMA OpeningStep ==
    ASSUME OwnerInv, NEW i \in Instances, Opening(i)
    PROVE OwnerInv'
  <1> USE OwnershipAssumption DEF OwnerInv, LocksHeld, SocketReachesOwner,
          ServesTheJournal, Goes, Released, Live, locks
  <1>1. CASE TakeLock(i)
    BY <1>1 DEF TakeLock, ServiceLockFree
  <1>2. CASE CheckSocket(i)
    BY <1>2 DEF CheckSocket
  <1>3. CASE RemoveStale(i)
    BY <1>3 DEF RemoveStale
  <1>4. CASE Bind(i)
    BY <1>4 DEF Bind
  <1>5. CASE OpenDatabase(i)
    BY <1>5 DEF OpenDatabase, DatabaseFree
  <1>6. CASE Load(i)
    <2>1. CASE memory' = [memory EXCEPT ![i] = journal] /\ Goes(i, "serving")
      <3>1. \A j \in Instances : pc[j] = "serving" => j = i
        BY <1>6 DEF Load
      <3>2. UNCHANGED <<locks, socket, busy, journal, starter>>
        BY <1>6, <2>1 DEF Load
      <3>3. journal \subseteq Ids
        BY <1>6 DEF Load
      <3> QED BY <1>6, <2>1, <3>1, <3>2, <3>3 DEF Load
    <2>2. CASE /\ Goes(i, "closing") /\ database_lock' = Released(database_lock, i)
               /\ UNCHANGED memory
      BY <1>6, <2>2 DEF Load
    <2> QED BY <1>6, <2>1, <2>2 DEF Load
  <1> QED BY <1>1, <1>2, <1>3, <1>4, <1>5, <1>6 DEF Opening

\* The end of serve(), a request to shut down and the start of a process keep it.
LEMMA ClosingStep ==
    ASSUME OwnerInv, NEW i \in Instances, Closing(i) \/ Shutdown(i) \/ Serve(i)
    PROVE OwnerInv'
  <1> USE OwnershipAssumption DEF OwnerInv, LocksHeld, SocketReachesOwner,
          ServesTheJournal, Goes, Released, Dies, locks
  <1>1. CASE Drained(i)
    BY <1>1 DEF Drained
  <1>2. CASE RemoveSocket(i)
    BY <1>2 DEF RemoveSocket
  <1>3. CASE Unlock(i)
    BY <1>3 DEF Unlock
  <1>4. CASE Exit(i)
    BY <1>4 DEF Exit
  <1>5. CASE Shutdown(i)
    BY <1>5 DEF Shutdown
  <1>6. CASE Serve(i)
    BY <1>6 DEF Serve
  <1> QED BY <1>1, <1>2, <1>3, <1>4, <1>5, <1>6 DEF Closing

\* A process that dies leaves its socket and nothing else.
LEMMA Died ==
    ASSUME OwnerInv, NEW i \in Instances, Live(i), Dies(i),
           UNCHANGED <<socket, memory, journal>>,
           starter' \in Starter,
           starter'.pc = "polling" => starter'.child \in Instances
    PROVE OwnerInv'
  BY OwnershipAssumption DEF OwnerInv, LocksHeld, SocketReachesOwner,
     ServesTheJournal, Goes, Released, Dies, Live

\* A reservation and the end of an operation keep OwnerInv: only the holder of
\* the database lock writes the journal.
LEMMA JournalWritten ==
    ASSUME OwnerInv, NEW i \in Instances, NEW o \in Ids,
           Reserve(i, o) \/ Finish(i, o)
    PROVE OwnerInv'
  <1> USE OwnershipAssumption DEF OwnerInv, LocksHeld, SocketReachesOwner,
          ServesTheJournal, Released, Live, locks
  <1>1. CASE Reserve(i, o)
    <2>1. \A j \in Instances : pc[j] = "serving" => j = i
      BY <1>1 DEF Reserve
    <2>2. memory'[i] = journal' /\ UNCHANGED <<pc, locks, socket, starter>>
      BY <1>1 DEF Reserve
    <2>3. /\ memory' \in [Instances -> SUBSET Ids] /\ busy' \in [Instances -> SUBSET Ids]
          /\ \A j \in Instances : j # i => busy'[j] = busy[j]
      BY <1>1 DEF Reserve
    <2>4. pc[i] = "serving"
      BY <1>1 DEF Reserve
    <2> QED BY <2>1, <2>2, <2>3, <2>4
  <1>2. CASE Finish(i, o)
    <2>1. database_lock = i /\ \A j \in Instances : pc[j] = "serving" => j = i
      BY <1>2 DEF Finish
    <2>2. /\ journal' = memory[i] /\ UNCHANGED <<pc, service_lock, socket, memory, starter>>
          /\ busy' \in [Instances -> SUBSET Ids]
          /\ \A j \in Instances : j # i => busy'[j] = {}
          /\ pc[i] \notin {"absent", "starting", "locked", "stale", "unbound", "bound",
                           "opened", "gone"}
      BY <1>2, <2>1 DEF Finish
    <2>3. \/ database_lock' = i
          \/ busy'[i] = {} /\ pc[i] \in {"closing", "unlinked", "exiting"}
      BY <1>2, <2>1 DEF Finish
    <2>4. \A j \in Instances : j # i => pc[j] \notin {"opened", "serving", "draining"}
      BY <2>1
    <2> QED BY <2>1, <2>2, <2>3, <2>4
  <1> QED BY <1>1, <1>2

\* `service start' keeps OwnerInv.
LEMMA StartStep == OwnerInv /\ Start => OwnerInv'
  <1> SUFFICES ASSUME OwnerInv, Start PROVE OwnerInv'
    OBVIOUS
  <1>1. CASE StartTimesOut
    <2>1. /\ starter' = [starter EXCEPT !.pc = "failed"]
          /\ starter.child \in Instances /\ UNCHANGED <<socket, memory, journal>>
      BY <1>1 DEF StartTimesOut, Steps, OwnerInv
    <2>2. /\ starter' \in Starter
          /\ starter'.pc # "polling"
      BY <2>1 DEF OwnerInv, Starter
    <2>3. CASE Live(starter.child)
      BY <1>1, <2>1, <2>2, <2>3, Died DEF StartTimesOut
    <2>4. CASE ~Live(starter.child)
      BY <1>1, <2>1, <2>2, <2>4 DEF StartTimesOut, OwnerInv, LocksHeld,
            SocketReachesOwner, ServesTheJournal, locks
    <2> QED BY <2>3, <2>4
  <1> USE OwnershipAssumption DEF OwnerInv, LocksHeld, SocketReachesOwner,
          ServesTheJournal, Starter, Goes, Steps, Answers, locks
  <1>2. CASE StartPings \/ StartAsks
    BY <1>2 DEF StartPings, StartAsks
  <1>3. CASE StartWaits \/ StartSucceeds \/ StartFails
    BY <1>3 DEF StartWaits, StartSucceeds, StartFails
  <1>4. ASSUME NEW i \in Instances, StartSpawns(i) PROVE OwnerInv'
    BY <1>4 DEF StartSpawns
  <1> QED BY <1>1, <1>2, <1>3, <1>4 DEF Start

\* OwnerInv is inductive.
LEMMA OwnerStep == OwnerInv /\ [Next]_vars => OwnerInv'
  <1> SUFFICES ASSUME OwnerInv, [Next]_vars PROVE OwnerInv'
    OBVIOUS
  <1>1. ASSUME NEW i \in Instances, Crash(i) PROVE OwnerInv'
    <2>1. Live(i) /\ Dies(i) /\ UNCHANGED <<socket, memory, journal, starter>>
      BY <1>1 DEF Crash
    <2>2. /\ starter' \in Starter
          /\ starter'.pc = "polling" => starter'.child \in Instances
      BY <2>1 DEF OwnerInv
    <2> QED BY <2>1, <2>2, Died
  <1>2. CASE UNCHANGED vars
    BY <1>2 DEF vars, locks, OwnerInv, LocksHeld, SocketReachesOwner, ServesTheJournal
  <1> QED BY <1>1, <1>2, OpeningStep, ClosingStep, JournalWritten, StartStep DEF Next

\* No process has been started yet.
LEMMA OwnerInit == Init => OwnerInv
  BY DEF Init, OwnerInv, Starter, LocksHeld, SocketReachesOwner, ServesTheJournal

\* However services start, drain, crash and are killed, who acts has the lock.
THEOREM OwnerInvariant == Spec => []OwnerInv
  BY OwnerInit, OwnerStep, PTL DEF Spec

\* The socket file of a serving process is its own.
THEOREM SocketIsOwned == Spec => []SocketReachesOwner
  <1>1. OwnerInv => SocketReachesOwner
    BY DEF OwnerInv
  <1> QED BY <1>1, OwnerInvariant, PTL

\* A serving process knows every operation that is reserved on disk.
THEOREM JournalIsServed == Spec => []ServesTheJournal
  <1>1. OwnerInv => ServesTheJournal
    BY DEF OwnerInv
  <1> QED BY <1>1, OwnerInvariant, PTL
=============================================================================
