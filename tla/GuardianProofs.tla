--------------------------- MODULE GuardianProofs ---------------------------
(* Theorems about Guardian, for any number of credentials and any bounds. *)
EXTENDS Guardian, TLAPS

\* What cleanup() leaves: nobody lives, no group, everything else as it was.
LEMMA CleanedUp ==
    ASSUME ProcessInv, proc' = CleanupProc, ps' = CleanupState
    PROVE /\ ps' \in ProcessState /\ proc' \in [Pids -> Process]
          /\ ps' = [ps EXCEPT !.group = 0]
          /\ \A n \in Pids :
                /\ ~proc'[n].others /\ proc'[n].leader # "alive"
                /\ proc'[n].escaped = proc[n].escaped
                /\ proc[n].leader # "alive" => proc'[n].leader = proc[n].leader
                /\ n # ps.group => proc'[n] = proc[n]
  <1>1. ps' \in ProcessState /\ ps' = [ps EXCEPT !.group = 0]
    BY DEF CleanupState, ProcessInv, ProcessState
  <1>2. CASE ps.group = 0
    BY <1>1, <1>2 DEF CleanupProc, Killed, ProcessInv, TrackedUntilDead, Alive, Pids, Process
  <1>3. CASE ps.group # 0
    <2>1. ps.group \in Pids
      BY <1>3 DEF ProcessInv, ProcessState
    <2>2. proc' = [proc EXCEPT ![ps.group] =
              [leader |-> IF @.leader = "alive" THEN "signal" ELSE @.leader,
               others |-> FALSE, escaped |-> @.escaped, sent |-> "kill"]]
      BY <1>3 DEF CleanupProc, Killed
    <2>3. proc' \in [Pids -> Process]
      BY <2>1, <2>2 DEF ProcessInv, Process, Codes
    <2>4. \A n \in Pids : n # ps.group => proc'[n] = proc[n] /\ ~Alive(n)
      BY <2>1, <2>2 DEF ProcessInv, TrackedUntilDead
    <2>5. /\ proc'[ps.group].leader # "alive" /\ ~proc'[ps.group].others
          /\ proc'[ps.group].escaped = proc[ps.group].escaped
          /\ proc[ps.group].leader # "alive" =>
                proc'[ps.group].leader = proc[ps.group].leader
      BY <2>1, <2>2 DEF ProcessInv
    <2>6. \A n \in Pids : proc[n].others \in BOOLEAN
      BY DEF ProcessInv, Process
    <2> QED BY <1>1, <2>3, <2>4, <2>5, <2>6 DEF Alive
  <1> QED BY <1>2, <1>3

\* What signal_tree() does to the current process, if there is one.
LEMMA GroupSignalled ==
    ASSUME ProcessInv, proc' \in {Notified(ps.group), Killed(ps.group)}
    PROVE /\ proc' \in [Pids -> Process]
          /\ \A n \in Pids : proc'[n].leader = "alive" \/ proc'[n].others => Alive(n)
          /\ \A n \in Pids : n # ps.group => proc'[n] = proc[n]
          /\ \A n \in Pids : proc'[n].escaped = proc[n].escaped
          /\ \A n \in Pids :
                proc[n].leader # "alive" => proc'[n].leader = proc[n].leader
          /\ ps.group # 0 => proc'[ps.group].sent # "nothing"
  <1>1. CASE ps.group = 0
    BY <1>1 DEF Notified, Killed, ProcessInv, Alive
  <1>2. CASE ps.group # 0
    <2>1. ps.group \in Pids /\ proc[ps.group] \in Process
      BY <1>2 DEF ProcessInv, ProcessState
    <2>2. CASE proc' = Notified(ps.group)
      BY <1>2, <2>1, <2>2 DEF Notified, ProcessInv, Process, Alive
    <2>3. CASE proc' = Killed(ps.group)
      BY <1>2, <2>1, <2>3 DEF Killed, ProcessInv, Process, Codes, Alive
    <2> QED BY <2>2, <2>3
  <1> QED BY <1>1, <1>2

\* Every way out of execute() keeps ProcessInv.
LEMMA Ended ==
    ASSUME ProcessInv, NEW r, End(r)
    PROVE ProcessInv'
  <1>1. /\ pc' = "done" /\ UNCHANGED <<left, last>>
        /\ proc' = CleanupProc /\ ps' = CleanupState
    BY DEF End
  <1>2. ps'.group = 0 /\ \A n \in Pids : n > last => n # ps.group
    BY <1>1, CleanedUp, GuardianAssumption
       DEF ProcessInv, OneAfterTheOther, ProcessState, Pids
  <1> QED BY <1>1, <1>2, CleanedUp DEF ProcessInv, OneAfterTheOther,
            TrackedUntilDead, CancelReachesEveryProcess, Cancelled, Alive

\* A process is spawned: the next one, when no other is left.
LEMMA SpawnedOne ==
    ASSUME ProcessInv, pc \in {"lookup", "spawn"}, MaySpawn, Spawned
    PROVE /\ last' = last + 1 /\ last' \in Pids /\ ps'.group = last'
          /\ ps' \in ProcessState /\ proc' \in [Pids -> Process]
          /\ \A n \in Pids : n > last' => proc'[n] = NewProcess
          /\ TrackedUntilDead' /\ CancelReachesEveryProcess'
          /\ ps' = [ps EXCEPT !.group = last + 1]
  <1> USE GuardianAssumption
  <1>1. last \in 0 .. MaxLookups /\ last + 1 \in Pids /\ last' = last + 1
    BY DEF ProcessInv, OneAfterTheOther, Spawned, Pids
  <1>2. ps' \in ProcessState /\ ps'.group = last' /\ ps' = [ps EXCEPT !.group = last + 1]
    BY <1>1 DEF ProcessInv, ProcessState, Spawned
  <1>3. proc[last + 1] = NewProcess
    BY <1>1 DEF ProcessInv, OneAfterTheOther
  <1>4. proc' = [proc EXCEPT ![last + 1] = [NewProcess EXCEPT !.leader = "alive"]]
    BY <1>1, <1>3 DEF Spawned, ProcessInv
  <1>5. proc' \in [Pids -> Process]
    BY <1>4 DEF ProcessInv, NewProcess, Process
  <1>6. \A n \in Pids : n > last' => proc'[n] = NewProcess
    BY <1>1, <1>4 DEF ProcessInv, OneAfterTheOther, Pids
  <1>7. \A n \in Pids : ~Alive(n)
    BY <1>1 DEF ProcessInv, OneAfterTheOther, TrackedUntilDead, Pids
  <1>8. TrackedUntilDead'
    BY <1>1, <1>2, <1>4, <1>7 DEF TrackedUntilDead, Alive, ProcessInv
  <1>9. CancelReachesEveryProcess'
    BY <1>2 DEF CancelReachesEveryProcess, Cancelled, MaySpawn, ProcessInv, ProcessState
  <1> QED BY <1>1, <1>2, <1>5, <1>6, <1>8, <1>9

\* cleanup() between two processes, or after the exit of one.
LEMMA CleanedState ==
    ASSUME ProcessInv, proc' = CleanupProc, ps' = CleanupState, UNCHANGED last
    PROVE /\ ps' \in ProcessState /\ proc' \in [Pids -> Process] /\ ps'.group = 0
          /\ \A n \in Pids : n > last' => proc'[n] = NewProcess
          /\ TrackedUntilDead' /\ CancelReachesEveryProcess'
  <1>1. ps'.group = 0 /\ \A n \in Pids : n > last => n # ps.group
    BY CleanedUp, GuardianAssumption
       DEF ProcessInv, OneAfterTheOther, ProcessState, Pids
  <1> QED BY <1>1, CleanedUp DEF ProcessInv, OneAfterTheOther,
            TrackedUntilDead, CancelReachesEveryProcess, Cancelled, Alive

\* Every step of the main thread keeps ProcessInv.
LEMMA MainStep == ProcessInv /\ Main => ProcessInv'
  <1> SUFFICES ASSUME ProcessInv, Main PROVE ProcessInv'
    OBVIOUS
  <1> USE GuardianAssumption
  <1>e. ASSUME Fail PROVE ProcessInv'
    BY <1>e, Ended DEF Fail
  <1>1. CASE Authorize
    <2>1. CASE pc' = "resolve" /\ UNCHANGED <<left, last, ps, proc>>
      BY <1>1, <2>1 DEF Authorize, ProcessInv, OneAfterTheOther, TrackedUntilDead,
            CancelReachesEveryProcess, Cancelled, Alive
    <2> QED BY <1>1, <1>e, <2>1 DEF Authorize
  <1>2. CASE Resolve
    <2>1. CASE /\ pc' \in {"spawn", "lookup"} /\ (pc' = "lookup" => left # 0)
               /\ UNCHANGED <<left, last, ps, proc>>
      BY <1>2, <2>1 DEF Resolve, ProcessInv, OneAfterTheOther, TrackedUntilDead,
            CancelReachesEveryProcess, Cancelled, Alive
    <2> QED BY <1>2, <1>e, <2>1 DEF Resolve
  <1>3. CASE SpawnProvider
    <2>1. CASE MaySpawn /\ Spawned /\ pc' = "provider" /\ UNCHANGED left
      <3>1. pc = "lookup"
        BY <1>3 DEF SpawnProvider
      <3>2. last' # 0 /\ last' + left' <= MaxLookups + 1 /\ left' # 0
        BY <2>1, <3>1, SpawnedOne DEF ProcessInv, OneAfterTheOther, Pids
      <3> QED BY <2>1, <3>1, <3>2, SpawnedOne DEF ProcessInv, OneAfterTheOther
    <2> QED BY <1>3, <1>e, <2>1 DEF SpawnProvider
  <1>4. CASE ProviderFails
    BY <1>4, <1>e DEF ProviderFails
  <1>5. CASE ProviderExits
    BY <1>5, CleanedState DEF ProviderExits, ProcessInv, OneAfterTheOther
  <1>6. CASE ProviderAnswers
    <2>1. left' \in 0 .. MaxLookups /\ last' + left' <= MaxLookups
      BY <1>6 DEF ProviderAnswers, ProcessInv, OneAfterTheOther, Pids
    <2> QED BY <1>6, <2>1, CleanedState DEF ProviderAnswers, ProcessInv, OneAfterTheOther
  <1>7. CASE SpawnCommand
    <2>1. CASE MaySpawn /\ Spawned /\ pc' = "stream" /\ UNCHANGED left
      <3>1. pc = "spawn"
        BY <1>7 DEF SpawnCommand
      <3>2. last' # 0
        BY <2>1, <3>1, SpawnedOne DEF Pids
      <3> QED BY <2>1, <3>1, <3>2, SpawnedOne DEF ProcessInv, OneAfterTheOther
    <2> QED BY <1>7, <1>e, <2>1 DEF SpawnCommand
  <1>8. CASE Poll
    <2>1. CASE /\ pc' = "receive" /\ UNCHANGED <<left, last>>
               /\ proc' = CleanupProc /\ ps' = CleanupState
      BY <1>8, <2>1, CleanedState DEF Poll, ProcessInv, OneAfterTheOther
    <2>2. CASE pc' = "receive" /\ UNCHANGED <<left, last, proc, ps>>
      BY <1>8, <2>2 DEF Poll, ProcessInv, OneAfterTheOther, TrackedUntilDead,
            CancelReachesEveryProcess, Cancelled, Alive
    <2> QED BY <1>8, <1>e, <2>1, <2>2 DEF Poll
  <1>9. CASE Receive
    <2>1. CASE pc' = "stream" /\ UNCHANGED <<left, last, proc, ps>>
      BY <1>9, <2>1 DEF Receive, ProcessInv, OneAfterTheOther, TrackedUntilDead,
            CancelReachesEveryProcess, Cancelled, Alive
    <2> QED BY <1>9, <1>e, <2>1, Ended DEF Receive
  <1> QED BY <1>1, <1>2, <1>3, <1>4, <1>5, <1>6, <1>7, <1>8, <1>9 DEF Main

\* A cancellation: cancel(), or the rejection of input before it.
LEMMA CancelStep ==
    ASSUME ProcessInv, proc' = CancelProc, UNCHANGED <<pc, left, last>>,
           ps' \in {CancelState(ps), CancelState([ps EXCEPT !.input_error = TRUE])}
    PROVE ProcessInv'
  <1>1. ps' \in ProcessState /\ ps'.group = ps.group
            /\ (Cancelled => ps'.cancellation = ps.cancellation)
    BY DEF CancelState, ProcessInv, ProcessState
  <1>2. CASE Cancelled
    BY <1>1, <1>2 DEF CancelProc, ProcessInv, OneAfterTheOther, TrackedUntilDead,
          CancelReachesEveryProcess, Alive
  <1>3. CASE ~Cancelled
    <2>1. \A n \in Pids : n > last => n # ps.group
      BY GuardianAssumption DEF ProcessInv, OneAfterTheOther, ProcessState, Pids
    <2> QED BY <1>1, <1>3, <2>1, GroupSignalled DEF CancelProc, ProcessInv,
          OneAfterTheOther, TrackedUntilDead, CancelReachesEveryProcess, Alive
  <1> QED BY <1>2, <1>3

\* Every step of the control thread and of the watchdog keeps ProcessInv.
LEMMA ControlStep == ProcessInv /\ (Control \/ Watchdog) => ProcessInv'
  <1> SUFFICES ASSUME ProcessInv, Control \/ Watchdog PROVE ProcessInv'
    OBVIOUS
  <1>0. UNCHANGED <<pc, left, last>>
    BY DEF Control, Watchdog, ReadSignal, ReadEnd, ReadInput, WatchdogCancels,
          WatchdogKills, main
  <1>1. CASE ReadSignal \/ ReadEnd \/ WatchdogCancels
    BY <1>0, <1>1, CancelStep DEF ReadSignal, ReadEnd, WatchdogCancels
  <1>2. ASSUME NEW sized, NEW eof, ReadInput(sized, eof) PROVE ProcessInv'
    <2>1. CASE UNCHANGED <<ps, proc>>
      BY <1>0, <2>1 DEF ProcessInv, OneAfterTheOther, TrackedUntilDead,
            CancelReachesEveryProcess, Cancelled, Alive
    <2> QED BY <1>0, <1>2, <2>1, CancelStep DEF ReadInput
  <1>3. CASE WatchdogKills
    <2>1. ps' \in ProcessState /\ ps'.group = ps.group
            /\ proc' = Killed(ps.group)
      BY <1>3 DEF WatchdogKills, Escalated, ProcessInv, ProcessState
    <2>2. \A n \in Pids : n > last => n # ps.group
      BY GuardianAssumption DEF ProcessInv, OneAfterTheOther, ProcessState, Pids
    <2> QED BY <1>0, <2>1, <2>2, GroupSignalled DEF ProcessInv, OneAfterTheOther,
          TrackedUntilDead, CancelReachesEveryProcess, Alive
  <1> QED BY <1>1, <1>2, <1>3 DEF Control, Watchdog

\* What a living process does to the record of it.
LEMMA ProcessLives ==
    ASSUME ProcessInv, NEW n \in Pids, Lives(n)
    PROVE /\ proc' \in [Pids -> Process]
          /\ \A m \in Pids :
                /\ proc'[m].leader = "alive" \/ proc'[m].others => Alive(m)
                /\ proc'[m].sent = proc[m].sent
                /\ proc[m] = NewProcess => proc'[m] = NewProcess
                /\ proc[m].leader # "alive" => proc'[m].leader = proc[m].leader
                /\ ~HoldsOutput(m) => proc'[m] = proc[m]
  <1>0. proc[n] \in Process /\ proc \in [Pids -> Process]
    BY DEF ProcessInv
  <1>1. HoldsOutput(n) => proc[n] # NewProcess
    BY DEF HoldsOutput, Alive, NewProcess
  <1>2. ASSUME HoldsOutput(n),
               NEW p \in Process, proc' = [proc EXCEPT ![n] = p], p.sent = proc[n].sent,
               p.leader = "alive" \/ p.others => Alive(n),
               proc[n].leader # "alive" => p.leader = proc[n].leader
        PROVE  /\ proc' \in [Pids -> Process]
               /\ \A m \in Pids :
                    /\ proc'[m].leader = "alive" \/ proc'[m].others => Alive(m)
                    /\ proc'[m].sent = proc[m].sent
                    /\ proc[m] = NewProcess => proc'[m] = NewProcess
                    /\ proc[m].leader # "alive" => proc'[m].leader = proc[m].leader
                    /\ ~HoldsOutput(m) => proc'[m] = proc[m]
    BY <1>0, <1>1, <1>2 DEF Alive
  <1>3. CASE /\ proc[n].leader = "alive"
             /\ \E code \in Codes : proc' = [proc EXCEPT ![n].leader = code]
    <2>1. PICK code \in Codes : proc' = [proc EXCEPT ![n] = [proc[n] EXCEPT !.leader = code]]
      BY <1>3
    <2>2. [proc[n] EXCEPT !.leader = code] \in Process
      BY <1>0 DEF Process
    <2> QED BY <1>0, <1>2, <1>3, <2>1, <2>2 DEF Process, Alive, HoldsOutput
  <1>4. CASE Alive(n) /\ proc' = [proc EXCEPT ![n].others = ~@]
    <2>1. proc' = [proc EXCEPT ![n] = [proc[n] EXCEPT !.others = ~proc[n].others]]
      BY <1>4
    <2>2. [proc[n] EXCEPT !.others = ~proc[n].others] \in Process
      BY <1>0 DEF Process
    <2> QED BY <1>0, <1>2, <1>4, <2>1, <2>2 DEF Process, HoldsOutput
  <1>5. CASE HoldsOutput(n) /\ \E b \in BOOLEAN : proc' = [proc EXCEPT ![n].escaped = b]
    <2>1. PICK b \in BOOLEAN : proc' = [proc EXCEPT ![n] = [proc[n] EXCEPT !.escaped = b]]
      BY <1>5
    <2>2. [proc[n] EXCEPT !.escaped = b] \in Process
      BY <1>0 DEF Process
    <2> QED BY <1>0, <1>2, <1>5, <2>1, <2>2 DEF Process, Alive
  <1>6. CASE UNCHANGED proc
    BY <1>0, <1>6 DEF Alive
  <1> QED BY <1>3, <1>4, <1>5, <1>6 DEF Lives, HoldsOutput

\* Every step outside of the guardian, and of its stdin thread, keeps ProcessInv.
LEMMA WorldStep == ProcessInv /\ (World \/ Feed) => ProcessInv'
  <1> SUFFICES ASSUME ProcessInv, World \/ Feed PROVE ProcessInv'
    OBVIOUS
  <1>1. ASSUME NEW n \in Pids, Lives(n) PROVE ProcessInv'
    <2>1. UNCHANGED <<pc, left, last, ps>>
      BY <1>1 DEF Lives, main
    <2> QED BY <1>1, <2>1, ProcessLives DEF ProcessInv, OneAfterTheOther,
          TrackedUntilDead, CancelReachesEveryProcess, Cancelled, Alive
  <1>2. CASE GracePasses
    <2>1. /\ UNCHANGED <<pc, left, last, proc>>
          /\ ps' \in ProcessState /\ ps'.group = ps.group /\ Cancelled
      BY <1>2 DEF GracePasses, ProcessInv, ProcessState, main, world, Cancelled
    <2> QED BY <2>1 DEF ProcessInv, OneAfterTheOther, TrackedUntilDead,
          CancelReachesEveryProcess, Alive
  <1>3. CASE TimeoutOrSignal \/ DrainPasses \/ ServiceCloses \/ Feed
    <2>1. UNCHANGED <<pc, left, last, ps, proc>>
      BY <1>3 DEF TimeoutOrSignal, DrainPasses, ServiceCloses, Feed, main, world
    <2> QED BY <2>1 DEF ProcessInv, OneAfterTheOther, TrackedUntilDead,
          CancelReachesEveryProcess, Cancelled, Alive
  <1>4. CASE GuardianKilled
    BY <1>4 DEF GuardianKilled, world, ProcessInv, OneAfterTheOther,
          TrackedUntilDead, CancelReachesEveryProcess, Cancelled, Alive
  <1> QED BY <1>1, <1>2, <1>3, <1>4 DEF World

\* ProcessInv is inductive.
LEMMA ProcessStep == ProcessInv /\ [Next]_vars => ProcessInv'
  <1>1. ProcessInv /\ UNCHANGED vars => ProcessInv'
    BY DEF vars, main, world, ProcessInv, OneAfterTheOther, TrackedUntilDead,
          CancelReachesEveryProcess, Cancelled, Alive
  <1> QED BY <1>1, MainStep, ControlStep, WorldStep DEF Next

\* Nothing is spawned yet.
LEMMA ProcessInit == Init => ProcessInv
  BY GuardianAssumption DEF Init, ProcessInv, OneAfterTheOther, NewProcess,
     ProcessState, Process, Codes, TrackedUntilDead, CancelReachesEveryProcess,
     Cancelled, Alive, Pids

\* Processes come one after the other, whatever the threads, the service and
\* the processes do.
THEOREM ProcessInvariant == Spec => []ProcessInv
  BY ProcessInit, ProcessStep, PTL DEF Spec

\* The guardian signals the process that lives, until it is gone.
THEOREM NoProcessIsLost == Spec => []TrackedUntilDead
  <1>1. ProcessInv => TrackedUntilDead
    BY DEF ProcessInv
  <1> QED BY <1>1, ProcessInvariant, PTL

\* No process slips in between a cancellation and its start.
THEOREM CancelIsNeverMissed == Spec => []CancelReachesEveryProcess
  <1>1. ProcessInv => CancelReachesEveryProcess
    BY DEF ProcessInv
  <1> QED BY <1>1, ProcessInvariant, PTL

\* An error is no exit code.
LEMMA ExitFailed ==
    ASSUME ProcessInv, ExitInv, Fail, UNCHANGED <<pending, rejected>>
    PROVE ExitInv'
  BY DEF Fail, End, CleanupState, ProcessInv, ProcessState, ExitInv, StatusIsReal,
     ExitCodeIsReal, Running, Codes

\* The last frame of a command that exited, and said all it had to say.
LEMMA ExitReported ==
    ASSUME ProcessInv, ExitInv, pc = "receive", Disconnected, status # "none",
           End(status), UNCHANGED <<pending, rejected>>
    PROVE ExitInv'
  <1>1. /\ last \in Pids /\ last # 0 /\ status \in Codes /\ ~rejected
        /\ proc[last].leader = status
    BY DEF ProcessInv, OneAfterTheOther, ExitInv, StatusIsReal
  <1>2. /\ proc'[last].leader = status /\ ~proc'[last].others
        /\ proc'[last].escaped = proc[last].escaped
        /\ ps' = [ps EXCEPT !.group = 0]
    BY <1>1, CleanedUp DEF End, Codes
  <1>3. pending = 0 /\ ~proc[last].escaped
    BY DEF Disconnected, HoldsOutput
  <1>4. /\ pc' = "done" /\ result' = status
        /\ UNCHANGED <<last, status, pending, rejected>>
    BY DEF End
  <1>5. ~HoldsOutput(last)'
    BY <1>1, <1>2, <1>3, <1>4 DEF HoldsOutput, Alive, Codes
  <1> QED BY <1>1, <1>2, <1>3, <1>4, <1>5
          DEF ExitInv, StatusIsReal, ExitCodeIsReal, Running

\* Every step of the main thread keeps ExitInv.
LEMMA ExitMain == ProcessInv /\ ExitInv /\ Main => ExitInv'
  <1> SUFFICES ASSUME ProcessInv, ExitInv, Main PROVE ExitInv'
    OBVIOUS
  <1>0. UNCHANGED rejected /\ Running /\ result = "none"
    BY DEF Main, Authorize, Resolve, SpawnProvider, ProviderFails, ProviderExits,
          ProviderAnswers, SpawnCommand, Poll, Receive, input, Running, ExitInv
  <1>e. ASSUME Fail, UNCHANGED pending PROVE ExitInv'
    BY <1>0, <1>e, ExitFailed
  <1>n. ASSUME pc' \in {"resolve", "lookup", "provider", "spawn"}, status' \in {"none"} \union Codes,
               UNCHANGED <<pending, result>>, ps'.input_error = ps.input_error
        PROVE ExitInv'
    BY <1>0, <1>n DEF ExitInv, StatusIsReal, ExitCodeIsReal, Running, Codes
  <1>s. Spawned \/ ps' = CleanupState => ps'.input_error = ps.input_error
    BY DEF Spawned, CleanupState, ProcessInv, ProcessState
  <1>1. CASE Authorize \/ Resolve
    BY <1>1, <1>e, <1>n DEF Authorize, Resolve, ExitInv
  <1>2. CASE SpawnProvider
    BY <1>2, <1>e, <1>n, <1>s DEF SpawnProvider
  <1>3. CASE ProviderFails
    BY <1>3, <1>e DEF ProviderFails
  <1>4. CASE ProviderExits
    BY <1>4, <1>n, <1>s DEF ProviderExits
  <1>5. CASE ProviderAnswers
    BY <1>5, <1>n, <1>s DEF ProviderAnswers
  <1>6. CASE SpawnCommand
    <2>1. CASE Spawned /\ pc' = "stream" /\ status' = "none" /\ UNCHANGED <<result, pending>>
      BY <1>0, <1>s, <2>1 DEF ExitInv, StatusIsReal, ExitCodeIsReal, Running, Codes
    <2> QED BY <1>6, <1>e, <2>1 DEF SpawnCommand
  <1>7. CASE Poll
    <2>1. CASE pc' = "receive" /\ ~InputFailed /\ UNCHANGED <<last, result, pending>>
      <3>1. ~rejected /\ last \in Pids /\ pc = "stream"
        BY <1>7, <2>1 DEF Poll, InputFailed, ExitInv, StatusIsReal, ProcessInv, OneAfterTheOther
      <3>2. status' # "none" => proc'[last].leader = status' /\ status' \in Codes
        BY <1>7, <2>1, <3>1, CleanedUp DEF Poll, Fail, End, ExitInv, StatusIsReal, Codes
      <3> QED BY <1>0, <2>1, <3>1, <3>2 DEF ExitInv, StatusIsReal, ExitCodeIsReal,
                Running, Codes
    <2> QED BY <1>7, <1>e, <2>1 DEF Poll
  <1>8. CASE Receive
    <2>1. CASE pc' = "stream" /\ UNCHANGED <<last, status, result, ps, proc>>
      <3>1. pending' \in 0 .. MaxPending /\ pc = "receive"
        BY <1>8, GuardianAssumption DEF Receive, ExitInv
      <3> QED BY <1>0, <2>1, <3>1 DEF ExitInv, StatusIsReal, ExitCodeIsReal, Running, Codes
    <2> QED BY <1>0, <1>8, <1>e, <2>1, ExitReported DEF Receive
  <1> QED BY <1>1, <1>2, <1>3, <1>4, <1>5, <1>6, <1>7, <1>8 DEF Main

\* While the main thread does nothing, a dead process stays as it is, and no
\* input is forgotten, ExitInv is kept.
LEMMA ExitKept ==
    ASSUME ProcessInv, ExitInv, UNCHANGED <<pc, last, status, result>>,
           pending' \in 0 .. MaxPending, rejected' \in BOOLEAN,
           rejected' => ps'.input_error,
           rejected' => rejected \/ (Running /\ status = "none"),
           last # 0 /\ proc[last].leader # "alive" => proc'[last].leader = proc[last].leader,
           ~Running /\ last # 0 /\ ~HoldsOutput(last) =>
                ~HoldsOutput(last)' /\ UNCHANGED pending
    PROVE ExitInv'
  BY DEF ProcessInv, OneAfterTheOther, ExitInv, StatusIsReal, ExitCodeIsReal, Running, Codes

\* Every step of the other threads keeps ExitInv.
LEMMA ExitControl == ProcessInv /\ ExitInv /\ (Control \/ Watchdog \/ Feed) => ExitInv'
  <1> SUFFICES ASSUME ProcessInv, ExitInv, Control \/ Watchdog \/ Feed PROVE ExitInv'
    OBVIOUS
  <1>0. UNCHANGED <<pc, last, status, result, pending>> /\ Running
    BY DEF Control, Watchdog, Feed, ReadSignal, ReadEnd, ReadInput, WatchdogCancels,
          WatchdogKills, Listening, main, world
  <1>1. last # 0 => last \in Pids
    BY DEF ProcessInv
  <1>2. ASSUME proc' \in {proc, Notified(ps.group), Killed(ps.group)}
        PROVE  last # 0 /\ proc[last].leader # "alive" =>
                    proc'[last].leader = proc[last].leader
    BY <1>1, <1>2, GroupSignalled
  <1>3. pending \in 0 .. MaxPending /\ rejected \in BOOLEAN
            /\ (rejected => ps.input_error)
    BY DEF ExitInv, StatusIsReal
  <1>4. CASE ReadSignal \/ ReadEnd \/ WatchdogCancels
    <2>1. UNCHANGED rejected /\ ps'.input_error = ps.input_error
      BY <1>4 DEF ReadSignal, ReadEnd, WatchdogCancels, input, CancelState,
            ProcessInv, ProcessState
    <2>2. proc' \in {proc, Notified(ps.group)}
      BY <1>4 DEF ReadSignal, ReadEnd, WatchdogCancels, CancelProc
    <2> QED BY <1>0, <1>2, <1>3, <2>1, <2>2, ExitKept
  <1>5. ASSUME NEW sized, NEW eof, ReadInput(sized, eof) PROVE ExitInv'
    <2>1. \/ UNCHANGED <<ps, proc, rejected>>
          \/ /\ ps'.input_error /\ rejected' = (rejected \/ status = "none")
             /\ proc' \in {proc, Notified(ps.group)}
      <3>1. CancelState([ps EXCEPT !.input_error = TRUE]).input_error
        BY DEF CancelState, ProcessInv, ProcessState
      <3>2. CancelProc \in {proc, Notified(ps.group)}
        BY DEF CancelProc
      <3> QED BY <1>5, <3>1, <3>2 DEF ReadInput
    <2>2. rejected' \in BOOLEAN /\ (rejected' => rejected \/ status = "none")
      <3>1. CASE UNCHANGED rejected
        BY <1>3, <3>1
      <3>2. CASE rejected' = (rejected \/ status = "none")
        BY <3>2, Zenon
      <3> QED BY <2>1, <3>1, <3>2
    <2>3. rejected' => ps'.input_error
      BY <1>3, <2>1
    <2>4. proc' \in {proc, Notified(ps.group), Killed(ps.group)}
      BY <2>1
    <2> QED BY <1>0, <1>2, <1>3, <2>2, <2>3, <2>4, ExitKept
  <1>6. CASE WatchdogKills
    <2>1. UNCHANGED rejected /\ ps'.input_error = ps.input_error
            /\ proc' = Killed(ps.group)
      BY <1>6 DEF WatchdogKills, Escalated, input, ProcessInv, ProcessState
    <2> QED BY <1>0, <1>2, <1>3, <2>1, ExitKept
  <1>7. CASE Feed
    <2>1. UNCHANGED <<rejected, ps, proc>>
      BY <1>7 DEF Feed, world
    <2> QED BY <1>0, <1>2, <1>3, <2>1, ExitKept
  <1> QED BY <1>4, <1>5, <1>6, <1>7 DEF Control, Watchdog

\* Every step outside of the guardian keeps ExitInv.
LEMMA ExitWorld == ProcessInv /\ ExitInv /\ World => ExitInv'
  <1> SUFFICES ASSUME ProcessInv, ExitInv, World PROVE ExitInv'
    OBVIOUS
  <1>1. UNCHANGED rejected /\ ps'.input_error = ps.input_error
    BY DEF World, TimeoutOrSignal, GracePasses, DrainPasses, ServiceCloses,
          GuardianKilled, Lives, input, ProcessInv, ProcessState
  <1>2. pending \in 0 .. MaxPending /\ rejected \in BOOLEAN
            /\ (rejected => ps.input_error)
    BY DEF ExitInv, StatusIsReal
  <1>3. ASSUME NEW n \in Pids, Lives(n) PROVE ExitInv'
    <2>1. UNCHANGED <<pc, last, status, result>>
            /\ (last # 0 => last \in Pids)
      BY <1>3 DEF Lives, main, ProcessInv
    <2>2. pending' \in 0 .. MaxPending /\ (~Running => UNCHANGED pending)
      BY <1>2, <1>3, GuardianAssumption DEF Lives, Running
    <2>3. last # 0 /\ ~HoldsOutput(last) => ~HoldsOutput(last)'
      BY <1>3, <2>1, ProcessLives DEF HoldsOutput, Alive
    <2>4. last # 0 /\ proc[last].leader # "alive" =>
                proc'[last].leader = proc[last].leader
      BY <1>3, <2>1, ProcessLives
    <2> QED BY <1>1, <1>2, <2>1, <2>2, <2>3, <2>4, ExitKept
  <1>4. CASE TimeoutOrSignal \/ DrainPasses \/ ServiceCloses \/ GracePasses
    <2>1. UNCHANGED <<pc, last, status, result, proc, pending>>
      BY <1>4 DEF TimeoutOrSignal, DrainPasses, ServiceCloses, GracePasses, main, world
    <2> QED BY <1>1, <1>2, <2>1, ExitKept DEF HoldsOutput, Alive
  <1>5. CASE GuardianKilled
    BY <1>5 DEF GuardianKilled, Running, input, world, ExitInv, StatusIsReal,
          ExitCodeIsReal, Codes
  <1> QED BY <1>3, <1>4, <1>5 DEF World

\* However the command ends, prints and leaves processes behind, an exit code
\* is its own and comes after all of its output.
THEOREM ExitInvariant == Spec => [](ProcessInv /\ ExitInv)
  <1>1. Init => ExitInv
    <2>1. Init => pending \in 0 .. MaxPending /\ result = "none" /\ status = "none"
                    /\ rejected = FALSE
      BY GuardianAssumption DEF Init
    <2> QED BY <2>1 DEF ExitInv, StatusIsReal, ExitCodeIsReal, Codes
  <1>2. ExitInv /\ UNCHANGED vars => ExitInv'
    BY DEF vars, main, input, world, ExitInv, StatusIsReal, ExitCodeIsReal,
          HoldsOutput, Alive, Running
  <1>3. ProcessInv /\ ExitInv /\ [Next]_vars => ExitInv'
    BY <1>2, ExitMain, ExitControl, ExitWorld DEF Next
  <1> QED BY <1>1, <1>3, ProcessInit, ProcessStep, PTL DEF Spec

\* An exit code is the command's, after all of its output and input.
THEOREM ExitCodesAreReal == Spec => []ExitCodeIsReal
  <1>1. ExitInv => ExitCodeIsReal
    BY DEF ExitInv
  <1> QED BY <1>1, ExitInvariant, PTL

\* A command that can still end with an exit code is killed after the grace
\* period only: cleanup() meets it when it is dead.
THEOREM GraceIsRespected == Spec => GraceRespected
  <1>1. ASSUME ProcessInv, ExitInv, Next, NEW n \in Pids,
               pc \in {"stream", "receive"}, proc[n].leader = "alive",
               proc[n].sent # "kill", proc'[n].sent = "kill"
        PROVE  ps.cancellation = "old" \/ result' = "error"
    <2>1. ps.group = n /\ last = n
      BY <1>1, GuardianAssumption
         DEF ProcessInv, OneAfterTheOther, TrackedUntilDead, Alive, Pids
    <2>2. proc' # proc /\ proc' # Notified(ps.group)
      <3>1. Notified(n)[n].sent = "signal"
        BY <1>1, GuardianAssumption DEF Notified, ProcessInv, Process, Pids
      <3> QED BY <1>1, <2>1, <3>1
    <2>3. CASE Main
      <3>1. Fail \/ Poll \/ Receive
        BY <1>1, <2>3 DEF Main, Authorize, Resolve, SpawnProvider, ProviderFails,
              ProviderExits, ProviderAnswers, SpawnCommand
      <3>2. CASE Poll
        BY <1>1, <2>1, <2>2, <3>2 DEF Poll, Fail, End, Codes
      <3>3. CASE Receive
        BY <1>1, <2>1, <2>2, <3>3 DEF Receive, Fail, End, ExitInv, StatusIsReal, Codes
      <3> QED BY <3>1, <3>2, <3>3 DEF Fail, End
    <2>4. CASE Control \/ WatchdogCancels \/ Feed
      BY <2>2, <2>4 DEF Control, ReadSignal, ReadEnd, ReadInput, WatchdogCancels,
            CancelProc, Feed, world
    <2>5. CASE WatchdogKills
      BY <2>5 DEF WatchdogKills, GraceOver
    <2>6. CASE World
      <3>1. CASE \E m \in Pids : Lives(m)
        BY <1>1, <3>1, ProcessLives
      <3> QED BY <2>2, <2>6, <3>1 DEF World, TimeoutOrSignal, GracePasses, DrainPasses,
            ServiceCloses, GuardianKilled, world
    <2> QED BY <1>1, <2>3, <2>4, <2>5, <2>6 DEF Next, Watchdog
  <1>2. ProcessInv /\ ExitInv /\ [Next]_vars =>
            [\A n \in Pids :
                /\ pc \in {"stream", "receive"}
                /\ proc[n].leader = "alive"
                /\ proc[n].sent # "kill" /\ proc'[n].sent = "kill"
                => ps.cancellation = "old" \/ result' = "error"]_vars
    BY <1>1
  <1> QED BY <1>2, ExitInvariant, PTL DEF Spec, GraceRespected
=============================================================================
