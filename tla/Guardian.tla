------------------------------ MODULE Guardian ------------------------------
(***************************************************************************)
(* The guardian process of one operation (src/src/execution.rs): the main  *)
(* thread (worker_main, execute, read_provider, stream_output), the        *)
(* control thread, the watchdog, the thread that feeds stdin, and the      *)
(* processes the guardian starts one after the other: a provider lookup    *)
(* for each credential, then the command.                                  *)
(*                                                                         *)
(* `ps' is the Mutex<ProcessState>; every action that touches it is one    *)
(* critical section.  Processes are numbered in the order they are         *)
(* spawned, 0 is no process.  A process is its leader, the descendants     *)
(* signal_tree() reaches (its group, its session when it has a terminal)   *)
(* and the ones that escaped both.  Both output streams are one, a chunk   *)
(* is counted from the write of the command to the frame for the service,  *)
(* which is assumed to keep reading.  Terminal size, redaction and the     *)
(* Resolved frame are left out.  SIGKILL takes effect at once.             *)
(***************************************************************************)
EXTENDS Naturals

CONSTANTS
    Modes,          \* InputModes: a subset of {"null", "pipe", "tty"}
    MaxLookups,     \* bound: credentials of a profile
    QueueCap,       \* the 128 slots of the input channel
    MaxPending      \* bound: chunks on their way from the command

ASSUME GuardianAssumption ==
    /\ Modes \subseteq {"null", "pipe", "tty"}
    /\ MaxLookups \in Nat /\ QueueCap \in Nat /\ MaxPending \in Nat

VARIABLES
    mode,           \* spec.input
    pc,             \* where the main thread is
    left,           \* credentials still to look up
    status,         \* try_wait() of the current process: none, or its exit
    draining,       \* output after the exit: no, yes, over (one second)
    result,         \* what the last frame says
    ps,             \* ProcessState
    due,            \* the profile's timeout passed, or a signal arrived
    control,        \* the control pipe: open, closed by the service, ended
    queued,         \* input chunks in the channel
    input_ended,    \* the eof chunk was accepted
    writer,         \* the stdin thread: none, running, gone
    last,           \* the child: the process spawned last
    proc,           \* the processes spawned
    pending,        \* output chunks written and not yet sent
    rejected        \* history: input rejected before an exit was noticed

main == <<pc, left, last, status, draining, result>>
input == <<mode, control, queued, input_ended, writer, rejected>>
world == <<due, proc, pending>>
vars == <<main, ps, input, world>>

Pids == 1 .. MaxLookups + 1
Codes == {"zero", "nonzero", "signal"}
Process == [leader : {"absent", "alive"} \union Codes, others : BOOLEAN,
            escaped : BOOLEAN, sent : {"nothing", "signal", "kill"}]
ProcessState == [group : Pids \union {0}, cancellation : {"none", "recent", "old"},
                 forced : BOOLEAN, input_error : BOOLEAN]

\* Types of the variables.
TypeOK ==
    /\ mode \in Modes
    /\ pc \in {"start", "resolve", "lookup", "provider", "spawn", "stream",
               "receive", "done", "killed"}
    /\ left \in 0 .. MaxLookups
    /\ last \in Pids \union {0}
    /\ status \in {"none"} \union Codes
    /\ draining \in {"no", "yes", "over"}
    /\ result \in {"none", "error"} \union Codes
    /\ ps \in ProcessState
    /\ due \in BOOLEAN
    /\ control \in {"open", "closed", "ended"}
    /\ queued \in 0 .. QueueCap
    /\ input_ended \in BOOLEAN
    /\ writer \in {"none", "running", "gone"}
    /\ proc \in [Pids -> Process]
    /\ pending \in 0 .. MaxPending
    /\ rejected \in BOOLEAN

-----------------------------------------------------------------------------
(* Processes *)

Running == pc \notin {"done", "killed"}
Cancelled == ps.cancellation # "none"
Alive(n) == proc[n].leader = "alive" \/ proc[n].others
HoldsOutput(n) == Alive(n) \/ proc[n].escaped

\* signal_tree(): what a catchable signal and KILL do to group g.
Notified(g) ==
    IF g = 0 \/ proc[g].sent = "kill" THEN proc
    ELSE [proc EXCEPT ![g].sent = "signal"]
Killed(g) ==
    IF g = 0 THEN proc ELSE
    [proc EXCEPT ![g] =
        [leader |-> IF @.leader = "alive" THEN "signal" ELSE @.leader,
         others |-> FALSE, escaped |-> @.escaped, sent |-> "kill"]]

\* cancel(): only the first cancellation acts.
CancelState(q) == IF Cancelled THEN q ELSE [q EXCEPT !.cancellation = "recent"]
CancelProc == IF Cancelled THEN proc ELSE Notified(ps.group)

\* Supervisor::cleanup.
CleanupProcForgets == proc              \* wrong: descendants stay
CleanupProc == Killed(ps.group)
CleanupState == [ps EXCEPT !.group = 0]

\* Supervisor::spawn and spawn_tty: no process after a cancellation, and the
\* group is known before the lock is released.
MayAlwaysSpawn == TRUE                  \* wrong: cancellation is not looked at
MaySpawn == ~Cancelled
Spawned ==
    /\ last' = last + 1
    /\ proc' = [proc EXCEPT ![last + 1].leader = "alive"]
    /\ ps' = [ps EXCEPT !.group = last + 1]

-----------------------------------------------------------------------------
(* The main thread *)

\* The result of execute(): every way out passes cleanup() before the last
\* frame is emitted.
End(r) ==
    /\ pc' = "done" /\ result' = r
    /\ proc' = CleanupProc /\ ps' = CleanupState
    /\ UNCHANGED <<left, last, status, draining>>

Fail == End("error")

\* worker_main: validate and authorize once more.
Authorize ==
    /\ pc = "start"
    /\ \/ Fail
       \/ /\ pc' = "resolve"
          /\ UNCHANGED <<left, last, status, draining, result, ps, proc>>
    /\ UNCHANGED <<input, due, pending>>

\* providers::resolve: the next credential, or the command.
Resolve ==
    /\ pc = "resolve"
    /\ \/ Fail
       \/ /\ IF left = 0 THEN pc' = "spawn" ELSE ~Cancelled /\ pc' = "lookup"
          /\ UNCHANGED <<left, last, status, draining, result, ps, proc>>
    /\ UNCHANGED <<input, due, pending>>

SpawnProvider ==
    /\ pc = "lookup"
    /\ \/ Fail
       \/ /\ MaySpawn /\ Spawned
          /\ pc' = "provider" /\ status' = "none"
          /\ UNCHANGED <<left, draining, result>>
    /\ UNCHANGED <<input, due, pending>>

\* read_provider: cancelled, thirty seconds gone, too much said, or a failure,
\* at any moment and whatever the provider does.
ProviderFails ==
    /\ pc = "provider"
    /\ Fail
    /\ UNCHANGED <<input, due, pending>>

ProviderExits ==
    /\ pc = "provider"
    /\ status = "none" /\ proc[last].leader \in Codes
    /\ status' = proc[last].leader
    /\ proc' = CleanupProc /\ ps' = CleanupState
    /\ UNCHANGED <<pc, left, last, draining, result, input, due, pending>>

ProviderAnswers ==
    /\ pc = "provider"
    /\ status = "zero" /\ ~HoldsOutput(last)
    /\ pc' = "resolve" /\ left' = left - 1 /\ status' = "none"
    /\ proc' = CleanupProc /\ ps' = CleanupState
    /\ UNCHANGED <<last, draining, result, input, due, pending>>

\* The sandbox, the command or its threads cannot be started, or the command is.
SpawnCommand ==
    /\ pc = "spawn"
    /\ \/ Fail /\ UNCHANGED writer
       \/ /\ MaySpawn /\ Spawned
          /\ pc' = "stream" /\ status' = "none"
          /\ writer' = IF mode = "null" THEN "none" ELSE "running"
          /\ UNCHANGED <<left, draining, result>>
    /\ UNCHANGED <<mode, control, queued, input_ended, rejected, due,
                   pending>>

InputFailureIgnored == FALSE             \* wrong: TERM alone is trusted
InputFailed == ps.input_error

\* A turn of stream_output, from try_wait() to the drain deadline; try_wait or
\* the threads of input and output can fail.
Poll ==
    LET exited == status = "none" /\ proc[last].leader \in Codes IN
    /\ pc = "stream"
    /\ \/ Fail
       \/ /\ ~InputFailed /\ draining # "over"
          /\ pc' = "receive"
          /\ status' = IF exited THEN proc[last].leader ELSE status
          /\ draining' = IF exited THEN "yes" ELSE draining
          /\ proc' = IF exited THEN CleanupProc ELSE proc
          /\ ps' = IF exited THEN CleanupState ELSE ps
          /\ UNCHANGED <<left, last, result>>
    /\ UNCHANGED <<input, due, pending>>

DoneAtExit == TRUE                      \* wrong: the output is not waited for
Disconnected == pending = 0 /\ ~HoldsOutput(last)

\* One frame, nothing for ten milliseconds, a failed read, or the end.
Receive ==
    /\ pc = "receive"
    /\ \/ /\ pending > 0 /\ pending' = pending - 1 /\ pc' = "stream"
          /\ UNCHANGED <<left, last, status, draining, result, ps, proc>>
       \/ /\ ~Disconnected \/ status = "none"
          /\ pc' = "stream"
          /\ UNCHANGED <<left, last, status, draining, result, ps, proc, pending>>
       \/ ~Disconnected /\ Fail /\ UNCHANGED pending
       \/ Disconnected /\ status # "none" /\ End(status) /\ UNCHANGED pending
    /\ UNCHANGED <<input, due>>

Main ==
    \/ Authorize \/ Resolve \/ SpawnProvider \/ ProviderFails \/ ProviderExits
    \/ ProviderAnswers \/ SpawnCommand \/ Poll \/ Receive

-----------------------------------------------------------------------------
(* The control thread: monitor_control *)

Listening == Running /\ control # "ended"

ReadSignal ==
    /\ Listening
    /\ ps' = CancelState(ps) /\ proc' = CancelProc
    /\ UNCHANGED <<main, input, due, pending>>

\* End of file, or a frame that cannot be read.
ReadEnd ==
    /\ Listening
    /\ control' = "ended"
    /\ ps' = CancelState(ps) /\ proc' = CancelProc
    /\ UNCHANGED <<main, mode, queued, input_ended, writer, rejected,
                   due, pending>>

\* The channel takes a chunk while it has room and somebody to read it.
Legal(sized) == mode # "null" /\ ~input_ended /\ sized /\ queued < QueueCap

ReadInput(sized, eof) ==
    /\ Listening
    /\ IF Legal(sized) /\ writer # "gone"
       THEN /\ queued' = queued + 1 /\ input_ended' = eof
            /\ UNCHANGED <<ps, proc, rejected>>
       ELSE /\ ps' = CancelState([ps EXCEPT !.input_error = TRUE])
            /\ proc' = CancelProc
            /\ rejected' = (rejected \/ status = "none")
            /\ UNCHANGED <<queued, input_ended>>
    /\ UNCHANGED <<main, mode, control, writer, due, pending>>

-----------------------------------------------------------------------------
(* The watchdog *)

WatchdogCancels ==
    /\ Running /\ due /\ ~Cancelled
    /\ ps' = CancelState(ps) /\ proc' = CancelProc
    /\ UNCHANGED <<main, input, due, pending>>

AtOnce == Cancelled                     \* wrong: no grace period
GraceOver == ps.cancellation = "old"

NothingStronger == Notified(ps.group)   \* wrong: TERM once more
Escalated == Killed(ps.group)

WatchdogKills ==
    /\ Running /\ GraceOver /\ ~ps.forced
    /\ proc' = Escalated
    /\ ps' = [ps EXCEPT !.forced = TRUE]
    /\ UNCHANGED <<main, input, due, pending>>

-----------------------------------------------------------------------------
(* The stdin thread: a write succeeds, or the command reads no more. *)

Feed ==
    /\ Running /\ writer = "running" /\ queued > 0
    /\ \/ /\ queued' = queued - 1
          /\ writer' = IF queued = 1 /\ input_ended THEN "gone" ELSE "running"
       \/ queued' = 0 /\ writer' = "gone"
    /\ UNCHANGED <<main, ps, mode, control, input_ended, rejected, world>>

-----------------------------------------------------------------------------
(* The world: clocks, the service's end of the pipe, processes, and SIGKILL *)
(* for the guardian itself.                                                 *)

TimeoutOrSignal ==
    /\ Running /\ due' = TRUE
    /\ UNCHANGED <<main, ps, input, proc, pending>>

GracePasses ==
    /\ ps.cancellation = "recent"
    /\ ps' = [ps EXCEPT !.cancellation = "old"]
    /\ UNCHANGED <<main, input, world>>

DrainPasses ==
    /\ draining = "yes"
    /\ draining' = "over"
    /\ UNCHANGED <<pc, left, last, status, result, ps, input, world>>

ServiceCloses ==
    /\ control = "open" /\ control' = "closed"
    /\ UNCHANGED <<main, ps, mode, queued, input_ended, writer, rejected,
                   world>>

\* What a living process may do: exit, leave descendants behind, escape, print.
Lives(n) ==
    /\ \/ /\ proc[n].leader = "alive"
          /\ \E code \in Codes : proc' = [proc EXCEPT ![n].leader = code]
          /\ UNCHANGED pending
       \/ /\ Alive(n)
          /\ \/ proc' = [proc EXCEPT ![n].others = ~@]
             \/ proc' = [proc EXCEPT ![n].escaped = TRUE]
          /\ UNCHANGED pending
       \/ /\ proc[n].escaped
          /\ proc' = [proc EXCEPT ![n].escaped = FALSE]
          /\ UNCHANGED pending
       \/ /\ HoldsOutput(n) /\ pc \in {"stream", "receive"} /\ n = last
          /\ pending < MaxPending /\ pending' = pending + 1
          /\ UNCHANGED proc
    /\ UNCHANGED <<main, ps, input, due>>

GuardianKilled ==
    /\ Running /\ pc' = "killed"
    /\ UNCHANGED <<left, last, status, draining, result, ps, input, world>>

-----------------------------------------------------------------------------
Init ==
    /\ mode \in Modes
    /\ pc = "start" /\ left \in 0 .. MaxLookups /\ last = 0
    /\ status = "none" /\ draining = "no" /\ result = "none"
    /\ ps = [group |-> 0, cancellation |-> "none", forced |-> FALSE,
             input_error |-> FALSE]
    /\ due = FALSE
    /\ control = "open" /\ queued = 0 /\ input_ended = FALSE /\ writer = "none"
    /\ proc = [n \in Pids |-> [leader |-> "absent", others |-> FALSE,
                               escaped |-> FALSE, sent |-> "nothing"]]
    /\ pending = 0
    /\ rejected = FALSE

Control == ReadSignal \/ ReadEnd \/ \E sized, eof \in BOOLEAN : ReadInput(sized, eof)
Watchdog == WatchdogCancels \/ WatchdogKills
World ==
    \/ TimeoutOrSignal \/ GracePasses \/ DrainPasses \/ ServiceCloses
    \/ GuardianKilled
    \/ \E n \in Pids : Lives(n)

Next == Main \/ Control \/ Watchdog \/ Feed \/ World

Spec == Init /\ [][Next]_vars

(* The guardian's threads run and its clocks advance; a closed pipe is read *)
(* to its end.  Nothing is asked of the processes.                          *)
Fairness ==
    /\ WF_vars(Main) /\ WF_vars(ProviderFails)
    /\ WF_vars(control = "closed" /\ ReadEnd)
    /\ WF_vars(WatchdogCancels) /\ WF_vars(WatchdogKills)
    /\ WF_vars(GracePasses) /\ WF_vars(DrainPasses)

FairSpec == Spec /\ Fairness

-----------------------------------------------------------------------------
(* Properties *)

\* Once cancelled, whatever process is running has been signalled: none slips
\* in between the cancellation and its start (spawn, spawn_tty, cancel).
CancelReachesEveryProcess ==
    Cancelled /\ ps.group # 0 => proc[ps.group].sent # "nothing"

\* A process that has living members is the one the guardian will signal, until
\* it is gone: neither the next spawn nor cleanup() loses one.
TrackedUntilDead ==
    \A n \in Pids : Alive(n) => ps.group = n

\* An exit code is the command's own, all of its output came before it, and no
\* input was rejected before the exit was noticed (stream_output looks at
\* input_error in every turn).
ExitCodeIsReal ==
    result \in Codes =>
        /\ proc[last].leader = result
        /\ pending = 0 /\ ~HoldsOutput(last)
        /\ ~rejected

\* A streaming command is killed only after the grace period, unless its exit
\* code is out of reach anyway: input or output failed.
GraceRespected ==
    [][\A n \in Pids :
        /\ pc \in {"stream", "receive"}
        /\ proc[n].leader = "alive"
        /\ proc[n].sent # "kill" /\ proc'[n].sent = "kill"
        => ps.cancellation = "old" \/ result' = "error"]_vars

\* Why no process is lost: processes are spawned one after the other, never
\* more than credentials and a command, and cleanup() comes before the next.
NewProcess == [leader |-> "absent", others |-> FALSE, escaped |-> FALSE,
               sent |-> "nothing"]
OneAfterTheOther ==
    /\ ps.group \in {0, last}
    /\ \A n \in Pids : n > last => proc[n] = NewProcess
    /\ pc \in {"start", "resolve", "lookup", "spawn"} =>
            ps.group = 0 /\ last + left <= MaxLookups
    /\ pc = "provider" => last + left <= MaxLookups + 1
    /\ pc \in {"lookup", "provider"} => left # 0
    /\ pc \in {"provider", "stream", "receive"} => last # 0
ProcessInv ==
    /\ pc \in {"start", "resolve", "lookup", "provider", "spawn", "stream",
               "receive", "done", "killed"}
    /\ left \in 0 .. MaxLookups /\ last \in Pids \union {0}
    /\ ps \in ProcessState /\ proc \in [Pids -> Process]
    /\ OneAfterTheOther /\ TrackedUntilDead /\ CancelReachesEveryProcess

\* Why an exit code is real: the noticed status is that of the command, which
\* does not run any more, and rejected input is found out before it is noticed.
StatusIsReal ==
    /\ pc \in {"stream", "receive"} /\ status # "none" => proc[last].leader = status
    /\ rejected => ps.input_error
    /\ rejected /\ pc \in {"stream", "receive"} => status = "none"
ExitInv ==
    /\ status \in {"none"} \union Codes /\ rejected \in BOOLEAN
    /\ pending \in 0 .. MaxPending /\ result \in {"none", "error"} \union Codes
    /\ result # "none" => ~Running
    /\ result \in Codes => last # 0
    /\ StatusIsReal /\ ExitCodeIsReal

\* What the service, the profile's timeout or a signal gave up on comes to an
\* end, whatever the command does with TERM and with its output.
DoomedEnds == (due \/ Cancelled \/ control = "closed") ~> ~Running
=============================================================================
