---------------------------- MODULE Backpressure ----------------------------
(***************************************************************************)
(* Who waits for whom while one operation runs.  Its output flows from the *)
(* command through the pump, the bounded channel, the guardian's main      *)
(* thread and its stdout pipe (src/src/execution.rs) to the handler thread *)
(* of the service and the client's socket (src/src/service.rs); requests   *)
(* flow the other way, through the control pipe, which control() fills     *)
(* while it holds the state lock.                                          *)
(*                                                                         *)
(* A chunk, a frame and a slot of a buffer are one size; what the pump or  *)
(* the control thread holds counts as still in its pipe.  Time is counted  *)
(* in the 250 milliseconds of the write timeout; only the client, the      *)
(* command and new requests take time: threads that can move do so first   *)
(* (Tick).  Lookups, descendants and deaths are in Guardian and Service.   *)
(***************************************************************************)
EXTENDS Naturals, Sequences

CONSTANTS
    MaxOutput,      \* bound: chunks the command prints
    DrainLimit,     \* the second of drain after an exit: 4 units
    OutputCap,      \* the pipe of the command's output
    ChannelCap,     \* the 16 slots of the output channel
    FrameCap,       \* the guardian's stdout pipe
    SocketCap,      \* the buffer of the client's socket
    ControlCap,     \* the control pipe
    QueueCap        \* the 128 slots of the input channel

ASSUME BackpressureAssumption ==
    /\ DrainLimit \in Nat /\ DrainLimit > 1
    /\ \A n \in {MaxOutput, OutputCap, ChannelCap, FrameCap, SocketCap, ControlCap,
                 QueueCap} : n \in Nat \ {0}

VARIABLES
    command,    \* the command: unborn, running, exited by itself, killed
    printed,    \* chunks it printed
    stdout,     \* chunks in its output pipe
    pump,       \* the pump thread: running, gone
    channel,    \* chunks in the channel to the main thread
    main,       \* the main thread: pc, the frame it emits, exit noticed
    result,     \* what the last frame says: none, code, error
    frames,     \* the guardian's stdout
    handler,    \* the handler thread of the run: pc and frame
    connection, \* its stream: open or dropped
    socket,     \* frames the client has not read
    client,     \* there, or gone
    outcome,    \* the operation on record: active, finished
    state_lock, \* free, or held by a request that writes a frame
    control,    \* input frames in the control pipe
    closed,     \* the service dropped its end of it
    queue,      \* input chunks waiting for the command
    ps,         \* ProcessState: cancelled, input_error
    clock       \* units since the exit was noticed, and of this send;
                \* history: the client read after a unit's wait

output == <<command, printed, stdout, pump, channel>>
guardian == <<main, result>>
delivery == <<connection, socket, client>>
input == <<control, closed, queue, ps>>
vars == <<output, guardian, frames, handler, delivery, outcome, state_lock, input,
          clock>>

\* Types of the variables.
OutputType ==
    /\ command \in {"unborn", "running", "exited", "killed"}
    /\ printed \in 0 .. MaxOutput /\ stdout \in 0 .. OutputCap
    /\ pump \in {"running", "gone"} /\ channel \in 0 .. ChannelCap
GuardianType ==
    /\ main \in [pc : {"resolved", "spawn", "poll", "emit", "done"},
                 frame : {"resolved", "output", "last"}, noticed : BOOLEAN]
    /\ result \in {"none", "code", "error"}
FramesType == frames \in Seq({"resolved", "output", "last"}) /\ Len(frames) <= FrameCap
HandlerType ==
    handler \in [pc : {"reading", "locking", "checking", "sending", "gone"},
                 frame : {"resolved", "output", "last"}]
DeliveryType ==
    /\ connection \in {"open", "dropped"} /\ socket \in 0 .. SocketCap
    /\ client \in {"there", "gone"} /\ outcome \in {"active", "finished"}
InputType ==
    /\ state_lock \in {"free", "held"} /\ control \in 0 .. ControlCap
    /\ closed \in BOOLEAN /\ queue \in 0 .. QueueCap
    /\ ps \in [cancelled : BOOLEAN, input_error : BOOLEAN]
ClockType == clock \in [drain : 0 .. DrainLimit, send : 0 .. 1, late : BOOLEAN]
TypeOK ==
    /\ OutputType /\ GuardianType /\ FramesType /\ HandlerType /\ DeliveryType
    /\ InputType /\ ClockType

-----------------------------------------------------------------------------
(* Locks *)

\* Where the main thread is while it holds the lock of ProcessState over more
\* than one step: nowhere.
HeldOverEmit == {"emit"}                \* wrong: frames are written under it
HeldAt == {}
PsFree == main.pc \notin HeldAt
StateFree == state_lock = "free"
Ended == command \in {"exited", "killed"}

-----------------------------------------------------------------------------
(* The guardian's main thread: execute, stream_output, emit *)

\* Every way out kills what still runs, drops the channel and emits one frame.
End(r) ==
    /\ result' = r
    /\ main' = [main EXCEPT !.pc = "emit", !.frame = "last"]
    /\ command' = IF command = "running" THEN "killed" ELSE command
    /\ pump' = "gone" /\ channel' = 0
    /\ UNCHANGED <<printed, stdout>>

\* A profile that caches reports its credentials first, then the command starts.
Report ==
    /\ main.pc = "resolved"
    /\ main' = [main EXCEPT !.pc = "emit"]
    /\ UNCHANGED <<output, result, frames, clock>>

SpawnCommand ==
    /\ main.pc = "spawn" /\ PsFree
    /\ IF ps.cancelled THEN End("error")
       ELSE /\ command' = "running" /\ pump' = "running"
            /\ main' = [main EXCEPT !.pc = "poll"]
            /\ UNCHANGED <<printed, stdout, channel, result>>
    /\ UNCHANGED <<frames, clock>>

\* The turns of stream_output that do something, in the order of their checks.
NoticeExit ==
    /\ main.pc = "poll" /\ ~main.noticed /\ Ended
    /\ main' = [main EXCEPT !.noticed = TRUE]
    /\ clock' = [clock EXCEPT !.drain = 0]
    /\ UNCHANGED <<output, result, frames>>

Hopeless == ps.input_error \/ (main.noticed /\ clock.drain = DrainLimit)

GiveUp ==
    /\ main.pc = "poll" /\ Hopeless
    /\ End("error")
    /\ UNCHANGED <<frames, clock>>

Forward ==
    /\ main.pc = "poll" /\ ~Hopeless /\ channel > 0
    /\ channel' = channel - 1
    /\ main' = [main EXCEPT !.pc = "emit", !.frame = "output"]
    /\ UNCHANGED <<command, printed, stdout, pump, result, frames, clock>>

Finish ==
    /\ main.pc = "poll" /\ ~Hopeless
    /\ main.noticed /\ pump = "gone" /\ channel = 0
    /\ End("code")
    /\ UNCHANGED <<frames, clock>>

\* emit(): waits for room in the pipe.
Emit ==
    /\ main.pc = "emit" /\ Len(frames) < FrameCap
    /\ frames' = Append(frames, main.frame)
    /\ main' = [main EXCEPT !.pc = CASE @ = "emit" /\ main.frame = "resolved" -> "spawn"
                                     [] main.frame = "output" -> "poll"
                                     [] OTHER -> "done"]
    /\ UNCHANGED <<output, result, clock>>

Main ==
    /\ \/ Report \/ SpawnCommand \/ NoticeExit \/ GiveUp \/ Forward \/ Finish \/ Emit
    /\ UNCHANGED <<handler, delivery, outcome, state_lock, input>>

\* pump(): one chunk at a time, waiting for room in the channel; it leaves at
\* the end of the output.
Pump ==
    /\ pump = "running"
    /\ \/ /\ stdout > 0 /\ channel < ChannelCap
          /\ stdout' = stdout - 1 /\ channel' = channel + 1 /\ UNCHANGED pump
       \/ /\ stdout = 0 /\ Ended
          /\ pump' = "gone" /\ UNCHANGED <<stdout, channel>>
    /\ UNCHANGED <<command, printed, guardian, frames, handler, delivery, outcome,
                   state_lock, input, clock>>

-----------------------------------------------------------------------------
(* The guardian's control thread and watchdog *)

\* try_send: a full channel, or one nobody reads, is an error and no wait.
Room == queue < QueueCap

WaitsLikeSend == ~Room                  \* wrong: send() waits for room
WaitsForRoom == FALSE

ControlReads ==
    /\ main.pc # "done" /\ control > 0 /\ ~WaitsForRoom
    /\ control' = control - 1
    /\ \/ Room /\ queue' = queue + 1 /\ UNCHANGED ps
       \/ /\ ~Room \/ Ended
          /\ PsFree /\ ps' = [cancelled |-> TRUE, input_error |-> TRUE]
          /\ UNCHANGED queue
    /\ UNCHANGED closed

\* The end of the pipe cancels, unless something else did.
ControlEnds ==
    /\ main.pc # "done" /\ control = 0 /\ closed /\ ~ps.cancelled
    /\ PsFree /\ ps' = [ps EXCEPT !.cancelled = TRUE]
    /\ UNCHANGED <<control, closed, queue>>

\* The stdin thread fails to write to a command that ended.
InputFails ==
    /\ Ended /\ queue > 0 /\ queue' = 0
    /\ UNCHANGED <<control, closed, ps>>

Control ==
    /\ ControlReads \/ ControlEnds \/ InputFails
    /\ UNCHANGED <<output, guardian, frames, handler, delivery, outcome, state_lock,
                   clock>>

\* The grace period after a cancellation is over.
Kill ==
    /\ main.pc # "done" /\ PsFree
    /\ ps.cancelled /\ command = "running" /\ command' = "killed"
    /\ UNCHANGED <<printed, stdout, pump, channel, guardian, frames, handler,
                   delivery, outcome, state_lock, input, clock>>

-----------------------------------------------------------------------------
(* The handler thread of the run: run_operation, send *)

\* A frame for a connection that was dropped is discarded.
HandlerReads ==
    /\ handler.pc = "reading" /\ frames # <<>>
    /\ frames' = Tail(frames)
    /\ handler' = [frame |-> Head(frames),
                   pc |-> IF Head(frames) # "output" THEN "locking"
                          ELSE IF connection = "open" THEN "sending" ELSE "reading"]
    /\ UNCHANGED <<delivery, outcome, closed, clock>>

\* cache_resolved() or finish() under the state lock.
HandlerLocks ==
    /\ handler.pc = "locking" /\ StateFree
    /\ IF handler.frame = "resolved"
       THEN /\ handler' = [handler EXCEPT !.pc = "reading"]
            /\ UNCHANGED <<outcome, closed>>
       ELSE /\ outcome' = "finished" /\ closed' = TRUE
            /\ handler' = [handler EXCEPT !.pc = "checking"]
    /\ UNCHANGED <<frames, delivery, clock>>

\* The lock once more, for journal_failed, before the answer.
HandlerChecks ==
    /\ handler.pc = "checking" /\ StateFree
    /\ handler' = [handler EXCEPT !.pc = IF connection = "open" THEN "sending" ELSE "gone"]
    /\ UNCHANGED <<frames, delivery, outcome, closed, clock>>

Sent == [handler EXCEPT !.pc = IF handler.frame = "last" THEN "gone" ELSE "reading"]

HandlerSends ==
    /\ handler.pc = "sending" /\ client = "there" /\ socket < SocketCap
    /\ socket' = socket + 1
    /\ handler' = Sent /\ clock' = [clock EXCEPT !.send = 0]
    /\ UNCHANGED <<frames, connection, client, outcome, closed>>

\* The write timeout, and what send() makes of a failed write.
KeepsConnection == "open"               \* wrong: the next frame waits again
AfterFailure == "dropped"
TimedOut == clock.send = 1

SendFails ==
    /\ handler.pc = "sending"
    /\ client = "gone" \/ (socket = SocketCap /\ TimedOut)
    /\ connection' = AfterFailure
    /\ handler' = Sent /\ clock' = [clock EXCEPT !.send = 0]
    /\ UNCHANGED <<frames, socket, client, outcome, closed>>

Handler ==
    /\ \/ HandlerReads \/ HandlerLocks \/ HandlerChecks \/ HandlerSends \/ SendFails
    /\ UNCHANGED <<output, guardian, state_lock, control, queue, ps>>

-----------------------------------------------------------------------------
(* Control requests: dispatch, control, stop_session *)

\* Input gets the state lock and has a frame to write under it, unless the
\* operation lost its pipe.
Input ==
    /\ StateFree /\ ~closed
    /\ state_lock' = "held"
    /\ UNCHANGED <<output, guardian, frames, handler, delivery, outcome, input, clock>>

\* Stopping the session drops the pipe.  A signal is a frame like input that
\* has the effect of the stop.
Stop ==
    /\ StateFree /\ ~closed
    /\ closed' = TRUE
    /\ UNCHANGED <<output, guardian, frames, handler, delivery, outcome, state_lock,
                   control, queue, ps, clock>>

\* The pipe has room, or nobody reads it any more.
WriteControl ==
    /\ ~StateFree
    /\ \/ /\ control < ControlCap
          /\ control' = control + 1
       \/ main.pc = "done" /\ UNCHANGED control
    /\ state_lock' = "free"
    /\ UNCHANGED <<output, guardian, frames, handler, delivery, outcome,
                   closed, queue, ps, clock>>

-----------------------------------------------------------------------------
(* The world: the command, the client, deadlines, time *)

CommandLives ==
    /\ command = "running"
    /\ \/ /\ printed < MaxOutput /\ stdout < OutputCap
          /\ printed' = printed + 1 /\ stdout' = stdout + 1
          /\ UNCHANGED <<command, queue>>
       \/ command' = "exited" /\ UNCHANGED <<printed, stdout, queue>>
       \/ queue > 0 /\ queue' = queue - 1 /\ UNCHANGED <<command, printed, stdout>>
    /\ UNCHANGED <<pump, channel, guardian, frames, handler, delivery, outcome,
                   state_lock, control, closed, ps, clock>>

ClientReads ==
    /\ client = "there" /\ socket > 0
    /\ socket' = socket - 1
    /\ clock' = [clock EXCEPT !.late = @ \/ TimedOut]
    /\ UNCHANGED <<output, guardian, frames, handler, connection, client, outcome,
                   state_lock, input>>

ClientLeaves ==
    /\ client = "there" /\ client' = "gone"
    /\ UNCHANGED <<output, guardian, frames, handler, connection, socket, outcome,
                   state_lock, input, clock>>

\* The profile's timeout, or a signal to the guardian.
Deadline ==
    /\ main.pc # "done" /\ PsFree /\ ~ps.cancelled
    /\ ps' = [ps EXCEPT !.cancelled = TRUE]
    /\ UNCHANGED <<output, guardian, frames, handler, delivery, outcome, state_lock,
                   control, closed, queue, clock>>

Threads == Main \/ Pump \/ Control \/ Kill \/ Handler \/ WriteControl

\* When one of them can: the disjunction of their guards.
MainMoves ==
    \/ main.pc = "resolved" \/ (main.pc = "spawn" /\ PsFree)
    \/ main.pc = "poll" /\ (Hopeless \/ channel > 0 \/ (~main.noticed /\ Ended)
                                \/ (main.noticed /\ pump = "gone"))
    \/ main.pc = "emit" /\ Len(frames) < FrameCap
PumpMoves == pump = "running" /\ IF stdout > 0 THEN channel < ChannelCap ELSE Ended
ControlMoves ==
    \/ main.pc # "done" /\ control > 0 /\ ~WaitsForRoom /\ (Room \/ PsFree)
    \/ main.pc # "done" /\ control = 0 /\ closed /\ ~ps.cancelled /\ PsFree
    \/ Ended /\ queue > 0
KillMoves == main.pc # "done" /\ PsFree /\ ps.cancelled /\ command = "running"
HandlerMoves ==
    \/ handler.pc = "reading" /\ frames # <<>>
    \/ handler.pc \in {"locking", "checking"} /\ StateFree
    \/ handler.pc = "sending" /\ (client = "gone" \/ socket < SocketCap \/ TimedOut)
WriterMoves == ~StateFree /\ (control < ControlCap \/ main.pc = "done")
CanMove ==
    MainMoves \/ PumpMoves \/ ControlMoves \/ KillMoves \/ HandlerMoves \/ WriterMoves

Draining == main.noticed /\ result = "none" /\ clock.drain < DrainLimit
Waiting == handler.pc = "sending" /\ ~TimedOut

\* A unit of time passes when no thread can move.
Tick ==
    /\ Draining \/ Waiting
    /\ ~CanMove
    /\ clock' = [clock EXCEPT !.drain = IF Draining THEN @ + 1 ELSE @,
                              !.send = IF Waiting THEN @ + 1 ELSE @]
    /\ UNCHANGED <<output, guardian, frames, handler, delivery, outcome, state_lock,
                   input>>

-----------------------------------------------------------------------------
\* The operation was launched and its credentials are resolved.
Init ==
    /\ command = "unborn" /\ printed = 0 /\ stdout = 0 /\ pump = "gone" /\ channel = 0
    /\ main \in [pc : {"resolved", "spawn"}, frame : {"resolved"}, noticed : {FALSE}]
    /\ result = "none" /\ frames = <<>>
    /\ handler = [pc |-> "reading", frame |-> "resolved"]
    /\ connection = "open" /\ socket = 0 /\ client = "there" /\ outcome = "active"
    /\ state_lock = "free"
    /\ control = 0 /\ closed = FALSE /\ queue = 0
    /\ ps = [cancelled |-> FALSE, input_error |-> FALSE]
    /\ clock = [drain |-> 0, send |-> 0, late |-> FALSE]

World ==
    \/ CommandLives \/ ClientReads \/ ClientLeaves \/ Deadline \/ Tick
    \/ Input \/ Stop

Next == Threads \/ World

Spec == Init /\ [][Next]_vars

(* Threads run and time passes; the client and the command owe nothing.  A   *)
(* client's input ends some time, or it could keep the lock taken for ever.  *)
Fairness ==
    /\ WF_vars(Main) /\ WF_vars(Pump) /\ WF_vars(Control) /\ WF_vars(Kill)
    /\ WF_vars(Handler) /\ WF_vars(WriteControl) /\ WF_vars(Tick)
    /\ <>[][~Input]_vars

FairSpec == Spec /\ Fairness

-----------------------------------------------------------------------------
(* Properties *)

\* A request that writes into a guardian's pipe under the state lock gets it
\* written and releases the lock, whatever the command and the client do.
LockIsReleased == state_lock = "held" ~> state_lock = "free"

\* A cancelled operation is recorded and its handler thread, one of the 64, is
\* free again, also when the client stopped reading and the command too.
CancelledSettles == ps.cancelled ~> outcome = "finished" /\ handler.pc = "gone"

\* README: a client disconnect does not stop or change an accepted operation.
\* A client that leaves, or stops reading for good, costs no exit code: only one
\* that keeps reading, each time just before the write timeout, can.
ExitLostOnlyToLateReader ==
    command = "exited" /\ result = "error" => clock.late \/ ps.input_error

\* Why: after an exit time passes only while the handler thread waits for the
\* client, and it waits one unit for one that does not read.  The rest is who
\* sends what when: the last frame comes last, and a command that is not born or
\* ended needs no killing.
MainInv ==
    /\ result = "none" <=> main.frame # "last"
    /\ IF result = "none" THEN main.pc # "done"
       ELSE main.pc \in {"emit", "done"} /\ command # "running"
    /\ main.pc \in {"resolved", "spawn"} \/ (main.pc = "emit" /\ main.frame = "resolved")
            => command = "unborn"
    /\ main.noticed => Ended
HandlerInv ==
    /\ result = "none" =>
        /\ handler.frame # "last" /\ handler.pc \notin {"checking", "gone"}
        /\ \A i \in 1 .. Len(frames) : frames[i] # "last"
    /\ handler.pc = "locking" => handler.frame # "output"
    /\ handler.pc = "sending" => connection = "open"
DrainIsShort ==
    \/ clock.late
    \/ /\ TimedOut => handler.pc = "sending" /\ socket = SocketCap
       /\ main.noticed /\ result = "none" =>
            \/ clock.drain = 0
            \/ clock.drain = 1 /\ (TimedOut \/ connection = "dropped")
DrainInv ==
    TypeOK /\ MainInv /\ HandlerInv /\ DrainIsShort /\ ExitLostOnlyToLateReader
=============================================================================
