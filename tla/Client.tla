------------------------------- MODULE Client -------------------------------
(***************************************************************************)
(* One run as its caller sees it: `latchrun run' (src/src/client.rs: run,  *)
(* receive_output, forward_input) or the latchrun_run tool of the agent    *)
(* adapter (src/src/agent.rs: call, run, record_activity), the connection  *)
(* to the handler thread of the service (src/src/service.rs:               *)
(* run_operation, send, control), and the separate connections that carry  *)
(* the caller's input.                                                     *)
(*                                                                         *)
(* A connection loses nothing that was sent and can break at any time: the *)
(* caller reads what is left on `wire' and then finds the end.  The bytes  *)
(* of an output stream and the chunks of the input are numbered in order;  *)
(* the last chunk is the end of the input.  The operation id is one nobody *)
(* used before.  Results: the exit code, an error the service sent         *)
(* (refused), a request that never got there (unsent) and an outcome the   *)
(* caller does not know (lost).                                            *)
(***************************************************************************)
EXTENDS Naturals, Sequences

CONSTANTS
    Callers,        \* a subset of {"cli", "mcp"}
    Limit,          \* the 32,768 bytes of a stream the adapter keeps
    MaxBytes,       \* bound: bytes the command writes to a stream
    MaxFrame,       \* bound: bytes of an output frame
    Chunks          \* bound: chunks of the input, its end included

ASSUME ClientAssumption ==
    /\ Callers \subseteq {"cli", "mcp"}
    /\ Limit \in Nat /\ MaxBytes \in Nat /\ MaxFrame \in Nat /\ Chunks \in Nat

VARIABLES
    caller,
    pc, result, answer,     \* the caller: where it is, what run() returned,
                            \* what the user or agent was told
    shown, truncated,       \* the output it passed on
    op,                     \* the service's record of the operation
    thread, final,          \* its handler thread, the last frame to send
    stream, wire, made,     \* the connection, and the bytes written so far
    feeder, requests, reply, stdin,     \* input: the forwarding thread, chunks
                            \* on their way, the answer, what the guardian got
    signals, cancelled,     \* the thread that forwards signals, a signal that
                            \* came; whether the guardian got one
    recorded, warned        \* usage recording of the adapter

run == <<caller, pc, result, answer, shown, truncated>>
service == <<op, thread, final, made>>
connection == <<stream, wire>>
input == <<feeder, requests, reply, stdin>>
usage == <<recorded, warned>>
signalling == <<signals, cancelled>>
vars == <<run, service, connection, input, signalling, usage>>

Streams == {"stdout", "stderr"}
Codes == {"zero", "nonzero"}
Active == {"reserved", "running"}
Frame == [type : {"accepted", "refused", "lost"} \union Codes]
             \union [type : {"output"}, stream : Streams, data : Seq(1 .. MaxBytes)]
Bytes(n) == [i \in 1 .. n |-> i]

\* Types of the variables.
TypeOK ==
    /\ caller \in Callers
    /\ pc \in {"send", "accept", "receive", "join", "record", "respond", "done"}
    /\ {result, answer} \subseteq {"none", "unsent", "refused", "lost"} \union Codes
    /\ shown \in [Streams -> Seq(1 .. MaxBytes)] /\ truncated \in BOOLEAN
    /\ op \in {"absent", "succeeded", "failed", "unknown"} \union Active
    /\ thread \in {"none", "reserve", "launch", "accept", "stream", "tell", "over"}
    /\ final \in {"none", "refused", "lost"} \union Codes
    /\ stream \in {"none", "open", "closed"} /\ wire \in Seq(Frame)
    /\ made \in [Streams -> 0 .. MaxBytes]
    /\ feeder.pc \in {"none", "read", "wait", "stopped"} /\ feeder.sent \in 0 .. Chunks
    /\ requests \subseteq 1 .. Chunks /\ reply \in {"none", "ok", "error"}
    /\ stdin \in Seq(1 .. Chunks)
    /\ signals \in [pc : {"none", "waiting", "asking", "gone"}, came : BOOLEAN]
    /\ cancelled \in BOOLEAN
    /\ recorded \in {"none", "success", "error"} /\ warned \in BOOLEAN

-----------------------------------------------------------------------------
(* The caller: run() of client.rs and of agent.rs *)

\* The result is known and the connection of no use; what the adapter does
\* next is to record the call, the command joins its signal thread and exits.
Return(r) ==
    /\ result' = r
    /\ stream' = IF stream = "none" THEN "none" ELSE "closed"
    /\ wire' = <<>>
    /\ IF caller = "mcp" THEN pc' = "record" /\ UNCHANGED answer
       ELSE IF signals.pc = "none" THEN pc' = "done" /\ answer' = r
       ELSE pc' = "join" /\ UNCHANGED answer

\* connect() or the write of the request fails, or a handler thread gets it.
Send ==
    /\ pc = "send"
    /\ \/ /\ Return("unsent") /\ UNCHANGED thread
       \/ /\ pc' = "accept" /\ thread' = "reserve" /\ stream' = "open"
          /\ UNCHANGED <<wire, result, answer>>
    /\ UNCHANGED <<caller, shown, truncated, op, final, made, input, signalling, usage>>

TakenIfItFits(data, target) ==          \* wrong: drops a frame, not its rest
    IF Len(target) + Len(data) <= Limit THEN data ELSE <<>>
Taken(data, target) ==
    LET room == Limit - Len(target) IN
    IF Len(data) <= room THEN data ELSE SubSeq(data, 1, room)

Show(frame) ==
    LET taken == IF caller = "mcp" THEN Taken(frame.data, shown[frame.stream])
                                   ELSE frame.data IN
    /\ shown' = [shown EXCEPT ![frame.stream] = @ \o taken]
    /\ truncated' = (truncated \/ Len(taken) < Len(frame.data))

\* The next frame.  Printing it can fail, which the command reports as a lost
\* response; piped input starts to flow when the run is accepted.
Receive ==
    /\ pc \in {"accept", "receive"} /\ wire # <<>>
    /\ LET frame == Head(wire) IN
       \/ /\ frame.type \in {"accepted", "output"}
          /\ pc' = "receive" /\ wire' = Tail(wire)
          /\ IF frame.type = "output" THEN Show(frame)
                                      ELSE UNCHANGED <<shown, truncated>>
          /\ IF frame.type = "accepted" /\ caller = "cli"
             THEN /\ feeder' \in {feeder, [feeder EXCEPT !.pc = "read"]}
                  /\ signals' = [signals EXCEPT !.pc = "waiting"]
             ELSE UNCHANGED <<feeder, signals>>
          /\ UNCHANGED <<stream, result, answer>>
       \/ /\ frame.type = "output" /\ caller = "cli"
          /\ Return("lost") /\ UNCHANGED <<shown, truncated, feeder, signals>>
       \/ /\ frame.type \notin {"accepted", "output"}
          /\ Return(frame.type) /\ UNCHANGED <<shown, truncated, feeder, signals>>
    /\ UNCHANGED <<caller, service, requests, reply, stdin, cancelled, usage>>

Disconnected ==
    /\ pc \in {"accept", "receive"} /\ wire = <<>> /\ stream = "closed"
    /\ Return("lost")
    /\ UNCHANGED <<caller, shown, truncated, service, input, signalling, usage>>

\* call(): the usage record, whose answer may be lost, then the response.
SuccessOfCall == result \in Codes       \* wrong: a failing command succeeded
Success == result = "zero"

Record ==
    /\ pc = "record" /\ pc' = "respond"
    /\ \/ /\ recorded' = IF Success THEN "success" ELSE "error"
          /\ warned' \in BOOLEAN
       \/ recorded' = "none" /\ warned' = TRUE
    /\ UNCHANGED <<caller, result, answer, shown, truncated, service,
                   connection, input, signalling>>

Respond ==
    /\ pc = "respond" /\ pc' = "done"
    /\ answer' = result
    /\ UNCHANGED <<caller, result, shown, truncated, service, connection,
                   input, signalling, usage>>

-----------------------------------------------------------------------------
(* Signals of the command: the thread spawned once the run is accepted *)

\* The handlers are there before the request is sent.
SignalComes ==
    /\ caller = "cli" /\ pc \in {"accept", "receive"} /\ ~signals.came
    /\ signals' = [signals EXCEPT !.came = TRUE]
    /\ UNCHANGED <<run, service, connection, input, cancelled, usage>>

\* One request for a signal, or for a new window size.
Forward ==
    /\ signals.pc = "waiting" /\ signals.came
    /\ signals' = [pc |-> "asking", came |-> FALSE]
    /\ UNCHANGED <<run, service, connection, input, cancelled, usage>>

\* control() writes it to the guardian's pipe if the operation is running; an
\* error, or no answer in five seconds, is ignored.
Forwarded ==
    /\ signals.pc = "asking"
    /\ signals' = [signals EXCEPT !.pc = "waiting"]
    /\ cancelled' \in IF op = "running" THEN {cancelled, TRUE} ELSE {cancelled}
    /\ UNCHANGED <<run, service, connection, input, usage>>

NeverCloses == FALSE                    \* wrong: joins without closing
ClosesHandle == pc = "join"

Leave ==
    /\ signals.pc = "waiting" /\ ClosesHandle
    /\ signals' = [pc |-> "gone", came |-> FALSE]
    /\ UNCHANGED <<run, service, connection, input, cancelled, usage>>

Join ==
    /\ pc = "join" /\ signals.pc = "gone"
    /\ pc' = "done" /\ answer' = result
    /\ UNCHANGED <<caller, result, shown, truncated, service, connection, input,
                   signalling, usage>>

-----------------------------------------------------------------------------
(* The handler thread: handle() and run_operation() *)

\* send(): a write that fails or times out drops the connection for good.
SendFrame(frame) ==
    IF stream # "open" THEN UNCHANGED connection
    ELSE \/ wire' = Append(wire, frame) /\ UNCHANGED stream
         \/ stream' = "closed" /\ UNCHANGED wire

\* The last frame; the thread drops its connection after it.
SendLast(type) ==
    /\ stream' = "closed"
    /\ IF stream = "open" THEN wire' \in {wire, Append(wire, [type |-> type])}
                          ELSE UNCHANGED wire

\* A reservation that could not be written is refused and left behind.
Reserve ==
    /\ thread = "reserve"
    /\ \/ op' = "reserved" /\ thread' = "launch" /\ UNCHANGED connection
       \/ op' \in {op, "reserved"} /\ thread' = "over" /\ SendLast("refused")
    /\ UNCHANGED <<run, final, made, input, signalling, usage>>

Launch ==
    /\ thread = "launch"
    /\ \/ op' = "running" /\ thread' = "accept" /\ UNCHANGED final
       \/ op' = "failed" /\ thread' = "tell" /\ final' = "refused"
    /\ UNCHANGED <<run, made, connection, input, signalling, usage>>

Accept ==
    /\ thread = "accept" /\ thread' = "stream"
    /\ SendFrame([type |-> "accepted"])
    /\ UNCHANGED <<run, op, final, made, input, signalling, usage>>

Output ==
    /\ thread = "stream"
    /\ \E s \in Streams, n \in 1 .. MaxFrame :
        /\ made[s] + n <= MaxBytes
        /\ made' = [made EXCEPT ![s] = @ + n]
        /\ SendFrame([type |-> "output", stream |-> s,
                      data |-> [i \in 1 .. n |-> made[s] + i]])
    /\ UNCHANGED <<run, op, thread, final, input, signalling, usage>>

\* The guardian's last frame: finish(), and whether that could be committed.
Outcome(type) ==
    CASE type = "zero" -> "succeeded"
      [] type = "lost" -> "unknown"
      [] OTHER -> "failed"

Finish ==
    /\ thread = "stream" /\ thread' = "tell"
    /\ \E type \in Codes \union {"refused", "lost"} :
        \/ final' = type /\ op' = Outcome(type)
        \/ type \in Codes /\ final' = "lost" /\ op' \in {Outcome(type), "unknown"}
    /\ UNCHANGED <<run, made, connection, input, signalling, usage>>

Tell ==
    /\ thread = "tell" /\ thread' = "over"
    /\ SendLast(final)
    /\ UNCHANGED <<run, op, final, made, input, signalling, usage>>

\* The service dies, and its successor finds an unfinished operation unknown,
\* or does not find it: the reservation above.
Crash ==
    /\ thread # "none" /\ (thread # "over" \/ op \in Active) /\ thread' = "over"
    /\ stream' = "closed"
    /\ op' \in IF op \notin Active THEN {op}
               ELSE IF thread = "over" THEN {"absent", "unknown"} ELSE {"unknown"}
    /\ requests' = {}
    /\ UNCHANGED <<run, final, made, wire, feeder, reply, stdin, signalling, usage>>

-----------------------------------------------------------------------------
(* Input: one connection and one handler thread for each chunk *)

\* forward_input() sends the next chunk, or finds no service.
Feed ==
    /\ feeder.pc = "read" /\ pc # "done" /\ feeder.sent < Chunks
    /\ \/ /\ feeder' = [pc |-> "wait", sent |-> feeder.sent + 1]
          /\ requests' = requests \union {feeder.sent + 1}
       \/ feeder' = [feeder EXCEPT !.pc = "stopped"] /\ UNCHANGED requests
    /\ reply' = "none"
    /\ UNCHANGED <<run, service, connection, stdin, signalling, usage>>

\* control() writes it to the guardian's pipe if the operation is running; a
\* connection over MAX_CLIENTS is dropped.
Control(n) ==
    /\ n \in requests /\ requests' = requests \ {n}
    /\ \/ /\ op = "running" /\ stdin' = Append(stdin, n)
          /\ reply' = IF n = feeder.sent THEN "ok" ELSE reply
       \/ /\ UNCHANGED stdin
          /\ reply' = IF n = feeder.sent THEN "error" ELSE reply
    /\ UNCHANGED <<run, service, connection, feeder, signalling, usage>>

GoesOnAlways(r) == TRUE                 \* wrong: goes on after a timeout
GoesOn(r) == r = "ok"

\* The answer, or none in five seconds: the chunk may still be delivered then.
Hear ==
    /\ feeder.pc = "wait" /\ pc # "done"
    /\ \E r \in IF reply = "none" THEN {"error"} ELSE {reply, "error"} :
        feeder' = [feeder EXCEPT
            !.pc = IF GoesOn(r) /\ feeder.sent < Chunks THEN "read" ELSE "stopped"]
    /\ UNCHANGED <<run, service, connection, requests, reply, stdin, signalling, usage>>

-----------------------------------------------------------------------------
Init ==
    /\ caller \in Callers
    /\ pc = "send" /\ result = "none" /\ answer = "none"
    /\ shown = [s \in Streams |-> <<>>] /\ truncated = FALSE
    /\ op = "absent" /\ thread = "none" /\ final = "none"
    /\ stream = "none" /\ wire = <<>> /\ made = [s \in Streams |-> 0]
    /\ feeder = [pc |-> "none", sent |-> 0]
    /\ requests = {} /\ reply = "none" /\ stdin = <<>>
    /\ signals = [pc |-> "none", came |-> FALSE] /\ cancelled = FALSE
    /\ recorded = "none" /\ warned = FALSE

Caller == Send \/ Receive \/ Disconnected \/ Join \/ Record \/ Respond
Signalling == Forward \/ Forwarded \/ Leave
Handler == Reserve \/ Launch \/ Accept \/ Tell
Input == Feed \/ Hear \/ \E n \in 1 .. Chunks : Control(n)

Next ==
    \/ Caller \/ Signalling \/ Handler \/ Input
    \/ Output \/ Finish \/ Crash \/ SignalComes

Spec == Init /\ [][Next]_vars

\* The threads of both sides run, and a guardian that got a signal ends.
\* Nothing is asked of the command, of input that is still to be typed, or of
\* the answers to chunks.
Fairness ==
    /\ WF_vars(Caller) /\ WF_vars(Signalling) /\ WF_vars(Handler)
    /\ WF_vars(cancelled /\ Finish)

FairSpec == Spec /\ Fairness

-----------------------------------------------------------------------------
(* Properties *)

\* What the caller is told is what the service has on record: an exit code is
\* the recorded outcome and comes with all of the output (of the adapter: the
\* start of each stream, and whether something is missing), an error frame
\* means the operation does not run and did not succeed.  Only a lost answer
\* leaves it open.  The adapter never keeps more than its limit.
AnswerIsTheOutcome ==
    /\ answer \in Codes =>
        /\ op = Outcome(answer)
        /\ \A s \in Streams : shown[s] =
            IF caller = "mcp" /\ made[s] > Limit THEN Bytes(Limit) ELSE Bytes(made[s])
        /\ truncated <=> caller = "mcp" /\ \E s \in Streams : made[s] > Limit
    /\ answer = "refused" => op \notin {"running", "succeeded"}
    /\ answer = "unsent" => op = "absent"
    /\ caller = "mcp" => \A s \in Streams : Len(shown[s]) <= Limit

\* The guardian gets the input in order, without gaps or repetitions, although
\* every chunk has a connection of its own and its answer may time out.
InputInOrder == stdin = Bytes(Len(stdin))

\* Why the input arrives in order.  The run is accepted once, before any input
\* flows, so the forwarding thread starts once; while it goes on the guardian
\* has all that was sent, and the one chunk on its way is the next.
AcceptedOnce ==
    /\ pc = "send" => thread = "none"
    /\ thread \in {"none", "reserve", "launch", "accept"} => wire = <<>> /\ feeder.pc = "none"
    /\ \A i \in 1 .. Len(wire) : wire[i].type = "accepted" => i = 1 /\ feeder.pc = "none"
OneChunk ==
    /\ feeder.pc = "none" => feeder.sent = 0
    /\ requests # {} =>
        /\ requests = {feeder.sent} /\ feeder.sent # 0 /\ reply = "none"
        /\ stdin = Bytes(feeder.sent - 1) /\ feeder.pc \in {"wait", "stopped"}
    /\ requests = {} /\ stdin # Bytes(feeder.sent) =>
        /\ feeder.sent # 0 /\ stdin = Bytes(feeder.sent - 1)
        /\ feeder.pc = "stopped" \/ (feeder.pc = "wait" /\ reply # "ok")
FeedInv ==
    /\ feeder \in [pc : {"none", "read", "wait", "stopped"}, sent : 0 .. Chunks]
    /\ wire \in Seq(Frame) /\ made \in [Streams -> 0 .. MaxBytes]
    /\ final \in {"none", "refused", "lost"} \union Codes
    /\ thread = "tell" => final # "none"
    /\ AcceptedOnce /\ OneChunk

\* Why the answer is the outcome.  The frames under way carry the output from
\* where the caller is (b[1]) to what the command wrote; an exit code is the last
\* frame of its connection, and only a connection that lost nothing takes it.
Spans(frame, from, to) ==
    IF frame.type = "output"
    THEN LET s == frame.stream
             n == Len(frame.data) IN
         /\ frame.data = [k \in 1 .. n |-> from[s] + k]
         /\ to = [from EXCEPT ![s] = @ + n]
    ELSE to = from
Carries(w, b) == \A i \in 1 .. Len(w) : Spans(w[i], b[i], b[i + 1])
Kept(n) == IF caller = "mcp" /\ n > Limit THEN Limit ELSE n
Shows(g) ==
    /\ shown = [s \in Streams |-> Bytes(Kept(g[s]))]
    /\ truncated <=> caller = "mcp" /\ \E s \in Streams : g[s] > Limit
Complete ==
    \/ stream # "closed" \/ result \in Codes
    \/ \E i \in 1 .. Len(wire) : wire[i].type \in Codes
OutputKept ==
    \E b \in [1 .. Len(wire) + 1 -> [Streams -> Nat]] :
        Carries(wire, b) /\ Shows(b[1]) /\ (Complete => b[Len(wire) + 1] = made)

OnRecord(type) ==
    /\ type \in Codes => op = Outcome(type)
    /\ type = "refused" => op \notin {"running", "succeeded"}
LastFrames ==
    \A i \in 1 .. Len(wire) : wire[i].type \in Codes \union {"refused", "lost"} =>
        i = Len(wire) /\ thread = "over" /\ OnRecord(wire[i].type)
ResultKept ==
    /\ pc \in {"send", "accept", "receive"} => result = "none"
    /\ result # "none" => stream # "open" /\ wire = <<>>
    /\ answer # "none" => pc = "done" /\ answer = result
    /\ OnRecord(result) /\ (result \in Codes \union {"refused"} => thread = "over")
    /\ pc = "send" \/ result = "unsent" => thread = "none"
    /\ thread \in {"none", "reserve"} => op = "absent"
    /\ stream \in IF thread = "none" THEN {"none"} ELSE {"open", "closed"}
    /\ thread = "tell" => OnRecord(final)
AnswerInv == caller \in Callers /\ OutputKept /\ LastFrames /\ ResultKept

\* The analytics count a tool call as successful just if the agent was told
\* exit code zero; a call they do not have is one the agent was warned about.
UsageAgrees ==
    caller = "mcp" /\ answer # "none" =>
        /\ recorded = "none" => warned
        /\ recorded # "none" => (recorded = "success" <=> answer = "zero")

UsageInv ==
    /\ answer # "none" => pc = "done" /\ answer = result
    /\ caller = "mcp" /\ pc \in {"join", "respond", "done"} =>
        /\ recorded = "none" => warned
        /\ recorded # "none" => (recorded = "success" <=> result = "zero")
        /\ pc # "join"

\* Once the operation is over, or the guardian got a signal, the command or the
\* tool call returns, although its threads still wait for input or for signals
\* (signal_handle.close, the forwarding thread nobody joins).
CallerReturns == (thread = "over" \/ cancelled) ~> pc = "done"
=============================================================================
