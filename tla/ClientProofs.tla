---------------------------- MODULE ClientProofs ----------------------------
(* Theorems about Client, for any amount of output and any number of chunks. *)
EXTENDS Client, SequenceTheorems, TLAPS

\* Chunks in order, and the next one.
LEMMA BytesInOrder ==
    ASSUME NEW n \in Nat
    PROVE /\ Bytes(n) \in Seq(Nat) /\ Len(Bytes(n)) = n
          /\ Append(Bytes(n), n + 1) = Bytes(n + 1)
  BY DEF Bytes

\* A frame more at the end of the connection, none but the first one accepting.
LEMMA FrameAppended ==
    ASSUME FeedInv, NEW frame \in Frame,
           frame.type = "accepted" => wire = <<>> /\ feeder.pc = "none"
    PROVE /\ Append(wire, frame) \in Seq(Frame)
          /\ \A i \in 1 .. Len(Append(wire, frame)) :
                Append(wire, frame)[i].type = "accepted" => i = 1 /\ feeder.pc = "none"
  BY DEF FeedInv, AcceptedOnce

\* What the service sends next.
LEMMA FrameSent ==
    ASSUME FeedInv, NEW frame \in Frame, SendFrame(frame), UNCHANGED feeder,
           frame.type = "accepted" => wire = <<>> /\ feeder.pc = "none"
    PROVE /\ wire' \in Seq(Frame)
          /\ \A i \in 1 .. Len(wire') :
                wire'[i].type = "accepted" => i = 1 /\ feeder'.pc = "none"
  BY FrameAppended DEF SendFrame, connection, FeedInv, AcceptedOnce

\* What it sends last.
LEMMA LastFrameSent ==
    ASSUME FeedInv, NEW type \in {"none", "refused", "lost"} \union Codes,
           type # "none", SendLast(type), UNCHANGED feeder
    PROVE /\ wire' \in Seq(Frame)
          /\ \A i \in 1 .. Len(wire') :
                wire'[i].type = "accepted" => i = 1 /\ feeder'.pc = "none"
  <1>1. [type |-> type] \in Frame /\ type # "accepted"
    BY DEF Frame, Codes
  <1> QED BY <1>1, FrameAppended DEF SendLast, FeedInv, AcceptedOnce

\* The parts of FeedInv about the connection survive a step of the caller
\* that returns.
LEMMA Returned ==
    ASSUME FeedInv, NEW r, Return(r), UNCHANGED <<thread, final, made, input>>,
           pc \in {"send", "accept", "receive"}
    PROVE FeedInv'
  BY DEF FeedInv, AcceptedOnce, OneChunk, Return, input

\* Steps that leave the connection and the input alone.
LEMMA Untouched ==
    ASSUME FeedInv, UNCHANGED <<thread, final, made, wire, input>>,
           pc' = "send" => pc = "send"
    PROVE FeedInv'
  BY DEF FeedInv, AcceptedOnce, OneChunk, input

\* Every step of the caller keeps FeedInv.
LEMMA CallerStep == FeedInv /\ Caller => FeedInv'
  <1> SUFFICES ASSUME FeedInv, Caller PROVE FeedInv'
    OBVIOUS
  <1>1. CASE Send
    <2>1. CASE Return("unsent") /\ UNCHANGED thread
      BY <1>1, <2>1, Returned DEF Send
    <2>2. CASE pc' = "accept" /\ thread' = "reserve" /\ UNCHANGED wire
      BY <1>1, <2>2 DEF Send, input, FeedInv, AcceptedOnce, OneChunk
    <2> QED BY <1>1, <2>1, <2>2 DEF Send
  <1>2. CASE Receive
    <2>0. UNCHANGED <<thread, final, made, requests, reply, stdin>>
      BY <1>2 DEF Receive, service
    <2>1. CASE \E r : Return(r) /\ UNCHANGED feeder
      BY <1>2, <2>0, <2>1, Returned DEF Receive, input
    <2>2. CASE /\ pc' = "receive" /\ wire' = Tail(wire)
               /\ \/ UNCHANGED feeder
                  \/ /\ Head(wire).type = "accepted"
                     /\ feeder' \in {feeder, [feeder EXCEPT !.pc = "read"]}
      <3>1. wire # <<>> /\ wire \in Seq(Frame)
        BY <1>2 DEF Receive, FeedInv
      <3>2. Head(wire) = wire[1] /\ 1 \in 1 .. Len(wire)
        BY <3>1
      <3>3. /\ Tail(wire) \in Seq(Frame)
            /\ \A i \in 1 .. Len(Tail(wire)) :
                  i + 1 \in 1 .. Len(wire) /\ Tail(wire)[i] = wire[i + 1]
        BY <3>1
      <3>4. \A i \in 1 .. Len(Tail(wire)) : Tail(wire)[i].type # "accepted"
        BY <3>3 DEF FeedInv, AcceptedOnce
      <3>5. thread \notin {"none", "reserve", "launch", "accept"}
        BY <3>1 DEF FeedInv, AcceptedOnce
      <3>6. feeder' = feeder \/
                (feeder.pc = "none" /\ feeder' = [feeder EXCEPT !.pc = "read"])
        BY <2>2, <3>2 DEF FeedInv, AcceptedOnce
      <3>7. AcceptedOnce'
        BY <2>0, <2>2, <3>4, <3>5 DEF AcceptedOnce
      <3>8. OneChunk' /\ feeder' \in
                [pc : {"none", "read", "wait", "stopped"}, sent : 0 .. Chunks]
        BY <2>0, <3>6 DEF FeedInv, OneChunk
      <3> QED BY <2>0, <2>2, <3>3, <3>7, <3>8 DEF FeedInv
    <2> QED BY <1>2, <2>1, <2>2 DEF Receive
  <1>3. CASE Disconnected
    BY <1>3, Returned DEF Disconnected, service
  <1>4. CASE Join \/ Record \/ Respond
    BY <1>4, Untouched DEF Join, Record, Respond, service, connection
  <1> QED BY <1>1, <1>2, <1>3, <1>4 DEF Caller

\* Every step of the handler thread and of the command keeps FeedInv.
LEMMA HandlerStep == FeedInv /\ (Handler \/ Output \/ Finish) => FeedInv'
  <1> SUFFICES ASSUME FeedInv, Handler \/ Output \/ Finish PROVE FeedInv'
    OBVIOUS
  <1>0. UNCHANGED <<pc, input>>
    BY DEF Handler, Reserve, Launch, Accept, Tell, Output, Finish, run
  <1>i. OneChunk' /\ UNCHANGED feeder
    BY <1>0 DEF FeedInv, OneChunk, input
  <1>1. CASE Reserve
    <2>1. CASE thread' = "launch" /\ UNCHANGED connection
      BY <1>0, <1>1, <1>i, <2>1 DEF Reserve, FeedInv, AcceptedOnce, connection, input
    <2>2. CASE thread' = "over" /\ SendLast("refused")
      <3>1. /\ wire' \in Seq(Frame)
            /\ \A i \in 1 .. Len(wire') :
                  wire'[i].type = "accepted" => i = 1 /\ feeder'.pc = "none"
        BY <1>i, <2>2, LastFrameSent
      <3> QED BY <1>0, <1>1, <1>i, <2>2, <3>1 DEF Reserve, FeedInv, AcceptedOnce
    <2> QED BY <1>1, <2>1, <2>2 DEF Reserve
  <1>2. CASE Launch
    BY <1>0, <1>2, <1>i DEF Launch, FeedInv, AcceptedOnce, connection, Codes
  <1>3. CASE Accept
    <2>1. [type |-> "accepted"] \in Frame
      BY DEF Frame
    <2>2. wire = <<>> /\ feeder.pc = "none"
      BY <1>3 DEF Accept, FeedInv, AcceptedOnce
    <2>3. SendFrame([type |-> "accepted"])
      BY <1>3 DEF Accept
    <2>4. /\ wire' \in Seq(Frame)
          /\ \A i \in 1 .. Len(wire') :
                wire'[i].type = "accepted" => i = 1 /\ feeder'.pc = "none"
      BY <1>i, <2>1, <2>2, <2>3, FrameSent
    <2> QED BY <1>0, <1>3, <1>i, <2>4 DEF Accept, FeedInv, AcceptedOnce
  <1>4. CASE Output
    <2>1. PICK s \in Streams, n \in 1 .. MaxFrame :
            /\ made[s] + n <= MaxBytes
            /\ made' = [made EXCEPT ![s] = @ + n]
            /\ SendFrame([type |-> "output", stream |-> s,
                          data |-> [i \in 1 .. n |-> made[s] + i]])
      BY <1>4 DEF Output
    <2>2. made[s] \in Nat /\ n \in Nat /\ made' \in [Streams -> 0 .. MaxBytes]
      BY <2>1, ClientAssumption DEF FeedInv
    <2>3. [i \in 1 .. n |-> made[s] + i] \in Seq(1 .. MaxBytes)
      <3>1. \A i \in 1 .. n : made[s] + i \in 1 .. MaxBytes
        BY <2>1, <2>2, ClientAssumption
      <3> QED BY <2>2, <3>1
    <2>4. [type |-> "output", stream |-> s,
           data |-> [i \in 1 .. n |-> made[s] + i]] \in Frame
      BY <2>3 DEF Frame
    <2>5. /\ wire' \in Seq(Frame)
          /\ \A i \in 1 .. Len(wire') :
                wire'[i].type = "accepted" => i = 1 /\ feeder'.pc = "none"
      BY <1>i, <2>1, <2>4, FrameSent
    <2> QED BY <1>0, <1>4, <1>i, <2>2, <2>5 DEF Output, FeedInv, AcceptedOnce
  <1>5. CASE Finish
    BY <1>0, <1>5, <1>i DEF Finish, FeedInv, AcceptedOnce, connection, Codes
  <1>6. CASE Tell
    <2>1. /\ wire' \in Seq(Frame)
          /\ \A i \in 1 .. Len(wire') :
                wire'[i].type = "accepted" => i = 1 /\ feeder'.pc = "none"
      BY <1>6, <1>i, LastFrameSent DEF Tell, FeedInv
    <2> QED BY <1>0, <1>6, <1>i, <2>1 DEF Tell, FeedInv, AcceptedOnce
  <1> QED BY <1>1, <1>2, <1>3, <1>4, <1>5, <1>6 DEF Handler

\* Every step of the input keeps FeedInv.
LEMMA InputStep == FeedInv /\ Input => FeedInv'
  <1> SUFFICES ASSUME FeedInv, Input PROVE FeedInv'
    OBVIOUS
  <1> USE ClientAssumption
  <1>0. UNCHANGED <<pc, thread, final, made, wire>>
    BY DEF Input, Feed, Hear, Control, run, service, connection
  <1>s. feeder.sent \in Nat
    BY DEF FeedInv
  <1>1. CASE Feed
    <2>0. requests = {} /\ stdin = Bytes(feeder.sent) /\ feeder.pc = "read"
      BY <1>1 DEF Feed, FeedInv, OneChunk
    <2>1. feeder'.pc # "none" /\ feeder.pc # "none" /\ feeder'.sent \in 0 .. Chunks
            /\ feeder' \in [pc : {"wait", "stopped"}, sent : 0 .. Chunks]
      BY <1>1, <1>s DEF Feed, FeedInv
    <2>2. OneChunk'
      BY <1>1, <1>s, <2>0 DEF Feed, FeedInv, OneChunk
    <2> QED BY <1>0, <2>1, <2>2 DEF FeedInv, AcceptedOnce
  <1>2. CASE Hear
    <2>1. feeder.pc = "wait" /\ feeder' \in [pc : {"read", "stopped"}, sent : 0 .. Chunks]
            /\ feeder'.sent = feeder.sent /\ (feeder'.pc = "read" => reply = "ok")
      BY <1>2 DEF Hear, GoesOn, FeedInv
    <2>2. OneChunk'
      BY <1>2, <2>1 DEF Hear, FeedInv, OneChunk
    <2> QED BY <1>0, <2>1, <2>2 DEF FeedInv, AcceptedOnce
  <1>3. ASSUME NEW n \in 1 .. Chunks, Control(n) PROVE FeedInv'
    <2>1. n = feeder.sent /\ requests' = {} /\ stdin = Bytes(n - 1)
            /\ feeder.pc \in {"wait", "stopped"} /\ UNCHANGED feeder
      BY <1>3 DEF Control, FeedInv, OneChunk
    <2>2. Append(Bytes(n - 1), n) = Bytes(n)
      <3>1. n - 1 \in Nat /\ (n - 1) + 1 = n
        OBVIOUS
      <3>2. Append(Bytes(n - 1), (n - 1) + 1) = Bytes((n - 1) + 1)
        BY <3>1, BytesInOrder
      <3> QED BY <3>1, <3>2
    <2>3. \/ stdin' = Bytes(n)
          \/ stdin' = Bytes(n - 1) /\ reply' # "ok"
      BY <1>3, <2>1, <2>2 DEF Control
    <2>4. OneChunk'
      BY <1>3, <2>1, <2>3 DEF FeedInv, OneChunk
    <2> QED BY <1>0, <2>1, <2>4 DEF FeedInv, AcceptedOnce
  <1> QED BY <1>1, <1>2, <1>3 DEF Input

\* FeedInv is inductive.
LEMMA FeedStep == FeedInv /\ [Next]_vars => FeedInv'
  <1> SUFFICES ASSUME FeedInv, [Next]_vars PROVE FeedInv'
    OBVIOUS
  <1>1. CASE Crash
    BY <1>1 DEF Crash, run, FeedInv, AcceptedOnce, OneChunk
  <1>2. CASE Signalling \/ SignalComes
    <2>1. UNCHANGED <<run, service, connection, input>>
      BY <1>2 DEF Signalling, Forward, Forwarded, Leave, SignalComes
    <2> QED BY <2>1, Untouched DEF run, service, connection
  <1>3. CASE UNCHANGED vars
    BY <1>3, Untouched DEF vars, run, service, connection
  <1> QED BY <1>1, <1>2, <1>3, CallerStep, HandlerStep, InputStep DEF Next

\* Nothing is sent yet.
LEMMA FeedInit == Init => FeedInv
  BY ClientAssumption, BytesInOrder
     DEF Init, FeedInv, AcceptedOnce, OneChunk, Bytes, Streams

\* However requests, answers and crashes interleave, the run is accepted once
\* and at most one chunk of its input is on the way.
THEOREM FeedInvariant == Spec => []FeedInv
  BY FeedInit, FeedStep, PTL DEF Spec

\* The guardian gets a beginning of the input: in order, without gaps or
\* repetitions, for any number of chunks, timeouts and crashes.
THEOREM InputArrivesInOrder == Spec => []InputInOrder
  <1>1. FeedInv => InputInOrder
    <2> SUFFICES ASSUME FeedInv PROVE InputInOrder
      OBVIOUS
    <2>1. \E n \in Nat : stdin = Bytes(n)
      BY ClientAssumption DEF FeedInv, OneChunk
    <2> QED BY <2>1, BytesInOrder DEF InputInOrder
  <1> QED BY <1>1, FeedInvariant, PTL

-----------------------------------------------------------------------------
(* The answer is the outcome *)

\* Positions in the streams.
Offsets == [Streams -> Nat]

\* What is still under way when the first frame is gone.
LEMMA FirstGone ==
    ASSUME NEW w \in Seq(Frame), w # <<>>,
           NEW b \in [1 .. Len(w) + 1 -> Offsets], Carries(w, b)
    PROVE \E c \in [1 .. Len(Tail(w)) + 1 -> Offsets] :
            Carries(Tail(w), c) /\ c[1] = b[2] /\ c[Len(Tail(w)) + 1] = b[Len(w) + 1]
  <1> DEFINE c == [i \in 1 .. Len(w) |-> b[i + 1]]
  <1>1. /\ Len(w) \in Nat \ {0} /\ Len(Tail(w)) = Len(w) - 1
        /\ \A i \in 1 .. Len(Tail(w)) : Tail(w)[i] = w[i + 1] /\ i + 1 \in 1 .. Len(w)
    OBVIOUS
  <1>2. c \in [1 .. Len(Tail(w)) + 1 -> Offsets]
    BY <1>1
  <1>3. ASSUME NEW i \in 1 .. Len(Tail(w))
        PROVE Tail(w)[i] = w[i + 1] /\ i + 1 \in 1 .. Len(w)
                /\ c[i] = b[i + 1] /\ c[i + 1] = b[(i + 1) + 1]
    BY <1>1
  <1>4. Carries(Tail(w), c)
    <2> SUFFICES ASSUME NEW i \in 1 .. Len(Tail(w))
                 PROVE Spans(Tail(w)[i], c[i], c[i + 1])
      BY DEF Carries
    <2>1. Spans(w[i + 1], b[i + 1], b[(i + 1) + 1])
      BY <1>3 DEF Carries
    <2> QED BY <1>3, <2>1
  <1>5. c[1] = b[2] /\ c[Len(Tail(w)) + 1] = b[Len(w) + 1]
    BY <1>1
  <1> QED BY <1>2, <1>4, <1>5

\* A frame more: where it begins the frames before it end.
LEMMA OneMore ==
    ASSUME NEW w \in Seq(Frame), NEW f \in Frame, NEW e \in Offsets,
           NEW b \in [1 .. Len(w) + 1 -> Offsets], Carries(w, b),
           Spans(f, b[Len(w) + 1], e)
    PROVE \E c \in [1 .. Len(Append(w, f)) + 1 -> Offsets] :
            Carries(Append(w, f), c) /\ c[1] = b[1] /\ c[Len(Append(w, f)) + 1] = e
  <1> DEFINE v == Append(w, f)
             c == [i \in 1 .. Len(w) + 2 |-> IF i = Len(w) + 2 THEN e ELSE b[i]]
  <1>1. /\ Len(w) \in Nat /\ Len(v) = Len(w) + 1 /\ v[Len(w) + 1] = f
        /\ \A i \in 1 .. Len(w) : v[i] = w[i]
    OBVIOUS
  <1>2. c \in [1 .. Len(v) + 1 -> Offsets]
    BY <1>1
  <1>3. ASSUME NEW i \in 1 .. Len(w)
        PROVE v[i] = w[i] /\ c[i] = b[i] /\ c[i + 1] = b[i + 1]
    BY <1>1
  <1>4. c[Len(w) + 1] = b[Len(w) + 1] /\ c[(Len(w) + 1) + 1] = e /\ c[1] = b[1]
    BY <1>1
  <1>5. \A i \in 1 .. Len(v) : i \in 1 .. Len(w) \/ i = Len(w) + 1
    BY <1>1
  <1> HIDE DEF c, v
  <1>6. Carries(v, c)
    <2> SUFFICES ASSUME NEW i \in 1 .. Len(v)
                 PROVE Spans(v[i], c[i], c[i + 1])
      BY DEF Carries
    <2>1. CASE i \in 1 .. Len(w)
      BY <1>3, <2>1 DEF Carries
    <2>2. CASE i = Len(w) + 1
      BY <1>1, <1>4, <2>2
    <2> QED BY <1>5, <2>1, <2>2
  <1>7. c[Len(v) + 1] = e
    BY <1>1, <1>4
  <1> QED BY <1>2, <1>4, <1>6, <1>7 DEF v

\* Bytes in order, and the next ones.
LEMMA BytesJoined ==
    ASSUME NEW p \in Nat, NEW m \in Nat
    PROVE Bytes(p) \o [k \in 1 .. m |-> p + k] = Bytes(p + m)
  <1> DEFINE s == Bytes(p)
             t == [k \in 1 .. m |-> p + k]
             u == Bytes(p + m)
  <1>1. /\ s \in Seq(Nat) /\ Len(s) = p /\ \A i \in 1 .. p : s[i] = i
        /\ t \in Seq(Nat) /\ Len(t) = m /\ \A i \in 1 .. m : t[i] = p + i
        /\ u \in Seq(Nat) /\ Len(u) = p + m /\ \A i \in 1 .. p + m : u[i] = i
    BY DEF Bytes
  <1> HIDE DEF s, t, u
  <1>2. /\ s \o t \in Seq(Nat) /\ Len(s \o t) = p + m
        /\ \A i \in 1 .. p + m : (s \o t)[i] = IF i <= p THEN s[i] ELSE t[i - p]
    BY <1>1, ConcatProperties
  <1>3. \A i \in 1 .. p + m : (s \o t)[i] = i
    <2> SUFFICES ASSUME NEW i \in 1 .. p + m PROVE (s \o t)[i] = i
      OBVIOUS
    <2>1. CASE i <= p
      BY <1>1, <1>2, <2>1
    <2>2. CASE ~ (i <= p)
      <3>1. i - p \in 1 .. m
        BY <2>2
      <3> QED BY <1>1, <1>2, <2>2, <3>1
    <2> QED BY <2>1, <2>2
  <1>4. s \o t = u
    BY <1>1, <1>2, <1>3, SeqEqual
  <1> QED BY <1>4 DEF s, t, u

\* What the adapter and the command pass on of the next bytes of a stream.
LEMMA NextBytes ==
    ASSUME NEW p \in Nat, NEW n \in Nat, NEW taken,
           taken = IF caller = "mcp"
                   THEN Taken([k \in 1 .. n |-> p + k], Bytes(Kept(p)))
                   ELSE [k \in 1 .. n |-> p + k]
    PROVE /\ Bytes(Kept(p)) \o taken = Bytes(Kept(p + n))
          /\ Len(taken) < n => caller = "mcp" /\ p + n > Limit
          /\ caller = "mcp" /\ p + n > Limit => Len(taken) < n \/ p > Limit
  <1> DEFINE data == [k \in 1 .. n |-> p + k]
             m == IF caller = "mcp" /\ p + n > Limit THEN Limit - Kept(p) ELSE n
  <1>0. /\ Limit \in Nat /\ Kept(p) \in Nat /\ Kept(p + n) \in Nat
        /\ Len(data) = n /\ data \in Seq(Nat) /\ Len(Bytes(Kept(p))) = Kept(p)
    <2>1. Limit \in Nat /\ Kept(p) \in Nat /\ Kept(p + n) \in Nat
      BY ClientAssumption DEF Kept
    <2>2. Len(data) = n /\ data \in Seq(Nat)
      OBVIOUS
    <2> HIDE DEF data
    <2> QED BY <2>1, <2>2, BytesInOrder
  <1>1. /\ m \in 0 .. n /\ Kept(p) + m = Kept(p + n) /\ (m = 0 \/ Kept(p) = p)
        /\ m < n => caller = "mcp" /\ p + n > Limit
        /\ caller = "mcp" /\ p + n > Limit => m < n \/ p > Limit
    BY <1>0 DEF Kept
  <1>2. taken = [k \in 1 .. m |-> p + k]
    <2>1. CASE caller = "mcp" /\ n > Limit - Kept(p)
      <3>1. taken = SubSeq(data, 1, Limit - Kept(p))
        BY <1>0, <2>1 DEF Taken
      <3>2. m = Limit - Kept(p)
        BY <1>0, <2>1 DEF Kept
      <3>3. SubSeq(data, 1, m) = [k \in 1 .. m |-> p + k]
        BY <1>0, <1>1
      <3> QED BY <3>1, <3>2, <3>3
    <2>2. CASE caller = "mcp" /\ n <= Limit - Kept(p)
      <3>1. taken = data
        BY <1>0, <2>2 DEF Taken
      <3>2. m = n
        BY <1>0, <2>2 DEF Kept
      <3> QED BY <3>1, <3>2
    <2>3. CASE caller # "mcp"
      BY <2>3
    <2> QED BY <1>0, <2>1, <2>2, <2>3
  <1>3. Len(taken) = m
    BY <1>1, <1>2
  <1> HIDE DEF m
  <1>4. Bytes(Kept(p)) \o taken = Bytes(Kept(p) + m)
    <2>1. [k \in 1 .. m |-> p + k] = [k \in 1 .. m |-> Kept(p) + k]
      BY <1>1
    <2>2. m \in Nat
      BY <1>0, <1>1
    <2>3. Bytes(Kept(p)) \o [k \in 1 .. m |-> Kept(p) + k] = Bytes(Kept(p) + m)
      BY <1>0, <2>2, BytesJoined
    <2> QED BY <1>2, <2>1, <2>3
  <1> QED BY <1>1, <1>3, <1>4

\* The results there are.
Results == {"none", "unsent", "refused", "lost"} \union Codes

\* What the first frame is.
LEMMA FirstFrame ==
    ASSUME FeedInv, wire # <<>>
    PROVE /\ Len(wire) \in Nat /\ 1 \in 1 .. Len(wire) /\ Head(wire) = wire[1]
          /\ Head(wire) \in Frame /\ Tail(wire) \in Seq(Frame)
          /\ Len(Tail(wire)) = Len(wire) - 1
          /\ \A i \in 1 .. Len(Tail(wire)) : Tail(wire)[i] = wire[i + 1] /\ i + 1 \in 1 .. Len(wire)
          /\ Head(wire).type \in {"accepted", "output", "refused", "lost"} \union Codes
  <1>1. wire \in Seq(Frame)
    BY DEF FeedInv
  <1>2. \A f \in Frame : f.type \in {"accepted", "output", "refused", "lost"} \union Codes
    BY DEF Frame
  <1> QED BY <1>1, <1>2

\* The caller returns: with what the last frame says, or without an answer.
LEMMA AnswerReturned ==
    ASSUME FeedInv, AnswerInv, NEW r, Return(r), pc \in {"send", "accept", "receive"},
           UNCHANGED <<caller, shown, truncated, op, thread, final, made>>,
           \/ r = "lost"
           \/ r = "unsent" /\ pc = "send"
           \/ wire # <<>> /\ r = Head(wire).type /\ r \notin {"accepted", "output"}
    PROVE AnswerInv'
  <1>1. /\ result' = r /\ wire' = <<>> /\ pc' \notin {"send", "accept", "receive"}
        /\ stream' = (IF stream = "none" THEN "none" ELSE "closed")
        /\ answer' # "none" => pc' = "done" /\ answer' = r
    BY DEF Return, AnswerInv, ResultKept
  <1>2. /\ r \in {"lost", "unsent", "refused"} \union Codes
        /\ r = "unsent" => thread = "none"
        /\ OnRecord(r) /\ (r \in Codes \union {"refused"} => thread = "over")
    <2>1. CASE r \in {"lost", "unsent"}
      <3>1. r = "unsent" => thread = "none"
        BY <2>1, FirstFrame DEF AnswerInv, ResultKept, Codes
      <3> QED BY <2>1, <3>1 DEF OnRecord, Codes
    <2>2. CASE r \notin {"lost", "unsent"}
      <3>1. wire # <<>> /\ r = wire[1].type /\ r \in {"refused", "lost"} \union Codes
        BY <2>2, FirstFrame DEF Codes
      <3>2. \E i \in 1 .. Len(wire) : wire[i].type = r
        BY <3>1, FirstFrame
      <3>3. thread = "over" /\ OnRecord(r)
        BY <3>1, <3>2 DEF AnswerInv, LastFrames
      <3> QED BY <2>2, <3>1, <3>3
    <2> QED BY <2>1, <2>2
  <1>3. ResultKept'
    BY <1>1, <1>2 DEF AnswerInv, ResultKept, OnRecord, Outcome
  <1>4. LastFrames'
    BY <1>1 DEF LastFrames
  <1>5. PICK b \in [1 .. Len(wire) + 1 -> [Streams -> Nat]] :
            Carries(wire, b) /\ Shows(b[1]) /\ (Complete => b[Len(wire) + 1] = made)
    BY DEF AnswerInv, OutputKept
  <1>6. OutputKept'
    <2> DEFINE c == [i \in 1 .. 1 |-> b[1]]
    <2>1. c \in [1 .. Len(wire') + 1 -> [Streams -> Nat]] /\ c[1] = b[1]
            /\ c[Len(wire') + 1] = b[1] /\ Len(wire') = 0
      <3>1. wire \in Seq(Frame)
        BY DEF FeedInv
      <3> QED BY <1>1, <3>1
    <2>2. Carries(wire', c)
      BY <1>1 DEF Carries
    <2>3. Shows(c[1])'
      <3>1. Shows(b[1])'
        BY <1>5 DEF Shows, Kept
      <3> QED BY <3>1
    <2>4. Complete' => b[1] = made
      <3>1. CASE stream = "none"
        BY <1>5, <3>1 DEF AnswerInv, ResultKept, FeedInv, AcceptedOnce, Complete
      <3>2. CASE r \in Codes
        <4>1. wire # <<>> /\ r = Head(wire).type
          BY <3>2 DEF Codes
        <4>2. Len(wire) = 1 /\ wire[1].type \in Codes
          BY <3>2, <4>1, FirstFrame DEF AnswerInv, LastFrames
        <4>3. Spans(wire[1], b[1], b[1 + 1]) /\ Complete
          BY <1>5, <4>2 DEF Carries, Complete
        <4> QED BY <1>5, <4>2, <4>3 DEF Spans, Codes
      <3> QED BY <1>1, <3>1, <3>2 DEF Complete
    <2> HIDE DEF c
    <2> QED BY <2>1, <2>2, <2>3, <2>4 DEF OutputKept
  <1> QED BY <1>3, <1>4, <1>6 DEF AnswerInv

\* Every step of the caller keeps AnswerInv.
LEMMA AnswerCaller == FeedInv /\ AnswerInv /\ Caller => AnswerInv'
  <1> SUFFICES ASSUME FeedInv, AnswerInv, Caller PROVE AnswerInv'
    OBVIOUS
  <1>1. CASE Send
    <2>1. CASE Return("unsent") /\ UNCHANGED thread
      BY <1>1, <2>1, AnswerReturned DEF Send
    <2>2. CASE /\ pc' = "accept" /\ thread' = "reserve" /\ stream' = "open"
               /\ UNCHANGED <<wire, result, answer>>
      <3>1. thread = "none" /\ stream = "none" /\ op = "absent" /\ result = "none"
        BY <1>1 DEF Send, AnswerInv, ResultKept
      <3>2. ResultKept' /\ LastFrames'
        BY <1>1, <2>2, <3>1 DEF Send, AnswerInv, ResultKept, LastFrames, OnRecord, Codes,
           FeedInv, AcceptedOnce
      <3>3. OutputKept'
        BY <1>1, <2>2, <3>1 DEF Send, AnswerInv, OutputKept, Shows, Kept, Complete, Codes
      <3> QED BY <1>1, <3>2, <3>3 DEF Send, AnswerInv
    <2> QED BY <1>1, <2>1, <2>2 DEF Send
  <1>2. CASE Receive
    <2> DEFINE frame == Head(wire)
    <2>0. /\ wire # <<>> /\ pc \in {"accept", "receive"}
          /\ UNCHANGED <<caller, op, thread, final, made>>
      BY <1>2 DEF Receive, service
    <2>1. CASE Return("lost") /\ UNCHANGED <<shown, truncated>>
      BY <2>0, <2>1, AnswerReturned
    <2>2. CASE /\ frame.type \notin {"accepted", "output"}
               /\ Return(frame.type) /\ UNCHANGED <<shown, truncated>>
      BY <2>0, <2>2, AnswerReturned
    <2>3. CASE /\ frame.type \in {"accepted", "output"}
               /\ pc' = "receive" /\ wire' = Tail(wire)
               /\ IF frame.type = "output" THEN Show(frame)
                                           ELSE UNCHANGED <<shown, truncated>>
               /\ UNCHANGED <<stream, result, answer>>
      <3>1. PICK b \in [1 .. Len(wire) + 1 -> Offsets] :
                Carries(wire, b) /\ Shows(b[1]) /\ (Complete => b[Len(wire) + 1] = made)
        BY DEF AnswerInv, OutputKept, Offsets
      <3>2. wire \in Seq(Frame)
        BY DEF FeedInv
      <3>3. PICK c \in [1 .. Len(Tail(wire)) + 1 -> Offsets] :
                /\ Carries(Tail(wire), c) /\ c[1] = b[2]
                /\ c[Len(Tail(wire)) + 1] = b[Len(wire) + 1]
        BY <2>0, <3>1, <3>2, FirstGone
      <3>4. Spans(frame, b[1], b[2]) /\ b[1] \in Offsets
        <4>1. Spans(wire[1], b[1], b[1 + 1])
          BY <2>0, <3>1, FirstFrame DEF Carries
        <4> QED BY <2>0, <4>1, FirstFrame
      <3>5. Shows(b[2])'
        <4>1. CASE frame.type = "accepted"
          BY <2>0, <2>3, <3>1, <3>4, <4>1 DEF Spans, Shows, Kept
        <4>2. CASE frame.type = "output"
          <5> DEFINE s == frame.stream
                     n == Len(frame.data)
                     g == b[1]
                     taken == IF caller = "mcp" THEN Taken(frame.data, shown[s]) ELSE frame.data
          <5>1. s \in Streams /\ n \in Nat /\ g[s] \in Nat
            <6>1. frame \in [type : {"output"}, stream : Streams, data : Seq(1 .. MaxBytes)]
              BY <2>0, <4>2, FirstFrame DEF Frame, Codes
            <6> QED BY <3>4, <6>1 DEF Offsets
          <5>2. /\ frame.data = [k \in 1 .. n |-> g[s] + k]
                /\ b[2] = [g EXCEPT ![s] = g[s] + n]
            BY <3>4, <4>2 DEF Spans
          <5>3. /\ shown' = [shown EXCEPT ![s] = shown[s] \o taken]
                /\ truncated' = (truncated \/ Len(taken) < n)
            BY <2>3, <4>2 DEF Show
          <5>4. /\ shown[s] = Bytes(Kept(g[s]))
                /\ \A t \in Streams : shown[t] = Bytes(Kept(g[t]))
                /\ truncated <=> caller = "mcp" /\ \E t \in Streams : g[t] > Limit
            BY <3>1, <5>1 DEF Shows
          <5>5. taken = IF caller = "mcp"
                        THEN Taken([k \in 1 .. n |-> g[s] + k], Bytes(Kept(g[s])))
                        ELSE [k \in 1 .. n |-> g[s] + k]
            BY <5>2, <5>4
          <5> HIDE DEF taken, n, s, g, frame
          <5>6. /\ Bytes(Kept(g[s])) \o taken = Bytes(Kept(g[s] + n))
                /\ Len(taken) < n => caller = "mcp" /\ g[s] + n > Limit
                /\ caller = "mcp" /\ g[s] + n > Limit => Len(taken) < n \/ g[s] > Limit
            BY <5>1, <5>5, NextBytes
          <5>7. b[2][s] = g[s] + n /\ \A t \in Streams \ {s} : b[2][t] = g[t]
            BY <3>4, <5>1, <5>2 DEF Offsets, g
          <5>8. shown' = [t \in Streams |-> Bytes(Kept(b[2][t]))]
            <6>1. ASSUME NEW t \in Streams PROVE shown'[t] = Bytes(Kept(b[2][t]))
              BY <3>1, <5>1, <5>3, <5>4, <5>6, <5>7 DEF Shows
            <6>2. shown' = [t \in Streams |-> shown'[t]]
              BY <3>1, <5>3 DEF Shows
            <6> QED BY <6>1, <6>2
          <5>9. truncated' <=> caller = "mcp" /\ \E t \in Streams : b[2][t] > Limit
            <6>1. CASE caller # "mcp"
              BY <5>3, <5>4, <5>6, <6>1
            <6>2. CASE caller = "mcp"
              <7>1. g[s] > Limit => g[s] + n > Limit
                BY <5>1, ClientAssumption
              <7>2. (\E t \in Streams : b[2][t] > Limit)
                        <=> (\E t \in Streams : g[t] > Limit) \/ g[s] + n > Limit
                <8>1. \A t \in Streams : t = s \/ t \in Streams \ {s}
                  OBVIOUS
                <8> QED BY <5>1, <5>7, <7>1, <8>1
              <7>3. truncated' <=> (\E t \in Streams : g[t] > Limit) \/ g[s] + n > Limit
                BY <5>1, <5>3, <5>4, <5>6, <6>2, <7>1
              <7> QED BY <6>2, <7>2, <7>3
            <6> QED BY <6>1, <6>2
          <5> QED BY <2>0, <5>8, <5>9 DEF Shows, Kept
        <4> QED BY <2>3, <4>1, <4>2
      <3>6. OutputKept'
        <4>1. Complete' => Complete
          BY <2>3, FirstFrame, <2>0 DEF Complete
        <4> QED BY <2>0, <2>3, <3>1, <3>3, <3>5, <4>1 DEF OutputKept, Offsets
      <3>7. LastFrames'
        <4>1. \A i \in 1 .. Len(wire') : wire'[i] = wire[i + 1] /\ i + 1 \in 1 .. Len(wire)
                                        /\ (i + 1 = Len(wire) => i = Len(wire'))
          <5>1. /\ wire' = Tail(wire) /\ Len(wire') = Len(wire) - 1 /\ Len(wire) \in Nat
                /\ \A i \in 1 .. Len(wire') : wire'[i] = wire[i + 1] /\ i + 1 \in 1 .. Len(wire)
            BY <2>0, <2>3, FirstFrame
          <5> QED BY <5>1
        <4>2. \A type : OnRecord(type)' <=> OnRecord(type)
          BY <2>0 DEF OnRecord
        <4> QED BY <2>0, <4>1, <4>2 DEF AnswerInv, LastFrames
      <3>8. ResultKept'
        BY <2>0, <2>3 DEF AnswerInv, ResultKept, OnRecord
      <3> QED BY <2>0, <3>6, <3>7, <3>8 DEF AnswerInv
    <2> QED BY <1>2, <2>1, <2>2, <2>3 DEF Receive
  <1>3. CASE Disconnected
    BY <1>3, AnswerReturned DEF Disconnected, service
  <1>4. CASE Join \/ Record \/ Respond
    <2>1. UNCHANGED <<caller, result, shown, truncated, op, thread, final, made, stream, wire>>
      BY <1>4 DEF Join, Record, Respond, service, connection
    <2>2. ResultKept'
      BY <1>4, <2>1 DEF Join, Record, Respond, AnswerInv, ResultKept, OnRecord
    <2>3. OutputKept' /\ LastFrames'
      BY <2>1 DEF AnswerInv, OutputKept, LastFrames, OnRecord, Shows, Kept, Complete
    <2> QED BY <2>1, <2>2, <2>3 DEF AnswerInv
  <1> QED BY <1>1, <1>2, <1>3, <1>4 DEF Caller

\* Steps that leave the caller's side and the connection alone, and do not
\* contradict a result on its way.
LEMMA AnswerUntouched ==
    ASSUME FeedInv, AnswerInv, UNCHANGED <<run, stream, wire, made>>,
           thread' = "over" <=> thread = "over", thread' # "none" /\ thread # "none",
           thread = "over" => UNCHANGED op, thread' \in {"none", "reserve"} => op' = "absent",
           thread' = "tell" => OnRecord(final)'
    PROVE AnswerInv'
  <1>1. OutputKept'
    BY DEF AnswerInv, OutputKept, run, Shows, Kept, Complete
  <1>2. LastFrames'
    BY DEF AnswerInv, LastFrames, OnRecord
  <1>3. ResultKept'
    BY DEF AnswerInv, ResultKept, run, OnRecord
  <1> QED BY <1>1, <1>2, <1>3 DEF AnswerInv, run

\* A frame of the accepted operation is sent, or the connection is dropped.
LEMMA AnswerSent ==
    ASSUME FeedInv, AnswerInv, NEW frame \in Frame, frame.type \in {"accepted", "output"},
           SendFrame(frame), UNCHANGED <<run, op>>,
           thread \in {"accept", "stream"}, thread' = "stream",
           made' \in [Streams -> Nat], Spans(frame, made, made')
    PROVE AnswerInv'
  <1>1. thread \notin {"over", "none"} /\ thread' \notin {"over", "none", "reserve", "tell"}
    OBVIOUS
  <1>2. /\ result \notin Codes /\ wire \in Seq(Frame)
        /\ \A i \in 1 .. Len(wire) : wire[i].type \notin Codes \union {"refused", "lost"}
    BY <1>1 DEF AnswerInv, ResultKept, LastFrames, FeedInv
  <1>3. ResultKept'
    BY <1>1 DEF AnswerInv, ResultKept, run, OnRecord, SendFrame, connection
  <1>4. PICK b \in [1 .. Len(wire) + 1 -> Offsets] :
            Carries(wire, b) /\ Shows(b[1]) /\ (Complete => b[Len(wire) + 1] = made)
    BY DEF AnswerInv, OutputKept, Offsets
  <1>5. Shows(b[1])'
    BY <1>4 DEF run, Shows, Kept
  <1>6. CASE stream = "open" /\ stream' = "open" /\ wire' = Append(wire, frame)
    <2>1. b[Len(wire) + 1] = made
      BY <1>4, <1>6 DEF Complete
    <2>2. PICK c \in [1 .. Len(Append(wire, frame)) + 1 -> Offsets] :
            /\ Carries(Append(wire, frame), c) /\ c[1] = b[1]
            /\ c[Len(Append(wire, frame)) + 1] = made'
      <3>1. made' \in Offsets
        BY DEF Offsets
      <3> QED BY <1>2, <1>4, <2>1, <3>1, OneMore
    <2>3. OutputKept'
      BY <1>5, <1>6, <2>2 DEF OutputKept, Offsets
    <2>4. LastFrames'
      <3>1. \A i \in 1 .. Len(wire') : wire'[i].type \notin Codes \union {"refused", "lost"}
        BY <1>2, <1>6 DEF Codes
      <3> QED BY <3>1 DEF LastFrames
    <2> QED BY <1>3, <2>3, <2>4 DEF AnswerInv, run
  <1>7. CASE stream' = "closed" /\ UNCHANGED wire
    <2>1. ~ Complete'
      BY <1>2, <1>7 DEF Complete, run
    <2>2. OutputKept'
      BY <1>4, <1>5, <1>7, <2>1 DEF OutputKept, Offsets
    <2>3. LastFrames'
      BY <1>2, <1>7 DEF LastFrames
    <2> QED BY <1>3, <2>2, <2>3 DEF AnswerInv, run
  <1>8. stream \in {"open", "closed"}
    BY <1>1 DEF AnswerInv, ResultKept
  <1> QED BY <1>6, <1>7, <1>8 DEF SendFrame, connection

\* The last frame is sent, or the connection is dropped without it.
LEMMA AnswerToldLast ==
    ASSUME FeedInv, AnswerInv, NEW type \in {"refused", "lost"} \union Codes,
           SendLast(type), UNCHANGED <<run, made>>,
           thread \notin {"none", "over"}, thread' = "over", OnRecord(type)'
    PROVE AnswerInv'
  <1>1. /\ result \notin Codes \union {"refused"} /\ wire \in Seq(Frame)
        /\ \A i \in 1 .. Len(wire) : wire[i].type \notin Codes \union {"refused", "lost"}
    BY DEF AnswerInv, ResultKept, LastFrames, FeedInv
  <1>2. ResultKept'
    BY <1>1 DEF AnswerInv, ResultKept, run, OnRecord, SendLast
  <1>3. PICK b \in [1 .. Len(wire) + 1 -> Offsets] :
            Carries(wire, b) /\ Shows(b[1]) /\ (Complete => b[Len(wire) + 1] = made)
    BY DEF AnswerInv, OutputKept, Offsets
  <1>4. Shows(b[1])'
    BY <1>3 DEF run, Shows, Kept
  <1>5. CASE stream = "open" /\ wire' = Append(wire, [type |-> type])
    <2> DEFINE frame == [type |-> type]
    <2>0. frame \in Frame /\ frame.type = type /\ type # "output"
      BY DEF Frame, Codes
    <2> HIDE DEF frame
    <2>1. b[Len(wire) + 1] = made
      BY <1>3, <1>5 DEF Complete
    <2>2. PICK c \in [1 .. Len(Append(wire, frame)) + 1 -> Offsets] :
            /\ Carries(Append(wire, frame), c) /\ c[1] = b[1]
            /\ c[Len(Append(wire, frame)) + 1] = made
      <3>1. made \in Offsets
        BY ClientAssumption DEF Offsets, FeedInv
      <3>2. Spans(frame, made, made)
        BY <2>0 DEF Spans
      <3> QED BY <1>1, <1>3, <2>0, <2>1, <3>1, <3>2, OneMore
    <2>3. OutputKept'
      BY <1>4, <1>5, <2>2 DEF OutputKept, Offsets, frame
    <2>4. LastFrames'
      <3>1. /\ Len(wire') = Len(wire) + 1 /\ wire'[Len(wire')].type = type
            /\ \A i \in 1 .. Len(wire) : wire'[i] = wire[i]
        BY <1>1, <1>5
      <3>2. \A i \in 1 .. Len(wire') : i = Len(wire') \/ i \in 1 .. Len(wire)
        BY <1>1, <3>1
      <3> QED BY <1>1, <3>1, <3>2 DEF LastFrames
    <2> QED BY <1>2, <2>3, <2>4 DEF AnswerInv, run
  <1>6. CASE UNCHANGED wire
    <2>1. ~ Complete'
      BY <1>1, <1>6 DEF Complete, run, SendLast
    <2>2. OutputKept'
      BY <1>3, <1>4, <1>6, <2>1 DEF OutputKept, Offsets
    <2>3. LastFrames'
      BY <1>1, <1>6 DEF LastFrames
    <2> QED BY <1>2, <2>2, <2>3 DEF AnswerInv, run
  <1> QED BY <1>5, <1>6 DEF SendLast

\* Every step of the handler thread and of the command keeps AnswerInv.
LEMMA AnswerHandler == FeedInv /\ AnswerInv /\ (Handler \/ Output \/ Finish) => AnswerInv'
  <1> SUFFICES ASSUME FeedInv, AnswerInv, Handler \/ Output \/ Finish PROVE AnswerInv'
    OBVIOUS
  <1> USE ClientAssumption
  <1>1. CASE Reserve
    <2>1. CASE thread' = "launch" /\ UNCHANGED connection
      BY <1>1, <2>1, AnswerUntouched DEF Reserve, connection
    <2>2. CASE thread' = "over" /\ SendLast("refused")
      <3>1. OnRecord("refused")'
        BY <1>1, <2>2 DEF Reserve, AnswerInv, ResultKept, OnRecord, Codes
      <3> QED BY <1>1, <2>2, <3>1, AnswerToldLast DEF Reserve
    <2> QED BY <1>1, <2>1, <2>2 DEF Reserve
  <1>2. CASE Launch
    <2>1. thread' = "tell" => OnRecord(final)'
      BY <1>2 DEF Launch, OnRecord, Codes
    <2> QED BY <1>2, <2>1, AnswerUntouched DEF Launch, connection
  <1>3. CASE Accept
    <2> DEFINE frame == [type |-> "accepted"]
    <2>1. frame \in Frame /\ frame.type = "accepted"
      BY DEF Frame
    <2>2. SendFrame(frame) /\ UNCHANGED <<run, op, made>> /\ thread = "accept" /\ thread' = "stream"
      BY <1>3 DEF Accept
    <2> HIDE DEF frame
    <2>3. made' \in [Streams -> Nat] /\ Spans(frame, made, made')
      BY <2>1, <2>2 DEF Spans, FeedInv
    <2> QED BY <2>1, <2>2, <2>3, AnswerSent
  <1>4. CASE Output
    <2>1. PICK s \in Streams, n \in 1 .. MaxFrame :
            /\ made[s] + n <= MaxBytes
            /\ made' = [made EXCEPT ![s] = @ + n]
            /\ SendFrame([type |-> "output", stream |-> s,
                          data |-> [i \in 1 .. n |-> made[s] + i]])
      BY <1>4 DEF Output
    <2> DEFINE data == [i \in 1 .. n |-> made[s] + i]
               frame == [type |-> "output", stream |-> s, data |-> data]
    <2>2. made[s] \in Nat /\ n \in Nat /\ made' \in [Streams -> Nat]
      BY <2>1 DEF FeedInv
    <2>3. data \in Seq(1 .. MaxBytes) /\ Len(data) = n
      <3>1. \A i \in 1 .. n : made[s] + i \in 1 .. MaxBytes
        BY <2>1, <2>2
      <3> QED BY <2>2, <3>1
    <2>4. frame \in Frame /\ frame.type = "output" /\ frame.stream = s /\ frame.data = data
      BY <2>3 DEF Frame
    <2>5. SendFrame(frame) /\ UNCHANGED <<run, op>> /\ thread = "stream" /\ thread' = "stream"
      BY <1>4, <2>1 DEF Output
    <2>6. Spans(frame, made, made')
      BY <2>1, <2>3, <2>4 DEF Spans
    <2> HIDE DEF frame
    <2> QED BY <2>2, <2>4, <2>5, <2>6, AnswerSent
  <1>5. CASE Finish
    <2>1. OnRecord(final)'
      BY <1>5 DEF Finish, OnRecord, Outcome, Codes
    <2> QED BY <1>5, <2>1, AnswerUntouched DEF Finish, connection
  <1>6. CASE Tell
    <2>1. final \in {"refused", "lost"} \union Codes /\ OnRecord(final)'
      BY <1>6 DEF Tell, FeedInv, AnswerInv, ResultKept, OnRecord
    <2> QED BY <1>6, <2>1, AnswerToldLast DEF Tell
  <1> QED BY <1>1, <1>2, <1>3, <1>4, <1>5, <1>6 DEF Handler

\* AnswerInv is inductive, beside FeedInv.
LEMMA AnswerStep == FeedInv /\ AnswerInv /\ [Next]_vars => AnswerInv'
  <1> SUFFICES ASSUME FeedInv, AnswerInv, [Next]_vars PROVE AnswerInv'
    OBVIOUS
  <1>1. CASE Crash
    <2>1. /\ thread # "none" /\ thread' = "over" /\ stream' = "closed"
          /\ UNCHANGED <<run, final, made, wire>>
          /\ op' # op => op \in Active /\ op' \in {"absent", "unknown"}
      BY <1>1 DEF Crash
    <2>2. \A type : OnRecord(type) => OnRecord(type)'
      BY <2>1 DEF OnRecord, Outcome, Active, Codes
    <2>3. LastFrames'
      BY <2>1, <2>2 DEF AnswerInv, LastFrames
    <2>4. Complete' => Complete
      BY <2>1 DEF Complete, run
    <2>5. OutputKept'
      BY <2>1, <2>4 DEF AnswerInv, OutputKept, Shows, Kept, run
    <2>6. ResultKept'
      BY <2>1, <2>2 DEF AnswerInv, ResultKept, run
    <2> QED BY <2>1, <2>3, <2>5, <2>6 DEF AnswerInv, run
  <1>2. CASE Signalling \/ SignalComes \/ Input \/ UNCHANGED vars
    <2>1. UNCHANGED <<run, service, connection>>
      BY <1>2 DEF Signalling, Forward, Forwarded, Leave, SignalComes,
         Input, Feed, Hear, Control, vars
    <2>2. OutputKept'
      BY <2>1 DEF AnswerInv, OutputKept, run, service, connection, Shows, Kept, Complete
    <2>3. LastFrames' /\ ResultKept'
      BY <2>1 DEF AnswerInv, LastFrames, ResultKept, run, service, connection, OnRecord
    <2> QED BY <2>1, <2>2, <2>3 DEF AnswerInv, run
  <1> QED BY <1>1, <1>2, AnswerCaller, AnswerHandler DEF Next

\* Nothing is sent and nothing told yet.
LEMMA AnswerInit == Init => AnswerInv
  <1> SUFFICES ASSUME Init PROVE AnswerInv
    OBVIOUS
  <1>1. OutputKept
    <2> DEFINE b == [i \in 1 .. 1 |-> made]
    <2>1. b \in [1 .. Len(wire) + 1 -> [Streams -> Nat]] /\ b[1] = made /\ b[Len(wire) + 1] = made
      BY DEF Init
    <2>2. Shows(made) /\ Carries(wire, b)
      BY ClientAssumption DEF Init, Shows, Kept, Bytes, Carries
    <2> HIDE DEF b
    <2> QED BY <2>1, <2>2 DEF OutputKept
  <1>2. LastFrames /\ ResultKept
    BY DEF Init, LastFrames, ResultKept, OnRecord, Codes
  <1> QED BY <1>1, <1>2 DEF AnswerInv, Init

\* An exit code told to the user or the agent is the recorded outcome and comes
\* with all of the output, an error means the operation did not succeed: for any
\* output, any limit, and wherever the connection breaks or the service dies.
THEOREM AnswerAgreesWithTheRecord == Spec => []AnswerIsTheOutcome
  <1>1. FeedInv /\ AnswerInv => AnswerIsTheOutcome
    <2> SUFFICES ASSUME FeedInv, AnswerInv PROVE AnswerIsTheOutcome
      OBVIOUS
    <2>1. PICK b \in [1 .. Len(wire) + 1 -> Offsets] :
            Carries(wire, b) /\ Shows(b[1]) /\ (Complete => b[Len(wire) + 1] = made)
      BY DEF AnswerInv, OutputKept, Offsets
    <2>2. 1 \in 1 .. Len(wire) + 1 /\ \A s \in Streams : b[1][s] \in Nat
      <3>1. 1 \in 1 .. Len(wire) + 1
        BY DEF FeedInv
      <3> QED BY <3>1 DEF Offsets
    <2>3. caller = "mcp" => \A s \in Streams : Len(shown[s]) <= Limit
      <3> SUFFICES ASSUME caller = "mcp", NEW s \in Streams PROVE Len(shown[s]) <= Limit
        OBVIOUS
      <3>1. Kept(b[1][s]) \in Nat /\ Kept(b[1][s]) <= Limit
        BY <2>2, ClientAssumption DEF Kept
      <3>2. shown[s] = Bytes(Kept(b[1][s]))
        BY <2>1 DEF Shows
      <3> QED BY <3>1, <3>2, BytesInOrder
    <2>4. ASSUME answer \in Codes
          PROVE /\ op = Outcome(answer)
                /\ \A s \in Streams : shown[s] =
                    IF caller = "mcp" /\ made[s] > Limit THEN Bytes(Limit) ELSE Bytes(made[s])
                /\ truncated <=> caller = "mcp" /\ \E s \in Streams : made[s] > Limit
      <3>1. result = answer /\ wire = <<>> /\ op = Outcome(answer)
        BY <2>4 DEF AnswerInv, ResultKept, OnRecord, Codes
      <3>2. b[1] = made
        BY <2>1, <2>4, <3>1 DEF Complete
      <3> QED BY <2>1, <3>1, <3>2 DEF Shows, Kept
    <2>5. answer = "refused" => op \notin {"running", "succeeded"}
      BY DEF AnswerInv, ResultKept, OnRecord
    <2>6. answer = "unsent" => op = "absent"
      BY DEF AnswerInv, ResultKept
    <2> QED BY <2>3, <2>4, <2>5, <2>6 DEF AnswerIsTheOutcome
  <1> QED BY <1>1, FeedInit, FeedStep, AnswerInit, AnswerStep, PTL DEF Spec

-----------------------------------------------------------------------------
(* Usage *)

\* UsageInv is inductive: the adapter records each call before it responds.
LEMMA UsageStep == UsageInv /\ [Next]_vars => UsageInv'
  <1> SUFFICES ASSUME UsageInv, [Next]_vars PROVE UsageInv'
    OBVIOUS
  <1>1. ASSUME pc \in {"send", "accept", "receive"}, NEW r, Return(r), UNCHANGED caller
        PROVE UsageInv'
    BY <1>1 DEF UsageInv, Return
  <1>2. CASE Send
    BY <1>1, <1>2 DEF Send, UsageInv
  <1>3. CASE Receive
    BY <1>1, <1>3 DEF Receive, UsageInv
  <1>4. CASE Disconnected
    BY <1>1, <1>4 DEF Disconnected
  <1>5. CASE Record
    BY <1>5 DEF Record, Success, UsageInv
  <1>6. CASE Respond \/ Join
    BY <1>6 DEF Respond, Join, UsageInv, usage
  <1>7. CASE Handler \/ Output \/ Finish \/ Crash \/ Signalling \/ SignalComes \/ Input
                \/ UNCHANGED vars
    <2>1. UNCHANGED <<run, usage>>
      BY <1>7 DEF Handler, Reserve, Launch, Accept, Tell, Output, Finish, Crash,
         Signalling, SignalComes, Forward, Forwarded, Leave, Input, Feed, Hear, Control, vars
    <2> QED BY <2>1 DEF run, usage, UsageInv
  <1> QED BY <1>2, <1>3, <1>4, <1>5, <1>6, <1>7 DEF Next, Caller

\* The analytics count a tool call as a success just if the agent was told exit
\* code zero, and miss only calls the agent was warned about.
THEOREM UsageAgreesWithTheAnswer == Spec => []UsageAgrees
  <1>1. Init => UsageInv
    BY DEF Init, UsageInv
  <1>2. UsageInv => UsageAgrees
    BY DEF UsageInv, UsageAgrees
  <1> QED BY <1>1, <1>2, UsageStep, PTL DEF Spec
=============================================================================
