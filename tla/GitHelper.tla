------------------------------ MODULE GitHelper ------------------------------
(***************************************************************************)
(* The credential helper Git runs inside a command with git_https          *)
(* (src/src/git_credentials.rs: helper).  Git writes one request, a line   *)
(* key=value each, ended by an empty line or the end of the input.         *)
(***************************************************************************)
EXTENDS Sequences, Naturals

CONSTANTS
    Host,           \* LATCHRUN_GIT_HOST
    OtherHost,
    MaxRequest,     \* 8192, the bytes helper() takes of a request
    LineSizes,      \* bound: bytes of a line that is not empty
    MaxLines        \* bound: lines of a request

None == "none"

\* None is no name of a host, and every line ends in one byte at least.
ASSUME HelperAssumption ==
    /\ None \notin {Host, OtherHost}
    /\ MaxRequest \in Nat /\ LineSizes \subseteq Nat \ {0}

\* A line without "=" is "malformed", the empty line "blank"; "path" is any key
\* that the helper does not look at.
Lines ==
    [key : {"protocol"}, value : {"https", "http"}, size : LineSizes]
      \union [key : {"host"}, value : {Host, OtherHost}, size : LineSizes]
      \union [key : {"path", "malformed"}, value : {None}, size : LineSizes]
      \union [key : {"blank"}, value : {None}, size : {1}]

Requests == UNION {[1 .. n -> Lines] : n \in 0 .. MaxLines}

-----------------------------------------------------------------------------
(* helper() *)

Start == [protocol |-> None, host |-> None, total |-> 0, at |-> "reading"]

LastWins(read, line) == FALSE           \* wrong: a second line replaces the first
Repeated(read, line) == read[line.key] # None

\* The loop counts a line before it looks at it; "refused" is an early return,
\* "end" the break.
ReadLine(read, line) ==
    LET counted == [read EXCEPT !.total = @ + line.size]
        refused == [counted EXCEPT !.at = "refused"] IN
    IF read.at # "reading" THEN read
    ELSE IF counted.total > MaxRequest THEN refused
    ELSE CASE line.key = "blank" -> [counted EXCEPT !.at = "end"]
           [] line.key = "malformed" -> refused
           [] line.key = "path" -> counted
           [] OTHER -> IF Repeated(read, line) THEN refused
                       ELSE [counted EXCEPT ![line.key] = line.value]

ReadAll(lines) ==
    LET read[n \in 0 .. Len(lines)] ==
            IF n = 0 THEN Start ELSE ReadLine(read[n - 1], lines[n])
    IN read[Len(lines)]

\* Only "get" is answered; store and erase are accepted and do nothing.  The
\* token is a nonempty single line (usable), and so is the user's name.
Answer(action, lines, usable) ==
    LET read == ReadAll(lines) IN
    IF action \in {"store", "erase"} THEN "nothing"
    ELSE IF /\ action = "get" /\ usable
            /\ read.at # "refused" /\ read.protocol = "https" /\ read.host = Host
    THEN "token" ELSE "refused"

-----------------------------------------------------------------------------
(* What it has to be *)

\* The lines up to the first empty one.
Request(lines) ==
    {i \in DOMAIN lines : \A j \in 1 .. i : lines[j].key # "blank"}

\* One of them gives the key, and this value.
Gives(lines, key, value) ==
    \E i \in Request(lines) : /\ lines[i].key = key /\ lines[i].value = value
                              /\ \A j \in Request(lines) : lines[j].key = key => j = i

\* What the first n lines are long.
Bytes(lines) ==
    LET bytes[n \in 0 .. Len(lines)] == IF n = 0 THEN 0 ELSE bytes[n - 1] + lines[n].size
    IN bytes

\* The lines of the request, and the empty one after them.
Ended(lines) ==
    {i \in DOMAIN lines : \A j \in 1 .. i - 1 : lines[j].key # "blank"}

\* The request names this host over https and nothing else, in few enough bytes.
NamesTheHost(lines) ==
    /\ \A i \in Request(lines) : lines[i].key # "malformed"
    /\ Gives(lines, "protocol", "https") /\ Gives(lines, "host", Host)
    /\ \A i \in Ended(lines) : Bytes(lines)[i] <= MaxRequest
=============================================================================
