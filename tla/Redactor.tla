------------------------------ MODULE Redactor ------------------------------
(***************************************************************************)
(* The redactor of one output stream (src/src/execution.rs: Redactor,      *)
(* pump): chunks of a command's output come as they are read, secrets are  *)
(* replaced although they cross chunk boundaries, and what cannot become a *)
(* secret any more is passed on at once.                                   *)
(*                                                                         *)
(* Mark stands for the bytes "[REDACTED]" and is not a byte.               *)
(***************************************************************************)
EXTENDS SequencesExt, FiniteSets, Naturals

CONSTANTS
    Bytes,
    Mark,
    MaxSecret,      \* bound: length of a secret
    MaxSecrets,     \* bound: secrets of a profile
    MaxChunk,       \* bound: bytes per read
    MaxInput        \* bound: bytes of the stream

ASSUME RedactorAssumption ==
    /\ Mark \notin Bytes
    /\ MaxSecret \in Nat \ {0} /\ MaxSecrets \in Nat /\ MaxChunk \in Nat /\ MaxInput \in Nat

VARIABLES
    secrets,    \* credential values: constant in a behaviour
    pending,    \* Redactor.pending
    sent,       \* frames sent so far, joined
    ended,      \* push was called with eof
    stream      \* history: everything read so far

streamVars == <<secrets, pending, sent, ended, stream>>

Strings(n) == UNION {[1 .. k -> Bytes] : k \in 0 .. n}

\* Types of the variables.
StreamTypeOK ==
    /\ secrets \subseteq Strings(MaxSecret)
    /\ pending \in Strings(MaxSecret - 1)
    /\ sent \in Seq(Bytes \union {Mark})
    /\ ended \in BOOLEAN
    /\ stream \in Strings(MaxInput)

-----------------------------------------------------------------------------
(* Redactor::push *)

\* The suffix that may still become a secret.
Undecided(values, text) == \E s \in values : IsStrictPrefix(text, s)

Matches(values, text) ==
    {Len(s) : s \in {x \in values : x # <<>> /\ IsPrefix(x, text)}}

ShortestMatch(found) == Min(found)      \* wrong: the rest of a longer one leaks
LongestMatch(found) == Max(found)

\* What one turn of the loop replaces, or passes on: a match or one byte.
Advance(found) == IF found = {} THEN 1 ELSE LongestMatch(found)
Written(found, text) == IF found = {} THEN Head(text) ELSE Mark
After(found, text) == SubSeq(text, Advance(found) + 1, Len(text))

\* The loop: what goes out and what stays, for the bytes still to look at.
Scan(values, eof, text) ==
    LET scan[t \in Seq(Bytes)] ==
            IF t = <<>> \/ (~eof /\ Undecided(values, t)) THEN [out |-> <<>>, rest |-> t]
            ELSE LET found == Matches(values, t)
                     later == scan[After(found, t)] IN
                 [out |-> <<Written(found, t)>> \o later.out, rest |-> later.rest]
    IN scan[text]

Push(chunk, eof) ==
    LET scanned == Scan(secrets, eof, pending \o chunk) IN
    /\ ~ended
    /\ IF secrets = {}
       THEN sent' = sent \o chunk /\ UNCHANGED pending
       ELSE sent' = sent \o scanned.out /\ pending' = scanned.rest
    /\ ended' = eof
    /\ stream' = stream \o chunk
    /\ UNCHANGED secrets

\* pump(): read until end of file, which is a read of no bytes.
Read ==
    \E chunk \in Strings(MaxChunk) :
        /\ chunk # <<>> /\ Len(stream) + Len(chunk) <= MaxInput
        /\ Push(chunk, FALSE)

EndOfFile == Push(<<>>, TRUE)

StreamInit ==
    /\ secrets \in {S \in SUBSET Strings(MaxSecret) :
                        Cardinality(S) <= MaxSecrets /\ <<>> \notin S}
    /\ pending = <<>> /\ sent = <<>> /\ ended = FALSE /\ stream = <<>>

StreamNext == Read \/ EndOfFile

StreamSpec == StreamInit /\ [][StreamNext]_streamVars

-----------------------------------------------------------------------------
(* Properties *)

\* Reference: from left to right, the longest secret that starts at a position.
Starting(values, text) == {k \in 1 .. Len(text) : SubSeq(text, 1, k) \in values}

Redacted(values, text) ==
    LET redacted[t \in Seq(Bytes)] ==
            IF t = <<>> THEN <<>>
            ELSE LET found == Starting(values, t)
                     size == IF found = {} THEN 1 ELSE Max(found)
                     token == IF found = {} THEN Head(t) ELSE Mark IN
                 <<token>> \o redacted[SubSeq(t, size + 1, Len(t))]
    IN redacted[text]

\* Wherever the reads split the output, the client gets the same bytes: the
\* redaction of the whole stream, without a secret (tests try one stream and
\* every boundary).
ChunksDoNotMatter == ended => sent = Redacted(secrets, stream)

(* The inductive invariant of the proof (OutputProofs). *)

\* However the stream goes on, what was written and the redaction of what is
\* held back with the rest are the redaction of the whole.
PendingInv ==
    /\ secrets = {} => pending = <<>>
    /\ IF ended THEN sent = Redacted(secrets, stream)
       ELSE \A rest \in Strings(MaxInput - Len(stream)) :
                Redacted(secrets, stream \o rest)
                    = sent \o Redacted(secrets, pending \o rest)
=============================================================================
