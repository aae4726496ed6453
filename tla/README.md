# A specification of latchrun

latchrun runs approved commands with credentials that the caller never sees.
A per-user *service* keeps sessions, reserves operation ids, and starts one
*guardian* process for each accepted command; the guardian looks the
credentials up, runs the command, redacts its output and ends it when it must.
This directory holds TLA+ modules for that system, the TLC configurations that
check them on small instances, and proofs of what holds for every instance.
Source locations are those of the repository beside this directory (`src/src/`
is the crate, `src/docs/` its documentation).

    tlc -config MCService.cfg MCService      # one run
    tlapm ServiceProofs.tla                  # one proof module

## 1. The system

### Parts, their state and operations

| Part | Source | State | Operations |
|---|---|---|---|
| Service state machine | `service.rs` | `Mutex<State>`: sessions, operations, used ids, stopping, journal_failed; one handler thread per accepted run | start, stop, resume, refresh, prune, shutdown, reserve, launch, finish, deny, expire, persist, recover |
| Credential cache | `service.rs` (`Cache`, `cache_resolved`) | per session: values, when fetched, generation number | fill, hand over at launch, clear on refresh, stop, resume and expiry |
| Guardian | `execution.rs`, `providers.rs` | `Mutex<ProcessState>`: process group, cancellation, forced, input error; main, control, watchdog, stdin and output threads with bounded channels between them | authorize, resolve, spawn, stream, cancel, escalate, drain, feed input |
| Output redaction | `execution.rs` (`Redactor`, `pump`) | bytes that may still become a secret | push |
| Journal file | `journal.rs` | `history.json`, one temporary file per save | save, load |
| Analytics store | `analytics.rs` | SQLite tables operations, denials, activity; a lifetime lock | open, record, query |
| Ownership | `service.rs` (`listener`, `serve`), `analytics.rs` (`lock_database`), `client.rs` (`start_service`) | two file locks, the socket file, processes of a runtime directory | start, serve, drain, exit, replace another version |
| Policy, wire protocol | `protocol.rs` | none | authorize, validate, frames |
| Client | `client.rs`, `main.rs`, `terminal.rs` | one connection per request, an input thread, a signal thread | run, forward input and signals, start, other requests |
| MCP adapter | `agent.rs` | the kept output of one call | tool calls, usage record |
| Dashboard | `dashboard.rs` | a bearer token | forwards requests |
| Sandbox, Git credentials | `sandbox.rs`, `git_credentials.rs` | the policy in a profile, normalised again at every process it passes | validate, add what the service protects, build mounts, rules and a kernel filter; answer Git |

### How they interact

* Clients, the adapter and the dashboard send one request per connection on a
  Unix socket. Each connection is a thread of the service; all of them share
  `Mutex<State>`, and a handler of a run request takes that lock in at least
  four separate critical sections: reserve, launch, finish, and the look at
  `journal_failed` before it answers.
* The service starts a guardian with a pipe to it (control: input, signals,
  resize; its closing means *cancel*) and one from it (output frames, the
  `Resolved` frame with looked-up values, the exit). Stopping or expiring a
  session cancels its commands by dropping those pipes. Both pipes are bounded,
  and so is everything beyond them: a handler thread writes to its client for at
  most 250 milliseconds a frame, and a request that forwards input writes to
  the guardian while it holds the state lock.
* A command's executable is looked up when the request comes, and approved by
  the service when it reserves the id and by the guardian when it starts.
  A profile is validated by the client, then by the service together with what
  the service protects, then by the guardian, which builds the sandbox from it.
* Every change of the state is followed by `persist()`: the journal first, then
  one analytics transaction. If either fails the service stops serving
  (`fail closed`). A restart reads the journal, calls what was running
  *unknown*, and brings the analytics rows up to date.
* Two locks serialise services: `service.lock` in the runtime directory, held
  until the main thread leaves, and the database lock, held until the process
  is gone.

### What is hard about it

Ids must be used at most once across crashes, a lost answer must not look like
an outcome, and an answer must not promise what a restart forgets; a session can be stopped, resumed or expire between any
two critical sections of a run; a looked-up credential can arrive after its
cache was cleared; a cancellation can hit a guardian between two processes; a
leaving service still has threads that write; a client, a command or a whole
chain of buffers can stop moving while somebody holds a lock; redaction must
not depend on where reads split the output; and overlapping grants and masks of
a sandbox mean what their order makes of them. `PROJECT.json` lists each of these hazards at the
line where it bites with the properties that would notice.

## 2. The modules

| Module | What it models | Correspondence |
|---|---|---|
| `Service` | requests, handler threads, guardians as seen by the service, both stores, failing writes, crash, drain, restart | one action per critical section, the trailing `persist()` included: `Commit` is its success or `FailClosed` |
| `Ledger` | what an operation id promises, abstractly | `Service` refines it (`Promise`, `ImplementsLedger`) |
| `CredentialCache` | one session's cache against the two clocks | `Launch`, `CacheResolved`, `Refresh`, `Stop`, `Resume`, `Expire` are the critical sections that touch `Cache`; `LookUp` is the guardian; `now` is `Instant::now()`, `Timestamp` is `timestamp()`, `Deadline` what `expire` goes by, `Reported` what `inspect` answers |
| `Guardian` | the threads of one guardian and the processes it starts | `Main`, `Control`, `Watchdog`, `Feed` are the threads, `World` the processes, the clock and the service's end of the pipe; `ps` is `ProcessState` |
| `Backpressure` | one operation's buffers, from the command's output to the client's socket and from a request to the command's input, with the locks held on the way | `Main`, `Pump`, `Control`, `Kill` are threads of the guardian, `Handler` the thread of the run, `Input`, `WriteControl`, `Stop` requests of other threads; one action per step between two waits |
| `Journal` | `save()` step by step over a file system that may lose what is not synced, and the services that start from what they find | `view` is what an open finds, `after` what may be found after a power loss; `Recover` is `load()` and the beginning of `recover()`, which ends with a save |
| `Redactor` | `Redactor::push` over every split of a stream | `Scan` is its loop as a recursive function, `Advance`, `Written` and `After` one turn of it; `Redacted` is the reference |
| `Ownership` | service processes competing for one runtime and data directory, and `service start` | one action per system call whose order matters; `StartPings` and `StartAsks` are the version check and the request to stop, two connections |
| `Analytics` | the three tables, the upsert, reports, time buckets and percentiles | the SQL statements as operators; the report is a state function, so it is checked at every instant |
| `Client` | one `latchrun run` or `latchrun_run` call, its connection, the handler thread at the other end, input chunks on connections of their own, the usage record, the thread that forwards signals | `Send`, `Receive`, `Disconnected`, `Join`, `Record`, `Respond` are the caller; `SignalComes` to `Leave` the signal thread; `Reserve` to `Tell` the handler; `Feed`, `Control`, `Hear` the input |
| `Sandbox` | a profile's command rules and sandbox policy, from the written file over a request to the confined command, and the access that command has | `Read`, `Accept`, `Check` are the three validations; `Call`, `CallShell` a request, `Reserve` the lookup of its executable and the first authorization, `Check` the second; `Prepare` is `prepare_command` with either backend; what bubblewrap, the kernel and sandbox-exec make of it is `LinuxAccess`, `Mounted`, `MacAllows` |
| `Filter` | the seccomp program and the machine that runs it | `Program` is the table of `network_filter` |
| `GitHelper` | the credential helper | `ReadLine` is a turn of its loop, with the running total of bytes and their limit, `Answer` the whole |
| `ServiceProofs` | theorems about `Service` | types and sessions; ids, both stores and the refinement of `Ledger` |
| `DirectoryProofs` | theorems about `Journal` and `Ownership` | the state directory's file and its owner |
| `OutputProofs` | theorems about `Redactor` and `Backpressure` | what a command's output becomes and how it gets to the client |
| `SandboxProofs` | theorems about `Sandbox`, `Filter` and `GitHelper` | the profile at every stage, what the backends grant, the filter, the helper |
| `CredentialCacheProofs`, `GuardianProofs`, `ClientProofs`, `AnalyticsProofs` | theorems about the module each is named for | |
| `MC*` | constants and symmetry for TLC | |

How the modules fit together: `Journal` shows what `Service` assumes of a
save — it takes effect or not, as a whole, and an error may have taken effect
(`PersistOk`, `PersistErr`). `Guardian` shows what `Service` assumes of a
guardian — a cancelled one ends (`DoomedEnds`), and an exit code is the
command's (`ExitCodeIsReal`). `Ownership` shows that one service at a time
serves the journal, which `Service` takes for granted with its single `up`.
`CredentialCache` and `Analytics` detail what `Service` leaves out of one
session and of one row, `Client` what it leaves out of one connection: in
`Service` an answer is *told*, in `Client` it may get lost on the way.
`Backpressure` shows what all of them take for granted: that a thread which
writes to another process gets on, so that a critical section is one step.
`Guardian` treats output as something that is either pending or not, since
`Backpressure` follows it through the buffers. `Sandbox` extends `Filter` and
`GitHelper`, the two things a prepared command carries with it.

A definition marked *wrong* in a module is a plausible mistake in the code
that it stands beside. Nothing uses it; putting it in the place of the right
one makes the corresponding property fail, which shows that the property says
something about that line.

Main abstractions. Sessions are named by their random id. Events, sequence
numbers, and the denial counter of the journal decide nothing and are left
out. In `Service` a TTL that has passed is membership of `aged`; in
`CredentialCache` there are two clocks: the monotonic one ticks several times a
second, and the wall clock, which is ahead of it by an amount that anybody may
change at any time, is read in whole seconds. A command's result is one of zero, nonzero,
an error frame and a lost guardian. Output is counted in chunks in `Guardian`
and `Backpressure` and spelt in bytes only in `Redactor`. In `Backpressure` a
unit of time is the write timeout, and time passes only when no thread can move:
threads take microseconds, the deadlines a quarter of a second and a second
(`CanMove` is the disjunction of the threads' guards, and TLC finds it equal to
`ENABLED` of their actions in every reachable state). In
`Sandbox` a path is a sequence of names and the file system a map from written
paths to real ones, from which a path may disappear. `validate` sorts each list
and drops what is there twice, so from then on a list is a set; what its length
was before that is a number beside it, since the limits count repetitions
(`Lengths`, `Protected`). Neighbouring mounts of one kind are one layer, and
within it the sorted order puts a directory before what is in it.

## 3. The runs

| Run | Instance | Shows |
|---|---|---|
| `service` | 1 session, 2 operations, 2 profiles that approve different commands, 1 fault, any number of clean restarts | no id launches twice (`LaunchedOnce`), ids are on disk first (`ReservedBeforeLaunch`), nothing unauthorized runs across stop and resume (`RunsAuthorized`), pipes follow sessions, answers are durable, the journal stays loadable, both stores agree, no operation is left without a thread, launches are in time, `ImplementsLedger` |
| `service_live` | 2 sessions, 1 operation, 1 profile, 2 faults, under fairness | a stopped session's commands end and its operations are settled; one session's end never closes another's pipe |
| `cache` | 3 operations, a caching and a plain profile with lifetimes of 1 and 2 seconds, 5 half-second ticks, a wall clock up to 2 ticks ahead, 2 clears | the cache holds only values looked up since the last clear; reuse moves neither the deadline that counts nor the reported one, the value is there until the first, handed out only before it and, on a wall clock nobody sets, in no second after the reported one (`DeadlineHolds`) |
| `guardian` | up to 2 lookups and 1 command, null and piped input | cancellation reaches every process, none is lost track of, exit codes are real and never come with rejected input, the grace period is kept, doomed commands end |
| `backpressure` | 5 chunks of output, every buffer one slot, the drain two units | a request that writes under the state lock gets it done and releases it; a cancelled operation is recorded and its handler thread free, whoever stopped reading; only a client that reads after a unit's wait can cost an exit code |
| `journal` | 4 saves, any number of restarts and power losses | `load()` finds neither a torn journal nor one older than an acknowledged save (`AckedSurvives`), nor, once a service serves, one older than that service started from (`LoadedSurvives`) |
| `redactor` | all sets of at most 2 secrets of at most 3 bytes, all streams of at most 7 bytes, all splits into reads of at most 2 | at every moment what was written and what is held back is the redaction of the stream so far |
| `ownership` | 3 processes of 2 versions, 2 ids, one `service start` | the socket is its owner's, the journal is served by one that knows all of it, every service settles |
| `ownership_start` | the same, safety only | **fails**: the docs say a running daemon is kept, the code replaces another version |
| `analytics` | 2 operations, 1 denial, 1 activity id with 2 payloads, 4 seconds, 2 buckets of 2 seconds | the timeline adds up to the totals, percentiles are exact, an acknowledged report stands |
| `client` | the command and the adapter, streams of at most 2 bytes in frames of at most 2, of which the adapter keeps 1, 3 input chunks | the answer is the recorded outcome with all of the output, input arrives in order, the usage count agrees with the answer; under fairness, the caller returns when the operation is over or a signal got through, whenever signals come |
| `sandbox` | at most 1 path to read, 1 to write, 2 to protect, of 8 written paths of which one is a link and one leads nowhere; 6 combinations of options; both platforms; up to 2 rules over 2 executables and a link to one of them, a shell, 5 commands and 4 scripts asked for; one path removed or one link moved on the way; Git's requests of at most 3 lines of 1 or 3 bytes, 4 bytes allowed | the command's access to every path is what was granted less what is protected; an approved command of an accepted profile runs and nothing else does (`ApprovedCommandRuns`); the filter decides every call as documented; the token is for the profile's host, in a request within the limit |

### Why the bounds are enough to be worth checking

Two operations are the least that race: a stop, a failed write or a pruning in
the critical section of one can fall between any two of the other. One fault
already separates journal from analytics, a second one starts from a state
that recovery has just made consistent again; clean restarts are not counted as
faults and are unlimited. With one operation two faults are affordable, and a
second session is there to be hurt by what happens to the first. The clock of
`cache` runs a tick past the session's 2 seconds and 3 ticks past the cached
value's one, so both expire in either order, and with two ticks to a second an
instant and its timestamp are at different distances; a wall clock that may be
set by two ticks either way shows the next second early or late. Of three
operations one fills the cache, one reuses
it and one reports late. A guardian with two lookups and one command changes the
shared process group from process to process, and a lookup's leftovers can
outlive it. Four saves follow a failed, a lost and an acknowledged one in
any order, and are enough for a service to start from a snapshot that was cut
short after its rename, to save it, and to lose power. Two secrets of three bytes include a prefix, an overlap and a
secret inside another one, and streams of seven bytes hold two of them. Three
service processes are one that leaves, one that starts and one more that
`service start` launches. In `analytics` the window starts above zero from the
fourth second on, so operations leave it, and every second is a bucket's first
or last one. In `client` a stream can end below, at and above what the adapter
keeps, and the end of the input can overtake the chunk before it. In
`backpressure` six places hold output between the command and the client, so
five chunks and the last frame fill nearly all of them at once; larger buffers
only delay that moment. The paths of `sandbox` hold a directory, one in it and a
file in that one, inside and beside the project and the service's directories,
so every pair of a grant and a mask occurs: equal, above, below and apart; Git's
requests end below, at and above their limit, also with the empty line; its
system call numbers are those of a filter whose x32 bit is the third one, so all
sixteen words are tried.

Each module has a type invariant. It is proved for `Service`, `CredentialCache`,
`Journal`, `Analytics`, `Redactor` and `Backpressure`; elsewhere it documents the
variables, or is part of an inductive invariant, and the runs spend their time
on the properties that could fail.

Symmetry is used for interchangeable ids in runs without liveness properties
only. Deadlock is checked in the `Service` runs and switched off where the
modelled object ends (a guardian that is done, a clock at its bound, a stream
that is over, a call that was answered).

### Fairness

* `Service`: the handler thread of an accepted run is an OS thread that takes
  its next critical section eventually (weak fairness of launching, finishing
  and answering), and a guardian whose pipe is closed ends; that is what
  `DoomedEnds` establishes of `Guardian`. Clients, pruning, restarts and
  commands nobody cancelled owe nothing.
* `Guardian`: its threads run, the one-second drain and the grace period pass,
  and a closed control pipe is read to its end. A command may ignore TERM, keep
  its output open from an escaped descendant or never read its input; only KILL
  is assumed to work. The service is assumed to read the output pipe.
* `Backpressure`: every thread of both processes runs, and time passes when they
  wait. The command and the client owe nothing, not even to read. One assumption
  is about the world: input ends some time (`<>[][~Input]_vars`). The mutex is
  not fair, and a client that never stops typing could take it each time before
  the handler thread does.
* `Client`: the threads of the caller and of the handler run, and a guardian
  that got a signal ends (`DoomedEnds` once more). A service that died closes
  the connection, which the caller's thread then sees.
* `Ownership`: the main thread of each process runs. Operation threads may hang
  for ever: the drain must not wait for them beyond its five seconds.

## 4. The proofs

All theorems are for arbitrary sets of sessions, operations, profiles and
commands, for any bytes, secrets, buffers and limits; the only assumptions are
the named `ASSUME`s of the modules (`None` values outside the sets they are
added to, hosts included, limits that are natural numbers, at least one tick in a
second, lines of at least one byte, buffers with at least
one slot, a drain longer than one write timeout, finitely many operations in a
report, paths without links that lead to themselves, an agent's socket with
nothing below it, `Allows` a relation between profiles and commands).

* **`ServiceProofs`.** `TypeCorrect`: `TypeOK` is inductive; a lemma for each
  helper that builds a state (`StopSessionsType`, `RecoveredType`, ...), then
  one case per action. `AuthorizedAlways`, `PipeFollows`, `NoneForgotten` and
  `InTimeAlways` rest on `SessionInv`: that an open pipe belongs to an active
  session is not inductive, since nothing in it says whose pipe a thread
  between two critical sections will open. `SessionInv` says of every thread
  that its operation is unfinished and of its session, that one about to launch
  holds an argv its profile approves, and that an open pipe is that of a
  relaying thread whose guardian has the session's profile. `ReasonAlways` is
  the action property that a stop closes no pipe but its session's; `Follows`
  says of each pair of states a step commits that a pipe stays open unless its
  session ended.

  The second half is about the ledger. `LaunchedAtMostOnce` and
  `ReservationIsDurable`: neither `LaunchedOnce` nor `ReservedBeforeLaunch` is
  inductive — nothing in them says that a thread about to launch has not
  launched already, or that the duplicate check in memory knows what is on
  disk. `OnceInv` adds that threads belong to a living process, that the ids on
  disk are a subset of the ids in memory while a service is up, and that a
  thread about to launch holds a durable id with no launch. The heart is
  `CommitUsed`: a commit never shrinks the ids on disk, whichever of its
  outcomes happens. `LoadableAlways` needs `LoadInv`, that memory, too, is
  always something `recover()` would accept. `AnswersAreDurable`,
  `StoresAlwaysAgree` and `LedgerImplemented` rest on `RecordInv`: memory is
  ahead of the journal, the journal of the analytics, in the order of the
  ledger's outcomes, and an exit code that was sent or may still be sent stands
  in both stores. With it each step of `Service` is shown to be a write, an
  execution or an answer of `Ledger`, or to change nothing the ledger sees.
* **`CredentialCacheProofs`.** `CacheStaysCurrent`: `CachedIsCurrent` says
  nothing of a lookup under way. `CacheInv` ties the generation number, which
  the code compares, to `epoch`, which counts what a user sees as a clear: a
  worker's generation is never ahead of the cache's, and while it is equal the
  worker was launched since the last clear. `DeadlineIsKept` needs
  `StoredInv` too: a cached value's guardian has reported it and will not do so
  again, so storing never moves the deadline of the value that is there. What it
  says of the wall clock needs `StampInv`: while nobody sets it, a timestamp is no
  earlier than that of the instant beside it, which was read first, and in less
  than n seconds a clock that shows whole ones moves by at most n
  (`SecondsLater`), however many ticks a second has.
* **`GuardianProofs`.** `NoProcessIsLost` and `CancelIsNeverMissed`: neither
  says why a new process finds no other one there. `ProcessInv` adds
  that processes come one after the other, that no group is recorded while the
  main thread is about to spawn, and that lookups are bounded, so nothing is
  spawned over a process that lives. `ExitCodesAreReal`: `ExitInv` carries the
  command's status from its end over the drain to the frame, and says that
  rejected input is in `input_error` before that end is noticed.
  `GraceIsRespected` is the action property that KILL waits for the grace period.
* **`OutputProofs`.** `NoExitLost`: that an exit code is lost only to a
  late reader says nothing of how far the drain has come. `DrainInv` does: after
  the exit is noticed, time passes only while the handler thread waits for its
  client, and one that does not read is dropped after one unit, so unless a
  client read late the drain has used at most one unit of its limit, and that
  one ended with a dropped connection. `MainInv` and `HandlerInv` are what this
  needs of the frames: the last one comes last, at both ends of the pipe.

  `ChunksNeverMatter`: that the output is right at the end says nothing of what
  is held back before. `PendingInv` does, by quantifying over the future:
  however the stream goes on, what was written, followed by the redaction of
  what is held back and the rest, is the redaction of the whole. A step keeps it
  by `ScanIsRight`: the loop takes the turns the reference takes, because a
  string that starts no longer secret (`Decided`) matches the same secrets
  whatever follows. Both are recursive functions on strings, and TLA+ knows
  nothing of such a function until one is shown to exist: `RecursionSolved`
  shows it for every recursion that goes on with a shorter string,
  `LengthInduction` is the induction that goes with it. The library's induction
  theorems take an operator as a parameter, which the provers cannot
  instantiate; these are stated about sets instead and rest on its
  well-foundedness of `<`.
* **`DirectoryProofs`.** `SocketIsOwned` and `JournalIsServed` from `OwnerInv`,
  which says for every step of a service process which of the two locks it
  holds: the service lock for all it does to the socket, the database lock for
  all it does to the journal, the late writes of a leaving process included.
  `JournalTypeCorrect`, `AcknowledgedSurvives` (neither torn nor too old) and
  `ServedFromDurable` from `SaveInv`, which bounds *every* content a power loss
  could bring back by the last acknowledged snapshot from below and by the one in
  place from above, and says that a file is renamed only after it is synced.
  That `view` alone is recent enough would not be kept by a power loss. A
  service that recovers has loaded nothing newer than what is in place, and the
  directory sync of its first save makes that, or what it has put there since,
  the only content that can come back.
* **`ClientProofs`.** `InputArrivesInOrder`: `InputInOrder` says nothing of
  chunks under way. `OneChunk` does: while the input thread goes on, the last
  chunk was answered and none is on its way; after a lost answer at most one is,
  and it is the next one. `AcceptedOnce` is why there is one such thread: the
  accepting frame is the first of its connection, and nobody has seen it before.
  `AnswerAgreesWithTheRecord`: `AnswerIsTheOutcome` looks only at the end.
  `AnswerInv` accounts for the output on its way — what the command made is what
  the caller has taken followed by the frames on the connection, and what the
  adapter keeps is the beginning of that — and says which frames may still be the
  last one (`LastFrames`) and what the service had on record when it sent it.
  `UsageAgreesWithTheAnswer` follows the result from `Record` to the response.
* **`AnalyticsProofs`.** `NearestRank`: the integer expression
  `(n*p+99)/100` of the SQL queries is the nearest rank, for every percentage and
  number of samples. `PercentilesAreExact` lifts that to the rows: the sample with
  that many samples at or below it exists, by induction on the finite set of
  rows, and no smaller one covers the percentage. `ReportAlwaysAddsUp`: every
  operation and denial of the window is in exactly one bucket (`Div` of its time
  by the bucket's width), and counting by buckets counts all, by induction on the
  rows for counts and on the buckets for the sum. `AcknowledgedReportStands`:
  whatever is repeated or answered late, an acknowledged report is the one on
  record.
* **`SandboxProofs`.** `NetworkIsAsAsked` rests on `FilterDecides`: the machine
  that runs the filter is a recursive function whose jumps only go forward, so a
  table of its eleven values solves the recursion, and the two that matter are
  read off it. The numbers of the three system calls and the x32 bit are any
  that fit. `TokenIsForTheHost` rests on `HelperIsRight`: `LoopInv` says what the
  helper knows and has counted after any number of lines, and the last one is
  compared with the description of the whole request, in which `Bytes` adds up the
  lines by itself. Both sums are recursive functions; `IterationSolved` shows that
  they exist.

  `PolicyIsEnforced` and `ApprovalIsKept` need `SandboxInv`. Neither property
  says anything before the backend is told what to do, and both compare that
  with a profile that was written three processes earlier. `SandboxInv` follows
  it: a profile on its way differs from the one that was written in its lists
  only (`Variant`), its rules are those that were read, without links
  (`RulesInv`), its lists are where the written ones led, with what the service
  adds once it has accepted them, within their limits and without a mask in a
  mask (`ListsInv`), and a command that was reserved is one of the rules
  (`RequestInv`). The heart is that validating twice changes nothing
  (`NormalStays`, `StillValid`): paths without links lead to themselves, the
  outermost masks of outermost masks are the same, and a resolved list is no
  longer than the list was, so only a path that is gone can change a verdict.
  The rest reads the layers from the top: the last mount over a path, or the
  last rule for an operation, is found by cases (`LinuxGives`, `MacGives`). The
  assumption that nothing lies below the agent's socket is used here: on Linux
  the socket is mounted read-only and on macOS it may be written.

Model-checked only: everything under fairness (`StopEndsCommands`,
`StopSettlesOperations`, `DoomedEnds`, `EveryServiceSettles`, `LockIsReleased`,
`CancelledSettles`, `CallerReturns`), since liveness is out of the prover's
reach. Every invariant and every safety property of a step that the runs check
is proved.

## 5. What the runs say about the code and its documents

One statement of the repository does not hold of the code and has a run whose
counterexample shows it; `PROJECT.json` quotes the lines.

* `README.md` and `docs/analytics.md` say `service start` keeps a running older
  daemon. `start_service` shuts it down and starts its own version.

Five observations are about wording or a rare case. The properties are stated
so that they say what the code does.

* `README.md` says a cached value's deadline starts at resolution. `cache_resolved`
  takes the time when the service handles the `Resolved` frame, after the frame
  waited in the pipe and the thread for the lock. `DeadlineHolds` is about the
  deadline from there on.
* `inspect` reports a deadline the code does not go by: it adds whole seconds to
  truncated times of the wall clock, while `expire` compares `Instant`s. A value
  is handed out until up to a second after the reported one has begun, since what
  was cut off counts, and longer or shorter if somebody sets the wall clock.
  `DeadlineHolds` keeps the two apart: hand-over ends at the first, and, unless
  the clock is set, before the second after the reported one.
* `service start` asks for the version in one request and sends `Shutdown` in
  another. When another start has replaced the older service in between, the new
  one, which is of the right version, is told to stop. The properties of
  `ownership` hold all the same: the service that is spawned in its place serves
  only when it has loaded everything.
* `execution.rs` reports rejected input as invalid or too long. A chunk that
  fits is also rejected when the command has closed its standard input, and the
  command is cancelled for it. `ExitCodeIsReal` says that no exit code is
  reported then.
* A client that takes each frame just before the write timeout keeps its
  connection, but if that happens after the command has exited, the guardian's
  one second of drain can pass before its output is through, and the answer is
  an error in place of the exit code. `ExitLostOnlyToLateReader` says that
  this is the only way to lose one; a client that leaves or reads nothing at
  all does not, since it is dropped at the first timeout.

## 6. Not modelled

* **Policy and protocol.** In `Service` `Profile::authorize` is the constant relation
  `Allows`; `Sandbox` has the real one. The checks of names, references and
  limits in `validate`, and the framing, are functions of one message that keep
  no state. A link moved between the two ends of one `canonicalize` and the start
  of the program, or a program replaced by another under its own path, is
  excluded by `docs/sandbox.md`.
* **Client and adapter:** the other subcommands and tools (one request and its
  answer), raw terminal mode, schema checks.
* **Dashboard, benchmarks, scripts.** No state of their own that anything waits
  for.
* **Sandbox:** a missing backend (an error before anything starts), rules for
  devices and for the dynamic linker, hard links and other aliases of a
  protected file, which `docs/sandbox.md` excludes, and files that change between the
  guardian's validation and bubblewrap's mounts. The project, the
  agent's socket and what is mounted of the system are not removed: bubblewrap
  or the next validation would fail, whatever the policy says.
* **Guardian:** terminal size; processes suspended by a signal.
* **Journal:** the temporary files that are left behind. `save` tries to remove
  its own after an error and ignores whether it could, a process that dies does
  not try, and a power loss can bring back a name that was renamed or removed.
  Their names are random, nobody reads them and no later start removes them, so
  they cost space and nothing that is modelled depends on them.
* **Analytics:** the per-agent table (its rank is `Rank`), the hit rate, path
  and schema checks, the 1024-row limit (above `MAX_OPERATIONS`).
* **Service:** read-only requests but for the deadline of `inspect`, the
  connection limit itself (that its threads end is `CancelledSettles`), names of
  sessions.

## 7. Plan

1. Written and checked: `Service`, `Ledger`, `CredentialCache`, `Guardian`,
   `Backpressure`, `Journal`, `Redactor`, `Ownership`, `Analytics`, `Client`,
   `Sandbox`, `Filter`, `GitHelper`. Proved: every safety property of the runs.
2. Prove next: that the parts fit together as section 2 says, first that an
   answer `Client` calls the outcome is one that `Service` may give.
3. Model next: the agents table, with a limit of rows in place of 100; what a
   provider adapter makes of its program's output.
