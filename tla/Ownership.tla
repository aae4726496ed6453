------------------------------ MODULE Ownership ------------------------------
(***************************************************************************)
(* Which process owns a runtime directory and a data directory: listener,  *)
(* serve and State::recover (src/src/service.rs), lock_database            *)
(* (src/src/analytics.rs) and `latchrun service start'                     *)
(* (src/src/client.rs: start_service).                                     *)
(*                                                                         *)
(* Every instance is a service process for the same runtime directory and  *)
(* the same data directory.  The kernel releases the locks of a process    *)
(* that is gone and leaves its socket file.  What a service knows is the   *)
(* set of operation ids it has reserved; persist() writes all of it.       *)
(***************************************************************************)
EXTENDS Naturals

CONSTANTS
    Instances,
    Version,        \* CARGO_PKG_VERSION of an instance
    Ids,            \* operation ids
    Newest,         \* CARGO_PKG_VERSION of the `service start' command
    None

ASSUME OwnershipAssumption == None \notin Instances

VARIABLES
    pc,             \* where an instance is
    service_lock,   \* who holds service.lock
    database_lock,  \* who holds analytics.sqlite3.lock
    socket,         \* who bound service.sock
    memory,         \* used_operations of an instance
    busy,           \* operation threads of an instance
    journal,        \* history.json
    starter,        \* one run of `latchrun service start'
    replaced        \* history: it told a running service to stop

locks == <<service_lock, database_lock>>
vars == <<pc, locks, socket, memory, busy, journal, starter, replaced>>

Starter ==
    [pc : {"ping", "asking", "waiting", "spawning", "polling", "ok", "failed"},
     child : Instances \union {None}]

\* Types of the variables; a lock is nobody's or a living process's.
TypeOK ==
    /\ pc \in [Instances -> {"absent", "starting", "locked", "stale", "unbound",
                             "bound", "opened", "serving", "draining", "closing",
                             "unlinked", "exiting", "gone"}]
    /\ service_lock \in Instances \union {None}
    /\ database_lock \in Instances \union {None}
    /\ socket \in Instances \union {None}
    /\ memory \in [Instances -> SUBSET Ids]
    /\ busy \in [Instances -> SUBSET Ids]
    /\ journal \subseteq Ids
    /\ starter \in Starter
    /\ replaced \in BOOLEAN
    /\ \A owner \in {service_lock, database_lock} \ {None} : pc[owner] # "gone"

Live(i) == pc[i] \notin {"absent", "gone"}
Goes(i, where) == pc' = [pc EXCEPT ![i] = where]
Released(owner, i) == IF owner = i THEN None ELSE owner

\* A request to the socket reaches a service that handles it, if any.
Answers(i) == socket = i /\ pc[i] = "serving"

-----------------------------------------------------------------------------
(* listener() *)

FreeAlways == TRUE                      \* wrong: the lock is not tried
ServiceLockFree == service_lock = None

TakeLock(i) ==
    /\ pc[i] = "starting"
    /\ IF ServiceLockFree
       THEN service_lock' = i /\ Goes(i, "locked")
       ELSE Goes(i, "gone") /\ UNCHANGED service_lock
    /\ UNCHANGED <<database_lock, socket, memory, busy, journal, starter, replaced>>

\* A socket file somebody listens on is left alone.
CheckSocket(i) ==
    /\ pc[i] = "locked"
    /\ IF socket # None /\ Live(socket)
       THEN Goes(i, "gone") /\ service_lock' = Released(service_lock, i)
       ELSE /\ Goes(i, IF socket = None THEN "unbound" ELSE "stale")
            /\ UNCHANGED service_lock
    /\ UNCHANGED <<database_lock, socket, memory, busy, journal, starter, replaced>>

RemoveStale(i) ==
    /\ pc[i] = "stale"
    /\ socket' = None
    /\ Goes(i, "unbound")
    /\ UNCHANGED <<locks, memory, busy, journal, starter, replaced>>

Bind(i) ==
    /\ pc[i] = "unbound"
    /\ IF socket = None
       THEN socket' = i /\ Goes(i, "bound") /\ UNCHANGED service_lock
       ELSE /\ Goes(i, "gone")
            /\ service_lock' = Released(service_lock, i)
            /\ UNCHANGED socket
    /\ UNCHANGED <<database_lock, memory, busy, journal, starter, replaced>>

-----------------------------------------------------------------------------
(* State::recover: the database first, then the journal *)

DatabaseNotTried == TRUE                \* wrong: no lifetime lock
DatabaseFree == database_lock = None

\* A failure drops the socket and the lock like the end of serve().
OpenDatabase(i) ==
    /\ pc[i] = "bound"
    /\ IF DatabaseFree
       THEN database_lock' = i /\ Goes(i, "opened")
       ELSE Goes(i, "closing") /\ UNCHANGED database_lock
    /\ UNCHANGED <<service_lock, socket, memory, busy, journal, starter, replaced>>

Load(i) ==
    /\ pc[i] = "opened"
    /\ \/ /\ memory' = [memory EXCEPT ![i] = journal]
          /\ Goes(i, "serving") /\ UNCHANGED database_lock
       \/ /\ Goes(i, "closing")
          /\ database_lock' = Released(database_lock, i) /\ UNCHANGED memory
    /\ UNCHANGED <<service_lock, socket, busy, journal, starter, replaced>>

-----------------------------------------------------------------------------
(* Service, as far as the journal is concerned *)

Reserve(i, o) ==
    /\ pc[i] = "serving" /\ o \notin memory[i]
    /\ memory' = [memory EXCEPT ![i] = @ \union {o}]
    /\ journal' = memory'[i]
    /\ busy' = [busy EXCEPT ![i] = @ \union {o}]
    /\ UNCHANGED <<pc, locks, socket, starter, replaced>>

\* finish() persists; the last thread of a service that left serve() drops the
\* State, and the database lock with it.
Finish(i, o) ==
    /\ Live(i) /\ o \in busy[i]
    /\ journal' = memory[i]
    /\ busy' = [busy EXCEPT ![i] = @ \ {o}]
    /\ database_lock' =
            IF pc[i] \in {"closing", "unlinked", "exiting"} /\ busy[i] = {o}
            THEN Released(database_lock, i) ELSE database_lock
    /\ UNCHANGED <<pc, service_lock, socket, memory, starter, replaced>>

Shutdown(i) ==
    /\ pc[i] = "serving"
    /\ Goes(i, "draining")
    /\ UNCHANGED <<locks, socket, memory, busy, journal, starter, replaced>>

-----------------------------------------------------------------------------
(* The end of serve(): its locals go in the order State, socket, lock.      *)

DrainedOnlyWhenIdle(i) == busy[i] = {}  \* wrong: no deadline
DrainOver(i) == TRUE

\* Nothing is active, or five seconds passed.
Drained(i) ==
    /\ pc[i] = "draining" /\ DrainOver(i)
    /\ Goes(i, "closing")
    /\ database_lock' = IF busy[i] = {} THEN Released(database_lock, i)
                                        ELSE database_lock
    /\ UNCHANGED <<service_lock, socket, memory, busy, journal, starter, replaced>>

\* SocketGuard removes whatever file has that name.
RemoveSocket(i) ==
    /\ pc[i] = "closing"
    /\ socket' = None
    /\ Goes(i, "unlinked")
    /\ UNCHANGED <<locks, memory, busy, journal, starter, replaced>>

Unlock(i) ==
    /\ pc[i] = "unlinked"
    /\ service_lock' = Released(service_lock, i)
    /\ Goes(i, "exiting")
    /\ UNCHANGED <<database_lock, socket, memory, busy, journal, starter, replaced>>

Dies(i) ==
    /\ Goes(i, "gone")
    /\ busy' = [busy EXCEPT ![i] = {}]
    /\ service_lock' = Released(service_lock, i)
    /\ database_lock' = Released(database_lock, i)

Exit(i) ==
    /\ pc[i] = "exiting" /\ Dies(i)
    /\ UNCHANGED <<socket, memory, journal, starter, replaced>>

Crash(i) ==
    /\ Live(i) /\ Dies(i)
    /\ UNCHANGED <<socket, memory, journal, starter, replaced>>

\* `latchrun service serve'.
Serve(i) ==
    /\ pc[i] = "absent" /\ Goes(i, "starting")
    /\ UNCHANGED <<locks, socket, memory, busy, journal, starter, replaced>>

-----------------------------------------------------------------------------
(* start_service() *)

Steps(where) == starter' = [starter EXCEPT !.pc = where]

\* A running service of this version is enough.  No answer comes when nobody
\* serves, or the connection is dropped or times out.
StartPings ==
    /\ starter.pc = "ping"
    /\ \/ Steps("spawning")
       \/ \E i \in Instances :
            Answers(i) /\ Steps(IF Version[i] = Newest THEN "ok" ELSE "asking")
    /\ UNCHANGED <<pc, locks, socket, memory, busy, journal, replaced>>

\* Another version is told to stop, on a connection of its own: whoever answers
\* by then is, if the request gets through.
StartAsks ==
    /\ starter.pc = "asking"
    /\ Steps("waiting")
    /\ \/ UNCHANGED <<pc, replaced>>
       \/ \E i \in Instances :
            Answers(i) /\ Goes(i, "draining") /\ replaced' = TRUE
    /\ UNCHANGED <<locks, socket, memory, busy, journal>>

\* Until a ping fails, for five seconds at most.
StartWaits ==
    /\ starter.pc = "waiting"
    /\ Steps("spawning")
    /\ UNCHANGED <<pc, locks, socket, memory, busy, journal, replaced>>

StartSpawns(i) ==
    /\ starter.pc = "spawning"
    /\ pc[i] = "absent" /\ Version[i] = Newest
    /\ Goes(i, "starting")
    /\ starter' = [pc |-> "polling", child |-> i]
    /\ UNCHANGED <<locks, socket, memory, busy, journal, replaced>>

StartSucceeds ==
    /\ starter.pc = "polling"
    /\ \E i \in Instances : Answers(i)
    /\ Steps("ok")
    /\ UNCHANGED <<pc, locks, socket, memory, busy, journal, replaced>>

StartFails ==
    /\ starter.pc = "polling" /\ pc[starter.child] = "gone"
    /\ Steps("failed")
    /\ UNCHANGED <<pc, locks, socket, memory, busy, journal, replaced>>

\* After five seconds without an answer the child is killed.
StartTimesOut ==
    /\ starter.pc = "polling"
    /\ IF Live(starter.child) THEN Dies(starter.child)
       ELSE UNCHANGED <<pc, busy, locks>>
    /\ Steps("failed")
    /\ UNCHANGED <<socket, memory, journal, replaced>>

-----------------------------------------------------------------------------
Init ==
    /\ pc = [i \in Instances |-> "absent"]
    /\ service_lock = None /\ database_lock = None /\ socket = None
    /\ memory = [i \in Instances |-> {}] /\ busy = [i \in Instances |-> {}]
    /\ journal = {}
    /\ starter = [pc |-> "ping", child |-> None]
    /\ replaced = FALSE

Opening(i) ==
    \/ TakeLock(i) \/ CheckSocket(i) \/ RemoveStale(i) \/ Bind(i)
    \/ OpenDatabase(i) \/ Load(i)
Closing(i) == Drained(i) \/ RemoveSocket(i) \/ Unlock(i) \/ Exit(i)
Start ==
    \/ StartPings \/ StartAsks \/ StartWaits \/ StartSucceeds \/ StartFails \/ StartTimesOut
    \/ \E i \in Instances : StartSpawns(i)

Next ==
    \/ \E i \in Instances :
        \/ Serve(i) \/ Opening(i) \/ Shutdown(i) \/ Closing(i) \/ Crash(i)
        \/ \E o \in Ids : Reserve(i, o) \/ Finish(i, o)
    \/ Start

Spec == Init /\ [][Next]_vars

(* The main thread of a service runs; operation threads may hang, clients   *)
(* and operators may do nothing.                                            *)
Fairness == \A i \in Instances : WF_vars(Opening(i)) /\ WF_vars(Closing(i))

FairSpec == Spec /\ Fairness

-----------------------------------------------------------------------------
(* Properties *)

\* The socket file of a serving process is its own: neither a starting nor a
\* leaving process removes or takes it (listener, SocketGuard).
SocketReachesOwner ==
    \A i \in Instances : pc[i] = "serving" => socket = i

\* What is reserved on disk is known to the process that serves, also when
\* threads of a service that left its drain still persist (lock_database).
ServesTheJournal ==
    \A i \in Instances : pc[i] = "serving" => memory[i] = journal

\* Why both hold: what a process does between listener() and the end of its
\* socket guard it does with the service lock, what it does with the journal
\* with the database lock.
LocksHeld ==
    \A i \in Instances :
        /\ pc[i] \in {"locked", "stale", "unbound", "bound", "opened", "serving",
                      "draining", "closing", "unlinked"} => service_lock = i
        /\ pc[i] \in {"bound", "opened", "serving", "draining", "closing"} => socket = i
        /\ pc[i] \in {"opened", "serving", "draining"} => database_lock = i
        /\ busy[i] # {} => database_lock = i
        /\ pc[i] \in {"absent", "starting", "locked", "stale", "unbound", "bound",
                      "opened", "gone"} => busy[i] = {}
OwnerInv ==
    /\ pc \in [Instances -> {"absent", "starting", "locked", "stale", "unbound",
                             "bound", "opened", "serving", "draining", "closing",
                             "unlinked", "exiting", "gone"}]
    /\ memory \in [Instances -> SUBSET Ids] /\ busy \in [Instances -> SUBSET Ids]
    /\ journal \subseteq Ids
    /\ starter \in Starter
    /\ starter.pc = "polling" => starter.child \in Instances
    /\ LocksHeld /\ SocketReachesOwner /\ ServesTheJournal

\* A service that was started serves or leaves, and one that drains leaves,
\* although an operation may never finish (the five seconds of serve).
EveryServiceSettles ==
    \A i \in Instances :
        /\ pc[i] = "starting" ~> pc[i] \in {"serving", "draining", "gone"}
        /\ pc[i] = "draining" ~> pc[i] = "gone"

\* README: `service start' does not replace an already running daemon.
StartKeepsDaemon == ~replaced
=============================================================================
