------------------------------- MODULE Journal -------------------------------
(***************************************************************************)
(* journal::save and journal::load (src/src/journal.rs): a snapshot goes   *)
(* to a new temporary file, which is synced, renamed over history.json and *)
(* made durable by syncing the directory.  Any step can fail, the process  *)
(* can die and the machine can lose power between any two of them.  The    *)
(* next service starts from what load() finds and saves it again before it *)
(* serves (src/src/service.rs: recover).                                   *)
(*                                                                         *)
(* Snapshots are numbered in the order they are saved, 0 is no journal and *)
(* Torn a file load() cannot parse.  The file system is a model of POSIX:  *)
(* `view' is what an open of history.json finds now, `after' every content *)
(* it may have after a power loss.  A temporary file has a random name and *)
(* nobody reads one that is left behind, so only the one of the save under *)
(* way is followed: not whether it can be removed after a failure, nor     *)
(* whether a power loss brings it back.  This refines PersistOk and        *)
(* PersistErr of Service, which take one step each.                        *)
(***************************************************************************)
EXTENDS Naturals

CONSTANTS MaxSaves, Torn

ASSUME JournalAssumption == MaxSaves \in Nat /\ Torn \notin Nat

VARIABLES
    step,       \* the step of save() to take next
    attempt,    \* the snapshot of the save under way, or the last one
    temp,       \* its temporary file
    view,       \* content of history.json
    after,      \* its possible contents after a power loss
    acked,      \* history: the last snapshot save() returned Ok for
    service,    \* the process that owns the journal
    loaded      \* the snapshot it started from

saveVars == <<step, attempt, temp, view, after, acked, service, loaded>>

Snapshots == 0 .. MaxSaves
Contents == Snapshots \union {Torn}

\* Types of the variables.
SaveTypeOK ==
    /\ step \in {"idle", "create", "write", "sync", "rename", "syncdir"}
    /\ attempt \in Snapshots
    /\ temp \in {"none", "partial", "whole", "synced"}
    /\ view \in Contents
    /\ after \subseteq Contents /\ view \in after
    /\ acked \in Snapshots
    /\ service \in {"down", "recovering", "serving"}
    /\ loaded \in Snapshots

-----------------------------------------------------------------------------
(* State::recover *)

ServesAtOnce == "serving"               \* wrong: recover() does not persist
Loaded == IF view = 0 THEN "serving" ELSE "recovering"

\* A journal that cannot be read, or is refused, ends the process.
Recover ==
    /\ service = "down" /\ view # Torn
    /\ service' = Loaded /\ loaded' = view
    /\ UNCHANGED <<step, attempt, temp, view, after, acked>>

\* After an error recover() gives up; a service that serves drains, and the
\* threads it still has go on saving.
AfterError == IF service = "recovering" THEN "down" ELSE service

-----------------------------------------------------------------------------
(* save() *)

\* Serialization, the size limit and the checks of an existing journal come
\* first; a save they refuse changes nothing.
Begin ==
    /\ service # "down" /\ step = "idle" /\ attempt < MaxSaves
    /\ attempt' = attempt + 1
    /\ \/ step' = "create" /\ UNCHANGED service
       \/ step' = "idle" /\ service' = AfterError
    /\ UNCHANGED <<temp, view, after, acked, loaded>>

Create ==
    /\ step = "create"
    /\ step' = "write" /\ temp' = "partial"
    /\ UNCHANGED <<attempt, view, after, acked, service, loaded>>

Write ==
    /\ step = "write"
    /\ step' = "sync" /\ temp' = "whole"
    /\ UNCHANGED <<attempt, view, after, acked, service, loaded>>

Synced == "synced"
Sync ==
    /\ step = "sync"
    /\ step' = "rename" /\ temp' = Synced
    /\ UNCHANGED <<attempt, view, after, acked, service, loaded>>

Rename ==
    /\ step = "rename"
    /\ step' = "syncdir" /\ temp' = "none"
    /\ view' = attempt
    /\ after' = after \union {attempt}
                      \union (IF temp = "synced" THEN {} ELSE {Torn})
    /\ UNCHANGED <<attempt, acked, service, loaded>>

Saved == attempt

RenameIsEnough == after                 \* wrong: dir.sync_all() is missing
Settled == {view}

\* save() returns Ok; the analytics transaction after it may still fail.
SyncDirectory ==
    /\ step = "syncdir"
    /\ step' = "idle"
    /\ after' = Settled
    /\ acked' = Saved
    /\ service' \in {"serving", AfterError}
    /\ UNCHANGED <<attempt, temp, view, loaded>>

\* A step fails: save() removes the temporary file if it can and returns Err.
\* If that was the directory sync, the new snapshot is in place.
Fail ==
    /\ step # "idle"
    /\ step' = "idle" /\ temp' = "none"
    /\ service' = AfterError
    /\ UNCHANGED <<attempt, view, after, acked, loaded>>

-----------------------------------------------------------------------------
\* Nobody goes on with the save under way, nor removes its temporary file.
CutShort ==
    /\ service' = "down"
    /\ step' = "idle" /\ temp' = "none"

\* The process is over, or dies between two steps.
ProcessEnds ==
    /\ service # "down"
    /\ CutShort
    /\ UNCHANGED <<attempt, view, after, acked, loaded>>

PowerLoss ==
    /\ service # "down" \/ after # {view}
    /\ CutShort
    /\ view' \in after /\ after' = {view'}
    /\ UNCHANGED <<attempt, acked, loaded>>

SaveInit ==
    /\ step = "idle" /\ attempt = 0 /\ temp = "none"
    /\ view = 0 /\ after = {0} /\ acked = 0
    /\ service = "down" /\ loaded = 0

SaveNext ==
    \/ Recover \/ Begin \/ Create \/ Write \/ Sync \/ Rename \/ SyncDirectory
    \/ Fail \/ ProcessEnds \/ PowerLoss

SaveSpec == SaveInit /\ [][SaveNext]_saveVars

-----------------------------------------------------------------------------
(* Properties *)

\* load() finds a whole journal, the last snapshot save() acknowledged or a
\* later one, after any error or crash and after a power loss at any moment
\* (sync_all of the file before the rename and of the directory after it).
AckedSurvives == \A v \in after : v # Torn /\ acked <= v

\* What a service started from may be a snapshot whose save failed, or was cut
\* short, after its rename.  By the time the service serves, and so lets others
\* see and rely on it, no power loss brings back an older one (the persist() at
\* the end of recover).
LoadedSurvives == service = "serving" => \A v \in after : v # Torn /\ loaded <= v

(* The inductive invariant of the proofs (DirectoryProofs). *)

\* Before the rename nothing of this save is in place; at the rename the
\* temporary file is on disk, and afterwards it is gone.  What is in place is
\* the newest content, and no service started from a newer one.
SaveInv ==
    /\ Torn \notin after
    /\ \A v \in after : acked <= v /\ v <= view
    /\ view <= attempt
    /\ step = "rename" => temp = "synced"
    /\ step \in {"idle", "create", "syncdir"} => temp = "none"
    /\ step = "syncdir" => view = attempt
    /\ service = "down" => step = "idle"
    /\ service = "recovering" => loaded <= view
    /\ LoadedSurvives
=============================================================================
