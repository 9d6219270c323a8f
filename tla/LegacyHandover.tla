---------------------------- MODULE LegacyHandover ----------------------------
(***************************************************************************)
(* The database of the old application is handed over to PicSyncra while   *)
(* other processes may be using it.  Every SQLite operation runs as an     *)
(* activity of its process's gate, under a shared file lock of the         *)
(* process; the migrator runs under the gate's maintenance flag, a marker  *)
(* beside the file and an exclusive file lock.  It copies the database,    *)
(* publishes the copy, points the settings at it, retires the source and   *)
(* moves it to the archive.  Any step may fail; any process may die.       *)
(*                                                                         *)
(* The locks are those of Windows: one that cannot be had fails at once.   *)
(***************************************************************************)
EXTENDS Naturals, FiniteSets

CONSTANTS
    Apps, Tool,      \* processes: the applications, and the migrator
    Ops, Home,       \* operations on the database, each of one process
    Nested,          \* operations that open an activity inside an activity
    UnlinkMayFail,   \* the marker may be impossible to remove
    MaxFaults,       \* model bound: failed steps and crashes
    MaxAdoptions     \* model bound

Procs == Apps \union {Tool}

ASSUME HandoverAssumption ==
    /\ Tool \notin Apps /\ IsFiniteSet(Ops)
    /\ Home \in [Ops -> Procs] /\ Nested \subseteq Ops
    /\ UnlinkMayFail \in BOOLEAN /\ {MaxFaults, MaxAdoptions} \subseteq Nat

VARIABLES
    content, moved,    \* what the old database holds; it is in the archive
    strays,            \* what was written to a new file in its place
    marker,            \* .picsyncra-adoption beside it
    published, copy,   \* the new database: it exists; what it holds
    settings,          \* the database that local_settings.json names
    pending,           \* a manifest of a deferred move exists
    gate,              \* per process: its _DatabaseGate
    shared, exclusive, \* file locks: shared ones per process; the migrator's
    uses,              \* per process: the database it was started with
    pc, level,         \* per operation: its thread, and the activities it is in
    step, snapshot, posted, activated, failed,    \* the migrator's thread
    crashed,           \* history: a migrator has died
    adoptions, faults

files == <<content, moved, strays, marker, published, copy, settings, pending>>
opVars == <<pc, level>>
localVars == <<snapshot, posted, activated>>
toolVars == <<step, localVars, failed>>
bounds == <<crashed, adoptions, faults>>
vars == <<files, gate, shared, exclusive, uses, opVars, toolVars, bounds>>

OpenGate == [active |-> 0, handle |-> FALSE, maintenance |-> FALSE, retired |-> FALSE]

TypeOK ==
    /\ content \subseteq Ops /\ strays \subseteq Ops /\ copy \subseteq Ops /\ snapshot \subseteq Ops
    /\ {moved, published, pending, exclusive} \subseteq BOOLEAN
    /\ {posted, activated, failed, crashed} \subseteq BOOLEAN
    /\ marker \in {"none", "active", "retired"} /\ settings \in {"source", "target"}
    /\ gate \in [Procs -> [active : 0 .. 2 * Cardinality(Ops), handle : BOOLEAN,
                           maintenance : BOOLEAN, retired : BOOLEAN]]
    /\ shared \in [Procs -> Nat] /\ uses \in [Procs -> {"source", "target"}]
    /\ pc \in [Ops -> {"new", "waiting", "locking", "checking", "in", "leaving", "unlocking",
                       "ended"}]
    /\ level \in [Ops -> 0 .. 2]
    /\ step \in {"idle", "claim", "quiesce", "lock", "snapshot", "publish", "activate", "retire",
                 "release", "unmark", "reopen", "undo", "unpublish", "move", "clear"}
    /\ adoptions \in 0 .. MaxAdoptions /\ faults \in 0 .. MaxFaults

Init ==
    /\ content = {} /\ moved = FALSE /\ strays = {} /\ marker = "none"
    /\ published = FALSE /\ copy = {} /\ settings = "source" /\ pending = FALSE
    /\ gate = [p \in Procs |-> OpenGate]
    /\ shared = [p \in Procs |-> 0] /\ exclusive = FALSE
    /\ uses = [p \in Procs |-> "source"]
    /\ pc = [o \in Ops |-> "new"] /\ level = [o \in Ops |-> 0]
    /\ step = "idle" /\ snapshot = {} /\ posted = FALSE /\ activated = FALSE /\ failed = FALSE
    /\ crashed = FALSE /\ adoptions = 0 /\ faults = 0

SourceExists == ~ moved \/ strays # {}
Depth(o) == IF o \in Nested THEN 2 ELSE 1
\* Nobody holds the gate's condition.
Free(p) == \A o \in Ops : Home[o] = p => pc[o] # "locking"

(* -------------------------- database_activity --------------------------- *)

Thread(o, to) == pc' = [pc EXCEPT ![o] = to]
OpOnly == UNCHANGED <<marker, moved, published, copy, settings, pending, exclusive, uses,
                      toolVars, bounds>>
NoWrite == UNCHANGED <<content, strays>>

\* RetiredDatabaseError leaves the activities the operation is in.
Refuse(o) == Thread(o, IF level[o] = 0 THEN "ended" ELSE "leaving")

Proceed(o) ==
    IF gate[Home[o]].retired \/ marker # "none" THEN Refuse(o) ELSE Thread(o, "locking")

Ask(o) ==
    /\ pc[o] = "new" /\ uses[Home[o]] = "source" /\ Free(Home[o])
    /\ \/ marker # "none" /\ Refuse(o)
       \/ marker = "none" /\ gate[Home[o]].maintenance /\ Thread(o, "waiting")
       \/ marker = "none" /\ ~ gate[Home[o]].maintenance /\ Proceed(o)
    /\ OpOnly /\ NoWrite /\ UNCHANGED <<gate, shared, level>>

Awake(o) ==
    /\ pc[o] = "waiting" /\ Free(Home[o]) /\ ~ gate[Home[o]].maintenance
    /\ Proceed(o)
    /\ OpOnly /\ NoWrite /\ UNCHANGED <<gate, shared, level>>

\* Mutant: an activity takes no file lock.
FileLockless(o) ==
    /\ pc[o] = "locking" /\ Thread(o, "checking")
    /\ gate' = [gate EXCEPT ![Home[o]].active = @ + 1]
    /\ level' = [level EXCEPT ![o] = @ + 1]
    /\ shared' = shared
    /\ OpOnly /\ NoWrite

\* The first activity of a process takes the shared lock, if there is a file to lock.
FileLock(o) ==
    LET p == Home[o]
        first == gate[p].active = 0 /\ SourceExists
    IN  /\ pc[o] = "locking"
        /\ \/ /\ first /\ exclusive /\ Refuse(o)
              /\ UNCHANGED <<gate, shared, level>>
           \/ /\ ~ (first /\ exclusive) /\ Thread(o, "checking")
              /\ gate' = [gate EXCEPT ![p].active = @ + 1, ![p].handle = @ \/ first]
              /\ shared' = [shared EXCEPT ![p] = IF first THEN @ + 1 ELSE @]
              /\ level' = [level EXCEPT ![o] = @ + 1]
        /\ OpOnly /\ NoWrite

Recheck(o) ==
    /\ pc[o] = "checking"
    /\ Thread(o, IF marker # "none" THEN "leaving"
                 ELSE IF level[o] < Depth(o) THEN "new" ELSE "in")
    /\ OpOnly /\ NoWrite /\ UNCHANGED <<gate, shared, level>>

\* The transaction of the operation; sqlite creates a database that is not there.
Write(o) ==
    /\ pc[o] = "in" /\ Thread(o, "leaving")
    /\ IF moved THEN strays' = strays \union {o} /\ UNCHANGED content
                ELSE content' = content \union {o} /\ UNCHANGED strays
    /\ OpOnly /\ UNCHANGED <<gate, shared, level>>

\* The last activity of a process takes the lock out of the gate and notifies ...
Leave(o) ==
    LET p == Home[o]
        last == gate[p].active = 1
        unlocks == last /\ gate[p].handle
    IN  /\ pc[o] = "leaving" /\ Free(p)
        /\ gate' = [gate EXCEPT ![p].active = @ - 1, ![p].handle = @ /\ ~ last]
        /\ level' = [level EXCEPT ![o] = @ - 1]
        /\ Thread(o, IF unlocks THEN "unlocking"
                     ELSE IF level[o] = 1 THEN "ended" ELSE "leaving")
        /\ OpOnly /\ NoWrite /\ UNCHANGED shared

\* ... and releases it afterwards.
Unlock(o) ==
    /\ pc[o] = "unlocking" /\ Thread(o, "ended")
    /\ shared' = [shared EXCEPT ![Home[o]] = @ - 1]
    /\ OpOnly /\ NoWrite /\ UNCHANGED <<gate, level>>

\* An operation of a process that was started with the new database.
UseTarget(o) ==
    /\ pc[o] = "new" /\ level[o] = 0 /\ uses[Home[o]] = "target" /\ Thread(o, "ended")
    /\ published' = TRUE /\ copy' = (IF published THEN copy ELSE {}) \union {o}
    /\ UNCHANGED <<content, strays, marker, moved, settings, pending, exclusive, uses,
                   gate, shared, level, toolVars, bounds>>

(* ------------------------- adopt_legacy_profile ------------------------- *)

Goes(to) == step' = to
Fault == faults < MaxFaults /\ faults' = faults + 1
\* A step that may fail: what it does, or a fault after which the thread is at "at".
Attempt(does, next, at) ==
    \/ does /\ Goes(next) /\ UNCHANGED <<failed, faults>>
    \/ Fault /\ Goes(at) /\ failed' = TRUE /\ UNCHANGED <<files, localVars>>
ToolOnly == UNCHANGED <<uses, opVars, adoptions, crashed>>

\* A profile with a database, and no target: the path locks let one migrator in.
Begin ==
    /\ step = "idle" /\ adoptions < MaxAdoptions
    /\ ~ moved /\ ~ published
    /\ Goes("claim") /\ adoptions' = adoptions + 1
    /\ posted' = FALSE /\ activated' = FALSE /\ failed' = FALSE
    /\ UNCHANGED <<files, gate, shared, exclusive, uses, opVars, snapshot, faults, crashed>>

\* database_maintenance: the flag keeps new activities of this process out ...
Claim ==
    /\ step = "claim" /\ Free(Tool) /\ ~ gate[Tool].maintenance
    /\ gate' = [gate EXCEPT ![Tool].maintenance = TRUE]
    /\ Goes("quiesce")
    /\ ToolOnly /\ UNCHANGED <<files, shared, exclusive, localVars, failed, faults>>

\* ... and the marker those of the others; if it cannot be written the flag is dropped.
Quiesce ==
    /\ step = "quiesce" /\ Free(Tool) /\ gate[Tool].active = 0
    /\ \/ /\ marker' = "active" /\ Goes("lock") /\ UNCHANGED <<gate, failed, faults>>
       \/ /\ Fault /\ failed' = TRUE /\ Goes("undo") /\ UNCHANGED marker
          /\ gate' = [gate EXCEPT ![Tool].maintenance = FALSE]
    /\ ToolOnly /\ UNCHANGED <<content, moved, strays, published, copy, settings, pending,
                               shared, exclusive, localVars>>

\* The exclusive lock fails while any process has a shared one.
Lock ==
    /\ step = "lock"
    /\ \/ /\ \A p \in Procs : shared[p] = 0
          /\ exclusive' = TRUE /\ Goes("snapshot") /\ UNCHANGED <<failed, faults>>
       \/ /\ \E p \in Procs : shared[p] > 0
          /\ Goes("unmark") /\ failed' = TRUE /\ UNCHANGED <<exclusive, faults>>
       \/ Fault /\ Goes("unmark") /\ failed' = TRUE /\ UNCHANGED exclusive
    /\ ToolOnly /\ UNCHANGED <<files, gate, shared, localVars>>

\* Copied, imported into a staging file, checked, archived.
Snapshot ==
    /\ step = "snapshot"
    /\ Attempt(snapshot' = content /\ UNCHANGED <<files, posted, activated>>, "publish", "release")
    /\ ToolOnly /\ UNCHANGED <<gate, shared, exclusive>>

\* os.link: there may be a target by now.
Publish ==
    /\ step = "publish"
    /\ \/ Attempt(/\ ~ published /\ published' = TRUE /\ copy' = snapshot /\ posted' = TRUE
                  /\ UNCHANGED <<content, moved, strays, marker, settings, pending,
                                 activated, snapshot>>,
                  "activate", "release")
       \/ /\ published /\ Goes("release") /\ failed' = TRUE
          /\ UNCHANGED <<files, localVars, faults>>
    /\ ToolOnly /\ UNCHANGED <<gate, shared, exclusive>>

\* finalize writes local_settings.json, or leaves it as it was.
Activate ==
    /\ step = "activate"
    /\ Attempt(/\ settings' = "target" /\ activated' = TRUE
               /\ UNCHANGED <<content, moved, strays, marker, published, copy, pending,
                              snapshot, posted>>,
               "retire", "release")
    /\ ToolOnly /\ UNCHANGED <<gate, shared, exclusive>>

Retire ==
    /\ step = "retire"
    /\ \/ /\ marker' = "retired" /\ gate' = [gate EXCEPT ![Tool].retired = TRUE]
          /\ UNCHANGED <<failed, faults>>
       \/ Fault /\ failed' = TRUE /\ UNCHANGED <<marker, gate>>
    /\ Goes("release")
    /\ ToolOnly /\ UNCHANGED <<content, moved, strays, published, copy, settings, pending,
                               shared, exclusive, localVars>>

Release ==
    /\ step = "release" /\ Goes("unmark") /\ exclusive' = FALSE
    /\ ToolOnly /\ UNCHANGED <<files, gate, shared, localVars, failed, faults>>

\* Mutant: the marker of a handover that failed is kept.
UnmarkNever ==
    /\ step = "unmark" /\ Free(Tool) /\ Goes("reopen")
    /\ ToolOnly /\ UNCHANGED <<files, gate, shared, exclusive, localVars, failed,
                               faults>>

\* Mutant: the marker goes although the source is retired.
UnmarkRetired ==
    /\ step = "unmark" /\ Free(Tool) /\ Goes("reopen")
    /\ marker' = "none"
    /\ ToolOnly /\ UNCHANGED <<content, moved, strays, published, copy, settings, pending, gate,
                               shared, exclusive, localVars, failed, faults>>

\* The marker goes unless the source was retired; if it cannot, the flag stays.
Unmark ==
    /\ step = "unmark" /\ Free(Tool)
    /\ \/ /\ marker' = (IF gate[Tool].retired THEN marker ELSE "none")
          /\ Goes("reopen") /\ UNCHANGED <<failed, faults>>
       \/ /\ UnlinkMayFail /\ ~ gate[Tool].retired /\ Fault
          /\ Goes("undo") /\ failed' = TRUE /\ UNCHANGED marker
    /\ ToolOnly /\ UNCHANGED <<content, moved, strays, published, copy, settings, pending, gate,
                               shared, exclusive, localVars>>

\* Mutant: a failed handover leaves the flag.
ReopenOnSuccess ==
    /\ step = "reopen" /\ Free(Tool)
    /\ gate' = [gate EXCEPT ![Tool].maintenance = failed]
    /\ Goes(IF failed THEN "undo" ELSE "move")
    /\ ToolOnly /\ UNCHANGED <<files, shared, exclusive, localVars, failed, faults>>

Reopen ==
    /\ step = "reopen" /\ Free(Tool)
    /\ gate' = [gate EXCEPT ![Tool].maintenance = FALSE]
    /\ Goes(IF failed THEN "undo" ELSE "move")
    /\ ToolOnly /\ UNCHANGED <<files, shared, exclusive, localVars, failed, faults>>

\* The error path, after the locks are gone: the settings, if they were changed ...
Undo ==
    /\ step = "undo" /\ Goes("unpublish")
    /\ \/ settings' = (IF activated THEN "source" ELSE settings) /\ faults' = faults
       \/ activated /\ Fault /\ UNCHANGED settings
    /\ ToolOnly /\ UNCHANGED <<content, moved, strays, marker, published, copy, pending, gate,
                               shared, exclusive, localVars, failed>>

\* ... and then the new database, if this migrator has made it; it may be in use.
Unpublish ==
    /\ step = "unpublish" /\ Goes("idle")
    /\ \/ /\ published' = (published /\ ~ posted)
          /\ copy' = (IF posted THEN {} ELSE copy) /\ faults' = faults
       \/ posted /\ Fault /\ UNCHANGED <<published, copy>>
    /\ ToolOnly /\ UNCHANGED <<content, moved, strays, marker, settings, pending, gate, shared,
                               exclusive, localVars, failed>>

CanMove == \A p \in Procs : shared[p] = 0
ClearedMarker == IF marker = "retired" /\ ~ SourceExists THEN "none" ELSE marker

\* The source goes to the archive; or, as long as somebody has it open, a manifest is
\* written for later, which may fail.
Move ==
    /\ step = "move"
    /\ \/ CanMove /\ moved' = TRUE /\ Goes("clear") /\ UNCHANGED <<pending, faults>>
       \/ pending' = TRUE /\ Goes("idle") /\ UNCHANGED <<moved, faults>>
       \/ Fault /\ Goes("idle") /\ UNCHANGED <<moved, pending>>
    /\ ToolOnly /\ UNCHANGED <<content, strays, marker, published, copy, settings, gate, shared,
                               exclusive, localVars, failed>>

Clear ==
    /\ step = "clear" /\ Goes("idle")
    /\ marker' = ClearedMarker
    /\ ToolOnly /\ UNCHANGED <<content, moved, strays, published, copy, settings, pending, gate,
                               shared, exclusive, localVars, failed, faults>>

(* ------------------------------- processes ------------------------------ *)

\* The thread that retries a deferred move, or process_pending_legacy_target_cleanups
\* at the start of an application: the source, and then marker and manifest.
Retry ==
    /\ pending
    /\ \/ ~ moved /\ CanMove /\ moved' = TRUE /\ UNCHANGED <<marker, pending>>
       \/ moved /\ marker' = ClearedMarker /\ pending' = FALSE /\ UNCHANGED moved
    /\ UNCHANGED <<content, strays, published, copy, settings, gate, shared, exclusive, uses,
                   opVars, toolVars, bounds>>

\* What a process that ends leaves behind.
Exit(p) ==
    /\ gate' = [gate EXCEPT ![p] = OpenGate]
    /\ shared' = [shared EXCEPT ![p] = 0]
    /\ pc' = [o \in Ops |-> IF Home[o] = p /\ (pc[o] # "new" \/ level[o] > 0)
                            THEN "ended" ELSE pc[o]]
    /\ level' = [o \in Ops |-> IF Home[o] = p THEN 0 ELSE level[o]]

\* An application is stopped and started: initialize_application_runtime.
Boot(p) ==
    /\ Exit(p)
    /\ uses' = [uses EXCEPT ![p] = settings]
    /\ marker' = IF published THEN ClearedMarker ELSE marker
    /\ UNCHANGED <<content, moved, strays, published, copy, settings, pending, exclusive,
                   toolVars, bounds>>

\* The migrator dies; the system releases its locks.
Crash ==
    /\ step # "idle" /\ Fault /\ crashed' = TRUE
    /\ Exit(Tool) /\ exclusive' = FALSE /\ Goes("idle")
    /\ UNCHANGED <<files, uses, localVars, failed, adoptions>>

Operation(o) == Ask(o) \/ Awake(o) \/ FileLock(o) \/ Recheck(o) \/ Write(o) \/ Leave(o)
                \/ Unlock(o)
Adoption == \/ Claim \/ Quiesce \/ Lock \/ Snapshot \/ Publish \/ Activate \/ Retire
            \/ Release \/ Unmark \/ Reopen \/ Undo \/ Unpublish \/ Move \/ Clear

Next ==
    \/ \E o \in Ops : Operation(o) \/ UseTarget(o)
    \/ Begin \/ Adoption \/ Crash \/ Retry
    \/ \E p \in Apps : Boot(p)

Spec == Init /\ [][Next]_vars
\* Threads that run; nobody need start a process or a migration.
FairSpec == Spec /\ WF_vars(Adoption) /\ \A o \in Ops : WF_vars(Operation(o))

(* ------------------------------ properties ------------------------------ *)

\* While the database is copied, published, activated and retired, no operation of any
\* process is inside it (database_activity, database_maintenance).
AdoptsAlone == exclusive => \A o \in Ops : pc[o] # "in"

\* When the settings name the new database and no migration is under way, it exists and
\* has everything that was ever written to the old one through an activity: nothing is
\* written between the copy and the retirement, nor to a retired database whose file
\* could not be moved yet, nor to one whose migrator failed or died on the way.
WritesAreAdopted ==
    (step = "idle" /\ settings = "target") => published /\ content \subseteq copy

\* A handover that failed, and whose migrator did not die, leaves the old database usable.
StaysUsable ==
    (step = "idle" /\ settings = "source" /\ ~ crashed)
        => marker = "none" /\ ~ gate[Tool].maintenance /\ ~ exclusive

\* An operation and a migration that have begun come to an end, whoever waits for whom,
\* nested activities of other processes included.
HandoverEnds ==
    /\ (step # "idle") ~> (step = "idle")
    /\ \A o \in Ops : (pc[o] # "new" \/ level[o] > 0) ~> (pc[o] = "ended")

\* sqlite_coordination.py retire_database: "Prevent queued PicSyncra work from recreating
\* a migrated source database."
NothingStrays == strays = {}
=============================================================================
