-------------------------- MODULE RegistryRecovery --------------------------
(***************************************************************************)
(* How the agent registry survives crashes and storage failures            *)
(* (agent/runtime.rs, agent/recovery.rs, agent/recovery/*, agent.rs).      *)
(*                                                                         *)
(* An update commits rows in the database and then exports a snapshot      *)
(* (registry.json); the file registry-dirty brackets the two.  The file    *)
(* recovery-required stops every client.  It is lifted by refreshing the   *)
(* snapshot of an interrupted update beside live clients, or by an         *)
(* exclusive recovery that quarantines the database, repairs it and, only  *)
(* when told to by an operator, rebuilds it from the snapshot.  Every      *)
(* process may crash between any two file operations.                      *)
(***************************************************************************)
EXTENDS Naturals

CONSTANTS
  Procs,        \* processes that open the registry: schedulers, workers, TUIs, commands
  None,         \* no process, no snapshot, no archive
  MaxUpdates,   \* bound on committed updates
  MaxFaults,    \* bound on storage failures, spurious errors and damaged files
  MaxCrashes,   \* bound on process crashes
  Persistent    \* processes that open the registry again and again

ASSUME PersistentAssumption == Persistent \subseteq Procs
ASSUME BoundAssumption == MaxUpdates \in Nat /\ MaxFaults \in Nat /\ MaxCrashes \in Nat

VARIABLES
  db,           \* agent.db with its WAL and coordination files: health and rows
  snap,         \* registry.json: the exported rows, or None
  dirty,        \* registry-dirty exists
  required,     \* recovery-required: "none" or the kind of its reason
  progress,     \* recovery-in-progress.json: the quarantined original, or None
  shared,       \* holders of a shared agent-access.lock
  excl,         \* holder of the exclusive agent-access.lock
  writer,       \* holder of agent-write.lock
  marker,       \* holder of recovery-marker.lock
  pc,           \* where each process is
  mode,         \* which recovery it runs
  seen,         \* the rows it read: a verified export or the manifest under the fence
  committed,    \* number of the last committed update
  alive,        \* the process that an active worker row registers is running
  faults, crashes

files  == <<db, snap, dirty, required, progress>>
locks  == <<shared, excl, writer, marker>>
local  == <<mode, seen>>
world  == <<committed, alive>>
budget == <<faults, crashes>>
vars   == <<files, locks, pc, local, world, budget>>

-----------------------------------------------------------------------------
(* Rows, as far as the properties tell them apart: how many updates they   *)
(* include, what they say of a worker, and whether a Git launch state      *)
(* still names that worker.  "running" stands for every active state.      *)

WorkerRow == {"none", "running", "completed", "abandoned"}
Rows      == [seq : 0 .. MaxUpdates, worker : WorkerRow, launch : BOOLEAN]
NoRows    == [seq |-> 0, worker |-> "none", launch |-> FALSE]

\* The database files.  "coordination": agent.db-tshm or agent.db-shm is stale;
\* "indexes": only worker indexes disagree with their rows; "partial": a bundle
\* that recovery has begun to replace.
Health   == {"ok", "coordination", "indexes", "corrupt", "missing", "partial"}
Readable(d) == d.health \in {"ok", "coordination", "indexes"}

Reasons == {"none", "interrupted", "failure", "recovering"}
Modes   == {"automatic", "maintenance", "manual"}
Labels  == {"idle", "shared", "opening", "opened", "open",
            "locked", "clean", "begun", "mutated", "snapped",
            "required", "repair", "repairing", "publish", "publishing", "published", "cleared",
            "recover", "fenced", "unpack", "unpacking", "archived", "attempt", "export",
            "verify", "undo", "undoing", "decide", "rebuild", "reexport", "reverify",
            "drop", "dropping", "finish", "finished", "released"}

\* Mutant of Export: a terminal worker is exported without a state.
ExportNull(r) ==
  [seq |-> r.seq, worker |-> IF r.worker = "running" THEN r.worker ELSE None, launch |-> r.launch]

DbState  == [health : Health, rows : Rows]
Archives == [db : DbState, dirty : BOOLEAN]

ASSUME NoneAssumption == None \notin Procs \cup Rows \cup Archives

\* read_database_snapshot: a terminal worker is exported only for its launch state.
Export(r) ==
  [seq    |-> r.seq,
   worker |-> IF r.worker = "running" \/ r.launch THEN r.worker ELSE "none",
   launch |-> r.launch]

\* restore_snapshot: every exported worker becomes abandoned.
RestoreRows(r) ==
  [seq    |-> r.seq,
   worker |-> IF r.worker = "none" THEN "none" ELSE "abandoned",
   launch |-> r.launch]

\* What a committed update may write: a setting or journal, the claim of a
\* worker or its end, a launch state or its removal.
Updates(r) ==
  {[seq |-> r.seq + 1, worker |-> w, launch |-> b] :
      w \in {r.worker, IF r.worker = "running" THEN "completed" ELSE "running"},
      b \in BOOLEAN}

\* check_required fails.
Required == required # "none" \/ progress # None

\* interrupted_snapshot::eligible
Eligible == dirty /\ progress = None /\ required = "interrupted"

\* stop_services: the processes that a manifest names must be gone.
Stopped(manifest) == manifest.worker = "running" => ~alive

\* A manual recovery stops the services first, an automatic one never does.
StopServices(m, manifest) ==
  IF m = "manual" THEN alive' = (alive /\ manifest.worker # "running")
                  ELSE Stopped(manifest) /\ UNCHANGED alive

-----------------------------------------------------------------------------
Goto(p, l) == pc' = [pc EXCEPT ![p] = l]

Unlock(p) ==
  /\ shared' = shared \ {p}
  /\ excl'   = IF excl   = p THEN None ELSE excl
  /\ writer' = IF writer = p THEN None ELSE writer
  /\ marker' = IF marker = p THEN None ELSE marker

\* A function returns: its locks are dropped and its local values forgotten.
Exit(p, l) ==
  /\ Goto(p, l) /\ Unlock(p)
  /\ mode' = [mode EXCEPT ![p] = "automatic"]
  /\ seen' = [seen EXCEPT ![p] = NoRows]

\* An update returns to the open store: only the writer lock is dropped.
Return(p) == Goto(p, "open") /\ writer' = None /\ UNCHANGED <<shared, excl, marker>>

\* Something happens to the files, and the rows in them stay.
SetHealth(h) == db' = [health |-> h, rows |-> db.rows]

\* One more unexpected failure.
Fault == faults < MaxFaults /\ faults' = faults + 1 /\ UNCHANGED crashes

\* mark_required takes the marker lock.
Mark(reason) == marker = None /\ required' = reason

\* check_clean fails, and records an interrupted update it is the first to meet.
CheckCleanFails ==
  /\ Required \/ dirty
  /\ IF Required THEN UNCHANGED required ELSE Mark("interrupted")

Clean == ~Required /\ ~dirty

-----------------------------------------------------------------------------
(* TursoAgentStore::open_blocking.                                         *)

\* RegistryAccess::shared
OpenShared(p) ==
  /\ pc[p] = "idle" /\ excl = None
  /\ shared' = shared \cup {p}
  /\ Goto(p, "shared")
  /\ UNCHANGED <<files, excl, writer, marker, local, world, budget>>

OpenLock(p) ==
  /\ pc[p] = "shared" /\ writer = None
  /\ writer' = p
  /\ Goto(p, "opening")
  /\ UNCHANGED <<files, shared, excl, marker, local, world, budget>>

\* write_lock gives up: another process has held it for five seconds.
OpenTimeout(p) ==
  /\ pc[p] = "shared" /\ writer # None /\ Fault
  /\ Exit(p, "idle")
  /\ UNCHANGED <<files, world>>

OpenRefused(p) ==
  /\ pc[p] = "opening" /\ CheckCleanFails
  /\ Exit(p, "required")
  /\ UNCHANGED <<db, snap, dirty, progress, world, budget>>

\* The database is gone but its snapshot is not.
OpenMissing(p) ==
  /\ pc[p] = "opening" /\ Clean
  /\ snap # None /\ db.health = "missing"
  /\ Mark("failure")
  /\ Exit(p, "required")
  /\ UNCHANGED <<db, snap, dirty, progress, world, budget>>

\* open_database, creating it the first time.
OpenDatabase(p) ==
  /\ pc[p] = "opening" /\ Clean
  /\ \/ Readable(db) /\ UNCHANGED db
     \/ /\ db.health = "missing" /\ snap = None
        /\ db' = [health |-> "ok", rows |-> NoRows]
  /\ Goto(p, "opened")
  /\ UNCHANGED <<snap, dirty, required, progress, locks, local, world, budget>>

\* The open, the health check or the first export fails.  Only recognised
\* storage failures and definitive integrity results are marked.
OpenFails(p) ==
  /\ pc[p] \in {"opening", "opened"}
  /\ pc[p] = "opening" => Clean /\ ~(snap # None /\ db.health = "missing")
  /\ \/ (db.health # "ok" \/ Required) /\ UNCHANGED budget
     \/ Fault
  /\ UNCHANGED required \/ Mark("failure")
  /\ Exit(p, IF required' # "none" THEN "required" ELSE "idle")
  /\ UNCHANGED <<db, snap, dirty, progress, world>>

\* The store is open; a missing snapshot is exported under the writer lock.
OpenFinish(p) ==
  /\ pc[p] = "opened" /\ ~Required /\ Readable(db)
  /\ snap' = IF snap = None THEN Export(db.rows) ELSE snap
  /\ Return(p)
  /\ UNCHANGED <<db, dirty, required, progress, local, world, budget>>

Close(p) ==
  /\ pc[p] = "open"
  /\ Exit(p, "idle")
  /\ UNCHANGED <<files, world, budget>>

\* block_on_recovery: an operation or the checkpoint before an update meets a
\* storage failure.  No lock but the marker's is needed to record it.
FailRead(p) ==
  /\ pc[p] \in {"open", "locked"}
  /\ pc[p] = "locked" => Clean
  /\ \/ db.health # "ok" /\ required # "failure" /\ UNCHANGED budget
     \/ Fault
  /\ Mark("failure")
  /\ IF pc[p] = "open" THEN UNCHANGED <<pc, locks>> ELSE Return(p)
  /\ UNCHANGED <<db, snap, dirty, progress, local, world>>

-----------------------------------------------------------------------------
(* AgentStoreBlockingAdapter::block_on_persist.                            *)

LockWriter(p) ==
  /\ pc[p] = "open" /\ writer = None
  /\ writer' = p
  /\ Goto(p, "locked")
  /\ UNCHANGED <<files, shared, excl, marker, local, world, budget>>

UpdateRefused(p) ==
  /\ pc[p] = "locked" /\ CheckCleanFails
  /\ Return(p)
  /\ UNCHANGED <<db, snap, dirty, progress, local, world, budget>>

\* The WAL is at its limit, or the guard was only taken to restart the service.
UpdatePaused(p) ==
  /\ pc[p] = "locked" /\ Clean
  /\ Return(p)
  /\ UNCHANGED <<files, local, world, budget>>

UpdateChecked(p) ==
  /\ pc[p] = "locked" /\ Clean
  /\ Goto(p, "clean")
  /\ UNCHANGED <<files, locks, local, world, budget>>

\* begin_update
BeginUpdate(p) ==
  /\ pc[p] = "clean"
  /\ dirty' = TRUE
  /\ Goto(p, "begun")
  /\ UNCHANGED <<db, snap, required, progress, locks, local, world, budget>>

\* The transaction commits rows.  A claim registers a process, an end withdraws it.
Commit(rows) ==
  /\ committed < MaxUpdates
  /\ db' = [health |-> db.health, rows |-> rows]
  /\ committed' = rows.seq
  /\ alive' = (rows.worker = "running" /\ (alive \/ db.rows.worker # "running"))

\* The operation commits, or is refused and rolls back.
Mutate(p) ==
  /\ pc[p] = "begun" /\ ~Required /\ Readable(db)
  /\ (\E r \in Updates(db.rows) : Commit(r)) \/ UNCHANGED <<db, world>>
  /\ Goto(p, "mutated")
  /\ UNCHANGED <<snap, dirty, required, progress, locks, local, budget>>

\* The operation meets a storage failure, before or after its commit.
MutateFails(p) ==
  /\ pc[p] = "begun" /\ ~Required
  /\ \/ db.health # "ok" /\ UNCHANGED budget
     \/ Fault
  /\ \/ Readable(db) /\ \E r \in Updates(db.rows) : Commit(r)
     \/ UNCHANGED <<db, world>>
  /\ Mark("failure")
  /\ Return(p)
  /\ UNCHANGED <<snap, dirty, progress, local>>

\* Mutant of UpdateAborted: the marker found after the operation is ignored and
\* the update finishes without its export.
UpdateAbortedFinishes(p) ==
  /\ pc[p] \in {"begun", "mutated"} /\ Required
  /\ dirty' = FALSE
  /\ Return(p)
  /\ UNCHANGED <<db, snap, required, progress, local, world, budget>>

\* check_required before or after the operation: the dirty marker stays.
UpdateAborted(p) ==
  /\ pc[p] \in {"begun", "mutated"} /\ Required
  /\ Return(p)
  /\ UNCHANGED <<files, local, world, budget>>

ExportSnapshot(p) ==
  /\ pc[p] = "mutated" /\ ~Required /\ Readable(db)
  /\ snap' = Export(db.rows)
  /\ Goto(p, "snapped")
  /\ UNCHANGED <<db, dirty, required, progress, locks, local, world, budget>>

\* The export failed for good, after its retries on contention.
ExportFails(p) ==
  /\ pc[p] = "mutated" /\ ~Required
  /\ \/ db.health # "ok" /\ UNCHANGED budget
     \/ Fault
  /\ Mark("failure")
  /\ Return(p)
  /\ UNCHANGED <<db, snap, dirty, progress, local, world>>

FinishUpdate(p) ==
  /\ pc[p] = "snapped"
  /\ dirty' = FALSE
  /\ Return(p)
  /\ UNCHANGED <<db, snap, required, progress, local, world, budget>>

-----------------------------------------------------------------------------
(* recover_registry_automatically: first interrupted_snapshot::try_repair,  *)
(* beside live clients.                                                    *)

StartAutomatic(p) ==
  /\ pc[p] \in {"idle", "required"} /\ Required
  /\ Goto(p, IF Eligible THEN "repair" ELSE "recover")
  /\ mode' = [mode EXCEPT ![p] = "automatic"]
  /\ UNCHANGED <<files, locks, seen, world, budget>>

\* Another process has already recovered.
NoLongerRequired(p) ==
  /\ pc[p] = "required" /\ ~Required
  /\ Goto(p, "idle")
  /\ UNCHANGED <<files, locks, local, world, budget>>

\* Mutant of RepairLock: the refresh waits for exclusive access.
RepairLockExclusive(p) ==
  /\ pc[p] = "repair" /\ shared = {} /\ excl = None /\ writer = None
  /\ shared' = shared \cup {p} /\ writer' = p
  /\ Goto(p, "repairing")
  /\ UNCHANGED <<files, excl, marker, local, world, budget>>

RepairLock(p) ==
  /\ pc[p] = "repair" /\ excl = None /\ writer = None
  /\ shared' = shared \cup {p} /\ writer' = p
  /\ Goto(p, "repairing")
  /\ UNCHANGED <<files, excl, marker, local, world, budget>>

RepairTimeout(p) ==
  /\ pc[p] = "repair"
  /\ \/ excl # None /\ UNCHANGED budget
     \/ writer # None /\ Fault
  /\ Goto(p, "recover")
  /\ UNCHANGED <<files, locks, local, world>>

\* The original passes its integrity check and its rows are read.
RepairVerify(p) ==
  /\ pc[p] = "repairing" /\ Eligible /\ snap # None /\ db.health = "ok"
  /\ seen' = [seen EXCEPT ![p] = Export(db.rows)]
  /\ Goto(p, "publish")
  /\ UNCHANGED <<files, locks, mode, world, budget>>

RepairFails(p) ==
  /\ pc[p] = "repairing"
  /\ \/ (~Eligible \/ snap = None) /\ UNCHANGED <<required, budget>>
     \/ /\ \/ db.health # "ok" /\ UNCHANGED budget
           \/ Fault
        /\ UNCHANGED required \/ Mark("failure")
  /\ Exit(p, "recover")
  /\ UNCHANGED <<db, snap, dirty, progress, world>>

\* Mutant of StillEligible: the reason is not read again.
EligibleUnchecked(p) == TRUE

\* publish_verified_snapshot rechecks the reason under the marker lock.
StillEligible(p) == Eligible

PublishLock(p) ==
  /\ pc[p] = "publish" /\ marker = None
  /\ IF StillEligible(p)
     THEN Goto(p, "publishing") /\ marker' = p /\ UNCHANGED <<shared, excl, writer, local>>
     ELSE Exit(p, "recover")
  /\ UNCHANGED <<files, world, budget>>

PublishSnapshot(p) ==
  /\ pc[p] = "publishing"
  /\ snap' = seen[p]
  /\ Goto(p, "published")
  /\ UNCHANGED <<db, dirty, required, progress, locks, local, world, budget>>

PublishClear(p) ==
  /\ pc[p] = "published"
  /\ required' = "none"
  /\ Goto(p, "cleared")
  /\ UNCHANGED <<db, snap, dirty, progress, locks, local, world, budget>>

PublishFinish(p) ==
  /\ pc[p] = "cleared"
  /\ dirty' = FALSE
  /\ Exit(p, "idle")
  /\ UNCHANGED <<db, snap, required, progress, world, budget>>

-----------------------------------------------------------------------------
(* recover_registry_with_policy.                                           *)

\* clt agent recover (recover_agent_state): services are stopped at once.
StartManual(p) ==
  /\ pc[p] = "idle" /\ snap # None
  /\ StopServices("manual", snap)
  /\ Goto(p, "recover")
  /\ mode' = [mode EXCEPT ![p] = "manual"]
  /\ UNCHANGED <<files, locks, seen, committed, budget>>

\* maintain_registry_if_idle, when the WAL has grown.
StartMaintenance(p) ==
  /\ pc[p] = "idle" /\ snap # None /\ Clean /\ Stopped(snap)
  /\ Goto(p, "recover")
  /\ mode' = [mode EXCEPT ![p] = "maintenance"]
  /\ UNCHANGED <<files, locks, seen, world, budget>>

\* Mutant of FenceStops: the check before the fence is trusted.
FenceUnchecked(p) == UNCHANGED alive

\* The manifest is read and its processes are checked again under the fence.
FenceStops(p) == StopServices(mode[p], snap)

Fence(p) ==
  /\ pc[p] = "recover" /\ snap # None
  /\ shared = {} /\ excl = None /\ writer = None
  /\ mode[p] = "automatic" => Required
  /\ FenceStops(p)
  /\ excl' = p /\ writer' = p
  /\ seen' = [seen EXCEPT ![p] = snap]
  /\ Goto(p, "fenced")
  /\ UNCHANGED <<files, shared, marker, mode, committed, budget>>

\* The registry is in use, was recovered meanwhile, has no snapshot or a live
\* owner; or a legacy client holds it.
RecoverRefused(p) ==
  /\ pc[p] = "recover"
  /\ \/ /\ \/ shared # {} \/ excl # None \/ writer # None \/ snap = None \/ alive
           \/ mode[p] = "automatic" /\ ~Required
        /\ UNCHANGED budget
     \/ Fault
  /\ Exit(p, "idle")
  /\ UNCHANGED <<files, world>>

\* Mutant of Quarantine: every recovery archives what it finds.
QuarantineAgain(p) ==
  /\ pc[p] = "fenced"
  /\ progress' = [db |-> db, dirty |-> dirty]
  /\ Goto(p, "archived")
  /\ UNCHANGED <<db, snap, dirty, required, locks, local, world, budget>>

\* quarantine_bundle and the durable pointer to it.
Quarantine(p) ==
  /\ pc[p] = "fenced" /\ progress = None
  /\ progress' = [db |-> db, dirty |-> dirty]
  /\ Goto(p, "archived")
  /\ UNCHANGED <<db, snap, dirty, required, locks, local, world, budget>>

\* An unfinished recovery is resumed from the original it quarantined.
Resume(p) ==
  /\ pc[p] = "fenced" /\ progress # None
  /\ mode[p] # "manual" => progress.db.health # "missing"
  /\ dirty' = (dirty \/ progress.dirty)
  /\ Goto(p, "unpack")
  /\ UNCHANGED <<db, snap, required, progress, locks, local, world, budget>>

ResumeRefused(p) ==
  /\ pc[p] = "fenced" /\ progress # None
  /\ mode[p] # "manual" /\ progress.db.health = "missing"
  /\ Exit(p, "idle")
  /\ UNCHANGED <<files, world, budget>>

\* restore_bundle replaces the files one by one.
RestoreBegin(p) ==
  /\ \/ pc[p] = "unpack" /\ Goto(p, "unpacking")
     \/ pc[p] = "undo"   /\ Goto(p, "undoing")
     \/ pc[p] = "drop"   /\ Goto(p, "dropping")
  /\ SetHealth("partial")
  /\ UNCHANGED <<snap, dirty, required, progress, locks, local, world, budget>>

RestoreEnd(p) ==
  /\ \/ pc[p] = "unpacking" /\ Goto(p, "archived") /\ UNCHANGED <<locks, local>>
     \/ pc[p] = "undoing"   /\ Goto(p, "decide")   /\ UNCHANGED <<locks, local>>
     \/ pc[p] = "dropping"  /\ Exit(p, "idle")
  /\ db' = progress.db
  /\ UNCHANGED <<snap, dirty, required, progress, world, budget>>

\* The coordination files are deleted; the engine rebuilds them.
MarkRecovering(p) ==
  /\ pc[p] = "archived"
  /\ Mark("recovering")
  /\ SetHealth(IF db.health = "coordination" THEN "ok" ELSE db.health)
  /\ Goto(p, "attempt")
  /\ UNCHANGED <<snap, dirty, progress, locks, local, world, budget>>

\* repair_worker_indexes_if_needed: nothing but worker indexes may be wrong.
Repairable == db.health \in {"ok", "indexes"}

\* checkpoint_exclusive_registry rebuilds the indexes and verifies the result.
CheckpointExclusive == Repairable /\ SetHealth("ok")

\* The original opens, and an automatic recovery checks the owners that the rows
\* themselves name before it repairs anything.
AttemptOpen(p) ==
  /\ pc[p] = "attempt"
  /\ mode[p] # "manual" => Stopped(db.rows)
  /\ CheckpointExclusive
  /\ Goto(p, "export")
  /\ UNCHANGED <<snap, dirty, required, progress, locks, local, world, budget>>

AttemptExport(p) ==
  /\ pc[p] = "export" /\ db.health = "ok"
  /\ snap' = Export(db.rows)
  /\ Goto(p, "verify")
  /\ UNCHANGED <<db, dirty, required, progress, locks, local, world, budget>>

\* A step on the original or on its replacement fails.
AttemptFails(p) ==
  /\ pc[p] \in {"attempt", "export", "rebuild", "reexport"}
  /\ \/ /\ db.health \notin {"ok", "partial"} \/ (mode[p] # "manual" /\ ~Stopped(db.rows))
        /\ UNCHANGED budget
     \/ Fault
  /\ UNCHANGED required \/ Mark("failure")
  /\ Goto(p, IF pc[p] \in {"attempt", "export"} THEN "undo" ELSE "drop")
  /\ UNCHANGED <<db, snap, dirty, progress, locks, local, world>>

\* Closing the recovered store meets a storage failure (Drop of the store).
Teardown(p) ==
  /\ pc[p] \in {"verify", "reverify"}
  /\ Fault
  /\ Mark("failure")
  /\ UNCHANGED <<db, snap, dirty, progress, locks, pc, local, world>>

\* verify_recovery_teardown: recovery's own reason is still in the marker.
TeardownVerified == required = "recovering"

Verify(p) ==
  /\ pc[p] \in {"verify", "reverify"}
  /\ Goto(p, IF TeardownVerified THEN "finish"
             ELSE IF pc[p] = "verify" THEN "undo" ELSE "drop")
  /\ UNCHANGED <<files, locks, local, world, budget>>

\* Mutant of MayRebuild: a lagging snapshot is good enough for an operator.
MayRebuildDirty(p) == mode[p] = "manual"

\* Reconstruction needs an operator, and a snapshot that cannot lag.
MayRebuild(p) == mode[p] = "manual" /\ ~dirty

RebuildRefused(p) ==
  /\ pc[p] = "decide" /\ ~MayRebuild(p)
  /\ Exit(p, "idle")
  /\ UNCHANGED <<files, world, budget>>

\* The bundle is removed and an empty database created in its place.
Rebuild(p) ==
  /\ pc[p] = "decide" /\ MayRebuild(p)
  /\ SetHealth("partial")
  /\ Mark("recovering")
  /\ Goto(p, "rebuild")
  /\ UNCHANGED <<snap, dirty, progress, locks, local, world, budget>>

\* restore_snapshot
RebuildRows(p) ==
  /\ pc[p] = "rebuild"
  /\ db' = [health |-> "ok", rows |-> RestoreRows(seen[p])]
  /\ Goto(p, "reexport")
  /\ UNCHANGED <<snap, dirty, required, progress, locks, local, world, budget>>

RebuildExport(p) ==
  /\ pc[p] = "reexport" /\ db.health = "ok"
  /\ snap' = Export(db.rows)
  /\ Goto(p, "reverify")
  /\ UNCHANGED <<db, dirty, required, progress, locks, local, world, budget>>

FinishDirty(p) ==
  /\ pc[p] = "finish"
  /\ dirty' = FALSE
  /\ Goto(p, "finished")
  /\ UNCHANGED <<db, snap, required, progress, locks, local, world, budget>>

FinishProgress(p) ==
  /\ pc[p] = "finished"
  /\ progress' = None
  /\ Goto(p, "released")
  /\ UNCHANGED <<db, snap, dirty, required, locks, local, world, budget>>

FinishRequired(p) ==
  /\ pc[p] = "released"
  /\ required' = "none"
  /\ Exit(p, "idle")
  /\ UNCHANGED <<db, snap, dirty, progress, world, budget>>

-----------------------------------------------------------------------------
(* The world.                                                              *)

\* The database files are damaged from outside or by an engine failure.
Damage ==
  /\ db.health = "ok" /\ Fault
  /\ \E h \in {"coordination", "indexes", "corrupt", "missing"} :
       SetHealth(h)
  /\ UNCHANGED <<snap, dirty, required, progress, locks, pc, local, world>>

WorkerExits ==
  /\ alive /\ alive' = FALSE
  /\ UNCHANGED <<files, locks, pc, local, committed, budget>>

\* A crash leaves the files and releases the locks.
Crash(p) ==
  /\ pc[p] # "idle" /\ crashes < MaxCrashes
  /\ crashes' = crashes + 1
  /\ Exit(p, "idle")
  /\ UNCHANGED <<files, world, faults>>

-----------------------------------------------------------------------------
Init ==
  /\ db = [health |-> "missing", rows |-> NoRows]
  /\ snap = None /\ dirty = FALSE /\ required = "none" /\ progress = None
  /\ shared = {} /\ excl = None /\ writer = None /\ marker = None
  /\ pc = [p \in Procs |-> "idle"]
  /\ mode = [p \in Procs |-> "automatic"]
  /\ seen = [p \in Procs |-> NoRows]
  /\ committed = 0 /\ alive = FALSE
  /\ faults = 0 /\ crashes = 0

Open(p) ==
  \/ OpenShared(p) \/ OpenLock(p) \/ OpenTimeout(p) \/ OpenRefused(p) \/ OpenMissing(p)
  \/ OpenDatabase(p) \/ OpenFails(p) \/ OpenFinish(p)

Use(p) ==
  \/ Close(p) \/ FailRead(p) \/ LockWriter(p)

Update(p) ==
  \/ UpdateRefused(p) \/ UpdatePaused(p) \/ UpdateChecked(p) \/ BeginUpdate(p)
  \/ Mutate(p) \/ MutateFails(p) \/ UpdateAborted(p) \/ ExportSnapshot(p)
  \/ ExportFails(p) \/ FinishUpdate(p)

Repair(p) ==
  \/ StartAutomatic(p) \/ NoLongerRequired(p) \/ RepairLock(p) \/ RepairTimeout(p)
  \/ RepairVerify(p) \/ RepairFails(p) \/ PublishLock(p) \/ PublishSnapshot(p)
  \/ PublishClear(p) \/ PublishFinish(p)

Recover(p) ==
  \/ Fence(p) \/ RecoverRefused(p) \/ Quarantine(p) \/ Resume(p) \/ ResumeRefused(p)
  \/ RestoreBegin(p) \/ RestoreEnd(p) \/ MarkRecovering(p) \/ AttemptOpen(p)
  \/ AttemptExport(p) \/ AttemptFails(p) \/ Teardown(p) \/ Verify(p)
  \/ RebuildRefused(p) \/ Rebuild(p) \/ RebuildRows(p) \/ RebuildExport(p)
  \/ FinishDirty(p) \/ FinishProgress(p) \/ FinishRequired(p)

Next ==
  \/ \E p \in Procs :
       \/ Open(p) \/ Use(p) \/ Update(p) \/ Repair(p)
       \/ StartManual(p) \/ StartMaintenance(p) \/ Recover(p) \/ Crash(p)
  \/ Damage \/ WorkerExits

Spec == Init /\ [][Next]_vars

\* Once it has begun to open, update, repair or recover, a process goes on.
Step(p) ==
  /\ pc[p] \notin {"idle", "open"}
  /\ Open(p) \/ Update(p) \/ Repair(p) \/ Recover(p)

\* A persistent process opens a store for each operation (with_agent_store_at)
\* and drops it; its polling gets a writer lock that keeps becoming free.
\* Nothing makes the others close their stores.
Fairness ==
  /\ \A p \in Procs : WF_vars(Step(p))
  /\ \A p \in Persistent :
       /\ SF_vars(OpenShared(p)) /\ SF_vars(Close(p))
       /\ SF_vars(OpenLock(p)) /\ SF_vars(RepairLock(p))

FairSpec == Spec /\ Fairness

-----------------------------------------------------------------------------
(* Properties.                                                             *)

FileTypes ==
  /\ db \in DbState
  /\ snap \in Rows \cup {None}
  /\ dirty \in BOOLEAN
  /\ required \in Reasons
  /\ progress \in Archives \cup {None}
  /\ committed \in 0 .. MaxUpdates
  /\ alive \in BOOLEAN

ProcessTypes ==
  /\ shared \subseteq Procs
  /\ excl \in Procs \cup {None} /\ writer \in Procs \cup {None} /\ marker \in Procs \cup {None}
  /\ pc \in [Procs -> Labels]
  /\ mode \in [Procs -> Modes]
  /\ seen \in [Procs -> Rows]
  /\ faults \in 0 .. MaxFaults
  /\ crashes \in 0 .. MaxCrashes

\* Every file, lock and process state has its type.
TypeOK == FileTypes /\ ProcessTypes

\* A committed update is never lost: whenever no recovery is under way, a
\* database that opens contains every update that was committed, whatever
\* crashed, failed, was restored or was rebuilt before.  (A commit is retained
\* even if exporting it failed; recovery resumes from the original bundle.)
CommittedUpdatesKept ==
  progress = None /\ Readable(db) => db.rows.seq = committed

\* The dirty marker is honest: when it is absent, the snapshot contains every
\* committed update, so a database may be rebuilt from it.  During a recovery
\* the marker kept with the quarantined original counts as well.
SnapshotLagsOnlyWhenDirty ==
  /\ ~dirty /\ progress = None /\ snap # None => snap.seq = committed
  /\ progress # None /\ ~progress.dirty => snap # None /\ snap.seq = committed

\* The quarantine an unfinished recovery resumes from is the original, never a
\* half-restored or rebuilt replacement.
QuarantineIsOriginal ==
  progress # None => /\ progress.db.health # "partial"
                     /\ Readable(progress.db) => progress.db.rows.seq = committed

\* A rebuilt registry calls a worker abandoned only if its process is gone, even
\* if the worker registered between the two checks of the manifest.
LiveWorkerNotAbandoned == alive => db.rows.worker # "abandoned"

\* A recorded storage failure is lifted by nothing but an exclusive recovery,
\* which first puts its own reason in its place: neither the snapshot refresh
\* nor a recovery whose teardown failed dismisses it.
FailureNotDismissed ==
  [][required = "failure" /\ required' # "failure" =>
       required' = "recovering" /\ excl # None]_vars

\* An interrupted update does not stop the registry: as long as the database is
\* intact, the marker it left behind is lifted, even if other processes never
\* close their stores ("active workers continue").  Only a recovery that was
\* itself interrupted has to wait for them.
InterruptedUpdateRepaired ==
  (required = "interrupted")
    ~> (required # "interrupted" \/ db.health # "ok" \/ progress # None)

-----------------------------------------------------------------------------
(* The inductive strengthening of the invariants above.                    *)

UpdateLabels  == {"locked", "clean", "begun", "mutated", "snapped"}
PublishLabels == {"publishing", "published", "cleared"}
RepairLabels  == {"repairing", "publish"} \cup PublishLabels
\* An exclusive recovery before it has decided, and one that has its archive.
EarlyLabels   == {"unpack", "unpacking", "archived", "attempt", "export", "verify", "undo",
                  "undoing", "decide"}
ArchiveLabels == EarlyLabels \cup {"rebuild", "reexport", "reverify", "drop", "dropping",
                                   "finish", "finished"}
ExclLabels    == ArchiveLabels \cup {"fenced", "released"}
SharedLabels  == {"shared", "opening", "opened", "open"} \cup UpdateLabels \cup RepairLabels
WriterLabels  == {"opening", "opened"} \cup UpdateLabels \cup RepairLabels \cup ExclLabels

\* Who holds which lock follows from where the processes are, and exclusive
\* access excludes shared access.
LocksHeld ==
  /\ \A p \in Procs :
       /\ p \in shared <=> pc[p] \in SharedLabels
       /\ excl   = p <=> pc[p] \in ExclLabels
       /\ writer = p <=> pc[p] \in WriterLabels
       /\ marker = p <=> pc[p] \in PublishLabels
  /\ excl # None => shared = {}

\* The reasons in the marker that its owners rely on.
ReasonsHeld ==
  \A p \in Procs :
    /\ pc[p] \in {"publishing", "published"} => required = "interrupted"
    /\ pc[p] \in {"finish", "finished", "released"} => required = "recovering"

\* A store is open, and a recovery begins, only beside a snapshot.
SnapshotExists ==
  /\ snap = None => committed = 0 /\ progress = None /\ ~alive
  /\ \A p \in Procs :
       pc[p] \in {"open"} \cup UpdateLabels \cup {"published", "cleared"} \cup ExclLabels => snap # None

\* The original rows are in the database, or in the archive, or in both.
OriginalKept ==
  /\ progress = None  => db.health # "partial" /\ db.rows.seq = committed
  /\ progress # None => progress.db.health # "partial" /\ progress.db.rows.seq = committed
  /\ \A p \in Procs :
       /\ pc[p] \in ArchiveLabels => progress # None
       /\ pc[p] \in {"archived", "attempt", "export", "verify", "decide", "reexport",
                     "reverify", "finish", "finished"} =>
            db.health # "partial" /\ db.rows.seq = committed

\* The marker, or the marker kept with the archive, is absent.
NotDirty == IF progress = None THEN ~dirty ELSE ~progress.dirty

\* Rows with every committed update, and the worker if it is running.
Current(r) == r.seq = committed /\ (alive => r.worker = "running")

\* What was exported, or read to be published or restored, is current.
ExportsCurrent ==
  /\ NotDirty /\ snap # None => Current(snap)
  /\ \A p \in Procs :
       /\ pc[p] \in {"begun", "mutated", "snapped"} => dirty
       /\ pc[p] \in {"snapped", "published", "cleared", "verify", "reverify", "finish",
                     "finished", "released"} => Current(snap)
       /\ pc[p] \in {"publish", "publishing", "rebuild"} => Current(seen[p])
       /\ pc[p] \in EarlyLabels /\ ~dirty => ~progress.dirty
       /\ pc[p] \in {"fenced"} \cup EarlyLabels /\ NotDirty => Current(seen[p])

\* A registered process is registered by the original rows, and a recovery that
\* may rebuild has seen that there is none.
OwnersGone ==
  /\ alive => IF progress = None THEN db.rows.worker = "running"
                                 ELSE progress.db.rows.worker = "running"
  /\ alive => db.rows.worker # "abandoned"
  /\ \A p \in Procs :
       /\ alive /\ pc[p] \in {"archived", "attempt", "export", "verify", "decide",
                             "finish", "finished"} => db.rows.worker = "running"
       /\ pc[p] \in {"fenced"} \cup EarlyLabels /\ NotDirty => ~alive
       /\ pc[p] \in {"rebuild", "reexport", "reverify"} => ~alive

RecoveryInv ==
  /\ TypeOK
  /\ LocksHeld
  /\ ReasonsHeld
  /\ SnapshotExists
  /\ OriginalKept
  /\ ExportsCurrent
  /\ OwnersGone

=============================================================================
