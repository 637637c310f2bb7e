----------------------- MODULE RegistryRecoveryProofs -----------------------
(***************************************************************************)
(* Proofs about RegistryRecovery, for every number of processes, updates,  *)
(* faults and crashes.  The inductive invariant is RecoveryInv.            *)
(***************************************************************************)
EXTENDS RegistryRecovery, TLAPS

\* Every step keeps the locks where the processes are.
LEMMA LocksStep ==
  ASSUME TypeOK, LocksHeld, [Next]_vars
  PROVE  LocksHeld'
<1> USE NoneAssumption DEF Goto, Exit, Unlock, Return, Mark, CheckCleanFails, Fault,
        locks, LocksHeld, SharedLabels, ExclLabels, WriterLabels, PublishLabels,
        UpdateLabels, RepairLabels, ArchiveLabels, EarlyLabels
<1>0. /\ pc \in [Procs -> Labels] /\ shared \subseteq Procs
  BY DEF TypeOK, ProcessTypes
<1>1. ASSUME NEW p \in Procs, Open(p) PROVE LocksHeld'
  BY <1>0, <1>1 DEF Open, OpenShared, OpenLock, OpenTimeout, OpenRefused, OpenMissing,
     OpenDatabase, OpenFails, OpenFinish
<1>2. ASSUME NEW p \in Procs, Use(p) PROVE LocksHeld'
  BY <1>0, <1>2 DEF Use, Close, FailRead, LockWriter
<1>3. ASSUME NEW p \in Procs, Update(p) PROVE LocksHeld'
  BY <1>0, <1>3 DEF Update, UpdateRefused, UpdatePaused, UpdateChecked, BeginUpdate, Mutate,
     MutateFails, UpdateAborted, ExportSnapshot, ExportFails, FinishUpdate
<1>4. ASSUME NEW p \in Procs, Repair(p) PROVE LocksHeld'
  BY <1>0, <1>4 DEF Repair, StartAutomatic, NoLongerRequired, RepairLock, RepairTimeout,
     RepairVerify, RepairFails, PublishLock, PublishSnapshot, PublishClear, PublishFinish
<1>5. ASSUME NEW p \in Procs, StartManual(p) \/ StartMaintenance(p) \/ Crash(p) PROVE LocksHeld'
  BY <1>0, <1>5 DEF StartManual, StartMaintenance, Crash
<1>6. ASSUME NEW p \in Procs, Recover(p) PROVE LocksHeld'
  BY <1>0, <1>6 DEF Recover, Fence, RecoverRefused, Quarantine, Resume, ResumeRefused,
     RestoreBegin, RestoreEnd, MarkRecovering, AttemptOpen, AttemptExport, AttemptFails,
     Teardown, Verify, RebuildRefused, Rebuild, RebuildRows, RebuildExport, FinishDirty,
     FinishProgress, FinishRequired
<1>7. CASE Damage \/ WorkerExits \/ UNCHANGED vars
  BY <1>7 DEF Damage, WorkerExits, vars
<1> QED BY <1>1, <1>2, <1>3, <1>4, <1>5, <1>6, <1>7 DEF Next

-----------------------------------------------------------------------------
(* Types                                                                   *)

\* Exported and restored rows are rows, with the same updates in them.
LEMMA RowFacts ==
  ASSUME NEW r \in Rows
  PROVE  /\ r.seq \in 0 .. MaxUpdates /\ r.worker \in WorkerRow
         /\ Export(r) \in Rows /\ Export(r).seq = r.seq
         /\ Export(r).worker = "running" <=> r.worker = "running"
         /\ RestoreRows(r) \in Rows /\ RestoreRows(r).seq = r.seq
         /\ r # None
BY NoneAssumption DEF Rows, WorkerRow, Export, RestoreRows

\* The fields of a database and of an archive.
LEMMA StateFields ==
  /\ NoRows \in Rows
  /\ \A d \in DbState : d.health \in Health /\ d.rows \in Rows
  /\ \A h \in Health, r \in Rows : /\ [health |-> h, rows |-> r] \in DbState
                                   /\ [health |-> h, rows |-> r].health = h
                                   /\ [health |-> h, rows |-> r].rows = r
  /\ \A a \in Archives : a.db \in DbState /\ a.dirty \in BOOLEAN /\ a # None
  /\ \A d \in DbState, b \in BOOLEAN : /\ [db |-> d, dirty |-> b] \in Archives
                                       /\ [db |-> d, dirty |-> b].db = d
                                       /\ [db |-> d, dirty |-> b].dirty = b
BY NoneAssumption, BoundAssumption DEF NoRows, Rows, WorkerRow, DbState, Archives

\* The next rows include one more update.
LEMMA UpdatesFacts ==
  ASSUME NEW r \in Rows, r.seq < MaxUpdates, NEW u \in Updates(r)
  PROVE  /\ u \in Rows /\ u.seq = r.seq + 1
BY BoundAssumption DEF Updates, Rows, WorkerRow

\* Damage, repair and restoration change the health of the database only.
LEMMA SetHealthFacts ==
  ASSUME db \in DbState, NEW h \in Health, SetHealth(h)
  PROVE  db' \in DbState /\ db'.health = h /\ db'.rows = db.rows
BY DEF SetHealth, DbState

\* A commit adds one update to a current database, and keeps the types.
LEMMA CommitFacts ==
  ASSUME db \in DbState, db.rows.seq = committed, committed \in 0 .. MaxUpdates,
         alive \in BOOLEAN, NEW r \in Updates(db.rows), Commit(r)
  PROVE  /\ db' \in DbState /\ db'.health = db.health /\ db'.rows = r
         /\ r \in Rows /\ committed' \in 0 .. MaxUpdates /\ committed' = committed + 1
         /\ r.seq = committed'
         /\ alive' \in BOOLEAN
         /\ alive' => r.worker = "running"
<1>1. db.rows \in Rows /\ db.rows.seq < MaxUpdates
  BY StateFields DEF Commit
<1>2. r \in Rows /\ r.seq = db.rows.seq + 1
  BY <1>1, UpdatesFacts
<1>3. db' = [health |-> db.health, rows |-> r] /\ committed' = r.seq
  BY DEF Commit
<1>4. db' \in DbState /\ db'.health = db.health /\ db'.rows = r
  BY <1>2, <1>3, StateFields
<1>5. alive' \in BOOLEAN
  BY DEF Commit
<1>6. alive' => r.worker = "running"
  BY DEF Commit
<1> QED BY <1>2, <1>3, <1>4, <1>5, <1>6, BoundAssumption DEF Commit

\* Stopping services can only end a worker.
LEMMA StopFacts ==
  ASSUME alive \in BOOLEAN, NEW m, NEW r, StopServices(m, r)
  PROVE  /\ alive' \in BOOLEAN
         /\ alive' => alive
         /\ r.worker = "running" => ~alive'
BY DEF StopServices, Stopped

\* Every step keeps the types of locks, processes and budgets.
LEMMA ProcessTypesStep ==
  ASSUME TypeOK, [Next]_vars
  PROVE  ProcessTypes'
<1> USE RowFacts, StateFields, BoundAssumption
    DEF TypeOK, ProcessTypes, Goto, Exit, Unlock, Return, Fault, locks, local, budget, Labels, Modes
<1>0. snap \in Rows \cup {None} /\ db.rows \in Rows
  BY DEF FileTypes
<1>1. ASSUME NEW p \in Procs, Open(p) PROVE ProcessTypes'
  BY <1>0, <1>1 DEF Open, OpenShared, OpenLock, OpenTimeout, OpenRefused, OpenMissing,
     OpenDatabase, OpenFails, OpenFinish
<1>2. ASSUME NEW p \in Procs, Use(p) PROVE ProcessTypes'
  BY <1>0, <1>2 DEF Use, Close, FailRead, LockWriter
<1>3. ASSUME NEW p \in Procs, Update(p) PROVE ProcessTypes'
  BY <1>0, <1>3 DEF Update, UpdateRefused, UpdatePaused, UpdateChecked, BeginUpdate, Mutate,
     MutateFails, UpdateAborted, ExportSnapshot, ExportFails, FinishUpdate
<1>4. ASSUME NEW p \in Procs, Repair(p) PROVE ProcessTypes'
  BY <1>0, <1>4 DEF Repair, StartAutomatic, NoLongerRequired, RepairLock, RepairTimeout,
     RepairVerify, RepairFails, PublishLock, PublishSnapshot, PublishClear, PublishFinish
<1>5. ASSUME NEW p \in Procs, StartManual(p) \/ StartMaintenance(p) \/ Crash(p) PROVE ProcessTypes'
  BY <1>0, <1>5 DEF StartManual, StartMaintenance, Crash
<1>6. ASSUME NEW p \in Procs, Recover(p) PROVE ProcessTypes'
  BY <1>0, <1>6 DEF Recover, Fence, RecoverRefused, Quarantine, Resume, ResumeRefused,
     RestoreBegin, RestoreEnd, MarkRecovering, AttemptOpen, AttemptExport, AttemptFails,
     Teardown, Verify, RebuildRefused, Rebuild, RebuildRows, RebuildExport, FinishDirty,
     FinishProgress, FinishRequired
<1>7. CASE Damage \/ WorkerExits \/ UNCHANGED vars
  BY <1>0, <1>7 DEF Damage, WorkerExits, vars
<1> QED BY <1>1, <1>2, <1>3, <1>4, <1>5, <1>6, <1>7 DEF Next

\* The reasons that a publication and a finishing recovery rely on stay: the first
\* holds the marker lock, the second the exclusive lock.
LEMMA ReasonsStep ==
  ASSUME TypeOK, LocksHeld, ReasonsHeld, [Next]_vars
  PROVE  ReasonsHeld'
<1> USE NoneAssumption DEF Goto, Exit, Unlock, Return, Mark, CheckCleanFails, Fault,
        files, locks, LocksHeld, ReasonsHeld, SharedLabels, ExclLabels, WriterLabels, PublishLabels,
        UpdateLabels, RepairLabels, ArchiveLabels, EarlyLabels, StillEligible, Eligible,
        TeardownVerified
<1>0. /\ pc \in [Procs -> Labels] /\ shared \subseteq Procs
  BY DEF TypeOK, ProcessTypes
<1>1. ASSUME NEW p \in Procs, Open(p) PROVE ReasonsHeld'
  BY <1>0, <1>1 DEF Open, OpenShared, OpenLock, OpenTimeout, OpenRefused, OpenMissing,
     OpenDatabase, OpenFails, OpenFinish
<1>2. ASSUME NEW p \in Procs, Use(p) PROVE ReasonsHeld'
  BY <1>0, <1>2 DEF Use, Close, FailRead, LockWriter
<1>3. ASSUME NEW p \in Procs, Update(p) PROVE ReasonsHeld'
  BY <1>0, <1>3 DEF Update, UpdateRefused, UpdatePaused, UpdateChecked, BeginUpdate, Mutate,
     MutateFails, UpdateAborted, ExportSnapshot, ExportFails, FinishUpdate
<1>4. ASSUME NEW p \in Procs, Repair(p) PROVE ReasonsHeld'
  BY <1>0, <1>4 DEF Repair, StartAutomatic, NoLongerRequired, RepairLock, RepairTimeout,
     RepairVerify, RepairFails, PublishLock, PublishSnapshot, PublishClear, PublishFinish
<1>5. ASSUME NEW p \in Procs, StartManual(p) \/ StartMaintenance(p) \/ Crash(p) PROVE ReasonsHeld'
  BY <1>0, <1>5 DEF StartManual, StartMaintenance, Crash
<1>6. ASSUME NEW p \in Procs, Recover(p) PROVE ReasonsHeld'
  BY <1>0, <1>6 DEF Recover, Fence, RecoverRefused, Quarantine, Resume, ResumeRefused,
     RestoreBegin, RestoreEnd, MarkRecovering, AttemptOpen, AttemptExport, AttemptFails,
     Teardown, Verify, RebuildRefused, Rebuild, RebuildRows, RebuildExport, FinishDirty,
     FinishProgress, FinishRequired
<1>7. CASE Damage \/ WorkerExits \/ UNCHANGED vars
  BY <1>0, <1>7 DEF Damage, WorkerExits, vars
<1> QED BY <1>1, <1>2, <1>3, <1>4, <1>5, <1>6, <1>7 DEF Next

\* The names of the states of the files.
LEMMA HealthNames ==
  /\ {"ok", "coordination", "indexes", "corrupt", "missing", "partial"} \subseteq Health
  /\ {"none", "interrupted", "failure", "recovering"} \subseteq Reasons
BY DEF Health, Reasons

\* Every step keeps the types of the files and of the world.
LEMMA FileTypesStep ==
  ASSUME TypeOK, OriginalKept, [Next]_vars
  PROVE  FileTypes'
<1> USE RowFacts, StateFields, HealthNames, SetHealthFacts, CommitFacts, StopFacts, BoundAssumption
    DEF FileTypes, Mark, CheckCleanFails, files, world
<1>0. /\ FileTypes /\ seen \in [Procs -> Rows]
      /\ progress = None => db.rows.seq = committed
  BY DEF TypeOK, ProcessTypes, OriginalKept
<1> USE DEF Required, FenceStops, Fault, Return, Readable
<1>1. ASSUME NEW p \in Procs, Open(p) PROVE FileTypes'
  BY <1>0, <1>1 DEF Open, OpenShared, OpenLock, OpenTimeout, OpenRefused, OpenMissing,
     OpenDatabase, OpenFails, OpenFinish
<1>2. ASSUME NEW p \in Procs, Use(p) PROVE FileTypes'
  BY <1>0, <1>2 DEF Use, Close, FailRead, LockWriter
<1>3. ASSUME NEW p \in Procs, Update(p) PROVE FileTypes'
  <2>1. CASE UpdateRefused(p)
    BY <1>0, <2>1 DEF UpdateRefused
  <2>2. CASE UpdatePaused(p)
    BY <1>0, <2>2 DEF UpdatePaused
  <2>3. CASE UpdateChecked(p)
    BY <1>0, <2>3 DEF UpdateChecked
  <2>4. CASE BeginUpdate(p)
    BY <1>0, <2>4 DEF BeginUpdate
  <2>5. CASE Mutate(p)
    BY <1>0, <2>5 DEF Mutate
  <2>6. CASE MutateFails(p)
    BY <1>0, <2>6 DEF MutateFails
  <2>7. CASE UpdateAborted(p)
    BY <1>0, <2>7 DEF UpdateAborted
  <2>8. CASE ExportSnapshot(p)
    BY <1>0, <2>8 DEF ExportSnapshot
  <2>9. CASE ExportFails(p)
    BY <1>0, <2>9 DEF ExportFails
  <2>10. CASE FinishUpdate(p)
    BY <1>0, <2>10 DEF FinishUpdate
  <2> QED BY <1>3, <2>1, <2>2, <2>3, <2>4, <2>5, <2>6, <2>7, <2>8, <2>9, <2>10 DEF Update
<1>4. ASSUME NEW p \in Procs, Repair(p) PROVE FileTypes'
  <2>1. CASE StartAutomatic(p)
    BY <1>0, <2>1 DEF StartAutomatic
  <2>2. CASE NoLongerRequired(p)
    BY <1>0, <2>2 DEF NoLongerRequired
  <2>3. CASE RepairLock(p)
    BY <1>0, <2>3 DEF RepairLock
  <2>4. CASE RepairTimeout(p)
    BY <1>0, <2>4 DEF RepairTimeout
  <2>5. CASE RepairVerify(p)
    BY <1>0, <2>5 DEF RepairVerify
  <2>6. CASE RepairFails(p)
    BY <1>0, <2>6 DEF RepairFails
  <2>7. CASE PublishLock(p)
    BY <1>0, <2>7 DEF PublishLock
  <2>8. CASE PublishSnapshot(p)
    BY <1>0, <2>8 DEF PublishSnapshot
  <2>9. CASE PublishClear(p)
    BY <1>0, <2>9 DEF PublishClear
  <2>10. CASE PublishFinish(p)
    BY <1>0, <2>10 DEF PublishFinish
  <2> QED BY <1>4, <2>1, <2>2, <2>3, <2>4, <2>5, <2>6, <2>7, <2>8, <2>9, <2>10 DEF Repair
<1>5. ASSUME NEW p \in Procs, StartManual(p) \/ StartMaintenance(p) \/ Crash(p) PROVE FileTypes'
  <2>1. CASE StartManual(p)
    BY <1>0, <2>1 DEF StartManual
  <2>2. CASE StartMaintenance(p)
    BY <1>0, <2>2 DEF StartMaintenance
  <2>3. CASE Crash(p)
    BY <1>0, <2>3 DEF Crash
  <2> QED BY <1>5, <2>1, <2>2, <2>3
<1>6. ASSUME NEW p \in Procs, Recover(p) PROVE FileTypes'
  <2>1. CASE Fence(p)
    BY <1>0, <2>1 DEF Fence
  <2>2. CASE RecoverRefused(p)
    BY <1>0, <2>2 DEF RecoverRefused
  <2>3. CASE Quarantine(p)
    BY <1>0, <2>3 DEF Quarantine
  <2>4. CASE Resume(p)
    BY <1>0, <2>4 DEF Resume
  <2>5. CASE ResumeRefused(p)
    BY <1>0, <2>5 DEF ResumeRefused
  <2>6. CASE RestoreBegin(p)
    BY <1>0, <2>6 DEF RestoreBegin
  <2>7. CASE RestoreEnd(p)
    <3>1. progress # None
      BY <2>7 DEF RestoreEnd, OriginalKept, ArchiveLabels, EarlyLabels
    <3> QED BY <1>0, <3>1, <2>7 DEF RestoreEnd
  <2>8. CASE MarkRecovering(p)
    BY <1>0, <2>8 DEF MarkRecovering
  <2>9. CASE AttemptOpen(p)
    BY <1>0, <2>9 DEF AttemptOpen, CheckpointExclusive, Repairable
  <2>10. CASE AttemptExport(p)
    BY <1>0, <2>10 DEF AttemptExport
  <2>11. CASE AttemptFails(p)
    BY <1>0, <2>11 DEF AttemptFails
  <2>12. CASE Teardown(p)
    BY <1>0, <2>12 DEF Teardown
  <2>13. CASE Verify(p)
    BY <1>0, <2>13 DEF Verify
  <2>14. CASE RebuildRefused(p)
    BY <1>0, <2>14 DEF RebuildRefused
  <2>15. CASE Rebuild(p)
    BY <1>0, <2>15 DEF Rebuild
  <2>16. CASE RebuildRows(p)
    BY <1>0, <2>16 DEF RebuildRows
  <2>17. CASE RebuildExport(p)
    BY <1>0, <2>17 DEF RebuildExport
  <2>18. CASE FinishDirty(p)
    BY <1>0, <2>18 DEF FinishDirty
  <2>19. CASE FinishProgress(p)
    BY <1>0, <2>19 DEF FinishProgress
  <2>20. CASE FinishRequired(p)
    BY <1>0, <2>20 DEF FinishRequired
  <2> QED BY <1>6, <2>1, <2>2, <2>3, <2>4, <2>5, <2>6, <2>7, <2>8, <2>9, <2>10, <2>11, <2>12,
     <2>13, <2>14, <2>15, <2>16, <2>17, <2>18, <2>19, <2>20 DEF Recover
<1>7. CASE Damage
  BY <1>0, <1>7 DEF Damage
<1>8. CASE WorkerExits \/ UNCHANGED vars
  BY <1>0, <1>8 DEF WorkerExits, vars
<1> QED BY <1>1, <1>2, <1>3, <1>4, <1>5, <1>6, <1>7, <1>8 DEF Next

\* A snapshot, once there, is only replaced, and nobody commits before it is there.
LEMMA SnapshotStep ==
  ASSUME TypeOK, SnapshotExists, [Next]_vars
  PROVE  SnapshotExists'
<1> USE RowFacts, StateFields, StopFacts DEF Goto, Exit, Return, files, world, SnapshotExists, Commit, UpdateLabels,
        ExclLabels, ArchiveLabels, EarlyLabels
<1>0. /\ pc \in [Procs -> Labels] /\ db.rows \in Rows /\ seen \in [Procs -> Rows] /\ alive \in BOOLEAN
  BY DEF TypeOK, ProcessTypes, FileTypes
<1> USE DEF StillEligible, FenceStops
<1>1. ASSUME NEW p \in Procs, Open(p) PROVE SnapshotExists'
  BY <1>0, <1>1 DEF Open, OpenShared, OpenLock, OpenTimeout, OpenRefused, OpenMissing,
     OpenDatabase, OpenFails, OpenFinish
<1>2. ASSUME NEW p \in Procs, Use(p) PROVE SnapshotExists'
  BY <1>0, <1>2 DEF Use, Close, FailRead, LockWriter
<1>3. ASSUME NEW p \in Procs, Update(p) PROVE SnapshotExists'
  BY <1>0, <1>3 DEF Update, UpdateRefused, UpdatePaused, UpdateChecked, BeginUpdate, Mutate,
     MutateFails, UpdateAborted, ExportSnapshot, ExportFails, FinishUpdate
<1>4. ASSUME NEW p \in Procs, Repair(p) PROVE SnapshotExists'
  BY <1>0, <1>4 DEF Repair, StartAutomatic, NoLongerRequired, RepairLock, RepairTimeout,
     RepairVerify, RepairFails, PublishLock, PublishSnapshot, PublishClear, PublishFinish
<1>5. ASSUME NEW p \in Procs, StartManual(p) \/ StartMaintenance(p) \/ Crash(p) PROVE SnapshotExists'
  BY <1>0, <1>5 DEF StartManual, StartMaintenance, Crash
<1>6. ASSUME NEW p \in Procs, Recover(p) PROVE SnapshotExists'
  BY <1>0, <1>6 DEF Recover, Fence, RecoverRefused, Quarantine, Resume, ResumeRefused,
     RestoreBegin, RestoreEnd, MarkRecovering, AttemptOpen, AttemptExport, AttemptFails,
     Teardown, Verify, RebuildRefused, Rebuild, RebuildRows, RebuildExport, FinishDirty,
     FinishProgress, FinishRequired
<1>7. CASE Damage \/ WorkerExits \/ UNCHANGED vars
  BY <1>0, <1>7 DEF Damage, WorkerExits, vars
<1> QED BY <1>1, <1>2, <1>3, <1>4, <1>5, <1>6, <1>7 DEF Next

\* The original rows survive: only the holder of the exclusive lock replaces the
\* database, and only after it has the archive.
LEMMA OriginalStep ==
  ASSUME TypeOK, LocksHeld, SnapshotExists, OriginalKept, ExportsCurrent, [Next]_vars
  PROVE  OriginalKept'
<1> USE NoneAssumption, StateFields, HealthNames, SetHealthFacts, CommitFacts
    DEF Goto, Exit, Return, files, world, LocksHeld, OriginalKept,
        UpdateLabels, RepairLabels, PublishLabels, WriterLabels, ExclLabels, ArchiveLabels, EarlyLabels
<1>0. /\ pc \in [Procs -> Labels] /\ FileTypes /\ db \in DbState /\ seen \in [Procs -> Rows]
      /\ committed \in 0 .. MaxUpdates /\ alive \in BOOLEAN
      /\ snap = None => committed = 0
  BY DEF TypeOK, ProcessTypes, FileTypes, SnapshotExists
<1> USE DEF StillEligible, Required, Readable
<1>1. ASSUME NEW p \in Procs, Open(p) PROVE OriginalKept'
  <2>1. CASE OpenShared(p)
    BY <1>0, <2>1 DEF OpenShared
  <2>2. CASE OpenLock(p)
    BY <1>0, <2>2 DEF OpenLock
  <2>3. CASE OpenTimeout(p)
    BY <1>0, <2>3 DEF OpenTimeout
  <2>4. CASE OpenRefused(p)
    BY <1>0, <2>4 DEF OpenRefused
  <2>5. CASE OpenMissing(p)
    BY <1>0, <2>5 DEF OpenMissing
  <2>6. CASE OpenDatabase(p)
    <3>1. NoRows.seq = 0
      BY DEF NoRows
    <3> QED BY <1>0, <3>1, <2>6 DEF OpenDatabase
  <2>7. CASE OpenFails(p)
    BY <1>0, <2>7 DEF OpenFails
  <2>8. CASE OpenFinish(p)
    BY <1>0, <2>8 DEF OpenFinish
  <2> QED BY <1>1, <2>1, <2>2, <2>3, <2>4, <2>5, <2>6, <2>7, <2>8 DEF Open
<1>2. ASSUME NEW p \in Procs, Use(p) PROVE OriginalKept'
  BY <1>0, <1>2 DEF Use, Close, FailRead, LockWriter
<1>3. ASSUME NEW p \in Procs, Update(p) PROVE OriginalKept'
  <2>1. CASE UpdateRefused(p)
    BY <1>0, <2>1 DEF UpdateRefused
  <2>2. CASE UpdatePaused(p)
    BY <1>0, <2>2 DEF UpdatePaused
  <2>3. CASE UpdateChecked(p)
    BY <1>0, <2>3 DEF UpdateChecked
  <2>4. CASE BeginUpdate(p)
    BY <1>0, <2>4 DEF BeginUpdate
  <2>5. CASE Mutate(p)
    BY <1>0, <2>5 DEF Mutate
  <2>6. CASE MutateFails(p)
    BY <1>0, <2>6 DEF MutateFails
  <2>7. CASE UpdateAborted(p)
    BY <1>0, <2>7 DEF UpdateAborted
  <2>8. CASE ExportSnapshot(p)
    BY <1>0, <2>8 DEF ExportSnapshot
  <2>9. CASE ExportFails(p)
    BY <1>0, <2>9 DEF ExportFails
  <2>10. CASE FinishUpdate(p)
    BY <1>0, <2>10 DEF FinishUpdate
  <2> QED BY <1>3, <2>1, <2>2, <2>3, <2>4, <2>5, <2>6, <2>7, <2>8, <2>9, <2>10 DEF Update
<1>4. ASSUME NEW p \in Procs, Repair(p) PROVE OriginalKept'
  BY <1>0, <1>4 DEF Repair, StartAutomatic, NoLongerRequired, RepairLock, RepairTimeout,
     RepairVerify, RepairFails, PublishLock, PublishSnapshot, PublishClear, PublishFinish
<1>5. ASSUME NEW p \in Procs, StartManual(p) \/ StartMaintenance(p) \/ Crash(p) PROVE OriginalKept'
  BY <1>0, <1>5 DEF StartManual, StartMaintenance, Crash
<1>6. ASSUME NEW p \in Procs, Recover(p) PROVE OriginalKept'
  <2>1. CASE Fence(p)
    BY <1>0, <2>1 DEF Fence
  <2>2. CASE RecoverRefused(p)
    BY <1>0, <2>2 DEF RecoverRefused
  <2>3. CASE Quarantine(p)
    <3>1. dirty \in BOOLEAN
      BY <1>0 DEF FileTypes
    <3> QED BY <1>0, <3>1, <2>3 DEF Quarantine
  <2>4. CASE Resume(p)
    BY <1>0, <2>4 DEF Resume
  <2>5. CASE ResumeRefused(p)
    BY <1>0, <2>5 DEF ResumeRefused
  <2>6. CASE RestoreBegin(p)
    BY <1>0, <2>6 DEF RestoreBegin
  <2>7. CASE RestoreEnd(p)
    BY <1>0, <2>7 DEF RestoreEnd
  <2>8. CASE MarkRecovering(p)
    BY <1>0, <2>8 DEF MarkRecovering
  <2>9. CASE AttemptOpen(p)
    BY <1>0, <2>9 DEF AttemptOpen, CheckpointExclusive, Repairable
  <2>10. CASE AttemptExport(p)
    BY <1>0, <2>10 DEF AttemptExport
  <2>11. CASE AttemptFails(p)
    BY <1>0, <2>11 DEF AttemptFails
  <2>12. CASE Teardown(p)
    BY <1>0, <2>12 DEF Teardown
  <2>13. CASE Verify(p)
    BY <1>0, <2>13 DEF Verify
  <2>14. CASE RebuildRefused(p)
    BY <1>0, <2>14 DEF RebuildRefused
  <2>15. CASE Rebuild(p)
    BY <1>0, <2>15 DEF Rebuild
  <2>16. CASE RebuildRows(p)
    <3>1. seen[p].seq = committed
      BY <2>16 DEF RebuildRows, ExportsCurrent, Current
    <3> QED BY <1>0, <3>1, RowFacts, <2>16 DEF RebuildRows
  <2>17. CASE RebuildExport(p)
    BY <1>0, <2>17 DEF RebuildExport
  <2>18. CASE FinishDirty(p)
    BY <1>0, <2>18 DEF FinishDirty
  <2>19. CASE FinishProgress(p)
    BY <1>0, <2>19 DEF FinishProgress
  <2>20. CASE FinishRequired(p)
    BY <1>0, <2>20 DEF FinishRequired
  <2> QED BY <1>6, <2>1, <2>2, <2>3, <2>4, <2>5, <2>6, <2>7, <2>8, <2>9, <2>10, <2>11, <2>12,
     <2>13, <2>14, <2>15, <2>16, <2>17, <2>18, <2>19, <2>20 DEF Recover
<1>7. CASE Damage
  BY <1>0, <1>7 DEF Damage
<1>8. CASE WorkerExits \/ UNCHANGED vars
  BY <1>0, <1>8 DEF WorkerExits, vars
<1> QED BY <1>1, <1>2, <1>3, <1>4, <1>5, <1>6, <1>7, <1>8 DEF Next

\* Exports stay current: a commit happens only behind the dirty marker, under the
\* writer lock.
LEMMA ExportsStep ==
  ASSUME TypeOK, LocksHeld, SnapshotExists, OriginalKept, ExportsCurrent, OwnersGone, [Next]_vars
  PROVE  ExportsCurrent'
<1> USE NoneAssumption, RowFacts, StateFields, CommitFacts, StopFacts
    DEF Goto, Exit, Return, files, world, local, LocksHeld, ExportsCurrent, OwnersGone, Current, NotDirty,
        UpdateLabels, RepairLabels, PublishLabels, WriterLabels, ExclLabels, ArchiveLabels, EarlyLabels
<1>0. /\ pc \in [Procs -> Labels] /\ db \in DbState /\ seen \in [Procs -> Rows]
      /\ snap \in Rows \cup {None} /\ progress \in Archives \cup {None}
      /\ committed \in 0 .. MaxUpdates /\ alive \in BOOLEAN /\ dirty \in BOOLEAN
      /\ OriginalKept
      /\ SnapshotExists
  BY DEF TypeOK, ProcessTypes, FileTypes
<1> USE DEF StillEligible, Required, Readable, Eligible, Clean, MayRebuild, FenceStops, OriginalKept, SnapshotExists
<1>1. ASSUME NEW p \in Procs, Open(p) PROVE ExportsCurrent'
  <2>1. CASE OpenShared(p)
    BY <1>0, <2>1 DEF OpenShared
  <2>2. CASE OpenLock(p)
    BY <1>0, <2>2 DEF OpenLock
  <2>3. CASE OpenTimeout(p)
    BY <1>0, <2>3 DEF OpenTimeout
  <2>4. CASE OpenRefused(p)
    BY <1>0, <2>4 DEF OpenRefused
  <2>5. CASE OpenMissing(p)
    BY <1>0, <2>5 DEF OpenMissing
  <2>6. CASE OpenDatabase(p)
    BY <1>0, <2>6 DEF OpenDatabase
  <2>7. CASE OpenFails(p)
    BY <1>0, <2>7 DEF OpenFails
  <2>8. CASE OpenFinish(p)
    BY <1>0, <2>8 DEF OpenFinish
  <2> QED BY <1>1, <2>1, <2>2, <2>3, <2>4, <2>5, <2>6, <2>7, <2>8 DEF Open
<1>2. ASSUME NEW p \in Procs, Use(p) PROVE ExportsCurrent'
  <2>1. CASE Close(p)
    BY <1>0, <2>1 DEF Close
  <2>2. CASE FailRead(p)
    BY <1>0, <2>2 DEF FailRead
  <2>3. CASE LockWriter(p)
    BY <1>0, <2>3 DEF LockWriter
  <2> QED BY <1>2, <2>1, <2>2, <2>3 DEF Use
<1>3. ASSUME NEW p \in Procs, Update(p) PROVE ExportsCurrent'
  <2>1. CASE UpdateRefused(p)
    BY <1>0, <2>1 DEF UpdateRefused
  <2>2. CASE UpdatePaused(p)
    BY <1>0, <2>2 DEF UpdatePaused
  <2>3. CASE UpdateChecked(p)
    BY <1>0, <2>3 DEF UpdateChecked
  <2>4. CASE BeginUpdate(p)
    BY <1>0, <2>4 DEF BeginUpdate
  <2>5. CASE Mutate(p)
    BY <1>0, <2>5 DEF Mutate
  <2>6. CASE MutateFails(p)
    BY <1>0, <2>6 DEF MutateFails
  <2>7. CASE UpdateAborted(p)
    BY <1>0, <2>7 DEF UpdateAborted
  <2>8. CASE ExportSnapshot(p)
    BY <1>0, <2>8 DEF ExportSnapshot
  <2>9. CASE ExportFails(p)
    BY <1>0, <2>9 DEF ExportFails
  <2>10. CASE FinishUpdate(p)
    BY <1>0, <2>10 DEF FinishUpdate
  <2> QED BY <1>3, <2>1, <2>2, <2>3, <2>4, <2>5, <2>6, <2>7, <2>8, <2>9, <2>10 DEF Update
<1>4. ASSUME NEW p \in Procs, Repair(p) PROVE ExportsCurrent'
  <2>1. CASE StartAutomatic(p)
    BY <1>0, <2>1 DEF StartAutomatic
  <2>2. CASE NoLongerRequired(p)
    BY <1>0, <2>2 DEF NoLongerRequired
  <2>3. CASE RepairLock(p)
    BY <1>0, <2>3 DEF RepairLock
  <2>4. CASE RepairTimeout(p)
    BY <1>0, <2>4 DEF RepairTimeout
  <2>5. CASE RepairVerify(p)
    BY <1>0, <2>5 DEF RepairVerify
  <2>6. CASE RepairFails(p)
    BY <1>0, <2>6 DEF RepairFails
  <2>7. CASE PublishLock(p)
    BY <1>0, <2>7 DEF PublishLock
  <2>8. CASE PublishSnapshot(p)
    BY <1>0, <2>8 DEF PublishSnapshot
  <2>9. CASE PublishClear(p)
    BY <1>0, <2>9 DEF PublishClear
  <2>10. CASE PublishFinish(p)
    BY <1>0, <2>10 DEF PublishFinish
  <2> QED BY <1>4, <2>1, <2>2, <2>3, <2>4, <2>5, <2>6, <2>7, <2>8, <2>9, <2>10 DEF Repair
<1>5. ASSUME NEW p \in Procs, StartManual(p) \/ StartMaintenance(p) \/ Crash(p) PROVE ExportsCurrent'
  <2>1. CASE StartManual(p)
    BY <1>0, <2>1 DEF StartManual
  <2>2. CASE StartMaintenance(p)
    BY <1>0, <2>2 DEF StartMaintenance
  <2>3. CASE Crash(p)
    BY <1>0, <2>3 DEF Crash
  <2> QED BY <1>5, <2>1, <2>2, <2>3
<1>6. ASSUME NEW p \in Procs, Recover(p) PROVE ExportsCurrent'
  <2>1. CASE Fence(p)
    BY <1>0, <2>1 DEF Fence
  <2>2. CASE RecoverRefused(p)
    BY <1>0, <2>2 DEF RecoverRefused
  <2>3. CASE Quarantine(p)
    BY <1>0, <2>3 DEF Quarantine
  <2>4. CASE Resume(p)
    BY <1>0, <2>4 DEF Resume
  <2>5. CASE ResumeRefused(p)
    BY <1>0, <2>5 DEF ResumeRefused
  <2>6. CASE RestoreBegin(p)
    BY <1>0, <2>6 DEF RestoreBegin
  <2>7. CASE RestoreEnd(p)
    BY <1>0, <2>7 DEF RestoreEnd
  <2>8. CASE MarkRecovering(p)
    BY <1>0, <2>8 DEF MarkRecovering
  <2>9. CASE AttemptOpen(p)
    BY <1>0, <2>9 DEF AttemptOpen, CheckpointExclusive, Repairable
  <2>10. CASE AttemptExport(p)
    BY <1>0, <2>10 DEF AttemptExport
  <2>11. CASE AttemptFails(p)
    BY <1>0, <2>11 DEF AttemptFails
  <2>12. CASE Teardown(p)
    BY <1>0, <2>12 DEF Teardown
  <2>13. CASE Verify(p)
    BY <1>0, <2>13 DEF Verify
  <2>14. CASE RebuildRefused(p)
    BY <1>0, <2>14 DEF RebuildRefused
  <2>15. CASE Rebuild(p)
    BY <1>0, <2>15 DEF Rebuild
  <2>16. CASE RebuildRows(p)
    BY <1>0, <2>16 DEF RebuildRows
  <2>17. CASE RebuildExport(p)
    BY <1>0, <2>17 DEF RebuildExport
  <2>18. CASE FinishDirty(p)
    BY <1>0, <2>18 DEF FinishDirty
  <2>19. CASE FinishProgress(p)
    BY <1>0, <2>19 DEF FinishProgress
  <2>20. CASE FinishRequired(p)
    BY <1>0, <2>20 DEF FinishRequired
  <2> QED BY <1>6, <2>1, <2>2, <2>3, <2>4, <2>5, <2>6, <2>7, <2>8, <2>9, <2>10, <2>11, <2>12,
     <2>13, <2>14, <2>15, <2>16, <2>17, <2>18, <2>19, <2>20 DEF Recover
<1>7. CASE Damage
  BY <1>0, <1>7 DEF Damage
<1>8. CASE WorkerExits \/ UNCHANGED vars
  BY <1>0, <1>8 DEF WorkerExits, vars
<1> QED BY <1>1, <1>2, <1>3, <1>4, <1>5, <1>6, <1>7, <1>8 DEF Next

\* A worker that recovery may call abandoned stays gone: the exclusive lock keeps
\* every claim out.
LEMMA OwnersStep ==
  ASSUME TypeOK, LocksHeld, SnapshotExists, OriginalKept, ExportsCurrent, OwnersGone, [Next]_vars
  PROVE  OwnersGone'
<1> USE NoneAssumption, RowFacts, StateFields, HealthNames, SetHealthFacts, CommitFacts, StopFacts
    DEF Goto, Exit, Return, files, world, local, LocksHeld, OwnersGone, ExportsCurrent, Current, NotDirty,
        UpdateLabels, RepairLabels, PublishLabels, WriterLabels, ExclLabels, ArchiveLabels, EarlyLabels
<1>0. /\ pc \in [Procs -> Labels] /\ db \in DbState /\ seen \in [Procs -> Rows]
      /\ snap \in Rows \cup {None} /\ progress \in Archives \cup {None}
      /\ committed \in 0 .. MaxUpdates /\ alive \in BOOLEAN /\ dirty \in BOOLEAN
      /\ OriginalKept
      /\ SnapshotExists
  BY DEF TypeOK, ProcessTypes, FileTypes
<1> USE DEF StillEligible, Required, Readable, FenceStops, MayRebuild, OriginalKept, SnapshotExists
<1>1. ASSUME NEW p \in Procs, Open(p) PROVE OwnersGone'
  <2>1. CASE OpenShared(p)
    BY <1>0, <2>1 DEF OpenShared
  <2>2. CASE OpenLock(p)
    BY <1>0, <2>2 DEF OpenLock
  <2>3. CASE OpenTimeout(p)
    BY <1>0, <2>3 DEF OpenTimeout
  <2>4. CASE OpenRefused(p)
    BY <1>0, <2>4 DEF OpenRefused
  <2>5. CASE OpenMissing(p)
    BY <1>0, <2>5 DEF OpenMissing
  <2>6. CASE OpenDatabase(p)
    <3>1. NoRows.worker = "none"
      BY DEF NoRows
    <3> QED BY <1>0, <3>1, <2>6 DEF OpenDatabase
  <2>7. CASE OpenFails(p)
    BY <1>0, <2>7 DEF OpenFails
  <2>8. CASE OpenFinish(p)
    BY <1>0, <2>8 DEF OpenFinish
  <2> QED BY <1>1, <2>1, <2>2, <2>3, <2>4, <2>5, <2>6, <2>7, <2>8 DEF Open
<1>2. ASSUME NEW p \in Procs, Use(p) PROVE OwnersGone'
  <2>1. CASE Close(p)
    BY <1>0, <2>1 DEF Close
  <2>2. CASE FailRead(p)
    BY <1>0, <2>2 DEF FailRead
  <2>3. CASE LockWriter(p)
    BY <1>0, <2>3 DEF LockWriter
  <2> QED BY <1>2, <2>1, <2>2, <2>3 DEF Use
<1>3. ASSUME NEW p \in Procs, Update(p) PROVE OwnersGone'
  <2>1. CASE UpdateRefused(p)
    BY <1>0, <2>1 DEF UpdateRefused
  <2>2. CASE UpdatePaused(p)
    BY <1>0, <2>2 DEF UpdatePaused
  <2>3. CASE UpdateChecked(p)
    BY <1>0, <2>3 DEF UpdateChecked
  <2>4. CASE BeginUpdate(p)
    BY <1>0, <2>4 DEF BeginUpdate
  <2>5. CASE Mutate(p)
    BY <1>0, <2>5 DEF Mutate
  <2>6. CASE MutateFails(p)
    BY <1>0, <2>6 DEF MutateFails
  <2>7. CASE UpdateAborted(p)
    BY <1>0, <2>7 DEF UpdateAborted
  <2>8. CASE ExportSnapshot(p)
    BY <1>0, <2>8 DEF ExportSnapshot
  <2>9. CASE ExportFails(p)
    BY <1>0, <2>9 DEF ExportFails
  <2>10. CASE FinishUpdate(p)
    BY <1>0, <2>10 DEF FinishUpdate
  <2> QED BY <1>3, <2>1, <2>2, <2>3, <2>4, <2>5, <2>6, <2>7, <2>8, <2>9, <2>10 DEF Update
<1>4. ASSUME NEW p \in Procs, Repair(p) PROVE OwnersGone'
  <2>1. CASE StartAutomatic(p)
    BY <1>0, <2>1 DEF StartAutomatic
  <2>2. CASE NoLongerRequired(p)
    BY <1>0, <2>2 DEF NoLongerRequired
  <2>3. CASE RepairLock(p)
    BY <1>0, <2>3 DEF RepairLock
  <2>4. CASE RepairTimeout(p)
    BY <1>0, <2>4 DEF RepairTimeout
  <2>5. CASE RepairVerify(p)
    BY <1>0, <2>5 DEF RepairVerify
  <2>6. CASE RepairFails(p)
    BY <1>0, <2>6 DEF RepairFails
  <2>7. CASE PublishLock(p)
    BY <1>0, <2>7 DEF PublishLock
  <2>8. CASE PublishSnapshot(p)
    BY <1>0, <2>8 DEF PublishSnapshot
  <2>9. CASE PublishClear(p)
    BY <1>0, <2>9 DEF PublishClear
  <2>10. CASE PublishFinish(p)
    BY <1>0, <2>10 DEF PublishFinish
  <2> QED BY <1>4, <2>1, <2>2, <2>3, <2>4, <2>5, <2>6, <2>7, <2>8, <2>9, <2>10 DEF Repair
<1>5. ASSUME NEW p \in Procs, StartManual(p) \/ StartMaintenance(p) \/ Crash(p) PROVE OwnersGone'
  <2>1. CASE StartManual(p)
    BY <1>0, <2>1 DEF StartManual
  <2>2. CASE StartMaintenance(p)
    BY <1>0, <2>2 DEF StartMaintenance
  <2>3. CASE Crash(p)
    BY <1>0, <2>3 DEF Crash
  <2> QED BY <1>5, <2>1, <2>2, <2>3
<1>6. ASSUME NEW p \in Procs, Recover(p) PROVE OwnersGone'
  <2>1. CASE Fence(p)
    BY <1>0, <2>1 DEF Fence
  <2>2. CASE RecoverRefused(p)
    BY <1>0, <2>2 DEF RecoverRefused
  <2>3. CASE Quarantine(p)
    BY <1>0, <2>3 DEF Quarantine
  <2>4. CASE Resume(p)
    BY <1>0, <2>4 DEF Resume
  <2>5. CASE ResumeRefused(p)
    BY <1>0, <2>5 DEF ResumeRefused
  <2>6. CASE RestoreBegin(p)
    BY <1>0, <2>6 DEF RestoreBegin
  <2>7. CASE RestoreEnd(p)
    BY <1>0, <2>7 DEF RestoreEnd
  <2>8. CASE MarkRecovering(p)
    BY <1>0, <2>8 DEF MarkRecovering
  <2>9. CASE AttemptOpen(p)
    BY <1>0, <2>9 DEF AttemptOpen, CheckpointExclusive, Repairable
  <2>10. CASE AttemptExport(p)
    BY <1>0, <2>10 DEF AttemptExport
  <2>11. CASE AttemptFails(p)
    BY <1>0, <2>11 DEF AttemptFails
  <2>12. CASE Teardown(p)
    BY <1>0, <2>12 DEF Teardown
  <2>13. CASE Verify(p)
    BY <1>0, <2>13 DEF Verify
  <2>14. CASE RebuildRefused(p)
    BY <1>0, <2>14 DEF RebuildRefused
  <2>15. CASE Rebuild(p)
    BY <1>0, <2>15 DEF Rebuild
  <2>16. CASE RebuildRows(p)
    BY <1>0, <2>16 DEF RebuildRows
  <2>17. CASE RebuildExport(p)
    BY <1>0, <2>17 DEF RebuildExport
  <2>18. CASE FinishDirty(p)
    BY <1>0, <2>18 DEF FinishDirty
  <2>19. CASE FinishProgress(p)
    BY <1>0, <2>19 DEF FinishProgress
  <2>20. CASE FinishRequired(p)
    BY <1>0, <2>20 DEF FinishRequired
  <2> QED BY <1>6, <2>1, <2>2, <2>3, <2>4, <2>5, <2>6, <2>7, <2>8, <2>9, <2>10, <2>11, <2>12,
     <2>13, <2>14, <2>15, <2>16, <2>17, <2>18, <2>19, <2>20 DEF Recover
<1>7. CASE Damage
  BY <1>0, <1>7 DEF Damage
<1>8. CASE WorkerExits \/ UNCHANGED vars
  BY <1>0, <1>8 DEF WorkerExits, vars
<1> QED BY <1>1, <1>2, <1>3, <1>4, <1>5, <1>6, <1>7, <1>8 DEF Next

-----------------------------------------------------------------------------
(* The theorems                                                            *)

\* The registry as it is before its first use satisfies the invariant.
LEMMA RecoveryInit == Init => RecoveryInv
<1> SUFFICES ASSUME Init PROVE RecoveryInv
  OBVIOUS
<1> USE NoneAssumption, BoundAssumption, StateFields, HealthNames DEF Init
<1>1. TypeOK
  <2>0. "missing" \in Health /\ "none" \in Reasons /\ 0 \in 0 .. MaxUpdates /\ NoRows \in Rows
    OBVIOUS
  <2>1. FileTypes
    BY <2>0 DEF FileTypes, DbState
  <2>2. ProcessTypes
    BY DEF ProcessTypes, Labels, Modes
  <2> QED BY <2>1, <2>2 DEF TypeOK
<1>2. LocksHeld /\ ReasonsHeld
  BY DEF LocksHeld, ReasonsHeld, SharedLabels, WriterLabels, ExclLabels, ArchiveLabels, EarlyLabels,
     UpdateLabels, RepairLabels, PublishLabels
<1>3. SnapshotExists
  BY DEF SnapshotExists, ExclLabels, ArchiveLabels, EarlyLabels, UpdateLabels
<1>4. db.health = "missing" /\ db.rows = NoRows /\ NoRows.seq = 0
  BY DEF NoRows
<1>5. OriginalKept
  BY <1>4 DEF OriginalKept, ArchiveLabels, EarlyLabels
<1>6. ExportsCurrent
  BY DEF ExportsCurrent, EarlyLabels
<1>7. OwnersGone
  BY DEF OwnersGone, EarlyLabels
<1> QED BY <1>1, <1>2, <1>3, <1>5, <1>6, <1>7 DEF RecoveryInv

\* Every step preserves the invariant.
LEMMA RecoveryStep ==
  ASSUME RecoveryInv, [Next]_vars
  PROVE  RecoveryInv'
<1>1. TypeOK'
  BY ProcessTypesStep, FileTypesStep DEF RecoveryInv, TypeOK
<1> QED BY <1>1, LocksStep, ReasonsStep, SnapshotStep, OriginalStep, ExportsStep, OwnersStep
        DEF RecoveryInv

\* The inductive invariant of the registry holds in every reachable state, for any
\* number of processes, updates, faults and crashes.
THEOREM RecoveryInvariant == Spec => []RecoveryInv
<1>1. RecoveryInv /\ [Next]_vars => RecoveryInv'
  BY RecoveryStep
<1> QED BY <1>1, RecoveryInit, PTL DEF Spec

\* Every file, lock and process state has its type in every reachable state.
THEOREM RegistryTypeCorrect == Spec => []TypeOK
<1>1. RecoveryInv => TypeOK
  BY DEF RecoveryInv
<1> QED BY <1>1, RecoveryInvariant, PTL

\* A committed update is never lost: whenever no recovery is under way, a database
\* that opens has every update that block_on_persist ever committed.
THEOREM CommittedUpdatesAreKept == Spec => []CommittedUpdatesKept
<1>1. RecoveryInv => CommittedUpdatesKept
  BY DEF RecoveryInv, OriginalKept, CommittedUpdatesKept
<1> QED BY <1>1, RecoveryInvariant, PTL

\* Without a dirty marker the snapshot has every committed update, so the
\* reconstruction that recover_registry_with_policy allows loses nothing.
THEOREM CleanSnapshotIsCurrent == Spec => []SnapshotLagsOnlyWhenDirty
<1>1. RecoveryInv => SnapshotLagsOnlyWhenDirty
  BY DEF RecoveryInv, ExportsCurrent, Current, SnapshotExists, NotDirty,
     SnapshotLagsOnlyWhenDirty
<1> QED BY <1>1, RecoveryInvariant, PTL

\* The archive named by recovery-in-progress.json is the original bundle however
\* often the recovery crashed and was resumed.
THEOREM ArchiveIsOriginal == Spec => []QuarantineIsOriginal
<1>1. RecoveryInv => QuarantineIsOriginal
  BY DEF RecoveryInv, OriginalKept, QuarantineIsOriginal
<1> QED BY <1>1, RecoveryInvariant, PTL

\* restore_snapshot calls no live worker abandoned.
THEOREM AbandonedWorkersAreGone == Spec => []LiveWorkerNotAbandoned
<1>1. RecoveryInv => LiveWorkerNotAbandoned
  BY DEF RecoveryInv, OwnersGone, LiveWorkerNotAbandoned
<1> QED BY <1>1, RecoveryInvariant, PTL

\* A step that lifts a recorded failure is mark_required of an exclusive recovery.
LEMMA FailureStep ==
  ASSUME RecoveryInv, [Next]_vars, required = "failure", required' # "failure"
  PROVE  required' = "recovering" /\ excl # None
<1> USE NoneAssumption DEF files, Mark, CheckCleanFails, Required, LocksHeld, ReasonsHeld,
        ExclLabels, ArchiveLabels, EarlyLabels
<1>0. LocksHeld /\ ReasonsHeld
  BY DEF RecoveryInv
<1>1. ASSUME NEW p \in Procs, Open(p) 
      PROVE  required' = "recovering" /\ excl # None
  BY <1>0, <1>1 DEF Open, OpenShared, OpenLock, OpenTimeout, OpenRefused, OpenMissing,
     OpenDatabase, OpenFails, OpenFinish
<1>2. ASSUME NEW p \in Procs, Use(p) 
      PROVE  required' = "recovering" /\ excl # None
  BY <1>0, <1>2 DEF Use, Close, FailRead, LockWriter
<1>3. ASSUME NEW p \in Procs, Update(p) 
      PROVE  required' = "recovering" /\ excl # None
  BY <1>0, <1>3 DEF Update, UpdateRefused, UpdatePaused, UpdateChecked, BeginUpdate, Mutate,
     MutateFails, UpdateAborted, ExportSnapshot, ExportFails, FinishUpdate
<1>4. ASSUME NEW p \in Procs, Repair(p) 
      PROVE  required' = "recovering" /\ excl # None
  BY <1>0, <1>4 DEF Repair, StartAutomatic, NoLongerRequired, RepairLock, RepairTimeout,
     RepairVerify, RepairFails, PublishLock, PublishSnapshot, PublishClear, PublishFinish
<1>5. ASSUME NEW p \in Procs, StartManual(p) \/ StartMaintenance(p) \/ Crash(p) 
      PROVE  required' = "recovering" /\ excl # None
  BY <1>0, <1>5 DEF StartManual, StartMaintenance, Crash
<1>6. ASSUME NEW p \in Procs, Recover(p) 
      PROVE  required' = "recovering" /\ excl # None
  BY <1>0, <1>6 DEF Recover, Fence, RecoverRefused, Quarantine, Resume, ResumeRefused,
     RestoreBegin, RestoreEnd, MarkRecovering, AttemptOpen, AttemptExport, AttemptFails,
     Teardown, Verify, RebuildRefused, Rebuild, RebuildRows, RebuildExport, FinishDirty,
     FinishProgress, FinishRequired
<1>7. CASE Damage \/ WorkerExits \/ UNCHANGED vars
  BY <1>0, <1>7 DEF Damage, WorkerExits, vars
<1> QED BY <1>1, <1>2, <1>3, <1>4, <1>5, <1>6, <1>7 DEF Next

\* A recorded storage failure is lifted by nothing but an exclusive recovery that
\* first records its own reason.
THEOREM FailureIsNotDismissed == Spec => FailureNotDismissed
<1> DEFINE Lifted == required = "failure" /\ required' # "failure" =>
                       required' = "recovering" /\ excl # None
<1>1. RecoveryInv /\ [Next]_vars => [Lifted]_vars
  BY FailureStep
<1>2. FailureNotDismissed <=> [][Lifted]_vars
  BY DEF FailureNotDismissed
<1> QED BY <1>1, <1>2, RecoveryInvariant, PTL DEF Spec

=============================================================================
