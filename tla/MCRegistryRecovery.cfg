CONSTANTS
  p1 = p1
  p2 = p2
  None = None
  Procs = {p1, p2}
  MaxUpdates = 1
  MaxFaults = 1
  MaxCrashes = 2
  Persistent = {p1}
SPECIFICATION FairSpec
INVARIANTS
  TypeOK
  CommittedUpdatesKept
  SnapshotLagsOnlyWhenDirty
  QuarantineIsOriginal
  LiveWorkerNotAbandoned
PROPERTIES
  FailureNotDismissed
  InterruptedUpdateRepaired
