CONSTANTS
  p1 = p1
  t1 = t1
  t2 = t2
  s1 = s1
  s2 = s2
  g1 = g1
  g2 = g2
  None = None
  Projects = {p1}
  Tokens = {t1, t2}
  Schedulers = {s1, s2}
  ProjectOf <- MCProjectOf
  Interactive <- MCInteractive
  MaxGlobalJobs <- MCMaxGlobalJobs
  Interrupted = {}
  Mortal = {s1, s2}
  LeaseTimeout = 1
  StaleTimeout = 1
  MaxTime = 1
  MaxLaunches = 2
VIEW OwnershipView
SYMMETRY Symmetric
SPECIFICATION Spec
INVARIANTS ExclusiveCodex WorkerLeaseDiscipline
PROPERTIES IsOwnership
CHECK_DEADLOCK FALSE
