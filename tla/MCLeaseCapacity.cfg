CONSTANTS
  p1 = p1
  p2 = p2
  t1 = t1
  t2 = t2
  s1 = s1
  s2 = s2
  g1 = g1
  g2 = g2
  None = None
  Projects = {p1, p2}
  Tokens = {t1, t2}
  Schedulers = {s1, s2}
  ProjectOf <- MCProjectOf
  Interactive <- MCInteractive
  MaxGlobalJobs <- MCMaxGlobalJobs
  Interrupted = {t1}
  Mortal = {}
  LeaseTimeout = 1
  StaleTimeout = 1
  MaxTime = 1
  MaxLaunches = 1
VIEW View
SYMMETRY Symmetric
SPECIFICATION Spec
INVARIANTS TypeOK RunsAccounted WithinCapacity
CHECK_DEADLOCK FALSE
