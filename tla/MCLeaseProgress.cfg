CONSTANTS
  p1 = p1
  t1 = t1
  t2 = t2
  s1 = s1
  s2 = s2
  g1 = g1
  g2 = g2
  None = None
  Projects = {p1}
  Tokens = {t1}
  Schedulers = {s1, s2}
  ProjectOf <- MCProjectOf1
  Interactive <- MCInteractive1
  MaxGlobalJobs <- MCMaxGlobalJobs
  Interrupted = {}
  Mortal = {s2}
  LeaseTimeout = 1
  StaleTimeout = 1
  MaxTime = 2
  MaxLaunches = 1
SPECIFICATION FairSpec
PROPERTIES
  HeartbeatOrTermination
  DeadSchedulerLosesLease
CHECK_DEADLOCK FALSE
