SPECIFICATION FairSpec
CONSTANTS
  s1 = s1  s2 = s2  u1 = u1  f1 = f1  f2 = f2  w1 = w1  w2 = w2  None = None
  Managed = {s1, s2}
  Unmanaged = {u1}
  PushMode = {s1}
  Finalizers = {f1, f2}
  Changes = {w1, w2}
  Scenarios <- Handback
CHECK_DEADLOCK FALSE
PROPERTY HandbackRuns
