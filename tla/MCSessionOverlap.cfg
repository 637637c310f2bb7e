SPECIFICATION Spec
CONSTANTS
  r1 = r1  r2 = r2
  u1 = u1  u2 = u2
  g1 = g1  g2 = g2
  s1 = s1  s2 = s2
  x1 = x1  x2 = x2
  c1 = c1  c2 = c2
  None = None
  Sessions = {s1, s2}
  Runs = {r1, r2}
  Users = {u1, u2}
  Guardian <- MCGuardian
  Rescuers = {x1, x2}
  Schedulers = {c1, c2}
  Scenarios <- Overlap
CHECK_DEADLOCK FALSE
INVARIANT OneCodexPerProject
