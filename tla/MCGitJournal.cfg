SPECIFICATION Spec
CONSTANTS
  s1 = s1
  s2 = s2
  t1 = t1
  t2 = t2
  None = None
  Sessions = {s1, s2}
  Scenarios <- Safety
SYMMETRY Conversations
CHECK_DEADLOCK FALSE
INVARIANTS TypeOK AttemptIsSound Retryable
PROPERTIES NoRetireUnderCodex WorkIsKept TaskIsKept NoUnaskedRun
