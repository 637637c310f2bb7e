SPECIFICATION FairSpec
CONSTANTS
  s1 = s1
  s2 = s2
  t1 = t1
  t2 = t2
  None = None
  Sessions = {s1, s2}
  Scenarios <- Progress
CHECK_DEADLOCK FALSE
PROPERTIES AbandonedIsRetired ReplacedIsRetired
