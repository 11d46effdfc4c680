CONSTANTS
  Callers = {c1, c2, c3, c4}
  Threshold = 2
  Cooldown = 3
  None = None
SPECIFICATION FairSpec
INVARIANTS TypeOK OneFreshProbe OpenIffStreak
PROPERTY OpenIsRetried
