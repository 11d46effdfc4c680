CONSTANTS
  alice = alice
  p = p
  q = q
  unpriced = unpriced
  unknown = unknown
  Threads = {t1, t2}
  Consumers = {alice}
  Cap <- SmallCap
  GlobalCap = None
  MaxConsumers = 1
  MaxCost = 1
  Providers <- TwoProviders
  Registered <- TwoProviders
  Priced <- TwoProviders
  Embedding <- TwoProviders
  Routes <- FallbackOnly
  Keys = {}
  MaxAttempts = 1
  Deadline = 0
  Threshold = 1
  Cooldown = 1
  None = None
SPECIFICATION Spec
PROPERTIES CircuitsImplemented BudgetImplemented
