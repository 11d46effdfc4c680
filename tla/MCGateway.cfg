CONSTANTS
  alice = alice
  p = p
  q = q
  unpriced = unpriced
  unknown = unknown
  Threads = {t1}
  Consumers = {alice}
  Cap <- SmallCap
  GlobalCap = None
  MaxConsumers = 1
  MaxCost = 2
  Providers <- AllProviders
  Registered <- Present
  Priced <- WithPrice
  Embedding <- CanEmbed
  Routes <- AllRoutes
  Keys = {key}
  MaxAttempts = 2
  Deadline = 2
  Threshold = 2
  Cooldown = 2
  None = None
SPECIFICATION FairSpec
INVARIANTS TypeOK CallRecorded FallbackJustified
PROPERTY CallsReturn
