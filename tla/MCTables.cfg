CONSTANTS
  Direct = Direct
  Near = Near
  Far = Far
  Inner = Inner
  Outer = Outer
  Api = Api
  Scrape = Scrape
  None = None
  Clients = {Direct, Near, Far}
  Trusted = {Inner, Outer}
  TrustProxy = TRUE
  Ways <- ViaProxies
  Earlier <- MaybeForged
  Asks <- Habits
  ApiToken = Api
  MetricsToken = Scrape
  Limit = 2
  Window = 1
  MaxClients = 2
  CacheKeys = {k1, k2, k3}
  Responses = {r1, r2}
  NoResponse = NoResponse
  MaxTtl = 2
  MaxEntries = 2
  Workers = {w1, w2, w3}
  NoWorker = NoWorker
  Available = TRUE
  MaxCalls = 3
  Processes = {p1, p2}
  Legacy = {l1, l2}
  Unreadable = {l2}
  New = {n1, n2}
  MaxStops = 2
SPECIFICATION Spec
INVARIANTS TypeOK LimitHolds RecentlyUsedKept CallsCounted DatabaseSound
PROPERTIES CacheImplements GetReturns UpgradeEnds
