------------------------------ MODULE MCTables ------------------------------
(***************************************************************************)
(* The components that keep a table of their own, for TLC: the rate        *)
(* limiter, the response cache, the metrics and the SQLite store.  They    *)
(* share no state, so one of them runs at a time: the focus, chosen at the *)
(* start.                                                                  *)
(***************************************************************************)
EXTENDS RateLimiter, Cache, MetricsRegistry, SqliteStore

CONSTANTS Direct, Near, Far,   \* clients behind no, one and two proxies
          Inner, Outer,        \* the proxies
          Api, Scrape          \* bearer tokens

ViaProxies == (Direct :> {<<>>}) @@ (Near :> {<<Inner>>}) @@ (Far :> {<<Outer, Inner>>})

(* Far may have sent a header of its own, with Direct's address in it. *)
MaybeForged == {<<>>, <<Direct>>}

Asking(path, bearer) == [path |-> path, bearer |-> bearer]

(* Near and Direct ask for the API; Far also probes, scrapes and guesses. *)
Habits ==
  (Direct :> {Asking("/v1", Api)}) @@ (Near :> {Asking("/v1", Api)}) @@
  (Far :> {Asking("/v1", Api), Asking("/v1", None),
           Asking("/healthz", None), Asking("/metrics", Scrape)})

VARIABLE focus

vars == <<focus, limiterVars, cacheVars, metricsVars, storeVars>>

Init ==
  /\ focus \in {"limiter", "cache", "metrics", "store"}
  /\ LimiterInit /\ CacheInit /\ MetricsInit /\ StoreInit
  /\ focus # "store" => disk = NoDatabase

Metrics(action) ==
  focus = "metrics" /\ action /\ UNCHANGED <<focus, limiterVars, cacheVars, storeVars>>

Store(action) ==
  focus = "store" /\ action /\ UNCHANGED <<focus, limiterVars, cacheVars, metricsVars>>

Next ==
  \/ /\ focus = "limiter" /\ LimiterNext
     /\ UNCHANGED <<focus, cacheVars, metricsVars, storeVars>>
  \/ /\ focus = "cache" /\ CacheNext
     /\ UNCHANGED <<focus, limiterVars, metricsVars, storeVars>>
  \/ Metrics(MetricsNext)
  \/ Store(StoreNext)

(* The tables and what the threads and processes keep, within their bounds. *)
TypeOK == LimiterTypeOK /\ CacheTypeOK /\ MetricsTypeOK /\ StoreTypeOK

(* Fair as MetricsFairSpec and StoreFairSpec are. *)
Spec ==
  /\ Init /\ [][Next]_vars
  /\ \A w \in Workers : WF_vars(Metrics(GetStep(w)))
  /\ \A p \in Processes : WF_vars(Store(Open(p) \/ Start(p) \/ SaveCommit(p)))
============================================================================
