--------------------------- MODULE MetricsRegistry ---------------------------
(***************************************************************************)
(* MetricsRegistry.get of agent_ctl/obs/metrics.py, its double-checked     *)
(* lock, and the two functions that use it: record_call, from every call   *)
(* of the gateway, and render, from /metrics.                              *)
(*                                                                         *)
(* _resolved and _instance are read outside the lock, so every read and    *)
(* write of them is a step.  An instance is the number of its              *)
(* construction, 0 stands for None; a counter increments under a lock of   *)
(* prometheus_client, and the counters of one call count as one.           *)
(***************************************************************************)
EXTENDS Integers, Sequences

CONSTANTS Workers,     \* threads
          NoWorker,
          Available,   \* prometheus_client can be imported
          MaxCalls     \* bound: calls of record_call altogether

ASSUME MetricsAssumption ==
  /\ NoWorker \notin Workers
  /\ Available \in BOOLEAN
  /\ MaxCalls \in Nat

VARIABLES resolved,    \* _resolved
          instance,    \* _instance
          holder,      \* who holds _lock
          counts,      \* per instance constructed: the calls it has counted
          worker,      \* per thread: where it is in record_call or render
          begun,       \* history: calls of record_call so far,
          finished     \* and how many of them have returned

metricsVars == <<resolved, instance, holder, counts, worker, begun, finished>>

(* got: the instance it has built or read.  before: the calls that had     *)
(* finished when a scrape began; shown: the calls its text counts.         *)
Resting == [at |-> "idle", op |-> "record", got |-> 0, before |-> 0, shown |-> 0]

Places == {"idle", "first", "lock", "second", "build", "publish", "resolve",
           "release", "read", "use"}
Locked == {"second", "build", "publish", "resolve", "release"}

MetricsTypeOK ==
  /\ resolved \in BOOLEAN
  /\ counts \in Seq(Nat)
  /\ instance \in 0..Len(counts)
  /\ holder \in Workers \cup {NoWorker}
  /\ \A w \in Workers : holder = w <=> worker[w].at \in Locked
  /\ worker \in [Workers -> [at : Places, op : {"record", "render"},
                             got : 0..Len(counts), before : Nat, shown : Nat]]
  /\ begun \in Nat
  /\ finished \in Nat

MetricsInit ==
  /\ resolved = FALSE
  /\ instance = 0
  /\ holder = NoWorker
  /\ counts = <<>>
  /\ worker = [w \in Workers |-> Resting]
  /\ begun = 0
  /\ finished = 0
----------------------------------------------------------------------------
At(w, place) == worker[w].at = place
Move(w, place) == worker' = [worker EXCEPT ![w].at = place]

RecordCall(w) ==
  /\ At(w, "idle") /\ begun < MaxCalls
  /\ begun' = begun + 1
  /\ worker' = [worker EXCEPT ![w] = [Resting EXCEPT !.at = "first"]]
  /\ UNCHANGED <<resolved, instance, holder, counts, finished>>

Render(w) ==
  /\ At(w, "idle")
  /\ worker' = [worker EXCEPT ![w] = [at |-> "first", op |-> "render", got |-> 0,
                                      before |-> finished, shown |-> 0]]
  /\ UNCHANGED <<resolved, instance, holder, counts, begun, finished>>

FirstCheck(w) ==
  /\ At(w, "first")
  /\ Move(w, IF resolved THEN "read" ELSE "lock")
  /\ UNCHANGED <<resolved, instance, holder, counts, begun, finished>>

Acquire(w) ==
  /\ At(w, "lock") /\ holder = NoWorker
  /\ holder' = w
  /\ Move(w, "second")
  /\ UNCHANGED <<resolved, instance, counts, begun, finished>>

(* Faulty: _resolved is set before the instance is there. *)
SecondCheckResolving(w) ==
  /\ At(w, "second")
  /\ resolved' = TRUE
  /\ Move(w, IF resolved THEN "release" ELSE "build")
  /\ UNCHANGED <<instance, holder, counts, begun, finished>>

(* Faulty: who finds the work done returns without releasing the lock. *)
SecondCheckLeaving(w) ==
  /\ At(w, "second")
  /\ Move(w, IF resolved THEN "read" ELSE "build")
  /\ UNCHANGED <<resolved, instance, holder, counts, begun, finished>>

SecondCheck(w) ==
  /\ At(w, "second")
  /\ Move(w, IF resolved THEN "release" ELSE "build")
  /\ UNCHANGED <<resolved, instance, holder, counts, begun, finished>>

(* Metrics(), or None without prometheus_client. *)
Build(w) ==
  /\ At(w, "build")
  /\ counts' = IF Available THEN Append(counts, 0) ELSE counts
  /\ worker' = [worker EXCEPT ![w].at = "publish", ![w].got = Len(counts')]
  /\ UNCHANGED <<resolved, instance, holder, begun, finished>>

Publish(w) ==
  /\ At(w, "publish")
  /\ instance' = worker[w].got
  /\ Move(w, "resolve")
  /\ UNCHANGED <<resolved, holder, counts, begun, finished>>

Resolve(w) ==
  /\ At(w, "resolve")
  /\ resolved' = TRUE
  /\ Move(w, "release")
  /\ UNCHANGED <<instance, holder, counts, begun, finished>>

Release(w) ==
  /\ At(w, "release")
  /\ holder' = NoWorker
  /\ Move(w, "read")
  /\ UNCHANGED <<resolved, instance, counts, begun, finished>>

ReadInstance(w) ==
  /\ At(w, "read")
  /\ worker' = [worker EXCEPT ![w].at = "use", ![w].got = instance]
  /\ UNCHANGED <<resolved, instance, holder, counts, begun, finished>>

(* Without an instance nothing is counted. *)
CountCall(w) ==
  LET got == worker[w].got IN
  /\ At(w, "use") /\ worker[w].op = "record"
  /\ counts' = IF got = 0 THEN counts ELSE [counts EXCEPT ![got] = @ + 1]
  /\ finished' = finished + 1
  /\ Move(w, "idle")
  /\ UNCHANGED <<resolved, instance, holder, begun>>

(* Without an instance the text says so; with one it shows its counts. *)
ExportText(w) ==
  LET got == worker[w].got IN
  /\ At(w, "use") /\ worker[w].op = "render"
  /\ worker' = [worker EXCEPT ![w].at = "idle",
                              ![w].shown = IF got = 0 THEN 0 ELSE counts[got]]
  /\ UNCHANGED <<resolved, instance, holder, counts, begun, finished>>

GetStep(w) ==
  \/ FirstCheck(w) \/ Acquire(w) \/ SecondCheck(w) \/ Build(w) \/ Publish(w)
  \/ Resolve(w) \/ Release(w) \/ ReadInstance(w) \/ CountCall(w) \/ ExportText(w)

MetricsNext == \E w \in Workers : RecordCall(w) \/ Render(w) \/ GetStep(w)

MetricsSpec == MetricsInit /\ [][MetricsNext]_metricsVars

(* A thread inside record_call or render runs on. *)
MetricsFairSpec ==
  MetricsSpec /\ \A w \in Workers : WF_metricsVars(GetStep(w))
----------------------------------------------------------------------------
(* No call is lost between two instances or before the first one is there: *)
(* the registry that is scraped has counted every call that has returned.  *)
EveryCallCounted ==
  Available => finished = IF instance = 0 THEN 0 ELSE counts[instance]

(* A scrape shows every call that had returned when it began. *)
ScrapeShowsFinished ==
  \A w \in Workers :
    Available /\ At(w, "idle") /\ worker[w].op = "render" =>
      worker[w].shown >= worker[w].before

(* No thread ever counts into, or shows, a registry that is not the one.   *)
CallsCounted == EveryCallCounted /\ ScrapeShowsFinished

(* get() returns to every caller: the lock is always given back. *)
GetReturns ==
  \A w \in Workers : (~At(w, "idle")) ~> At(w, "idle")
============================================================================
