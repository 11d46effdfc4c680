------------------------------ MODULE Gateway ------------------------------
(***************************************************************************)
(* Gateway.invoke of agent_ctl/core/gateway.py and EmbeddingRunner.embed   *)
(* of embedding_runner.py: concurrent calls that share the circuit         *)
(* breakers, the budget and (invoke only) the response cache.              *)
(*                                                                         *)
(* A call is one thread's record.  It goes through the stages of invoke()  *)
(* in order: validation, cache, budget check, routing, then for each       *)
(* target of the route the guards, the provider with its retries, and the  *)
(* report to the circuit breaker; last the capture record.  Steps that     *)
(* touch shared state (a breaker, the budget, the cache) or wait (for the  *)
(* provider, in the backoff sleep) are actions of their own.  embed() goes *)
(* through the same stages with other guards, no cache and no retries;     *)
(* where it differs its actions are named Embed...                         *)
(*                                                                         *)
(* A route is the sequence of its targets' providers; the model's name     *)
(* matters to the provider only.  A RetriableError and a TimeoutError lead *)
(* the same way and are both "retriable" in the log of attempts.  Time is  *)
(* what has elapsed since the call started, saturated at the deadline.     *)
(***************************************************************************)
EXTENDS CircuitBreaker, Sequences, FiniteSets

CONSTANTS Threads,       \* threads that may run one invoke() each
          Consumers,     \* metadata["consumer"]
          Cap, GlobalCap, MaxConsumers, MaxCost,   \* as in Budget
          Providers,     \* names of providers in the routes
          Registered,    \* the providers the gateway has
          Priced,        \* the providers whose models ensure_price accepts
          Embedding,     \* the providers that can embed
          Routes,        \* the target chains a request may ask for
          Keys,          \* cache keys
          MaxAttempts,   \* max_attempts_per_target
          Deadline       \* request_deadline_s in ticks; 0 disables it

ASSUME GatewayAssumption ==
  /\ MaxAttempts \in Nat \ {0}
  /\ Deadline \in Nat
  /\ Routes \subseteq Seq(Providers)
  /\ Registered \subseteq Providers
  /\ Priced \subseteq Providers
  /\ Embedding \subseteq Providers
  /\ None \notin Consumers
  /\ MaxCost \in Nat

VARIABLES breakers,      \* per provider: its circuit breaker
          streaks,       \* history of Circuit, per provider
          spent, lastCost, order, globalSpent, ledger,   \* as in Budget
          cached,        \* keys with a live response in the cache
          call           \* per thread: its call of invoke()

budgetVars == <<spent, lastCost, order, globalSpent, ledger>>
vars == <<breakers, streaks, budgetVars, cached, call>>

(* No such model: the router raises KeyError. *)
Unroutable == <<>>

Idle == [at       |-> "idle",     \* the stage the call has reached
         op       |-> "invoke",   \* or "embed"
         consumer |-> None,
         key      |-> None,       \* its cache key; None if it is not cached
         route    |-> <<>>,
         target   |-> 0,          \* index of the current target
         try      |-> 0,          \* retries of the current target so far
         elapsed  |-> 0,
         role     |-> "idle",     \* how the breaker let it through: see Circuit
         age      |-> 0,          \* for a probe: since when
         log      |-> <<>>,       \* attempts
         status   |-> "none",     \* status and error_type of the record
         records  |-> 0]          \* history: capture records written

Stages == {"idle", "cache", "budget", "route", "target", "circuit", "attempt",
           "calling", "succeeded", "terminal", "exhausted", "store", "record",
           "returned"}

Outcomes == {"success", "terminal", "retriable", "deadline", "circuit_open",
             "no_embed"}

(* The stages at which a call has passed the budget check and not charged. *)
Governed == {"route", "target", "circuit", "attempt", "calling", "succeeded",
             "terminal", "exhausted", "store", "record"}

(* Whom a call that passed the budget check and is not charged yet is for. *)
InFlight == [t \in Threads |-> IF call[t].at \in Governed
                               THEN call[t].consumer ELSE None]

B == INSTANCE Budget WITH Callers <- Threads, inFlight <- InFlight

Provider(c) == c.route[c.target]

(* The call as provider p's circuit breaker sees it. *)
CallOf(p) == [t \in Threads |->
                IF call[t].role # "idle" /\ Provider(call[t]) = p
                THEN [role |-> call[t].role, age |-> call[t].age]
                ELSE [role |-> "idle", age |-> 0]]

C(p) == INSTANCE Circuit WITH Callers <- Threads, breaker <- breakers[p],
                              call <- CallOf(p), streak <- streaks[p]

TypeOK ==
  /\ breakers \in [Providers -> Breaker]
  /\ cached \subseteq Keys
  /\ \A t \in Threads :
       LET c == call[t] IN
       /\ c.at \in Stages
       /\ c.op \in {"invoke", "embed"}
       /\ c.op = "embed" => c.key = None /\ c.try = 0
       /\ c.consumer \in Consumers \cup {None}
       /\ c.key \in Keys \cup {None}
       /\ c.route \in Routes \cup {Unroutable}
       /\ c.target \in 0..(Len(c.route) + 1)
       /\ c.try \in 0..(MaxAttempts - 1)
       /\ c.elapsed \in 0..Deadline
       /\ c.role # "idle" <=>
            c.at \in {"attempt", "calling", "succeeded", "terminal", "exhausted"}
       /\ \A i \in DOMAIN c.log : c.log[i].outcome \in Outcomes

Init ==
  /\ breakers = [p \in Providers |-> Closed]
  /\ streaks = [p \in Providers |-> 0]
  /\ spent = [k \in Consumers |-> 0]
  /\ lastCost = [k \in Consumers |-> 0]
  /\ order = <<>>
  /\ globalSpent = 0
  /\ ledger = [k \in Consumers |-> 0]
  /\ cached = {}
  /\ call = [t \in Threads |-> Idle]
----------------------------------------------------------------------------
Update(t, c) == call' = [call EXCEPT ![t] = c]

(* The call with one more attempt in its log. *)
Logged(c, outcome) ==
  [c EXCEPT !.log = Append(@, [target |-> c.target, outcome |-> outcome])]

(* The call with its capture record written, returned or raised. *)
Recorded(c, status) ==
  [c EXCEPT !.at = "returned", !.role = "idle", !.status = status,
            !.records = @ + 1]

(* continue: on to the next target, out of the breaker's sight. *)
NextTarget(c) ==
  [c EXCEPT !.at = "target", !.target = @ + 1, !.try = 0,
            !.role = "idle", !.age = 0]

DeadlineExceeded(c) == Deadline > 0 /\ c.elapsed >= Deadline

(* A new request: some consumer's, for some route, cached under some key.  *)
Start(t) ==
  /\ call[t].at \in {"idle", "returned"}
  /\ \E k \in Consumers, r \in Routes \cup {Unroutable}, key \in Keys \cup {None} :
       Update(t, [Idle EXCEPT !.at = IF key = None THEN "budget" ELSE "cache",
                              !.consumer = k, !.route = r, !.key = key])
  /\ UNCHANGED <<breakers, streaks, budgetVars, cached>>

(* embed(): neither validated nor cached. *)
EmbedStart(t) ==
  /\ call[t].at \in {"idle", "returned"}
  /\ \E k \in Consumers, r \in Routes \cup {Unroutable} :
       Update(t, [Idle EXCEPT !.at = "budget", !.op = "embed",
                              !.consumer = k, !.route = r])
  /\ UNCHANGED <<breakers, streaks, budgetVars, cached>>

(* validate_local_content refuses the request: recorded and raised. *)
Reject(t) ==
  /\ call[t].at \in {"idle", "returned"}
  /\ Update(t, Recorded(Idle, "validation"))
  /\ UNCHANGED <<breakers, streaks, budgetVars, cached>>

(* A cached response costs nothing and is not governed by the budget. *)
CacheGet(t) ==
  LET c == call[t] IN
  /\ c.at = "cache"
  /\ Update(t, IF c.key \in cached THEN Recorded(c, "cached")
               ELSE [c EXCEPT !.at = "budget"])
  /\ UNCHANGED <<breakers, streaks, budgetVars, cached>>

BudgetCheck(t) ==
  LET c == call[t] IN
  /\ c.at = "budget"
  /\ Update(t, IF B!Refused(c.consumer) THEN Recorded(c, "budget")
               ELSE [c EXCEPT !.at = "route"])
  /\ UNCHANGED <<breakers, streaks, budgetVars, cached>>

Resolve(t) ==
  LET c == call[t] IN
  /\ c.at = "route"
  /\ Update(t, IF c.route = Unroutable THEN Recorded(c, "routing")
               ELSE [c EXCEPT !.at = "target", !.target = 1])
  /\ UNCHANGED <<breakers, streaks, budgetVars, cached>>
----------------------------------------------------------------------------
(* The loop over the targets ends: all of them failed or were skipped. *)
AllFailed(t) ==
  LET c == call[t] IN
  /\ c.at = "target" /\ c.target > Len(c.route)
  /\ Update(t, Recorded(c, "all_failed"))
  /\ UNCHANGED <<breakers, streaks, budgetVars, cached>>

(* The deadline guard breaks out of the loop. *)
DeadlineBreak(t) ==
  LET c == call[t] IN
  /\ c.at = "target" /\ c.target <= Len(c.route)
  /\ DeadlineExceeded(c)
  /\ Update(t, Recorded(Logged(c, "deadline"), "all_failed"))
  /\ UNCHANGED <<breakers, streaks, budgetVars, cached>>

(* The guards of registration and price, which end the call. *)
Guards(t) ==
  LET c == call[t] IN
  /\ c.op = "invoke" /\ c.at = "target" /\ c.target <= Len(c.route)
  /\ ~DeadlineExceeded(c)
  /\ Update(t, IF Provider(c) \notin Registered THEN Recorded(c, "provider")
               ELSE IF Provider(c) \notin Priced THEN Recorded(c, "pricing")
               ELSE [c EXCEPT !.at = "circuit"])
  /\ UNCHANGED <<breakers, streaks, budgetVars, cached>>

(* The guards of embed(): a provider that cannot embed is skipped, with a  *)
(* trace in the log, before its price is looked at.                        *)
EmbedGuards(t) ==
  LET c == call[t] IN
  /\ c.op = "embed" /\ c.at = "target" /\ c.target <= Len(c.route)
  /\ ~DeadlineExceeded(c)
  /\ Update(t, IF Provider(c) \notin Registered THEN Recorded(c, "provider")
               ELSE IF Provider(c) \notin Embedding
               THEN NextTarget(Logged(c, "no_embed"))
               ELSE IF Provider(c) \notin Priced THEN Recorded(c, "pricing")
               ELSE [c EXCEPT !.at = "circuit"])
  /\ UNCHANGED <<breakers, streaks, budgetVars, cached>>

(* Faulty: a target skipped by its breaker counts as one more failure. *)
CircuitBlockedCharged(t) ==
  LET c == call[t] IN
  /\ c.at = "circuit" /\ ~Granted(breakers[Provider(c)])
  /\ breakers' = [breakers EXCEPT ![Provider(c)] = AfterFailure(@)]
  /\ Update(t, NextTarget(Logged(c, "circuit_open")))
  /\ UNCHANGED <<streaks, budgetVars, cached>>

(* The breaker refuses: the target is skipped, with a trace in the log. *)
CircuitBlocked(t) ==
  LET c == call[t] IN
  /\ c.at = "circuit" /\ ~Granted(breakers[Provider(c)])
  /\ Update(t, NextTarget(Logged(c, "circuit_open")))
  /\ UNCHANGED <<breakers, streaks, budgetVars, cached>>

CircuitAllow(t) ==
  LET c == call[t]
      b == breakers[Provider(c)] IN
  /\ c.at = "circuit" /\ Granted(b)
  /\ breakers' = [breakers EXCEPT ![Provider(c)] = AfterAllow(b)]
  /\ Update(t, [c EXCEPT !.at = "attempt", !.age = 0,
                         !.role = IF IsOpen(b) THEN "probe" ELSE "normal"])
  /\ UNCHANGED <<streaks, budgetVars, cached>>

(* Faulty: with no time left the call waits instead of giving up. *)
OutOfTimeWaiting(t) ==
  /\ call[t].op = "invoke" /\ call[t].at = "attempt" /\ DeadlineExceeded(call[t])
  /\ UNCHANGED vars

(* _invoke_target raises DeadlineExceeded: no attempt is made, nothing is  *)
(* logged and the breaker is told nothing.                                 *)
OutOfTime(t) ==
  LET c == call[t] IN
  /\ c.op = "invoke" /\ c.at = "attempt" /\ DeadlineExceeded(c)
  /\ Update(t, NextTarget(c))
  /\ UNCHANGED <<breakers, streaks, budgetVars, cached>>

(* embed() breaks out of its loop; the breaker is told nothing here either.*)
EmbedOutOfTime(t) ==
  LET c == call[t] IN
  /\ c.op = "embed" /\ c.at = "attempt" /\ DeadlineExceeded(c)
  /\ Update(t, Recorded(Logged(c, "deadline"), "all_failed"))
  /\ UNCHANGED <<breakers, streaks, budgetVars, cached>>

(* provider.invoke() is called; it may take any time. *)
CallProvider(t) ==
  LET c == call[t] IN
  /\ c.at = "attempt" /\ ~DeadlineExceeded(c)
  /\ Update(t, [c EXCEPT !.at = "calling"])
  /\ UNCHANGED <<breakers, streaks, budgetVars, cached>>

(* Faulty: the last try is not told from the others. *)
RetriesLeftOffByOne(c) == c.try + 2 < MaxAttempts

(* Faulty: one try more than configured. *)
RetriesLeftOneMore(c) == c.try < MaxAttempts

RetriesLeft(c) == c.try + 1 < MaxAttempts

(* It answers, raises TerminalError, raises RetriableError or TimeoutError *)
(* with or without a retry left, or raises something the gateway does not  *)
(* know: that one passes through invoke() with no record and no report.    *)
ProviderReturns(t) ==
  LET c == call[t] IN
  /\ c.at = "calling"
  /\ Update(t, [Logged(c, "success") EXCEPT !.at = "succeeded"])
  /\ UNCHANGED <<breakers, streaks, budgetVars, cached>>

ProviderTerminal(t) ==
  LET c == call[t] IN
  /\ c.at = "calling"
  /\ Update(t, [Logged(c, "terminal") EXCEPT !.at = "terminal"])
  /\ UNCHANGED <<breakers, streaks, budgetVars, cached>>

ProviderRetriable(t) ==
  LET c == call[t] IN
  /\ c.op = "invoke" /\ c.at = "calling"
  /\ Update(t, IF RetriesLeft(c)
               THEN [Logged(c, "retriable") EXCEPT !.at = "attempt", !.try = @ + 1]
               ELSE [Logged(c, "retriable") EXCEPT !.at = "exhausted"])
  /\ UNCHANGED <<breakers, streaks, budgetVars, cached>>

(* embed() tries each target once. *)
EmbedRetriable(t) ==
  LET c == call[t] IN
  /\ c.op = "embed" /\ c.at = "calling"
  /\ Update(t, [Logged(c, "retriable") EXCEPT !.at = "exhausted"])
  /\ UNCHANGED <<breakers, streaks, budgetVars, cached>>

ProviderUntyped(t) ==
  LET c == call[t] IN
  /\ c.at = "calling"
  /\ Update(t, [c EXCEPT !.at = "returned", !.role = "idle", !.status = "untyped"])
  /\ UNCHANGED <<breakers, streaks, budgetVars, cached>>
----------------------------------------------------------------------------
Failed(p) ==
  /\ breakers' = [breakers EXCEPT ![p] = AfterFailure(@)]
  /\ streaks' = [streaks EXCEPT ![p] = IF @ < Threshold THEN @ + 1 ELSE @]

(* record_failure, and on to the next target. *)
ReportExhausted(t) ==
  LET c == call[t] IN
  /\ c.at = "exhausted"
  /\ Failed(Provider(c))
  /\ Update(t, NextTarget(c))
  /\ UNCHANGED <<budgetVars, cached>>

(* Faulty: after a terminal error the loop goes on. *)
ReportTerminalAndContinue(t) ==
  LET c == call[t] IN
  /\ c.at = "terminal"
  /\ Failed(Provider(c))
  /\ Update(t, [NextTarget(c) EXCEPT !.records = @ + 1])
  /\ UNCHANGED <<budgetVars, cached>>

(* record_failure; a terminal error is recorded, without cost, and raised. *)
ReportTerminal(t) ==
  LET c == call[t] IN
  /\ c.at = "terminal"
  /\ Failed(Provider(c))
  /\ Update(t, Recorded(c, "terminal"))
  /\ UNCHANGED <<budgetVars, cached>>

(* record_success ... *)
ReportSuccess(t) ==
  LET c == call[t] IN
  /\ c.at = "succeeded"
  /\ breakers' = [breakers EXCEPT ![Provider(c)] = AfterSuccess(@)]
  /\ streaks' = [streaks EXCEPT ![Provider(c)] = 0]
  /\ Update(t, [c EXCEPT !.at = IF c.key = None THEN "record" ELSE "store",
                         !.role = "idle", !.age = 0])
  /\ UNCHANGED <<budgetVars, cached>>

(* ... then the response is cached ... *)
CacheSet(t) ==
  LET c == call[t] IN
  /\ c.at = "store"
  /\ cached' = cached \cup {c.key}
  /\ Update(t, [c EXCEPT !.at = "record"])
  /\ UNCHANGED <<breakers, streaks, budgetVars>>

ServedStatus(c) == IF c.target = 1 THEN "success" ELSE "fallback_success"

(* Faulty: the call is charged before its record and again with it. *)
RecordSuccessTwice(t) ==
  LET c == call[t] IN
  /\ c.at = "record"
  /\ \E cost \in 0..MaxCost :
       IF B!Enabled /\ cost # 0
       THEN B!Charge(c.consumer, 2 * cost) ELSE UNCHANGED budgetVars
  /\ Update(t, Recorded(c, ServedStatus(c)))
  /\ UNCHANGED <<breakers, streaks, cached>>

(* ... and the record written, which charges the consumer the response's   *)
(* cost: 0 if it has no usage or no price.                                 *)
RecordSuccess(t) ==
  LET c == call[t] IN
  /\ c.at = "record"
  /\ \E cost \in 0..MaxCost :
       IF B!Enabled /\ cost # 0
       THEN B!Charge(c.consumer, cost) ELSE UNCHANGED budgetVars
  /\ Update(t, Recorded(c, ServedStatus(c)))
  /\ UNCHANGED <<breakers, streaks, cached>>

(* A cached response expires or is evicted. *)
CacheExpire(key) ==
  /\ key \in cached
  /\ cached' = cached \ {key}
  /\ UNCHANGED <<breakers, streaks, budgetVars, call>>

Tick ==
  /\ breakers' = [p \in Providers |-> Elapse(breakers[p])]
  /\ call' = [t \in Threads |->
       LET c == call[t] IN
       [c EXCEPT !.elapsed = IF c.at \in {"idle", "returned"} \/ @ = Deadline
                             THEN @ ELSE @ + 1,
                 !.age = IF c.role = "probe" THEN Older(@) ELSE @]]
  /\ UNCHANGED <<streaks, budgetVars, cached>>
----------------------------------------------------------------------------
Step(t) ==
  \/ CacheGet(t) \/ BudgetCheck(t) \/ Resolve(t)
  \/ AllFailed(t) \/ DeadlineBreak(t) \/ Guards(t) \/ EmbedGuards(t)
  \/ CircuitBlocked(t) \/ CircuitAllow(t)
  \/ OutOfTime(t) \/ EmbedOutOfTime(t) \/ CallProvider(t)
  \/ ProviderReturns(t) \/ ProviderTerminal(t) \/ ProviderUntyped(t)
  \/ ProviderRetriable(t) \/ EmbedRetriable(t)
  \/ ReportExhausted(t) \/ ReportTerminal(t) \/ ReportSuccess(t)
  \/ CacheSet(t) \/ RecordSuccess(t)

Next ==
  \/ Tick
  \/ \E key \in Keys : CacheExpire(key)
  \/ \E t \in Threads : Start(t) \/ EmbedStart(t) \/ Reject(t) \/ Step(t)

Spec == Init /\ [][Next]_vars

(* Threads run, and a provider called with a timeout answers in the end. *)
FairSpec == Spec /\ \A t \in Threads : WF_vars(Step(t))
----------------------------------------------------------------------------
Entries(c, i, outcome) ==
  {n \in DOMAIN c.log : c.log[n] = [target |-> i, outcome |-> outcome]}

Skipped(c, i) == Entries(c, i, "circuit_open") \cup Entries(c, i, "no_embed")

(* One call, one capture record: whichever way a call returns or raises    *)
(* there is exactly one, except for an exception it does not know.         *)
OneRecord ==
  \A t \in Threads :
    call[t].records =
      IF call[t].at = "returned" /\ call[t].status # "untyped" THEN 1 ELSE 0

(* A later target is tried only after every earlier one was skipped (by    *)
(* its breaker, or because it cannot embed) or had all its retries: none is*)
(* given up early, none is tried after it was skipped, and no terminal     *)
(* error is followed by a fallback.                                        *)
FallbackJustified ==
  \A t \in Threads : call[t].at = "calling" =>
    \A i \in 1..(call[t].target - 1) :
      LET c == call[t] IN
      /\ Entries(c, i, "terminal") \cup Entries(c, i, "success") = {}
      /\ \/ /\ Cardinality(Skipped(c, i)) = 1
            /\ Entries(c, i, "retriable") = {}
         \/ /\ Skipped(c, i) = {}
            /\ Cardinality(Entries(c, i, "retriable")) =
                 IF c.op = "embed" THEN 1 ELSE MaxAttempts

(* What the record says agrees with the attempts it carries. *)
RecordMatchesLog ==
  \A t \in Threads :
    LET c == call[t]
        last == c.log[Len(c.log)] IN
    c.at = "returned" =>
      /\ c.status = "success" =>
           last = [target |-> 1, outcome |-> "success"]
      /\ c.status = "fallback_success" =>
           last.outcome = "success" /\ last.target > 1
      /\ c.status = "terminal" => last.outcome = "terminal"
      /\ c.status = "all_failed" =>
           \A n \in DOMAIN c.log : c.log[n].outcome \notin {"success", "terminal"}

(* Every call is told once and truly: whichever of its many ends it takes. *)
CallRecorded == OneRecord /\ RecordMatchesLog

(* Every provider's breaker, with the calls the gateway has in flight at   *)
(* it, behaves as Circuit says: one report at most for every grant, and    *)
(* none without one.                                                       *)
CircuitsImplemented ==
  /\ \A p \in Providers : C(p)!Init
  /\ [][\A p \in Providers : [C(p)!Next]_(C(p)!vars)]_vars

(* The budget, with the calls the gateway has in flight, behaves as Budget *)
(* says: every checked call is charged at most once, for the consumer it   *)
(* was checked for, and nothing is charged that was not checked.           *)
BudgetImplemented == B!Spec

(* Every call ends, however many targets fail and whatever the deadline.   *)
CallsReturn ==
  \A t \in Threads : (call[t].at # "idle") ~> (call[t].at \in {"idle", "returned"})
============================================================================
