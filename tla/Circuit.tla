------------------------------ MODULE Circuit ------------------------------
(***************************************************************************)
(* One provider's circuit breaker and the concurrent calls that use it.    *)
(*                                                                         *)
(* A call asks allow(); if it is let through it runs for any length of     *)
(* time and then reports success, reports failure, or never reports.  The  *)
(* three runners all leave that last way: a deadline that expires after    *)
(* the slot was granted, a client that disconnects, a stream truncated at  *)
(* its deadline and an untyped provider exception report nothing.          *)
(* A report carries no identity: the breaker cannot tell the probe's       *)
(* verdict from that of a call admitted long before the circuit opened.    *)
(***************************************************************************)
EXTENDS CircuitBreaker, FiniteSets

CONSTANT Callers        \* threads that may have one call in flight each

VARIABLES breaker,      \* this provider's breaker
          call,         \* per caller: its role and, for a probe, its age
          streak        \* history: failures reported since the last success

vars == <<breaker, call, streak>>

Idle == [role |-> "idle", age |-> 0]

Call == [role : {"idle", "normal", "probe"}, age : Elapsed]

TypeOK ==
  /\ breaker \in Breaker
  /\ HasProbe(breaker) => IsOpen(breaker)
  /\ call \in [Callers -> Call]
  /\ streak \in 0..Threshold

Init ==
  /\ breaker = Closed
  /\ call = [c \in Callers |-> Idle]
  /\ streak = 0

(* allow() answered True.  An answer of False changes nothing.  *)
Allow(c) ==
  /\ call[c].role = "idle"
  /\ Granted(breaker)
  /\ breaker' = AfterAllow(breaker)
  /\ call' = [call EXCEPT
                ![c] = [role |-> IF IsOpen(breaker) THEN "probe" ELSE "normal",
                        age |-> 0]]
  /\ UNCHANGED streak

RecordSuccess(c) ==
  /\ call[c].role # "idle"
  /\ breaker' = AfterSuccess(breaker)
  /\ call' = [call EXCEPT ![c] = Idle]
  /\ streak' = 0

RecordFailure(c) ==
  /\ call[c].role # "idle"
  /\ breaker' = AfterFailure(breaker)
  /\ call' = [call EXCEPT ![c] = Idle]
  /\ streak' = IF streak < Threshold THEN streak + 1 ELSE streak

(* The call ends and the breaker never hears of it. *)
Vanish(c) ==
  /\ call[c].role # "idle"
  /\ call' = [call EXCEPT ![c] = Idle]
  /\ UNCHANGED <<breaker, streak>>

Tick ==
  /\ breaker' = Elapse(breaker)
  /\ call' = [c \in Callers |->
                IF call[c].role = "probe"
                THEN [call[c] EXCEPT !.age = Older(@)] ELSE call[c]]
  /\ UNCHANGED streak

Finish(c) == RecordSuccess(c) \/ RecordFailure(c) \/ Vanish(c)

Next == Tick \/ \E c \in Callers : Allow(c) \/ Finish(c)

Spec == Init /\ [][Next]_vars

(* Time passes, traffic for the provider keeps arriving, and every call    *)
(* ends: providers are called with a timeout.                              *)
Fairness ==
  /\ WF_vars(Tick)
  /\ \A c \in Callers : WF_vars(Allow(c)) /\ WF_vars(Finish(c))

FairSpec == Spec /\ Fairness
----------------------------------------------------------------------------
FreshProbes == {c \in Callers : call[c].role = "probe" /\ call[c].age < Cooldown}

(* At no time are there two probes younger than a cooldown, whatever stale *)
(* reports, lost probes, closings and re-openings came in between: after   *)
(* opening, allow() sends the provider at most one call per cooldown.      *)
OneFreshProbe == \A c, d \in FreshProbes : c = d

(* The circuit is open exactly when the last Threshold reports, with no    *)
(* success among them, were failures: a success anywhere in between starts *)
(* the count again, and no path of record_failure loses or invents one.    *)
OpenIffStreak == Enabled => (IsOpen(breaker) <=> streak = Threshold)

(* An open provider is never abandoned: again and again either the circuit *)
(* closes or a new probe is let through, although a probe may never report *)
(* and a stale failure may restart the cooldown.                           *)
OpenIsRetried == []<>(~IsOpen(breaker) \/ breaker.probeFor = 0)
============================================================================
