--------------------------- MODULE CircuitProofs ---------------------------
(***************************************************************************)
(* Safety of the circuit breaker for every number of callers, threshold    *)
(* and cooldown.                                                           *)
(***************************************************************************)
EXTENDS Circuit, TLAPS

(* The count agrees with the history on both sides of the threshold. *)
CountMatches ==
  IF IsOpen(breaker)
  THEN breaker.fails >= Threshold /\ streak = Threshold
  ELSE breaker.fails = streak /\ breaker.fails < Threshold

(* Why no second probe can be granted while a fresh one is out: either the *)
(* circuit has closed, or it was opened no earlier than the probe left     *)
(* (the cooldown still runs), or the slot is held by no older a grant.     *)
Shielded(c) ==
  \/ ~IsOpen(breaker)
  \/ breaker.openFor <= call[c].age
  \/ HasProbe(breaker) /\ breaker.probeFor <= call[c].age

(* A disabled breaker never leaves its initial state. *)
Inert == breaker = Closed /\ \A c \in Callers : call[c].role # "probe"

IInv ==
  /\ TypeOK
  /\ IF Enabled THEN CountMatches ELSE Inert
  /\ \A c \in FreshProbes : Shielded(c)
  /\ OneFreshProbe
----------------------------------------------------------------------------
(* The clock of a breaker: what growing older does to a time. *)
LEMMA ElapsedFacts ==
  /\ Cooldown \in Nat /\ Threshold \in Nat
  /\ None \notin Elapsed
  /\ Elapsed \subseteq Int
  /\ 0 \in Elapsed
  /\ \A t \in Elapsed \cup {None} : /\ Older(t) \in Elapsed \cup {None}
                                    /\ (t = None) <=> (Older(t) = None)
  /\ \A t \in Elapsed : /\ Older(t) >= t /\ (t < Cooldown => Older(t) = t + 1)
                        /\ (Older(t) < Cooldown => t < Cooldown)
  BY BreakerAssumption DEF Elapsed, Older

(* Every operation of a breaker returns a breaker. *)
LEMMA BreakerClosure ==
  ASSUME NEW b \in Breaker
  PROVE  /\ Closed \in Breaker
         /\ AfterAllow(b) \in Breaker
         /\ AfterSuccess(b) \in Breaker
         /\ AfterFailure(b) \in Breaker
         /\ Elapse(b) \in Breaker
<1> USE ElapsedFacts
<1>1. Closed \in Breaker
  BY DEF Closed, Breaker
<1>2. AfterAllow(b) \in Breaker
  BY DEF AfterAllow, Breaker
<1>3. AfterSuccess(b) \in Breaker
  BY <1>1 DEF AfterSuccess
<1>4. AfterFailure(b) \in Breaker
  <2>1. CASE Enabled /\ ~HasProbe(b)
    <3>1. b.fails + 1 \in Nat
      BY DEF Breaker
    <3>2. (IF b.fails + 1 >= Threshold THEN 0 ELSE b.openFor) \in Elapsed \cup {None}
      BY DEF Breaker
    <3> QED
      BY <2>1, <3>1, <3>2 DEF AfterFailure, Breaker
  <2>2. CASE ~(Enabled /\ ~HasProbe(b))
    BY <2>2 DEF AfterFailure, Breaker
  <2> QED
    BY <2>1, <2>2
<1>5. Elapse(b) \in Breaker
  BY DEF Elapse, Breaker
<1> QED
  BY <1>1, <1>2, <1>3, <1>4, <1>5

(* A new breaker satisfies the invariant. *)
LEMMA InitIInv == Init => IInv
<1> SUFFICES ASSUME Init PROVE IInv
  OBVIOUS
<1>1. TypeOK
  BY ElapsedFacts, BreakerClosure
     DEF Init, TypeOK, Closed, Breaker, Call, Idle, HasProbe, IsOpen
<1>2. FreshProbes = {}
  BY DEF FreshProbes, Init, Idle
<1>3. IF Enabled THEN CountMatches ELSE Inert
  BY ElapsedFacts DEF Init, Enabled, CountMatches, Inert, Closed, IsOpen, Idle
<1> QED
  BY <1>1, <1>2, <1>3 DEF IInv, OneFreshProbe

(* allow(), the two reports and the passing of time keep it. *)
LEMMA NextIInv == IInv /\ [Next]_vars => IInv'
<1> SUFFICES ASSUME IInv, [Next]_vars PROVE IInv'
  OBVIOUS
<1> USE ElapsedFacts
<1>t. TypeOK /\ breaker \in Breaker /\ call \in [Callers -> Call]
  BY DEF IInv, TypeOK
<1>1. ASSUME NEW c \in Callers, Allow(c) PROVE IInv'
  <2>1. TypeOK'
    BY <1>1, <1>t, BreakerClosure
       DEF Allow, TypeOK, Call, AfterAllow, Breaker, HasProbe, IsOpen, Idle
  <2>2. (IF Enabled THEN CountMatches ELSE Inert)'
    BY <1>1, <1>t
       DEF Allow, IInv, CountMatches, Inert, AfterAllow, Breaker, IsOpen,
           Closed, Enabled, Call
  <2>3. CASE Enabled /\ IsOpen(breaker)
    <3>1. FreshProbes = {}
      BY <1>1, <1>t, <2>3
         DEF Allow, Granted, Cooling, ProbeInFlight, IsOpen, HasProbe, Breaker,
             FreshProbes, Shielded, Call, IInv, Elapsed
    <3>2. /\ call' = [call EXCEPT ![c] = [role |-> "probe", age |-> 0]]
          /\ breaker' = [breaker EXCEPT !.probeFor = 0]
      BY <1>1, <2>3 DEF Allow, AfterAllow
    <3>3. FreshProbes' \subseteq {c}
      BY <3>1, <3>2, <1>t DEF FreshProbes
    <3>4. Shielded(c)'
      BY <3>2, <1>t DEF Shielded, HasProbe, Breaker, Elapsed
    <3> QED
      BY <2>1, <2>2, <3>3, <3>4 DEF IInv, OneFreshProbe
  <2>4. CASE ~(Enabled /\ IsOpen(breaker))
    <3>1. breaker' = breaker /\ ~IsOpen(breaker)
      BY <1>1, <2>4 DEF Allow, AfterAllow, IInv, Inert, Closed, IsOpen
    <3>2. call' = [call EXCEPT ![c] = [role |-> "normal", age |-> 0]]
      BY <1>1, <3>1 DEF Allow
    <3>3. FreshProbes' \subseteq FreshProbes
      BY <3>2, <1>t DEF FreshProbes
    <3>4. \A d \in FreshProbes' : Shielded(d)'
      BY <3>1 DEF Shielded, IsOpen
    <3> QED
      BY <2>1, <2>2, <3>3, <3>4 DEF IInv, OneFreshProbe
  <2> QED
    BY <2>3, <2>4
<1>2. ASSUME NEW c \in Callers, RecordSuccess(c) PROVE IInv'
  <2>1. TypeOK'
    BY <1>2, <1>t, BreakerClosure
       DEF RecordSuccess, TypeOK, Call, AfterSuccess, Closed, HasProbe, IsOpen, Idle
  <2>2. (IF Enabled THEN CountMatches ELSE Inert)'
    BY <1>2, <1>t
       DEF RecordSuccess, IInv, CountMatches, Inert, AfterSuccess, IsOpen,
           Closed, Enabled, Idle
  <2>3. FreshProbes' \subseteq FreshProbes
    BY <1>2, <1>t DEF RecordSuccess, FreshProbes, Idle
  <2>4. ~IsOpen(breaker')
    BY <1>2 DEF RecordSuccess, AfterSuccess, IInv, Inert, Closed, IsOpen
  <2> QED
    BY <2>1, <2>2, <2>3, <2>4 DEF IInv, OneFreshProbe, Shielded
<1>3. ASSUME NEW c \in Callers, RecordFailure(c) PROVE IInv'
  <2>1. TypeOK'
    <3>1. breaker' = AfterFailure(breaker) /\ breaker' \in Breaker
      BY <1>3, <1>t, BreakerClosure DEF RecordFailure
    <3>2. HasProbe(breaker') => IsOpen(breaker')
      BY <3>1, <1>t DEF AfterFailure, HasProbe, IsOpen, IInv, TypeOK, Breaker
    <3>3. call' \in [Callers -> Call]
      BY <1>3, <1>t DEF RecordFailure, Call, Idle
    <3>4. streak' \in 0..Threshold
      BY <1>3 DEF RecordFailure, IInv, TypeOK
    <3> QED
      BY <3>1, <3>2, <3>3, <3>4 DEF TypeOK
  <2>2. (IF Enabled THEN CountMatches ELSE Inert)'
    BY <1>3, <1>t
       DEF RecordFailure, IInv, TypeOK, CountMatches, Inert, AfterFailure, IsOpen,
           HasProbe, Closed, Enabled, Idle, Breaker
  <2>3. FreshProbes' \subseteq FreshProbes
    BY <1>3, <1>t DEF RecordFailure, FreshProbes, Idle
  <2>4. \A d \in FreshProbes' : call'[d] = call[d]
    BY <1>3, <1>t DEF RecordFailure, FreshProbes, Idle
  <2>5. \/ breaker' = breaker
        \/ breaker'.openFor = 0
        \/ breaker' = [breaker EXCEPT !.fails = @ + 1]
    BY <1>3, <1>t DEF RecordFailure, AfterFailure, Breaker
  <2>6. \A d \in FreshProbes' : Shielded(d)'
    BY <2>3, <2>4, <2>5, <1>t
       DEF Shielded, IInv, IsOpen, HasProbe, Breaker, Call, Elapsed, FreshProbes
  <2> QED
    BY <2>1, <2>2, <2>3, <2>6 DEF IInv, OneFreshProbe
<1>4. ASSUME NEW c \in Callers, Vanish(c) PROVE IInv'
  <2>1. TypeOK'
    BY <1>4, <1>t DEF Vanish, TypeOK, Call, Idle
  <2>2. (IF Enabled THEN CountMatches ELSE Inert)'
    BY <1>4, <1>t DEF Vanish, IInv, CountMatches, Inert, IsOpen, Idle, Enabled
  <2>3. FreshProbes' \subseteq FreshProbes
    BY <1>4, <1>t DEF Vanish, FreshProbes, Idle
  <2>4. \A d \in FreshProbes' : Shielded(d)'
    BY <1>4, <1>t, <2>3 DEF Vanish, Shielded, IInv, FreshProbes, Idle
  <2> QED
    BY <2>1, <2>2, <2>3, <2>4 DEF IInv, OneFreshProbe
<1>5. ASSUME Tick PROVE IInv'
  <2>0. /\ breaker' \in Breaker
        /\ breaker'.fails = breaker.fails
        /\ breaker'.openFor = Older(breaker.openFor)
        /\ breaker'.probeFor = Older(breaker.probeFor)
    BY <1>5, <1>t, BreakerClosure DEF Tick, Elapse, Breaker
  <2>1. TypeOK'
    <3>1. HasProbe(breaker') => IsOpen(breaker')
      BY <2>0, <1>t DEF HasProbe, IsOpen, IInv, TypeOK, Breaker
    <3>2. ASSUME NEW c \in Callers PROVE call'[c] \in Call
      <4>1. call[c].age \in Elapsed /\ Older(call[c].age) \in Elapsed
        BY <1>t DEF Call
      <4> QED
        BY <4>1, <1>5, <1>t DEF Tick, Call
    <3>3. call' \in [Callers -> Call]
      BY <3>2, <1>5 DEF Tick
    <3> QED
      BY <2>0, <3>1, <3>3, <1>5 DEF TypeOK, IInv, Tick
  <2>2. (IF Enabled THEN CountMatches ELSE Inert)'
    <3>1. CASE Enabled
      <4>1. IsOpen(breaker') <=> IsOpen(breaker)
        BY <2>0, <1>t DEF IsOpen, Breaker
      <4> QED
        BY <3>1, <4>1, <2>0, <1>5 DEF IInv, CountMatches, Tick, Enabled
    <3>2. CASE ~Enabled
      <4>1. breaker' = Closed
        <5>1. Older(None) = None
          BY DEF Older
        <5>2. breaker = Closed
          BY <3>2 DEF IInv, Inert
        <5> QED
          BY <5>1, <5>2, <2>0, BreakerClosure DEF Closed, Breaker
      <4>2. \A c \in Callers : call'[c] = call[c] /\ call[c].role # "probe"
        BY <3>2, <1>5 DEF IInv, Inert, Tick
      <4> QED
        BY <3>2, <4>1, <4>2 DEF Inert, Enabled
    <3> QED
      BY <3>1, <3>2
  <2>3. \A d \in FreshProbes' : d \in FreshProbes /\ call'[d].age = call[d].age + 1
    BY <1>5, <1>t DEF Tick, FreshProbes, Call
  <2>4. \A d \in FreshProbes' : Shielded(d)'
    BY <1>5, <1>t, <2>3
       DEF Tick, Shielded, IInv, IsOpen, HasProbe, Elapse, Breaker, Call,
           FreshProbes, Older, Elapsed
  <2> QED
    BY <2>1, <2>2, <2>3, <2>4 DEF IInv, OneFreshProbe
<1>6. CASE UNCHANGED vars
  BY <1>6 DEF vars, IInv, TypeOK, CountMatches, Inert, FreshProbes, Shielded,
              OneFreshProbe
<1> QED
  BY <1>1, <1>2, <1>3, <1>4, <1>5, <1>6 DEF Next, Finish

(* The invariant of the breaker (circuit.py) holds in every reachable state. *)
THEOREM Invariance == Spec => []IInv
  BY InitIInv, NextIInv, PTL DEF Spec

(* The three dictionaries stay well formed, and a probe slot exists only   *)
(* for an open circuit.                                                    *)
THEOREM TypeCorrect == Spec => []TypeOK
  BY Invariance, PTL DEF IInv

(* However many callers race, fail late or never report, there is at most  *)
(* one probe younger than a cooldown.                                      *)
THEOREM SingleProbe == Spec => []OneFreshProbe
  BY Invariance, PTL DEF IInv

(* The circuit is open exactly when Threshold failures were reported with  *)
(* no success since.                                                       *)
THEOREM OpensOnThreshold == Spec => []OpenIffStreak
<1>1. IInv => OpenIffStreak
  BY BreakerAssumption DEF IInv, OpenIffStreak, CountMatches
<1> QED
  BY <1>1, Invariance, PTL
============================================================================
