---------------------------- MODULE BudgetProofs ----------------------------
(***************************************************************************)
(* How far concurrent calls can carry spending past a cap, what eviction   *)
(* may forget, and what is tracked at most, for every number of callers,   *)
(* every set of caps and every price.                                      *)
(***************************************************************************)
EXTENDS Budget, SequenceLemmas

Amounts ==
  /\ spent \in [Consumers -> Nat]
  /\ lastCost \in [Consumers -> Nat]
  /\ globalSpent \in Nat
  /\ inFlight \in [Callers -> Consumers \cup {None}]
  /\ ledger \in [Consumers -> Nat]

(* The dictionaries have the same keys, those of the order, each once.     *)
Listed ==
  /\ order \in Order(Consumers)
  /\ lastCost \in [Consumers -> 0..MaxCost]
  /\ \A k \in Consumers : /\ spent[k] > 0 <=> k \in ToSet(order)
                          /\ lastCost[k] > 0 <=> k \in ToSet(order)

(* Spending plus the most that is still to come from the calls in flight.  *)
CapExposure ==
  \A k \in Capped :
    spent[k] + MaxCost * Cardinality(InFlightFor(k))
      < Cap[k] + MaxCost * Cardinality(Callers)

GlobalExposure ==
  GlobalCap # None =>
    globalSpent + MaxCost * Cardinality(AllInFlight)
      < GlobalCap + MaxCost * Cardinality(Callers)

IInv ==
  /\ Amounts
  /\ Listed
  /\ TrackedBounded
  /\ CappedSpendingKept
  /\ CapExposure
  /\ GlobalExposure
----------------------------------------------------------------------------
(* What the proof needs of a multiplication by MaxCost. *)
LEMMA Times ==
  /\ MaxCost \in Nat \ {0}
  /\ \A n \in Nat : MaxCost * n \in Nat /\ MaxCost * (n + 1) = MaxCost * n + MaxCost
  /\ \A m, n \in Nat : m <= n => MaxCost * m <= MaxCost * n
  /\ MaxCost * 0 = 0
<1>1. MaxCost \in Nat \ {0}
  BY SizeAssumption
<1>2. ASSUME NEW m \in Nat, NEW n \in Nat, m <= n PROVE MaxCost * m <= MaxCost * n
  <2>1. n = m + (n - m) /\ n - m \in Nat
    BY <1>2
  <2>2. MaxCost * (m + (n - m)) = MaxCost * m + MaxCost * (n - m)
    BY <1>1
  <2>3. MaxCost * (n - m) \in Nat /\ MaxCost * m \in Nat
    BY <1>1, <2>1
  <2> QED
    BY <2>1, <2>2, <2>3
<1> QED
  BY <1>1, <1>2

(* Sets of callers are finite. *)
LEMMA CallerSets ==
  /\ Cardinality(Callers) \in Nat \ {0}
  /\ \A S \in SUBSET Callers : /\ IsFiniteSet(S)
                               /\ Cardinality(S) \in Nat
                               /\ Cardinality(S) <= Cardinality(Callers)
  BY CallersAssumption, FS_CardinalityType, FS_EmptySet, FS_Subset

(* What is in flight after a caller took up a call, and after one ended.   *)
LEMMA TakeUp ==
  ASSUME NEW S \in SUBSET Callers, NEW c \in Callers \ S
  PROVE  /\ Cardinality(S \cup {c}) = Cardinality(S) + 1
         /\ MaxCost * Cardinality(S \cup {c}) <= MaxCost * Cardinality(Callers)
<1>1. Cardinality(S \cup {c}) = Cardinality(S) + 1
  BY CallerSets, FS_AddElement
<1>2. S \cup {c} \in SUBSET Callers
  OBVIOUS
<1> QED
  BY <1>1, <1>2, CallerSets, Times

(* One caller fewer in flight is one MaxCost less. *)
LEMMA PutDown ==
  ASSUME NEW S \in SUBSET Callers, NEW c \in S
  PROVE  MaxCost * Cardinality(S) = MaxCost * Cardinality(S \ {c}) + MaxCost
<1>1. Cardinality(S \ {c}) = Cardinality(S) - 1 /\ Cardinality(S) \in Nat
  BY CallerSets, FS_RemoveElement
<1>2. S \ {c} \in SUBSET Callers
  OBVIOUS
<1>3. Cardinality(S \ {c}) \in Nat
  BY <1>2, CallerSets
<1> QED
  BY <1>1, <1>3, Times

(* A charge lists its consumer and evicts one without a cap at most, which *)
(* is enough to end the loop of _evict_locked.                             *)
LEMMA Eviction ==
  ASSUME order \in Order(Consumers), NEW k \in Consumers
  PROVE  /\ Kept(Touched(k)) \in Order(Consumers)
         /\ ToSet(Touched(k)) = ToSet(order) \cup {k}
         /\ ToSet(Kept(Touched(k))) \subseteq ToSet(order) \cup {k}
         /\ (ToSet(Touched(k)) \ ToSet(Kept(Touched(k)))) \cap Capped = {}
         /\ TrackedBounded => \/ Len(Kept(Touched(k))) <= MaxConsumers
                              \/ ToSet(Kept(Touched(k))) \subseteq Capped
<1> DEFINE o == Touched(k)
           r == Kept(o)
<1>1. /\ o \in Order(Consumers) /\ ToSet(o) = ToSet(order) \cup {k}
      /\ Len(o) = IF k \in ToSet(order) THEN Len(order) ELSE Len(order) + 1
  BY MovedToEnd DEF Touched
<1> HIDE DEF o
<1>2. /\ o \in Seq(Consumers) /\ Len(o) \in Nat
      /\ \A x \in ToSet(o) : \E i \in 1..Len(o) : o[i] = x
      /\ \A i \in 1..Len(o) : o[i] \in ToSet(o)
  BY <1>1, Members DEF Order
<1>3. \/ r = o /\ (Len(o) <= MaxConsumers \/ ToSet(o) \subseteq Capped)
      \/ /\ r \in Order(Consumers) /\ Len(r) = Len(o) - 1
         /\ \E x \in ToSet(o) \ Capped : ToSet(r) = ToSet(o) \ {x}
  <2>1. CASE Len(o) > MaxConsumers /\ Evictable(o) # {}
    <3>1. Evictable(o) \in SUBSET Nat
      BY <1>2 DEF Evictable
    <3>2. PICK n \in Evictable(o) : n = Min(Evictable(o))
      BY <2>1, <3>1, LeastNumber
    <3>3. n \in 1..Len(o) /\ o[n] \in ToSet(o) \ Capped
      BY <1>2, <3>2 DEF Evictable
    <3>4. RemoveAt(o, n) \in Order(Consumers) /\ ToSet(RemoveAt(o, n)) = ToSet(o) \ {o[n]}
      BY <1>1, <3>3, RemoveAtOrder
    <3>5. Len(RemoveAt(o, n)) = Len(o) - 1
      BY <1>2, <3>3, RemoveAtProperties
    <3>6. r = RemoveAt(o, n)
      BY <2>1, <3>2 DEF Kept
    <3> QED
      BY <3>3, <3>4, <3>5, <3>6
  <2>2. CASE Evictable(o) = {}
    <3>1. ToSet(o) \subseteq Capped
      BY <1>2, <2>2 DEF Evictable
    <3> QED
      BY <2>2, <3>1 DEF Kept
  <2>3. CASE ~(Len(o) > MaxConsumers)
    BY <1>2, <2>3, SizeAssumption DEF Kept
  <2> QED
    BY <2>1, <2>2, <2>3
<1> HIDE DEF r
<1>4. Len(order) \in Nat /\ Len(o) \in Nat /\ MaxConsumers \in Nat
  BY <1>1, SizeAssumption DEF Order
<1>5. (ToSet(o) \ ToSet(r)) \cap Capped = {}
  BY <1>3
<1>6. ASSUME TrackedBounded
      PROVE  Len(r) <= MaxConsumers \/ ToSet(r) \subseteq Capped
  BY <1>1, <1>3, <1>4, <1>6 DEF TrackedBounded
<1> QED
  BY <1>1, <1>3, <1>5, <1>6 DEF o, r

(* A new guard satisfies the invariant. *)
LEMMA InitIInv == Init => IInv
<1> SUFFICES ASSUME Init PROVE IInv
  OBVIOUS
<1>1. Amounts
  BY DEF Init, Amounts
<1>2. CappedSpendingKept
  BY CapAssumption DEF Init, CappedSpendingKept, Capped
<1>o. Listed /\ TrackedBounded
  BY SizeAssumption DEF Init, Listed, TrackedBounded, Order, IsInjective, ToSet
<1>3. AllInFlight = {} /\ \A k \in Capped : InFlightFor(k) = {}
  BY CapAssumption DEF Init, AllInFlight, InFlightFor, Capped
<1>4. MaxCost * Cardinality(Callers) \in Nat \ {0}
  BY Times, CallerSets, SizeAssumption
<1>5. CapExposure
  <2> SUFFICES ASSUME NEW k \in Capped
               PROVE  spent[k] + MaxCost * Cardinality(InFlightFor(k))
                        < Cap[k] + MaxCost * Cardinality(Callers)
    BY DEF CapExposure
  <2>1. spent[k] = 0 /\ Cap[k] \in Nat
    BY CapAssumption DEF Init, Capped
  <2>2. MaxCost * Cardinality(InFlightFor(k)) = 0
    BY <1>3, FS_EmptySet, Times
  <2> QED
    BY <1>4, <2>1, <2>2
<1>6. GlobalExposure
  BY <1>3, <1>4, FS_EmptySet, Times, CapAssumption DEF GlobalExposure, Init
<1> QED
  BY <1>1, <1>2, <1>o, <1>5, <1>6 DEF IInv

(* Checks, charges, evictions and abandoned calls keep it. *)
LEMMA NextIInv == IInv /\ [Next]_vars => IInv'
<1> SUFFICES ASSUME IInv, [Next]_vars PROVE IInv'
  OBVIOUS
<1> USE CapAssumption
<1>t. Amounts /\ Capped \subseteq Consumers
  BY DEF IInv, Capped
<1>1. ASSUME NEW c \in Callers, NEW k \in Consumers, Check(c, k) PROVE IInv'
  <2> USE <1>1 DEF Check
  <2>1. Amounts'
    BY <1>t DEF Amounts
  <2>2. (CappedSpendingKept /\ Listed /\ TrackedBounded)'
    BY DEF IInv, CappedSpendingKept, Listed, TrackedBounded
  <2>3. /\ c \notin InFlightFor(k) /\ c \notin AllInFlight
        /\ InFlightFor(k)' = InFlightFor(k) \cup {c}
        /\ AllInFlight' = AllInFlight \cup {c}
        /\ \A x \in Capped \ {k} : InFlightFor(x)' = InFlightFor(x)
    BY <1>t DEF Amounts, InFlightFor, AllInFlight
  <2>4. InFlightFor(k) \subseteq Callers /\ AllInFlight \subseteq Callers
    BY DEF InFlightFor, AllInFlight
  <2>5. CapExposure'
    <3> SUFFICES ASSUME NEW x \in Capped
                 PROVE  spent[x] + MaxCost * Cardinality(InFlightFor(x)')
                          < Cap[x] + MaxCost * Cardinality(Callers)
      BY DEF CapExposure
    <3>1. CASE x = k
      <4>1. MaxCost * Cardinality(InFlightFor(k)') <= MaxCost * Cardinality(Callers)
        BY <2>3, <2>4, TakeUp
      <4>2. spent[k] < Cap[k]
        BY <3>1, <1>t DEF Refused, Amounts, Capped
      <4>3. /\ MaxCost * Cardinality(InFlightFor(k)') \in Nat
            /\ MaxCost * Cardinality(Callers) \in Nat
        BY <2>3, <2>4, TakeUp, CallerSets, Times
      <4> QED
        BY <4>1, <4>2, <4>3, <3>1, <1>t DEF Amounts, Capped
    <3>2. CASE x # k
      BY <3>2, <2>3 DEF IInv, CapExposure
    <3> QED
      BY <3>1, <3>2
  <2>6. GlobalExposure'
    <3> SUFFICES ASSUME GlobalCap # None
                 PROVE  globalSpent + MaxCost * Cardinality(AllInFlight')
                          < GlobalCap + MaxCost * Cardinality(Callers)
      BY DEF GlobalExposure
    <3>1. MaxCost * Cardinality(AllInFlight') <= MaxCost * Cardinality(Callers)
      BY <2>3, <2>4, TakeUp
    <3>2. globalSpent < GlobalCap
      BY <1>t DEF Refused, Amounts
    <3>3. /\ MaxCost * Cardinality(AllInFlight') \in Nat
          /\ MaxCost * Cardinality(Callers) \in Nat
      BY <2>3, <2>4, TakeUp, CallerSets, Times
    <3> QED
      BY <3>1, <3>2, <3>3, <1>t DEF Amounts
  <2> QED
    BY <2>1, <2>2, <2>5, <2>6 DEF IInv
<1>2. ASSUME NEW c \in Callers, NEW cost \in 0..MaxCost, Add(c, cost) PROVE IInv'
  <2> PICK k \in Consumers : k = inFlight[c]
    BY <1>2, <1>t DEF Add, Amounts
  <2>1. inFlight[c] = k /\ inFlight' = [inFlight EXCEPT ![c] = None] /\ cost \in Nat
    BY <1>2, <1>t, SizeAssumption DEF Add, Amounts
  <2>2. /\ c \in InFlightFor(k) /\ c \in AllInFlight
        /\ InFlightFor(k)' = InFlightFor(k) \ {c}
        /\ AllInFlight' = AllInFlight \ {c}
        /\ \A x \in Consumers \ {k} : InFlightFor(x)' = InFlightFor(x)
    BY <2>1, <1>t DEF Amounts, InFlightFor, AllInFlight
  <2>3. InFlightFor(k) \subseteq Callers /\ AllInFlight \subseteq Callers
    BY DEF InFlightFor, AllInFlight
  <2>4. /\ MaxCost * Cardinality(InFlightFor(k))
             = MaxCost * Cardinality(InFlightFor(k)') + MaxCost
        /\ MaxCost * Cardinality(AllInFlight)
             = MaxCost * Cardinality(AllInFlight') + MaxCost
    BY <2>2, <2>3, PutDown
  <2>5. \A S \in SUBSET Callers : MaxCost * Cardinality(S) \in Nat
    BY CallerSets, Times
  <2>6. /\ InFlightFor(k)' \in SUBSET Callers /\ AllInFlight' \in SUBSET Callers
        /\ \A x \in Capped : InFlightFor(x) \in SUBSET Callers
    BY <2>2, <2>3 DEF InFlightFor
  <2>7. CASE Enabled /\ cost # 0
    <3>1. Charge(k, cost)
      BY <1>2, <2>7 DEF Add
    <3>2. Amounts'
      BY <3>1, <2>1, <1>t DEF Charge, GlobalTotal, Amounts
    <3> DEFINE o == Kept(Touched(k))
               victims == ToSet(Touched(k)) \ ToSet(o)
    <3>e. /\ o \in Order(Consumers) /\ ToSet(Touched(k)) = ToSet(order) \cup {k}
          /\ ToSet(o) \subseteq ToSet(order) \cup {k} /\ victims \cap Capped = {}
          /\ Len(o) <= MaxConsumers \/ ToSet(o) \subseteq Capped
      BY Eviction DEF IInv, Listed
    <3>c. order' = o /\ \A x \in Consumers :
            /\ spent'[x] = IF x \in victims THEN 0
                           ELSE IF x = k THEN spent[x] + cost ELSE spent[x]
            /\ lastCost'[x] = IF x \in victims THEN 0
                              ELSE IF x = k THEN cost ELSE lastCost[x]
      BY <3>1 DEF Charge
    <3>l. Listed'
      <4>1. lastCost' \in [Consumers -> 0..MaxCost]
        BY <3>1, <2>1, SizeAssumption DEF Charge, IInv, Listed
      <4>2. ASSUME NEW x \in Consumers
            PROVE  /\ spent'[x] > 0 <=> x \in ToSet(order')
                   /\ lastCost'[x] > 0 <=> x \in ToSet(order')
        <5>1. /\ spent[x] > 0 <=> x \in ToSet(order)
              /\ lastCost[x] > 0 <=> x \in ToSet(order)
              /\ spent[x] \in Nat /\ lastCost[x] \in Nat /\ cost > 0
          BY <2>1, <2>7, <1>t DEF IInv, Listed, Amounts
        <5>2. x \in ToSet(o) <=> x \notin victims /\ x \in ToSet(order) \cup {k}
          BY <3>e
        <5> HIDE DEF o, victims
        <5> QED
          BY <5>1, <5>2, <3>c, <2>1
      <4> QED
        BY <4>1, <4>2, <3>c, <3>e DEF Listed
    <3>b. TrackedBounded'
      BY <3>c, <3>e DEF TrackedBounded
    <3> HIDE DEF o, victims
    <3>3. \A x \in Capped : /\ spent'[x] = IF x = k THEN spent[x] + cost ELSE spent[x]
                            /\ ledger'[x] = IF x = k THEN ledger[x] + cost ELSE ledger[x]
      <4>1. \A x \in Consumers : ledger'[x] = IF x = k THEN ledger[x] + cost ELSE ledger[x]
        BY <3>1, <2>1, <1>t DEF Charge, Amounts
      <4> QED
        BY <4>1, <1>t, <3>c, <3>e
    <3>4. CappedSpendingKept'
      BY <3>3 DEF IInv, CappedSpendingKept
    <3>5. CapExposure'
      <4> SUFFICES ASSUME NEW x \in Capped
                   PROVE  spent'[x] + MaxCost * Cardinality(InFlightFor(x)')
                            < Cap[x] + MaxCost * Cardinality(Callers)
        BY DEF CapExposure
      <4>1. spent[x] + MaxCost * Cardinality(InFlightFor(x))
              < Cap[x] + MaxCost * Cardinality(Callers)
        BY DEF IInv, CapExposure
      <4>2. CASE x = k
        <5>1. spent'[x] = spent[x] + cost /\ spent[x] \in Nat /\ Cap[x] \in Nat
          BY <3>3, <4>2, <1>t DEF Amounts, Capped
        <5>2. spent[x] + MaxCost * Cardinality(InFlightFor(x)') + MaxCost
                < Cap[x] + MaxCost * Cardinality(Callers)
          BY <4>1, <4>2, <5>1, <2>4, <2>5, <2>6, SizeAssumption
        <5> QED
          BY <5>1, <5>2, <4>2, <2>1, <2>5, <2>6, SizeAssumption
      <4>3. CASE x # k
        BY <4>1, <4>3, <3>3, <2>2, <1>t
      <4> QED
        BY <4>2, <4>3
    <3>6. GlobalExposure'
      <4> SUFFICES ASSUME GlobalCap # None
                   PROVE  globalSpent' + MaxCost * Cardinality(AllInFlight')
                            < GlobalCap + MaxCost * Cardinality(Callers)
        BY DEF GlobalExposure
      <4>1. globalSpent' = globalSpent + cost /\ globalSpent \in Nat
        BY <3>1, <1>t DEF Charge, GlobalTotal, Amounts
      <4>2. globalSpent + MaxCost * Cardinality(AllInFlight)
              < GlobalCap + MaxCost * Cardinality(Callers)
        BY DEF IInv, GlobalExposure
      <4> QED
        BY <4>1, <4>2, <2>1, <2>4, <2>5, <2>6, SizeAssumption
    <3> QED
      BY <3>2, <3>l, <3>b, <3>4, <3>5, <3>6 DEF IInv
  <2>8. CASE ~(Enabled /\ cost # 0)
    <3>1. UNCHANGED <<spent, lastCost, order, globalSpent, ledger>>
      BY <1>2, <2>8 DEF Add
    <3>2. (Amounts /\ Listed /\ TrackedBounded /\ CappedSpendingKept)'
      BY <3>1, <2>1, <1>t DEF Amounts, IInv, CappedSpendingKept, Listed, TrackedBounded
    <3>3. CapExposure'
      <4> SUFFICES ASSUME NEW x \in Capped
                   PROVE  spent[x] + MaxCost * Cardinality(InFlightFor(x)')
                            < Cap[x] + MaxCost * Cardinality(Callers)
        BY <3>1 DEF CapExposure
      <4>1. spent[x] + MaxCost * Cardinality(InFlightFor(x))
              < Cap[x] + MaxCost * Cardinality(Callers)
        BY DEF IInv, CapExposure
      <4>2. spent[x] \in Nat /\ Cap[x] \in Nat
        BY <1>t DEF Amounts, Capped
      <4>3. CASE x = k
        BY <4>1, <4>2, <4>3, <2>4, <2>5, <2>6, SizeAssumption
      <4>4. CASE x # k
        BY <4>1, <4>4, <2>2, <1>t
      <4> QED
        BY <4>3, <4>4
    <3>4. GlobalExposure'
      <4> SUFFICES ASSUME GlobalCap # None
                   PROVE  globalSpent + MaxCost * Cardinality(AllInFlight')
                            < GlobalCap + MaxCost * Cardinality(Callers)
        BY <3>1 DEF GlobalExposure
      <4>1. globalSpent + MaxCost * Cardinality(AllInFlight)
              < GlobalCap + MaxCost * Cardinality(Callers)
        BY DEF IInv, GlobalExposure
      <4> QED
        BY <4>1, <1>t, <2>4, <2>5, <2>6, SizeAssumption DEF Amounts
    <3> QED
      BY <3>2, <3>3, <3>4 DEF IInv
  <2> QED
    BY <2>7, <2>8
<1>3. ASSUME NEW c \in Callers, NEW k \in Consumers, Refuse(c, k) PROVE IInv'
  BY <1>3 DEF Refuse, vars, IInv, Amounts, Listed, TrackedBounded, CappedSpendingKept, CapExposure,
              GlobalExposure, InFlightFor, AllInFlight
<1>4. CASE UNCHANGED vars
  BY <1>4 DEF vars, IInv, Amounts, Listed, TrackedBounded, CappedSpendingKept, CapExposure,
              GlobalExposure, InFlightFor, AllInFlight
<1> QED
  BY <1>1, <1>2, <1>3, <1>4 DEF Next

(* The invariant of the guard (budget.py) holds in every reachable state. *)
THEOREM Invariance == Spec => []IInv
  BY InitIInv, NextIInv, PTL DEF Spec

(* A consumer's cap is passed by less than all callers together can have   *)
(* in flight, whatever the interleaving of checks and charges.             *)
THEOREM CapOvershootBounded == Spec => []CapOvershoot
<1>1. IInv => CapOvershoot
  <2> SUFFICES ASSUME IInv, NEW k \in Capped
               PROVE  spent[k] < Cap[k] + MaxCost * Cardinality(Callers)
    BY DEF CapOvershoot
  <2>1. InFlightFor(k) \in SUBSET Callers
    BY DEF InFlightFor
  <2>2. /\ MaxCost * Cardinality(InFlightFor(k)) \in Nat
        /\ MaxCost * Cardinality(Callers) \in Nat
    BY <2>1, CallerSets, Times
  <2> QED
    BY <2>2, CapAssumption DEF IInv, CapExposure, Amounts, Capped
<1> QED
  BY <1>1, Invariance, PTL

(* The same for the cap on all consumers together. *)
THEOREM GlobalOvershootBounded == Spec => []GlobalOvershoot
<1>1. IInv => GlobalOvershoot
  <2>1. AllInFlight \in SUBSET Callers
    BY DEF AllInFlight
  <2>2. /\ MaxCost * Cardinality(AllInFlight) \in Nat
        /\ MaxCost * Cardinality(Callers) \in Nat
    BY <2>1, CallerSets, Times
  <2> QED
    BY <2>2, CapAssumption DEF IInv, GlobalExposure, GlobalOvershoot, Amounts
<1> QED
  BY <1>1, Invariance, PTL

(* No cap, of one consumer or of all, is passed by more than what was in   *)
(* flight.                                                                 *)
THEOREM OvershootIsBounded == Spec => []OvershootBounded
  BY CapOvershootBounded, GlobalOvershootBounded, PTL DEF OvershootBounded

(* Eviction never makes a capped consumer's spending disappear.            *)
THEOREM CappedKept == Spec => []CappedSpendingKept
  BY Invariance, PTL DEF IInv

(* The guard keeps its types; above all, both dictionaries list the same   *)
(* consumers, each once, whatever is evicted.                              *)
THEOREM TypeCorrectness == Spec => []TypeOK
<1>1. IInv => TypeOK
  BY DEF IInv, Amounts, Listed, TypeOK, Order
<1> QED
  BY <1>1, Invariance, PTL

(* Names that clients make up cannot grow the tables past max_consumers,   *)
(* but for consumers the configuration names.                              *)
THEOREM TrackedIsBounded == Spec => []TrackedBounded
  BY Invariance, PTL DEF IInv
----------------------------------------------------------------------------
(* g is the table of all the sums that SumFunction looks up on its way.    *)
Tallies(g, f, D) ==
  g = [s \in D |-> IF s = {} THEN 0
                   ELSE f[CHOOSE x \in s : TRUE] + g[s \ {CHOOSE x \in s : TRUE}]]

(* The sets of a finite S with at most n members. *)
Small(S, n) == {s \in SUBSET S : Cardinality(s) <= n}

(* A set loses the member chosen of it and one of its cardinality. *)
LEMMA OneLess ==
  ASSUME NEW S, IsFiniteSet(S), NEW s \in SUBSET S, s # {}
  PROVE  LET x == CHOOSE x \in s : TRUE IN
         /\ x \in s /\ s \ {x} \in SUBSET S
         /\ Cardinality(s) \in Nat /\ Cardinality(s \ {x}) \in Nat
         /\ Cardinality(s \ {x}) = Cardinality(s) - 1
<1> DEFINE x == CHOOSE x \in s : TRUE
<1>1. x \in s /\ IsFiniteSet(s)
  BY FS_Subset
<1> HIDE DEF x
<1>2. /\ Cardinality(s) \in Nat
      /\ Cardinality(s \ {x}) = Cardinality(s) - 1
      /\ IsFiniteSet(s \ {x})
  BY <1>1, FS_RemoveElement, FS_CardinalityType
<1>3. Cardinality(s \ {x}) \in Nat
  BY <1>2, FS_CardinalityType
<1> QED
  BY <1>1, <1>2, <1>3 DEF x

(* The table exists, however large the set: it is built up by cardinality. *)
LEMMA TalliesExist ==
  ASSUME NEW S, IsFiniteSet(S), NEW f
  PROVE  \E g : Tallies(g, f, SUBSET S)
<1> DEFINE P(n) == \E g : Tallies(g, f, Small(S, n))
           T == {n \in Nat : ~P(n)}
<1>1. T = {}
  <2> SUFFICES ASSUME T # {} PROVE FALSE
    OBVIOUS
  <2> DEFINE m == Min(T)
  <2>1. m \in T /\ \A n \in T : m <= n
    BY LeastNumber
  <2> HIDE DEF m
  <2>2. CASE m = 0
    <3> DEFINE g == [s \in Small(S, 0) |-> 0]
    <3>1. \A s \in Small(S, 0) : s = {}
      <4> SUFFICES ASSUME NEW s \in SUBSET S, Cardinality(s) <= 0, s # {} PROVE FALSE
        BY DEF Small
      <4> DEFINE x == CHOOSE x \in s : TRUE
      <4>1. Cardinality(s) \in Nat /\ Cardinality(s \ {x}) \in Nat
            /\ Cardinality(s \ {x}) = Cardinality(s) - 1
        BY OneLess
      <4> QED
        BY <4>1
    <3>2. Tallies(g, f, Small(S, 0))
      BY <3>1 DEF Tallies
    <3> QED
      BY <2>1, <2>2, <3>2
  <2>3. CASE m > 0
    <3>1. m - 1 \in Nat /\ m \in Nat /\ m - 1 \notin T
      BY <2>1, <2>3
    <3>2. PICK g : Tallies(g, f, Small(S, m - 1))
      BY <3>1
    <3> DEFINE h == [s \in Small(S, m) |->
                       IF s = {} THEN 0
                       ELSE f[CHOOSE x \in s : TRUE] + g[s \ {CHOOSE x \in s : TRUE}]]
    <3>3. \A s \in Small(S, m) : s # {} =>
            s \ {CHOOSE x \in s : TRUE} \in Small(S, m - 1)
      BY <3>1, OneLess DEF Small
    <3>4. \A s \in Small(S, m - 1) : s \in Small(S, m) /\ h[s] = g[s]
      <4> SUFFICES ASSUME NEW s \in Small(S, m - 1)
                   PROVE  s \in Small(S, m) /\ h[s] = g[s]
        OBVIOUS
      <4>1. s \in Small(S, m)
        <5>1. s \in SUBSET S /\ Cardinality(s) <= m - 1
          BY DEF Small
        <5>2. Cardinality(s) \in Nat
          BY <5>1, FS_Subset, FS_CardinalityType
        <5> QED
          BY <5>1, <5>2, <3>1 DEF Small
      <4>2. g[s] = IF s = {} THEN 0
                   ELSE f[CHOOSE x \in s : TRUE] + g[s \ {CHOOSE x \in s : TRUE}]
        BY <3>2 DEF Tallies
      <4> QED
        BY <4>1, <4>2
    <3>5. Tallies(h, f, Small(S, m))
      <4> DEFINE next(q, s) == IF s = {} THEN 0
                               ELSE f[CHOOSE x \in s : TRUE]
                                      + q[s \ {CHOOSE x \in s : TRUE}]
      <4>1. h = [s \in Small(S, m) |-> next(g, s)]
        OBVIOUS
      <4> HIDE DEF h
      <4>2. ASSUME NEW s \in Small(S, m) PROVE next(g, s) = next(h, s)
        <5>1. CASE s = {}
          BY <5>1
        <5>2. CASE s # {}
          <6>1. h[s \ {CHOOSE x \in s : TRUE}] = g[s \ {CHOOSE x \in s : TRUE}]
            BY <3>3, <3>4, <5>2
          <6> QED
            BY <6>1
        <5> QED
          BY <5>1, <5>2
      <4> HIDE DEF next
      <4>3. h = [s \in Small(S, m) |-> next(h, s)]
        BY <4>1, <4>2
      <4> QED
        BY <4>3 DEF Tallies, next
    <3> HIDE DEF h
    <3> QED
      BY <2>1, <3>5
  <2> QED
    BY <2>1, <2>2, <2>3
<1>2. Cardinality(S) \in Nat /\ P(Cardinality(S))
  BY <1>1, FS_CardinalityType
<1>3. Small(S, Cardinality(S)) = SUBSET S
  BY FS_Subset DEF Small
<1> QED
  BY <1>2, <1>3

(* SumFunctionOnSet is read off such a table. *)
LEMMA SumByTallies ==
  ASSUME NEW S, IsFiniteSet(S), NEW f
  PROVE  \E g : Tallies(g, f, SUBSET S) /\ SumFunctionOnSet(f, S) = g[S]
<1> DEFINE G == CHOOSE g : Tallies(g, f, SUBSET S)
<1>1. Tallies(G, f, SUBSET S)
  BY TalliesExist
<1>2. SumFunctionOnSet(f, S) = G[S]
  BY DEF SumFunctionOnSet, FoldFunctionOnSet, MapThenFoldSet, Tallies
<1> HIDE DEF G
<1> QED
  BY <1>1, <1>2

(* The sum of nothing but zeros. *)
LEMMA SumOfZeros ==
  ASSUME NEW S, IsFiniteSet(S), NEW f, \A x \in S : f[x] = 0
  PROVE  SumFunctionOnSet(f, S) = 0
<1>1. PICK g : Tallies(g, f, SUBSET S) /\ SumFunctionOnSet(f, S) = g[S]
  BY SumByTallies
<1> DEFINE T == {n \in Nat : \E s \in SUBSET S : Cardinality(s) = n /\ g[s] # 0}
<1>2. T = {}
  <2> SUFFICES ASSUME T # {} PROVE FALSE
    OBVIOUS
  <2>1. Min(T) \in T /\ \A n \in T : Min(T) <= n
    BY LeastNumber
  <2>2. PICK s \in SUBSET S : Cardinality(s) = Min(T) /\ g[s] # 0
    BY <2>1
  <2>3. g[s] = IF s = {} THEN 0
               ELSE f[CHOOSE x \in s : TRUE] + g[s \ {CHOOSE x \in s : TRUE}]
    BY <1>1 DEF Tallies
  <2> DEFINE x == CHOOSE x \in s : TRUE
  <2>4. /\ x \in s /\ s \ {x} \in SUBSET S /\ Cardinality(s \ {x}) \in Nat
        /\ Cardinality(s \ {x}) = Cardinality(s) - 1 /\ Cardinality(s) \in Nat
    BY <2>2, <2>3, OneLess
  <2>5. g[s] = f[x] + g[s \ {x}]
    BY <2>2, <2>3
  <2> HIDE DEF x
  <2>6. g[s \ {x}] = 0
    BY <2>1, <2>2, <2>4
  <2> QED
    BY <2>2, <2>4, <2>5, <2>6
<1> QED
  BY <1>1, <1>2, FS_CardinalityType

(* Raising one value raises the sum by as much. *)
LEMMA SumGrows ==
  ASSUME NEW S, IsFiniteSet(S), NEW f \in [S -> Nat], NEW k \in S, NEW d \in Nat
  PROVE  SumFunctionOnSet([f EXCEPT ![k] = @ + d], S) = SumFunctionOnSet(f, S) + d
<1> DEFINE e == [f EXCEPT ![k] = @ + d]
<1>1. PICK g : Tallies(g, f, SUBSET S) /\ SumFunctionOnSet(f, S) = g[S]
  BY SumByTallies
<1>2. PICK h : Tallies(h, e, SUBSET S) /\ SumFunctionOnSet(e, S) = h[S]
  BY SumByTallies
<1> DEFINE Right(s) == g[s] \in Nat /\ h[s] = IF k \in s THEN g[s] + d ELSE g[s]
           T == {n \in Nat : \E s \in SUBSET S : Cardinality(s) = n /\ ~Right(s)}
<1>3. T = {}
  <2> SUFFICES ASSUME T # {} PROVE FALSE
    OBVIOUS
  <2>1. Min(T) \in T /\ \A n \in T : Min(T) <= n
    BY LeastNumber
  <2>2. PICK s \in SUBSET S : Cardinality(s) = Min(T) /\ ~Right(s)
    BY <2>1
  <2> DEFINE x == CHOOSE x \in s : TRUE
  <2>3. /\ g[s] = IF s = {} THEN 0 ELSE f[x] + g[s \ {x}]
        /\ h[s] = IF s = {} THEN 0 ELSE e[x] + h[s \ {x}]
    BY <1>1, <1>2 DEF Tallies
  <2>4. s # {}
    BY <2>2, <2>3
  <2>5. /\ x \in s /\ s \ {x} \in SUBSET S /\ Cardinality(s \ {x}) \in Nat
        /\ Cardinality(s \ {x}) = Cardinality(s) - 1 /\ Cardinality(s) \in Nat
    BY <2>4, OneLess
  <2> HIDE DEF x
  <2>6. Right(s \ {x})
    BY <2>1, <2>2, <2>5
  <2>7. f[x] \in Nat /\ e[x] = IF x = k THEN f[x] + d ELSE f[x]
    BY <2>5
  <2>8. Right(s)
    BY <2>3, <2>4, <2>5, <2>6, <2>7
  <2> QED
    BY <2>2, <2>8
<1>4. Right(S)
  BY <1>3, FS_CardinalityType
<1> QED
  BY <1>1, <1>2, <1>4

(* At first nobody was charged. *)
LEMMA InitTotal == Init /\ IsFiniteSet(Consumers) => GlobalSpendingKept
<1> SUFFICES ASSUME Init, IsFiniteSet(Consumers) PROVE GlobalSpendingKept
  OBVIOUS
<1>1. DOMAIN ledger = Consumers /\ (\A x \in Consumers : ledger[x] = 0) /\ globalSpent = 0
  BY DEF Init
<1>2. SumFunctionOnSet(ledger, Consumers) = 0
  BY <1>1, SumOfZeros
<1> QED
  BY <1>1, <1>2 DEF GlobalSpendingKept, SumFunction

(* A charge goes to one consumer and to the total. *)
LEMMA NextTotal ==
  ASSUME IsFiniteSet(Consumers), IInv, GlobalSpendingKept, [Next]_vars
  PROVE  GlobalSpendingKept'
<1>1. ledger \in [Consumers -> Nat] /\ DOMAIN ledger = Consumers
  BY DEF IInv, Amounts
<1>2. CASE UNCHANGED <<globalSpent, ledger>>
  BY <1>2 DEF GlobalSpendingKept
<1>3. ASSUME NEW c \in Callers, NEW cost \in 0..MaxCost, Add(c, cost), cost # 0, Enabled
      PROVE  GlobalSpendingKept'
  <2>1. PICK k \in Consumers : Charge(k, cost)
    BY <1>3 DEF Add, IInv, Amounts
  <2>2. /\ globalSpent' = globalSpent + cost /\ cost \in Nat
        /\ ledger' = [ledger EXCEPT ![k] = @ + cost] /\ DOMAIN ledger' = Consumers
    BY <2>1, <1>1, SizeAssumption DEF Charge, GlobalTotal
  <2>3. SumFunctionOnSet([ledger EXCEPT ![k] = @ + cost], Consumers)
          = SumFunctionOnSet(ledger, Consumers) + cost
    <3>1. cost \in Nat
      BY <2>2
    <3> QED
      BY <1>1, <3>1, SumGrows
  <2> QED
    BY <1>1, <2>2, <2>3 DEF GlobalSpendingKept, SumFunction
<1> QED
  BY <1>2, <1>3 DEF Next, Check, Refuse, Add, vars

(* The global total is what all consumers together were charged, evicted   *)
(* or not: no money that a cap counts is forgotten.  Names are finitely    *)
(* many, as they are at any time.                                          *)
THEOREM SpendingIsKept == IsFiniteSet(Consumers) /\ Spec => []SpendingKept
<1> SUFFICES ASSUME IsFiniteSet(Consumers) PROVE Spec => []SpendingKept
  OBVIOUS
<1>1. Init => GlobalSpendingKept
  BY InitTotal
<1>2. IInv /\ GlobalSpendingKept /\ [Next]_vars => GlobalSpendingKept'
  BY NextTotal
<1>3. GlobalSpendingKept /\ CappedSpendingKept => SpendingKept
  BY DEF SpendingKept
<1> QED
  BY <1>1, <1>2, <1>3, Invariance, CappedKept, PTL DEF Spec
============================================================================
