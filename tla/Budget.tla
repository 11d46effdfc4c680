------------------------------- MODULE Budget -------------------------------
(***************************************************************************)
(* BudgetGuard of agent_ctl/core/budget.py and the concurrent calls it     *)
(* governs.                                                                *)
(*                                                                         *)
(* A call is checked before it goes to a provider and charged after it     *)
(* came back.  Nothing is held in between: check() only compares what has  *)
(* been charged, plus the cost of the consumer's last call, with the caps. *)
(*                                                                         *)
(* Costs are natural numbers (units of the smallest price).  A consumer    *)
(* missing from the _spent or _last_cost dictionary reads as 0, and        *)
(* add() never stores a 0, so both are functions on Consumers that are 0   *)
(* where the dictionary has no entry; order is the key order of the        *)
(* OrderedDict _spent, oldest first.                                       *)
(***************************************************************************)
EXTENDS Integers, Sequences, FiniteSets, SequencesExt

CONSTANTS Callers,       \* threads that may have one call in flight each
          Consumers,     \* the names calls are charged to
          Cap,           \* per_consumer: a cap for some of the consumers
          GlobalCap,     \* global_cap, or None
          MaxConsumers,  \* how many consumers are tracked
          MaxCost,       \* the most one call can cost
          None

ASSUME CallersAssumption == IsFiniteSet(Callers) /\ Callers # {}
ASSUME CapAssumption ==
  /\ DOMAIN Cap \subseteq Consumers
  /\ \A k \in DOMAIN Cap : Cap[k] \in Nat
  /\ GlobalCap \in Nat \cup {None}
  /\ None \notin Nat \cup Consumers
ASSUME SizeAssumption == MaxConsumers \in Nat /\ MaxCost \in Nat \ {0}

VARIABLES spent,         \* _spent
          lastCost,      \* _last_cost
          order,         \* the consumers tracked, least recently charged first
          globalSpent,   \* _global_spent
          inFlight,      \* per caller: whom its checked, uncharged call is for
          ledger         \* history: what each consumer was ever charged

vars == <<spent, lastCost, order, globalSpent, inFlight, ledger>>

Capped == DOMAIN Cap

Enabled == Capped # {} \/ GlobalCap # None

InFlightFor(k) == {c \in Callers : inFlight[c] = k}

AllInFlight == {c \in Callers : inFlight[c] # None}

TypeOK ==
  /\ spent \in [Consumers -> Nat]
  /\ lastCost \in [Consumers -> 0..MaxCost]
  /\ globalSpent \in Nat
  /\ inFlight \in [Callers -> Consumers \cup {None}]
  /\ ledger \in [Consumers -> Nat]
  /\ order \in Seq(Consumers) /\ IsInjective(order)
  /\ \A k \in Consumers : /\ spent[k] > 0 <=> k \in ToSet(order)
                          /\ lastCost[k] > 0 <=> k \in ToSet(order)

Init ==
  /\ spent = [k \in Consumers |-> 0]
  /\ lastCost = [k \in Consumers |-> 0]
  /\ order = <<>>
  /\ globalSpent = 0
  /\ inFlight = [c \in Callers |-> None]
  /\ ledger = [k \in Consumers |-> 0]

(* Faulty: with a global cap the consumer's own cap is not looked at. *)
RefusedByGlobalCap(k) ==
  IF GlobalCap # None
  THEN globalSpent + lastCost[k] >= GlobalCap
  ELSE k \in Capped /\ spent[k] + lastCost[k] >= Cap[k]

(* check() raises BudgetExceeded. *)
Refused(k) ==
  \/ k \in Capped /\ spent[k] + lastCost[k] >= Cap[k]
  \/ GlobalCap # None /\ globalSpent + lastCost[k] >= GlobalCap

(* BudgetExceeded: the call ends where it began. *)
Refuse(c, k) ==
  /\ inFlight[c] = None
  /\ Refused(k)
  /\ UNCHANGED vars

(* A call for k passes check() and is sent to a provider. *)
Check(c, k) ==
  /\ inFlight[c] = None
  /\ ~Refused(k)
  /\ inFlight' = [inFlight EXCEPT ![c] = k]
  /\ UNCHANGED <<spent, lastCost, order, globalSpent, ledger>>

(* Faulty: a charged consumer that is already tracked is listed again. *)
TouchedTwice(k) == Append(order, k)

(* move_to_end: k becomes the most recently charged consumer. *)
Touched(k) == Append(RemoveFirst(order, k), k)

(* Faulty: plain LRU, a configured cap does not protect its consumer. *)
KeptOldest(o) == IF Len(o) > MaxConsumers THEN Tail(o) ELSE o

(* Positions of consumers without a cap. *)
Evictable(o) == {i \in DOMAIN o : o[i] \notin Capped}

(* Faulty: eviction starts one entry late. *)
KeptLate(o) ==
  IF Len(o) > MaxConsumers + 1 /\ Evictable(o) # {}
  THEN RemoveAt(o, Min(Evictable(o))) ELSE o

(* _evict_locked: beyond the limit the oldest consumer without a cap goes, *)
(* if there is one.  A charge lists one consumer more at most, so the loop *)
(* evicts one at most; TrackedBounded is the condition on which it ends.   *)
Kept(o) ==
  IF Len(o) > MaxConsumers /\ Evictable(o) # {}
  THEN RemoveAt(o, Min(Evictable(o))) ELSE o

GlobalTotal(k, cost) == globalSpent + cost

(* add(): the entry of k is charged and moved to the end, and what is      *)
(* evicted is dropped from both dictionaries.                              *)
Charge(k, cost) ==
  LET victims == ToSet(Touched(k)) \ ToSet(Kept(Touched(k))) IN
  /\ spent' = [x \in Consumers |-> IF x \in victims THEN 0
                                   ELSE IF x = k THEN spent[x] + cost
                                   ELSE spent[x]]
  /\ lastCost' = [x \in Consumers |-> IF x \in victims THEN 0
                                      ELSE IF x = k THEN cost
                                      ELSE lastCost[x]]
  /\ order' = Kept(Touched(k))
  /\ globalSpent' = GlobalTotal(k, cost)
  /\ ledger' = [ledger EXCEPT ![k] = @ + cost]

(* A call ends: its cost is charged.  A call without a known price, one    *)
(* that failed, or one that left no record at all, is charged nothing.     *)
Add(c, cost) ==
  /\ inFlight[c] # None
  /\ inFlight' = [inFlight EXCEPT ![c] = None]
  /\ IF Enabled /\ cost # 0
     THEN Charge(inFlight[c], cost)
     ELSE UNCHANGED <<spent, lastCost, order, globalSpent, ledger>>

Next ==
  \E c \in Callers :
    \/ \E k \in Consumers : Check(c, k) \/ Refuse(c, k)
    \/ \E cost \in 0..MaxCost : Add(c, cost)

Spec == Init /\ [][Next]_vars
----------------------------------------------------------------------------
(* The spending of a consumer with a cap is never forgotten: whatever is   *)
(* evicted, its entry is the sum of everything it was charged.             *)
CappedSpendingKept == \A k \in Capped : spent[k] = ledger[k]

(* The global total counts every charge, evicted consumers' included.      *)
GlobalSpendingKept == globalSpent = SumFunction(ledger)

(* No money that a cap counts is forgotten, whoever is evicted when.       *)
SpendingKept == CappedSpendingKept /\ GlobalSpendingKept

(* A client that invents consumer names cannot grow the tables: beyond the *)
(* limit only consumers named in the configuration are tracked.            *)
TrackedBounded == Len(order) <= MaxConsumers \/ ToSet(order) \subseteq Capped

(* How far concurrency lets spending pass a consumer's cap: by less than   *)
(* the most that all callers together can have in flight.                  *)
CapOvershoot ==
  \A k \in Capped : spent[k] < Cap[k] + MaxCost * Cardinality(Callers)

(* The same bound for the cap on all consumers together. *)
GlobalOvershoot ==
  GlobalCap # None =>
    globalSpent < GlobalCap + MaxCost * Cardinality(Callers)

(* However checks and charges of concurrent calls interleave, no cap is    *)
(* passed by more than what was in flight.                                 *)
OvershootBounded == CapOvershoot /\ GlobalOvershoot
============================================================================
