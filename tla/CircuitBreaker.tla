-------------------------- MODULE CircuitBreaker --------------------------
(***************************************************************************)
(* The per-provider record of agent_ctl/core/circuit.py as a data type.    *)
(*                                                                         *)
(* CircuitBreaker keeps three dictionaries keyed by provider: _fails,      *)
(* _opened_at and _probe_at.  Providers never touch each other's entries,  *)
(* so a breaker is the record of one provider's entries.  Every method     *)
(* runs under one lock, so each is one operator on that record.            *)
(*                                                                         *)
(* The code only ever compares now - opened_at and now - probe_at with the *)
(* cooldown.  The record therefore keeps the time elapsed since each       *)
(* stamp, saturated at Cooldown: the stamp "now" is an elapsed time of 0.  *)
(* None is the missing dictionary entry.                                   *)
(***************************************************************************)
EXTENDS Integers

CONSTANTS Threshold,    \* failure_threshold; 0 disables the breaker
          Cooldown,     \* cooldown_s in clock ticks; 0 disables the breaker
          None          \* no entry in the dictionary

ASSUME BreakerAssumption == /\ Threshold \in Nat
                            /\ Cooldown \in Nat
                            /\ None \notin Int

Elapsed == 0..Cooldown

Breaker == [fails    : Nat,
            openFor  : Elapsed \cup {None},
            probeFor : Elapsed \cup {None}]

Closed == [fails |-> 0, openFor |-> None, probeFor |-> None]

Enabled == Threshold > 0 /\ Cooldown > 0

IsOpen(b) == b.openFor # None

HasProbe(b) == b.probeFor # None

(* Faulty: a slot whose probe never reports is held for ever. *)
ProbeInFlightForever(b) == HasProbe(b)

(* A slot is live until a cooldown has passed without a report. *)
ProbeInFlight(b) == HasProbe(b) /\ b.probeFor < Cooldown

Cooling(b) == IsOpen(b) /\ b.openFor < Cooldown

(* Faulty: half-open lets every caller in. *)
GrantedWithoutSlot(b) == ~Enabled \/ ~IsOpen(b) \/ ~Cooling(b)

(* What allow() answers ... *)
Granted(b) ==
  \/ ~Enabled
  \/ ~IsOpen(b)
  \/ ~Cooling(b) /\ ~ProbeInFlight(b)

(* ... and what it leaves behind when the answer is True. *)
AfterAllow(b) ==
  IF Enabled /\ IsOpen(b) THEN [b EXCEPT !.probeFor = 0] ELSE b

(* Faulty: the slot outlives the circuit it belonged to. *)
AfterSuccessKeepingSlot(b) ==
  IF Enabled THEN [b EXCEPT !.fails = 0, !.openFor = None] ELSE b

(* Faulty: the failures counted so far survive a success. *)
AfterSuccessKeepingCount(b) ==
  IF Enabled THEN [b EXCEPT !.openFor = None, !.probeFor = None] ELSE b

AfterSuccess(b) == IF Enabled THEN Closed ELSE b

AfterFailure(b) ==
  IF ~Enabled THEN b
  ELSE IF HasProbe(b)
  THEN [fails |-> Threshold, openFor |-> 0, probeFor |-> None]
  ELSE [b EXCEPT !.fails = @ + 1,
                 !.openFor = IF b.fails + 1 >= Threshold THEN 0 ELSE @]

(* One clock tick: every stamp grows one tick older. *)
Older(t) == IF t = None \/ t = Cooldown THEN t ELSE t + 1

Elapse(b) == [b EXCEPT !.openFor = Older(@), !.probeFor = Older(@)]
============================================================================
