---------------------------- MODULE GatewayProofs ----------------------------
(***************************************************************************)
(* One true record of every call, a reason for every fallback, and the     *)
(* budget and the breakers used as Budget and Circuit ask, for any         *)
(* threads, routes, retries and deadline.                                  *)
(***************************************************************************)
EXTENDS Gateway, FiniteSetTheorems, TLAPS

Statuses == {"none", "validation", "cached", "budget", "routing", "provider",
             "pricing", "all_failed", "terminal", "success", "fallback_success",
             "untyped"}

Attempt == [target : Nat, outcome : Outcomes]

CallRec ==
  [at : Stages, op : {"invoke", "embed"}, consumer : Consumers \cup {None},
   key : Keys \cup {None}, route : Seq(Providers), target : Nat, try : Nat,
   elapsed : Nat, role : {"idle", "normal", "probe"}, age : Nat,
   log : Seq(Attempt), status : Statuses, records : Nat]

(* Nothing in the log has decided the call yet. *)
Open(log) == \A n \in DOMAIN log : log[n].outcome \notin {"success", "terminal"}

(* The last attempt, at the current target, has. *)
Decided(c, outcome) ==
  c.log # <<>> /\ c.log[Len(c.log)] = [target |-> c.target, outcome |-> outcome]

(* What a call's log says at the stage it has reached. *)
LogOK(c) ==
  /\ c.at \in {"idle", "cache", "budget", "route"} => Open(c.log)
  /\ c.at \in {"target", "circuit", "attempt", "calling", "exhausted"} =>
       c.target >= 1 /\ Open(c.log)
  /\ c.at \in {"succeeded", "store", "record"} =>
       c.target >= 1 /\ Decided(c, "success")
  /\ c.at = "terminal" => Decided(c, "terminal")
  /\ c.at = "returned" =>
       /\ c.status = "success" => c.target = 1 /\ Decided(c, "success")
       /\ c.status = "fallback_success" => c.target > 1 /\ Decided(c, "success")
       /\ c.status = "terminal" => Decided(c, "terminal")
       /\ c.status = "all_failed" => Open(c.log)

CallOK(c) ==
  /\ c \in CallRec
  /\ c.at \in Governed \cup {"budget", "cache"} => c.consumer \in Consumers
  /\ c.records = IF c.at = "returned" /\ c.status # "untyped" THEN 1 ELSE 0
  /\ LogOK(c)

IInv ==
  /\ call \in [Threads -> CallRec]
  /\ \A t \in Threads : CallOK(call[t])

(* A step of a call that was not checked does not put it under the budget, *)
(* and one of a call that was keeps it there for the same consumer, or     *)
(* takes it away for good.                                                 *)
Onward(c, d) ==
  d.at \in Governed => c.at \in Governed /\ d.consumer = c.consumer

Moves(t, d) ==
  Update(t, d) /\ CallOK(d) /\ Onward(call[t], d) /\ UNCHANGED budgetVars
----------------------------------------------------------------------------
(* What appending an attempt does to a log. *)
LEMMA Appending ==
  ASSUME NEW log \in Seq(Attempt), NEW a \in Attempt
  PROVE  /\ Append(log, a) \in Seq(Attempt)
         /\ Append(log, a) # <<>>
         /\ Append(log, a)[Len(Append(log, a))] = a
         /\ Open(log) /\ a.outcome \notin {"success", "terminal"} =>
              Open(Append(log, a))
  BY DEF Open

(* What Logged changes of a call: its log, and that the outcome is now its last. *)
LEMMA LoggedIs ==
  ASSUME NEW c \in CallRec, NEW outcome \in Outcomes
  PROVE  /\ Logged(c, outcome) \in CallRec
         /\ Logged(c, outcome).at = c.at
         /\ Logged(c, outcome).target = c.target
         /\ Logged(c, outcome).consumer = c.consumer
         /\ Logged(c, outcome).status = c.status
         /\ Logged(c, outcome).records = c.records
         /\ Decided(Logged(c, outcome), outcome)
         /\ Open(c.log) /\ outcome \notin {"success", "terminal"} =>
              Open(Logged(c, outcome).log)
<1> DEFINE a == [target |-> c.target, outcome |-> outcome]
<1>1. a \in Attempt /\ c.log \in Seq(Attempt)
  BY DEF Attempt, CallRec
<1>2. Logged(c, outcome) \in CallRec /\ Logged(c, outcome).log = Append(c.log, a)
  BY <1>1, Appending DEF Logged, CallRec
<1>3. /\ Logged(c, outcome).at = c.at
      /\ Logged(c, outcome).target = c.target
      /\ Logged(c, outcome).consumer = c.consumer
      /\ Logged(c, outcome).status = c.status
      /\ Logged(c, outcome).records = c.records
  BY DEF Logged, CallRec
<1> QED
  BY <1>1, <1>2, <1>3, Appending DEF Decided

(* What Recorded changes of a call: it returns with one record more. *)
LEMMA RecordedIs ==
  ASSUME NEW c \in CallRec, NEW status \in Statuses
  PROVE  /\ Recorded(c, status) \in CallRec
         /\ Recorded(c, status).at = "returned"
         /\ Recorded(c, status).target = c.target
         /\ Recorded(c, status).log = c.log
         /\ Recorded(c, status).status = status
         /\ Recorded(c, status).records = c.records + 1
<1> DEFINE d == Recorded(c, status)
<1>1. /\ d.at = "returned" /\ d.role = "idle" /\ d.status = status
      /\ d.records = c.records + 1
      /\ d.log = c.log /\ d.target = c.target
  BY DEF Recorded, CallRec
<1>2. d \in CallRec
  <2>1. "returned" \in Stages
    BY DEF Stages
  <2>2. c.records + 1 \in Nat
    BY DEF CallRec
  <2> QED
    BY <2>1, <2>2 DEF Recorded, CallRec
<1> QED
  BY <1>1, <1>2

(* What going to the next target changes of a call. *)
LEMMA NextTargetIs ==
  ASSUME NEW c \in CallRec
  PROVE  /\ NextTarget(c) \in CallRec
         /\ NextTarget(c).at = "target"
         /\ NextTarget(c).target = c.target + 1
         /\ NextTarget(c).consumer = c.consumer
         /\ NextTarget(c).log = c.log
         /\ NextTarget(c).records = c.records
<1> DEFINE d == NextTarget(c)
<1>1. /\ d.at = "target" /\ d.target = c.target + 1
      /\ d.consumer = c.consumer
      /\ d.log = c.log /\ d.records = c.records
  BY DEF NextTarget, CallRec
<1>2. d \in CallRec
  <2>1. "target" \in Stages
    BY DEF Stages
  <2>2. c.target + 1 \in Nat
    BY DEF CallRec
  <2> QED
    BY <2>1, <2>2 DEF NextTarget, CallRec
<1> QED
  BY <1>1, <1>2

(* A call that only moves to another stage is otherwise the same. *)
LEMMA MovedIs ==
  ASSUME NEW c \in CallRec, NEW at \in Stages
  PROVE  LET d == [c EXCEPT !.at = at] IN
         /\ d \in CallRec
         /\ d.at = at
         /\ d.target = c.target /\ d.consumer = c.consumer /\ d.status = c.status
         /\ d.log = c.log /\ d.records = c.records
  BY DEF CallRec

(* A record written with the status its log calls for leaves the call in order. *)
LEMMA RecordedOK ==
  ASSUME NEW c \in CallRec, NEW status \in Statuses \ {"untyped"},
         c.records = 0,
         \/ status \notin {"success", "fallback_success", "terminal", "all_failed"}
         \/ status = "all_failed" /\ Open(c.log)
         \/ status = "terminal" /\ Decided(c, "terminal")
         \/ status = "success" /\ c.target = 1 /\ Decided(c, "success")
         \/ status = "fallback_success" /\ c.target > 1 /\ Decided(c, "success")
  PROVE  CallOK(Recorded(c, status)) /\ Onward(c, Recorded(c, status))
<1> DEFINE d == Recorded(c, status)
<1>1. /\ d \in CallRec /\ d.at = "returned" /\ d.status = status
      /\ d.target = c.target /\ d.log = c.log /\ d.records = 1
  BY RecordedIs
<1> HIDE DEF d
<1>2. LogOK(d)
  BY <1>1 DEF LogOK, Decided
<1>3. CallOK(d) /\ Onward(c, d)
  BY <1>1, <1>2 DEF CallOK, Onward, Governed
<1> QED
  BY <1>3 DEF d

(* A call nothing has decided may go on to its next target. *)
LEMMA NextTargetOK ==
  ASSUME NEW c \in CallRec, c.at \in Governed, c.consumer \in Consumers,
         c.records = 0, Open(c.log)
  PROVE  CallOK(NextTarget(c)) /\ Onward(c, NextTarget(c))
<1> DEFINE d == NextTarget(c)
<1>1. /\ d \in CallRec /\ d.at = "target" /\ d.target = c.target + 1
      /\ d.consumer = c.consumer /\ d.log = c.log /\ d.records = 0
  BY NextTargetIs
<1>2. d.target >= 1
  <2>1. c.target \in Nat
    BY DEF CallRec
  <2> QED
    BY <1>1, <2>1
<1> HIDE DEF d
<1>3. LogOK(d)
  BY <1>1, <1>2 DEF LogOK
<1>4. CallOK(d) /\ Onward(c, d)
  BY <1>1, <1>3 DEF CallOK, Onward
<1> QED
  BY <1>4 DEF d

(* A call that stays between its check and its end stays in order. *)
LEMMA StaysOK ==
  ASSUME NEW c, CallOK(c), c.at \in Governed,
         NEW d \in CallRec, d.at \in Governed, LogOK(d),
         d.consumer = c.consumer, d.records = c.records
  PROVE  CallOK(d) /\ Onward(c, d)
  BY DEF CallOK, Onward, Governed

(* The steps of a call other than the check and the charge. *)
LEMMA StepMoves ==
  ASSUME IInv, NEW t \in Threads, Step(t), ~BudgetCheck(t), ~RecordSuccess(t)
  PROVE  \E d : Moves(t, d)
<1> DEFINE c == call[t]
<1>c. c \in CallRec /\ CallOK(c)
  BY DEF IInv
<1> HIDE DEF c
<1>g. c.at \in Governed => c.records = 0 /\ c.consumer \in Consumers
  BY <1>c DEF CallOK, Governed
<1>s. /\ {"target", "circuit", "attempt", "calling", "succeeded", "terminal",
          "exhausted", "record"} \subseteq Governed
      /\ Governed \subseteq Stages /\ "budget" \in Stages
      /\ "returned" \in Stages
  BY DEF Governed, Stages
<1>l. {"deadline", "circuit_open", "no_embed", "retriable", "success", "terminal"}
        \subseteq Outcomes
  BY DEF Outcomes
<1>1. CASE CacheGet(t)
  <2>1. c.at = "cache" /\ c.records = 0 /\ UNCHANGED budgetVars
    BY <1>1, <1>c DEF CacheGet, CallOK, c
  <2>2. CASE c.key \in cached
    <3>1. Update(t, Recorded(c, "cached"))
      BY <1>1, <2>2 DEF CacheGet, c
    <3> QED
      BY <3>1, <2>1, <1>c, RecordedOK DEF Moves, Statuses, c
  <2>3. CASE c.key \notin cached
    <3> DEFINE d == [c EXCEPT !.at = "budget"]
    <3>1. Update(t, d)
      BY <1>1, <2>3 DEF CacheGet, c
    <3>2. /\ d \in CallRec /\ d.at = "budget" /\ d.consumer = c.consumer
          /\ d.log = c.log /\ d.records = 0
      BY <2>1, <1>c, <1>s, MovedIs
    <3> HIDE DEF d
    <3>3. c.consumer \in Consumers /\ Open(c.log)
      BY <2>1, <1>c DEF CallOK, LogOK
    <3>4. CallOK(d) /\ Onward(c, d)
      BY <3>2, <3>3 DEF CallOK, LogOK, Onward, Governed
    <3> QED
      BY <3>1, <3>4, <2>1 DEF Moves, c
  <2> QED
    BY <2>2, <2>3
<1>2. CASE Resolve(t)
  <2>1. c.at = "route" /\ UNCHANGED budgetVars
    BY <1>2 DEF Resolve, c
  <2>2. CASE c.route = Unroutable
    <3>1. Update(t, Recorded(c, "routing"))
      BY <1>2, <2>2 DEF Resolve, c
    <3>2. c.records = 0
      BY <2>1, <1>c DEF CallOK
    <3> QED
      BY <3>1, <3>2, <2>1, <1>c, RecordedOK DEF Moves, Statuses, c
  <2>3. CASE c.route # Unroutable
    <3> DEFINE d == [c EXCEPT !.at = "target", !.target = 1]
    <3>1. Update(t, d)
      BY <1>2, <2>3 DEF Resolve, c
    <3>2. /\ d.at = "target" /\ d.target = 1 /\ d.consumer = c.consumer
          /\ d.log = c.log /\ d.records = c.records
      BY <1>c DEF CallRec
    <3>3. d \in CallRec
      BY <1>c, <1>s DEF CallRec
    <3> HIDE DEF d
    <3>4. c.consumer \in Consumers /\ Open(c.log) /\ c.records = 0 /\ c.at \in Governed
      BY <2>1, <1>c DEF CallOK, LogOK, Governed
    <3>5. CallOK(d) /\ Onward(c, d)
      BY <3>2, <3>3, <3>4 DEF CallOK, LogOK, Onward
    <3> QED
      BY <3>1, <3>5, <2>1 DEF Moves, c
  <2> QED
    BY <2>2, <2>3
<1>3. CASE AllFailed(t)
  <2>1. /\ c.at = "target" /\ UNCHANGED budgetVars
        /\ Update(t, Recorded(c, "all_failed"))
    BY <1>3 DEF AllFailed, c
  <2>2. c.records = 0 /\ Open(c.log)
    BY <2>1, <1>c DEF CallOK, LogOK
  <2> QED
    BY <2>1, <2>2, <1>c, RecordedOK DEF Moves, Statuses, c
<1>4. CASE DeadlineBreak(t) \/ EmbedOutOfTime(t)
  <2> DEFINE d == Logged(c, "deadline")
  <2>1. /\ c.at \in {"target", "attempt"} /\ UNCHANGED budgetVars
        /\ Update(t, Recorded(d, "all_failed"))
    BY <1>4 DEF DeadlineBreak, EmbedOutOfTime, c
  <2>2. c.records = 0 /\ Open(c.log) /\ c.at \in Governed
    BY <2>1, <1>c DEF CallOK, LogOK, Governed
  <2>3. d \in CallRec /\ d.records = 0 /\ Open(d.log)
    BY <2>2, <1>c, <1>l, LoggedIs
  <2> HIDE DEF d
  <2>4. CallOK(Recorded(d, "all_failed"))
    BY <2>3, RecordedOK DEF Statuses
  <2>5. Onward(c, Recorded(d, "all_failed"))
    BY <2>3, RecordedIs DEF Statuses, Onward, Governed
  <2> QED
    BY <2>1, <2>4, <2>5 DEF Moves, c
<1>5. CASE Guards(t) \/ EmbedGuards(t)
  <2>1. /\ c.at = "target" /\ UNCHANGED budgetVars
        /\ \/ Update(t, Recorded(c, "provider"))
           \/ Update(t, Recorded(c, "pricing"))
           \/ Update(t, NextTarget(Logged(c, "no_embed")))
           \/ Update(t, [c EXCEPT !.at = "circuit"])
    BY <1>5 DEF Guards, EmbedGuards, c
  <2>2. c.records = 0 /\ Open(c.log) /\ c.at \in Governed /\ c.consumer \in Consumers
        /\ c.target >= 1
    BY <2>1, <1>c DEF CallOK, LogOK, Governed
  <2>3. /\ CallOK(Recorded(c, "provider")) /\ Onward(c, Recorded(c, "provider"))
        /\ CallOK(Recorded(c, "pricing")) /\ Onward(c, Recorded(c, "pricing"))
    BY <2>2, <1>c, RecordedOK DEF Statuses
  <2>4. CallOK(NextTarget(Logged(c, "no_embed"))) /\ Onward(c, NextTarget(Logged(c, "no_embed")))
    <3> DEFINE d == Logged(c, "no_embed")
    <3>1. /\ d \in CallRec /\ d.records = 0 /\ Open(d.log) /\ d.at = c.at
          /\ d.consumer = c.consumer
      BY <2>2, <1>c, <1>l, LoggedIs
    <3> HIDE DEF d
    <3>2. CallOK(NextTarget(d)) /\ Onward(d, NextTarget(d))
      BY <3>1, <2>2, NextTargetOK
    <3>3. Onward(c, NextTarget(d))
      BY <3>1, <3>2, <2>2 DEF Onward
    <3> QED
      BY <3>2, <3>3 DEF d
  <2>5. /\ CallOK([c EXCEPT !.at = "circuit"])
        /\ Onward(c, [c EXCEPT !.at = "circuit"])
    <3> DEFINE d == [c EXCEPT !.at = "circuit"]
    <3>1. /\ d \in CallRec /\ d.at = "circuit" /\ d.target = c.target /\ d.log = c.log
          /\ d.consumer = c.consumer /\ d.records = c.records
      BY <1>c, <1>s, MovedIs
    <3> HIDE DEF d
    <3>2. LogOK(d)
      BY <3>1, <2>2 DEF LogOK
    <3>3. CallOK(d) /\ Onward(c, d)
      BY <3>1, <3>2, <2>2, <1>c, <1>s, StaysOK
    <3> QED
      BY <3>3 DEF d
  <2> QED
    BY <2>1, <2>3, <2>4, <2>5 DEF Moves, c
<1>6. CASE CircuitBlocked(t)
  <2> DEFINE d == Logged(c, "circuit_open")
  <2>1. c.at = "circuit" /\ UNCHANGED budgetVars /\ Update(t, NextTarget(d))
    BY <1>6 DEF CircuitBlocked, c
  <2>2. c.records = 0 /\ Open(c.log) /\ c.at \in Governed /\ c.consumer \in Consumers
    BY <2>1, <1>c DEF CallOK, LogOK, Governed
  <2>3. /\ d \in CallRec /\ d.records = 0 /\ Open(d.log) /\ d.at = c.at
        /\ d.consumer = c.consumer
    BY <2>2, <1>c, <1>l, LoggedIs
  <2> HIDE DEF d
  <2>4. CallOK(NextTarget(d)) /\ Onward(d, NextTarget(d))
    BY <2>3, <2>2, NextTargetOK
  <2>5. Onward(c, NextTarget(d))
    BY <2>3, <2>4, <2>2 DEF Onward
  <2> QED
    BY <2>1, <2>4, <2>5 DEF Moves, c
<1>7. CASE CircuitAllow(t)
  <2> PICK role \in {"probe", "normal"} :
        /\ c.at = "circuit" /\ UNCHANGED budgetVars
        /\ Update(t, [c EXCEPT !.at = "attempt", !.age = 0, !.role = role])
    <3>1. /\ c.at = "circuit" /\ UNCHANGED budgetVars
          /\ Update(t, [c EXCEPT !.at = "attempt", !.age = 0,
               !.role = IF IsOpen(breakers[Provider(c)]) THEN "probe" ELSE "normal"])
      BY <1>7 DEF CircuitAllow, c
    <3> QED
      BY <3>1
  <2> DEFINE d == [c EXCEPT !.at = "attempt", !.age = 0, !.role = role]
  <2>1. /\ d.at = "attempt" /\ d.target = c.target /\ d.log = c.log
        /\ d.consumer = c.consumer /\ d.records = c.records
    BY <1>c DEF CallRec
  <2>2. d \in CallRec
    BY <1>c, <1>s DEF CallRec
  <2> HIDE DEF d
  <2>3. c.target >= 1 /\ Open(c.log) /\ c.at \in Governed
    BY <1>c DEF CallOK, LogOK, Governed
  <2>4. LogOK(d)
    BY <2>1, <2>3 DEF LogOK
  <2>5. CallOK(d) /\ Onward(c, d)
    BY <2>1, <2>2, <2>3, <2>4, <1>c, <1>s, StaysOK
  <2> QED
    BY <2>5 DEF Moves, c, d
<1>8. CASE OutOfTime(t) \/ ReportExhausted(t)
  <2>1. /\ c.at \in {"attempt", "exhausted"} /\ UNCHANGED budgetVars
        /\ Update(t, NextTarget(c))
    BY <1>8 DEF OutOfTime, ReportExhausted, c
  <2>2. c.records = 0 /\ Open(c.log) /\ c.at \in Governed /\ c.consumer \in Consumers
    BY <2>1, <1>c DEF CallOK, LogOK, Governed
  <2>3. CallOK(NextTarget(c)) /\ Onward(c, NextTarget(c))
    BY <2>2, <1>c, NextTargetOK
  <2> QED
    BY <2>1, <2>3 DEF Moves, c
<1>9. CASE CallProvider(t)
  <2> DEFINE d == [c EXCEPT !.at = "calling"]
  <2>1. c.at = "attempt" /\ UNCHANGED budgetVars /\ Update(t, d)
    BY <1>9 DEF CallProvider, c
  <2>2. /\ d \in CallRec /\ d.at = "calling" /\ d.target = c.target /\ d.log = c.log
        /\ d.consumer = c.consumer /\ d.records = c.records
    BY <1>c, <1>s, MovedIs
  <2> HIDE DEF d
  <2>3. c.target >= 1 /\ Open(c.log) /\ c.at \in Governed
    BY <2>1, <1>c DEF CallOK, LogOK, Governed
  <2>4. LogOK(d)
    BY <2>2, <2>3 DEF LogOK
  <2>5. CallOK(d) /\ Onward(c, d)
    BY <2>2, <2>3, <2>4, <1>c, <1>s, StaysOK
  <2> QED
    BY <2>1, <2>5 DEF Moves, c
<1>10. CASE ProviderReturns(t) \/ ProviderTerminal(t)
  <2> PICK outcome \in {"success", "terminal"}, at \in {"succeeded", "terminal"} :
        /\ c.at = "calling" /\ UNCHANGED budgetVars
        /\ at = "terminal" <=> outcome = "terminal"
        /\ Update(t, [Logged(c, outcome) EXCEPT !.at = at])
    BY <1>10 DEF ProviderReturns, ProviderTerminal, c
  <2> DEFINE e == Logged(c, outcome)
             d == [e EXCEPT !.at = at]
  <2>1. /\ e \in CallRec /\ e.at = c.at /\ e.consumer = c.consumer
        /\ e.records = c.records /\ e.target = c.target /\ Decided(e, outcome)
    BY <1>c, <1>l, LoggedIs
  <2> HIDE DEF e
  <2>2. /\ d \in CallRec /\ d.at = at /\ d.target = e.target /\ d.log = e.log
        /\ d.consumer = e.consumer /\ d.records = e.records
    BY <2>1, <1>s, MovedIs
  <2> HIDE DEF d
  <2>3. c.target >= 1 /\ c.at \in Governed
    BY <1>c DEF CallOK, LogOK, Governed
  <2>4. LogOK(d)
    BY <2>1, <2>2, <2>3 DEF LogOK, Decided
  <2>5. CallOK(d) /\ Onward(c, d)
    BY <2>1, <2>2, <2>3, <2>4, <1>c, <1>s, StaysOK
  <2> QED
    BY <2>5 DEF Moves, c, d, e
<1>11. CASE ProviderRetriable(t) \/ EmbedRetriable(t)
  <2> DEFINE e == Logged(c, "retriable")
  <2>1. /\ c.at = "calling" /\ UNCHANGED budgetVars
        /\ \/ Update(t, [e EXCEPT !.at = "attempt", !.try = @ + 1])
           \/ Update(t, [e EXCEPT !.at = "exhausted"])
    BY <1>11 DEF ProviderRetriable, EmbedRetriable, c
  <2>2. c.target >= 1 /\ c.at \in Governed /\ Open(c.log)
    BY <2>1, <1>c DEF CallOK, LogOK, Governed
  <2>3. /\ e \in CallRec /\ e.consumer = c.consumer /\ e.records = c.records
        /\ e.target = c.target /\ Open(e.log)
    BY <2>2, <1>c, <1>l, LoggedIs
  <2> HIDE DEF e
  <2>4. ASSUME NEW d \in CallRec, d.at \in {"attempt", "exhausted"},
               d.consumer = e.consumer, d.records = e.records,
               d.target = e.target, d.log = e.log
        PROVE  CallOK(d) /\ Onward(c, d)
    <3>1. LogOK(d)
      BY <2>2, <2>3, <2>4 DEF LogOK
    <3> QED
      BY <2>2, <2>3, <2>4, <3>1, <1>c, <1>s, StaysOK
  <2>5. CASE Update(t, [e EXCEPT !.at = "attempt", !.try = @ + 1])
    <3> DEFINE d == [e EXCEPT !.at = "attempt", !.try = @ + 1]
    <3>1. e.try + 1 \in Nat
      BY <2>3 DEF CallRec
    <3>2. /\ d.at = "attempt" /\ d.consumer = e.consumer /\ d.records = e.records
          /\ d.target = e.target /\ d.log = e.log
      BY <2>3 DEF CallRec
    <3>3. d \in CallRec
      BY <2>3, <3>1, <1>s DEF CallRec
    <3> HIDE DEF d
    <3>4. CallOK(d) /\ Onward(c, d)
      BY <3>2, <3>3, <2>4
    <3> QED
      BY <3>4, <2>1, <2>5 DEF Moves, c, d
  <2>6. CASE Update(t, [e EXCEPT !.at = "exhausted"])
    <3> DEFINE d == [e EXCEPT !.at = "exhausted"]
    <3>1. /\ d \in CallRec /\ d.at = "exhausted" /\ d.consumer = e.consumer
          /\ d.records = e.records /\ d.target = e.target /\ d.log = e.log
      BY <2>3, <1>s, MovedIs
    <3> HIDE DEF d
    <3>2. CallOK(d) /\ Onward(c, d)
      BY <3>1, <2>4
    <3> QED
      BY <3>2, <2>1, <2>6 DEF Moves, c, d
  <2> QED
    BY <2>1, <2>5, <2>6
<1>12. CASE ProviderUntyped(t)
  <2> DEFINE d == [c EXCEPT !.at = "returned", !.role = "idle", !.status = "untyped"]
  <2>1. c.at = "calling" /\ UNCHANGED budgetVars /\ Update(t, d)
    BY <1>12 DEF ProviderUntyped, c
  <2>2. d.at = "returned" /\ d.status = "untyped" /\ d.records = c.records
    BY <1>c DEF CallRec
  <2>3. d \in CallRec
    <3>1. "untyped" \in Statuses
      BY DEF Statuses
    <3> QED
      BY <1>c, <1>s, <3>1 DEF CallRec
  <2> HIDE DEF d
  <2>4. c.records = 0
    BY <2>1, <1>c DEF CallOK
  <2>5. CallOK(d) /\ Onward(c, d)
    BY <2>2, <2>3, <2>4 DEF CallOK, LogOK, Onward, Governed
  <2> QED
    BY <2>1, <2>5 DEF Moves, c
<1>13. CASE ReportTerminal(t)
  <2>1. /\ c.at = "terminal" /\ UNCHANGED budgetVars
        /\ Update(t, Recorded(c, "terminal"))
    BY <1>13 DEF ReportTerminal, c
  <2>2. c.records = 0 /\ Decided(c, "terminal")
    BY <2>1, <1>c DEF CallOK, LogOK
  <2> QED
    BY <2>1, <2>2, <1>c, RecordedOK DEF Moves, Statuses, c
<1>14. CASE ReportSuccess(t)
  <2> PICK at \in {"record", "store"} :
        /\ c.at = "succeeded" /\ UNCHANGED budgetVars
        /\ Update(t, [c EXCEPT !.at = at, !.role = "idle", !.age = 0])
    <3>1. /\ c.at = "succeeded" /\ UNCHANGED budgetVars
          /\ Update(t, [c EXCEPT !.at = IF c.key = None THEN "record" ELSE "store",
                                 !.role = "idle", !.age = 0])
      BY <1>14 DEF ReportSuccess, c
    <3> QED
      BY <3>1
  <2> DEFINE d == [c EXCEPT !.at = at, !.role = "idle", !.age = 0]
  <2>1. /\ d.at = at /\ d.target = c.target /\ d.log = c.log
        /\ d.consumer = c.consumer /\ d.records = c.records
    BY <1>c DEF CallRec
  <2>2. d \in CallRec
    <3>1. at \in Stages
      BY DEF Stages
    <3> QED
      BY <1>c, <3>1 DEF CallRec
  <2> HIDE DEF d
  <2>3. c.target >= 1 /\ Decided(c, "success") /\ c.at \in Governed /\ at \in Governed
    BY <1>c DEF CallOK, LogOK, Governed
  <2>4. LogOK(d)
    BY <2>1, <2>3 DEF LogOK, Decided
  <2>5. CallOK(d) /\ Onward(c, d)
    BY <2>1, <2>2, <2>3, <2>4, <1>c, StaysOK
  <2> QED
    BY <2>5 DEF Moves, c, d
<1>15. CASE CacheSet(t)
  <2> DEFINE d == [c EXCEPT !.at = "record"]
  <2>1. c.at = "store" /\ UNCHANGED budgetVars /\ Update(t, d)
    BY <1>15 DEF CacheSet, c
  <2>2. /\ d \in CallRec /\ d.at = "record" /\ d.target = c.target /\ d.log = c.log
        /\ d.consumer = c.consumer /\ d.records = c.records
    BY <1>c, <1>s, MovedIs
  <2> HIDE DEF d
  <2>3. c.target >= 1 /\ Decided(c, "success") /\ c.at \in Governed
    BY <2>1, <1>c DEF CallOK, LogOK, Governed
  <2>4. LogOK(d)
    BY <2>2, <2>3 DEF LogOK, Decided
  <2>5. CallOK(d) /\ Onward(c, d)
    BY <2>2, <2>3, <2>4, <1>c, <1>s, StaysOK
  <2> QED
    BY <2>1, <2>5 DEF Moves, c
<1> QED
  BY <1>1, <1>2, <1>3, <1>4, <1>5, <1>6, <1>7, <1>8, <1>9, <1>10, <1>11, <1>12,
     <1>13, <1>14, <1>15 DEF Step
----------------------------------------------------------------------------
(* A step of one thread, and what the budget sees of it. *)
LEMMA Updated ==
  ASSUME IInv, NEW t \in Threads, NEW d, Update(t, d)
  PROVE  /\ CallOK(d) => IInv'
         /\ InFlight' = [InFlight EXCEPT ![t] =
                           IF d.at \in Governed THEN d.consumer ELSE None]
         /\ InFlight[t] = IF call[t].at \in Governed THEN call[t].consumer ELSE None
<1>1. call' = [call EXCEPT ![t] = d] /\ call \in [Threads -> CallRec]
  BY DEF Update, IInv
<1>2. CallOK(d) => d \in CallRec
  BY DEF CallOK
<1>3. CallOK(d) => IInv'
  BY <1>1, <1>2 DEF IInv
<1> QED
  BY <1>1, <1>3 DEF InFlight

(* A call that moves as its stages allow keeps the invariant and is a step *)
(* of Budget, or a stutter.                                                *)
LEMMA MovesRefine ==
  ASSUME IInv, NEW t \in Threads, NEW d, Moves(t, d)
  PROVE  IInv' /\ [B!Next]_(B!vars)
<1>1. IInv'
  BY Updated DEF Moves
<1>2. CASE InFlight' = InFlight
  BY <1>1, <1>2 DEF Moves, budgetVars, B!vars
<1>3. CASE InFlight' # InFlight
  <2>1. /\ InFlight \in [Threads -> Consumers \cup {None}]
        /\ InFlight[t] # None => call[t].at \in Governed
        /\ call[t].at \in Governed => InFlight[t] # None
    BY GatewayAssumption DEF IInv, CallOK, InFlight
  <2>2. InFlight' = [InFlight EXCEPT ![t] = None] /\ InFlight[t] # None
    BY <1>3, <2>1, Updated DEF Moves, Onward
  <2>3. B!Add(t, 0)
    BY <2>2 DEF B!Add, Moves, budgetVars
  <2>4. 0 \in 0..MaxCost
    BY GatewayAssumption
  <2> QED
    BY <1>1, <2>3, <2>4 DEF B!Next
<1> QED
  BY <1>2, <1>3

(* A thread between two calls is in order. *)
LEMMA IdleOK ==
  /\ Idle \in CallRec
  /\ Idle.at = "idle" /\ Idle.records = 0 /\ Open(Idle.log) /\ Idle.consumer = None
  /\ CallOK(Idle)
<1>1. /\ Idle.at = "idle" /\ Idle.records = 0 /\ Idle.log = <<>> /\ Idle.consumer = None
  BY DEF Idle
<1>2. Open(<<>>)
  BY DEF Open
<1>3. Idle \in CallRec
  <2>1. "idle" \in Stages /\ "none" \in Statuses
    BY DEF Stages, Statuses
  <2>2. <<>> \in Seq(Attempt) /\ <<>> \in Seq(Providers)
    OBVIOUS
  <2> QED
    BY <2>1, <2>2 DEF Idle, CallRec
<1>4. LogOK(Idle)
  BY <1>1, <1>2 DEF LogOK
<1> QED
  BY <1>1, <1>2, <1>3, <1>4 DEF CallOK, Governed

(* Initially the invariant holds and the budget is as Budget starts. *)
LEMMA InitIInv == Init => IInv /\ B!Init
<1> SUFFICES ASSUME Init PROVE IInv /\ B!Init
  OBVIOUS
<1>1. call = [t \in Threads |-> Idle]
  BY DEF Init
<1>2. IInv
  BY <1>1, IdleOK DEF IInv
<1>3. InFlight = [t \in Threads |-> None]
  BY <1>1, IdleOK DEF InFlight, Governed
<1>4. B!Init
  BY <1>3 DEF Init, B!Init
<1> QED
  BY <1>2, <1>4

(* A call begins: with a request, or with one that is refused at once. *)
LEMMA StartMoves ==
  ASSUME IInv, NEW t \in Threads, Start(t) \/ EmbedStart(t) \/ Reject(t)
  PROVE  \E d : Moves(t, d)
<1>1. CASE Reject(t)
  <2>1. Update(t, Recorded(Idle, "validation")) /\ UNCHANGED budgetVars
    BY <1>1 DEF Reject
  <2>2. CallOK(Recorded(Idle, "validation"))
    BY IdleOK, RecordedOK DEF Statuses
  <2>3. Recorded(Idle, "validation").at \notin Governed
    BY IdleOK, RecordedIs DEF Statuses, Governed
  <2> QED
    BY <2>1, <2>2, <2>3 DEF Moves, Onward
<1>2. ASSUME NEW d \in CallRec, d.at \in {"budget", "cache"}, d.consumer \in Consumers,
             d.log = Idle.log, d.records = Idle.records
      PROVE  CallOK(d) /\ Onward(call[t], d)
  BY <1>2, IdleOK DEF CallOK, LogOK, Onward, Governed
<1>3. {"budget", "cache"} \subseteq Stages
  BY DEF Stages
<1>4. Routes \cup {Unroutable} \subseteq Seq(Providers)
  <2>1. Routes \subseteq Seq(Providers)
    BY GatewayAssumption
  <2>2. Unroutable \in Seq(Providers)
    BY DEF Unroutable
  <2> QED
    BY <2>1, <2>2
<1>5. CASE Start(t)
  <2> PICK k \in Consumers, r \in Routes \cup {Unroutable}, key \in Keys \cup {None} :
        /\ UNCHANGED budgetVars
        /\ Update(t, [Idle EXCEPT !.at = IF key = None THEN "budget" ELSE "cache",
                                 !.consumer = k, !.route = r, !.key = key])
    BY <1>5 DEF Start
  <2> DEFINE at == IF key = None THEN "budget" ELSE "cache"
             d == [Idle EXCEPT !.at = at, !.consumer = k, !.route = r, !.key = key]
  <2>1. at \in {"budget", "cache"} /\ Update(t, d)
    OBVIOUS
  <2> HIDE DEF at
  <2>2. /\ d.at = at /\ d.consumer = k /\ d.log = Idle.log /\ d.records = Idle.records
    BY IdleOK DEF CallRec
  <2>3. d \in CallRec
    BY <1>3, <1>4, <2>1, IdleOK DEF CallRec
  <2> HIDE DEF d
  <2>4. CallOK(d) /\ Onward(call[t], d)
    BY <2>1, <2>2, <2>3, <1>2
  <2> QED
    BY <2>1, <2>4 DEF Moves
<1>6. CASE EmbedStart(t)
  <2> PICK k \in Consumers, r \in Routes \cup {Unroutable} :
        /\ UNCHANGED budgetVars
        /\ Update(t, [Idle EXCEPT !.at = "budget", !.op = "embed",
                                 !.consumer = k, !.route = r])
    BY <1>6 DEF EmbedStart
  <2> DEFINE d == [Idle EXCEPT !.at = "budget", !.op = "embed",
                             !.consumer = k, !.route = r]
  <2>1. Update(t, d)
    OBVIOUS
  <2>2. /\ d.at = "budget" /\ d.consumer = k /\ d.log = Idle.log /\ d.records = Idle.records
    BY IdleOK DEF CallRec
  <2>3. d \in CallRec
    BY <1>3, <1>4, IdleOK DEF CallRec
  <2> HIDE DEF d
  <2>4. CallOK(d) /\ Onward(call[t], d)
    BY <2>2, <2>3, <1>2
  <2> QED
    BY <2>1, <2>4 DEF Moves
<1> QED
  BY <1>1, <1>5, <1>6

(* Every step of a thread and of the clock keeps the invariant and is a    *)
(* step of Budget, or a stutter.                                           *)
LEMMA NextIInv == IInv /\ [Next]_vars => IInv' /\ [B!Next]_(B!vars)
<1> SUFFICES ASSUME IInv, [Next]_vars PROVE IInv' /\ [B!Next]_(B!vars)
  OBVIOUS
<1>1. ASSUME NEW t \in Threads, BudgetCheck(t) PROVE IInv' /\ [B!Next]_(B!vars)
  <2> DEFINE c == call[t]
  <2>1. /\ c \in CallRec /\ CallOK(c) /\ c.at = "budget" /\ c.consumer \in Consumers
        /\ c.records = 0 /\ Open(c.log) /\ UNCHANGED budgetVars
    BY <1>1 DEF BudgetCheck, IInv, CallOK, LogOK
  <2>2. CASE B!Refused(c.consumer)
    <3>1. Update(t, Recorded(c, "budget"))
      BY <1>1, <2>2 DEF BudgetCheck
    <3>2. Moves(t, Recorded(c, "budget"))
      BY <3>1, <2>1, RecordedOK DEF Moves, Statuses
    <3> QED
      BY <3>2, MovesRefine
  <2>3. CASE ~B!Refused(c.consumer)
    <3> DEFINE d == [c EXCEPT !.at = "route"]
    <3>1. Update(t, d)
      BY <1>1, <2>3 DEF BudgetCheck
    <3>2. /\ d \in CallRec /\ d.at = "route" /\ d.consumer = c.consumer
          /\ d.log = c.log /\ d.records = c.records
      <4>1. "route" \in Stages
        BY DEF Stages
      <4> QED
        BY <2>1, <4>1, MovedIs
    <3> HIDE DEF d
    <3>3. CallOK(d)
      BY <3>2, <2>1 DEF CallOK, LogOK
    <3>4. InFlight' = [InFlight EXCEPT ![t] = c.consumer] /\ InFlight[t] = None
      BY <3>1, <3>2, <2>1, Updated DEF Governed
    <3>5. B!Check(t, c.consumer)
      BY <3>4, <2>1, <2>3 DEF B!Check, budgetVars
    <3> QED
      BY <3>1, <3>3, <3>5, <2>1, Updated DEF B!Next
  <2> QED
    BY <2>2, <2>3
<1>2. ASSUME NEW t \in Threads, RecordSuccess(t) PROVE IInv' /\ [B!Next]_(B!vars)
  <2> DEFINE c == call[t]
             d == Recorded(c, ServedStatus(c))
  <2>1. /\ c \in CallRec /\ c.at = "record" /\ c.consumer \in Consumers
        /\ c.records = 0 /\ c.target >= 1 /\ Decided(c, "success")
        /\ Update(t, d)
    BY <1>2 DEF RecordSuccess, IInv, CallOK, LogOK, Governed
  <2>2. CallOK(d)
    BY <2>1, RecordedOK DEF ServedStatus, Statuses, CallRec
  <2>3. d.at = "returned"
    BY <2>1, RecordedIs DEF ServedStatus, Statuses
  <2> HIDE DEF d
  <2>4. PICK cost \in 0..MaxCost :
          IF B!Enabled /\ cost # 0 THEN B!Charge(c.consumer, cost) ELSE UNCHANGED budgetVars
    BY <1>2 DEF RecordSuccess
  <2>5. InFlight' = [InFlight EXCEPT ![t] = None] /\ InFlight[t] = c.consumer
    BY <2>1, <2>3, Updated DEF Governed
  <2>6. c.consumer # None
    BY <2>1, GatewayAssumption
  <2>7. B!Add(t, cost)
    BY <2>4, <2>5, <2>6 DEF B!Add, budgetVars
  <2> QED
    BY <2>1, <2>2, <2>7, Updated DEF B!Next
<1>3. CASE Tick
  <2> DEFINE Aged(c) == [c EXCEPT
                 !.elapsed = IF c.at \in {"idle", "returned"} \/ @ = Deadline
                             THEN @ ELSE @ + 1,
                 !.age = IF c.role = "probe" THEN Older(@) ELSE @]
  <2>1. call' = [t \in Threads |-> Aged(call[t])] /\ UNCHANGED budgetVars
    BY <1>3 DEF Tick
  <2>2. ASSUME NEW t \in Threads
        PROVE  /\ CallOK(call'[t])
               /\ call'[t].at = call[t].at /\ call'[t].consumer = call[t].consumer
    <3> DEFINE c == call[t]
               d == Aged(c)
    <3>1. c \in CallRec /\ CallOK(c) /\ call'[t] = d
      BY <2>1 DEF IInv
    <3> HIDE DEF c
    <3>2. /\ d.at = c.at /\ d.target = c.target /\ d.consumer = c.consumer
          /\ d.status = c.status /\ d.log = c.log /\ d.records = c.records
      BY <3>1 DEF CallRec
    <3>3. d \in CallRec
      <4>1. Older(c.age) \in Nat
        BY <3>1, BreakerAssumption DEF CallRec, Older
      <4>2. c.elapsed + 1 \in Nat
        BY <3>1 DEF CallRec
      <4> QED
        BY <3>1, <4>1, <4>2 DEF CallRec
    <3> HIDE DEF d
    <3>4. CallOK(d)
      BY <3>1, <3>2, <3>3 DEF CallOK, LogOK, Decided
    <3> QED
      BY <3>1, <3>2, <3>4 DEF c
  <2> HIDE DEF Aged
  <2>3. IInv'
    <3>1. call' = [t \in Threads |-> call'[t]]
      BY <2>1
    <3> QED
      BY <3>1, <2>2 DEF IInv, CallOK
  <2>4. InFlight' = InFlight
    BY <2>2 DEF InFlight
  <2> QED
    BY <2>1, <2>3, <2>4 DEF budgetVars, B!vars
<1>4. ASSUME NEW t \in Threads,
             \/ Start(t) \/ EmbedStart(t) \/ Reject(t)
             \/ Step(t) /\ ~BudgetCheck(t) /\ ~RecordSuccess(t)
      PROVE  IInv' /\ [B!Next]_(B!vars)
  <2>1. \E d : Moves(t, d)
    BY <1>4, StartMoves, StepMoves
  <2> QED
    BY <2>1, MovesRefine
<1>5. CASE UNCHANGED <<call, budgetVars>>
  BY <1>5 DEF IInv, CallOK, InFlight, budgetVars, B!vars
<1>6. ASSUME NEW key \in Keys, CacheExpire(key) PROVE UNCHANGED <<call, budgetVars>>
  BY <1>6 DEF CacheExpire
<1>7. CASE UNCHANGED vars
  BY <1>5, <1>7 DEF vars
<1> QED
  BY <1>1, <1>2, <1>3, <1>4, <1>5, <1>6, <1>7 DEF Next

(* The invariant of the calls (gateway.py) holds in every reachable state. *)
THEOREM Invariance == Spec => []IInv
  BY InitIInv, NextIInv, PTL DEF Spec

(* Whichever of its many ends a call takes, it leaves one capture record,  *)
(* none only for an exception the gateway does not know, and the record's  *)
(* status is what its attempts say.                                        *)
THEOREM RecordsAreTrue == Spec => []CallRecorded
<1>1. IInv => OneRecord
  BY DEF IInv, OneRecord, CallOK
<1>2. IInv => RecordMatchesLog
  <2> SUFFICES ASSUME IInv, NEW t \in Threads, call[t].at = "returned"
               PROVE  LET c == call[t]
                          last == c.log[Len(c.log)] IN
                      /\ c.status = "success" =>
                           last = [target |-> 1, outcome |-> "success"]
                      /\ c.status = "fallback_success" =>
                           last.outcome = "success" /\ last.target > 1
                      /\ c.status = "terminal" => last.outcome = "terminal"
                      /\ c.status = "all_failed" =>
                           \A n \in DOMAIN c.log :
                             c.log[n].outcome \notin {"success", "terminal"}
    BY DEF RecordMatchesLog
  <2>1. LogOK(call[t])
    BY DEF IInv, CallOK
  <2> QED
    BY <2>1 DEF LogOK, Decided, Open
<1> QED
  BY <1>1, <1>2, Invariance, PTL DEF CallRecorded

(* The gateway uses the budget as Budget says: a call is charged at most   *)
(* once, after it was checked and for the consumer it was checked for.     *)
(* What BudgetProofs proves of any callers holds of the gateway's.         *)
THEOREM BudgetIsImplemented == Spec => BudgetImplemented
  BY InitIInv, NextIInv, Invariance, PTL DEF Spec, BudgetImplemented, B!Spec
----------------------------------------------------------------------------
(* The gateway and the breakers.  A call has a role with its target's      *)
(* breaker exactly while it is between allow() and the report.             *)
InBreaker == {"attempt", "calling", "succeeded", "terminal", "exhausted"}

RoleOK(c) == c.role # "idle" <=> c.at \in InBreaker

RoleInv ==
  /\ \A t \in Threads : RoleOK(call[t])
  /\ DOMAIN breakers = Providers /\ DOMAIN streaks = Providers

(* A call as the breaker of provider p sees it. *)
Unseen == [role |-> "idle", age |-> 0]

View(p, c) ==
  IF c.role # "idle" /\ Provider(c) = p THEN [role |-> c.role, age |-> c.age] ELSE Unseen

(* A step that tells no breaker anything: the call stays where it is, as   *)
(* far as its breaker can see, or is out of its sight afterwards.          *)
Quiet(c, d) ==
  \/ d.role = "idle" /\ d.at \notin InBreaker
  \/ /\ c.at \in InBreaker /\ d.at \in InBreaker
     /\ d.role = c.role /\ d.age = c.age
     /\ d.route = c.route /\ d.target = c.target

CircuitsStep == \A p \in Providers : [C(p)!Next]_(C(p)!vars)

(* What a provider's breaker sees of a call that changes. *)
LEMMA Seen ==
  ASSUME IInv, NEW t \in Threads, NEW d, Update(t, d), NEW p
  PROVE  /\ CallOf(p)' = [CallOf(p) EXCEPT ![t] = View(p, d)]
         /\ CallOf(p)[t] = View(p, call[t])
<1>1. call' = [call EXCEPT ![t] = d] /\ call \in [Threads -> CallRec]
  BY DEF Update, IInv
<1>2. CallOf(p) = [u \in Threads |-> View(p, call[u])]
  BY DEF CallOf, View, Unseen
<1>3. CallOf(p)' = [u \in Threads |-> View(p, call'[u])]
  BY DEF CallOf, View, Unseen, Provider
<1> QED
  BY <1>1, <1>2, <1>3

(* A step no breaker is told of is a stutter, an abandoned call or a call's end for each of them. *)
LEMMA QuietRefines ==
  ASSUME IInv, RoleInv, NEW t \in Threads, NEW d, Update(t, d), Quiet(call[t], d),
         UNCHANGED <<breakers, streaks>>
  PROVE  RoleInv' /\ CircuitsStep
<1>1. RoleOK(d) /\ RoleOK(call[t])
  BY DEF Quiet, RoleInv, RoleOK
<1>2. RoleInv'
  BY <1>1 DEF RoleInv, Update, IInv
<1>3. ASSUME NEW p \in Providers PROVE [C(p)!Next]_(C(p)!vars)
  <2>1. /\ CallOf(p)' = [CallOf(p) EXCEPT ![t] = View(p, d)]
        /\ CallOf(p)[t] = View(p, call[t])
    BY Seen
  <2>2. DOMAIN CallOf(p) = Threads
    BY DEF CallOf
  <2>3. CASE View(p, d) = View(p, call[t])
    <3>1. CallOf(p)' = CallOf(p)
      <4>1. CallOf(p) = [u \in Threads |-> CallOf(p)[u]]
        BY DEF CallOf
      <4> QED
        BY <4>1, <2>1, <2>3
    <3> QED
      BY <3>1 DEF C!vars
  <2>4. CASE View(p, d) # View(p, call[t])
    <3>1. View(p, d) = Unseen /\ View(p, call[t]).role # "idle"
      BY <1>1, <2>4 DEF Quiet, View, Unseen, RoleOK, Provider
    <3>2. C(p)!Vanish(t)
      BY <2>1, <3>1 DEF C!Vanish, C!Idle, Unseen
    <3> QED
      BY <3>2 DEF C!Next, C!Finish
  <2> QED
    BY <2>3, <2>4
<1> QED
  BY <1>2, <1>3 DEF CircuitsStep

(* Ways of moving a call that are quiet. *)
LEMMA QuietMoves ==
  ASSUME NEW c \in CallRec, RoleOK(c)
  PROVE  /\ \A status : Quiet(c, Recorded(c, status))
         /\ \A status, outcome : Quiet(c, Recorded(Logged(c, outcome), status))
         /\ Quiet(c, NextTarget(c))
         /\ \A outcome : Quiet(c, NextTarget(Logged(c, outcome)))
         /\ c.at \notin InBreaker =>
              /\ \A at : at \notin InBreaker => Quiet(c, [c EXCEPT !.at = at])
              /\ Quiet(c, [c EXCEPT !.at = "target", !.target = 1])
         /\ c.at \in InBreaker =>
              /\ Quiet(c, [c EXCEPT !.at = "calling"])
              /\ \A outcome : \A at \in InBreaker :
                   Quiet(c, [Logged(c, outcome) EXCEPT !.at = at])
              /\ \A outcome :
                   Quiet(c, [Logged(c, outcome) EXCEPT !.at = "attempt", !.try = @ + 1])
  BY DEF Quiet, RoleOK, CallRec, Recorded, Logged, NextTarget, InBreaker

(* All steps of a call but the gate and the reports are quiet. *)
LEMMA StepQuiet ==
  ASSUME IInv, RoleInv, NEW t \in Threads, Step(t),
         ~CircuitAllow(t), ~ReportExhausted(t), ~ReportTerminal(t), ~ReportSuccess(t)
  PROVE  \E d : Update(t, d) /\ Quiet(call[t], d) /\ UNCHANGED <<breakers, streaks>>
<1> DEFINE c == call[t]
<1>c. c \in CallRec /\ RoleOK(c)
  BY DEF IInv, RoleInv
<1> HIDE DEF c
<1>1. CASE CacheGet(t) \/ BudgetCheck(t) \/ Resolve(t) \/ CacheSet(t)
  <2>1. c.at \notin InBreaker /\ UNCHANGED <<breakers, streaks>>
    BY <1>1 DEF CacheGet, BudgetCheck, Resolve, CacheSet, InBreaker, c
  <2>2. PICK d : /\ Update(t, d)
                 /\ \/ \E status : d = Recorded(c, status)
                    \/ \E at \in {"budget", "route", "record"} : d = [c EXCEPT !.at = at]
                    \/ d = [c EXCEPT !.at = "target", !.target = 1]
    BY <1>1 DEF CacheGet, BudgetCheck, Resolve, CacheSet, c
  <2>3. {"budget", "route", "record"} \cap InBreaker = {}
    BY DEF InBreaker
  <2> QED
    BY <2>1, <2>2, <2>3, <1>c, QuietMoves DEF c
<1>2. CASE AllFailed(t) \/ DeadlineBreak(t) \/ EmbedOutOfTime(t) \/ RecordSuccess(t)
  <2>1. PICK d : /\ Update(t, d)
                 /\ \/ \E status : d = Recorded(c, status)
                    \/ \E status, outcome : d = Recorded(Logged(c, outcome), status)
    BY <1>2 DEF AllFailed, DeadlineBreak, EmbedOutOfTime, RecordSuccess, c
  <2>2. UNCHANGED <<breakers, streaks>>
    BY <1>2 DEF AllFailed, DeadlineBreak, EmbedOutOfTime, RecordSuccess
  <2> QED
    BY <2>1, <2>2, <1>c, QuietMoves DEF c
<1>3. CASE Guards(t) \/ EmbedGuards(t)
  <2>1. c.at \notin InBreaker /\ UNCHANGED <<breakers, streaks>>
    BY <1>3 DEF Guards, EmbedGuards, InBreaker, c
  <2>2. PICK d : /\ Update(t, d)
                 /\ \/ \E status : d = Recorded(c, status)
                    \/ d = NextTarget(Logged(c, "no_embed"))
                    \/ d = [c EXCEPT !.at = "circuit"]
    BY <1>3 DEF Guards, EmbedGuards, c
  <2>3. "circuit" \notin InBreaker
    BY DEF InBreaker
  <2> QED
    BY <2>1, <2>2, <2>3, <1>c, QuietMoves DEF c
<1>4. CASE CircuitBlocked(t) \/ OutOfTime(t)
  <2>1. PICK d : /\ Update(t, d)
                 /\ d \in {NextTarget(c), NextTarget(Logged(c, "circuit_open"))}
    BY <1>4 DEF CircuitBlocked, OutOfTime, c
  <2>2. UNCHANGED <<breakers, streaks>>
    BY <1>4 DEF CircuitBlocked, OutOfTime
  <2> QED
    BY <2>1, <2>2, <1>c, QuietMoves DEF c
<1>5. CASE CallProvider(t) \/ ProviderReturns(t) \/ ProviderTerminal(t)
             \/ ProviderRetriable(t) \/ EmbedRetriable(t)
  <2>1. c.at \in InBreaker /\ UNCHANGED <<breakers, streaks>>
    BY <1>5 DEF CallProvider, ProviderReturns, ProviderTerminal, ProviderRetriable,
                EmbedRetriable, InBreaker, c
  <2>2. PICK d :
          /\ Update(t, d)
          /\ \/ d = [c EXCEPT !.at = "calling"]
             \/ \E outcome : \E at \in {"succeeded", "terminal", "exhausted"} :
                  d = [Logged(c, outcome) EXCEPT !.at = at]
             \/ \E outcome : d = [Logged(c, outcome) EXCEPT !.at = "attempt", !.try = @ + 1]
    BY <1>5 DEF CallProvider, ProviderReturns, ProviderTerminal, ProviderRetriable,
                EmbedRetriable, c
  <2>3. {"succeeded", "terminal", "exhausted"} \subseteq InBreaker
    BY DEF InBreaker
  <2> QED
    BY <2>1, <2>2, <2>3, <1>c, QuietMoves DEF c
<1>6. CASE ProviderUntyped(t)
  <2> DEFINE d == [c EXCEPT !.at = "returned", !.role = "idle", !.status = "untyped"]
  <2>1. Update(t, d) /\ UNCHANGED <<breakers, streaks>>
    BY <1>6 DEF ProviderUntyped, c
  <2>2. Quiet(c, d)
    BY <1>c DEF Quiet, CallRec, InBreaker
  <2> QED
    BY <2>1, <2>2 DEF c
<1> QED
  BY <1>1, <1>2, <1>3, <1>4, <1>5, <1>6 DEF Step

(* So are those that start a call or refuse one. *)
LEMMA StartQuiet ==
  ASSUME NEW t \in Threads, Start(t) \/ EmbedStart(t) \/ Reject(t)
  PROVE  \E d : Update(t, d) /\ Quiet(call[t], d) /\ UNCHANGED <<breakers, streaks>>
<1>1. CASE Reject(t)
  <2>1. Update(t, Recorded(Idle, "validation")) /\ UNCHANGED <<breakers, streaks>>
    BY <1>1 DEF Reject
  <2>2. Quiet(call[t], Recorded(Idle, "validation"))
    BY DEF Quiet, Idle, Recorded, InBreaker
  <2> QED
    BY <2>1, <2>2
<1>2. CASE Start(t)
  <2> PICK k \in Consumers, r \in Routes \cup {Unroutable}, key \in Keys \cup {None} :
        /\ UNCHANGED <<breakers, streaks>>
        /\ Update(t, [Idle EXCEPT !.at = IF key = None THEN "budget" ELSE "cache",
                                 !.consumer = k, !.route = r, !.key = key])
    BY <1>2 DEF Start
  <2> DEFINE d == [Idle EXCEPT !.at = IF key = None THEN "budget" ELSE "cache",
                               !.consumer = k, !.route = r, !.key = key]
  <2>1. Quiet(call[t], d)
    BY DEF Quiet, Idle, InBreaker
  <2> QED
    BY <2>1
<1>3. CASE EmbedStart(t)
  <2> PICK k \in Consumers, r \in Routes \cup {Unroutable} :
        /\ UNCHANGED <<breakers, streaks>>
        /\ Update(t, [Idle EXCEPT !.at = "budget", !.op = "embed",
                                 !.consumer = k, !.route = r])
    BY <1>3 DEF EmbedStart
  <2> DEFINE d == [Idle EXCEPT !.at = "budget", !.op = "embed",
                               !.consumer = k, !.route = r]
  <2>1. Quiet(call[t], d)
    BY DEF Quiet, Idle, InBreaker
  <2> QED
    BY <2>1
<1> QED
  BY <1>1, <1>2, <1>3

(* Circuit's view of the breaker's operators is the gateway's. *)
LEMMA SameBreaker ==
  ASSUME NEW p, NEW b
  PROVE  /\ C(p)!Granted(b) <=> Granted(b)
         /\ C(p)!IsOpen(b) <=> IsOpen(b)
         /\ C(p)!AfterAllow(b) = AfterAllow(b)
         /\ C(p)!AfterSuccess(b) = AfterSuccess(b)
         /\ C(p)!AfterFailure(b) = AfterFailure(b)
         /\ C(p)!Elapse(b) = Elapse(b)
         /\ \A age : C(p)!Older(age) = Older(age)
<1>1. /\ C(p)!IsOpen(b) <=> IsOpen(b)
      /\ C(p)!HasProbe(b) <=> HasProbe(b)
      /\ C(p)!Enabled <=> Enabled
  BY DEF C!IsOpen, IsOpen, C!HasProbe, HasProbe, C!Enabled, Enabled
<1>2. C(p)!Granted(b) <=> Granted(b)
  BY <1>1 DEF C!Granted, Granted, C!Cooling, Cooling, C!ProbeInFlight, ProbeInFlight
<1>3. C(p)!AfterAllow(b) = AfterAllow(b)
  BY <1>1 DEF C!AfterAllow, AfterAllow
<1>4. C(p)!AfterSuccess(b) = AfterSuccess(b)
  BY <1>1 DEF C!AfterSuccess, AfterSuccess, C!Closed, Closed
<1>5. C(p)!AfterFailure(b) = AfterFailure(b)
  BY <1>1 DEF C!AfterFailure, AfterFailure
<1>6. \A age : C(p)!Older(age) = Older(age)
  BY DEF C!Older, Older
<1>7. C(p)!Elapse(b) = Elapse(b)
  BY DEF C!Elapse, Elapse, C!Older, Older
<1> QED
  BY <1>1, <1>2, <1>3, <1>4, <1>5, <1>6, <1>7

(* What a step that touches the breaker of its target does to the others.  *)
LEMMA OthersUntouched ==
  ASSUME IInv, RoleInv, NEW t \in Threads, NEW d, Update(t, d), NEW b, NEW s,
         d.route = call[t].route, d.target = call[t].target,
         breakers' = [breakers EXCEPT ![Provider(call[t])] = b],
         \/ UNCHANGED streaks
         \/ streaks' = [streaks EXCEPT ![Provider(call[t])] = s],
         NEW p \in Providers, p # Provider(call[t])
  PROVE  UNCHANGED C(p)!vars
<1>1. breakers'[p] = breakers[p] /\ streaks'[p] = streaks[p]
  BY DEF RoleInv
<1>2. View(p, d) = Unseen /\ View(p, call[t]) = Unseen
  BY DEF View, Provider
<1>3. CallOf(p)' = CallOf(p)
  <2>1. CallOf(p) = [u \in Threads |-> CallOf(p)[u]]
    BY DEF CallOf
  <2> QED
    BY <2>1, <1>2, Seen
<1> QED
  BY <1>1, <1>3 DEF C!vars

(* The gate of a target is allow() of its provider's breaker and a stutter of every other. *)
LEMMA AllowRefines ==
  ASSUME IInv, RoleInv, NEW t \in Threads, CircuitAllow(t)
  PROVE  RoleInv' /\ CircuitsStep
<1> DEFINE c == call[t]
           q == Provider(c)
           role == IF IsOpen(breakers[q]) THEN "probe" ELSE "normal"
           d == [c EXCEPT !.at = "attempt", !.age = 0, !.role = role]
<1>1. /\ c \in CallRec /\ RoleOK(c) /\ c.at = "circuit" /\ Granted(breakers[q])
      /\ breakers' = [breakers EXCEPT ![q] = AfterAllow(breakers[q])]
      /\ Update(t, d) /\ UNCHANGED streaks
  BY DEF CircuitAllow, IInv, RoleInv
<1>2. role \in {"probe", "normal"}
  OBVIOUS
<1> HIDE DEF role, q
<1>3. /\ d.at = "attempt" /\ d.age = 0 /\ d.role = role
      /\ d.route = c.route /\ d.target = c.target
  BY <1>1 DEF CallRec
<1> HIDE DEF d, c
<1>4. RoleOK(d)
  BY <1>2, <1>3 DEF RoleOK, InBreaker
<1>5. RoleInv'
  BY <1>1, <1>4 DEF RoleInv, Update, IInv
<1>6. ASSUME NEW p \in Providers, p = q PROVE C(p)!Allow(t)
  <2>1. CallOf(p)' = [CallOf(p) EXCEPT ![t] = View(p, d)] /\ CallOf(p)[t] = View(p, c)
    BY <1>1, Seen DEF c
  <2>2. View(p, d) = [role |-> role, age |-> 0]
    BY <1>2, <1>3, <1>6 DEF View, Provider, q
  <2>3. View(p, c).role = "idle"
    BY <1>1 DEF View, Unseen, RoleOK, InBreaker
  <2>4. breakers'[p] = AfterAllow(breakers[p]) /\ streaks'[p] = streaks[p]
    BY <1>1, <1>6 DEF RoleInv
  <2>5. role = IF C(p)!IsOpen(breakers[p]) THEN "probe" ELSE "normal"
    BY <1>6, SameBreaker DEF role
  <2>6. C(p)!Granted(breakers[p]) /\ breakers'[p] = C(p)!AfterAllow(breakers[p])
    BY <1>1, <1>6, <2>4, SameBreaker
  <2> QED
    BY <2>1, <2>2, <2>3, <2>4, <2>5, <2>6 DEF C!Allow
<1>7. ASSUME NEW p \in Providers, p # q PROVE UNCHANGED C(p)!vars
  BY <1>1, <1>3, <1>7, OthersUntouched DEF c, q
<1> QED
  BY <1>5, <1>6, <1>7 DEF CircuitsStep, C!Next

(* Reports: record_success and record_failure of the target's breaker.     *)
LEMMA ReportRefines ==
  ASSUME IInv, RoleInv, NEW t \in Threads, NEW d, Update(t, d),
         call[t].at \in InBreaker, d.role = "idle", d.at \notin InBreaker,
         NEW b, NEW s,
         breakers' = [breakers EXCEPT ![Provider(call[t])] = b],
         streaks' = [streaks EXCEPT ![Provider(call[t])] = s],
         LET q == Provider(call[t]) IN
           \/ b = AfterSuccess(breakers[q]) /\ s = 0
           \/ /\ b = AfterFailure(breakers[q])
              /\ s = IF streaks[q] < Threshold THEN streaks[q] + 1 ELSE streaks[q]
  PROVE  RoleInv' /\ CircuitsStep
<1> DEFINE c == call[t]
           q == Provider(c)
<1>1. RoleOK(d) /\ RoleOK(c)
  BY DEF RoleOK, RoleInv
<1>2. RoleInv'
  BY <1>1 DEF RoleInv, Update, IInv
<1>3. ASSUME NEW p \in Providers PROVE [C(p)!Next]_(C(p)!vars)
  <2>1. CallOf(p)' = [CallOf(p) EXCEPT ![t] = View(p, d)] /\ CallOf(p)[t] = View(p, c)
    BY Seen
  <2>2. View(p, d) = Unseen
    BY DEF View
  <2>3. CASE p = q
    <3>1. breakers'[p] = b /\ streaks'[p] = s
      BY <2>3 DEF RoleInv
    <3>2. View(p, c).role # "idle"
      BY <1>1, <2>3 DEF View, RoleOK
    <3>3. CASE b = AfterSuccess(breakers[q]) /\ s = 0
      <4>1. b = C(p)!AfterSuccess(breakers[p])
        BY <2>3, <3>3, SameBreaker
      <4>2. C(p)!RecordSuccess(t)
        BY <2>1, <2>2, <3>1, <3>2, <3>3, <4>1 DEF C!RecordSuccess, C!Idle, Unseen
      <4> QED
        BY <4>2 DEF C!Next, C!Finish
    <3>4. CASE /\ b = AfterFailure(breakers[q])
               /\ s = IF streaks[q] < Threshold THEN streaks[q] + 1 ELSE streaks[q]
      <4>1. b = C(p)!AfterFailure(breakers[p])
        BY <2>3, <3>4, SameBreaker
      <4>2. C(p)!RecordFailure(t)
        BY <2>1, <2>2, <2>3, <3>1, <3>2, <3>4, <4>1 DEF C!RecordFailure, C!Idle, Unseen
      <4> QED
        BY <4>2 DEF C!Next, C!Finish
    <3> QED
      BY <3>3, <3>4
  <2>4. CASE p # q
    <3>1. breakers'[p] = breakers[p] /\ streaks'[p] = streaks[p]
      BY <2>4 DEF RoleInv
    <3>2. View(p, c) = Unseen
      BY <2>4 DEF View
    <3>3. CallOf(p) = [u \in Threads |-> CallOf(p)[u]]
      BY DEF CallOf
    <3>4. CallOf(p)' = CallOf(p)
      BY <2>1, <2>2, <3>2, <3>3
    <3> QED
      BY <3>1, <3>4 DEF C!vars
  <2> QED
    BY <2>3, <2>4
<1> QED
  BY <1>2, <1>3 DEF CircuitsStep

(* Time passes for all the breakers. *)
LEMMA TickRefines ==
  ASSUME IInv, RoleInv, Tick PROVE RoleInv' /\ CircuitsStep
<1> DEFINE Aged(c) == [c EXCEPT
               !.elapsed = IF c.at \in {"idle", "returned"} \/ @ = Deadline
                           THEN @ ELSE @ + 1,
               !.age = IF c.role = "probe" THEN Older(@) ELSE @]
<1>1. call' = [t \in Threads |-> Aged(call[t])]
  BY DEF Tick
<1>2. ASSUME NEW t \in Threads
      PROVE  /\ call'[t].at = call[t].at /\ call'[t].role = call[t].role
             /\ call'[t].route = call[t].route /\ call'[t].target = call[t].target
             /\ call'[t].age = IF call[t].role = "probe" THEN Older(call[t].age)
                               ELSE call[t].age
  <2>1. call[t] \in CallRec /\ call'[t] = Aged(call[t])
    BY <1>1 DEF IInv
  <2> QED
    BY <2>1 DEF CallRec
<1> HIDE DEF Aged
<1>3. /\ breakers' = [p \in Providers |-> Elapse(breakers[p])] /\ UNCHANGED streaks
  BY DEF Tick
<1>4. RoleInv'
  BY <1>2, <1>3 DEF RoleInv, RoleOK
<1>5. ASSUME NEW p \in Providers PROVE C(p)!Tick
  <2>1. breakers'[p] = C(p)!Elapse(breakers[p]) /\ streaks'[p] = streaks[p]
    BY <1>3, SameBreaker
  <2>2. CallOf(p) = [u \in Threads |-> View(p, call[u])]
    BY DEF CallOf, View, Unseen
  <2>3. CallOf(p)' = [u \in Threads |-> View(p, call'[u])]
    BY DEF CallOf, View, Unseen, Provider
  <2>4. ASSUME NEW u \in Threads
        PROVE  View(p, call'[u]) =
                 IF View(p, call[u]).role = "probe"
                 THEN [View(p, call[u]) EXCEPT !.age = C(p)!Older(@)] ELSE View(p, call[u])
    <3>1. C(p)!Older(call[u].age) = Older(call[u].age)
      BY SameBreaker
    <3> QED
      BY <1>2, <3>1 DEF View, Unseen, Provider
  <2>5. CallOf(p)' = [u \in Threads |->
          IF CallOf(p)[u].role = "probe"
          THEN [CallOf(p)[u] EXCEPT !.age = C(p)!Older(@)] ELSE CallOf(p)[u]]
    BY <2>2, <2>3, <2>4
  <2> QED
    BY <2>1, <2>5 DEF C!Tick
<1> QED
  BY <1>4, <1>5 DEF CircuitsStep, C!Next

(* Every step keeps the roles in order and is a step of every Circuit, or a stutter. *)
LEMMA NextRoleInv == IInv /\ RoleInv /\ [Next]_vars => RoleInv' /\ CircuitsStep
<1> SUFFICES ASSUME IInv, RoleInv, [Next]_vars PROVE RoleInv' /\ CircuitsStep
  OBVIOUS
<1>1. ASSUME NEW t \in Threads, ReportExhausted(t) \/ ReportTerminal(t)
      PROVE  RoleInv' /\ CircuitsStep
  <2> DEFINE c == call[t]
             q == Provider(c)
             b == AfterFailure(breakers[q])
             s == IF streaks[q] < Threshold THEN streaks[q] + 1 ELSE streaks[q]
  <2>1. c \in CallRec /\ c.at \in InBreaker
    BY <1>1 DEF IInv, ReportExhausted, ReportTerminal, InBreaker
  <2>2. PICK d \in {NextTarget(c), Recorded(c, "terminal")} : Update(t, d)
    BY <1>1 DEF ReportExhausted, ReportTerminal
  <2>3. d.role = "idle" /\ d.at \notin InBreaker
    BY <2>1 DEF NextTarget, Recorded, CallRec, InBreaker
  <2>4. /\ breakers' = [breakers EXCEPT ![q] = b]
        /\ streaks' = [streaks EXCEPT ![q] = s]
    BY <1>1 DEF ReportExhausted, ReportTerminal, Failed
  <2> QED
    BY <2>1, <2>2, <2>3, <2>4, ReportRefines
<1>2. ASSUME NEW t \in Threads, ReportSuccess(t) PROVE RoleInv' /\ CircuitsStep
  <2> DEFINE c == call[t]
             q == Provider(c)
             d == [c EXCEPT !.at = IF c.key = None THEN "record" ELSE "store",
                            !.role = "idle", !.age = 0]
  <2>1. c \in CallRec /\ c.at \in InBreaker /\ Update(t, d)
    BY <1>2 DEF IInv, ReportSuccess, InBreaker
  <2>2. d.role = "idle" /\ d.at \notin InBreaker
    BY <2>1 DEF CallRec, InBreaker
  <2>3. /\ breakers' = [breakers EXCEPT ![q] = AfterSuccess(breakers[q])]
        /\ streaks' = [streaks EXCEPT ![q] = 0]
    BY <1>2 DEF ReportSuccess
  <2> QED
    BY <2>1, <2>2, <2>3, ReportRefines
<1>3. ASSUME NEW t \in Threads, CircuitAllow(t) PROVE RoleInv' /\ CircuitsStep
  BY <1>3, AllowRefines
<1>4. ASSUME NEW t \in Threads,
             \/ Start(t) \/ EmbedStart(t) \/ Reject(t)
             \/ /\ Step(t) /\ ~CircuitAllow(t) /\ ~ReportExhausted(t)
                /\ ~ReportTerminal(t) /\ ~ReportSuccess(t)
      PROVE  RoleInv' /\ CircuitsStep
  BY <1>4, StartQuiet, StepQuiet, QuietRefines
<1>5. CASE Tick
  BY <1>5, TickRefines
<1>6. CASE UNCHANGED <<call, breakers, streaks>>
  <2>1. \A p : CallOf(p)' = CallOf(p)
    BY <1>6 DEF CallOf, Provider
  <2> QED
    BY <1>6, <2>1 DEF RoleInv, CircuitsStep, C!vars
<1>7. ASSUME NEW key \in Keys, CacheExpire(key) PROVE UNCHANGED <<call, breakers, streaks>>
  BY <1>7 DEF CacheExpire
<1>8. CASE UNCHANGED vars
  BY <1>6, <1>8 DEF vars
<1> QED
  BY <1>1, <1>2, <1>3, <1>4, <1>5, <1>6, <1>7, <1>8 DEF Next

(* Initially no call has a role and every breaker is closed. *)
LEMMA InitRoleInv == Init => RoleInv /\ \A p \in Providers : C(p)!Init
<1> SUFFICES ASSUME Init PROVE RoleInv /\ \A p \in Providers : C(p)!Init
  OBVIOUS
<1>1. RoleInv
  BY DEF Init, RoleInv, RoleOK, Idle, InBreaker
<1>2. ASSUME NEW p \in Providers PROVE C(p)!Init
  BY DEF C!Init, C!Idle, CallOf, Init, Idle, C!Closed, Closed
<1> QED
  BY <1>1, <1>2

(* Every provider's breaker is used as Circuit says: one report at most    *)
(* for every call let through, none without one.  So OneFreshProbe and     *)
(* OpenIffStreak, proved of Circuit, hold of every breaker of the gateway. *)
THEOREM BreakersAreImplemented == Spec => CircuitsImplemented
<1>1. IInv /\ RoleInv /\ [Next]_vars => RoleInv' /\ [CircuitsStep]_vars
  BY NextRoleInv
<1>2. Spec => (\A p \in Providers : C(p)!Init) /\ [][CircuitsStep]_vars
  BY <1>1, InitRoleInv, Invariance, PTL DEF Spec
<1> QED
  BY <1>2 DEF CircuitsImplemented, CircuitsStep
----------------------------------------------------------------------------
(* The attempts of a call.  How often a target is tried. *)
Tries(c) == IF c.op = "embed" THEN 1 ELSE MaxAttempts

(* A target that was skipped once, or tried as often as it may be, and     *)
(* that decided nothing.                                                   *)
Tried(c, i) ==
  /\ Entries(c, i, "terminal") \cup Entries(c, i, "success") = {}
  /\ \/ /\ Cardinality(Skipped(c, i)) = 1
        /\ Entries(c, i, "retriable") = {}
     \/ /\ Skipped(c, i) = {}
        /\ Cardinality(Entries(c, i, "retriable")) = Tries(c)

(* All targets so far were, and the current one as often as the call says. *)
Justified(c) ==
  /\ \A n \in DOMAIN c.log : c.log[n].target <= c.target
  /\ \A i \in 1..(c.target - 1) : Tried(c, i)
  /\ Skipped(c, c.target) = {}
  /\ Cardinality(Entries(c, c.target, "retriable")) =
       IF c.at = "exhausted" THEN Tries(c) ELSE c.try

(* A call that still has time, or is at a provider or done with it, is at  *)
(* its target for a reason.  Without time a target may be passed over,     *)
(* but then no further one is tried.                                       *)
Grounds(c) ==
  \/ c.at \in {"target", "circuit", "attempt"} /\ ~DeadlineExceeded(c)
  \/ c.at \in {"calling", "exhausted"}
  => Justified(c)

(* What a call is made of at the stages it goes through. *)
Shape(c) ==
  /\ c.op = "embed" => c.key = None /\ c.try = 0
  /\ c.route \in Routes \cup {Unroutable}
  /\ c.target <= Len(c.route) + 1
  /\ c.at \in InBreaker \cup {"circuit"} => c.target <= Len(c.route)
  /\ c.try <= MaxAttempts - 1
  /\ c.elapsed <= Deadline
  /\ c.at = "store" => c.key # None
  /\ c.at \in {"cache", "budget", "route"} => c.log = <<>>
  /\ c.at \in {"cache", "budget", "route", "target", "circuit"} => c.try = 0

GroundsInv ==
  /\ breakers \in [Providers -> Breaker] /\ cached \subseteq Keys
  /\ \A t \in Threads : Shape(call[t]) /\ Grounds(call[t])

(* What is the same of a call wherever it goes. *)
Keeps(c, d) ==
  d.op = c.op /\ d.key = c.key /\ d.route = c.route /\ d.elapsed = c.elapsed

(* What Logged leaves of a call, and the attempt it adds.                  *)
LEMMA LoggedKeeps ==
  ASSUME NEW c \in CallRec, NEW outcome, NEW d, d = Logged(c, outcome)
  PROVE  /\ Keeps(c, d) /\ d.at = c.at /\ d.target = c.target /\ d.try = c.try
         /\ d.log = Append(c.log, [target |-> c.target, outcome |-> outcome])
  BY DEF Logged, CallRec, Keeps

(* A record ends a call where it is.                                       *)
LEMMA RecordedKeeps ==
  ASSUME NEW c \in CallRec, NEW status, NEW d, d = Recorded(c, status)
  PROVE  Keeps(c, d) /\ d.at = "returned" /\ d.target = c.target /\ d.try = c.try
  BY DEF Recorded, CallRec, Keeps

(* The next target is tried from the beginning.                            *)
LEMMA NextTargetKeeps ==
  ASSUME NEW c \in CallRec, NEW d, d = NextTarget(c)
  PROVE  /\ Keeps(c, d) /\ d.at = "target" /\ d.target = c.target + 1 /\ d.try = 0
         /\ d.log = c.log
  BY DEF NextTarget, CallRec, Keeps

(* The entries of a log are finitely many.                                 *)
LEMMA EntriesFinite ==
  ASSUME NEW c \in CallRec, NEW i, NEW outcome
  PROVE  /\ IsFiniteSet(Entries(c, i, outcome))
         /\ Cardinality(Entries(c, i, outcome)) \in Nat
         /\ Cardinality(Entries(c, i, outcome)) = 0 => Entries(c, i, outcome) = {}
<1>1. c.log \in Seq(Attempt)
  BY DEF CallRec
<1>2. Entries(c, i, outcome) \subseteq 1..Len(c.log)
  BY <1>1 DEF Entries
<1>3. IsFiniteSet(1..Len(c.log))
  <2>1. Len(c.log) \in Nat
    BY <1>1
  <2> QED
    BY <2>1, FS_Interval
<1> QED
  BY <1>2, <1>3, FS_Subset, FS_CardinalityType, FS_EmptySet

(* One more attempt is one more entry of its target and outcome, and       *)
(* changes no other entries.                                               *)
LEMMA EntriesLogged ==
  ASSUME NEW c \in CallRec, NEW d, NEW p \in Outcomes, NEW i, NEW o,
         d.log = Append(c.log, [target |-> c.target, outcome |-> p])
  PROVE  /\ i # c.target \/ o # p => Entries(d, i, o) = Entries(c, i, o)
         /\ i = c.target /\ o = p =>
              Cardinality(Entries(d, i, o)) = Cardinality(Entries(c, i, o)) + 1
<1> DEFINE n == Len(c.log) + 1
           a == [target |-> c.target, outcome |-> p]
<1>1. c.log \in Seq(Attempt) /\ Len(c.log) \in Nat /\ a \in Attempt
  BY DEF CallRec, Attempt
<1>2. /\ DOMAIN c.log = 1..Len(c.log) /\ DOMAIN d.log = 1..n /\ n \in 1..n
      /\ n \notin 1..Len(c.log) /\ 1..n = 1..Len(c.log) \cup {n}
      /\ d.log[n] = a /\ \A m \in 1..Len(c.log) : d.log[m] = c.log[m]
  BY <1>1
<1> HIDE DEF n
<1>3. CASE i # c.target \/ o # p
  <2>1. a # [target |-> i, outcome |-> o]
    BY <1>3
  <2> QED
    BY <1>2, <1>3, <2>1 DEF Entries
<1>4. CASE i = c.target /\ o = p
  <2>1. /\ Entries(d, i, o) = Entries(c, i, o) \cup {n}
        /\ n \notin Entries(c, i, o)
    BY <1>2, <1>4 DEF Entries
  <2>2. IsFiniteSet(Entries(c, i, o))
    BY EntriesFinite
  <2>3. Cardinality(Entries(c, i, o) \cup {n}) = Cardinality(Entries(c, i, o)) + 1
    BY <2>1, <2>2, FS_AddElement
  <2> QED
    BY <1>4, <2>1, <2>3
<1> QED
  BY <1>3, <1>4

(* A call with the same attempts has tried the same. *)
LEMMA TriedSame ==
  ASSUME NEW c, NEW d, d.log = c.log, d.op = c.op
  PROVE  /\ \A i, outcome : Entries(d, i, outcome) = Entries(c, i, outcome)
         /\ \A i : Skipped(d, i) = Skipped(c, i)
         /\ \A i : Tried(d, i) <=> Tried(c, i)
  BY DEF Entries, Skipped, Tried, Tries

(* What justified a call still does while nothing is tried.                *)
LEMMA JustifiedSame ==
  ASSUME NEW c, NEW d, d.log = c.log, d.op = c.op, d.target = c.target, d.try = c.try,
         (d.at = "exhausted") <=> (c.at = "exhausted"), Justified(c)
  PROVE  Justified(d)
  BY TriedSame DEF Justified, Tries

(* A log in which nothing is decided has no such entry. *)
LEMMA Undecided ==
  ASSUME NEW c \in CallRec, Open(c.log), NEW i
  PROVE  Entries(c, i, "terminal") \cup Entries(c, i, "success") = {}
<1> SUFFICES ASSUME NEW n \in DOMAIN c.log, NEW o \in {"terminal", "success"},
                    c.log[n] = [target |-> i, outcome |-> o]
             PROVE  FALSE
  BY DEF Entries
<1> QED
  BY DEF Open

(* One more attempt changes nothing of the targets before. *)
LEMMA TriedBefore ==
  ASSUME NEW c \in CallRec, NEW d, NEW p \in Outcomes, d.op = c.op, Justified(c),
         d.log = Append(c.log, [target |-> c.target, outcome |-> p])
  PROVE  /\ \A n \in DOMAIN d.log : d.log[n].target <= c.target
         /\ \A i \in 1..(c.target - 1) : Tried(d, i)
<1> DEFINE a == [target |-> c.target, outcome |-> p]
<1>1. /\ c.log \in Seq(Attempt) /\ Len(c.log) \in Nat /\ c.target \in Nat
      /\ a \in Attempt /\ a.target = c.target
  BY DEF CallRec, Attempt
<1>2. /\ DOMAIN d.log = 1..(Len(c.log) + 1) /\ DOMAIN c.log = 1..Len(c.log)
      /\ d.log[Len(c.log) + 1] = a /\ \A m \in 1..Len(c.log) : d.log[m] = c.log[m]
  BY <1>1
<1>3. ASSUME NEW n \in DOMAIN d.log PROVE d.log[n].target <= c.target
  <2>1. n \in 1..Len(c.log) \/ n = Len(c.log) + 1
    BY <1>1, <1>2
  <2>2. CASE n \in 1..Len(c.log)
    BY <1>2, <2>2 DEF Justified
  <2>3. CASE n = Len(c.log) + 1
    BY <1>1, <1>2, <2>3
  <2> QED
    BY <2>1, <2>2, <2>3
<1>4. ASSUME NEW i \in 1..(c.target - 1) PROVE Tried(d, i)
  <2>1. i # c.target
    BY <1>1
  <2>2. \A o : Entries(d, i, o) = Entries(c, i, o)
    BY <2>1, EntriesLogged
  <2> QED
    BY <2>2 DEF Justified, Tried, Skipped, Tries
<1> QED
  BY <1>3, <1>4

(* A target that is skipped, having been tried never, is done with. *)
LEMMA TriedSkipped ==
  ASSUME NEW c \in CallRec, Justified(c), Open(c.log), c.try = 0, c.at # "exhausted",
         NEW o \in {"circuit_open", "no_embed"}, NEW d \in CallRec, d.op = c.op,
         d.log = Append(c.log, [target |-> c.target, outcome |-> o])
  PROVE  Tried(d, c.target)
<1> DEFINE i == c.target
<1>1. o \in Outcomes
  BY DEF Outcomes
<1>2. /\ Skipped(c, i) = {} /\ Entries(c, i, "retriable") = {}
      /\ Entries(c, i, "circuit_open") = {} /\ Entries(c, i, "no_embed") = {}
      /\ Entries(c, i, "terminal") \cup Entries(c, i, "success") = {}
  <2>1. Skipped(c, i) = {} /\ Cardinality(Entries(c, i, "retriable")) = 0
    BY DEF Justified
  <2> QED
    BY <2>1, EntriesFinite, Undecided DEF Skipped
<1>4. \A p : p # o => Entries(d, i, p) = Entries(c, i, p)
  BY <1>1, EntriesLogged
<1>5. Cardinality(Entries(d, i, o)) = Cardinality(Entries(c, i, o)) + 1
  BY <1>1, EntriesLogged
<1>6. Cardinality(Entries(c, i, o)) = 0
  BY <1>2, FS_EmptySet
<1>7. Skipped(d, i) = Entries(d, i, o)
  BY <1>2, <1>4 DEF Skipped
<1> QED
  BY <1>2, <1>4, <1>5, <1>6, <1>7 DEF Tried

(* A retriable error is one try more. *)
LEMMA TriedOnceMore ==
  ASSUME NEW c \in CallRec, Justified(c), c.at # "exhausted", NEW d,
         d.log = Append(c.log, [target |-> c.target, outcome |-> "retriable"])
  PROVE  /\ Skipped(d, c.target) = {}
         /\ Cardinality(Entries(d, c.target, "retriable")) = c.try + 1
<1> DEFINE i == c.target
<1>1. "retriable" \in Outcomes
  BY DEF Outcomes
<1>2. Skipped(c, i) = {} /\ Cardinality(Entries(c, i, "retriable")) = c.try
  BY DEF Justified
<1>3. \A p : p # "retriable" => Entries(d, i, p) = Entries(c, i, p)
  BY <1>1, EntriesLogged
<1>4. Cardinality(Entries(d, i, "retriable")) = Cardinality(Entries(c, i, "retriable")) + 1
  BY <1>1, EntriesLogged
<1> QED
  BY <1>2, <1>3, <1>4 DEF Skipped

(* On to the next target, of which there is no attempt yet. *)
LEMMA JustifiedNext ==
  ASSUME NEW c \in CallRec, NEW d, d.log = c.log, d.op = c.op,
         d.target = c.target + 1, d.try = 0, d.at = "target",
         \A n \in DOMAIN c.log : c.log[n].target <= c.target,
         \A i \in 1..c.target : Tried(c, i)
  PROVE  Justified(d)
<1>1. c.target \in Nat /\ c.log \in Seq(Attempt)
  BY DEF CallRec
<1>2. ASSUME NEW n \in DOMAIN c.log
      PROVE  c.log[n].target \in Nat /\ c.log[n].target # c.target + 1
  <2>1. c.log[n] \in Attempt
    BY <1>1
  <2>2. c.log[n].target \in Nat /\ c.log[n].target <= c.target
    BY <2>1 DEF Attempt
  <2> QED
    BY <1>1, <2>2
<1>3. \A o : Entries(c, c.target + 1, o) = {}
  BY <1>2 DEF Entries
<1>4. /\ \A n \in DOMAIN d.log : d.log[n].target <= d.target
      /\ \A i \in 1..(d.target - 1) : Tried(d, i)
  BY <1>1, <1>2, TriedSame
<1>5. Skipped(d, d.target) = {} /\ Entries(d, d.target, "retriable") = {}
  BY <1>3, TriedSame DEF Skipped
<1> QED
  BY <1>4, <1>5, FS_EmptySet DEF Justified

(* A call that returns has no more grounds to give. *)
LEMMA ReturnedGrounds ==
  ASSUME NEW c \in CallRec, Shape(c), NEW d, Keeps(c, d), d.at = "returned",
         d.target = c.target, d.try = c.try
  PROVE  Shape(d) /\ Grounds(d)
  BY DEF Shape, Grounds, Keeps, InBreaker

(* A call that only moves to another stage is otherwise what it was. *)
LEMMA MovedKeeps ==
  ASSUME NEW c \in CallRec, NEW at, NEW d, d = [c EXCEPT !.at = at]
  PROVE  /\ Keeps(c, d) /\ d.at = at /\ d.target = c.target /\ d.try = c.try
         /\ d.log = c.log
  BY DEF CallRec, Keeps

(* Having logged nothing, it keeps its grounds. *)
LEMMA MovedGrounds ==
  ASSUME NEW c \in CallRec, Shape(c), Grounds(c), NEW d, Keeps(c, d),
         d.target = c.target, d.try = c.try, d.log = c.log,
         \/ c.at = "cache" /\ d.at = "budget"
         \/ c.at = "budget" /\ d.at = "route"
         \/ c.at = "target" /\ d.at = "circuit" /\ c.target <= Len(c.route)
         \/ c.at = "circuit" /\ d.at = "attempt"
         \/ c.at = "attempt" /\ d.at = "calling" /\ ~DeadlineExceeded(c)
         \/ c.at = "succeeded" /\ d.at = "store" /\ c.key # None
         \/ c.at \in {"succeeded", "store"} /\ d.at = "record"
  PROVE  Shape(d) /\ Grounds(d)
<1>1. Shape(d)
  BY DEF Shape, Keeps, InBreaker
<1>2. DeadlineExceeded(d) <=> DeadlineExceeded(c)
  BY DEF DeadlineExceeded, Keeps
<1>3. ASSUME Justified(c), c.at # "exhausted", d.at # "exhausted" PROVE Justified(d)
  BY <1>3, JustifiedSame DEF Keeps
<1>4. Grounds(d)
  BY <1>2, <1>3 DEF Grounds
<1> QED
  BY <1>1, <1>4

(* A target may be skipped that was not tried yet. *)
LEMMA SkippedGrounds ==
  ASSUME NEW c \in CallRec, Shape(c), Grounds(c), c.at \in {"target", "circuit"},
         c.target >= 1, c.target <= Len(c.route), Open(c.log),
         NEW o \in {"circuit_open", "no_embed"}, NEW d, d = NextTarget(Logged(c, o))
  PROVE  Shape(d) /\ Grounds(d)
<1> DEFINE e == Logged(c, o)
<1>1. o \in Outcomes
  BY DEF Outcomes
<1>2. e \in CallRec
  BY <1>1, LoggedIs
<1>3. /\ Keeps(c, e) /\ e.at = c.at /\ e.target = c.target /\ e.try = c.try
      /\ e.log = Append(c.log, [target |-> c.target, outcome |-> o])
  BY LoggedKeeps
<1>4. /\ Keeps(e, d) /\ d.at = "target" /\ d.target = e.target + 1 /\ d.try = 0
      /\ d.log = e.log
  BY <1>2, NextTargetKeeps
<1> HIDE DEF e
<1>5. Keeps(c, d) /\ d.target = c.target + 1 /\ c.target \in Nat
  BY <1>3, <1>4 DEF Keeps, CallRec
<1>6. Shape(d)
  <2>1. c.route \in Seq(Providers) /\ Len(c.route) \in Nat
    BY DEF CallRec
  <2>2. MaxAttempts \in Nat \ {0}
    BY GatewayAssumption
  <2> QED
    BY <1>4, <1>5, <2>1, <2>2 DEF Shape, Keeps, InBreaker
<1>7. ASSUME ~DeadlineExceeded(d) PROVE Justified(d)
  <2>1. Justified(c) /\ c.try = 0 /\ c.at # "exhausted" /\ e.op = c.op
    BY <1>3, <1>5, <1>7 DEF Grounds, Shape, Keeps, DeadlineExceeded
  <2>2. /\ \A n \in DOMAIN e.log : e.log[n].target <= e.target
        /\ \A i \in 1..(c.target - 1) : Tried(e, i)
    BY <1>1, <1>3, <2>1, TriedBefore
  <2>3. Tried(e, c.target)
    BY <1>2, <1>3, <2>1, TriedSkipped
  <2>4. \A i \in 1..e.target : Tried(e, i)
    <3>1. \A i \in 1..c.target : i \in 1..(c.target - 1) \/ i = c.target
      BY <1>5
    <3> QED
      BY <1>3, <2>2, <2>3, <3>1
  <2> QED
    BY <1>2, <1>4, <2>2, <2>4, JustifiedNext DEF Keeps
<1> QED
  BY <1>4, <1>6, <1>7 DEF Grounds

(* A retriable error is tried again, or was the last the call may have. *)
LEMMA RetriedGrounds ==
  ASSUME NEW c \in CallRec, Shape(c), Grounds(c), c.at = "calling",
         NEW d, Keeps(c, d), d.target = c.target,
         d.log = Append(c.log, [target |-> c.target, outcome |-> "retriable"]),
         \/ c.op = "invoke" /\ RetriesLeft(c) /\ d.at = "attempt" /\ d.try = c.try + 1
         \/ (c.op = "embed" \/ ~RetriesLeft(c)) /\ d.at = "exhausted" /\ d.try = c.try
  PROVE  Shape(d) /\ Grounds(d)
<1>1. c.try \in Nat /\ MaxAttempts \in Nat \ {0} /\ c.op \in {"invoke", "embed"}
  BY GatewayAssumption DEF CallRec
<1>2. Shape(d)
  BY <1>1 DEF Shape, Keeps, InBreaker, RetriesLeft
<1>3. Justified(c) /\ c.at # "exhausted" /\ d.op = c.op
  BY DEF Grounds, Keeps
<1>4. /\ \A n \in DOMAIN d.log : d.log[n].target <= c.target
      /\ \A i \in 1..(c.target - 1) : Tried(d, i)
  <2>1. "retriable" \in Outcomes
    BY DEF Outcomes
  <2> QED
    BY <1>3, <2>1, TriedBefore
<1>5. /\ Skipped(d, c.target) = {}
      /\ Cardinality(Entries(d, c.target, "retriable")) = c.try + 1
  BY <1>3, TriedOnceMore
<1>6. d.at = "exhausted" => c.try + 1 = Tries(d)
  BY <1>1, <1>3 DEF Shape, RetriesLeft, Tries
<1>7. Justified(d)
  BY <1>4, <1>5, <1>6 DEF Justified
<1> QED
  BY <1>2, <1>7 DEF Grounds

(* A target that had all its tries is done with. *)
LEMMA ExhaustedGrounds ==
  ASSUME NEW c \in CallRec, Shape(c), Grounds(c), c.at = "exhausted", c.target >= 1,
         Open(c.log), NEW d, d = NextTarget(c)
  PROVE  Shape(d) /\ Grounds(d)
<1>1. /\ Keeps(c, d) /\ d.at = "target" /\ d.target = c.target + 1 /\ d.try = 0
      /\ d.log = c.log
  BY NextTargetKeeps
<1>2. /\ c.target \in Nat /\ Len(c.route) \in Nat /\ MaxAttempts \in Nat \ {0}
      /\ c.target <= Len(c.route) /\ Justified(c)
  BY GatewayAssumption DEF CallRec, Shape, InBreaker, Grounds
<1>3. Shape(d)
  BY <1>1, <1>2 DEF Shape, Keeps, InBreaker
<1>4. Tried(c, c.target)
  BY <1>2, Undecided DEF Justified, Tried
<1>5. \A i \in 1..c.target : Tried(c, i)
  <2>1. \A i \in 1..c.target : i \in 1..(c.target - 1) \/ i = c.target
    BY <1>2
  <2> QED
    BY <1>2, <1>4, <2>1 DEF Justified
<1>6. Justified(d)
  BY <1>1, <1>2, <1>5, JustifiedNext DEF Keeps, Justified
<1> QED
  BY <1>3, <1>6 DEF Grounds

(* Every step of a call leaves it with the grounds it needs. *)
LEMMA StepGrounds ==
  ASSUME IInv, GroundsInv, NEW t \in Threads, Step(t)
  PROVE  \E d : Update(t, d) /\ Shape(d) /\ Grounds(d)
<1> DEFINE c == call[t]
<1>c. c \in CallRec /\ Shape(c) /\ Grounds(c) /\ LogOK(c)
  BY DEF IInv, CallOK, GroundsInv
<1> HIDE DEF c
<1>l. c.at \in {"target", "circuit", "exhausted"} => c.target >= 1 /\ Open(c.log)
  BY <1>c DEF LogOK
<1>m. ASSUME NEW at, Update(t, [c EXCEPT !.at = at]),
             \/ c.at = "cache" /\ at = "budget"
             \/ c.at = "budget" /\ at = "route"
             \/ c.at = "target" /\ at = "circuit" /\ c.target <= Len(c.route)
             \/ c.at = "attempt" /\ at = "calling" /\ ~DeadlineExceeded(c)
             \/ c.at = "store" /\ at = "record"
      PROVE  \E d : Update(t, d) /\ Shape(d) /\ Grounds(d)
  <2> DEFINE d == [c EXCEPT !.at = at]
  <2>1. /\ Keeps(c, d) /\ d.at = at /\ d.target = c.target /\ d.try = c.try
        /\ d.log = c.log
    BY <1>c, MovedKeeps
  <2> HIDE DEF d
  <2>2. Shape(d) /\ Grounds(d)
    BY <1>c, <1>m, <2>1, MovedGrounds
  <2> QED
    BY <1>m, <2>2 DEF d
<1>r. ASSUME NEW e \in CallRec, Keeps(c, e), e.target = c.target, e.try = c.try,
             NEW status, Update(t, Recorded(e, status))
      PROVE  \E d : Update(t, d) /\ Shape(d) /\ Grounds(d)
  <2> DEFINE d == Recorded(e, status)
  <2>1. Keeps(e, d) /\ d.at = "returned" /\ d.target = e.target /\ d.try = e.try
    BY <1>r, RecordedKeeps
  <2> HIDE DEF d
  <2>2. Keeps(c, d) /\ d.target = c.target /\ d.try = c.try
    BY <1>r, <2>1 DEF Keeps
  <2>3. Shape(d) /\ Grounds(d)
    BY <1>c, <2>1, <2>2, ReturnedGrounds
  <2> QED
    BY <1>r, <2>3 DEF d
<1>k. ASSUME NEW status, Update(t, Recorded(c, status))
      PROVE  \E d : Update(t, d) /\ Shape(d) /\ Grounds(d)
  <2>1. Keeps(c, c)
    BY DEF Keeps
  <2> QED
    BY <1>c, <1>k, <1>r, <2>1
<1>d. ASSUME Update(t, Recorded(Logged(c, "deadline"), "all_failed"))
      PROVE  \E d : Update(t, d) /\ Shape(d) /\ Grounds(d)
  <2> DEFINE e == Logged(c, "deadline")
  <2>1. e \in CallRec
    BY <1>c, LoggedIs DEF Outcomes
  <2>2. Keeps(c, e) /\ e.target = c.target /\ e.try = c.try
    BY <1>c, LoggedKeeps
  <2> HIDE DEF e
  <2>3. Update(t, Recorded(e, "all_failed"))
    BY <1>d DEF e
  <2> QED
    BY <1>r, <2>1, <2>2, <2>3
<1>n. ASSUME NEW o \in {"circuit_open", "no_embed"}, Update(t, NextTarget(Logged(c, o))),
             c.at \in {"target", "circuit"}, c.target <= Len(c.route)
      PROVE  \E d : Update(t, d) /\ Shape(d) /\ Grounds(d)
  BY <1>c, <1>l, <1>n, SkippedGrounds
<1>o. ASSUME NEW o \in Outcomes, NEW at, NEW d, Update(t, d),
             d = [Logged(c, o) EXCEPT !.at = at]
      PROVE  /\ Keeps(c, d) /\ d.at = at /\ d.target = c.target /\ d.try = c.try
             /\ d.log = Append(c.log, [target |-> c.target, outcome |-> o])
  <2> DEFINE e == Logged(c, o)
  <2>1. e \in CallRec
    BY <1>c, LoggedIs
  <2>2. /\ Keeps(c, e) /\ e.target = c.target /\ e.try = c.try
        /\ e.log = Append(c.log, [target |-> c.target, outcome |-> o])
    BY <1>c, LoggedKeeps
  <2> HIDE DEF e
  <2>3. d = [e EXCEPT !.at = at]
    BY <1>o DEF e
  <2>4. /\ Keeps(e, d) /\ d.at = at /\ d.target = e.target /\ d.try = e.try
        /\ d.log = e.log
    BY <2>1, <2>3, MovedKeeps
  <2> QED
    BY <2>2, <2>4 DEF Keeps
<1>1. CASE CacheGet(t)
  <2>1. /\ c.at = "cache"
        /\ Update(t, Recorded(c, "cached")) \/ Update(t, [c EXCEPT !.at = "budget"])
    BY <1>1 DEF CacheGet, c
  <2> QED
    BY <2>1, <1>k, <1>m
<1>2. CASE BudgetCheck(t)
  <2>1. /\ c.at = "budget"
        /\ Update(t, Recorded(c, "budget")) \/ Update(t, [c EXCEPT !.at = "route"])
    BY <1>2 DEF BudgetCheck, c
  <2> QED
    BY <2>1, <1>k, <1>m
<1>3. CASE Resolve(t)
  <2>1. c.at = "route" /\ c.log = <<>> /\ c.try = 0
    BY <1>3, <1>c DEF Resolve, Shape, c
  <2>2. CASE Update(t, Recorded(c, "routing"))
    BY <2>2, <1>k
  <2>3. CASE Update(t, [c EXCEPT !.at = "target", !.target = 1])
    <3> DEFINE d == [c EXCEPT !.at = "target", !.target = 1]
    <3>1. /\ Keeps(c, d) /\ d.at = "target" /\ d.target = 1 /\ d.try = 0
          /\ d.log = <<>>
      BY <1>c, <2>1 DEF CallRec, Keeps
    <3>2. Update(t, d)
      BY <2>3
    <3> HIDE DEF d
    <3>3. Len(c.route) \in Nat /\ MaxAttempts \in Nat \ {0}
      BY <1>c, GatewayAssumption DEF CallRec
    <3>4. Shape(d)
      BY <1>c, <2>1, <3>1, <3>3 DEF Shape, Keeps, InBreaker
    <3>5. DOMAIN d.log = {} /\ 1..(d.target - 1) = {}
      BY <3>1
    <3>6. \A o : Entries(d, d.target, o) = {}
      BY <3>5 DEF Entries
    <3>7. Cardinality({}) = 0
      BY FS_EmptySet
    <3>8. Justified(d)
      BY <3>1, <3>5, <3>6, <3>7 DEF Justified, Skipped
    <3> QED
      BY <3>1, <3>2, <3>4, <3>8 DEF Grounds
  <2> QED
    BY <1>3, <2>2, <2>3 DEF Resolve, c
<1>4. CASE AllFailed(t)
  <2>1. Update(t, Recorded(c, "all_failed"))
    BY <1>4 DEF AllFailed, c
  <2> QED
    BY <2>1, <1>k
<1>5. CASE DeadlineBreak(t) \/ EmbedOutOfTime(t)
  <2>1. Update(t, Recorded(Logged(c, "deadline"), "all_failed"))
    BY <1>5 DEF DeadlineBreak, EmbedOutOfTime, c
  <2> QED
    BY <2>1, <1>d
<1>6. CASE Guards(t) \/ EmbedGuards(t)
  <2>1. /\ c.at = "target" /\ c.target <= Len(c.route)
        /\ \/ Update(t, Recorded(c, "provider"))
           \/ Update(t, Recorded(c, "pricing"))
           \/ Update(t, NextTarget(Logged(c, "no_embed")))
           \/ Update(t, [c EXCEPT !.at = "circuit"])
    BY <1>6 DEF Guards, EmbedGuards, c
  <2> QED
    BY <2>1, <1>k, <1>n, <1>m
<1>7. CASE CircuitBlocked(t)
  <2>1. c.at = "circuit" /\ Update(t, NextTarget(Logged(c, "circuit_open")))
    BY <1>7 DEF CircuitBlocked, c
  <2>2. c.target <= Len(c.route)
    BY <2>1, <1>c DEF Shape
  <2> QED
    BY <2>1, <2>2, <1>n
<1>8. CASE CircuitAllow(t)
  <2> DEFINE role == IF IsOpen(breakers[Provider(c)]) THEN "probe" ELSE "normal"
             d == [c EXCEPT !.at = "attempt", !.age = 0, !.role = role]
  <2>1. c.at = "circuit" /\ Update(t, d)
    BY <1>8 DEF CircuitAllow, c
  <2> HIDE DEF role
  <2>2. /\ Keeps(c, d) /\ d.at = "attempt" /\ d.target = c.target /\ d.try = c.try
        /\ d.log = c.log
    BY <1>c DEF CallRec, Keeps
  <2> HIDE DEF d
  <2> QED
    BY <1>c, <2>1, <2>2, MovedGrounds
<1>9. CASE OutOfTime(t)
  <2> DEFINE d == NextTarget(c)
  <2>1. c.at = "attempt" /\ DeadlineExceeded(c) /\ Update(t, d)
    BY <1>9 DEF OutOfTime, c
  <2>2. Keeps(c, d) /\ d.at = "target" /\ d.target = c.target + 1 /\ d.try = 0
    BY <1>c, NextTargetKeeps
  <2> HIDE DEF d
  <2>3. c.target \in Nat /\ Len(c.route) \in Nat /\ MaxAttempts \in Nat \ {0}
    BY <1>c, GatewayAssumption DEF CallRec
  <2>4. Shape(d)
    BY <1>c, <2>1, <2>2, <2>3 DEF Shape, Keeps, InBreaker
  <2>5. Grounds(d)
    BY <2>1, <2>2 DEF Grounds, DeadlineExceeded, Keeps
  <2> QED
    BY <2>1, <2>4, <2>5
<1>10. CASE CallProvider(t)
  <2>1. /\ c.at = "attempt" /\ ~DeadlineExceeded(c)
        /\ Update(t, [c EXCEPT !.at = "calling"])
    BY <1>10 DEF CallProvider, c
  <2> QED
    BY <2>1, <1>m
<1>11. CASE ProviderReturns(t) \/ ProviderTerminal(t)
  <2>1. PICK o \in {"success", "terminal"}, at \in {"succeeded", "terminal"} :
          c.at = "calling" /\ Update(t, [Logged(c, o) EXCEPT !.at = at])
    BY <1>11 DEF ProviderReturns, ProviderTerminal, c
  <2> DEFINE d == [Logged(c, o) EXCEPT !.at = at]
  <2>2. o \in Outcomes
    BY DEF Outcomes
  <2>3. Keeps(c, d) /\ d.at = at /\ d.target = c.target /\ d.try = c.try
    BY <1>o, <2>1, <2>2
  <2> HIDE DEF d
  <2>4. Shape(d) /\ Grounds(d)
    BY <1>c, <2>1, <2>3 DEF Shape, Grounds, Keeps, InBreaker
  <2> QED
    BY <2>1, <2>4 DEF d
<1>12. CASE ProviderUntyped(t)
  <2> DEFINE d == [c EXCEPT !.at = "returned", !.role = "idle", !.status = "untyped"]
  <2>1. Update(t, d)
    BY <1>12 DEF ProviderUntyped, c
  <2>2. Keeps(c, d) /\ d.at = "returned" /\ d.target = c.target /\ d.try = c.try
    BY <1>c DEF CallRec, Keeps
  <2> HIDE DEF d
  <2> QED
    BY <1>c, <2>1, <2>2, ReturnedGrounds
<1>13. CASE ProviderRetriable(t) \/ EmbedRetriable(t)
  <2>1. "retriable" \in Outcomes
    BY DEF Outcomes
  <2>2. CASE ProviderRetriable(t) /\ RetriesLeft(c)
    <3> DEFINE e == Logged(c, "retriable")
               d == [e EXCEPT !.at = "attempt", !.try = @ + 1]
    <3>1. c.op = "invoke" /\ c.at = "calling" /\ Update(t, d)
      BY <2>2 DEF ProviderRetriable, c
    <3>2. e \in CallRec
      BY <1>c, <2>1, LoggedIs
    <3>3. /\ Keeps(c, e) /\ e.target = c.target /\ e.try = c.try
          /\ e.log = Append(c.log, [target |-> c.target, outcome |-> "retriable"])
      BY <1>c, LoggedKeeps
    <3> HIDE DEF e
    <3>4. /\ Keeps(e, d) /\ d.at = "attempt" /\ d.target = e.target
          /\ d.try = e.try + 1 /\ d.log = e.log
      BY <3>2 DEF CallRec, Keeps
    <3> HIDE DEF d
    <3>5. Keeps(c, d) /\ d.try = c.try + 1
      BY <3>3, <3>4 DEF Keeps
    <3> QED
      BY <1>c, <2>2, <3>1, <3>3, <3>4, <3>5, RetriedGrounds
  <2>3. CASE EmbedRetriable(t) \/ (ProviderRetriable(t) /\ ~RetriesLeft(c))
    <3> DEFINE d == [Logged(c, "retriable") EXCEPT !.at = "exhausted"]
    <3>1. /\ c.op = "embed" \/ ~RetriesLeft(c)
          /\ c.at = "calling" /\ Update(t, d)
      BY <2>3 DEF ProviderRetriable, EmbedRetriable, c
    <3>2. /\ Keeps(c, d) /\ d.at = "exhausted" /\ d.target = c.target /\ d.try = c.try
          /\ d.log = Append(c.log, [target |-> c.target, outcome |-> "retriable"])
      BY <1>o, <2>1, <3>1
    <3> HIDE DEF d
    <3> QED
      BY <1>c, <3>1, <3>2, RetriedGrounds
  <2> QED
    BY <1>13, <2>2, <2>3
<1>14. CASE ReportExhausted(t)
  <2>1. c.at = "exhausted" /\ Update(t, NextTarget(c))
    BY <1>14 DEF ReportExhausted, c
  <2> QED
    BY <1>c, <1>l, <2>1, ExhaustedGrounds
<1>15. CASE ReportTerminal(t)
  <2>1. Update(t, Recorded(c, "terminal"))
    BY <1>15 DEF ReportTerminal, c
  <2> QED
    BY <2>1, <1>k
<1>16. CASE ReportSuccess(t)
  <2> DEFINE at == IF c.key = None THEN "record" ELSE "store"
             d == [c EXCEPT !.at = at, !.role = "idle", !.age = 0]
  <2>1. c.at = "succeeded" /\ Update(t, d)
    BY <1>16 DEF ReportSuccess, c
  <2>2. at = "record" \/ (at = "store" /\ c.key # None)
    BY DEF at
  <2> HIDE DEF at
  <2>3. /\ Keeps(c, d) /\ d.at = at /\ d.target = c.target /\ d.try = c.try
        /\ d.log = c.log
    BY <1>c DEF CallRec, Keeps
  <2> HIDE DEF d
  <2> QED
    BY <1>c, <2>1, <2>2, <2>3, MovedGrounds
<1>17. CASE CacheSet(t)
  <2>1. c.at = "store" /\ Update(t, [c EXCEPT !.at = "record"])
    BY <1>17 DEF CacheSet, c
  <2> QED
    BY <2>1, <1>m
<1>18. CASE RecordSuccess(t)
  <2>1. Update(t, Recorded(c, ServedStatus(c)))
    BY <1>18 DEF RecordSuccess, c
  <2> QED
    BY <2>1, <1>k
<1> QED
  BY <1>1, <1>2, <1>3, <1>4, <1>5, <1>6, <1>7, <1>8, <1>9, <1>10, <1>11, <1>12,
     <1>13, <1>14, <1>15, <1>16, <1>17, <1>18 DEF Step

(* A request that starts has tried nothing. *)
LEMMA StartGrounds ==
  ASSUME NEW t \in Threads, Start(t) \/ EmbedStart(t) \/ Reject(t)
  PROVE  \E d : Update(t, d) /\ Shape(d) /\ Grounds(d)
<1>0. MaxAttempts \in Nat \ {0} /\ Deadline \in Nat
  BY GatewayAssumption
<1>1. PICK d : /\ Update(t, d) /\ d.at \in {"cache", "budget", "returned"}
               /\ d.op = "embed" => d.key = None
               /\ d.at = "cache" => d.key # None
               /\ d.route \in Routes \cup {Unroutable}
               /\ d.target = 0 /\ d.try = 0 /\ d.elapsed = 0 /\ d.log = <<>>
  <2>1. CASE Start(t)
    <3>1. PICK k \in Consumers, r \in Routes \cup {Unroutable}, key \in Keys \cup {None} :
            Update(t, [Idle EXCEPT !.at = IF key = None THEN "budget" ELSE "cache",
                                   !.consumer = k, !.route = r, !.key = key])
      BY <2>1 DEF Start
    <3> DEFINE at == IF key = None THEN "budget" ELSE "cache"
               d == [Idle EXCEPT !.at = at, !.consumer = k, !.route = r, !.key = key]
    <3>2. Update(t, d)
      BY <3>1
    <3>3. at = "budget" \/ (at = "cache" /\ key # None)
      BY DEF at
    <3> HIDE DEF at
    <3>4. /\ d.at = at /\ d.op = "invoke" /\ d.key = key /\ d.route = r
          /\ d.target = 0 /\ d.try = 0 /\ d.elapsed = 0 /\ d.log = <<>>
      BY DEF Idle
    <3> HIDE DEF d
    <3> QED
      BY <3>2, <3>3, <3>4
  <2>2. CASE EmbedStart(t)
    <3>1. PICK k \in Consumers, r \in Routes \cup {Unroutable} :
            Update(t, [Idle EXCEPT !.at = "budget", !.op = "embed",
                                   !.consumer = k, !.route = r])
      BY <2>2 DEF EmbedStart
    <3> DEFINE d == [Idle EXCEPT !.at = "budget", !.op = "embed",
                                 !.consumer = k, !.route = r]
    <3>2. /\ d.at = "budget" /\ d.op = "embed" /\ d.key = None /\ d.route = r
          /\ d.target = 0 /\ d.try = 0 /\ d.elapsed = 0 /\ d.log = <<>>
      BY DEF Idle
    <3>3. Update(t, d)
      BY <3>1
    <3> HIDE DEF d
    <3> QED
      BY <3>2, <3>3
  <2>3. CASE Reject(t)
    <3> DEFINE d == Recorded(Idle, "validation")
    <3>1. /\ d.at = "returned" /\ d.op = "invoke" /\ d.route = <<>>
          /\ d.target = 0 /\ d.try = 0 /\ d.elapsed = 0 /\ d.log = <<>>
      BY DEF Recorded, Idle
    <3>2. Update(t, d)
      BY <2>3 DEF Reject
    <3> HIDE DEF d
    <3> QED
      BY <3>1, <3>2 DEF Unroutable
  <2> QED
    BY <2>1, <2>2, <2>3
<1>2. d.route \in Seq(Providers) /\ Len(d.route) \in Nat
  <2>1. <<>> \in Seq(Providers) /\ Routes \subseteq Seq(Providers)
    BY GatewayAssumption
  <2>2. d.route \in Seq(Providers)
    BY <1>1, <2>1 DEF Unroutable
  <2> QED
    BY <2>2
<1>3. Shape(d)
  BY <1>0, <1>1, <1>2 DEF Shape, InBreaker
<1>4. Grounds(d)
  BY <1>1 DEF Grounds
<1> QED
  BY <1>1, <1>3, <1>4

(* Calls grow older together, which gives none of them more time. *)
LEMMA AgedTogether ==
  ASSUME IInv, GroundsInv, Tick, NEW t \in Threads
  PROVE  Shape(call'[t]) /\ Grounds(call'[t])
<1> DEFINE c == call[t]
           d == call'[t]
           elapsed == IF c.at \in {"idle", "returned"} \/ c.elapsed = Deadline
                      THEN c.elapsed ELSE c.elapsed + 1
           age == IF c.role = "probe" THEN Older(c.age) ELSE c.age
<1>1. c \in CallRec /\ Shape(c) /\ Grounds(c) /\ c.elapsed \in Nat /\ Deadline \in Nat
  BY GatewayAssumption DEF IInv, CallOK, GroundsInv, CallRec
<1>2. d = [c EXCEPT !.elapsed = elapsed, !.age = age]
  BY DEF Tick
<1>3. elapsed \in Nat /\ c.elapsed <= elapsed /\ elapsed <= Deadline
  BY <1>1 DEF Shape
<1> HIDE DEF c, d, elapsed, age
<1>4. /\ d.at = c.at /\ d.op = c.op /\ d.key = c.key /\ d.route = c.route
      /\ d.target = c.target /\ d.try = c.try /\ d.log = c.log
      /\ d.elapsed = elapsed
  BY <1>1, <1>2 DEF CallRec
<1>5. Shape(d)
  BY <1>1, <1>3, <1>4 DEF Shape
<1>6. DeadlineExceeded(c) => DeadlineExceeded(d)
  BY <1>1, <1>3, <1>4 DEF DeadlineExceeded
<1>7. Justified(c) => Justified(d)
  BY <1>4, JustifiedSame
<1>8. Grounds(d)
  BY <1>1, <1>4, <1>6, <1>7 DEF Grounds
<1> QED
  BY <1>5, <1>8 DEF d

(* What the breakers do to their state, and the cache to its keys, is of   *)
(* the types they have.                                                    *)
LEMMA BreakerTyped ==
  ASSUME NEW b \in Breaker
  PROVE  AfterAllow(b) \in Breaker /\ AfterSuccess(b) \in Breaker
         /\ AfterFailure(b) \in Breaker /\ Elapse(b) \in Breaker
<1>1. 0 \in Elapsed \cup {None} /\ None \in Elapsed \cup {None} /\ Threshold \in Nat
  BY BreakerAssumption DEF Elapsed
<1>2. b.fails \in Nat /\ b.openFor \in Elapsed \cup {None} /\ b.probeFor \in Elapsed \cup {None}
  BY DEF Breaker
<1>3. \A s \in Elapsed \cup {None} : Older(s) \in Elapsed \cup {None}
  BY BreakerAssumption DEF Older, Elapsed
<1>4. AfterAllow(b) \in Breaker
  BY <1>1 DEF AfterAllow, Breaker
<1>5. AfterSuccess(b) \in Breaker
  BY <1>1 DEF AfterSuccess, Breaker, Closed
<1>6. AfterFailure(b) \in Breaker
  <2>1. [fails |-> Threshold, openFor |-> 0, probeFor |-> None] \in Breaker
    BY <1>1 DEF Breaker
  <2>2. ASSUME NEW s \in Elapsed \cup {None}
        PROVE  [b EXCEPT !.fails = b.fails + 1, !.openFor = s] \in Breaker
    <3>1. b.fails + 1 \in Nat
      BY <1>2
    <3> QED
      BY <3>1 DEF Breaker
  <2> QED
    BY <1>1, <1>2, <2>1, <2>2 DEF AfterFailure
<1>7. Elapse(b) \in Breaker
  BY <1>2, <1>3 DEF Elapse, Breaker
<1> QED
  BY <1>4, <1>5, <1>6, <1>7

(* So every step keeps the types of the breakers and of the cache.         *)
LEMMA TablesTyped ==
  ASSUME IInv, GroundsInv, [Next]_vars
  PROVE  breakers' \in [Providers -> Breaker] /\ cached' \subseteq Keys
<1>1. CASE UNCHANGED breakers /\ cached' \subseteq Keys
  BY <1>1 DEF GroundsInv
<1>2. CASE Tick
  BY <1>2, BreakerTyped DEF Tick, GroundsInv
<1>4. ASSUME NEW t \in Threads, CircuitAllow(t)
      PROVE  breakers' \in [Providers -> Breaker] /\ cached' \subseteq Keys
  BY <1>4, BreakerTyped DEF CircuitAllow, GroundsInv
<1>5. ASSUME NEW t \in Threads, ReportExhausted(t) \/ ReportTerminal(t)
      PROVE  breakers' \in [Providers -> Breaker] /\ cached' \subseteq Keys
  BY <1>5, BreakerTyped DEF ReportExhausted, ReportTerminal, Failed, GroundsInv
<1>6. ASSUME NEW t \in Threads, ReportSuccess(t)
      PROVE  breakers' \in [Providers -> Breaker] /\ cached' \subseteq Keys
  BY <1>6, BreakerTyped DEF ReportSuccess, GroundsInv
<1>7. ASSUME NEW t \in Threads, CacheSet(t)
      PROVE  UNCHANGED breakers /\ cached' \subseteq Keys
  <2>1. call[t] \in CallRec /\ Shape(call[t]) /\ call[t].at = "store"
    BY <1>7 DEF IInv, CallOK, GroundsInv, CacheSet
  <2>2. call[t].key \in Keys
    BY <2>1 DEF CallRec, Shape
  <2> QED
    BY <1>7, <2>2 DEF CacheSet, GroundsInv
<1>8. ASSUME NEW t \in Threads,
             \/ Start(t) \/ EmbedStart(t) \/ Reject(t)
             \/ CacheGet(t) \/ BudgetCheck(t) \/ Resolve(t)
             \/ AllFailed(t) \/ DeadlineBreak(t) \/ Guards(t) \/ EmbedGuards(t)
             \/ CircuitBlocked(t)
             \/ OutOfTime(t) \/ EmbedOutOfTime(t) \/ CallProvider(t)
             \/ ProviderReturns(t) \/ ProviderTerminal(t) \/ ProviderUntyped(t)
             \/ ProviderRetriable(t) \/ EmbedRetriable(t)
             \/ RecordSuccess(t)
      PROVE  UNCHANGED <<breakers, cached>>
  BY <1>8 DEF Start, EmbedStart, Reject, CacheGet, BudgetCheck, Resolve, AllFailed,
       DeadlineBreak, Guards, EmbedGuards, CircuitBlocked, OutOfTime, EmbedOutOfTime,
       CallProvider, ProviderReturns, ProviderTerminal, ProviderUntyped,
       ProviderRetriable, EmbedRetriable, RecordSuccess
<1>9. ASSUME NEW key \in Keys, CacheExpire(key) PROVE UNCHANGED breakers /\ cached' \subseteq Keys
  BY <1>9 DEF CacheExpire, GroundsInv
<1>10. UNCHANGED <<breakers, cached>> => UNCHANGED breakers /\ cached' \subseteq Keys
  BY DEF GroundsInv
<1>11. CASE UNCHANGED vars
  BY <1>1, <1>10, <1>11 DEF vars
<1>12. CASE Next
  BY <1>12, <1>1, <1>2, <1>4, <1>5, <1>6, <1>7, <1>8, <1>9, <1>10 DEF Next, Step
<1> QED
  BY <1>11, <1>12

(* Every step keeps the grounds of all calls.                              *)
LEMMA NextGrounds == IInv /\ GroundsInv /\ [Next]_vars => GroundsInv'
<1> SUFFICES ASSUME IInv, GroundsInv, [Next]_vars
             PROVE  \A t \in Threads : Shape(call'[t]) /\ Grounds(call'[t])
  BY TablesTyped DEF GroundsInv
<1>1. ASSUME NEW t \in Threads, \E d : Update(t, d) /\ Shape(d) /\ Grounds(d), NEW s \in Threads
      PROVE  Shape(call'[s]) /\ Grounds(call'[s])
  <2>1. PICK d : Update(t, d) /\ Shape(d) /\ Grounds(d)
    BY <1>1
  <2>2. call'[s] = IF s = t THEN d ELSE call[s]
    BY <2>1 DEF Update, IInv
  <2> QED
    BY <2>1, <2>2 DEF GroundsInv
<1>2. ASSUME NEW t \in Threads, Start(t) \/ EmbedStart(t) \/ Reject(t) \/ Step(t)
      PROVE  \E d : Update(t, d) /\ Shape(d) /\ Grounds(d)
  BY <1>2, StartGrounds, StepGrounds
<1>3. CASE Tick
  BY <1>3, AgedTogether
<1>4. CASE UNCHANGED call
  BY <1>4 DEF GroundsInv
<1>5. ASSUME NEW key \in Keys, CacheExpire(key) PROVE UNCHANGED call
  BY <1>5 DEF CacheExpire
<1>6. CASE UNCHANGED vars
  BY <1>4, <1>6 DEF vars
<1> QED
  BY <1>1, <1>2, <1>3, <1>4, <1>5, <1>6 DEF Next

(* Calls that have not begun need none.                                    *)
LEMMA InitGrounds == Init => GroundsInv
<1> SUFFICES ASSUME Init PROVE GroundsInv
  OBVIOUS
<1>1. Closed \in Breaker
  BY BreakerAssumption DEF Closed, Breaker, Elapsed
<1>2. breakers \in [Providers -> Breaker] /\ cached \subseteq Keys
  BY <1>1 DEF Init
<1>3. MaxAttempts \in Nat \ {0} /\ Deadline \in Nat
  BY GatewayAssumption
<1>4. Shape(Idle) /\ Grounds(Idle)
  BY <1>3 DEF Shape, Grounds, Idle, InBreaker, Unroutable
<1> QED
  BY <1>2, <1>4 DEF GroundsInv, Init

(* Every variable of the gateway has its type, for any threads, routes and *)
(* deadline: in particular the target never runs past the end of the route *)
(* by more than one, and a call has a role exactly while a breaker waits   *)
(* for its report.                                                         *)
THEOREM TypeCorrectness == Spec => []TypeOK
<1>1. Spec => []GroundsInv
  BY InitGrounds, NextGrounds, Invariance, PTL DEF Spec
<1>2. Spec => []RoleInv
  <2>1. IInv /\ RoleInv /\ [Next]_vars => RoleInv'
    BY NextRoleInv
  <2>2. Init => RoleInv
    BY InitRoleInv
  <2> QED
    BY <2>1, <2>2, Invariance, PTL DEF Spec
<1>3. IInv /\ RoleInv /\ GroundsInv => TypeOK
  <2> SUFFICES ASSUME IInv, RoleInv, GroundsInv, NEW t \in Threads
               PROVE  LET c == call[t] IN
                      /\ c.at \in Stages
                      /\ c.op \in {"invoke", "embed"}
                      /\ c.op = "embed" => c.key = None /\ c.try = 0
                      /\ c.consumer \in Consumers \cup {None}
                      /\ c.key \in Keys \cup {None}
                      /\ c.route \in Routes \cup {Unroutable}
                      /\ c.target \in 0..(Len(c.route) + 1)
                      /\ c.try \in 0..(MaxAttempts - 1)
                      /\ c.elapsed \in 0..Deadline
                      /\ (c.role # "idle" <=>
                            c.at \in {"attempt", "calling", "succeeded", "terminal",
                                      "exhausted"})
                      /\ \A i \in DOMAIN c.log : c.log[i].outcome \in Outcomes
    BY DEF TypeOK, GroundsInv
  <2> DEFINE c == call[t]
  <2>1. c \in CallRec /\ Shape(c) /\ RoleOK(c)
    BY DEF IInv, CallOK, GroundsInv, RoleInv
  <2> HIDE DEF c
  <2>2. /\ c.target \in Nat /\ c.try \in Nat /\ c.elapsed \in Nat /\ Len(c.route) \in Nat
        /\ MaxAttempts \in Nat \ {0} /\ Deadline \in Nat
    BY <2>1, GatewayAssumption DEF CallRec
  <2>3. /\ c.target \in 0..(Len(c.route) + 1) /\ c.try \in 0..(MaxAttempts - 1)
        /\ c.elapsed \in 0..Deadline
    BY <2>1, <2>2 DEF Shape
  <2>4. \A i \in DOMAIN c.log : c.log[i].outcome \in Outcomes
    <3>1. c.log \in Seq(Attempt)
      BY <2>1 DEF CallRec
    <3>2. ASSUME NEW i \in DOMAIN c.log PROVE c.log[i].outcome \in Outcomes
      <4>1. c.log[i] \in Attempt
        BY <3>1
      <4> QED
        BY <4>1 DEF Attempt
    <3> QED
      BY <3>2
  <2>5. /\ c.at \in Stages /\ c.op \in {"invoke", "embed"}
        /\ c.consumer \in Consumers \cup {None} /\ c.key \in Keys \cup {None}
    BY <2>1 DEF CallRec
  <2>6. /\ c.op = "embed" => c.key = None /\ c.try = 0
        /\ c.route \in Routes \cup {Unroutable}
        /\ (c.role # "idle" <=>
              c.at \in {"attempt", "calling", "succeeded", "terminal", "exhausted"})
    BY <2>1 DEF Shape, RoleOK, InBreaker
  <2> QED
    BY <2>3, <2>4, <2>5, <2>6 DEF c
<1> QED
  BY <1>1, <1>2, <1>3, Invariance, PTL

(* A fallback is tried for a reason (the loop of gateway.py over the       *)
(* targets): every earlier target was skipped once or had all its tries,   *)
(* and none of them decided the call.                                      *)
THEOREM FallbacksAreJustified == Spec => []FallbackJustified
<1>1. Spec => []GroundsInv
  BY InitGrounds, NextGrounds, Invariance, PTL DEF Spec
<1>2. GroundsInv => FallbackJustified
  <2> SUFFICES ASSUME GroundsInv, NEW t \in Threads, call[t].at = "calling"
               PROVE  \A i \in 1..(call[t].target - 1) : Tried(call[t], i)
    BY DEF FallbackJustified, Tried, Tries
  <2> QED
    BY DEF GroundsInv, Grounds, Justified
<1> QED
  BY <1>1, <1>2, PTL
=============================================================================
