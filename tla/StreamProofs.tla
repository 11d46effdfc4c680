---------------------------- MODULE StreamProofs ----------------------------
(***************************************************************************)
(* One voice, no stream left open, one record and a true charge, for every *)
(* chain of targets, with or without a deadline, whatever the providers    *)
(* and the client do.  The HTTP handler drives the stream as any client    *)
(* may, so all of it holds behind the server too.                          *)
(***************************************************************************)
EXTENDS ServerStream, FiniteSetTheorems, SequenceTheorems, TLAPS

(* Where the call has not heard its current target yet. *)
Silent == {"start", "target", "guarded", "first"}

(* Where the current target's stream is past or not begun. *)
Settled == Ends \cup {"start", "target", "guarded",
                      "yield_truncated", "yield_done",
                      "yield_buffered_text", "yield_buffered"}

(* Text was heard of the current target only, and either that is           *)
(* remembered or the call is past its last error.                          *)
Voice == \/ heard = {}
         \/ /\ heard = {target} /\ at \notin Silent
            /\ emitted \/ at \in Ends \cup {"yield_buffered_text", "yield_buffered"}

Shut == at \in Settled => upstream # "open"

IInv == Voice /\ Shut
----------------------------------------------------------------------------
(* A stream that has not started satisfies the invariant. *)
LEMMA InitIInv == Init => IInv
  BY DEF Init, IInv, Voice, Shut

(* Text is heard by Take and from a buffered answer only, and a target is  *)
(* left behind while it may have been heard only by Break, which must not. *)
LEMMA NextIInv == IInv /\ [Next]_vars => IInv'
<1> SUFFICES ASSUME IInv, [Next]_vars PROVE IInv'
  OBVIOUS
<1> USE DEF IInv, Voice, Shut, Silent, Settled, Ends, NoHistory
<1>1. CASE Admit
  BY <1>1 DEF Admit, Record
<1>2. CASE AllFailed
  BY <1>2 DEF AllFailed, Record
<1>3. CASE Guards
  BY <1>3 DEF Guards, Record
<1>4. CASE Buffered
  <2>1. Voice'
    <3>1. heard = {} /\ heard' \subseteq {target}
      BY <1>4 DEF Buffered
    <3>2. heard' # {} => at' = "yield_buffered_text" /\ target' = target
      BY <1>4, <3>1 DEF Buffered
    <3> QED
      BY <3>1, <3>2
  <2>2. Shut'
    BY <1>4 DEF Buffered
  <2> QED
    BY <2>1, <2>2
<1>5. CASE Open
  BY <1>5 DEF Open
<1>6. CASE First
  BY <1>6 DEF First, Record, Report
<1>7. CASE Pull
  BY <1>7 DEF Pull
<1>8. CASE Truncate
  BY <1>8 DEF Truncate, Record
<1>9. CASE Take
  <2>1. Voice'
    BY <1>9 DEF Take
  <2>2. Shut'
    BY <1>9 DEF Take
  <2> QED
    BY <2>1, <2>2
<1>10. CASE Break
  BY <1>10 DEF Break, MayFallBack, Record, Report
<1>11. CASE Finish
  BY <1>11 DEF Finish, Record, Report
<1>12. CASE Resume
  BY <1>12 DEF Resume, Yields
<1>13. CASE CloseInTry
  BY <1>13 DEF CloseInTry, Record
<1>14. CASE CloseAfter
  BY <1>14 DEF CloseAfter
<1>15. CASE DeadlinePasses
  BY <1>15 DEF DeadlinePasses
<1>16. CASE UNCHANGED vars
  BY <1>16 DEF vars
<1> QED
  BY <1>1, <1>2, <1>3, <1>4, <1>5, <1>6, <1>7, <1>8, <1>9, <1>10, <1>11, <1>12,
     <1>13, <1>14, <1>15, <1>16 DEF Next, Run, Ended

(* The invariant holds in every state a call can reach. *)
THEOREM Invariance == Spec => []IInv
  BY InitIInv, NextIInv, PTL DEF Spec

(* Whatever fails and wherever, _native_target falls back only while the   *)
(* client has heard nothing: the text of two providers is never spliced.   *)
THEOREM NeverSpliced == Spec => []OneVoice
<1>1. IInv => OneVoice
  <2>1. Cardinality({}) = 0 /\ Cardinality({target}) = 1
    BY FS_EmptySet, FS_Singleton
  <2> QED
    BY <2>1 DEF IInv, Voice, OneVoice
<1> QED
  BY <1>1, Invariance, PTL

(* Every way out of _native_target closes the provider's stream first: it  *)
(* is open neither behind a call nor while the next target is tried.       *)
THEOREM NothingLeftOpen == Spec => []StreamsClosed
<1>1. IInv => StreamsClosed
  BY DEF IInv, Shut, StreamsClosed, Settled
<1> QED
  BY <1>1, Invariance, PTL
----------------------------------------------------------------------------
(* The books of a call: when its record is written, and that the counts    *)
(* _native_target keeps are those of the target it is reading.             *)
Unrecorded == {"start", "target", "guarded", "first", "pull", "got", "yield_text", "untyped"}

Offered == {"yield_truncated", "yield_done", "yield_buffered_text", "yield_buffered"}

Served == {"success", "fallback_success", "deadline"}

Ledger ==
  /\ at \in Unrecorded \cup Offered \cup Ends
  /\ at \in Unrecorded => records = <<>>
  /\ at \in Offered \cup {"returned", "raised"} => records = <<records[1]>>
  /\ at = "closed" => Len(records) = 1 \/ left = "yield_truncated"
  /\ at \in Offered \cup {"returned"} => records[1].status \in Served

Place ==
  /\ target \in Nat
  /\ at = "start" => target = 0
  /\ at \in {"guarded", "first", "pull", "got", "yield_text"} \cup Offered => target \in Targets
  /\ at = "target" => target # 0
  /\ usage \in Usages
  /\ at = "got" => chunk \in Chunks

Meterings == [last : Usages, before : Usages]

(* What the call knows of its target is what the target's stream brought,  *)
(* but for a chunk that was pulled and not taken.                          *)
Meter ==
  /\ metered \in [Targets -> Meterings]
  /\ \A i \in Targets :
       i > target \/ (i = target /\ at \in Silent) => metered[i].last = NoUsage
  /\ at = "first" => usage = NoUsage
  /\ at = "got" => /\ usage = metered[target].before
                   /\ metered[target].last = Latest(usage, chunk.usage)
  /\ at \in {"pull", "yield_text"} => usage = metered[target].last
  /\ at \in Offered => records[1].cost = usage
  /\ at \in Offered \cup Ends /\ Len(records) = 1 /\ records[1].status \notin Refusals =>
        records[1].cost = IF records[1].status = "deadline"
                          THEN metered[target].before ELSE metered[target].last

Books == Ledger /\ Place /\ Meter

(* The first record written is the only one. *)
LEMMA FirstRecord ==
  ASSUME records = <<>>, NEW result, NEW cost, Record(result, cost)
  PROVE  /\ records' = <<records'[1]>> /\ Len(records') = 1
         /\ records'[1].status = result /\ records'[1].cost = cost
  BY DEF Record

(* The usages, and that to bring counts is to take the latest of each.     *)
LEMMA UsageFacts ==
  /\ NoUsage \in Usages
  /\ \A known, carried \in Usages : Latest(known, carried) \in Usages
  /\ \A carried \in Usages : Latest(NoUsage, carried) = carried
<1>1. NoUsage \in Usages
  BY StreamAssumption DEF NoUsage, Usages
<1>2. \A known, carried \in Usages : Latest(known, carried) \in Usages
  BY DEF Usages, Latest
<1>3. ASSUME NEW carried \in Usages PROVE Latest(NoUsage, carried) = carried
  <2>1. \A c \in Counts : carried[c] = IF carried[c] # 0 THEN carried[c] ELSE NoUsage[c]
    BY DEF NoUsage
  <2>2. carried = [c \in Counts |-> carried[c]]
    BY DEF Usages
  <2> QED
    BY <2>1, <2>2 DEF Latest
<1> QED
  BY <1>1, <1>2, <1>3

(* What a chunk brings is remembered for its target alone. *)
LEMMA BringsCounts ==
  ASSUME metered \in [Targets -> Meterings], target \in Targets,
         NEW counts \in Usages, Brings(counts)
  PROVE  /\ metered' \in [Targets -> Meterings]
         /\ metered'[target].before = metered[target].last
         /\ metered'[target].last = Latest(metered[target].last, counts)
         /\ \A i \in Targets : i # target => metered'[i] = metered[i]
<1> DEFINE new == [last   |-> [c \in Counts |-> IF counts[c] > 0 THEN counts[c]
                                               ELSE metered[target].last[c]],
                   before |-> metered[target].last]
<1>1. metered' = [metered EXCEPT ![target] = new]
  BY DEF Brings
<1>2. metered[target].last \in Usages
  BY DEF Meterings
<1>3. \A c \in Counts : counts[c] > 0 <=> counts[c] # 0
  BY StreamAssumption DEF Usages
<1>4. new.last = Latest(metered[target].last, counts)
  BY <1>3 DEF Latest
<1>5. new.last \in Usages
  BY <1>2, <1>4, UsageFacts
<1>6. new \in Meterings /\ new.before = metered[target].last
  BY <1>2, <1>5 DEF Meterings
<1> HIDE DEF new
<1> QED
  BY <1>1, <1>4, <1>6

(* Before the call there is nothing to record. *)
LEMMA InitBooks == Init => Books
<1> SUFFICES ASSUME Init PROVE Books
  OBVIOUS
<1>1. Ledger /\ Place
  BY UsageFacts DEF Init, Ledger, Place, Unrecorded, Offered, Ends
<1>2. [last |-> NoUsage, before |-> NoUsage] \in Meterings
  BY UsageFacts DEF Meterings
<1>3. /\ metered \in [Targets -> Meterings] /\ at = "start"
      /\ \A i \in Targets : metered[i].last = NoUsage
  BY <1>2 DEF Init
<1>4. Meter
  BY <1>3 DEF Meter, Offered, Ends
<1> QED
  BY <1>1, <1>4 DEF Books

(* Every step keeps the record and the charge true to what was received. *)
LEMMA NextBooks == Books /\ [Next]_vars => Books'
<1> SUFFICES ASSUME Books, [Next]_vars PROVE Books'
  OBVIOUS
<1>k. Targets = 1..Len(Kinds) /\ Len(Kinds) \in Nat /\ NoUsage \in Usages
  BY StreamAssumption, UsageFacts DEF Targets
<1> USE <1>k DEF Books, Unrecorded, Offered, Served, Silent, Ends, NoHistory
<1>got. ASSUME at \in {"first", "pull"}, records = <<>>, target \in Targets,
               usage = metered[target].last, NEW ch \in Chunks, chunk' = ch,
               Brings(ch.usage), at' = "got", UNCHANGED <<target, records, usage, left>>
        PROVE  Books'
  <2>1. ch.usage \in Usages
    BY <1>got DEF Chunks
  <2>2. metered \in [Targets -> Meterings]
    BY DEF Meter
  <2>3. /\ metered' \in [Targets -> Meterings]
        /\ metered'[target].before = usage
        /\ metered'[target].last = Latest(usage, ch.usage)
        /\ \A i \in Targets : i # target => metered'[i] = metered[i]
    BY <1>got, <2>1, <2>2, BringsCounts
  <2>4. \A i \in Targets : i > target => metered'[i].last = NoUsage
    BY <2>3 DEF Meter, Place
  <2>5. Ledger' /\ Place'
    BY <1>got DEF Ledger, Place
  <2>6. Meter'
    BY <1>got, <2>3, <2>4 DEF Meter
  <2> QED
    BY <2>5, <2>6
<1>1. CASE Admit
  <2>1. /\ at = "start" /\ records = <<>> /\ target = 0
        /\ UNCHANGED <<usage, metered, chunk, left>>
    BY <1>1 DEF Admit, Ledger, Place
  <2>2. CASE at' = "target" /\ target' = 1 /\ UNCHANGED records
    BY <2>1, <2>2 DEF Ledger, Place, Meter
  <2>3. ASSUME NEW why \in {"validation", "budget", "routing"}, Record(why, NoUsage),
               at' = "raised", UNCHANGED target
        PROVE  Books'
    BY <2>1, <2>3, FirstRecord DEF Ledger, Place, Meter, Refusals
  <2> QED
    BY <1>1, <2>2, <2>3 DEF Admit
<1>2. CASE AllFailed
  <2>1. /\ at = "target" /\ records = <<>> /\ at' = "raised" /\ Record("all_failed", NoUsage)
        /\ UNCHANGED <<target, usage, metered, chunk, left>>
    BY <1>2 DEF AllFailed, Ledger
  <2> QED
    BY <2>1, FirstRecord DEF Ledger, Place, Meter, Refusals
<1>3. CASE Guards
  <2>1. /\ at = "target" /\ records = <<>> /\ target \in Targets
        /\ UNCHANGED <<usage, metered, chunk, left>>
    BY <1>3 DEF Guards, Ledger, Place
  <2>2. ASSUME NEW why \in {"provider", "pricing"}, Record(why, NoUsage),
               at' = "raised", UNCHANGED target
        PROVE  Books'
    BY <2>1, <2>2, FirstRecord DEF Ledger, Place, Meter, Refusals
  <2>3. CASE target' = target + 1 /\ UNCHANGED <<at, records>>
    BY <2>1, <2>3 DEF Ledger, Place, Meter
  <2>4. CASE at' = "guarded" /\ UNCHANGED <<target, records>>
    BY <2>1, <2>4 DEF Ledger, Place, Meter
  <2> QED
    BY <1>3, <2>2, <2>3, <2>4 DEF Guards
<1>4. CASE Buffered
  <2>1. /\ at = "guarded" /\ records = <<>> /\ target \in Targets
        /\ UNCHANGED <<chunk, left>>
    BY <1>4 DEF Buffered, Ledger, Place
  <2>2. ASSUME NEW counts \in Usages, Record(OkStatus, counts), usage' = counts,
               Brings(counts), UNCHANGED target,
               at' \in {"yield_buffered_text", "yield_buffered"}
        PROVE  Books'
    <3>1. OkStatus \in Served /\ OkStatus # "deadline"
      BY DEF OkStatus
    <3>2. records' = <<records'[1]>> /\ records'[1].status = OkStatus /\ records'[1].cost = counts
      BY <2>1, <2>2, FirstRecord
    <3>3. metered[target].last = NoUsage /\ metered \in [Targets -> Meterings]
      BY <2>1 DEF Meter
    <3>4. /\ metered' \in [Targets -> Meterings]
          /\ metered'[target].last = counts
          /\ \A i \in Targets : i # target => metered'[i] = metered[i]
      BY <2>1, <2>2, <3>3, BringsCounts, UsageFacts
    <3>5. Ledger'
      BY <2>1, <2>2, <3>1, <3>2 DEF Ledger
    <3>6. Place'
      BY <2>1, <2>2 DEF Place
    <3>7. \A i \in Targets : i > target => metered'[i].last = NoUsage
      BY <2>1, <3>4 DEF Meter, Place
    <3>8. Meter'
      BY <2>1, <2>2, <3>1, <3>2, <3>4, <3>7 DEF Meter
    <3> QED
      BY <3>5, <3>6, <3>8
  <2>3. CASE /\ Record("terminal", NoUsage) /\ at' = "raised"
             /\ UNCHANGED <<target, usage, metered>>
    BY <2>1, <2>3, FirstRecord DEF Ledger, Place, Meter, Refusals
  <2>4. CASE at' = "target" /\ target' = target + 1 /\ UNCHANGED <<records, usage, metered>>
    BY <2>1, <2>4 DEF Ledger, Place, Meter
  <2>5. CASE at' = "untyped" /\ UNCHANGED <<target, records, usage, metered>>
    BY <2>1, <2>5 DEF Ledger, Place, Meter
  <2> QED
    BY <1>4, <2>2, <2>3, <2>4, <2>5 DEF Buffered
<1>5. CASE Open
  <2>1. /\ at = "guarded" /\ records = <<>> /\ target \in Targets
        /\ UNCHANGED <<chunk, records, metered, left>>
    BY <1>5 DEF Open, Ledger, Place
  <2>2. CASE at' = "target" /\ target' = target + 1 /\ UNCHANGED usage
    BY <2>1, <2>2 DEF Ledger, Place, Meter
  <2>3. CASE at' = "first" /\ usage' = NoUsage /\ UNCHANGED target
    BY <2>1, <2>3 DEF Ledger, Place, Meter
  <2> QED
    BY <1>5, <2>2, <2>3 DEF Open
<1>6. CASE First
  <2>1. /\ at = "first" /\ records = <<>> /\ target \in Targets
        /\ UNCHANGED <<usage, left>>
    BY <1>6 DEF First, Ledger, Place
  <2>2. ASSUME NEW ch \in Chunks, chunk' = ch, Brings(ch.usage), at' = "got",
               UNCHANGED <<target, records>>
        PROVE  Books'
    <3>1. usage = metered[target].last
      BY <2>1 DEF Meter
    <3> QED
      BY <2>1, <2>2, <3>1, <1>got
  <2>3. CASE at' = "pull" /\ UNCHANGED <<target, chunk, records, metered>>
    BY <2>1, <2>3 DEF Ledger, Place, Meter
  <2>4. CASE Record("terminal", NoUsage) /\ at' = "raised" /\ UNCHANGED <<target, chunk, metered>>
    BY <2>1, <2>4, FirstRecord DEF Ledger, Place, Meter, Refusals
  <2>5. CASE at' = "target" /\ target' = target + 1 /\ UNCHANGED <<chunk, records, metered>>
    BY <2>1, <2>5 DEF Ledger, Place, Meter
  <2> QED
    BY <1>6, <2>2, <2>3, <2>4, <2>5 DEF First
<1>7. CASE Pull
  <2>1. /\ at = "pull" /\ records = <<>> /\ target \in Targets /\ at' = "got"
        /\ UNCHANGED <<usage, left, target, records>>
    BY <1>7 DEF Pull, Ledger, Place
  <2>2. PICK ch \in Chunks : chunk' = ch /\ Brings(ch.usage)
    BY <1>7 DEF Pull
  <2>3. usage = metered[target].last
    BY <2>1 DEF Meter
  <2> QED
    BY <2>1, <2>2, <2>3, <1>got
<1>8. CASE Truncate
  <2>1. /\ at = "got" /\ records = <<>> /\ Record("deadline", usage)
        /\ at' = "yield_truncated" /\ UNCHANGED <<target, chunk, usage, metered, left>>
    BY <1>8 DEF Truncate, Ledger
  <2> QED
    BY <2>1, FirstRecord DEF Ledger, Place, Meter
<1>9. CASE Take
  <2>1. /\ at = "got" /\ target \in Targets /\ chunk.usage \in Usages
        /\ at' \in {"yield_text", "pull"}
        /\ usage' = Latest(usage, chunk.usage)
        /\ UNCHANGED <<target, chunk, records, metered, left>>
    BY <1>9 DEF Take, Place, Chunks
  <2>2. usage' \in Usages /\ usage' = metered[target].last
    BY <2>1, UsageFacts DEF Place, Meter
  <2> QED
    BY <2>1, <2>2 DEF Ledger, Place, Meter
<1>10. CASE Break
  <2>1. /\ at = "pull" /\ records = <<>> /\ target \in Targets
        /\ UNCHANGED <<usage, chunk, metered, left>>
    BY <1>10 DEF Break, Ledger, Place
  <2>2. CASE at' = "target" /\ target' = target + 1 /\ UNCHANGED records
    BY <2>1, <2>2 DEF Ledger, Place, Meter
  <2>3. CASE Record("stream", usage) /\ at' = "raised" /\ UNCHANGED target
    BY <2>1, <2>3, FirstRecord DEF Ledger, Place, Meter
  <2> QED
    BY <1>10, <2>2, <2>3 DEF Break
<1>11. CASE Finish
  <2>1. /\ at = "pull" /\ records = <<>> /\ Record(OkStatus, usage) /\ OkStatus \in Served
        /\ at' = "yield_done" /\ UNCHANGED <<target, chunk, usage, metered, left>>
    BY <1>11 DEF Finish, Ledger, OkStatus
  <2>2. OkStatus # "deadline"
    BY DEF OkStatus
  <2>3. usage = metered[target].last
    BY <2>1 DEF Meter
  <2>4. records' = <<records'[1]>> /\ records'[1].status = OkStatus /\ records'[1].cost = usage
    BY <2>1, FirstRecord
  <2>5. Ledger' /\ Place'
    BY <2>1, <2>4 DEF Ledger, Place
  <2>6. Meter'
    BY <2>1, <2>2, <2>3, <2>4 DEF Meter
  <2> QED
    BY <2>5, <2>6
<1>12. CASE Resume
  BY <1>12 DEF Resume, Yields, Ledger, Place, Meter
<1>13. CASE CloseInTry
  <2>1. /\ at' = "closed" /\ left' = at /\ Record("aborted", usage)
        /\ UNCHANGED <<target, chunk, usage, metered>>
    BY <1>13 DEF CloseInTry
  <2>2. CASE at = "yield_text"
    <3>1. records = <<>>
      BY <2>2 DEF Ledger
    <3> QED
      BY <2>1, <2>2, <3>1, FirstRecord DEF Ledger, Place, Meter
  <2>3. CASE at = "yield_truncated"
    <3>1. Len(records') # 1
      <4>1. records = <<records[1]>>
        BY <2>3 DEF Ledger
      <4> QED
        BY <4>1, <2>1 DEF Record
    <3> QED
      BY <2>1, <2>3, <3>1 DEF Ledger, Place, Meter
  <2> QED
    BY <1>13, <2>2, <2>3 DEF CloseInTry
<1>14. CASE CloseAfter
  BY <1>14 DEF CloseAfter, Ledger, Place, Meter
<1>15. CASE DeadlinePasses
  BY <1>15 DEF DeadlinePasses, Ledger, Place, Meter
<1>16. CASE UNCHANGED vars
  BY <1>16 DEF vars, Ledger, Place, Meter
<1> QED
  BY <1>1, <1>2, <1>3, <1>4, <1>5, <1>6, <1>7, <1>8, <1>9, <1>10, <1>11, <1>12,
     <1>13, <1>14, <1>15, <1>16 DEF Next, Run, Ended

(* The books of a call are right wherever it is, and however it ends. *)
THEOREM BooksInvariance == Spec => []Books
  BY InitBooks, NextBooks, PTL DEF Spec

(* However a streamed call ends it has written one capture record; the     *)
(* exceptions are the close at a truncated chunk and an unknown exception. *)
THEOREM RecordedOnce == Spec => []OneRecord
<1>1. Books => OneRecord
  <2> SUFFICES ASSUME Books PROVE OneRecord
    OBVIOUS
  <2>1. records = <<>> \/ records = <<records[1]>> => Len(records) <= 1
    OBVIOUS
  <2>2. records = <<records[1]>> => Len(records) = 1
    OBVIOUS
  <2> QED
    BY <2>1, <2>2 DEF Books, Ledger, Unrecorded, Offered, Ends, OneRecord
<1> QED
  BY <1>1, BooksInvariance, PTL

(* A target is reported once its stream is over, and only one whose stream *)
(* failed is left behind with counts.                                      *)
Unreported == {"start", "target", "guarded", "first", "pull", "got", "yield_text"}

Behind ==
  /\ verdicts \in [Targets -> SUBSET {"success", "failure"}]
  /\ \A t \in Targets :
       /\ t > target \/ (t = target /\ at \in Unreported) => verdicts[t] = {}
       /\ t < target /\ metered[t].last # NoUsage => verdicts[t] = {"failure"}

(* Before the call no target has been reported. *)
LEMMA InitBehind == Init => Behind
<1>1. Targets = 1..Len(Kinds) /\ Len(Kinds) \in Nat
  BY StreamAssumption DEF Targets
<1> QED
  BY <1>1 DEF Init, Behind

(* What the current target's stream brings is not behind it yet. *)
LEMMA BringsAhead ==
  ASSUME metered \in [Targets -> Meterings], target \in Targets, UNCHANGED target,
         \/ UNCHANGED metered
         \/ \E counts \in Usages : Brings(counts)
  PROVE  \A t \in Targets : t < target => metered'[t] = metered[t]
<1>1. Targets = 1..Len(Kinds) /\ Len(Kinds) \in Nat
  BY StreamAssumption DEF Targets
<1> QED
  BY <1>1, BringsCounts

(* Only Break leaves a target that has counts, and reports it first. *)
LEMMA NextBehind == Books /\ Behind /\ [Next]_vars => Behind'
<1> SUFFICES ASSUME Books, Behind, [Next]_vars PROVE Behind'
  OBVIOUS
<1>k. Targets = 1..Len(Kinds) /\ Len(Kinds) \in Nat
  BY StreamAssumption DEF Targets
<1>p. /\ target \in Nat /\ metered \in [Targets -> Meterings]
      /\ at \in {"guarded", "first", "pull", "got", "yield_text"} => target \in Targets
      /\ at = "start" => target = 0
      /\ \A t \in Targets : t > target \/ (t = target /\ at \in {"target", "guarded", "first"})
                              => metered[t].last = NoUsage
  BY DEF Books, Place, Meter, Silent
<1>u. \A ch \in Chunks : ch.usage \in Usages
  BY UsageFacts DEF Chunks
<1> USE <1>k DEF Unreported, NoHistory
(* A target is left without a report: it has brought nothing.              *)
<1>skip. ASSUME at \in {"target", "guarded"}, at' = "target", target' = target + 1,
                UNCHANGED <<verdicts, metered>>
         PROVE  Behind'
  BY <1>skip, <1>p DEF Behind
(* A target is reported as failed and left, whatever it has brought.       *)
<1>fail. ASSUME at \in Unreported, target \in Targets, Report("failure"),
                at' = "target", target' = target + 1, UNCHANGED metered
         PROVE  Behind'
  <2>1. verdicts[target] = {}
    BY <1>fail DEF Behind
  <2>2. /\ verdicts' \in [Targets -> SUBSET {"success", "failure"}]
        /\ verdicts'[target] = {"failure"}
        /\ \A t \in Targets \ {target} : verdicts'[t] = verdicts[t]
    BY <1>fail, <2>1 DEF Behind, Report
  <2> QED
    BY <1>fail, <1>p, <2>2 DEF Behind
(* The target is reported, and kept.                                       *)
<1>over. ASSUME target \in Targets, NEW v \in {"success", "failure"}, Report(v),
                at' \notin Unreported, UNCHANGED target,
                \A t \in Targets : t < target => metered'[t] = metered[t]
         PROVE  Behind'
  <2>1. /\ verdicts' \in [Targets -> SUBSET {"success", "failure"}]
        /\ \A t \in Targets \ {target} : verdicts'[t] = verdicts[t]
    BY <1>over DEF Behind, Report
  <2> QED
    BY <1>over, <1>p, <2>1 DEF Behind
(* Nothing is reported, and the target kept.                               *)
<1>stay. ASSUME UNCHANGED <<target, verdicts>>, at' \in Unreported => at \in Unreported,
                \A t \in Targets : t < target => metered'[t] = metered[t]
         PROVE  Behind'
  BY <1>stay, <1>p DEF Behind
<1>1. CASE Admit
  <2>1. CASE at' = "target" /\ target' = 1
    <3>1. at = "start" /\ UNCHANGED <<verdicts, metered>>
      BY <1>1 DEF Admit
    <3>2. target = 0 /\ \A t \in Targets : verdicts[t] = {}
      BY <3>1, <1>p DEF Behind
    <3> QED
      BY <2>1, <3>1, <3>2 DEF Behind
  <2>2. CASE at' = "raised" /\ UNCHANGED target
    BY <1>1, <2>2, <1>stay DEF Admit
  <2> QED
    BY <1>1, <2>1, <2>2 DEF Admit
<1>2. CASE AllFailed
  BY <1>2, <1>stay DEF AllFailed
<1>3. CASE Guards
  <2>1. at = "target" /\ UNCHANGED <<verdicts, metered>>
    BY <1>3 DEF Guards
  <2>2. CASE target' = target + 1 /\ UNCHANGED at
    BY <2>1, <2>2, <1>skip
  <2>3. CASE UNCHANGED target
    BY <2>1, <2>3, <1>stay
  <2> QED
    BY <1>3, <2>2, <2>3 DEF Guards
<1>4. CASE Buffered
  <2>1. at = "guarded" /\ target \in Targets
    BY <1>4, <1>p DEF Buffered
  <2>2. ASSUME NEW counts \in Usages, Report("success"), Brings(counts), UNCHANGED target,
               at' \in {"yield_buffered_text", "yield_buffered"}
        PROVE  Behind'
    BY <2>1, <2>2, <1>p, <1>over, BringsAhead
  <2>3. CASE Report("failure") /\ at' = "raised" /\ UNCHANGED <<target, metered>>
    BY <2>1, <2>3, <1>over
  <2>4. CASE Report("failure") /\ at' = "target" /\ target' = target + 1 /\ UNCHANGED metered
    BY <2>1, <2>4, <1>fail
  <2>5. CASE at' = "target" /\ target' = target + 1 /\ UNCHANGED <<verdicts, metered>>
    BY <2>1, <2>5, <1>skip
  <2>6. CASE at' = "untyped" /\ UNCHANGED <<target, verdicts, metered>>
    BY <2>1, <2>6, <1>stay
  <2> QED
    BY <1>4, <2>2, <2>3, <2>4, <2>5, <2>6 DEF Buffered
<1>5. CASE Open
  <2>1. at = "guarded" /\ UNCHANGED <<verdicts, metered>>
    BY <1>5 DEF Open
  <2>2. CASE at' = "target" /\ target' = target + 1
    BY <2>1, <2>2, <1>skip
  <2>3. CASE UNCHANGED target
    BY <2>1, <2>3, <1>stay
  <2> QED
    BY <1>5, <2>2, <2>3 DEF Open
<1>6. CASE First
  <2>1. at = "first" /\ target \in Targets
    BY <1>6, <1>p DEF First
  <2>2. ASSUME NEW ch \in Chunks, Brings(ch.usage), UNCHANGED <<target, verdicts>>
        PROVE  Behind'
    BY <2>1, <2>2, <1>p, <1>u, <1>stay, BringsAhead
  <2>3. CASE at' = "pull" /\ UNCHANGED <<target, verdicts, metered>>
    BY <2>1, <2>3, <1>stay
  <2>4. CASE Report("failure") /\ at' = "raised" /\ UNCHANGED <<target, metered>>
    BY <2>1, <2>4, <1>over
  <2>5. CASE Report("failure") /\ at' = "target" /\ target' = target + 1 /\ UNCHANGED metered
    BY <2>1, <2>5, <1>fail
  <2> QED
    BY <1>6, <2>2, <2>3, <2>4, <2>5 DEF First
<1>7. CASE Pull
  <2>1. at = "pull" /\ target \in Targets /\ UNCHANGED <<target, verdicts>>
    BY <1>7, <1>p DEF Pull
  <2>2. \E counts \in Usages : Brings(counts)
    BY <1>7, <1>u DEF Pull
  <2> QED
    BY <2>1, <2>2, <1>p, <1>stay, BringsAhead
<1>8. CASE Truncate
  BY <1>8, <1>stay DEF Truncate
<1>9. CASE Take
  BY <1>9, <1>stay DEF Take
<1>10. CASE Break
  <2>1. at = "pull" /\ target \in Targets /\ Report("failure") /\ UNCHANGED metered
    BY <1>10, <1>p DEF Break
  <2>2. CASE at' = "target" /\ target' = target + 1
    BY <2>1, <2>2, <1>fail
  <2>3. CASE at' = "raised" /\ UNCHANGED target
    BY <2>1, <2>3, <1>over
  <2> QED
    BY <1>10, <2>2, <2>3 DEF Break
<1>11. CASE Finish
  <2>1. /\ target \in Targets /\ Report("success") /\ at' = "yield_done"
        /\ UNCHANGED <<target, metered>>
    BY <1>11, <1>p DEF Finish
  <2> QED
    BY <2>1, <1>over
<1>12. CASE Resume
  BY <1>12, <1>stay DEF Resume, Yields
<1>13. CASE CloseInTry
  BY <1>13, <1>stay DEF CloseInTry
<1>14. CASE CloseAfter
  BY <1>14, <1>stay DEF CloseAfter
<1>15. CASE DeadlinePasses
  BY <1>15, <1>stay DEF DeadlinePasses
<1>16. CASE UNCHANGED vars
  BY <1>16, <1>stay DEF vars
<1> QED
  BY <1>1, <1>2, <1>3, <1>4, <1>5, <1>6, <1>7, <1>8, <1>9, <1>10, <1>11, <1>12,
     <1>13, <1>14, <1>15, <1>16 DEF Next, Run, Ended

(* A call with one record is charged the latest of each count that its     *)
(* target's stream brought, whether it ended, broke or was left; one that  *)
(* was cut off, all but what the chunk it was cut off at carried.  Counts  *)
(* of any other target are those of a stream that broke before its first   *)
(* text.                                                                   *)
THEOREM ChargesWhatIsKnown == Spec => []KnownUsageCharged
<1>1. ASSUME Books, Behind, Voice PROVE KnownUsageCharged
  <2>1. at \in Ends /\ Len(records) = 1 => TargetCharged
    BY <1>1 DEF Books, Meter, TargetCharged
  <2>2. LostBeforeText
    <3> SUFFICES ASSUME NEW t \in Targets \ {target}, metered[t].last # NoUsage
                 PROVE  verdicts[t] = {"failure"} /\ t \notin heard
      BY DEF LostBeforeText
    <3>1. t \in Nat /\ target \in Nat
      BY <1>1, StreamAssumption DEF Targets, Books, Place
    <3>2. t < target
      BY <1>1, <3>1 DEF Books, Meter
    <3>3. verdicts[t] = {"failure"}
      BY <1>1, <3>2 DEF Behind
    <3>4. t \notin heard
      BY <1>1 DEF Voice
    <3> QED
      BY <3>3, <3>4
  <2> QED
    BY <2>1, <2>2 DEF KnownUsageCharged
<1>2. Spec => []Behind
  BY BooksInvariance, InitBehind, NextBehind, PTL DEF Spec
<1>3. Spec => []Voice
  <2>1. IInv => Voice
    BY DEF IInv
  <2> QED
    BY <2>1, Invariance, PTL
<1> QED
  BY <1>1, <1>2, <1>3, BooksInvariance, PTL
----------------------------------------------------------------------------
(* The types, and what they need: the stream is there when it is pulled.   *)
Records == \A i \in DOMAIN records : /\ records[i].status \in Statuses
                                     /\ records[i].cost \in Usages

Typed == TypeOK /\ (at = "first" => upstream # "none")

(* A record written by a call that has written one at most is well formed. *)
LEMMA RecordTyped ==
  ASSUME Books, Records, at \in Unrecorded \cup Offered,
         NEW result \in Statuses, NEW cost \in Usages, Record(result, cost)
  PROVE  Records'
<1>1. CASE records = <<>>
  <2>1. records' = <<[status |-> result, cost |-> cost]>>
    BY <1>1 DEF Record
  <2> QED
    BY <2>1 DEF Records
<1>2. CASE records = <<records[1]>>
  <2> DEFINE written == [status |-> result, cost |-> cost]
  <2>1. PICK r : r = records[1]
    OBVIOUS
  <2>2. records = <<r>>
    BY <1>2, <2>1
  <2>3. r.status \in Statuses /\ r.cost \in Usages
    <3>1. 1 \in DOMAIN records
      BY <2>2
    <3> QED
      BY <3>1, <2>1 DEF Records
  <2>4. records \in Seq({r, written}) /\ written \in {r, written}
    BY <2>2
  <2>5. /\ Append(records, written) \in Seq({r, written})
        /\ Append(records, written) = records'
    BY <2>4, AppendProperties DEF Record
  <2>6. \A i \in DOMAIN records' : records'[i] \in {r, written}
    BY <2>5
  <2>7. written.status \in Statuses /\ written.cost \in Usages
    OBVIOUS
  <2> QED
    BY <2>3, <2>6, <2>7 DEF Records
<1> QED
  BY <1>1, <1>2 DEF Books, Ledger

(* A report of a target in the chain keeps the verdicts well formed. *)
LEMMA ReportTyped ==
  ASSUME TypeOK, target \in Targets, NEW v \in {"success", "failure"}, Report(v)
  PROVE  verdicts' \in [Targets -> SUBSET {"success", "failure"}]
  BY DEF TypeOK, Report

(* Before it starts a call has the types. *)
LEMMA InitTyped == Init => Typed
<1> SUFFICES ASSUME Init PROVE Typed
  OBVIOUS
<1>1. Len(Kinds) \in Nat /\ NoUsage \in Usages
  BY StreamAssumption, UsageFacts
<1>2. \A i \in DOMAIN records : records[i].status \in Statuses /\ records[i].cost \in Usages
  BY DEF Init
<1>3. /\ verdicts \in [Targets -> SUBSET {"success", "failure"}]
      /\ metered \in [Targets -> [last : Usages, before : Usages]]
  BY <1>1 DEF Init
<1>4. /\ at = "start" /\ target = 0 /\ late = FALSE /\ upstream = "none"
      /\ chunk = NoChunk /\ usage = NoUsage /\ emitted = FALSE /\ heard = {} /\ left = "no"
  BY DEF Init
<1>5. /\ at \in Yields \cup Ends \cup {"start", "target", "guarded", "first", "pull", "got"}
      /\ at \notin {"first", "pull", "got", "yield_text"} /\ left \in Yields \cup {"no"}
  BY <1>4
<1>6. late \in BOOLEAN /\ emitted \in BOOLEAN
  BY DEF Init
<1>7. /\ target \in 0..(Len(Kinds) + 1) /\ upstream \in {"none", "open", "closed"}
      /\ chunk \in Chunks \cup {NoChunk} /\ usage \in Usages /\ heard \subseteq Targets
  BY <1>1, <1>4
<1> QED
  BY <1>2, <1>3, <1>5, <1>6, <1>7 DEF Typed, TypeOK

(* Every step keeps them. *)
LEMMA NextTyped == Books /\ Typed /\ [Next]_vars => Typed'
<1> SUFFICES ASSUME Books, Typed, [Next]_vars PROVE Typed'
  OBVIOUS
<1>k. Targets = 1..Len(Kinds) /\ Len(Kinds) \in Nat /\ NoUsage \in Usages
  BY StreamAssumption, UsageFacts DEF Targets
<1>m. metered \in [Targets -> Meterings] /\ Meterings = [last : Usages, before : Usages]
  BY DEF Books, Meter, Meterings
<1>o. OkStatus \in Statuses /\ Refusals \subseteq Statuses
      /\ {"deadline", "aborted", "stream"} \subseteq Statuses
  BY DEF OkStatus, Statuses
<1>t. TypeOK /\ Records /\ Place
  BY DEF Typed, TypeOK, Records, Books
<1>c. TypeOK' <=>
        /\ (at \in Yields \cup Ends \cup
                     {"start", "target", "guarded", "first", "pull", "got"})'
        /\ (target \in 0..(Len(Kinds) + 1))'
        /\ (late \in BOOLEAN /\ upstream \in {"none", "open", "closed"})'
        /\ (at \in {"pull", "got", "yield_text"} => upstream # "none")'
        /\ (chunk \in Chunks \cup {NoChunk} /\ usage \in Usages /\ emitted \in BOOLEAN)'
        /\ Records'
        /\ (verdicts \in [Targets -> SUBSET {"success", "failure"}])'
        /\ (metered \in [Targets -> [last : Usages, before : Usages]])'
        /\ (heard \subseteq Targets /\ left \in Yields \cup {"no"})'
  BY DEF TypeOK, Records
<1> USE <1>k DEF Typed, Yields, Ends, NoHistory
<1>1. CASE Admit
  <2>1. Records'
    BY <1>1, <1>t, <1>o, RecordTyped DEF Admit, Unrecorded, Refusals, Records
  <2> QED
    BY <1>1, <2>1, <1>c DEF Admit, TypeOK
<1>2. CASE AllFailed
  <2>1. Records'
    BY <1>2, <1>t, <1>o, RecordTyped DEF AllFailed, Unrecorded, Refusals
  <2> QED
    BY <1>2, <2>1, <1>c DEF AllFailed, TypeOK
<1>3. CASE Guards
  <2>1. Records'
    BY <1>3, <1>t, <1>o, RecordTyped DEF Guards, Unrecorded, Refusals, Records
  <2> QED
    BY <1>3, <2>1, <1>c, <1>t DEF Guards, TypeOK, Place
<1>4. CASE Buffered
  <2>0. at = "guarded" /\ target \in Targets
    BY <1>4, <1>t DEF Buffered, Place
  <2>1. Records'
    BY <1>4, <2>0, <1>t, <1>o, RecordTyped DEF Buffered, Unrecorded, Refusals, Records
  <2>2. verdicts' \in [Targets -> SUBSET {"success", "failure"}]
    BY <1>4, <2>0, <1>t, ReportTyped DEF Buffered, TypeOK
  <2>3. metered' \in [Targets -> [last : Usages, before : Usages]]
    BY <1>4, <2>0, <1>m, BringsCounts DEF Buffered
  <2>4. heard' \subseteq Targets /\ usage' \in Usages
    BY <1>4, <2>0, <1>t DEF Buffered, TypeOK
  <2> QED
    BY <1>4, <2>0, <2>1, <2>2, <2>3, <2>4, <1>c DEF Buffered, TypeOK
<1>5. CASE Open
  <2>1. Records' /\ target \in Targets
    BY <1>5, <1>t DEF Open, Records, Place
  <2>2. CASE at' = "target" /\ target' = target + 1
    BY <1>5, <2>1, <2>2, <1>c DEF Open, TypeOK
  <2>3. CASE at' = "first" /\ UNCHANGED target
    BY <1>5, <2>1, <2>3, <1>c DEF Open, TypeOK
  <2> QED
    BY <1>5, <2>2, <2>3 DEF Open
<1>6. CASE First
  <2>0. at = "first" /\ target \in Targets
    BY <1>6, <1>t DEF First, Place
  <2>1. Records'
    BY <1>6, <2>0, <1>t, <1>o, RecordTyped DEF First, Unrecorded, Refusals, Records
  <2>2. verdicts' \in [Targets -> SUBSET {"success", "failure"}]
    BY <1>6, <2>0, <1>t, ReportTyped DEF First, TypeOK
  <2>3. metered' \in [Targets -> [last : Usages, before : Usages]]
    <3>1. ASSUME NEW ch \in Chunks, Brings(ch.usage) PROVE metered' \in [Targets -> Meterings]
      <4>1. ch.usage \in Usages
        BY <3>1, <1>k DEF Chunks
      <4> QED
        BY <3>1, <4>1, <2>0, <1>m, BringsCounts
    <3> QED
      BY <1>6, <3>1, <1>m DEF First
  <2> QED
    BY <1>6, <2>0, <2>1, <2>2, <2>3, <1>c DEF First, TypeOK
<1>7. CASE Pull
  <2>1. Records'
    BY <1>7, <1>t DEF Pull, Records
  <2>2. target \in Targets
    BY <1>7, <1>t DEF Pull, Place
  <2>3. metered' \in [Targets -> [last : Usages, before : Usages]]
    <3>1. PICK ch \in Chunks : Brings(ch.usage)
      BY <1>7 DEF Pull
    <3>2. ch.usage \in Usages
      BY <3>1, <1>k DEF Chunks
    <3> QED
      BY <3>1, <3>2, <2>2, <1>m, BringsCounts
  <2> QED
    BY <1>7, <2>1, <2>3, <1>c DEF Pull, TypeOK
<1>8. CASE Truncate
  <2>1. Records'
    BY <1>8, <1>t, <1>o, RecordTyped DEF Truncate, Unrecorded, TypeOK
  <2> QED
    BY <1>8, <2>1, <1>c DEF Truncate, TypeOK
<1>9. CASE Take
  <2>1. Records' /\ target \in Targets /\ chunk.usage \in Usages
    BY <1>9, <1>t DEF Take, Records, Place, Chunks
  <2>2. usage' \in Usages
    BY <1>9, <2>1, UsageFacts DEF Take, TypeOK
  <2> QED
    BY <1>9, <2>1, <2>2, <1>c DEF Take, TypeOK
<1>10. CASE Break
  <2>0. at = "pull" /\ target \in Targets
    BY <1>10, <1>t DEF Break, Place
  <2>1. Records'
    BY <1>10, <2>0, <1>t, <1>o, RecordTyped DEF Break, Unrecorded, Records, TypeOK
  <2>2. verdicts' \in [Targets -> SUBSET {"success", "failure"}]
    BY <1>10, <2>0, <1>t, ReportTyped DEF Break
  <2> QED
    BY <1>10, <2>0, <2>1, <2>2, <1>c DEF Break, TypeOK
<1>11. CASE Finish
  <2>0. at = "pull" /\ target \in Targets
    BY <1>11, <1>t DEF Finish, Place
  <2>1. Records'
    BY <1>11, <2>0, <1>t, <1>o, RecordTyped DEF Finish, Unrecorded, TypeOK
  <2>2. verdicts' \in [Targets -> SUBSET {"success", "failure"}]
    BY <1>11, <2>0, <1>t, ReportTyped DEF Finish
  <2> QED
    BY <1>11, <2>0, <2>1, <2>2, <1>c DEF Finish, TypeOK
<1>12. CASE Resume
  <2>1. Records'
    BY <1>12, <1>t DEF Resume, Records
  <2> QED
    BY <1>12, <2>1, <1>c DEF Resume, TypeOK
<1>13. CASE CloseInTry
  <2>1. Records'
    BY <1>13, <1>t, <1>o, RecordTyped DEF CloseInTry, Unrecorded, Offered, TypeOK
  <2> QED
    BY <1>13, <2>1, <1>c DEF CloseInTry, TypeOK
<1>14. CASE CloseAfter
  <2>1. Records'
    BY <1>14, <1>t DEF CloseAfter, Records
  <2> QED
    BY <1>14, <2>1, <1>c DEF CloseAfter, TypeOK
<1>15. CASE DeadlinePasses
  <2>1. Records'
    BY <1>15, <1>t DEF DeadlinePasses, Records
  <2> QED
    BY <1>15, <2>1, <1>c DEF DeadlinePasses, TypeOK
<1>16. CASE UNCHANGED vars
  BY <1>16 DEF vars, TypeOK
<1> QED
  BY <1>1, <1>2, <1>3, <1>4, <1>5, <1>6, <1>7, <1>8, <1>9, <1>10, <1>11, <1>12,
     <1>13, <1>14, <1>15, <1>16 DEF Next, Run, Ended

(* A streamed call keeps its types: it reads no target past its chain, no  *)
(* stream it has not opened, and writes only well-formed records.          *)
THEOREM TypeCorrectness == Spec => []TypeOK
<1>1. Spec => []Typed
  BY BooksInvariance, InitTyped, NextTyped, PTL DEF Spec
<1> QED
  BY <1>1, PTL DEF Typed
----------------------------------------------------------------------------
(* Every step of the response is a step of the stream it drives, or leaves it alone. *)
LEMMA ServerStepSteps == [ServerNext]_allVars => [Next]_vars
<1> SUFFICES ASSUME [ServerNext]_allVars PROVE [Next]_vars
  OBVIOUS
<1>1. CASE GatewayRuns
  BY <1>1 DEF GatewayRuns, Next
<1>2. CASE ServerStep
  BY <1>2 DEF ServerStep, FirstChunk, ErrorResponse, Frame, ClosingFrames,
              BodyBreaks, Next
<1>3. CASE Disconnect
  BY <1>3 DEF Disconnect, Next
<1>4. CASE UNCHANGED allVars
  BY <1>4 DEF allVars
<1>5. CASE Over /\ UNCHANGED <<vars, serverVars>>
  BY <1>5
<1> QED
  BY <1>1, <1>2, <1>3, <1>4, <1>5 DEF ServerNext

(* The streaming branch of chat_completions implements Stream: it pulls,   *)
(* and closes, the gateway's generator only where any client might.        *)
THEOREM ServerImplementsStream == ServerSpec => Spec
<1>1. ServerInit => Init
  BY DEF ServerInit
<1> QED
  BY <1>1, ServerStepSteps, PTL DEF ServerSpec, Spec

(* A response that is over has ended the gateway's stream. *)
OverInv == Over => at \in Ends

(* No response is over at the start. *)
LEMMA InitOverInv == ServerInit => OverInv
  BY DEF ServerInit, OverInv, Over

(* A response that is over has ended its stream, and stays so. *)
LEMMA NextOverInv == OverInv /\ [ServerNext]_allVars => OverInv'
<1> SUFFICES ASSUME OverInv, [ServerNext]_allVars PROVE OverInv'
  OBVIOUS
<1> USE DEF OverInv, Over, Ends, Yields
<1>1. CASE GatewayRuns
  <2>1. UNCHANGED serverVars
    BY <1>1 DEF GatewayRuns
  <2>2. CASE at \in Ends
    BY <1>1, <2>1, <2>2
       DEF GatewayRuns, serverVars, DeadlinePasses, Run, Admit, AllFailed, Guards,
           Buffered, Open, First, Pull, Truncate, Take, Break, Finish
  <2>3. CASE at \notin Ends
    BY <2>1, <2>3 DEF serverVars
  <2> QED
    BY <2>2, <2>3
<1>2. CASE FirstChunk
  BY <1>2 DEF FirstChunk
<1>3. CASE ErrorResponse
  BY <1>3 DEF ErrorResponse, vars
<1>4. CASE Frame
  BY <1>4 DEF Frame, Resume
<1>5. CASE ClosingFrames
  BY <1>5 DEF ClosingFrames, vars
<1>6. CASE BodyBreaks
  BY <1>6 DEF BodyBreaks, vars
<1>7. CASE Disconnect
  BY <1>7 DEF Disconnect, CloseInTry, CloseAfter, vars
<1>8. CASE UNCHANGED <<vars, serverVars>>
  BY <1>8 DEF vars, serverVars
<1> QED
  BY <1>1, <1>2, <1>3, <1>4, <1>5, <1>6, <1>7, <1>8
     DEF ServerNext, ServerStep, allVars

(* However a response ends, complete, broken, refused or by the client     *)
(* leaving, the gateway's generator has ended and the provider's stream is *)
(* not left open.                                                          *)
THEOREM ResponseLeavesNothingOpen == ServerSpec => []BodyEndsStream
<1>1. OverInv /\ IInv => BodyEndsStream
  BY DEF OverInv, IInv, Shut, Settled, BodyEndsStream
<1>2. ServerSpec => []IInv
  BY ServerImplementsStream, Invariance, PTL
<1>3. ServerSpec => []OverInv
  BY InitOverInv, NextOverInv, PTL DEF ServerSpec
<1> QED
  BY <1>1, <1>2, <1>3, PTL

(* Behind the server, too, a client reads one provider's text. *)
THEOREM ResponseHasOneVoice == ServerSpec => []OneVoice
  BY ServerImplementsStream, NeverSpliced, PTL
----------------------------------------------------------------------------
(* What the response has told the client so far.  Without one nothing was  *)
(* pulled past the first chunk; the last frame carries the counts recorded. *)
Told ==
  /\ sse # "none" => status = 200
  /\ status = 0 /\ heard # {} => at \in TextYields
  /\ sse = "ready" => at # "returned"
  /\ sse \in {"frames", "done"} /\ at = "returned" => told = records[1].cost
  /\ sse = "done" => at = "returned"
  /\ ErrorsComeFirst

(* A call that served has one record, which says so. *)
LEMMA ServedIsRecorded ==
  ASSUME Books, at \in Offered \cup {"returned"}
  PROVE  Len(records) = 1 /\ records[1].status \in Served
<1>1. records = <<records[1]>> /\ records[1].status \in Served
  BY DEF Books, Ledger
<1>2. Len(<<records[1]>>) = 1
  OBVIOUS
<1> QED
  BY <1>1, <1>2

(* Before the first byte the response has said nothing untrue. *)
LEMMA InitTold == ServerInit => Told
  BY DEF ServerInit, Init, Told, ErrorsComeFirst

(* No step of the response says something its stream does not bear out. *)
LEMMA NextTold == Books /\ OverInv /\ Told /\ [ServerNext]_allVars => Told'
<1> SUFFICES ASSUME Books, OverInv, Told, [ServerNext]_allVars PROVE Told'
  OBVIOUS
<1> USE DEF Told, ErrorsComeFirst, OverInv, Over, Ends
<1>1. CASE GatewayRuns
  <2>1. UNCHANGED serverVars /\ at \notin Ends
    BY <1>1 DEF GatewayRuns, DeadlinePasses, Run, Admit, AllFailed, Guards,
                Buffered, Open, First, Pull, Truncate, Take, Break, Finish
  <2>2. at' # "returned"
    BY <1>1, <2>1 DEF GatewayRuns, DeadlinePasses, Run, Admit, AllFailed, Guards,
                Buffered, Open, First, Pull, Truncate, Take, Break, Finish
  <2>3. status \in {0, 200} /\ sse # "done"
    BY <2>1
  <2>4. CASE Take
    <3>1. heard' # heard => at' \in TextYields
      BY <2>4 DEF Take, TextYields
    <3>2. at \notin TextYields
      BY <2>4 DEF Take, TextYields
    <3> QED
      BY <2>1, <2>2, <2>3, <3>1, <3>2 DEF serverVars
  <2>5. CASE Buffered
    <3>1. heard' # heard => at' \in TextYields
      BY <2>5 DEF Buffered, TextYields
    <3>2. at \notin TextYields
      BY <2>5 DEF Buffered, TextYields
    <3> QED
      BY <2>1, <2>2, <2>3, <3>1, <3>2 DEF serverVars
  <2>6. CASE ~Take /\ ~Buffered
    <3>1. UNCHANGED heard /\ (at \in TextYields => at' \in TextYields)
      BY <1>1, <2>6
         DEF GatewayRuns, DeadlinePasses, Run, Admit, AllFailed, Guards,
             Open, First, Pull, Truncate, Break, Finish, NoHistory, TextYields
    <3> QED
      BY <2>1, <2>2, <2>3, <3>1 DEF serverVars
  <2> QED
    BY <2>4, <2>5, <2>6
<1>2. CASE FirstChunk
  BY <1>2 DEF FirstChunk, vars, Yields
<1>3. CASE ErrorResponse
  <2>1. status = 0 /\ UNCHANGED <<at, target, records, metered, heard, sse, told>>
        /\ status' \notin {0, 200} /\ sse = "none" /\ heard = {}
    BY <1>3 DEF ErrorResponse, ErrorStatus, vars, TextYields
  <2>2. CASE at = "raised"
    <3>1. records = <<records[1]>>
      BY <2>2 DEF Books, Ledger
    <3>2. Len(<<records[1]>>) = 1 /\ <<records[1]>> # <<>>
      OBVIOUS
    <3>3. Len(records) = 1 /\ records # <<>>
      BY <3>1, <3>2
    <3>4. status' = ErrorStatus(records[1].status)
      BY <1>3, <2>2, <3>3 DEF ErrorResponse
    <3> QED
      BY <2>1, <2>2, <3>3, <3>4 DEF ErrorStatus
  <2>3. CASE at = "untyped"
    <3>1. records = <<>>
      BY <2>3 DEF Books, Ledger, Unrecorded
    <3>2. status' = 500
      BY <1>3, <2>3 DEF ErrorResponse
    <3> QED
      BY <2>1, <2>3, <3>1, <3>2
  <2> QED
    BY <1>3, <2>2, <2>3 DEF ErrorResponse
<1>4. CASE Frame
  <2>1. /\ status = 200 /\ sse' = "frames" /\ at \in Yields
        /\ at' = IF at = "yield_text" THEN "pull"
                 ELSE IF at = "yield_buffered_text" THEN "yield_buffered" ELSE "returned"
        /\ told' = IF at \in TextYields THEN told ELSE usage
        /\ UNCHANGED <<status, target, metered, heard, records>>
    BY <1>4 DEF Frame, Resume, NoHistory
  <2>2. at \notin TextYields => usage = records[1].cost
    BY <2>1 DEF Yields, TextYields, Offered, Books, Meter
  <2> QED
    BY <2>1, <2>2 DEF TextYields
<1>5. CASE ClosingFrames
  BY <1>5 DEF ClosingFrames, vars
<1>6. CASE BodyBreaks
  BY <1>6 DEF BodyBreaks, vars
<1>7. CASE Disconnect
  <2>1. status = 200 /\ status' = 200 /\ sse' = "cut"
    BY <1>7 DEF Disconnect
  <2> QED
    BY <2>1
<1>8. CASE UNCHANGED <<vars, serverVars>>
  BY <1>8 DEF vars, serverVars
<1> QED
  BY <1>1, <1>2, <1>3, <1>4, <1>5, <1>6, <1>7, <1>8
     DEF ServerNext, ServerStep, allVars

(* An error status comes before any text and names the budget just when    *)
(* the budget refused; [DONE] ends only calls that served, and the usage   *)
(* the client is told is the one recorded.                                 *)
THEOREM ResponseIsHonest == ServerSpec => []ResponseHonest
<1>1. Books /\ Told => ResponseHonest
  <2> SUFFICES ASSUME Books, Told PROVE ResponseHonest
    OBVIOUS
  <2>1. ErrorsComeFirst
    BY DEF Told
  <2>2. DoneIsCharged
    <3> SUFFICES ASSUME sse = "done"
                 PROVE  /\ Len(records) = 1
                        /\ records[1].status \in Served
                        /\ told = records[1].cost
      BY DEF DoneIsCharged, Served
    <3>1. at = "returned" /\ told = records[1].cost
      BY DEF Told
    <3> QED
      BY <3>1, ServedIsRecorded
  <2> QED
    BY <2>1, <2>2 DEF ResponseHonest
<1>2. ServerSpec => []Books
  BY ServerImplementsStream, BooksInvariance, PTL
<1>3. ServerSpec => []OverInv
  BY InitOverInv, NextOverInv, PTL DEF ServerSpec
<1>4. ServerSpec => []Told
  BY <1>2, <1>3, InitTold, NextTold, PTL DEF ServerSpec
<1> QED
  BY <1>1, <1>2, <1>4, PTL
----------------------------------------------------------------------------
(* The types of the response. *)
Response == status \in HttpStatuses \cup {0}
              /\ sse \in {"none", "ready", "frames", "done", "cut"} /\ told \in Usages

(* There is no response at the start. *)
LEMMA InitResponse == ServerInit => Response
  BY UsageFacts DEF ServerInit, Response

(* Whatever the handler sends has a status it knows and the counts it has. *)
LEMMA NextResponse ==
  Response /\ Books /\ TypeOK /\ [ServerNext]_allVars => Response'
<1> SUFFICES ASSUME Response, Books, TypeOK, [ServerNext]_allVars PROVE Response'
  OBVIOUS
<1> USE DEF Response, HttpStatuses
<1>1. CASE GatewayRuns
  BY <1>1 DEF GatewayRuns, serverVars
<1>2. CASE FirstChunk
  BY <1>2 DEF FirstChunk
<1>3. CASE ErrorResponse
  BY <1>3 DEF ErrorResponse, ErrorStatus
<1>4. CASE Frame
  BY <1>4 DEF Frame, TypeOK
<1>5. CASE ClosingFrames
  BY <1>5 DEF ClosingFrames
<1>6. CASE BodyBreaks
  BY <1>6 DEF BodyBreaks
<1>7. CASE Disconnect
  BY <1>7 DEF Disconnect
<1>8. CASE UNCHANGED <<vars, serverVars>>
  BY <1>8 DEF serverVars
<1> QED
  BY <1>1, <1>2, <1>3, <1>4, <1>5, <1>6, <1>7, <1>8
     DEF ServerNext, ServerStep, allVars

(* The streaming branch of the server and the stream it drives keep their  *)
(* types.                                                                  *)
THEOREM ServerTypeCorrectness == ServerSpec => []ServerTypeOK
<1>1. Response /\ TypeOK => ServerTypeOK
  BY DEF Response, ServerTypeOK
<1>2. ServerSpec => []Books
  BY ServerImplementsStream, BooksInvariance, PTL
<1>3. ServerSpec => []TypeOK
  BY ServerImplementsStream, TypeCorrectness, PTL
<1>4. ServerSpec => []Response
  BY <1>2, <1>3, InitResponse, NextResponse, PTL DEF ServerSpec
<1> QED
  BY <1>1, <1>3, <1>4, PTL
============================================================================
