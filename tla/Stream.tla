------------------------------- MODULE Stream -------------------------------
(***************************************************************************)
(* StreamRunner of agent_ctl/core/stream_runner.py: one streamed call, the *)
(* provider streams it opens one after the other, and its client.          *)
(*                                                                         *)
(* invoke_stream is a generator.  It runs when the client asks for a chunk *)
(* and is suspended at a yield; there the client resumes it or closes it   *)
(* (a disconnect), which raises GeneratorExit at that very yield.  The     *)
(* provider's stream is a generator too, and every pull from it returns a  *)
(* chunk, ends, or raises.                                                 *)
(*                                                                         *)
(* What other calls do to the budget and the breakers shows here only as   *)
(* the answers of check() and allow(), which may be either.  A usage is    *)
(* the two token counts of a call, and stands for its cost too: prices are *)
(* factors.                                                                *)
(***************************************************************************)
EXTENDS Integers, Sequences, FiniteSets, Functions

CONSTANTS Kinds,         \* the targets: "native" streaming or "buffered"
          MaxUsage,      \* bound on each token count a provider reports
          HasDeadline    \* request_deadline_s > 0

ASSUME StreamAssumption ==
  /\ Kinds \in Seq({"native", "buffered"})
  /\ MaxUsage \in Nat
  /\ HasDeadline \in BOOLEAN

VARIABLES at,         \* where invoke_stream is, or is suspended
          target,     \* index of the current target
          late,       \* the deadline has passed
          upstream,   \* the current provider's stream: "none", "open", "closed"
          chunk,      \* the chunk just pulled
          usage,      \* it and ot: the counts known for this target
          emitted,    \* emitted_content
          records,    \* capture records written, each with its cost
          verdicts,   \* history: reports to the breaker of each target
          metered,    \* history: what each target's stream has brought
          heard,      \* history: targets whose text reached the client
          left        \* history: the yield at which the client closed

vars == <<at, target, late, upstream, chunk, usage, emitted, records, verdicts,
          metered, heard, left>>

Targets == DOMAIN Kinds
Counts == {"it", "ot"}

Usages == [Counts -> 0..MaxUsage]

NoUsage == [c \in Counts |-> 0]

NoChunk == [kind |-> "none", usage |-> NoUsage]

(* A text chunk carries no counts; the others may or may not.              *)
Chunks == [kind : {"meter", "done"}, usage : Usages]
            \cup {[kind |-> "text", usage |-> NoUsage]}

(* The yields: a text chunk, the last chunk of a truncated stream and of a *)
(* complete one, and the two chunks of a buffered response.                *)
Yields == {"yield_text", "yield_truncated", "yield_done",
           "yield_buffered_text", "yield_buffered"}

TextYields == {"yield_text", "yield_buffered_text"}

Ends == {"returned", "raised", "closed", "untyped"}

(* The error_type of the records of calls that served nothing.             *)
Refusals == {"validation", "budget", "routing", "provider", "pricing",
             "terminal", "all_failed"}

Statuses == Refusals \cup
              {"success", "fallback_success", "deadline", "aborted", "stream"}

TypeOK ==
  /\ at \in Yields \cup Ends \cup
            {"start", "target", "guarded", "first", "pull", "got"}
  /\ target \in 0..(Len(Kinds) + 1)
  /\ late \in BOOLEAN
  /\ upstream \in {"none", "open", "closed"}
  /\ at \in {"pull", "got", "yield_text"} => upstream # "none"
  /\ chunk \in Chunks \cup {NoChunk}
  /\ usage \in Usages
  /\ emitted \in BOOLEAN
  /\ \A i \in DOMAIN records : /\ records[i].status \in Statuses
                                 /\ records[i].cost \in Usages
  /\ verdicts \in [Targets -> SUBSET {"success", "failure"}]
  /\ metered \in [Targets -> [last : Usages, before : Usages]]
  /\ heard \subseteq Targets
  /\ left \in Yields \cup {"no"}

Init ==
  /\ at = "start" /\ target = 0 /\ late = FALSE
  /\ upstream = "none" /\ chunk = NoChunk
  /\ usage = NoUsage /\ emitted = FALSE
  /\ records = <<>>
  /\ verdicts = [i \in Targets |-> {}]
  /\ metered = [i \in Targets |-> [last |-> NoUsage, before |-> NoUsage]]
  /\ heard = {} /\ left = "no"
----------------------------------------------------------------------------
Record(status, cost) ==
  records' = Append(records, [status |-> status, cost |-> cost])

Report(verdict) == verdicts' = [verdicts EXCEPT ![target] = @ \cup {verdict}]

OkStatus == IF target = 1 THEN "success" ELSE "fallback_success"

NoHistory == UNCHANGED <<metered, heard, left>>

(* The provider's stream brings counts, whatever becomes of them: the last *)
(* of each that was no zero, with this chunk and before it.                *)
Brings(counts) ==
  metered' = [metered EXCEPT ![target] =
                [last   |-> [c \in Counts |-> IF counts[c] > 0 THEN counts[c]
                                              ELSE metered[target].last[c]],
                 before |-> metered[target].last]]

(* Validation, budget and routing: each may refuse the request.            *)
Admit ==
  /\ at = "start"
  /\ \/ /\ \E why \in {"validation", "budget", "routing"} : Record(why, NoUsage)
        /\ at' = "raised" /\ UNCHANGED target
     \/ at' = "target" /\ target' = 1 /\ UNCHANGED records
  /\ UNCHANGED <<late, upstream, chunk, usage, emitted, verdicts>> /\ NoHistory

(* The loop over the targets is over, or the deadline guard breaks it.     *)
AllFailed ==
  /\ at = "target" /\ (target > Len(Kinds) \/ late)
  /\ at' = "raised" /\ Record("all_failed", NoUsage)
  /\ UNCHANGED <<target, late, upstream, chunk, usage, emitted, verdicts>>
  /\ NoHistory

(* Faulty: one target too many is looked for. *)
GuardsPastTheEnd ==
  /\ at = "target" /\ target <= Len(Kinds) + 1 /\ ~late
  /\ target' = target + 1
  /\ UNCHANGED <<at, late, upstream, chunk, usage, emitted, records, verdicts>>
  /\ NoHistory

(* The guards of one target: no such provider or no price ends the call,   *)
(* an open circuit skips the target.                                       *)
Guards ==
  /\ at = "target" /\ target <= Len(Kinds) /\ ~late
  /\ \/ /\ \E why \in {"provider", "pricing"} : Record(why, NoUsage)
        /\ at' = "raised" /\ UNCHANGED target
     \/ target' = target + 1 /\ UNCHANGED <<at, records>>
     \/ at' = "guarded" /\ UNCHANGED <<target, records>>
  /\ UNCHANGED <<late, upstream, chunk, usage, emitted, verdicts>> /\ NoHistory

(* _invoke_target of a provider without streaming: see Gateway.  What it   *)
(* answers is recorded, and then offered: its text, if any, and the rest.  *)
Buffered ==
  /\ at = "guarded" /\ Kinds[target] = "buffered"
  /\ \/ \E counts \in Usages :
          /\ Report("success") /\ Record(OkStatus, counts)
          /\ usage' = counts /\ Brings(counts)
          /\ \/ at' = "yield_buffered_text" /\ heard' = heard \cup {target}
             \/ at' = "yield_buffered" /\ UNCHANGED heard
          /\ UNCHANGED target
     \/ /\ Report("failure") /\ Record("terminal", NoUsage)
        /\ at' = "raised" /\ UNCHANGED <<target, usage, metered, heard>>
     \/ /\ Report("failure")
        /\ at' = "target" /\ target' = target + 1
        /\ UNCHANGED <<records, usage, metered, heard>>
     \/ /\ late
        /\ at' = "target" /\ target' = target + 1
        /\ UNCHANGED <<verdicts, records, usage, metered, heard>>
     \/ /\ at' = "untyped"
        /\ UNCHANGED <<target, verdicts, records, usage, metered, heard>>
  /\ UNCHANGED <<late, upstream, chunk, emitted, left>>

(* _native_target opens the provider's stream, if there is time left. *)
Open ==
  /\ at = "guarded" /\ Kinds[target] = "native"
  /\ IF late
     THEN at' = "target" /\ target' = target + 1 /\ UNCHANGED <<upstream, usage, emitted>>
     ELSE /\ at' = "first" /\ upstream' = "open"
          /\ usage' = NoUsage /\ emitted' = FALSE /\ UNCHANGED target
  /\ UNCHANGED <<late, chunk, records, verdicts>> /\ NoHistory

(* The first pull: a stream that ends at once goes on to the loop, where   *)
(* it ends again; an error here has sent the client nothing.               *)
First ==
  /\ at = "first"
  /\ \/ \E ch \in Chunks : /\ chunk' = ch /\ Brings(ch.usage) /\ at' = "got"
                           /\ UNCHANGED <<target, upstream, records, verdicts>>
     \/ /\ upstream' = "closed" /\ at' = "pull"
        /\ UNCHANGED <<target, chunk, records, verdicts, metered>>
     \/ /\ upstream' = "closed" /\ Report("failure")
        /\ Record("terminal", NoUsage) /\ at' = "raised"
        /\ UNCHANGED <<target, chunk, metered>>
     \/ /\ upstream' = "closed" /\ Report("failure")
        /\ at' = "target" /\ target' = target + 1
        /\ UNCHANGED <<chunk, records, metered>>
  /\ UNCHANGED <<late, usage, emitted, heard, left>>

(* The next pull brings a chunk. *)
Pull ==
  /\ at = "pull" /\ upstream = "open"
  /\ \E ch \in Chunks : chunk' = ch /\ Brings(ch.usage)
  /\ at' = "got"
  /\ UNCHANGED <<target, late, upstream, usage, emitted, records, verdicts,
                 heard, left>>

(* The deadline has passed: the chunk is not looked at, the call recorded  *)
(* with what is known so far, the provider's stream closed, and a last     *)
(* chunk offered to the client -- from inside the try.                     *)
Truncate ==
  /\ at = "got" /\ late
  /\ Record("deadline", usage)
  /\ upstream' = "closed"
  /\ at' = "yield_truncated"
  /\ UNCHANGED <<target, late, chunk, usage, emitted, verdicts>> /\ NoHistory

(* Faulty: both counts are taken from the last chunk that carries any. *)
LatestPair(known, carried) == IF carried = NoUsage THEN known ELSE carried

(* A count that a chunk lacks, or gives as zero, stays what it was. *)
Latest(known, carried) ==
  [c \in Counts |-> IF carried[c] # 0 THEN carried[c] ELSE known[c]]

(* Faulty: once the stream is open the deadline need not end it. *)
TakeEvenLate ==
  /\ at = "got"
  /\ usage' = Latest(usage, chunk.usage)
  /\ IF chunk.kind = "text"
     THEN emitted' = TRUE /\ heard' = heard \cup {target} /\ at' = "yield_text"
     ELSE at' = "pull" /\ UNCHANGED <<emitted, heard>>
  /\ UNCHANGED <<target, late, upstream, chunk, records, verdicts, metered, left>>

(* A chunk is taken: its counts replace the last known ones, a text chunk  *)
(* goes to the client, and the done chunk waits for the stream to end.     *)
Take ==
  /\ at = "got" /\ ~late
  /\ usage' = Latest(usage, chunk.usage)
  /\ IF chunk.kind = "text"
     THEN emitted' = TRUE /\ heard' = heard \cup {target} /\ at' = "yield_text"
     ELSE at' = "pull" /\ UNCHANGED <<emitted, heard>>
  /\ UNCHANGED <<target, late, upstream, chunk, records, verdicts, metered, left>>

(* Faulty: any error but a terminal one falls back. *)
MayFallBackAlways == TRUE

(* Nothing but counts has been sent: another target may still answer.      *)
MayFallBack == ~emitted

(* A pull raises in mid-stream.  Before the first text any but a terminal  *)
(* error falls back; otherwise the call is recorded and raises.            *)
Break ==
  /\ at = "pull" /\ upstream = "open"
  /\ upstream' = "closed"
  /\ Report("failure")
  /\ \/ /\ MayFallBack
        /\ at' = "target" /\ target' = target + 1 /\ UNCHANGED records
     \/ /\ Record("stream", usage)
        /\ at' = "raised" /\ UNCHANGED target
  /\ UNCHANGED <<late, chunk, usage, emitted>> /\ NoHistory

(* The stream ends: success, recorded before the last chunk is offered.    *)
Finish ==
  /\ at = "pull"
  /\ upstream' = "closed"
  /\ Report("success") /\ Record(OkStatus, usage)
  /\ at' = "yield_done"
  /\ UNCHANGED <<target, late, chunk, usage, emitted>> /\ NoHistory
----------------------------------------------------------------------------
(* The client asks for the next chunk. *)
Resume ==
  /\ at \in Yields
  /\ at' = IF at = "yield_text" THEN "pull"
           ELSE IF at = "yield_buffered_text" THEN "yield_buffered" ELSE "returned"
  /\ UNCHANGED <<target, late, upstream, chunk, usage, emitted, records, verdicts>>
  /\ NoHistory

(* Faulty: the provider's stream is left to the garbage collector. *)
CloseInTryLeaving ==
  /\ at \in {"yield_text", "yield_truncated"}
  /\ Record("aborted", usage)
  /\ at' = "closed" /\ left' = at
  /\ UNCHANGED <<target, late, upstream, chunk, usage, emitted, verdicts,
                 metered, heard>>

(* The client closes: at a yield inside the try the abort is recorded and  *)
(* the provider's stream closed ...                                        *)
CloseInTry ==
  /\ at \in {"yield_text", "yield_truncated"}
  /\ Record("aborted", usage)
  /\ upstream' = "closed"
  /\ at' = "closed" /\ left' = at
  /\ UNCHANGED <<target, late, chunk, usage, emitted, verdicts, metered, heard>>

(* Faulty: every close is recorded as an abort. *)
CloseAfterRecorded ==
  /\ at \in {"yield_done", "yield_buffered_text", "yield_buffered"}
  /\ Record("aborted", usage)
  /\ at' = "closed" /\ left' = at
  /\ UNCHANGED <<target, late, upstream, chunk, usage, emitted, verdicts,
                 metered, heard>>

(* ... and at the others the call has been recorded already. *)
CloseAfter ==
  /\ at \in {"yield_done", "yield_buffered_text", "yield_buffered"}
  /\ at' = "closed" /\ left' = at
  /\ UNCHANGED <<target, late, upstream, chunk, usage, emitted, records, verdicts,
                 metered, heard>>

DeadlinePasses ==
  /\ HasDeadline /\ ~late /\ at \notin Ends
  /\ late' = TRUE
  /\ UNCHANGED <<at, target, upstream, chunk, usage, emitted, records, verdicts>>
  /\ NoHistory

Run == Admit \/ AllFailed \/ Guards \/ Buffered \/ Open \/ First \/ Pull
         \/ Truncate \/ Take \/ Break \/ Finish

Ended == at \in Ends /\ UNCHANGED vars

Next == Run \/ Resume \/ CloseInTry \/ CloseAfter \/ DeadlinePasses \/ Ended

Spec == Init /\ [][Next]_vars

----------------------------------------------------------------------------
(* A call writes one capture record, however it ends.  Left out are an     *)
(* exception the gateway does not know and a client that closes at the     *)
(* last chunk of a truncated stream: see RecordedAtMostOnce.               *)
OneRecord ==
  /\ at \in Ends \ {"untyped"} => (Len(records) = 1 \/ left = "yield_truncated")
  /\ at \notin Ends => Len(records) <= 1

(* The client never reads text of two providers, streamed or buffered:     *)
(* once a text chunk was sent, no error makes the call fall back.          *)
OneVoice == Cardinality(heard) <= 1

(* No provider stream is left open behind a call, and none while the next  *)
(* target is tried.                                                        *)
StreamsClosed == at \in Ends \cup {"target", "guarded"} => upstream # "open"

(* A call recorded once is charged the last counts its target's stream     *)
(* brought, also if the client left or the stream broke or was cut off: in *)
(* a call the deadline ended, all but those of the chunk it ended at.      *)
TargetCharged ==
  records[1].status \notin Refusals =>
    records[1].cost = IF records[1].status = "deadline"
                      THEN metered[target].before ELSE metered[target].last

(* The counts of another target are charged to nobody, but there are none  *)
(* unless its stream broke, as was reported, before its first text.        *)
LostBeforeText ==
  \A t \in Targets \ {target} :
    metered[t].last # NoUsage => verdicts[t] = {"failure"} /\ t \notin heard

(* What is known of a call's usage is charged, but for what a stream used  *)
(* that broke before its first text, whatever became of the call.          *)
KnownUsageCharged ==
  at \in Ends /\ Len(records) = 1 => TargetCharged /\ LostBeforeText

(* What the runner says of its deadline path: closing the stream must not  *)
(* lead to a second record of the same call.                               *)
RecordedAtMostOnce == Len(records) <= 1
============================================================================
