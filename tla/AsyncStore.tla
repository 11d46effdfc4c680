---------------------------- MODULE AsyncStore ----------------------------
(***************************************************************************)
(* AsyncCaptureStore of agent_ctl/store/async_store.py: call records are   *)
(* handed to a bounded queue and one background thread writes them to the  *)
(* inner store.                                                            *)
(*                                                                         *)
(* Threads: writers in save(), one reader in list_recent() (the same code  *)
(* as iter_all and cost_summary), closers in close() -- the explicit call  *)
(* and the one registered with atexit -- and the worker in _run().         *)
(* No lock guards the flag _closed.  CPython switches threads at calls and *)
(* loop jumps only: save() calls put_nowait between its check of _closed   *)
(* and the record's place in the queue, so these are separate steps, while *)
(* close() checks and sets the flag in one, and "_dropped += 1" is one.    *)
(* Operations of queue.Queue are atomic.  The timeouts of close() may      *)
(* expire whenever what they wait for has not happened.                    *)
(***************************************************************************)
EXTENDS Integers, Sequences, FiniteSets, Functions

CONSTANTS Records,       \* the call records of a run
          Writers,       \* request threads
          Closers,       \* threads that call close()
          MaxQueue,      \* max_queue
          Stop,          \* the sentinel _STOP
          None

ASSUME QueueAssumption ==
  /\ MaxQueue \in Nat \ {0}
  /\ IsFiniteSet(Records)
  /\ Stop \notin Records
  /\ None \notin Records \cup {Stop}

VARIABLES queue,        \* _q
          unfinished,   \* _q's count of items put and not yet task_done()
          closed,       \* _closed
          dropped,      \* _dropped
          worker,       \* the worker: where it is and the item it holds
          writing,      \* per writer: a record past the check of _closed
          closer,       \* per closer: where it is in close()
          reader,       \* where the reader is in list_recent()
          saved,        \* records the inner store has written
          failed,       \* records the inner store raised on
          innerClosed,  \* the inner store has been closed
          submitted,    \* history: records save() was called with
          late,         \* history: records queued after _closed was set
          awaited       \* history: records the current flush() waits for

vars == <<queue, unfinished, closed, dropped, worker, writing, closer, reader,
          saved, failed, innerClosed, submitted, late, awaited>>

queueVars == <<queue, unfinished>>
storeVars == <<saved, failed, innerClosed>>

Full == Len(queue) >= MaxQueue

(* The records among the items of the queue. *)
Queued == Range(queue) \ {Stop}

TypeOK ==
  /\ queue \in Seq(Records \cup {Stop}) /\ Len(queue) <= MaxQueue
  /\ unfinished = Len(queue) + (IF worker.item = None THEN 0 ELSE 1)
  /\ closed \in BOOLEAN
  /\ dropped \in 0..Cardinality(Records)
  /\ worker \in [at : {"get", "save", "done", "exited"},
                 item : Records \cup {Stop, None}]
  /\ writing \in [Writers -> Records \cup {None}]
  /\ closer \in [Closers -> {"out", "stopping", "joining", "returned"}]
  /\ reader \in {"out", "flushing", "reading"}
  /\ saved \subseteq Records /\ failed \subseteq Records
  /\ innerClosed \in BOOLEAN
  /\ submitted \subseteq Records
  /\ late \subseteq Records
  /\ awaited \subseteq Records

Init ==
  /\ queue = <<>> /\ unfinished = 0
  /\ closed = FALSE /\ dropped = 0
  /\ worker = [at |-> "get", item |-> None]
  /\ writing = [w \in Writers |-> None]
  /\ closer = [k \in Closers |-> "out"]
  /\ reader = "out"
  /\ saved = {} /\ failed = {} /\ innerClosed = FALSE
  /\ submitted = {} /\ late = {} /\ awaited = {}
----------------------------------------------------------------------------
(* save(): the check of _closed ... *)
SaveCheck(w, r) ==
  /\ writing[w] = None /\ r \notin submitted
  /\ submitted' = submitted \cup {r}
  /\ IF closed
     THEN dropped' = dropped + 1 /\ UNCHANGED writing
     ELSE writing' = [writing EXCEPT ![w] = r] /\ UNCHANGED dropped
  /\ UNCHANGED <<queueVars, closed, worker, closer, reader, storeVars, late, awaited>>

(* ... and put_nowait, which gives the record up when the queue is full.   *)
SavePut(w) ==
  /\ writing[w] # None
  /\ IF Full
     THEN dropped' = dropped + 1 /\ UNCHANGED <<queueVars, late>>
     ELSE /\ queue' = Append(queue, writing[w])
          /\ unfinished' = unfinished + 1
          /\ late' = IF closed THEN late \cup {writing[w]} ELSE late
          /\ UNCHANGED dropped
  /\ writing' = [writing EXCEPT ![w] = None]
  /\ UNCHANGED <<closed, worker, closer, reader, storeVars, submitted, awaited>>
----------------------------------------------------------------------------
(* _run(): get() takes the oldest item. *)
Get ==
  /\ worker.at = "get" /\ queue # <<>>
  /\ worker' = [at |-> IF Head(queue) = Stop THEN "done" ELSE "save",
                item |-> Head(queue)]
  /\ queue' = Tail(queue)
  /\ UNCHANGED <<unfinished, closed, dropped, writing, closer, reader, storeVars,
                 submitted, late, awaited>>

(* inner.save(): it writes the record or raises, and both are swallowed.   *)
InnerSave ==
  /\ worker.at = "save"
  /\ \/ saved' = saved \cup {worker.item} /\ UNCHANGED failed
     \/ failed' = failed \cup {worker.item} /\ UNCHANGED saved
  /\ worker' = [worker EXCEPT !.at = "done"]
  /\ UNCHANGED <<queueVars, closed, dropped, writing, closer, reader, innerClosed,
                 submitted, late, awaited>>

(* Faulty: the sentinel is not acknowledged. *)
TaskDoneButForStop ==
  /\ worker.at = "done"
  /\ unfinished' = IF worker.item = Stop THEN unfinished ELSE unfinished - 1
  /\ worker' = [at |-> IF worker.item = Stop THEN "exited" ELSE "get",
                item |-> None]
  /\ UNCHANGED <<queue, closed, dropped, writing, closer, reader, storeVars,
                 submitted, late, awaited>>

(* Faulty: the loop ends with the first item after close(). *)
TaskDoneUntilClosed ==
  /\ worker.at = "done"
  /\ unfinished' = unfinished - 1
  /\ worker' = [at |-> IF worker.item = Stop \/ closed THEN "exited" ELSE "get",
                item |-> None]
  /\ UNCHANGED <<queue, closed, dropped, writing, closer, reader, storeVars,
                 submitted, late, awaited>>

(* Faulty: the sentinel does not end the loop. *)
TaskDoneForEver ==
  /\ worker.at = "done"
  /\ unfinished' = unfinished - 1
  /\ worker' = [at |-> "get", item |-> None]
  /\ UNCHANGED <<queue, closed, dropped, writing, closer, reader, storeVars,
                 submitted, late, awaited>>

(* task_done(), after which the sentinel ends the loop. *)
TaskDone ==
  /\ worker.at = "done"
  /\ unfinished' = unfinished - 1
  /\ worker' = [at |-> IF worker.item = Stop THEN "exited" ELSE "get",
                item |-> None]
  /\ UNCHANGED <<queue, closed, dropped, writing, closer, reader, storeVars,
                 submitted, late, awaited>>
----------------------------------------------------------------------------
(* list_recent(): flush() joins the queue ... *)
FlushStart ==
  /\ reader = "out"
  /\ reader' = "flushing"
  /\ awaited' = Queued \cup ({worker.item} \cap Records)
  /\ UNCHANGED <<queueVars, closed, dropped, worker, writing, closer, storeVars,
                 submitted, late>>

(* Faulty: flush() waits for the queue to be empty, not to be done with.   *)
FlushEndOnEmpty ==
  /\ reader = "flushing" /\ queue = <<>>
  /\ reader' = "reading"
  /\ UNCHANGED <<queueVars, closed, dropped, worker, writing, closer, storeVars,
                 submitted, late, awaited>>

(* ... which returns when nothing is unfinished ... *)
FlushEnd ==
  /\ reader = "flushing" /\ unfinished = 0
  /\ reader' = "reading"
  /\ UNCHANGED <<queueVars, closed, dropped, worker, writing, closer, storeVars,
                 submitted, late, awaited>>

(* ... and the inner store is read. *)
Read ==
  /\ reader = "reading"
  /\ reader' = "out" /\ awaited' = {}
  /\ UNCHANGED <<queueVars, closed, dropped, worker, writing, closer, storeVars,
                 submitted, late>>
----------------------------------------------------------------------------
(* close(): whoever finds the store open closes it, others return at once. *)
CloseBegin(k) ==
  /\ closer[k] = "out"
  /\ closed' = TRUE
  /\ closer' = [closer EXCEPT ![k] = IF closed THEN "returned" ELSE "stopping"]
  /\ UNCHANGED <<queueVars, dropped, worker, writing, reader, storeVars,
                 submitted, late, awaited>>

(* put(_STOP, timeout) waits for room in the queue ... *)
PutStop(k) ==
  /\ closer[k] = "stopping" /\ ~Full
  /\ queue' = Append(queue, Stop)
  /\ unfinished' = unfinished + 1
  /\ closer' = [closer EXCEPT ![k] = "joining"]
  /\ UNCHANGED <<closed, dropped, worker, writing, reader, storeVars,
                 submitted, late, awaited>>

(* Faulty: put without a timeout waits for as long as the queue is full.   *)
PutTimeoutNever(k) == FALSE

(* ... and gives up, leaving the worker to itself, when there is none.     *)
PutTimeout(k) ==
  /\ closer[k] = "stopping" /\ Full
  /\ closer' = [closer EXCEPT ![k] = "returned"]
  /\ UNCHANGED <<queueVars, closed, dropped, worker, writing, reader, storeVars,
                 submitted, late, awaited>>

(* Faulty: the inner store is closed although join() timed out. *)
JoinReturnsClosing(k) ==
  /\ closer[k] = "joining"
  /\ innerClosed' = TRUE
  /\ closer' = [closer EXCEPT ![k] = "returned"]
  /\ UNCHANGED <<queueVars, closed, dropped, worker, writing, reader, saved, failed,
                 submitted, late, awaited>>

(* join(timeout) returns; the inner store is closed if the worker is gone. *)
JoinReturns(k) ==
  /\ closer[k] = "joining"
  /\ innerClosed' = (innerClosed \/ worker.at = "exited")
  /\ closer' = [closer EXCEPT ![k] = "returned"]
  /\ UNCHANGED <<queueVars, closed, dropped, worker, writing, reader, saved, failed,
                 submitted, late, awaited>>
----------------------------------------------------------------------------
Worker == Get \/ InnerSave \/ TaskDone
Writer(w) == (\E r \in Records : SaveCheck(w, r)) \/ SavePut(w)
Closer(k) == CloseBegin(k) \/ PutStop(k) \/ PutTimeout(k) \/ JoinReturns(k)
Reader == FlushStart \/ FlushEnd \/ Read

Next ==
  \/ Worker
  \/ Reader
  \/ \E w \in Writers : Writer(w)
  \/ \E k \in Closers : Closer(k)

Spec == Init /\ [][Next]_vars

(* A closer that has begun keeps running; nothing is asked of the inner    *)
(* store, which may hang.                                                  *)
ClosersRun ==
  \A k \in Closers : WF_vars(PutStop(k) \/ PutTimeout(k) \/ JoinReturns(k))

(* The inner store answers, and the reader runs. *)
StoreAnswers == WF_vars(Worker) /\ WF_vars(FlushEnd)

HangingSpec == Spec /\ ClosersRun

FairSpec == Spec /\ ClosersRun /\ StoreAnswers
----------------------------------------------------------------------------
(* Every record handed to save() is, at every moment, in exactly one place: *)
(* with a writer, in the queue, with the worker, written, refused by the   *)
(* inner store, or counted as dropped.                                     *)
RecordsConserved ==
  Cardinality(submitted) =
    Cardinality({w \in Writers : writing[w] # None})
      + Cardinality(Queued)
      + (IF worker.item \in Records /\ worker.at = "save" THEN 1 ELSE 0)
      + Cardinality(saved) + Cardinality(failed)
      + dropped

(* Write, then read: a reader finds everything that was queued before it   *)
(* asked, whatever writers and closers do meanwhile.                       *)
ReadYourWrites == reader = "reading" => awaited \subseteq saved \cup failed

(* The inner store is closed only when the worker is gone for good, however *)
(* many threads close and whichever timeouts expire: no write meets a      *)
(* closed store.                                                           *)
NoWriteAfterClose == innerClosed => worker.at = "exited"

(* Shutting down loses nothing that was queued in time: what the worker    *)
(* leaves behind was queued by a save() that overlapped close().           *)
OnlyLateRecordsLost == worker.at = "exited" => Queued \subseteq late

(* Every record is accounted for at every moment, and at the end the only  *)
(* ones neither written, refused nor counted are those of late save()s.    *)
RecordsAccounted == RecordsConserved /\ OnlyLateRecordsLost

(* close() returns even if the inner store hangs and the queue is full.    *)
CloseReturns ==
  \A k \in Closers : (closer[k] # "out") ~> (closer[k] = "returned")

(* Once the sentinel is queued the worker drains the queue and ends, if    *)
(* the inner store answers.                                                *)
StopEndsWorker ==
  StoreAnswers => ((Stop \in Range(queue)) ~> (worker.at = "exited"))

(* A read comes back.  A record that save() is given after the shutdown is  *)
(* dropped so that there is no backlog which nobody takes, says save(); but *)
(* the check and the put are two steps, and one that queues its record     *)
(* behind the sentinel keeps flush(), and so every read, waiting for ever. *)
FlushReturns == (reader = "flushing") ~> (reader # "flushing")
============================================================================
