-------------------------- MODULE AsyncStoreProofs --------------------------
(***************************************************************************)
(* Read-your-writes, a safe shutdown and an account of every record of the *)
(* asynchronous store, for any number of writers, closers and records and  *)
(* any queue bound.                                                        *)
(***************************************************************************)
EXTENDS AsyncStore, FiniteSetTheorems, TLAPS

Items == Records \cup {Stop}

(* The worker holds an item between get() and task_done() only. *)
WorkerOK ==
  /\ worker \in [at : {"get", "save", "done", "exited"}, item : Items \cup {None}]
  /\ worker.at \in {"get", "exited"} <=> worker.item = None
  /\ worker.at = "save" => worker.item \in Records

QueueOK ==
  /\ queue \in Seq(Items)
  /\ unfinished = Len(queue) + (IF worker.item = None THEN 0 ELSE 1)

(* A record the worker is done with has been written or refused. *)
DoneIsSaved ==
  worker.at = "done" /\ worker.item # Stop => worker.item \in saved \cup failed

(* Where what a flush waits for can be. *)
AwaitedOK ==
  \/ reader = "out"
  \/ /\ reader = "flushing"
     /\ awaited \subseteq saved \cup failed \cup Range(queue) \cup {worker.item}
  \/ reader = "reading" /\ awaited \subseteq saved \cup failed

IInv ==
  /\ WorkerOK /\ QueueOK /\ DoneIsSaved /\ AwaitedOK
  /\ awaited \subseteq Records
  /\ writing \in [Writers -> Records \cup {None}]
  /\ NoWriteAfterClose
----------------------------------------------------------------------------
(* Appending adds one element to the range of a queue. *)
LEMMA RangeOfAppend ==
  ASSUME NEW S, NEW q \in Seq(S), NEW e \in S
  PROVE  Range(Append(q, e)) = Range(q) \cup {e}
<1>1. /\ DOMAIN Append(q, e) = 1..(Len(q) + 1)
      /\ \A i \in 1..Len(q) : Append(q, e)[i] = q[i]
      /\ Append(q, e)[Len(q) + 1] = e
      /\ DOMAIN q = 1..Len(q) /\ Len(q) \in Nat
  OBVIOUS
<1>2. 1..(Len(q) + 1) = (1..Len(q)) \cup {Len(q) + 1}
  BY <1>1
<1> QED
  BY <1>1, <1>2 DEF Range

(* Taking the head off leaves the rest of the range. *)
LEMMA RangeOfTail ==
  ASSUME NEW S, NEW q \in Seq(S), q # <<>>
  PROVE  Range(q) = {Head(q)} \cup Range(Tail(q))
<1>1. /\ DOMAIN q = 1..Len(q) /\ Len(q) \in Nat /\ Len(q) >= 1
      /\ Head(q) = q[1]
      /\ DOMAIN Tail(q) = 1..(Len(q) - 1)
      /\ \A i \in 1..(Len(q) - 1) : Tail(q)[i] = q[i + 1]
  OBVIOUS
<1>2. ASSUME NEW i \in 1..Len(q) PROVE q[i] \in {Head(q)} \cup Range(Tail(q))
  <2>1. CASE i = 1
    BY <2>1, <1>1
  <2>2. CASE i # 1
    <3>1. i - 1 \in 1..(Len(q) - 1) /\ Tail(q)[i - 1] = q[i]
      BY <2>2, <1>1
    <3> QED
      BY <3>1, <1>1 DEF Range
  <2> QED
    BY <2>1, <2>2
<1>3. ASSUME NEW i \in 1..(Len(q) - 1) PROVE Tail(q)[i] \in Range(q)
  BY <1>1 DEF Range
<1>4. Head(q) \in Range(q)
  BY <1>1 DEF Range
<1> QED
  BY <1>1, <1>2, <1>3, <1>4 DEF Range

(* An empty queue holds nothing. *)
LEMMA EmptyRange == Range(<<>>) = {}
  BY DEF Range

(* A new store satisfies the invariant. *)
LEMMA InitIInv == Init => IInv
  BY DEF Init, IInv, WorkerOK, QueueOK, DoneIsSaved, AwaitedOK, NoWriteAfterClose, Items

(* Steps that leave the worker, the inner store and the reader alone and   *)
(* at most add one item to the queue.                                      *)
LEMMA PutKeeps ==
  ASSUME IInv, NEW e \in Items,
         \/ UNCHANGED <<queue, unfinished>>
         \/ queue' = Append(queue, e) /\ unfinished' = unfinished + 1,
         writing' \in [Writers -> Records \cup {None}],
         UNCHANGED <<worker, reader, awaited, saved, failed>>,
         NoWriteAfterClose'
  PROVE  IInv'
<1>1. QueueOK'
  <2>1. queue \in Seq(Items) /\ Len(queue) \in Nat
    BY DEF IInv, QueueOK
  <2>2. Append(queue, e) \in Seq(Items) /\ Len(Append(queue, e)) = Len(queue) + 1
    BY <2>1
  <2>3. CASE UNCHANGED <<queue, unfinished>>
    BY <2>3 DEF IInv, QueueOK
  <2>4. CASE queue' = Append(queue, e) /\ unfinished' = unfinished + 1
    <3>1. queue' \in Seq(Items) /\ Len(queue') = Len(queue) + 1
      BY <2>2, <2>4
    <3> QED
      BY <2>1, <2>4, <3>1 DEF IInv, QueueOK
  <2> QED
    BY <2>3, <2>4
<1>2. Range(queue) \subseteq Range(queue')
  <2>1. CASE queue' = queue
    BY <2>1
  <2>2. CASE queue' = Append(queue, e)
    <3>1. queue \in Seq(Items)
      BY DEF IInv, QueueOK
    <3>2. Range(Append(queue, e)) = Range(queue) \cup {e}
      BY <3>1, RangeOfAppend
    <3> QED
      BY <2>2, <3>2
  <2> QED
    BY <2>1, <2>2
<1>3. AwaitedOK'
  BY <1>2 DEF IInv, AwaitedOK
<1> QED
  BY <1>1, <1>3 DEF IInv, WorkerOK, DoneIsSaved

(* Every step of the worker, a saver, a reader and a closer keeps it. *)
LEMMA NextIInv == IInv /\ [Next]_vars => IInv'
<1> SUFFICES ASSUME IInv, [Next]_vars PROVE IInv'
  OBVIOUS
<1> USE QueueAssumption
<1>stop. Stop \in Items /\ Records \subseteq Items
  BY DEF Items
<1>1. ASSUME NEW w \in Writers, NEW r \in Records, SaveCheck(w, r) PROVE IInv'
  BY <1>1, <1>stop, PutKeeps
     DEF SaveCheck, queueVars, storeVars, IInv, NoWriteAfterClose
<1>2. ASSUME NEW w \in Writers, SavePut(w) PROVE IInv'
  <2>1. writing[w] \in Items
    BY <1>2, <1>stop DEF SavePut, IInv
  <2> QED
    BY <1>2, <2>1, PutKeeps
       DEF SavePut, queueVars, storeVars, IInv, NoWriteAfterClose
<1>3. CASE Get
  <2> USE <1>3 DEF Get
  <2>1. /\ Head(queue) \in Items /\ Tail(queue) \in Seq(Items)
        /\ Len(Tail(queue)) = Len(queue) - 1
        /\ worker.item = None
        /\ Range(queue) = {Head(queue)} \cup Range(Tail(queue))
    BY RangeOfTail DEF IInv, QueueOK, WorkerOK
  <2>2. WorkerOK' /\ QueueOK' /\ DoneIsSaved'
    BY <2>1 DEF IInv, WorkerOK, QueueOK, DoneIsSaved, Items
  <2>3. AwaitedOK'
    BY <2>1 DEF IInv, AwaitedOK, storeVars
  <2> QED
    BY <2>2, <2>3 DEF IInv, NoWriteAfterClose, storeVars
<1>4. CASE InnerSave
  <2> USE <1>4 DEF InnerSave
  <2>1. WorkerOK' /\ QueueOK' /\ DoneIsSaved'
    BY DEF IInv, WorkerOK, QueueOK, DoneIsSaved, queueVars
  <2>2. AwaitedOK'
    BY DEF IInv, AwaitedOK, queueVars, WorkerOK
  <2> QED
    BY <2>1, <2>2 DEF IInv, NoWriteAfterClose
<1>5. CASE TaskDone
  <2> USE <1>5 DEF TaskDone
  <2>1. WorkerOK' /\ QueueOK' /\ DoneIsSaved'
    BY DEF IInv, WorkerOK, QueueOK, DoneIsSaved, Items
  <2>2. AwaitedOK'
    BY DEF IInv, AwaitedOK, storeVars, DoneIsSaved
  <2> QED
    BY <2>1, <2>2 DEF IInv, NoWriteAfterClose, storeVars
<1>6. CASE FlushStart
  <2> USE <1>6 DEF FlushStart, queueVars, storeVars
  <2>1. Queued \subseteq Records
    BY DEF Queued, Range, IInv, QueueOK, Items
  <2>2. awaited' \subseteq Records /\ AwaitedOK'
    BY <2>1 DEF AwaitedOK, Queued
  <2> QED
    BY <2>2 DEF IInv, WorkerOK, QueueOK, DoneIsSaved, NoWriteAfterClose
<1>7. CASE FlushEnd
  <2> USE <1>7 DEF FlushEnd
  <2>1. queue = <<>> /\ worker.item = None
    BY DEF IInv, QueueOK
  <2>2. AwaitedOK'
    BY <2>1, EmptyRange DEF IInv, AwaitedOK, storeVars
  <2> QED
    BY <2>2 DEF IInv, WorkerOK, QueueOK, DoneIsSaved, NoWriteAfterClose,
                queueVars, storeVars
<1>8. CASE Read
  BY <1>8 DEF Read, IInv, WorkerOK, QueueOK, DoneIsSaved, AwaitedOK,
              NoWriteAfterClose, queueVars, storeVars
<1>9. ASSUME NEW k \in Closers, Closer(k) PROVE IInv'
  <2>1. CASE CloseBegin(k) \/ PutStop(k) \/ PutTimeout(k)
    BY <2>1, <1>stop, PutKeeps
       DEF CloseBegin, PutStop, PutTimeout, queueVars, storeVars, IInv,
           NoWriteAfterClose
  <2>2. CASE JoinReturns(k)
    BY <2>2, <1>stop, PutKeeps DEF JoinReturns, queueVars, IInv, NoWriteAfterClose
  <2> QED
    BY <1>9, <2>1, <2>2 DEF Closer
<1>10. CASE UNCHANGED vars
  BY <1>10, <1>stop, PutKeeps DEF vars, IInv, NoWriteAfterClose
<1> QED
  BY <1>1, <1>2, <1>3, <1>4, <1>5, <1>6, <1>7, <1>8, <1>9, <1>10
     DEF Next, Worker, Writer, Reader

(* The invariant of the store's shutdown and reads (async_store.py) holds in every reachable state. *)
THEOREM Invariance == Spec => []IInv
  BY InitIInv, NextIInv, PTL DEF Spec

(* A read that follows flush() finds every record queued before it.        *)
THEOREM ReadsOwnWrites == Spec => []ReadYourWrites
<1>1. IInv => ReadYourWrites
  BY DEF IInv, AwaitedOK, ReadYourWrites
<1> QED
  BY <1>1, Invariance, PTL

(* The inner store is never written to after it was closed. *)
THEOREM ClosedStoreUntouched == Spec => []NoWriteAfterClose
  BY Invariance, PTL DEF IInv
-----------------------------------------------------------------------------
(* The shapes of what is left: the queue's bound, the closers, the reader. *)
Shapes ==
  /\ Len(queue) <= MaxQueue
  /\ closed \in BOOLEAN /\ innerClosed \in BOOLEAN
  /\ closer \in [Closers -> {"out", "stopping", "joining", "returned"}]
  /\ reader \in {"out", "flushing", "reading"}
  /\ late \subseteq Records

(* Every step keeps the types, which lean on the invariant for the worker. *)
LEMMA NextShapes == IInv /\ Shapes /\ [Next]_vars => Shapes'
<1> SUFFICES ASSUME IInv, Shapes, [Next]_vars PROVE Shapes'
  OBVIOUS
<1> USE QueueAssumption DEF Shapes
<1>1. queue \in Seq(Items) /\ MaxQueue \in Nat
  BY DEF IInv, QueueOK
<1>2. ASSUME NEW w \in Writers, NEW r \in Records, SaveCheck(w, r) PROVE Shapes'
  BY <1>2 DEF SaveCheck, queueVars, storeVars
<1>3. ASSUME NEW w \in Writers, SavePut(w) PROVE Shapes'
  <2>1. writing[w] \in Records
    BY <1>3 DEF SavePut, IInv
  <2>2. Len(queue') <= MaxQueue
    BY <1>1, <1>3 DEF SavePut, queueVars, Full
  <2> QED
    BY <1>3, <2>1, <2>2 DEF SavePut, storeVars
<1>4. CASE Get
  <2>1. Len(queue') <= MaxQueue
    BY <1>1, <1>4 DEF Get
  <2> QED
    BY <1>4, <2>1 DEF Get, storeVars
<1>5. CASE InnerSave \/ TaskDone \/ Reader \/ UNCHANGED vars
  BY <1>5 DEF InnerSave, TaskDone, Reader, FlushStart, FlushEnd, Read, vars,
              queueVars, storeVars
<1>6. ASSUME NEW k \in Closers, Closer(k) PROVE Shapes'
  <2>1. CASE PutStop(k)
    <3>1. Len(queue') <= MaxQueue
      BY <1>1, <2>1 DEF PutStop, Full
    <3> QED
      BY <2>1, <3>1 DEF PutStop, storeVars
  <2>2. CASE CloseBegin(k) \/ PutTimeout(k) \/ JoinReturns(k)
    BY <2>2 DEF CloseBegin, PutTimeout, JoinReturns, queueVars, storeVars
  <2> QED
    BY <1>6, <2>1, <2>2 DEF Closer
<1> QED
  BY <1>2, <1>3, <1>4, <1>5, <1>6 DEF Next, Worker, Writer

(* A new store is well typed. *)
LEMMA InitShapes == Init => Shapes
<1> SUFFICES ASSUME Init PROVE Shapes
  OBVIOUS
<1>1. Len(queue) = 0 /\ MaxQueue \in Nat
  BY QueueAssumption DEF Init
<1>2. Len(queue) <= MaxQueue
  BY <1>1
<1>3. closer \in [Closers -> {"out", "stopping", "joining", "returned"}]
  BY DEF Init
<1> QED
  BY <1>2, <1>3 DEF Init, Shapes
----------------------------------------------------------------------------
(* Where the records are.  Every record handed to save() is in one place,  *)
(* and whatever is behind a sentinel came late.                            *)
AtWriter == {w \in Writers : writing[w] # None}

Held == IF worker.item \in Records /\ worker.at = "save" THEN {worker.item} ELSE {}

NoDuplicate ==
  /\ \A v, w \in Writers : writing[v] = writing[w] /\ writing[v] # None => v = w
  /\ \A i, j \in 1..Len(queue) : queue[i] = queue[j] /\ queue[i] # Stop => i = j

OnePlace ==
  /\ \A w \in AtWriter : writing[w] \in submitted \ (Queued \cup Held \cup saved \cup failed)
  /\ Queued \subseteq submitted \ (Held \cup saved \cup failed)
  /\ Held \subseteq submitted \ (saved \cup failed)
  /\ saved \subseteq submitted \ failed
  /\ failed \subseteq submitted

Finite ==
  /\ IsFiniteSet(AtWriter) /\ submitted \subseteq Records
  /\ dropped \in Nat

LateOK ==
  /\ \A i, j \in 1..Len(queue) :
       queue[i] = Stop /\ i < j /\ queue[j] # Stop => queue[j] \in late
  /\ worker.item = Stop \/ worker.at = "exited" => Queued \subseteq late
  /\ worker.item = Stop \/ worker.at = "exited" \/ Stop \in Range(queue) => closed
  /\ \A k \in Closers : closer[k] \in {"stopping", "joining"} => closed

(* The books: what RecordsConserved adds up, as sizes of the places.       *)
Balance ==
  Cardinality(submitted) =
    Cardinality(AtWriter) + Cardinality(Queued) + Cardinality(Held)
      + Cardinality(saved) + Cardinality(failed) + dropped

Accounts == NoDuplicate /\ OnePlace /\ Finite /\ LateOK /\ Balance

(* put_nowait: no record twice in the queue, one element more. *)
LEMMA QueueGrows ==
  ASSUME NEW q \in Seq(Items), NEW e \in Items, e = Stop \/ e \notin Range(q),
         \A i, j \in 1..Len(q) : q[i] = q[j] /\ q[i] # Stop => i = j
  PROVE  LET r == Append(q, e) IN
         /\ \A i, j \in 1..Len(r) : r[i] = r[j] /\ r[i] # Stop => i = j
         /\ Range(r) = Range(q) \cup {e}
         /\ Len(r) = Len(q) + 1
         /\ \A i \in 1..Len(r) : r[i] = IF i = Len(q) + 1 THEN e ELSE q[i]
<1> DEFINE r == Append(q, e)
<1>1. /\ Len(r) = Len(q) + 1 /\ Len(q) \in Nat
      /\ \A i \in 1..Len(r) : r[i] = IF i = Len(q) + 1 THEN e ELSE q[i]
  OBVIOUS
<1>2. \A i \in 1..Len(q) : q[i] \in Range(q)
  BY DEF Range
<1>3. Range(r) = Range(q) \cup {e}
  BY RangeOfAppend
<1> HIDE DEF r
<1>4. \A i, j \in 1..Len(r) : r[i] = r[j] /\ r[i] # Stop => i = j
  BY <1>1, <1>2
<1> QED
  BY <1>1, <1>3, <1>4 DEF r

(* get: the head leaves the queue, which keeps every other element once. *)
LEMMA QueueShrinks ==
  ASSUME NEW q \in Seq(Items), q # <<>>,
         \A i, j \in 1..Len(q) : q[i] = q[j] /\ q[i] # Stop => i = j
  PROVE  LET r == Tail(q) IN
         /\ \A i, j \in 1..Len(r) : r[i] = r[j] /\ r[i] # Stop => i = j
         /\ Range(q) = {Head(q)} \cup Range(r)
         /\ Head(q) # Stop => Head(q) \notin Range(r)
         /\ Len(r) = Len(q) - 1
         /\ \A i \in 1..Len(r) : r[i] = q[i + 1]
<1> DEFINE r == Tail(q)
<1>1. /\ Len(r) = Len(q) - 1 /\ Len(q) \in Nat /\ Len(q) >= 1
      /\ \A i \in 1..Len(r) : r[i] = q[i + 1]
      /\ Head(q) = q[1] /\ DOMAIN r = 1..Len(r)
  OBVIOUS
<1>2. Range(q) = {Head(q)} \cup Range(r)
  BY RangeOfTail
<1> HIDE DEF r
<1>3. \A i \in 1..Len(r) : i \in 1..Len(q) /\ i + 1 \in 1..Len(q) /\ i + 1 # 1
  BY <1>1
<1>4. \A i, j \in 1..Len(r) : r[i] = r[j] /\ r[i] # Stop => i = j
  BY <1>1, <1>3
<1>5. Head(q) # Stop => Head(q) \notin Range(r)
  <2> SUFFICES ASSUME Head(q) # Stop, NEW i \in 1..Len(r), r[i] = Head(q)
               PROVE  FALSE
    BY <1>1 DEF Range
  <2>1. 1 \in 1..Len(q) /\ q[1] = q[i + 1] /\ q[1] # Stop
    BY <1>1
  <2> QED
    BY <2>1, <1>3
<1> QED
  BY <1>1, <1>2, <1>4, <1>5 DEF r

(* A new store has nothing to account for. *)
LEMMA InitAccounts == Init => Accounts
<1> SUFFICES ASSUME Init PROVE Accounts
  OBVIOUS
<1> USE QueueAssumption
<1>1. AtWriter = {} /\ Queued = {} /\ Held = {} /\ Len(queue) = 0 /\ Range(queue) = {}
  BY EmptyRange DEF Init, AtWriter, Queued, Held
<1>2. NoDuplicate /\ OnePlace /\ LateOK
  BY <1>1 DEF Init, NoDuplicate, OnePlace, LateOK
<1>3. Finite
  BY <1>1, FS_EmptySet DEF Init, Finite
<1>4. Balance
  <2>1. Cardinality(AtWriter) = 0 /\ Cardinality(Queued) = 0 /\ Cardinality(submitted) = 0
        /\ Cardinality(saved) = 0 /\ Cardinality(failed) = 0 /\ dropped = 0 /\ Cardinality(Held) = 0
    BY <1>1, FS_EmptySet DEF Init
  <2> QED
    BY <2>1 DEF Balance
<1> QED
  BY <1>2, <1>3, <1>4 DEF Accounts

(* The balance of the proof is the property of the run. *)
LEMMA BalanceIs == Balance <=> RecordsConserved
<1>1. Cardinality(Held) = IF worker.item \in Records /\ worker.at = "save" THEN 1 ELSE 0
  BY FS_Singleton, FS_EmptySet DEF Held
<1> QED
  BY <1>1 DEF Balance, RecordsConserved, AtWriter

(* Removing or adding one record changes the size of a set by one. *)
LEMMA Sizes ==
  ASSUME NEW S, S \subseteq Records
  PROVE  /\ Cardinality(S) \in Nat
         /\ \A x \in S : Cardinality(S \ {x}) = Cardinality(S) - 1
         /\ \A x \in Records \ S : Cardinality(S \cup {x}) = Cardinality(S) + 1
<1>1. IsFiniteSet(S)
  BY QueueAssumption, FS_Subset
<1> QED
  BY <1>1, FS_CardinalityType, FS_AddElement, FS_RemoveElement

(* A step that moves no record. *)
LEMMA NothingMoves ==
  ASSUME Accounts, UNCHANGED <<queue, worker, writing, saved, failed, submitted, dropped, late>>,
         closed => closed',
         \A k \in Closers : closer'[k] \in {"stopping", "joining"} => closed'
  PROVE  Accounts'
<1>1. Queued' = Queued /\ Held' = Held /\ AtWriter' = AtWriter
  BY DEF Queued, Range, Held, AtWriter
<1>2. NoDuplicate' /\ OnePlace' /\ Finite' /\ Balance'
  BY <1>1 DEF Accounts, NoDuplicate, OnePlace, Finite, Balance
<1>3. LateOK'
  BY DEF Accounts, LateOK, Queued, Range
<1> QED
  BY <1>1, <1>2, <1>3 DEF Accounts

(* Every step moves a record from one place to one other, or counts it as dropped. *)
LEMMA NextAccounts == IInv /\ Shapes /\ Accounts /\ [Next]_vars => Accounts'
<1> SUFFICES ASSUME IInv, Shapes, Accounts, [Next]_vars PROVE Accounts'
  OBVIOUS
<1> USE QueueAssumption
<1>t. /\ queue \in Seq(Items) /\ writing \in [Writers -> Records \cup {None}]
      /\ Queued \subseteq Records /\ Held \subseteq Records /\ submitted \subseteq Records
      /\ saved \subseteq Records /\ failed \subseteq Records
      /\ dropped \in Nat /\ IsFiniteSet(AtWriter) /\ Cardinality(AtWriter) \in Nat
      /\ \A i \in 1..Len(queue) : queue[i] \in Range(queue)
  <2>1. queue \in Seq(Items) /\ writing \in [Writers -> Records \cup {None}]
    BY DEF IInv, QueueOK
  <2>2. Queued \subseteq submitted /\ Held \subseteq submitted /\ submitted \subseteq Records
        /\ saved \subseteq submitted /\ failed \subseteq submitted
    BY DEF Accounts, OnePlace, Finite
  <2>3. dropped \in Nat /\ IsFiniteSet(AtWriter) /\ Cardinality(AtWriter) \in Nat
    BY FS_CardinalityType DEF Accounts, Finite
  <2>4. \A i \in 1..Len(queue) : queue[i] \in Range(queue)
    BY <2>1 DEF Range
  <2> QED
    BY <2>1, <2>2, <2>3, <2>4
<1>b. /\ NoDuplicate /\ OnePlace /\ Finite /\ LateOK /\ Balance
  BY DEF Accounts
<1>s. /\ Cardinality(Queued) \in Nat /\ Cardinality(Held) \in Nat
      /\ Cardinality(submitted) \in Nat /\ Cardinality(saved) \in Nat
      /\ Cardinality(failed) \in Nat
  BY <1>t, Sizes
<1>n. /\ Balance /\ Cardinality(AtWriter) \in Nat /\ dropped \in Nat
      /\ Cardinality(Queued) \in Nat /\ Cardinality(Held) \in Nat
      /\ Cardinality(submitted) \in Nat /\ Cardinality(saved) \in Nat
      /\ Cardinality(failed) \in Nat
  BY <1>b, <1>s, <1>t
<1>1. ASSUME NEW w \in Writers, NEW r \in Records, SaveCheck(w, r) PROVE Accounts'
  <2>1. /\ writing[w] = None /\ r \notin submitted /\ submitted' = submitted \cup {r}
        /\ UNCHANGED <<queue, worker, closed, closer, storeVars, late>>
    BY <1>1 DEF SaveCheck, queueVars
  <2>2. Queued' = Queued /\ Held' = Held /\ LateOK'
    BY <2>1, <1>b DEF Queued, Held, LateOK, Range
  <2>q. /\ Queued' = Queued /\ Held' = Held /\ saved' = saved /\ failed' = failed
    BY <2>1, <2>2 DEF storeVars
  <2>3. Cardinality(submitted') = Cardinality(submitted) + 1
    BY <2>1, <1>t, Sizes
  <2>4. CASE closed
    <3>1. dropped' = dropped + 1 /\ UNCHANGED writing
      BY <1>1, <2>4 DEF SaveCheck
    <3>2. AtWriter' = AtWriter
      BY <3>1 DEF AtWriter
    <3>3. NoDuplicate' /\ OnePlace' /\ Finite'
      BY <2>1, <2>2, <3>1, <3>2, <1>b, <1>t
         DEF NoDuplicate, OnePlace, Finite, storeVars
    <3>4. Balance'
      <4>1. /\ Cardinality(submitted') = Cardinality(submitted) + 1
            /\ Cardinality(AtWriter') = Cardinality(AtWriter)
            /\ Cardinality(Queued') = Cardinality(Queued)
            /\ Cardinality(Held') = Cardinality(Held)
            /\ Cardinality(saved') = Cardinality(saved)
            /\ Cardinality(failed') = Cardinality(failed)
            /\ dropped' = dropped + 1
        BY <2>q, <2>3, <3>1, <3>2
      <4>2. Cardinality(submitted) + 1 =
              Cardinality(AtWriter) + Cardinality(Queued) + Cardinality(Held)
                + Cardinality(saved) + Cardinality(failed) + (dropped + 1)
        BY <1>n DEF Balance
      <4> QED
        BY <4>1, <4>2 DEF Balance
    <3> QED
      BY <2>2, <3>3, <3>4 DEF Accounts
  <2>5. CASE ~closed
    <3>1. writing' = [writing EXCEPT ![w] = r] /\ UNCHANGED dropped
      BY <1>1, <2>5 DEF SaveCheck
    <3>2. AtWriter' = AtWriter \cup {w} /\ w \notin AtWriter
      BY <2>1, <3>1, <1>t DEF AtWriter
    <3>3. Cardinality(AtWriter') = Cardinality(AtWriter) + 1 /\ IsFiniteSet(AtWriter')
      BY <3>2, <1>t, FS_AddElement
    <3>4. \A v \in AtWriter : writing[v] \in submitted
      BY <1>b DEF OnePlace
    <3>5. NoDuplicate'
      BY <2>1, <3>1, <3>4, <1>b, <1>t DEF NoDuplicate, AtWriter
    <3>6. OnePlace'
      BY <2>1, <2>2, <3>1, <3>2, <1>b, <1>t DEF OnePlace, storeVars
    <3>7. Finite'
      BY <2>1, <3>1, <3>3, <1>b, <1>t DEF Finite
    <3>8. Balance'
      <4>1. /\ Cardinality(submitted') = Cardinality(submitted) + 1
            /\ Cardinality(AtWriter') = Cardinality(AtWriter) + 1
            /\ Cardinality(Queued') = Cardinality(Queued)
            /\ Cardinality(Held') = Cardinality(Held)
            /\ Cardinality(saved') = Cardinality(saved)
            /\ Cardinality(failed') = Cardinality(failed)
            /\ dropped' = dropped
        BY <2>1, <2>2, <2>3, <3>1, <3>3 DEF storeVars
      <4> QED
        BY <4>1, <1>n DEF Balance
    <3> QED
      BY <2>2, <3>5, <3>6, <3>7, <3>8 DEF Accounts
  <2> QED
    BY <2>4, <2>5
<1>2. ASSUME NEW w \in Writers, SavePut(w) PROVE Accounts'
  <2> DEFINE r == writing[w]
  <2>1. /\ w \in AtWriter /\ r \in Records /\ r # Stop /\ r \in Items
        /\ r \in submitted \ (Queued \cup Held \cup saved \cup failed)
        /\ writing' = [writing EXCEPT ![w] = None]
        /\ UNCHANGED <<worker, closed, closer, storeVars, submitted>>
    BY <1>2, <1>t, <1>b DEF SavePut, AtWriter, OnePlace, Items
  <2>2. AtWriter' = AtWriter \ {w} /\ Held' = Held
    BY <2>1, <1>t DEF AtWriter, Held
  <2>3. Cardinality(AtWriter') = Cardinality(AtWriter) - 1 /\ IsFiniteSet(AtWriter')
    BY <2>1, <2>2, <1>t, FS_RemoveElement
  <2>4. \A v \in AtWriter' : writing'[v] = writing[v] /\ writing[v] # r
    BY <2>1, <2>2, <1>t, <1>b DEF NoDuplicate, AtWriter
  <2>5. \A v, u \in Writers : writing'[v] = writing'[u] /\ writing'[v] # None => v = u
    BY <2>1, <1>t, <1>b DEF NoDuplicate
  <2> HIDE DEF r
  <2>6. CASE Full
    <3>1. dropped' = dropped + 1 /\ UNCHANGED <<queue, late>>
      BY <1>2, <2>6 DEF SavePut, queueVars
    <3>2. Queued' = Queued /\ LateOK'
      BY <2>1, <3>1, <1>b DEF Queued, LateOK, Range
    <3>3. NoDuplicate' /\ Finite'
      BY <2>1, <2>3, <2>5, <3>1, <1>b, <1>t DEF NoDuplicate, Finite
    <3>4. OnePlace'
      BY <2>1, <2>2, <2>4, <3>2, <1>b DEF OnePlace, storeVars
    <3>5. Balance'
      <4>1. /\ Cardinality(submitted') = Cardinality(submitted)
            /\ Cardinality(AtWriter') = Cardinality(AtWriter) - 1
            /\ Cardinality(Queued') = Cardinality(Queued)
            /\ Cardinality(Held') = Cardinality(Held)
            /\ Cardinality(saved') = Cardinality(saved)
            /\ Cardinality(failed') = Cardinality(failed)
            /\ dropped' = dropped + 1
        BY <2>1, <2>2, <2>3, <3>1, <3>2 DEF storeVars
      <4> QED
        BY <4>1, <1>n DEF Balance
    <3> QED
      BY <3>2, <3>3, <3>4, <3>5 DEF Accounts
  <2>7. CASE ~Full
    <3>1. /\ queue' = Append(queue, r) /\ UNCHANGED dropped
          /\ late' = IF closed THEN late \cup {r} ELSE late
      BY <1>2, <2>7 DEF SavePut, r
    <3>2. r \notin Range(queue)
      BY <2>1 DEF Queued
    <3>3. \A i, j \in 1..Len(queue) : queue[i] = queue[j] /\ queue[i] # Stop => i = j
      BY <1>b DEF NoDuplicate
    <3>4. /\ \A i, j \in 1..Len(queue') : queue'[i] = queue'[j] /\ queue'[i] # Stop => i = j
          /\ Range(queue') = Range(queue) \cup {r}
          /\ Len(queue') = Len(queue) + 1
          /\ \A i \in 1..Len(queue') : queue'[i] = IF i = Len(queue) + 1 THEN r ELSE queue[i]
      BY <3>1, <3>2, <3>3, <2>1, <1>t, QueueGrows
    <3>5. Queued' = Queued \cup {r} /\ r \notin Queued
      BY <3>4, <2>1 DEF Queued
    <3>6. NoDuplicate'
      BY <2>5, <3>4 DEF NoDuplicate
    <3>7. OnePlace'
      BY <2>1, <2>2, <2>4, <3>5, <1>b DEF OnePlace, storeVars
    <3>8. Finite'
      BY <2>1, <2>3, <3>1, <1>t DEF Finite
    <3>9. LateOK'
      <4>1. ASSUME NEW i \in 1..Len(queue'), NEW j \in 1..Len(queue'),
                   queue'[i] = Stop, i < j, queue'[j] # Stop
            PROVE  queue'[j] \in late'
        <5>1. i \in 1..Len(queue) /\ queue[i] = Stop
          BY <4>1, <3>4, <2>1, <1>t
        <5>2. closed
          BY <5>1, <1>t, <1>b DEF LateOK
        <5>3. CASE j = Len(queue) + 1
          BY <5>2, <5>3, <3>1, <3>4
        <5>4. CASE j # Len(queue) + 1
          <6>1. j \in 1..Len(queue) /\ queue'[j] = queue[j]
            BY <5>4, <3>4, <1>t
          <6> QED
            BY <6>1, <5>1, <4>1, <3>1, <1>b DEF LateOK
        <5> QED
          BY <5>3, <5>4
      <4>2. worker'.item = Stop \/ worker'.at = "exited" => Queued' \subseteq late'
        BY <2>1, <3>1, <3>5, <1>b DEF LateOK
      <4>3. worker'.item = Stop \/ worker'.at = "exited" \/ Stop \in Range(queue') => closed'
        BY <2>1, <3>4, <1>b DEF LateOK
      <4> QED
        BY <4>1, <4>2, <4>3, <2>1, <1>b DEF LateOK
    <3>10. Cardinality(Queued') = Cardinality(Queued) + 1
      BY <3>5, <2>1, <1>t, Sizes
    <3>11. Balance'
      <4>1. /\ Cardinality(submitted') = Cardinality(submitted)
            /\ Cardinality(AtWriter') = Cardinality(AtWriter) - 1
            /\ Cardinality(Queued') = Cardinality(Queued) + 1
            /\ Cardinality(Held') = Cardinality(Held)
            /\ Cardinality(saved') = Cardinality(saved)
            /\ Cardinality(failed') = Cardinality(failed)
            /\ dropped' = dropped
        BY <2>1, <2>2, <2>3, <3>1, <3>10 DEF storeVars
      <4> QED
        BY <4>1, <1>n DEF Balance
    <3> QED
      BY <3>6, <3>7, <3>8, <3>9, <3>11 DEF Accounts
  <2> QED
    BY <2>6, <2>7
<1>3. CASE Get
  <2> DEFINE e == Head(queue)
  <2>1. /\ queue # <<>> /\ worker.item = None /\ worker.at = "get" /\ e \in Items
        /\ worker' = [at |-> IF e = Stop THEN "done" ELSE "save", item |-> e]
        /\ queue' = Tail(queue)
        /\ UNCHANGED <<closed, dropped, writing, closer, saved, failed, submitted, late>>
    BY <1>3, <1>t DEF Get, IInv, WorkerOK, storeVars
  <2>2. /\ \A i, j \in 1..Len(queue') : queue'[i] = queue'[j] /\ queue'[i] # Stop => i = j
        /\ Range(queue) = {e} \cup Range(queue')
        /\ e # Stop => e \notin Range(queue')
        /\ Len(queue') = Len(queue) - 1
        /\ \A i \in 1..Len(queue') : queue'[i] = queue[i + 1]
    <3>1. \A i, j \in 1..Len(queue) : queue[i] = queue[j] /\ queue[i] # Stop => i = j
      BY <1>b DEF NoDuplicate
    <3> QED
      BY <3>1, <2>1, <1>t, QueueShrinks
  <2>3. Len(queue) \in Nat /\ Len(queue) >= 1 /\ e = queue[1]
    BY <2>1, <1>t
  <2>4. AtWriter' = AtWriter /\ Held = {}
    BY <2>1 DEF AtWriter, Held
  <2> HIDE DEF e
  <2>5. NoDuplicate' /\ Finite'
    BY <2>1, <2>2, <2>4, <1>b, <1>t DEF NoDuplicate, Finite
  <2>6. \A i, j \in 1..Len(queue') :
          queue'[i] = Stop /\ i < j /\ queue'[j] # Stop => queue'[j] \in late
    <3> SUFFICES ASSUME NEW i \in 1..Len(queue'), NEW j \in 1..Len(queue'),
                        queue'[i] = Stop, i < j, queue'[j] # Stop
                 PROVE  queue'[j] \in late
      OBVIOUS
    <3>1. /\ i + 1 \in 1..Len(queue) /\ j + 1 \in 1..Len(queue) /\ i + 1 < j + 1
          /\ queue[i + 1] = Stop /\ queue[j + 1] = queue'[j]
      BY <2>2, <2>3
    <3> QED
      BY <3>1, <1>b DEF LateOK
  <2>7. CASE e = Stop
    <3>1. Queued' = Queued /\ Held' = {} /\ worker'.item = Stop
      BY <2>1, <2>2, <2>7 DEF Queued, Held
    <3>2. Queued' \subseteq late'
      <4>1. ASSUME NEW r \in Range(queue'), r # Stop PROVE r \in late
        <5>1. PICK j \in 1..Len(queue') : r = queue'[j]
          BY <4>1, <2>1, <1>t DEF Range
        <5>2. /\ 1 \in 1..Len(queue) /\ j + 1 \in 1..Len(queue) /\ 1 < j + 1
              /\ queue[1] = Stop /\ queue[j + 1] = r
          BY <5>1, <2>2, <2>3, <2>7
        <5> QED
          BY <5>2, <4>1, <1>b DEF LateOK
      <4> QED
        BY <4>1, <2>1 DEF Queued
    <3>3. LateOK'
      <4>1. Stop \in Range(queue)
        BY <2>2, <2>7
      <4> QED
        BY <4>1, <2>1, <2>6, <3>2, <1>b DEF LateOK
    <3>4. OnePlace'
      BY <2>1, <2>4, <3>1, <1>b DEF OnePlace
    <3>5. Balance'
      BY <2>1, <2>4, <3>1, <1>n DEF Balance
    <3> QED
      BY <2>5, <3>3, <3>4, <3>5 DEF Accounts
  <2>8. CASE e # Stop
    <3>1. /\ e \in Records /\ e \in Queued /\ Queued' = Queued \ {e} /\ Held' = {e}
      BY <2>1, <2>2, <2>8 DEF Queued, Held, Items
    <3>2. LateOK'
      BY <2>1, <2>2, <2>6, <2>8, <1>b DEF LateOK, Queued
    <3>3. OnePlace'
      BY <2>1, <2>4, <3>1, <1>b DEF OnePlace
    <3>4. Cardinality(Queued') = Cardinality(Queued) - 1
      BY <3>1, <1>t, Sizes
    <3>5. Cardinality(Held) = 0 /\ Cardinality(Held') = 1
      BY <2>4, <3>1, FS_EmptySet, FS_Singleton
    <3>6. Balance'
      <4>1. /\ Cardinality(submitted') = Cardinality(submitted)
            /\ Cardinality(AtWriter') = Cardinality(AtWriter)
            /\ Cardinality(Queued') = Cardinality(Queued) - 1
            /\ Cardinality(Held') = Cardinality(Held) + 1
            /\ Cardinality(saved') = Cardinality(saved)
            /\ Cardinality(failed') = Cardinality(failed)
            /\ dropped' = dropped
        BY <2>1, <2>4, <3>4, <3>5
      <4> QED
        BY <4>1, <1>n DEF Balance
    <3> QED
      BY <2>5, <3>2, <3>3, <3>6 DEF Accounts
  <2> QED
    BY <2>7, <2>8
<1>4. CASE InnerSave
  <2> DEFINE e == worker.item
  <2>1. /\ worker.at = "save" /\ e \in Records /\ e # Stop /\ Held = {e}
        /\ e \notin saved /\ e \notin failed
        /\ worker' = [worker EXCEPT !.at = "done"]
        /\ UNCHANGED <<queue, closed, dropped, writing, closer, submitted, late>>
    BY <1>4, <1>b DEF InnerSave, queueVars, Held, IInv, WorkerOK, OnePlace
  <2>2. Held' = {} /\ Queued' = Queued /\ AtWriter' = AtWriter
        /\ worker'.item = e /\ worker'.at = "done"
    BY <2>1 DEF Held, Queued, AtWriter, Range, IInv, WorkerOK
  <2> HIDE DEF e
  <2>3. NoDuplicate' /\ Finite' /\ LateOK'
    BY <2>1, <2>2, <1>b DEF NoDuplicate, Finite, LateOK
  <2>4. Cardinality(Held) = 1 /\ Cardinality(Held') = 0
    BY <2>1, <2>2, FS_EmptySet, FS_Singleton
  <2>5. CASE saved' = saved \cup {e} /\ UNCHANGED failed
    <3>1. OnePlace'
      BY <2>1, <2>2, <2>5, <1>b DEF OnePlace
    <3>2. Cardinality(saved') = Cardinality(saved) + 1
      BY <2>1, <2>5, <1>t, Sizes
    <3>3. Balance'
      <4>1. /\ Cardinality(submitted') = Cardinality(submitted)
            /\ Cardinality(AtWriter') = Cardinality(AtWriter)
            /\ Cardinality(Queued') = Cardinality(Queued)
            /\ Cardinality(Held') = Cardinality(Held) - 1
            /\ Cardinality(saved') = Cardinality(saved) + 1
            /\ Cardinality(failed') = Cardinality(failed)
            /\ dropped' = dropped
        BY <2>1, <2>2, <2>4, <2>5, <3>2
      <4> QED
        BY <4>1, <1>n DEF Balance
    <3> QED
      BY <2>3, <3>1, <3>3 DEF Accounts
  <2>6. CASE failed' = failed \cup {e} /\ UNCHANGED saved
    <3>1. OnePlace'
      BY <2>1, <2>2, <2>6, <1>b DEF OnePlace
    <3>2. Cardinality(failed') = Cardinality(failed) + 1
      BY <2>1, <2>6, <1>t, Sizes
    <3>3. Balance'
      <4>1. /\ Cardinality(submitted') = Cardinality(submitted)
            /\ Cardinality(AtWriter') = Cardinality(AtWriter)
            /\ Cardinality(Queued') = Cardinality(Queued)
            /\ Cardinality(Held') = Cardinality(Held) - 1
            /\ Cardinality(saved') = Cardinality(saved)
            /\ Cardinality(failed') = Cardinality(failed) + 1
            /\ dropped' = dropped
        BY <2>1, <2>2, <2>4, <2>6, <3>2
      <4> QED
        BY <4>1, <1>n DEF Balance
    <3> QED
      BY <2>3, <3>1, <3>3 DEF Accounts
  <2> QED
    BY <1>4, <2>5, <2>6 DEF InnerSave, e
<1>5. CASE TaskDone
  <2>1. /\ worker.at = "done"
        /\ worker' = [at |-> IF worker.item = Stop THEN "exited" ELSE "get", item |-> None]
        /\ UNCHANGED <<queue, closed, dropped, writing, closer, saved, failed, submitted, late>>
    BY <1>5 DEF TaskDone, storeVars
  <2>2. Held = {} /\ Held' = {} /\ Queued' = Queued /\ AtWriter' = AtWriter
    BY <2>1 DEF Held, Queued, AtWriter, Range
  <2>3. NoDuplicate' /\ Finite' /\ OnePlace'
    BY <2>1, <2>2, <1>b DEF NoDuplicate, Finite, OnePlace
  <2>4. LateOK'
    BY <2>1, <2>2, <1>b DEF LateOK
  <2>5. Balance'
    BY <2>1, <2>2, <1>n DEF Balance
  <2> QED
    BY <2>3, <2>4, <2>5 DEF Accounts
<1>6. CASE Reader
  BY <1>6, <1>b, NothingMoves
     DEF Reader, FlushStart, FlushEnd, Read, queueVars, storeVars, LateOK
<1>7. ASSUME NEW k \in Closers, PutTimeout(k) \/ JoinReturns(k)
      PROVE  Accounts'
  <2>1. UNCHANGED <<queue, worker, writing, saved, failed, submitted, dropped, late, closed>>
    BY <1>7 DEF PutTimeout, JoinReturns, queueVars, storeVars
  <2>2. \A c \in Closers : closer'[c] \in {"stopping", "joining"} => closer[c] = closer'[c]
    BY <1>7 DEF PutTimeout, JoinReturns, Shapes
  <2> QED
    BY <2>1, <2>2, <1>b, NothingMoves DEF LateOK
<1>8. ASSUME NEW k \in Closers, CloseBegin(k) PROVE Accounts'
  BY <1>8, <1>b, NothingMoves DEF CloseBegin, queueVars, storeVars, LateOK
<1>9. ASSUME NEW k \in Closers, PutStop(k) PROVE Accounts'
  <2>1. /\ closer[k] = "stopping" /\ queue' = Append(queue, Stop)
        /\ closer' = [closer EXCEPT ![k] = "joining"]
        /\ UNCHANGED <<worker, writing, saved, failed, submitted, dropped, late, closed>>
    BY <1>9 DEF PutStop, storeVars
  <2>2. Stop \in Items /\ closed
    BY <2>1, <1>b DEF Items, LateOK
  <2>3. \A i, j \in 1..Len(queue) : queue[i] = queue[j] /\ queue[i] # Stop => i = j
    BY <1>b DEF NoDuplicate
  <2>4. /\ \A i, j \in 1..Len(queue') : queue'[i] = queue'[j] /\ queue'[i] # Stop => i = j
        /\ Range(queue') = Range(queue) \cup {Stop}
        /\ Len(queue') = Len(queue) + 1
        /\ \A i \in 1..Len(queue') : queue'[i] = IF i = Len(queue) + 1 THEN Stop ELSE queue[i]
    <3>1. queue \in Seq(Items)
      BY <1>t
    <3>2. LET r == Append(queue, Stop) IN
          /\ \A i, j \in 1..Len(r) : r[i] = r[j] /\ r[i] # Stop => i = j
          /\ Range(r) = Range(queue) \cup {Stop}
          /\ Len(r) = Len(queue) + 1
          /\ \A i \in 1..Len(r) : r[i] = IF i = Len(queue) + 1 THEN Stop ELSE queue[i]
      BY <2>2, <2>3, <3>1, QueueGrows
    <3>3. queue' = Append(queue, Stop)
      BY <2>1
    <3> QED
      BY <3>2, <3>3
  <2>5. Queued' = Queued /\ Held' = Held /\ AtWriter' = AtWriter
    BY <2>1, <2>4 DEF Queued, Held, AtWriter
  <2>6. NoDuplicate' /\ Finite' /\ OnePlace'
    BY <2>1, <2>4, <2>5, <1>b DEF NoDuplicate, Finite, OnePlace
  <2>7. Balance'
    BY <2>1, <2>5, <1>n DEF Balance
  <2>8. LateOK'
    <3>1. ASSUME NEW i \in 1..Len(queue'), NEW j \in 1..Len(queue'),
                 queue'[i] = Stop, i < j, queue'[j] # Stop
          PROVE  queue'[j] \in late
      <4>1. /\ i \in 1..Len(queue) /\ j \in 1..Len(queue)
            /\ queue[i] = Stop /\ queue[j] = queue'[j]
        BY <3>1, <2>4, <1>t
      <4> QED
        BY <4>1, <3>1, <1>b DEF LateOK
    <3>2. \A c \in Closers : closer'[c] \in {"stopping", "joining"} => closed'
      BY <2>1, <2>2
    <3> QED
      BY <3>1, <3>2, <2>1, <2>2, <2>5, <1>b DEF LateOK
  <2> QED
    BY <2>6, <2>7, <2>8 DEF Accounts
<1>10. CASE UNCHANGED vars
  BY <1>10, <1>b, NothingMoves DEF vars, LateOK
<1> QED
  BY <1>1, <1>2, <1>3, <1>4, <1>5, <1>6, <1>7, <1>8, <1>9, <1>10
     DEF Next, Worker, Writer, Closer

(* No step of a writer, the worker or a closer loses or doubles a record. *)
THEOREM AccountsInvariance == Spec => []Accounts
  BY InitShapes, NextShapes, InitAccounts, NextAccounts, Invariance, PTL DEF Spec

(* Every record is in one place or counted, and what a stopped worker      *)
(* leaves behind was queued by a save() that overlapped close().           *)
THEOREM EveryRecordAccounted == Spec => []RecordsAccounted
<1>1. Accounts => RecordsAccounted
  BY BalanceIs DEF Accounts, RecordsAccounted, OnlyLateRecordsLost, LateOK
<1> QED
  BY <1>1, AccountsInvariance, PTL

(* The counter of lost records never passes the number of records there    *)
(* are, and unfinished is what the queue and the worker hold.              *)
THEOREM TypeCorrect == Spec => []TypeOK
<1>1. IInv /\ Shapes /\ Accounts => TypeOK
  <2> SUFFICES ASSUME IInv, Shapes, Accounts PROVE TypeOK
    OBVIOUS
  <2>1. /\ submitted \subseteq Records /\ Queued \subseteq Records /\ Held \subseteq Records
        /\ saved \subseteq Records /\ failed \subseteq Records
    BY DEF Accounts, OnePlace, Finite
  <2>2. /\ Cardinality(submitted) \in Nat /\ Cardinality(AtWriter) \in Nat
        /\ Cardinality(Queued) \in Nat /\ Cardinality(Held) \in Nat
        /\ Cardinality(saved) \in Nat /\ Cardinality(failed) \in Nat
    BY <2>1, Sizes, FS_CardinalityType DEF Accounts, Finite
  <2>3. Cardinality(submitted) <= Cardinality(Records) /\ Cardinality(Records) \in Nat
    BY <2>1, QueueAssumption, FS_Subset, FS_CardinalityType
  <2>4. dropped \in 0..Cardinality(Records)
    <3>1. Balance /\ dropped \in Nat
      BY DEF Accounts, Finite
    <3>2. dropped <= Cardinality(submitted)
      BY <3>1, <2>2 DEF Balance
    <3> QED
      BY <3>1, <3>2, <2>2, <2>3
  <2> QED
    BY <2>1, <2>4 DEF TypeOK, IInv, Shapes, WorkerOK, QueueOK, Items
<1> QED
  BY <1>1, InitShapes, NextShapes, Invariance, AccountsInvariance, PTL DEF Spec
=============================================================================
