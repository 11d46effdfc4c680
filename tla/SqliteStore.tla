----------------------------- MODULE SqliteStore -----------------------------
(***************************************************************************)
(* SqliteCaptureStore of agent_ctl/store/sqlite_store.py in several        *)
(* processes that share one database file: opening it, which creates or    *)
(* upgrades the schema, saving and reading.  A process keeps one           *)
(* connection, whose lock lets one of its threads use it at a time.        *)
(*                                                                         *)
(* SQLite in WAL mode, under Python's sqlite3, is modelled from how the    *)
(* code uses it.  DDL outside a transaction commits by itself.  The first  *)
(* INSERT or UPDATE begins a transaction and takes the write lock, which   *)
(* one connection has at a time; COMMIT publishes what it wrote.  Waiting  *)
(* for the lock may time out (busy_timeout): the statement raises, but the *)
(* transaction it began stays open, and the next read in it fixes what the *)
(* connection sees.  A connection that already reads in a transaction does *)
(* not wait: it gets the lock at once, and only if nobody has committed    *)
(* since, or raises.                                                       *)
(*                                                                         *)
(* What a start writes between taking the lock and COMMIT nobody else can  *)
(* see, so it is written in one step.                                      *)
(***************************************************************************)
EXTENDS Integers

CONSTANTS Processes,
          Legacy,        \* records saved before the model columns existed
          Unreadable,    \* those among them whose doc is not JSON
          New,           \* records the processes may save
          MaxStops       \* bound: stops and crashes

ASSUME StoreAssumption ==
  /\ Unreadable \subseteq Legacy
  /\ Legacy \cap New = {}
  /\ MaxStops \in Nat

VARIABLES disk,      \* the committed database
          stage,     \* per process: where it is
          known,     \* per process: what its start has read (see below)
          conn,      \* per process: its connection
          saved,     \* history: records whose save() has returned
          raised,    \* history: what made the last step raise, if it did
          stops      \* stops and crashes so far

storeVars == <<disk, stage, known, conn, saved, raised, stops>>

SchemaTables == {"call_record", "schema_migrations"}
Columns == {"model_requested", "model_resolved"}
VersionMark == 1      \* SCHEMA_VERSION
BackfillMark == 2     \* _BACKFILL_MARKER_VERSION

(* filled: the rows with the model columns set. *)
Database == [tables  : SUBSET SchemaTables,
             columns : SUBSET Columns,
             marks   : SUBSET {VersionMark, BackfillMark},
             rows    : SUBSET (Legacy \cup New),
             filled  : SUBSET (Legacy \cup New)]

NoDatabase ==
  [tables |-> {}, columns |-> {}, marks |-> {}, rows |-> {}, filled |-> {}]

(* view: what a transaction sees, and has written; stale: somebody else    *)
(* has committed since.                                                    *)
Detached == [tx |-> "none", view |-> NoDatabase, stale |-> FALSE]

Transactions == {"none", "begun", "reading", "writing"}

Stages == {"down", "records", "migrations", "inspect", "alter", "scan", "write",
           "commit", "ready", "saving"}

(* missing: the columns not there when the start looked; todo: the rows its *)
(* backfill selected, backfill: whether it found no mark; record: the one  *)
(* that save() is inserting.                                               *)
Nothing == [missing |-> {}, backfill |-> FALSE, todo |-> {}, record |-> {}]

StoreTypeOK ==
  /\ disk \in Database
  /\ disk.filled \subseteq disk.rows
  /\ stage \in [Processes -> Stages]
  /\ \A p \in Processes :
       /\ known[p].missing \subseteq Columns
       /\ known[p].todo \subseteq Legacy \cup New
       /\ known[p].record \subseteq New
       /\ conn[p].tx \in Transactions
       /\ conn[p].view \in Database
       /\ conn[p].tx = "writing" <=> stage[p] \in {"commit", "saving"}
       /\ conn[p].tx \in {"begun", "reading"} => stage[p] = "ready"
  /\ \A p, q \in Processes :
       conn[p].tx = "writing" /\ conn[q].tx = "writing" => p = q
  /\ saved \subseteq New
  /\ stops \in 0..MaxStops

(* What a start may find: no database, one that has been used, or one of   *)
(* an older version, whose upgrade may have been cut short.                *)
Found ==
  {NoDatabase} \cup
  {[NoDatabase EXCEPT !.tables = {"call_record"}, !.rows = Legacy,
                      !.columns = c] : c \in {{}, {"model_requested"}, Columns}} \cup
  {[tables |-> SchemaTables, columns |-> Columns, rows |-> Legacy,
    filled |-> f, marks |-> {VersionMark}] : f \in {{}, Legacy}}

StoreInit ==
  /\ disk \in Found
  /\ stage = [p \in Processes |-> "down"]
  /\ known = [p \in Processes |-> Nothing]
  /\ conn = [p \in Processes |-> Detached]
  /\ saved = {}
  /\ raised = "nobody"
  /\ stops = 0
----------------------------------------------------------------------------
(* The write lock, as p finds it. *)
Free(p) == \A q \in Processes \ {p} : conn[q].tx # "writing"

(* db is committed, by p: what other transactions read is now old. *)
Commit(p, db) ==
  /\ disk' = db
  /\ conn' = [q \in Processes |->
       IF q = p THEN Detached ELSE [conn[q] EXCEPT !.stale = conn[q].tx = "reading"]]

Goto(p, next) == stage' = [stage EXCEPT ![p] = next]

Open(p) ==
  /\ stage[p] = "down"
  /\ Goto(p, "records")
  /\ known' = [known EXCEPT ![p] = Nothing]
  /\ raised' = "nobody"
  /\ UNCHANGED <<disk, conn, saved, stops>>

(* CREATE TABLE IF NOT EXISTS writes only if there is none.  A new table   *)
(* of records has the model columns.                                       *)
CreateTable(p, at, table, next) ==
  /\ stage[p] = at
  /\ IF table \in disk.tables THEN UNCHANGED <<disk, conn>>
     ELSE /\ Free(p)
          /\ Commit(p, [disk EXCEPT !.tables = @ \cup {table},
                                    !.columns = IF table = "call_record"
                                                THEN Columns ELSE @])
  /\ Goto(p, next)
  /\ raised' = "nobody"
  /\ UNCHANGED <<known, saved, stops>>

(* PRAGMA table_info: later ALTERs go by what it says now. *)
Inspect(p) ==
  /\ stage[p] = "inspect"
  /\ known' = [known EXCEPT ![p].missing = Columns \ disk.columns]
  /\ Goto(p, "alter")
  /\ raised' = "nobody"
  /\ UNCHANGED <<disk, conn, saved, stops>>

(* _add_column: a duplicate column is as good as an added one. *)
AddColumn(p, name) ==
  /\ stage[p] = "alter" /\ name \in known[p].missing
  /\ name = "model_resolved" => "model_requested" \notin known[p].missing
  /\ IF name \in disk.columns THEN UNCHANGED <<disk, conn>>
     ELSE Free(p) /\ Commit(p, [disk EXCEPT !.columns = @ \cup {name}])
  /\ known' = [known EXCEPT ![p].missing = @ \ {name}]
  /\ raised' = "nobody"
  /\ UNCHANGED <<stage, saved, stops>>

(* Faulty: the mark is set, and committed, before the backfill. *)
SelectMarkEarly(p) ==
  /\ stage[p] = "alter" /\ known[p].missing = {}
  /\ Free(p)
  /\ known' = [known EXCEPT ![p].backfill = BackfillMark \notin disk.marks]
  /\ Commit(p, [disk EXCEPT !.marks = @ \cup {BackfillMark}])
  /\ Goto(p, IF known'[p].backfill THEN "scan" ELSE "write")
  /\ raised' = "nobody"
  /\ UNCHANGED <<saved, stops>>

(* Is there a mark of a complete backfill? *)
SelectMark(p) ==
  /\ stage[p] = "alter" /\ known[p].missing = {}
  /\ known' = [known EXCEPT ![p].backfill = BackfillMark \notin disk.marks]
  /\ Goto(p, IF known'[p].backfill THEN "scan" ELSE "write")
  /\ raised' = "nobody"
  /\ UNCHANGED <<disk, conn, saved, stops>>

(* The rows to backfill, read before the write lock is taken. *)
SelectUnfilled(p) ==
  /\ stage[p] = "scan"
  /\ known' = [known EXCEPT ![p].todo = disk.rows \ disk.filled]
  /\ Goto(p, "write")
  /\ raised' = "nobody"
  /\ UNCHANGED <<disk, conn, saved, stops>>

(* UPDATE the rows selected whose doc can be read; INSERT OR IGNORE the    *)
(* marks.                                                                  *)
Migrated(p) ==
  [disk EXCEPT
     !.filled = @ \cup (known[p].todo \ Unreadable),
     !.marks = @ \cup {VersionMark} \cup
                 (IF known[p].backfill THEN {BackfillMark} ELSE {})]

(* Faulty: a doc that cannot be read makes the start fail. *)
MigrateRowsStrict(p) ==
  /\ stage[p] = "write"
  /\ Free(p)
  /\ IF known[p].todo \cap Unreadable # {} THEN Goto(p, "down") /\ UNCHANGED conn
     ELSE /\ conn' = [conn EXCEPT ![p] = [Detached EXCEPT !.tx = "writing",
                                                         !.view = Migrated(p)]]
          /\ Goto(p, "commit")
  /\ raised' = "nobody"
  /\ UNCHANGED <<disk, known, saved, stops>>

(* The first of these statements begins the transaction. *)
MigrateRows(p) ==
  /\ stage[p] = "write"
  /\ Free(p)
  /\ conn' = [conn EXCEPT ![p] = [Detached EXCEPT !.tx = "writing",
                                                  !.view = Migrated(p)]]
  /\ Goto(p, "commit")
  /\ raised' = "nobody"
  /\ UNCHANGED <<disk, known, saved, stops>>

(* After the indexes, which exist or are created in the transaction. *)
CommitSchema(p) ==
  /\ stage[p] = "commit"
  /\ Commit(p, conn[p].view)
  /\ Goto(p, "ready")
  /\ known' = [known EXCEPT ![p] = Nothing]
  /\ raised' = "nobody"
  /\ UNCHANGED <<saved, stops>>

(* It waits for the write lock in vain: __init__ raises, and the           *)
(* connection is gone.  Only those who have completed the schema hold a    *)
(* lock for longer than a statement, so an earlier statement meets one     *)
(* only if it goes by an old look at the schema: the table, or the column, *)
(* is there by now.                                                        *)
StartLocked(p) ==
  /\ \/ stage[p] \in {"records", "migrations", "write"}
     \/ stage[p] = "alter" /\ known[p].missing # {}
  /\ ~Free(p)
  /\ Goto(p, "down")
  /\ raised' = "holder"
  /\ UNCHANGED <<disk, known, conn, saved, stops>>
----------------------------------------------------------------------------
(* save(): the INSERT gets the write lock ... *)
SaveInsert(p, r) ==
  /\ stage[p] = "ready" /\ r \notin saved
  /\ \A q \in Processes : r \notin known[q].record
  /\ Free(p) /\ ~conn[p].stale
  /\ conn' = [conn EXCEPT ![p] =
       [Detached EXCEPT !.tx = "writing",
                        !.view = [disk EXCEPT !.rows = @ \cup {r},
                                              !.filled = @ \cup {r}]]]
  /\ known' = [known EXCEPT ![p].record = {r}]
  /\ Goto(p, "saving")
  /\ raised' = "nobody"
  /\ UNCHANGED <<disk, saved, stops>>

(* ... or raises, and leaves its transaction open ... *)
SaveLocked(p) ==
  /\ stage[p] = "ready"
  /\ ~Free(p) \/ conn[p].stale
  /\ conn' = [conn EXCEPT ![p].tx = IF @ = "none" THEN "begun" ELSE @]
  /\ raised' = IF Free(p) THEN "itself" ELSE "holder"
  /\ UNCHANGED <<disk, stage, known, saved, stops>>

(* ... and COMMIT publishes the record. *)
SaveCommit(p) ==
  /\ stage[p] = "saving"
  /\ Commit(p, conn[p].view)
  /\ saved' = saved \cup known[p].record
  /\ known' = [known EXCEPT ![p] = Nothing]
  /\ Goto(p, "ready")
  /\ raised' = "nobody"
  /\ UNCHANGED stops

(* list_recent(), cost_summary(): in an open transaction the first one     *)
(* fixes what this connection sees.                                        *)
ReadRows(p) ==
  /\ stage[p] = "ready"
  /\ conn' = IF conn[p].tx # "begun" THEN conn
             ELSE [conn EXCEPT ![p] = [tx |-> "reading", view |-> disk, stale |-> FALSE]]
  /\ raised' = "nobody"
  /\ UNCHANGED <<disk, stage, known, saved, stops>>

(* close(), an exit or a crash: what is not committed is gone. *)
Stop(p) ==
  /\ stage[p] # "down" /\ stops < MaxStops
  /\ stops' = stops + 1
  /\ Goto(p, "down")
  /\ conn' = [conn EXCEPT ![p] = Detached]
  /\ known' = [known EXCEPT ![p] = Nothing]
  /\ raised' = "nobody"
  /\ UNCHANGED <<disk, saved>>

Start(p) ==
  \/ CreateTable(p, "records", "call_record", "migrations")
  \/ CreateTable(p, "migrations", "schema_migrations", "inspect")
  \/ Inspect(p) \/ SelectMark(p) \/ SelectUnfilled(p)
  \/ \E name \in Columns : AddColumn(p, name)
  \/ MigrateRows(p) \/ CommitSchema(p) \/ StartLocked(p)

UseStore(p) ==
  \/ \E r \in New : SaveInsert(p, r)
  \/ SaveLocked(p) \/ SaveCommit(p) \/ ReadRows(p)

StoreNext == \E p \in Processes : Open(p) \/ Start(p) \/ UseStore(p) \/ Stop(p)

StoreSpec == StoreInit /\ [][StoreNext]_storeVars

(* A process that is starting or saving goes on, and one is opened again   *)
(* if its start failed.                                                    *)
StoreFairSpec ==
  StoreSpec /\ \A p \in Processes : WF_storeVars(Open(p) \/ Start(p) \/ SaveCommit(p))
----------------------------------------------------------------------------
Complete == /\ disk.tables = SchemaTables
            /\ disk.columns = Columns
            /\ disk.marks = {VersionMark, BackfillMark}

(* A store that opens has the whole schema, however its start interleaved  *)
(* with those of others and wherever earlier ones were cut short.          *)
ReadyIsComplete == \A p \in Processes : stage[p] \in {"ready", "saving"} => Complete

(* The mark tells the truth: once it is there, so later starts skip the    *)
(* backfill, every row that can be read has its model columns.             *)
MarkedIsBackfilled ==
  BackfillMark \in disk.marks => disk.rows \ Unreadable \subseteq disk.filled

(* A record whose save() returned stays, whoever stops or upgrades when. *)
SavedKept == saved \subseteq disk.rows

(* Neither schema nor records suffer from processes that start, save and   *)
(* crash at the same time.                                                 *)
DatabaseSound == ReadyIsComplete /\ MarkedIsBackfilled /\ SavedKept

(* Processes that upgrade at once may make each other's starts fail, but   *)
(* not for ever: the schema is completed.                                  *)
UpgradeEnds == (\E p \in Processes : stage[p] # "down") ~> Complete

(* A write waits for the lock of another process (the comment on the       *)
(* busy_timeout PRAGMA): it fails only if another process holds the lock.  *)
LockedByAnother == raised # "itself"
============================================================================
