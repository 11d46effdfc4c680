---------------------------- MODULE TableProofs ------------------------------
(***************************************************************************)
(* What the server keeps in memory, for every size of it.  The response    *)
(* cache answers as a cache may that forgets, and forgets only what was    *)
(* not used lately.  The rate limiter's deques follow the clients they are *)
(* for, whose limit is kept.  There is one registry of metrics, which      *)
(* counts every call and is what every scrape shows.                       *)
(*                                                                         *)
(* And what the SQLite store keeps on disk: schema and records survive     *)
(* processes that start, save and crash at the same time, for any number   *)
(* of processes, records and crashes.                                      *)
(***************************************************************************)
EXTENDS MCTables, SequenceLemmas
----------------------------------------------------------------------------
(* The SQLite store. *)
Records == Legacy \cup New

Starting == [missing : SUBSET Columns, backfill : BOOLEAN,
             todo : SUBSET Records, record : SUBSET New]

Connection == [tx : Transactions, view : Database, stale : BOOLEAN]

Types ==
  /\ disk \in Database
  /\ stage \in [Processes -> Stages]
  /\ known \in [Processes -> Starting]
  /\ conn \in [Processes -> Connection]
  /\ saved \subseteq New

(* One writer at a time, and only to commit or to save. *)
Locking ==
  /\ \A p \in Processes : conn[p].tx = "writing" <=> stage[p] \in {"commit", "saving"}
  /\ \A p, q \in Processes :
       conn[p].tx = "writing" /\ conn[q].tx = "writing" => p = q

(* What a database may become: nothing of it goes, and new rows have their *)
(* model columns.                                                          *)
Grows(a, b) ==
  /\ a.tables \subseteq b.tables
  /\ a.columns \subseteq b.columns
  /\ a.marks \subseteq b.marks
  /\ a.rows \subseteq b.rows
  /\ a.filled \subseteq b.filled
  /\ b.rows \ a.rows \subseteq b.filled

Whole(db) ==
  /\ db.tables = SchemaTables
  /\ db.columns = Columns
  /\ db.marks = {VersionMark, BackfillMark}

Backfilled(db) == BackfillMark \in db.marks => db.rows \ Unreadable \subseteq db.filled

(* How far a start at stage s, which knows k, has brought the schema db.   *)
Reached(s, k, db) ==
  /\ s \notin {"down", "records"} => "call_record" \in db.tables
  /\ s \notin {"down", "records", "migrations"} => "schema_migrations" \in db.tables
  /\ s = "alter" => Columns \ k.missing \subseteq db.columns
  /\ s \notin {"down", "records", "migrations", "inspect", "alter"} =>
       Columns \subseteq db.columns
  /\ s = "scan" => k.backfill
  /\ s = "write" =>
       IF k.backfill THEN db.rows \ Unreadable \subseteq db.filled \cup k.todo
       ELSE BackfillMark \in db.marks
  /\ s \in {"ready", "saving"} => Whole(db)

(* What is written but not committed is whole, and keeps what is there.    *)
Writing(s, k, db, view) ==
  s \in {"commit", "saving"} =>
    /\ Grows(db, view) /\ Whole(view) /\ Backfilled(view)
    /\ s = "saving" => k.record \subseteq view.rows

ProcessOK(p) ==
  /\ Reached(stage[p], known[p], disk)
  /\ Writing(stage[p], known[p], disk, conn[p].view)

IInv ==
  /\ Types /\ Locking
  /\ Backfilled(disk)
  /\ SavedKept
  /\ \A p \in Processes : ProcessOK(p)
----------------------------------------------------------------------------
(* What a process has reached of the schema stays reached as the schema grows. *)
LEMMA GrownReach ==
  ASSUME NEW a \in Database, NEW b \in Database, Grows(a, b),
         NEW s, NEW k \in Starting, Reached(s, k, a)
  PROVE  Reached(s, k, b)
<1>1. Whole(a) => Whole(b)
  <2>1. /\ b.tables \subseteq SchemaTables /\ b.columns \subseteq Columns
        /\ b.marks \subseteq {VersionMark, BackfillMark}
    BY DEF Database
  <2> QED
    BY <2>1 DEF Whole, Grows
<1>2. a.rows \ Unreadable \subseteq a.filled \cup k.todo =>
        b.rows \ Unreadable \subseteq b.filled \cup k.todo
  BY DEF Grows
<1> QED
  BY <1>1, <1>2 DEF Reached, Grows

(* A process that holds nothing may be starting. *)
LEMMA NothingIs == Nothing \in Starting /\ Nothing.record = {}
  BY DEF Nothing, Starting

(* A process with no connection is in no transaction. *)
LEMMA DetachedIs ==
  Detached \in Connection /\ Detached.tx = "none" /\ NoDatabase \in Database
<1>1. NoDatabase \in Database
  BY DEF NoDatabase, Database
<1> QED
  BY <1>1 DEF Detached, Connection, Transactions

(* Before any process starts the invariant holds. *)
LEMMA InitIInv == StoreInit => IInv
<1> SUFFICES ASSUME StoreInit PROVE IInv
  OBVIOUS
<1>1. disk \in Database /\ Backfilled(disk)
  <2>1. SchemaTables \in SUBSET SchemaTables /\ {"call_record"} \in SUBSET SchemaTables
    BY DEF SchemaTables
  <2>2. {{}, {"model_requested"}, Columns} \subseteq SUBSET Columns
    BY DEF Columns
  <2>3. BackfillMark # VersionMark
    BY DEF BackfillMark, VersionMark
  <2>4. CASE disk = NoDatabase
    BY <2>4, DetachedIs DEF Backfilled, NoDatabase
  <2>5. ASSUME NEW c \in {{}, {"model_requested"}, Columns},
               disk = [NoDatabase EXCEPT !.tables = {"call_record"}, !.rows = Legacy,
                                         !.columns = c]
        PROVE  disk \in Database /\ Backfilled(disk)
    <3>1. disk = [tables |-> {"call_record"}, columns |-> c, marks |-> {},
                  rows |-> Legacy, filled |-> {}]
      BY <2>5 DEF NoDatabase
    <3> QED
      BY <3>1, <2>1, <2>2 DEF Database, Backfilled
  <2>6. ASSUME NEW f \in {{}, Legacy},
               disk = [tables |-> SchemaTables, columns |-> Columns, rows |-> Legacy,
                       filled |-> f, marks |-> {VersionMark}]
        PROVE  disk \in Database /\ Backfilled(disk)
    BY <2>1, <2>3, <2>6 DEF Database, Backfilled
  <2> QED
    BY <2>4, <2>5, <2>6 DEF StoreInit, Found
<1>2. Types
  BY <1>1, NothingIs, DetachedIs DEF StoreInit, Types, Stages
<1>3. Locking
  BY DetachedIs DEF StoreInit, Locking
<1>4. SavedKept
  BY DEF StoreInit, SavedKept
<1>5. \A p \in Processes : ProcessOK(p)
  BY DEF StoreInit, ProcessOK, Reached, Writing
<1> QED
  BY <1>1, <1>2, <1>3, <1>4, <1>5 DEF IInv

(* A step of p that commits nothing. *)
LEMMA Private ==
  ASSUME IInv, NEW p \in Processes, NEW s \in Stages, NEW k \in Starting,
         NEW n \in Connection,
         UNCHANGED <<disk, saved>>,
         stage' = [stage EXCEPT ![p] = s],
         known' = [known EXCEPT ![p] = k],
         conn' = [conn EXCEPT ![p] = n],
         n.tx = "writing" <=> s \in {"commit", "saving"},
         n.tx = "writing" => Free(p),
         Reached(s, k, disk), Writing(s, k, disk, n.view)
  PROVE  IInv'
<1>1. Types'
  BY DEF IInv, Types
<1>2. \A q \in Processes :
        /\ stage'[q] = IF q = p THEN s ELSE stage[q]
        /\ known'[q] = IF q = p THEN k ELSE known[q]
        /\ conn'[q] = IF q = p THEN n ELSE conn[q]
  BY DEF IInv, Types
<1>3. Locking'
  BY <1>2 DEF IInv, Locking, Free
<1>4. \A q \in Processes : ProcessOK(q)'
  BY <1>2 DEF IInv, ProcessOK
<1> QED
  BY <1>1, <1>3, <1>4 DEF IInv, Backfilled, SavedKept

(* A commit by p, while nobody else writes. *)
LEMMA Public ==
  ASSUME IInv, NEW p \in Processes, NEW s \in Stages, NEW k \in Starting,
         NEW db \in Database,
         Free(p), Commit(p, db), Grows(disk, db), Backfilled(db),
         stage' = [stage EXCEPT ![p] = s],
         known' = [known EXCEPT ![p] = k],
         s \notin {"commit", "saving"},
         saved' \subseteq New, saved' \subseteq db.rows,
         Reached(s, k, db)
  PROVE  IInv'
<1>1. disk' = db
  BY DEF Commit
<1>2. \A q \in Processes :
        /\ stage'[q] = IF q = p THEN s ELSE stage[q]
        /\ known'[q] = IF q = p THEN k ELSE known[q]
  BY DEF IInv, Types
<1>3. \A q \in Processes :
        conn'[q] = IF q = p THEN Detached
                   ELSE [conn[q] EXCEPT !.stale = conn[q].tx = "reading"]
  BY DEF Commit
<1>4. \A q \in Processes \ {p} :
        conn'[q] \in Connection /\ conn'[q].tx = conn[q].tx /\ conn[q].tx # "writing"
  <2> SUFFICES ASSUME NEW q \in Processes \ {p}
               PROVE  /\ conn'[q] \in Connection /\ conn'[q].tx = conn[q].tx
                      /\ conn[q].tx # "writing"
    OBVIOUS
  <2> DEFINE read == conn[q].tx = "reading"
  <2>1. conn[q] \in Connection /\ conn[q].tx # "writing" /\ read \in BOOLEAN
    BY DEF IInv, Types, Free
  <2>2. conn'[q] = [conn[q] EXCEPT !.stale = read]
    BY <1>3
  <2> HIDE DEF read
  <2> QED
    BY <2>1, <2>2 DEF Connection
<1>5. conn'[p] = Detached
  BY <1>3
<1>6. Types'
  <2>1. \A q \in Processes : conn'[q] \in Connection
    BY <1>4, <1>5, DetachedIs
  <2>2. conn' \in [Processes -> Connection]
    BY <2>1 DEF Commit
  <2> QED
    BY <2>2, <1>1 DEF IInv, Types
<1>7. Locking'
  BY <1>2, <1>4, <1>5, DetachedIs DEF IInv, Locking
<1>8. ASSUME NEW q \in Processes PROVE ProcessOK(q)'
  <2>1. CASE q = p
    BY <2>1, <1>1, <1>2 DEF ProcessOK, Writing
  <2>2. CASE q # p
    <3>1. Reached(stage[q], known[q], db)
      BY GrownReach DEF IInv, Types, ProcessOK
    <3>2. stage[q] \notin {"commit", "saving"}
      BY <2>2, <1>4 DEF IInv, Locking
    <3> QED
      BY <2>2, <3>1, <3>2, <1>1, <1>2 DEF ProcessOK, Writing
  <2> QED
    BY <2>1, <2>2
<1> QED
  BY <1>1, <1>6, <1>7, <1>8 DEF IInv, Backfilled, SavedKept

(* Every statement, commit, save, read and crash keeps it. *)
LEMMA NextIInv == IInv /\ [StoreNext]_storeVars => IInv'
<1> SUFFICES ASSUME IInv, [StoreNext]_storeVars PROVE IInv'
  OBVIOUS
<1>t. Types /\ Locking /\ Backfilled(disk) /\ SavedKept
  BY DEF IInv
<1>1. ASSUME NEW p \in Processes, Open(p) PROVE IInv'
  <2>1. /\ stage[p] = "down" /\ stage' = [stage EXCEPT ![p] = "records"]
        /\ known' = [known EXCEPT ![p] = Nothing] /\ UNCHANGED <<disk, conn, saved>>
    BY <1>1 DEF Open, Goto
  <2>2. conn' = [conn EXCEPT ![p] = conn[p]] /\ conn[p] \in Connection
    BY <2>1, <1>t DEF Types
  <2>3. conn[p].tx # "writing"
    BY <2>1, <1>t DEF Locking
  <2>4. Reached("records", Nothing, disk) /\ Writing("records", Nothing, disk, conn[p].view)
    BY DEF Reached, Writing
  <2>5. "records" \in Stages
    BY DEF Stages
  <2> QED
    BY <2>1, <2>2, <2>3, <2>4, <2>5, NothingIs, Private
<1>2. ASSUME NEW p \in Processes,
             NEW table \in SchemaTables, NEW at, NEW next,
             \/ at = "records" /\ table = "call_record" /\ next = "migrations"
             \/ at = "migrations" /\ table = "schema_migrations" /\ next = "inspect",
             CreateTable(p, at, table, next)
      PROVE  IInv'
  <2>1. /\ stage[p] = at /\ stage' = [stage EXCEPT ![p] = next]
        /\ UNCHANGED <<known, saved>> /\ known[p] \in Starting
        /\ known' = [known EXCEPT ![p] = known[p]]
    BY <1>2, <1>t DEF CreateTable, Goto, Types
  <2>2. next \in Stages /\ next \notin {"commit", "saving"}
    BY <1>2 DEF Stages
  <2>3. Reached(at, known[p], disk)
    BY <2>1 DEF IInv, ProcessOK
  <2>4. CASE table \in disk.tables
    <3>1. UNCHANGED <<disk, conn>> /\ conn' = [conn EXCEPT ![p] = conn[p]]
          /\ conn[p] \in Connection
      BY <1>2, <2>4, <1>t DEF CreateTable, Types
    <3>2. conn[p].tx # "writing"
      BY <1>2, <2>1, <1>t DEF Locking
    <3>3. Reached(next, known[p], disk) /\ Writing(next, known[p], disk, conn[p].view)
      BY <1>2, <2>2, <2>3, <2>4 DEF Reached, Writing
    <3> QED
      BY <2>1, <2>2, <3>1, <3>2, <3>3, Private
  <2>5. CASE table \notin disk.tables
    <3> DEFINE db == [disk EXCEPT !.tables = @ \cup {table},
                                  !.columns = IF table = "call_record"
                                              THEN Columns ELSE @]
    <3>1. Free(p) /\ Commit(p, db)
      BY <1>2, <2>5 DEF CreateTable
    <3>2. /\ db.tables = disk.tables \cup {table}
          /\ db.columns = IF table = "call_record" THEN Columns ELSE disk.columns
          /\ db.marks = disk.marks /\ db.rows = disk.rows /\ db.filled = disk.filled
      BY <1>t DEF Types, Database
    <3>3. db \in Database
      BY <1>t DEF Types, Database
    <3> HIDE DEF db
    <3>4. Grows(disk, db) /\ Backfilled(db)
      BY <3>2, <1>t DEF Grows, Backfilled, Types, Database
    <3>5. Reached(next, known[p], db)
      BY <1>2, <2>2, <2>3, <3>2 DEF Reached
    <3>6. saved' \subseteq New /\ saved' \subseteq db.rows
      BY <2>1, <3>2, <1>t DEF Types, SavedKept
    <3> QED
      BY <2>1, <2>2, <3>1, <3>3, <3>4, <3>5, <3>6, Public
  <2> QED
    BY <2>4, <2>5
<1>3. ASSUME NEW p \in Processes, NEW k \in Starting, NEW s \in Stages,
             s \notin {"commit", "saving"}, stage[p] \notin {"commit", "saving"},
             Reached(s, k, disk),
             stage' = [stage EXCEPT ![p] = s],
             known' = [known EXCEPT ![p] = k],
             UNCHANGED <<disk, conn, saved>>
      PROVE  IInv'
  <2>1. conn' = [conn EXCEPT ![p] = conn[p]] /\ conn[p] \in Connection
    BY <1>3, <1>t DEF Types
  <2>2. conn[p].tx # "writing" /\ Writing(s, k, disk, conn[p].view)
    BY <1>3, <1>t DEF Locking, Writing
  <2> QED
    BY <1>3, <2>1, <2>2, Private
<1>4. ASSUME NEW p \in Processes, Inspect(p) PROVE IInv'
  <2> DEFINE k == [known[p] EXCEPT !.missing = Columns \ disk.columns]
  <2>1. known[p] \in Starting /\ Reached("inspect", known[p], disk)
    BY <1>4, <1>t DEF Inspect, Types, IInv, ProcessOK
  <2>2. k \in Starting /\ k.missing = Columns \ disk.columns
    BY <2>1 DEF Starting
  <2>3. /\ stage[p] = "inspect" /\ stage' = [stage EXCEPT ![p] = "alter"]
        /\ known' = [known EXCEPT ![p] = k] /\ UNCHANGED <<disk, conn, saved>>
    BY <1>4 DEF Inspect, Goto
  <2> HIDE DEF k
  <2>4. Reached("alter", k, disk)
    BY <2>1, <2>2 DEF Reached
  <2>5. "alter" \in Stages
    BY DEF Stages
  <2> QED
    BY <2>2, <2>3, <2>4, <2>5, <1>3
<1>5. ASSUME NEW p \in Processes, NEW name \in Columns, AddColumn(p, name) PROVE IInv'
  <2> DEFINE k == [known[p] EXCEPT !.missing = @ \ {name}]
  <2>1. known[p] \in Starting /\ stage[p] = "alter" /\ Reached("alter", known[p], disk)
    BY <1>5, <1>t DEF AddColumn, Types, IInv, ProcessOK
  <2>2. k \in Starting /\ k.missing = known[p].missing \ {name}
    BY <2>1 DEF Starting
  <2>3. /\ stage' = [stage EXCEPT ![p] = "alter"]
        /\ known' = [known EXCEPT ![p] = k] /\ UNCHANGED saved
    BY <1>5, <2>1, <1>t DEF AddColumn, Types
  <2> HIDE DEF k
  <2>4. "alter" \in Stages
    BY DEF Stages
  <2>5. CASE name \in disk.columns
    <3>1. Reached("alter", k, disk)
      BY <2>1, <2>2, <2>5 DEF Reached
    <3>2. UNCHANGED <<disk, conn>>
      BY <1>5, <2>5 DEF AddColumn
    <3> QED
      BY <2>1, <2>2, <2>3, <2>4, <3>1, <3>2, <1>3
  <2>6. CASE name \notin disk.columns
    <3> DEFINE db == [disk EXCEPT !.columns = @ \cup {name}]
    <3>1. Free(p) /\ Commit(p, db)
      BY <1>5, <2>6 DEF AddColumn
    <3>2. /\ db \in Database /\ db.tables = disk.tables
          /\ db.columns = disk.columns \cup {name}
          /\ db.marks = disk.marks /\ db.rows = disk.rows /\ db.filled = disk.filled
      BY <1>t DEF Types, Database
    <3> HIDE DEF db
    <3>3. Grows(disk, db) /\ Backfilled(db)
      BY <3>2, <1>t DEF Grows, Backfilled
    <3>4. Reached("alter", k, db)
      BY <2>1, <2>2, <3>2 DEF Reached
    <3>5. saved' \subseteq New /\ saved' \subseteq db.rows
      BY <2>3, <3>2, <1>t DEF Types, SavedKept
    <3> QED
      BY <2>2, <2>3, <2>4, <3>1, <3>2, <3>3, <3>4, <3>5, Public
  <2> QED
    BY <2>5, <2>6
<1>6. ASSUME NEW p \in Processes, SelectMark(p) PROVE IInv'
  <2> PICK b \in BOOLEAN : b <=> BackfillMark \notin disk.marks
    OBVIOUS
  <2> DEFINE k == [known[p] EXCEPT !.backfill = b]
             s == IF b THEN "scan" ELSE "write"
  <2>1. known[p] \in Starting /\ stage[p] = "alter" /\ known[p].missing = {}
        /\ Reached("alter", known[p], disk)
    BY <1>6, <1>t DEF SelectMark, Types, IInv, ProcessOK
  <2>2. k \in Starting /\ k.backfill = b
    BY <2>1 DEF Starting
  <2>3. known' = [known EXCEPT ![p] = k] /\ UNCHANGED <<disk, conn, saved>>
    <3>1. (BackfillMark \notin disk.marks) = b
      OBVIOUS
    <3> QED
      BY <1>6, <3>1 DEF SelectMark
  <2> HIDE DEF k
  <2>4. known'[p].backfill = b
    BY <2>2, <2>3, <1>t DEF Types
  <2>5. stage' = [stage EXCEPT ![p] = s]
    BY <1>6, <2>4 DEF SelectMark, Goto
  <2>6. s \in Stages /\ s \in {"scan", "write"}
    BY DEF Stages
  <2>7. Reached(s, k, disk)
    BY <2>1, <2>2 DEF Reached
  <2> HIDE DEF s
  <2> QED
    BY <2>1, <2>2, <2>3, <2>5, <2>6, <2>7, <1>3
<1>7. ASSUME NEW p \in Processes, SelectUnfilled(p) PROVE IInv'
  <2> DEFINE k == [known[p] EXCEPT !.todo = disk.rows \ disk.filled]
  <2>1. known[p] \in Starting /\ stage[p] = "scan" /\ Reached("scan", known[p], disk)
    BY <1>7, <1>t DEF SelectUnfilled, Types, IInv, ProcessOK
  <2>2. /\ k \in Starting /\ k.todo = disk.rows \ disk.filled
        /\ k.backfill = known[p].backfill
    BY <2>1, <1>t DEF Starting, Types, Database, Records
  <2>3. /\ stage' = [stage EXCEPT ![p] = "write"]
        /\ known' = [known EXCEPT ![p] = k] /\ UNCHANGED <<disk, conn, saved>>
    BY <1>7 DEF SelectUnfilled, Goto
  <2> HIDE DEF k
  <2>4. Reached("write", k, disk)
    BY <2>1, <2>2 DEF Reached
  <2>5. "write" \in Stages
    BY DEF Stages
  <2> QED
    BY <2>1, <2>2, <2>3, <2>4, <2>5, <1>3
<1>8. ASSUME NEW p \in Processes, MigrateRows(p) PROVE IInv'
  <2> DEFINE k == known[p]
             marks == disk.marks \cup {VersionMark} \cup
                        (IF k.backfill THEN {BackfillMark} ELSE {})
             filled == disk.filled \cup (k.todo \ Unreadable)
             n == [Detached EXCEPT !.tx = "writing", !.view = Migrated(p)]
  <2>1. /\ k \in Starting /\ stage[p] = "write" /\ Reached("write", k, disk)
        /\ known' = [known EXCEPT ![p] = k] /\ UNCHANGED <<disk, saved>> /\ Free(p)
        /\ stage' = [stage EXCEPT ![p] = "commit"]
        /\ conn' = [conn EXCEPT ![p] = n]
    BY <1>8, <1>t DEF MigrateRows, Types, IInv, ProcessOK, Goto
  <2>2. /\ marks = {VersionMark, BackfillMark}
        /\ filled \subseteq Records
        /\ disk.rows \ Unreadable \subseteq filled
    <3>1. disk.marks \subseteq {VersionMark, BackfillMark} /\ disk.filled \subseteq Records
      BY <1>t DEF Types, Database, Records
    <3>2. IF k.backfill THEN disk.rows \ Unreadable \subseteq disk.filled \cup k.todo
          ELSE BackfillMark \in disk.marks
      BY <2>1 DEF Reached
    <3>3. k.todo \subseteq Records
      BY <2>1 DEF Starting
    <3> QED
      BY <3>1, <3>2, <3>3, <1>t DEF Backfilled
  <2>3. Migrated(p) = [disk EXCEPT !.filled = filled, !.marks = marks]
    BY DEF Migrated
  <2> HIDE DEF marks, filled
  <2>4. LET view == [disk EXCEPT !.filled = filled, !.marks = marks] IN
        /\ view \in Database
        /\ view.tables = disk.tables /\ view.columns = disk.columns
        /\ view.rows = disk.rows /\ view.filled = filled /\ view.marks = marks
    <3>1. marks \in SUBSET {VersionMark, BackfillMark} /\ filled \in SUBSET (Legacy \cup New)
      BY <2>2 DEF Records
    <3> QED
      BY <1>t, <3>1 DEF Types, Database
  <2> DEFINE view == Migrated(p)
  <2>5. /\ view \in Database
        /\ view.tables = disk.tables /\ view.columns = disk.columns
        /\ view.rows = disk.rows /\ view.filled = filled /\ view.marks = marks
    BY <2>3, <2>4
  <2>6. n = [Detached EXCEPT !.tx = "writing", !.view = view]
    OBVIOUS
  <2> HIDE DEF view
  <2>7. n \in Connection /\ n.tx = "writing" /\ n.view = view
    BY <2>5, <2>6, DetachedIs DEF Connection, Transactions
  <2> HIDE DEF n
  <2>8. Grows(disk, view) /\ Whole(view) /\ Backfilled(view)
    <3>1. disk.tables = SchemaTables /\ disk.columns = Columns
      BY <2>1, <1>t DEF Reached, Types, Database, SchemaTables
    <3>2. disk.filled \subseteq filled /\ disk.marks \subseteq marks
      BY DEF filled, marks
    <3> QED
      BY <3>1, <3>2, <2>2, <2>5 DEF Grows, Whole, Backfilled
  <2>9. Reached("commit", k, disk) /\ Writing("commit", k, disk, n.view)
    BY <2>1, <2>7, <2>8 DEF Reached, Writing
  <2>10. "commit" \in Stages
    BY DEF Stages
  <2> HIDE DEF k
  <2> QED
    BY <2>1, <2>7, <2>9, <2>10, Private
<1>9. ASSUME NEW p \in Processes, CommitSchema(p) \/ SaveCommit(p) PROVE IInv'
  <2> DEFINE view == conn[p].view
  <2>1. /\ stage[p] \in {"commit", "saving"} /\ Commit(p, view)
        /\ stage' = [stage EXCEPT ![p] = "ready"]
        /\ known' = [known EXCEPT ![p] = Nothing]
        /\ \/ saved' = saved
           \/ stage[p] = "saving" /\ saved' = saved \cup known[p].record
    <3>1. CASE CommitSchema(p)
      BY <3>1 DEF CommitSchema, Goto
    <3>2. CASE SaveCommit(p)
      BY <3>2 DEF SaveCommit, Goto
    <3> QED
      BY <1>9, <3>1, <3>2
  <2>2. Free(p)
    BY <2>1, <1>t DEF Locking, Free
  <2>3. Writing(stage[p], known[p], disk, view)
    BY DEF IInv, ProcessOK
  <2>4. Grows(disk, view) /\ Whole(view) /\ Backfilled(view) /\ view \in Database
    BY <2>1, <2>3, <1>t DEF Writing, Types, Connection
  <2>5. known[p].record \subseteq New
    BY <1>t DEF Types, Starting
  <2>6. saved' \subseteq New /\ saved' \subseteq view.rows
    BY <2>1, <2>3, <2>4, <2>5, <1>t DEF Writing, Types, SavedKept, Grows
  <2>7. "ready" \in Stages /\ Reached("ready", Nothing, view)
    BY <2>4 DEF Stages, Reached, Whole, SchemaTables
  <2> HIDE DEF view
  <2> QED
    BY <2>1, <2>2, <2>4, <2>6, <2>7, NothingIs, Public
<1>10. ASSUME NEW p \in Processes, StartLocked(p) PROVE IInv'
  <2>1. /\ known' = [known EXCEPT ![p] = known[p]] /\ known[p] \in Starting
        /\ stage[p] \in {"records", "migrations", "alter", "write"}
        /\ stage' = [stage EXCEPT ![p] = "down"]
        /\ UNCHANGED <<disk, conn, saved>>
    BY <1>10, <1>t DEF StartLocked, Goto, Types
  <2>2. "down" \in Stages /\ Reached("down", known[p], disk)
    BY DEF Stages, Reached
  <2> QED
    BY <2>1, <2>2, <1>3
<1>11. ASSUME NEW p \in Processes, NEW r \in New, SaveInsert(p, r) PROVE IInv'
  <2> DEFINE k == [known[p] EXCEPT !.record = {r}]
             view == [disk EXCEPT !.rows = @ \cup {r}, !.filled = @ \cup {r}]
             n == [Detached EXCEPT !.tx = "writing", !.view = view]
  <2>1. /\ known[p] \in Starting /\ stage[p] = "ready" /\ Whole(disk)
        /\ known' = [known EXCEPT ![p] = k] /\ UNCHANGED <<disk, saved>> /\ Free(p)
        /\ stage' = [stage EXCEPT ![p] = "saving"]
        /\ conn' = [conn EXCEPT ![p] = n]
    BY <1>11, <1>t DEF SaveInsert, Types, IInv, ProcessOK, Reached, Goto
  <2>2. k \in Starting /\ k.record = {r}
    BY <2>1 DEF Starting
  <2>3. /\ view \in Database
        /\ view.tables = disk.tables /\ view.columns = disk.columns
        /\ view.marks = disk.marks
        /\ view.rows = disk.rows \cup {r} /\ view.filled = disk.filled \cup {r}
    BY <1>t DEF Types, Database
  <2> HIDE DEF k, view
  <2>4. n \in Connection /\ n.tx = "writing" /\ n.view = view
    BY <2>3, DetachedIs DEF Connection, Transactions
  <2> HIDE DEF n
  <2>5. Grows(disk, view) /\ Whole(view) /\ Backfilled(view)
    BY <2>1, <2>3, <1>t DEF Grows, Whole, Backfilled
  <2>6. Reached("saving", k, disk) /\ Writing("saving", k, disk, n.view)
    BY <2>1, <2>2, <2>3, <2>4, <2>5 DEF Reached, Writing, Whole, SchemaTables
  <2>7. "saving" \in Stages
    BY DEF Stages
  <2> QED
    BY <2>1, <2>2, <2>4, <2>6, <2>7, Private
<1>12. ASSUME NEW p \in Processes, SaveLocked(p) \/ ReadRows(p) PROVE IInv'
  <2>1. /\ known' = [known EXCEPT ![p] = known[p]] /\ known[p] \in Starting
        /\ stage[p] = "ready" /\ stage' = [stage EXCEPT ![p] = "ready"]
        /\ UNCHANGED <<disk, saved>>
    BY <1>12, <1>t DEF SaveLocked, ReadRows, Types
  <2>2. conn[p] \in Connection /\ conn[p].tx # "writing"
    BY <2>1, <1>t DEF Types, Locking
  <2>3. \E n \in Connection : conn' = [conn EXCEPT ![p] = n] /\ n.tx # "writing"
    <3>1. CASE SaveLocked(p)
      <4> DEFINE tx == IF conn[p].tx = "none" THEN "begun" ELSE conn[p].tx
                 n == [conn[p] EXCEPT !.tx = tx]
      <4>1. conn' = [conn EXCEPT ![p] = n]
        BY <3>1, <1>t DEF SaveLocked, Types
      <4>2. tx \in Transactions /\ tx # "writing"
        BY <2>2 DEF Connection, Transactions
      <4> HIDE DEF tx
      <4>3. n \in Connection /\ n.tx # "writing"
        BY <2>2, <4>2 DEF Connection
      <4> QED
        BY <4>1, <4>3
    <3>2. CASE ReadRows(p)
      <4> DEFINE n == [tx |-> "reading", view |-> disk, stale |-> FALSE]
      <4>1. conn' = [conn EXCEPT ![p] = conn[p]] \/ conn' = [conn EXCEPT ![p] = n]
        BY <3>2, <1>t DEF ReadRows, Types
      <4>2. n \in Connection /\ n.tx # "writing"
        BY <1>t DEF Types, Connection, Transactions
      <4> HIDE DEF n
      <4> QED
        BY <4>1, <4>2, <2>2
    <3> QED
      BY <1>12, <3>1, <3>2
  <2>4. PICK n \in Connection : conn' = [conn EXCEPT ![p] = n] /\ n.tx # "writing"
    BY <2>3
  <2>5. Reached("ready", known[p], disk) /\ Writing("ready", known[p], disk, n.view)
    BY <2>1 DEF IInv, ProcessOK, Writing
  <2>6. "ready" \in Stages
    BY DEF Stages
  <2> QED
    BY <2>1, <2>4, <2>5, <2>6, Private
<1>13. ASSUME NEW p \in Processes, Stop(p) PROVE IInv'
  <2>1. /\ stage' = [stage EXCEPT ![p] = "down"] /\ known' = [known EXCEPT ![p] = Nothing]
        /\ conn' = [conn EXCEPT ![p] = Detached] /\ UNCHANGED <<disk, saved>>
    BY <1>13 DEF Stop, Goto
  <2>2. "down" \in Stages /\ Reached("down", Nothing, disk)
        /\ Writing("down", Nothing, disk, Detached.view)
    BY DEF Stages, Reached, Writing
  <2> QED
    BY <2>1, <2>2, NothingIs, DetachedIs, Private
<1>14. CASE UNCHANGED storeVars
  BY <1>14 DEF storeVars, IInv, Types, Locking, Free, Backfilled, SavedKept, ProcessOK
<1>15. ASSUME NEW p \in Processes, Start(p) PROVE IInv'
  <2>1. {"call_record", "schema_migrations"} \subseteq SchemaTables
    BY DEF SchemaTables
  <2> QED
    BY <1>15, <2>1, <1>2, <1>4, <1>5, <1>6, <1>7, <1>8, <1>9, <1>10 DEF Start
<1> QED
  BY <1>1, <1>9, <1>11, <1>12, <1>13, <1>14, <1>15 DEF StoreNext, UseStore

(* The invariant of the database (store/sqlite_store.py) holds in every reachable state. *)
THEOREM Invariance == StoreSpec => []IInv
  BY InitIInv, NextIInv, PTL DEF StoreSpec

(* An open store has its whole schema; once the backfill is marked, every  *)
(* readable row has its model columns; what save() returned for stays:     *)
(* however starts, saves and crashes of processes interleave.              *)
THEOREM DatabaseStaysSound == StoreSpec => []DatabaseSound
<1>1. IInv => DatabaseSound
  BY DEF IInv, DatabaseSound, ReadyIsComplete, MarkedIsBackfilled, Backfilled,
         ProcessOK, Reached, Complete, Whole
<1> QED
  BY <1>1, Invariance, PTL

(* Beyond the invariant: only rows that are there have their columns set,  *)
(* or are selected for it, and a connection reads only between saves.      *)
Tidy ==
  /\ disk.filled \subseteq disk.rows
  /\ \A p \in Processes :
       /\ known[p].todo \subseteq disk.rows
       /\ conn[p].tx = "writing" => conn[p].view.filled \subseteq conn[p].view.rows
       /\ conn[p].tx \in {"begun", "reading"} => stage[p] = "ready"
  /\ stops \in 0..MaxStops

(* A step of p that commits nothing keeps that ... *)
LEMMA PrivateTidy ==
  ASSUME IInv, Tidy, NEW p \in Processes, NEW s, NEW k, NEW n,
         disk' = disk, stops' \in 0..MaxStops,
         stage' = [stage EXCEPT ![p] = s],
         known' = [known EXCEPT ![p] = k],
         conn' = [conn EXCEPT ![p] = n],
         k.todo \subseteq disk.rows,
         n.tx = "writing" => n.view.filled \subseteq n.view.rows,
         n.tx \in {"begun", "reading"} => s = "ready"
  PROVE  Tidy'
<1>1. \A q \in Processes :
        /\ stage'[q] = IF q = p THEN s ELSE stage[q]
        /\ known'[q] = IF q = p THEN k ELSE known[q]
        /\ conn'[q] = IF q = p THEN n ELSE conn[q]
  BY DEF IInv, Types
<1> QED
  BY <1>1 DEF Tidy

(* ... and so does a commit. *)
LEMMA PublicTidy ==
  ASSUME IInv, Tidy, NEW p \in Processes, NEW s, NEW k, NEW db,
         Commit(p, db), stops' = stops,
         stage' = [stage EXCEPT ![p] = s],
         known' = [known EXCEPT ![p] = k],
         disk.rows \subseteq db.rows, db.filled \subseteq db.rows,
         k.todo \subseteq db.rows
  PROVE  Tidy'
<1>1. \A q \in Processes :
        /\ stage'[q] = IF q = p THEN s ELSE stage[q]
        /\ known'[q] = IF q = p THEN k ELSE known[q]
  BY DEF IInv, Types
<1>2. disk' = db /\ conn'[p].tx = "none"
  BY DetachedIs DEF Commit
<1>3. ASSUME NEW q \in Processes, q # p
      PROVE  conn'[q].tx = conn[q].tx /\ conn'[q].view = conn[q].view
  <2>1. conn'[q] = [conn[q] EXCEPT !.stale = conn[q].tx = "reading"] /\ conn[q] \in Connection
    BY <1>3 DEF Commit, IInv, Types
  <2> QED
    BY <2>1 DEF Connection
<1> QED
  BY <1>1, <1>2, <1>3 DEF Tidy

(* So every step does. *)
LEMMA NextTidy ==
  ASSUME IInv, Tidy, [StoreNext]_storeVars
  PROVE  Tidy'
<1>t. /\ disk.filled \subseteq disk.rows /\ disk \in Database /\ stops \in 0..MaxStops
      /\ \A p \in Processes :
           /\ known[p] \in Starting /\ conn[p] \in Connection
           /\ known[p].todo \subseteq disk.rows
           /\ conn[p].tx = "writing" => conn[p].view.filled \subseteq conn[p].view.rows
           /\ conn[p].tx \in {"begun", "reading"} => stage[p] = "ready"
           /\ stage = [stage EXCEPT ![p] = stage[p]]
           /\ known = [known EXCEPT ![p] = known[p]]
           /\ conn = [conn EXCEPT ![p] = conn[p]]
  BY DEF IInv, Types, Tidy
<1>n. Nothing.todo = {} /\ Detached.tx = "none"
  BY DEF Nothing, Detached
<1>1. ASSUME NEW p \in Processes, NEW k, NEW s, k.todo \subseteq disk.rows,
             stage[p] # "ready",
             stage' = [stage EXCEPT ![p] = s],
             known' = [known EXCEPT ![p] = k],
             UNCHANGED <<disk, conn, stops>>
      PROVE  Tidy'
  <2>1. conn' = [conn EXCEPT ![p] = conn[p]] /\ conn[p].tx \notin {"begun", "reading"}
    BY <1>1, <1>t
  <2> QED
    BY <1>1, <1>t, <2>1, PrivateTidy
<1>2. ASSUME NEW p \in Processes, NEW at, NEW table, NEW next,
             CreateTable(p, at, table, next), at # "ready"
      PROVE  Tidy'
  <2>1. /\ stage[p] = at /\ stage' = [stage EXCEPT ![p] = next]
        /\ known' = [known EXCEPT ![p] = known[p]] /\ stops' = stops
    BY <1>2, <1>t DEF CreateTable, Goto
  <2>2. CASE table \in disk.tables
    <3>1. UNCHANGED <<disk, conn>>
      BY <1>2, <2>2 DEF CreateTable
    <3> QED
      BY <1>1, <1>2, <1>t, <2>1, <3>1
  <2>3. CASE table \notin disk.tables
    <3> DEFINE db == [disk EXCEPT !.tables = @ \cup {table},
                                  !.columns = IF table = "call_record"
                                              THEN Columns ELSE @]
    <3>1. Commit(p, db)
      BY <1>2, <2>3 DEF CreateTable
    <3>2. db.rows = disk.rows /\ db.filled = disk.filled
      BY <1>t DEF Database
    <3> HIDE DEF db
    <3> QED
      BY <1>t, <2>1, <3>1, <3>2, PublicTidy
  <2> QED
    BY <2>2, <2>3
<1>3. ASSUME NEW p \in Processes, NEW name, AddColumn(p, name) PROVE Tidy'
  <2> DEFINE k == [known[p] EXCEPT !.missing = @ \ {name}]
  <2>1. k.todo = known[p].todo
    BY <1>t DEF Starting
  <2>2. /\ stage[p] = "alter" /\ stage' = [stage EXCEPT ![p] = stage[p]]
        /\ known' = [known EXCEPT ![p] = k] /\ stops' = stops
    BY <1>3, <1>t DEF AddColumn
  <2> HIDE DEF k
  <2>3. CASE name \in disk.columns
    <3>1. UNCHANGED <<disk, conn>>
      BY <1>3, <2>3 DEF AddColumn
    <3> QED
      BY <1>1, <1>t, <2>1, <2>2, <3>1
  <2>4. CASE name \notin disk.columns
    <3>1. PICK db : Commit(p, db) /\ db.rows = disk.rows /\ db.filled = disk.filled
      BY <1>3, <1>t, <2>4 DEF AddColumn, Database
    <3> QED
      BY <1>t, <2>1, <2>2, <3>1, PublicTidy
  <2> QED
    BY <2>3, <2>4
<1>4. ASSUME NEW p \in Processes, Open(p) PROVE Tidy'
  BY <1>1, <1>4, <1>n DEF Open, Goto
<1>5. ASSUME NEW p \in Processes, Inspect(p) PROVE Tidy'
  <2>1. [known[p] EXCEPT !.missing = Columns \ disk.columns].todo = known[p].todo
    BY <1>t DEF Starting
  <2> QED
    BY <1>1, <1>5, <1>t, <2>1 DEF Inspect, Goto
<1>6. ASSUME NEW p \in Processes, SelectMark(p) PROVE Tidy'
  <2>1. [known[p] EXCEPT !.backfill = BackfillMark \notin disk.marks].todo = known[p].todo
    BY <1>t DEF Starting
  <2> QED
    BY <1>1, <1>6, <1>t, <2>1 DEF SelectMark, Goto
<1>7. ASSUME NEW p \in Processes, SelectUnfilled(p) PROVE Tidy'
  <2>1. [known[p] EXCEPT !.todo = disk.rows \ disk.filled].todo \subseteq disk.rows
    BY <1>t DEF Starting
  <2> QED
    BY <1>1, <1>7, <2>1 DEF SelectUnfilled, Goto
<1>8. ASSUME NEW p \in Processes, MigrateRows(p) PROVE Tidy'
  <2> DEFINE n == [Detached EXCEPT !.tx = "writing", !.view = Migrated(p)]
  <2>1. Migrated(p).filled \subseteq Migrated(p).rows
    BY <1>t DEF Migrated, Database
  <2>2. n.tx = "writing" /\ n.view = Migrated(p)
    BY DEF Detached
  <2>3. /\ disk' = disk /\ stops' \in 0..MaxStops
        /\ stage' = [stage EXCEPT ![p] = "commit"]
        /\ known' = [known EXCEPT ![p] = known[p]]
        /\ conn' = [conn EXCEPT ![p] = n]
    BY <1>8, <1>t DEF MigrateRows, Goto
  <2> HIDE DEF n
  <2> QED
    BY <1>t, <2>1, <2>2, <2>3, PrivateTidy
<1>9. ASSUME NEW p \in Processes, CommitSchema(p) \/ SaveCommit(p) PROVE Tidy'
  <2>1. /\ stage[p] \in {"commit", "saving"} /\ Commit(p, conn[p].view)
        /\ stage' = [stage EXCEPT ![p] = "ready"]
        /\ known' = [known EXCEPT ![p] = Nothing] /\ stops' = stops
    BY <1>9 DEF CommitSchema, SaveCommit, Goto
  <2>2. Grows(disk, conn[p].view) /\ conn[p].tx = "writing"
    BY <2>1 DEF IInv, ProcessOK, Writing, Locking
  <2>3. disk.rows \subseteq conn[p].view.rows
    BY <2>2 DEF Grows
  <2> QED
    BY <1>n, <1>t, <2>1, <2>2, <2>3, PublicTidy
<1>10. ASSUME NEW p \in Processes, StartLocked(p) PROVE Tidy'
  <2>1. known' = [known EXCEPT ![p] = known[p]]
    BY <1>10, <1>t DEF StartLocked
  <2> QED
    BY <1>1, <1>10, <1>t, <2>1 DEF StartLocked, Goto
<1>11. ASSUME NEW p \in Processes, NEW r, SaveInsert(p, r) PROVE Tidy'
  <2> DEFINE view == [disk EXCEPT !.rows = @ \cup {r}, !.filled = @ \cup {r}]
             n == [Detached EXCEPT !.tx = "writing", !.view = view]
             k == [known[p] EXCEPT !.record = {r}]
  <2>1. view.filled \subseteq view.rows /\ k.todo = known[p].todo
    BY <1>t DEF Database, Starting
  <2>2. n.tx = "writing" /\ n.view = view
    BY DEF Detached
  <2>3. /\ disk' = disk /\ stops' \in 0..MaxStops
        /\ stage' = [stage EXCEPT ![p] = "saving"]
        /\ known' = [known EXCEPT ![p] = k] /\ conn' = [conn EXCEPT ![p] = n]
    BY <1>11, <1>t DEF SaveInsert, Goto
  <2> HIDE DEF view, n, k
  <2> QED
    BY <1>t, <2>1, <2>2, <2>3, PrivateTidy
<1>12. ASSUME NEW p \in Processes, SaveLocked(p) \/ ReadRows(p) PROVE Tidy'
  <2>1. /\ stage[p] = "ready" /\ stage' = [stage EXCEPT ![p] = "ready"]
        /\ known' = [known EXCEPT ![p] = known[p]]
        /\ disk' = disk /\ stops' \in 0..MaxStops
    BY <1>12, <1>t DEF SaveLocked, ReadRows, IInv, Types
  <2>2. conn[p].tx # "writing"
    BY <2>1 DEF IInv, Locking
  <2>3. \E n : conn' = [conn EXCEPT ![p] = n] /\ n.tx # "writing"
    <3>1. CASE SaveLocked(p)
      <4> DEFINE tx == IF conn[p].tx = "none" THEN "begun" ELSE conn[p].tx
                 n == [conn[p] EXCEPT !.tx = tx]
      <4>1. conn' = [conn EXCEPT ![p] = n]
        BY <3>1 DEF SaveLocked, IInv, Types
      <4>2. tx # "writing"
        BY <2>2
      <4> HIDE DEF tx
      <4>3. n.tx # "writing"
        BY <1>t, <4>2 DEF Connection
      <4> QED
        BY <4>1, <4>3
    <3>2. CASE ReadRows(p)
      <4> DEFINE n == [tx |-> "reading", view |-> disk, stale |-> FALSE]
      <4>1. conn' = [conn EXCEPT ![p] = conn[p]] \/ conn' = [conn EXCEPT ![p] = n]
        BY <3>2 DEF ReadRows, IInv, Types
      <4>2. n.tx # "writing"
        OBVIOUS
      <4> HIDE DEF n
      <4> QED
        BY <4>1, <4>2, <2>2
    <3> QED
      BY <1>12, <3>1, <3>2
  <2>4. PICK n : conn' = [conn EXCEPT ![p] = n] /\ n.tx # "writing"
    BY <2>3
  <2> QED
    BY <1>t, <2>1, <2>4, PrivateTidy
<1>13. ASSUME NEW p \in Processes, Stop(p) PROVE Tidy'
  <2>1. /\ disk' = disk /\ stops' \in 0..MaxStops
        /\ stage' = [stage EXCEPT ![p] = "down"]
        /\ known' = [known EXCEPT ![p] = Nothing] /\ conn' = [conn EXCEPT ![p] = Detached]
    BY <1>13, <1>t, StoreAssumption DEF Stop, Goto
  <2> QED
    BY <1>n, <2>1, PrivateTidy
<1>14. CASE UNCHANGED storeVars
  BY <1>14 DEF storeVars, Tidy
<1>15. ASSUME NEW p \in Processes, Start(p) PROVE Tidy'
  BY <1>15, <1>2, <1>3, <1>5, <1>6, <1>7, <1>8, <1>9, <1>10 DEF Start
<1> QED
  BY <1>4, <1>9, <1>11, <1>12, <1>13, <1>14, <1>15 DEF StoreNext, UseStore

(* The database, the connections and what a start knows are well formed,   *)
(* and one connection writes at a time, between its first INSERT or UPDATE *)
(* and its COMMIT.                                                         *)
THEOREM StoreTypeCorrectness == StoreSpec => []StoreTypeOK
<1>1. StoreInit => Tidy
  <2> SUFFICES ASSUME StoreInit PROVE Tidy
    OBVIOUS
  <2>1. disk.filled \subseteq disk.rows
    <3>1. /\ NoDatabase.filled = {}
          /\ \A c : [NoDatabase EXCEPT !.tables = {"call_record"}, !.rows = Legacy,
                                      !.columns = c].filled = {}
      BY DEF NoDatabase
    <3>2. \/ disk.filled = {}
          \/ \E f \in {{}, Legacy} : disk = [tables |-> SchemaTables, columns |-> Columns,
                                            rows |-> Legacy, filled |-> f,
                                            marks |-> {VersionMark}]
      BY <3>1 DEF StoreInit, Found
    <3> QED
      BY <3>2
  <2>2. Nothing.todo = {} /\ Detached.tx = "none" /\ stops \in 0..MaxStops
    BY StoreAssumption DEF Nothing, Detached, StoreInit
  <2>3. \A p \in Processes : known[p] = Nothing /\ conn[p] = Detached
    BY DEF StoreInit
  <2> QED
    BY <2>1, <2>2, <2>3 DEF Tidy
<1>2. IInv /\ Tidy => StoreTypeOK
  <2> SUFFICES ASSUME IInv, Tidy PROVE StoreTypeOK
    OBVIOUS
  <2>1. /\ disk \in Database /\ stage \in [Processes -> Stages] /\ saved \subseteq New
        /\ \A p \in Processes : known[p] \in Starting /\ conn[p] \in Connection
    BY DEF IInv, Types
  <2>2. \A p \in Processes :
          /\ known[p].missing \subseteq Columns /\ known[p].todo \subseteq Records
          /\ known[p].record \subseteq New
          /\ conn[p].tx \in Transactions /\ conn[p].view \in Database
    BY <2>1 DEF Starting, Connection
  <2> QED
    BY <2>1, <2>2 DEF StoreTypeOK, IInv, Locking, Tidy, Records
<1>3. IInv /\ Tidy /\ [StoreNext]_storeVars => Tidy'
  BY NextTidy
<1> QED
  BY <1>1, <1>2, <1>3, Invariance, PTL DEF StoreSpec
----------------------------------------------------------------------------
(* The cache.  The dictionary and its order have the same keys, and what   *)
(* it holds for a key is what was stored last.                             *)
Holds ==
  /\ lru \in Order(CacheKeys)
  /\ MaxEntries > 0 => Len(lru) <= MaxEntries
  /\ entry \in [CacheKeys -> Entry] /\ stored \in [CacheKeys -> Entry]
  /\ \A k \in CacheKeys : IF k \in ToSet(lru)
                          THEN entry[k] = stored[k] /\ entry[k].resp # NoResponse
                          ELSE entry[k] = NoEntry
  /\ answer \in Responses \cup {NoResponse}

(* What stands behind a key in the order was used since it was, and a key  *)
(* is missing only when as many others were used as there are entries.     *)
Recent ==
  /\ usedSince \in [CacheKeys -> SUBSET CacheKeys]
  /\ \A k \in CacheKeys : IsFiniteSet(usedSince[k])
  /\ \A i, j \in 1..Len(lru) : i < j => lru[j] \in usedSince[lru[i]]
  /\ RecentlyUsedKept

CacheInv == Holds /\ Recent

(* An entry ages as CacheTick lets it. *)
Less(e) == [e EXCEPT !.left = IF @ < 0 THEN @ ELSE @ - 1]

(* Ageing changes no response and ends at -1. *)
LEMMA Ageing ==
  ASSUME NEW e \in Entry
  PROVE  /\ Less(e) \in Entry /\ Less(e).resp = e.resp
         /\ Less(e).left >= 0 => e.left >= 0
         /\ e = NoEntry => Less(e) = NoEntry
<1>1. /\ Less(e) = [resp |-> e.resp, left |-> IF e.left < 0 THEN e.left ELSE e.left - 1]
      /\ e.left \in -1..MaxTtl /\ MaxTtl \in Nat
  BY CacheAssumption DEF Less, Entry
<1> QED
  BY <1>1 DEF Entry, NoEntry

(* Where a key is used in the order it goes to the end.  The keys behind   *)
(* another are those that were behind it, and the key that was used.       *)
LEMMA UsedOrder ==
  ASSUME NEW S, NEW s \in Order(S), NEW k \in S
  PROVE  /\ Used(s, k) \in Order(S) /\ Used(s, k) # <<>>
         /\ ToSet(Used(s, k)) = ToSet(s) \cup {k}
         /\ Len(Used(s, k)) = IF k \in ToSet(s) THEN Len(s) ELSE Len(s) + 1
         /\ Used(s, k)[Len(Used(s, k))] = k
         /\ \A i, j \in 1..Len(Used(s, k)) : i < j =>
              /\ Used(s, k)[i] # k
              /\ \/ Used(s, k)[j] = k
                 \/ \E m, n \in 1..Len(s) : /\ m < n /\ s[m] = Used(s, k)[i]
                                            /\ s[n] = Used(s, k)[j]
<1> DEFINE q == RemoveFirst(s, k)
           r == Used(s, k)
<1>1. /\ r \in Order(S) /\ ToSet(r) = ToSet(s) \cup {k}
      /\ Len(r) = IF k \in ToSet(s) THEN Len(s) ELSE Len(s) + 1
      /\ r[Len(r)] = k
  BY MovedToEnd DEF Used
<1>2. /\ r = Append(q, k) /\ q \in Order(S) /\ s \in Seq(S) /\ q \in Seq(S)
      /\ Len(q) \in Nat /\ Len(s) \in Nat
  BY RemoveFirstOrder DEF Used, Order
<1>3. /\ r \in Seq(S) /\ r # <<>> /\ Len(r) = Len(q) + 1
      /\ \A i \in 1..Len(q) : r[i] = q[i]
  BY <1>2, AppendProperties
<1>4. ASSUME NEW i \in 1..Len(q), NEW j \in 1..Len(q), i < j
      PROVE  \E m, n \in 1..Len(s) : m < n /\ s[m] = q[i] /\ s[n] = q[j]
  <2>1. CASE q = s
    BY <1>4, <2>1
  <2>2. ASSUME NEW p \in 1..Len(s), q = RemoveAt(s, p)
        PROVE  \E m, n \in 1..Len(s) : m < n /\ s[m] = q[i] /\ s[n] = q[j]
    <3>1. /\ Len(q) = Len(s) - 1
          /\ \A x \in 1..(Len(s) - 1) : q[x] = IF x < p THEN s[x] ELSE s[x + 1]
      BY <1>2, <2>2, RemoveAtProperties
    <3> DEFINE was(x) == IF x < p THEN x ELSE x + 1
    <3>2. was(i) \in 1..Len(s) /\ was(j) \in 1..Len(s) /\ was(i) < was(j)
      BY <1>2, <1>4, <3>1
    <3>3. q[i] = s[was(i)] /\ q[j] = s[was(j)]
      BY <3>1
    <3> QED
      BY <3>2, <3>3
  <2> QED
    BY <2>1, <2>2, RemoveFirstOrder
<1> HIDE DEF q, r
<1>5. ASSUME NEW i \in 1..Len(r), NEW j \in 1..Len(r), i < j
      PROVE  /\ r[i] # k
             /\ \/ r[j] = k
                \/ \E m, n \in 1..Len(s) : m < n /\ s[m] = r[i] /\ s[n] = r[j]
  <2>1. i \in 1..Len(q) /\ (j \in 1..Len(q) \/ j = Len(r))
    BY <1>2, <1>3, <1>5
  <2>2. r[i] # k
    BY <1>1, <1>5, <1>3 DEF Order, IsInjective
  <2>3. CASE j = Len(r)
    BY <1>1, <2>2, <2>3
  <2>4. CASE j \in 1..Len(q)
    BY <1>3, <1>4, <1>5, <2>1, <2>2, <2>4
  <2> QED
    BY <2>1, <2>3, <2>4
<1> QED
  BY <1>1, <1>3, <1>5 DEF r

(* An empty cache satisfies the invariant. *)
LEMMA InitCache == CacheInit => CacheInv
<1> SUFFICES ASSUME CacheInit PROVE CacheInv
  OBVIOUS
<1>1. NoEntry \in Entry /\ lru \in Order(CacheKeys) /\ Len(lru) = 0 /\ ToSet(lru) = {}
  BY CacheAssumption DEF CacheInit, NoEntry, Entry, Order, IsInjective, ToSet
<1>2. Holds
  BY <1>1, CacheAssumption DEF CacheInit, Holds
<1>3. RecentlyUsedKept
  BY DEF CacheInit, RecentlyUsedKept, NoEntry
<1>4. Recent
  BY <1>1, <1>3, FS_EmptySet DEF CacheInit, Recent
<1> QED
  BY <1>2, <1>4 DEF CacheInv

(* Using a key only adds to what was used since the others were. *)
LEMMA UsedMore ==
  ASSUME CacheInv, NEW k \in CacheKeys, Use(k)
  PROVE  /\ usedSince' \in [CacheKeys -> SUBSET CacheKeys]
         /\ \A x \in CacheKeys : IsFiniteSet(usedSince'[x])
         /\ \A x \in CacheKeys \ {k} : /\ usedSince'[x] = usedSince[x] \cup {k}
                                       /\ Cardinality(usedSince[x]) <= Cardinality(usedSince'[x])
                                       /\ Cardinality(usedSince[x]) \in Nat
                                       /\ Cardinality(usedSince'[x]) \in Nat
<1>1. /\ usedSince \in [CacheKeys -> SUBSET CacheKeys]
      /\ \A x \in CacheKeys : IsFiniteSet(usedSince[x])
      /\ usedSince' = [x \in CacheKeys |-> IF x = k THEN {} ELSE usedSince[x] \cup {k}]
  BY DEF CacheInv, Recent, Use
<1>2. usedSince' \in [CacheKeys -> SUBSET CacheKeys]
  BY <1>1
<1>3. ASSUME NEW x \in CacheKeys PROVE IsFiniteSet(usedSince'[x])
  <2>1. IsFiniteSet({}) /\ IsFiniteSet(usedSince[x] \cup {k})
    BY <1>1, FS_EmptySet, FS_AddElement
  <2> QED
    BY <1>1, <2>1
<1>4. ASSUME NEW x \in CacheKeys, x # k
      PROVE  /\ usedSince'[x] = usedSince[x] \cup {k}
             /\ Cardinality(usedSince[x]) <= Cardinality(usedSince'[x])
             /\ Cardinality(usedSince[x]) \in Nat /\ Cardinality(usedSince'[x]) \in Nat
  <2>1. usedSince'[x] = usedSince[x] \cup {k}
    BY <1>1, <1>4
  <2>2. usedSince[x] \in SUBSET usedSince'[x]
    BY <2>1
  <2> QED
    BY <1>1, <1>3, <2>1, <2>2, FS_Subset, FS_CardinalityType
<1> QED
  BY <1>2, <1>3, <1>4

(* The keys behind another one in the order after k was used were used     *)
(* since that one was.                                                     *)
LEMMA BehindUsed ==
  ASSUME CacheInv, NEW k \in CacheKeys, Use(k)
  PROVE  \A i, j \in 1..Len(Used(lru, k)) :
           i < j => Used(lru, k)[j] \in usedSince'[Used(lru, k)[i]]
<1> DEFINE r == Used(lru, k)
<1>1. lru \in Order(CacheKeys)
  BY DEF CacheInv, Holds
<1>2. /\ r \in Order(CacheKeys)
      /\ \A i, j \in 1..Len(r) : i < j =>
           /\ r[i] # k
           /\ \/ r[j] = k
              \/ \E m, n \in 1..Len(lru) : m < n /\ lru[m] = r[i] /\ lru[n] = r[j]
  BY <1>1, UsedOrder
<1> HIDE DEF r
<1> SUFFICES ASSUME NEW i \in 1..Len(r), NEW j \in 1..Len(r), i < j
             PROVE  r[j] \in usedSince'[r[i]]
  BY DEF r
<1>3. r[i] \in CacheKeys \ {k}
  BY <1>2 DEF Order
<1>4. usedSince'[r[i]] = usedSince[r[i]] \cup {k}
  BY <1>3, UsedMore
<1>5. r[j] = k \/ r[j] \in usedSince[r[i]]
  BY <1>2 DEF CacheInv, Recent
<1> QED
  BY <1>4, <1>5

(* A hit moves its key to the end, and loses nothing. *)
LEMMA HitCache ==
  ASSUME CacheInv, NEW k \in CacheKeys, Hit(k)
  PROVE  CacheInv'
<1>1. /\ lru' = Used(lru, k) /\ Use(k) /\ answer' = entry[k].resp
      /\ UNCHANGED <<entry, stored>> /\ Contains(lru, k)
  BY DEF Hit
<1>2. lru \in Order(CacheKeys) /\ lru \in Seq(CacheKeys) /\ k \in ToSet(lru)
  BY <1>1, Members DEF CacheInv, Holds, Order
<1>3. /\ lru' \in Order(CacheKeys) /\ ToSet(lru') = ToSet(lru) /\ Len(lru') = Len(lru)
  <2>1. /\ Used(lru, k) \in Order(CacheKeys) /\ ToSet(Used(lru, k)) = ToSet(lru) \cup {k}
        /\ Len(Used(lru, k)) = IF k \in ToSet(lru) THEN Len(lru) ELSE Len(lru) + 1
    BY <1>2, UsedOrder
  <2>2. ToSet(lru) \cup {k} = ToSet(lru)
    BY <1>2
  <2> QED
    BY <1>1, <1>2, <2>1, <2>2
<1>4. Holds'
  <2>1. answer' \in Responses \cup {NoResponse}
    BY <1>1 DEF CacheInv, Holds, Entry
  <2> QED
    BY <1>1, <1>3, <2>1 DEF CacheInv, Holds
<1>5. RecentlyUsedKept'
  <2> SUFFICES ASSUME NEW x \in CacheKeys, stored[x].left >= 0, x \notin ToSet(lru)
               PROVE  MaxEntries > 0 /\ Cardinality(usedSince'[x]) >= MaxEntries
    <3>1. lru' \in Seq(CacheKeys)
      BY <1>3 DEF Order
    <3> QED
      BY <1>1, <1>3, <3>1, Members DEF RecentlyUsedKept
  <2>1. x # k /\ MaxEntries > 0 /\ Cardinality(usedSince[x]) >= MaxEntries
    BY <1>2, Members DEF CacheInv, Recent, RecentlyUsedKept
  <2> QED
    BY <1>1, <2>1, UsedMore, CacheAssumption
<1> QED
  BY <1>1, <1>4, <1>5, UsedMore, BehindUsed DEF CacheInv, Recent

(* What a set keeps: the key it stored, and all but the oldest at most.    *)
LEMMA KeptOrder ==
  ASSUME NEW r \in Order(CacheKeys), r # <<>>, NEW q, q = KeptInBound(r)
  PROVE  /\ q \in Order(CacheKeys) /\ r[Len(r)] \in ToSet(q) /\ ToSet(q) \subseteq ToSet(r)
         /\ MaxEntries > 0 /\ Len(r) <= MaxEntries + 1 => Len(q) <= MaxEntries
         /\ \/ q = r
            \/ /\ MaxEntries > 0 /\ Len(r) > MaxEntries /\ Len(q) = Len(r) - 1
               /\ ToSet(q) = ToSet(r) \ {r[1]}
               /\ \A i \in 1..(Len(r) - 1) : q[i] = r[i + 1]
<1>1. /\ r \in Seq(CacheKeys) /\ Len(r) \in Nat \ {0} /\ MaxEntries \in Nat
      /\ \A i \in 1..Len(r) : r[i] \in ToSet(r)
      /\ IsInjective(r) /\ DOMAIN r = 1..Len(r)
  BY CacheAssumption, Members DEF Order
<1>4. q = IF MaxEntries > 0 /\ Len(r) > MaxEntries THEN Tail(r) ELSE r
  BY DEF KeptInBound
<1>2. CASE MaxEntries > 0 /\ Len(r) > MaxEntries
  <2>1. /\ Tail(r) \in Order(CacheKeys) /\ ToSet(Tail(r)) = ToSet(r) \ {r[1]}
        /\ Len(Tail(r)) = Len(r) - 1 /\ \A i \in 1..(Len(r) - 1) : Tail(r)[i] = r[i + 1]
    BY OldestEvicted
  <2>2. r[Len(r)] # r[1] /\ r[Len(r)] \in ToSet(r)
    BY <1>1, <1>2 DEF IsInjective
  <2>3. q = Tail(r)
    BY <1>2, <1>4
  <2>4. MaxEntries > 0 /\ Len(r) <= MaxEntries + 1 => Len(Tail(r)) <= MaxEntries
    BY <1>1, <2>1
  <2> QED
    BY <1>2, <2>1, <2>2, <2>3, <2>4
<1>3. CASE ~(MaxEntries > 0 /\ Len(r) > MaxEntries)
  <2>1. q = r
    BY <1>3, <1>4
  <2>2. Len(r) \in 1..Len(r)
    BY <1>1
  <2>3. MaxEntries > 0 => Len(r) <= MaxEntries
    BY <1>1, <1>3
  <2> QED
    BY <1>1, <2>1, <2>2, <2>3
<1> QED
  BY <1>2, <1>3

(* A set evicts its oldest key only, behind which a cacheful were used.    *)
LEMMA SetCache ==
  ASSUME CacheInv, NEW k \in CacheKeys, NEW r \in Responses, NEW ttl \in 0..MaxTtl,
         Set(k, r, ttl)
  PROVE  CacheInv'
<1> DEFINE e == [resp |-> r, left |-> ttl]
           u == Used(lru, k)
<1>1. /\ lru' = KeptInBound(u) /\ Use(k) /\ UNCHANGED answer
      /\ entry' = [j \in CacheKeys |-> IF ~Contains(lru', j) THEN NoEntry
                                       ELSE IF j = k THEN e ELSE entry[j]]
      /\ stored' = [stored EXCEPT ![k] = e]
  BY DEF Set
<1>2. lru \in Order(CacheKeys)
  BY DEF CacheInv, Holds
<1>3. /\ u \in Order(CacheKeys) /\ u # <<>> /\ ToSet(u) = ToSet(lru) \cup {k}
      /\ Len(u) = IF k \in ToSet(lru) THEN Len(lru) ELSE Len(lru) + 1
      /\ u[Len(u)] = k
  BY <1>2, UsedOrder
<1>4. \A i, j \in 1..Len(u) : i < j => u[j] \in usedSince'[u[i]]
  BY <1>1, BehindUsed
<1>5. /\ e \in Entry /\ e.resp # NoResponse /\ e.left >= 0 /\ NoEntry \in Entry
      /\ MaxEntries \in Nat
  BY CacheAssumption DEF Entry, NoEntry
<1> HIDE DEF e, u
<1>6. /\ lru' \in Order(CacheKeys) /\ k \in ToSet(lru') /\ ToSet(lru') \subseteq ToSet(u)
      /\ MaxEntries > 0 /\ Len(u) <= MaxEntries + 1 => Len(lru') <= MaxEntries
      /\ \/ lru' = u
         \/ /\ MaxEntries > 0 /\ Len(u) > MaxEntries /\ Len(lru') = Len(u) - 1
            /\ ToSet(lru') = ToSet(u) \ {u[1]}
            /\ \A i \in 1..(Len(u) - 1) : lru'[i] = u[i + 1]
  BY <1>1, <1>3, KeptOrder
<1>7. /\ lru' \in Seq(CacheKeys) /\ Len(lru') \in Nat /\ Len(u) \in Nat /\ Len(lru) \in Nat
      /\ \A x : Contains(lru', x) <=> x \in ToSet(lru')
  BY <1>2, <1>3, <1>6, Members DEF Order
<1>8. Holds'
  <2>1. MaxEntries > 0 => Len(lru') <= MaxEntries
    BY <1>3, <1>5, <1>6, <1>7 DEF CacheInv, Holds
  <2>2. entry' \in [CacheKeys -> Entry] /\ stored' \in [CacheKeys -> Entry]
    BY <1>1, <1>5 DEF CacheInv, Holds
  <2>3. ASSUME NEW x \in CacheKeys
        PROVE  IF x \in ToSet(lru')
               THEN entry'[x] = stored'[x] /\ entry'[x].resp # NoResponse
               ELSE entry'[x] = NoEntry
    <3>1. /\ entry'[x] = IF x \notin ToSet(lru') THEN NoEntry
                         ELSE IF x = k THEN e ELSE entry[x]
          /\ stored'[x] = IF x = k THEN e ELSE stored[x]
      BY <1>1, <1>7 DEF CacheInv, Holds
    <3>2. x \in ToSet(lru') /\ x # k =>
            entry[x] = stored[x] /\ entry[x].resp # NoResponse
      BY <1>3, <1>6 DEF CacheInv, Holds
    <3> QED
      BY <1>5, <3>1, <3>2
  <2> QED
    BY <1>1, <1>6, <2>1, <2>2, <2>3 DEF CacheInv, Holds
<1>9. \A i, j \in 1..Len(lru') : i < j => lru'[j] \in usedSince'[lru'[i]]
  <2>1. CASE lru' = u
    BY <1>4, <2>1
  <2>2. CASE /\ Len(lru') = Len(u) - 1
             /\ \A i \in 1..(Len(u) - 1) : lru'[i] = u[i + 1]
    <3> SUFFICES ASSUME NEW i \in 1..Len(lru'), NEW j \in 1..Len(lru'), i < j
                 PROVE  lru'[j] \in usedSince'[lru'[i]]
      OBVIOUS
    <3>1. i + 1 \in 1..Len(u) /\ j + 1 \in 1..Len(u) /\ i + 1 < j + 1
      BY <1>7, <2>2
    <3> QED
      BY <1>4, <1>7, <2>2, <3>1
  <2> QED
    BY <1>6, <2>1, <2>2
<1>10. RecentlyUsedKept'
  <2> SUFFICES ASSUME NEW x \in CacheKeys, stored'[x].left >= 0, x \notin ToSet(lru')
               PROVE  MaxEntries > 0 /\ Cardinality(usedSince'[x]) >= MaxEntries
    BY <1>7 DEF RecentlyUsedKept
  <2>1. x # k /\ stored'[x] = stored[x]
    BY <1>1, <1>6 DEF CacheInv, Holds
  <2>2. CASE x \notin ToSet(lru)
    <3>1. lru \in Seq(CacheKeys)
      BY <1>2 DEF Order
    <3>2. MaxEntries > 0 /\ Cardinality(usedSince[x]) >= MaxEntries
      BY <2>1, <2>2, <3>1, Members DEF CacheInv, Recent, RecentlyUsedKept
    <3> QED
      BY <1>1, <1>5, <2>1, <3>2, UsedMore
  <2>3. CASE x \in ToSet(lru)
    <3>1. /\ x = u[1] /\ MaxEntries > 0 /\ Len(u) > MaxEntries /\ Len(lru') = Len(u) - 1
          /\ \A i \in 1..(Len(u) - 1) : lru'[i] = u[i + 1]
      BY <1>3, <1>6, <2>3
    <3>2. ToSet(lru') \subseteq usedSince'[x]
      <4> SUFFICES ASSUME NEW i \in 1..Len(lru') PROVE lru'[i] \in usedSince'[x]
        BY <1>7, Members
      <4>1. i + 1 \in 1..Len(u) /\ 1 \in 1..Len(u) /\ 1 < i + 1
        BY <1>7, <3>1
      <4> QED
        BY <1>4, <1>7, <3>1, <4>1
    <3>3. Cardinality(ToSet(lru')) <= Cardinality(usedSince'[x])
      BY <1>1, <3>2, UsedMore, FS_Subset
    <3>4. Cardinality(ToSet(lru')) = Len(lru')
      BY <1>6, OrderCardinality
    <3>5. Cardinality(usedSince'[x]) \in Nat
      BY <1>1, <2>1, UsedMore
    <3> QED
      BY <1>5, <1>7, <3>1, <3>3, <3>4, <3>5
  <2> QED
    BY <2>2, <2>3
<1> QED
  BY <1>1, <1>8, <1>9, <1>10, UsedMore DEF CacheInv, Recent

(* An entry that is asked for after its end is popped: nothing is owed.    *)
LEMMA ExpiredCache ==
  ASSUME CacheInv, NEW k \in CacheKeys, GetExpired(k)
  PROVE  CacheInv'
<1>1. /\ lru' = RemoveFirst(lru, k) /\ answer' = NoResponse
      /\ entry' = [entry EXCEPT ![k] = NoEntry] /\ entry[k].left < 0
      /\ UNCHANGED <<stored, usedSince>> /\ Contains(lru, k)
  BY DEF GetExpired, Expired
<1>2. /\ lru \in Order(CacheKeys) /\ lru \in Seq(CacheKeys) /\ Len(lru) \in Nat
      /\ k \in ToSet(lru) /\ NoEntry \in Entry /\ stored[k].left < 0
  BY <1>1, Members, CacheAssumption DEF CacheInv, Holds, Order, Entry, NoEntry
<1>3. lru' \in Order(CacheKeys) /\ ToSet(lru') = ToSet(lru) \ {k}
  BY <1>1, <1>2, RemoveFirstOrder
<1>4. PICK p \in 1..Len(lru) : lru' = RemoveAt(lru, p)
  BY <1>1, <1>2, RemoveFirstOrder
<1>5. /\ Len(lru') = Len(lru) - 1
      /\ \A x \in 1..(Len(lru) - 1) : lru'[x] = IF x < p THEN lru[x] ELSE lru[x + 1]
  BY <1>2, <1>4, RemoveAtProperties
<1>6. Holds'
  <2>1. MaxEntries > 0 => Len(lru') <= MaxEntries
    BY <1>2, <1>5, CacheAssumption DEF CacheInv, Holds
  <2>2. entry' \in [CacheKeys -> Entry]
    BY <1>1, <1>2 DEF CacheInv, Holds
  <2> QED
    BY <1>1, <1>3, <2>1, <2>2 DEF CacheInv, Holds
<1>7. \A i, j \in 1..Len(lru') : i < j => lru'[j] \in usedSince[lru'[i]]
  <2> SUFFICES ASSUME NEW i \in 1..Len(lru'), NEW j \in 1..Len(lru'), i < j
               PROVE  lru'[j] \in usedSince[lru'[i]]
    OBVIOUS
  <2> DEFINE was(x) == IF x < p THEN x ELSE x + 1
  <2>1. was(i) \in 1..Len(lru) /\ was(j) \in 1..Len(lru) /\ was(i) < was(j)
    BY <1>2, <1>5
  <2>2. lru'[i] = lru[was(i)] /\ lru'[j] = lru[was(j)]
    BY <1>5
  <2> HIDE DEF was
  <2> QED
    BY <2>1, <2>2 DEF CacheInv, Recent
<1>8. RecentlyUsedKept'
  <2> SUFFICES ASSUME NEW x \in CacheKeys, stored[x].left >= 0, x \notin ToSet(lru')
               PROVE  MaxEntries > 0 /\ Cardinality(usedSince[x]) >= MaxEntries
    <3>1. lru' \in Seq(CacheKeys)
      BY <1>3 DEF Order
    <3> QED
      BY <1>1, <3>1, Members DEF RecentlyUsedKept
  <2>1. x # k
    BY <1>2 DEF CacheInv, Holds, Entry
  <2>2. x \notin ToSet(lru)
    BY <1>3, <2>1
  <2> QED
    BY <1>2, <2>2, Members DEF CacheInv, Recent, RecentlyUsedKept
<1> QED
  BY <1>1, <1>6, <1>7, <1>8 DEF CacheInv, Recent

(* Time only takes away what is owed. *)
LEMMA TickCache ==
  ASSUME CacheInv, CacheTick
  PROVE  CacheInv'
<1>1. /\ entry' = [k \in CacheKeys |-> Less(entry[k])]
      /\ stored' = [k \in CacheKeys |-> Less(stored[k])]
      /\ UNCHANGED <<lru, answer, usedSince>>
  BY DEF CacheTick, Less
<1>2. \A k \in CacheKeys : /\ entry'[k] \in Entry /\ stored'[k] \in Entry
                           /\ entry'[k].resp = entry[k].resp
                           /\ stored'[k].left >= 0 => stored[k].left >= 0
                           /\ entry[k] = NoEntry => entry'[k] = NoEntry
                           /\ entry[k] = stored[k] => entry'[k] = stored'[k]
  BY <1>1, Ageing DEF CacheInv, Holds
<1>3. entry' \in [CacheKeys -> Entry] /\ stored' \in [CacheKeys -> Entry]
  BY <1>1, <1>2
<1>4. Holds'
  BY <1>1, <1>2, <1>3 DEF CacheInv, Holds
<1>5. RecentlyUsedKept'
  BY <1>1, <1>2 DEF CacheInv, Recent, RecentlyUsedKept
<1> QED
  BY <1>1, <1>4, <1>5 DEF CacheInv, Recent

(* Every call of get and set, and time, keeps the invariant. *)
LEMMA NextCache == CacheInv /\ [CacheNext]_cacheVars => CacheInv'
<1> SUFFICES ASSUME CacheInv, [CacheNext]_cacheVars PROVE CacheInv'
  OBVIOUS
<1>1. CASE CacheTick
  BY <1>1, TickCache
<1>2. ASSUME NEW k \in CacheKeys, Miss(k) PROVE CacheInv'
  BY <1>2 DEF Miss, CacheInv, Holds, Recent, RecentlyUsedKept
<1>3. ASSUME NEW k \in CacheKeys, GetExpired(k) PROVE CacheInv'
  BY <1>3, ExpiredCache
<1>4. ASSUME NEW k \in CacheKeys, Hit(k) PROVE CacheInv'
  BY <1>4, HitCache
<1>5. ASSUME NEW k \in CacheKeys, NEW r \in Responses, NEW ttl \in 0..MaxTtl, Set(k, r, ttl)
      PROVE  CacheInv'
  BY <1>5, SetCache
<1>6. CASE UNCHANGED cacheVars
  BY <1>6 DEF cacheVars, CacheInv, Holds, Recent, RecentlyUsedKept
<1> QED
  BY <1>1, <1>2, <1>3, <1>4, <1>5, <1>6 DEF CacheNext

(* The invariant holds in every state of the cache. *)
THEOREM CacheInvariance == CacheSpec => []CacheInv
  BY InitCache, NextCache, PTL DEF CacheSpec

(* MemoryCache keeps its types: the order and the dictionary have the same *)
(* keys, and no more of them than max_entries.                             *)
THEOREM CacheTypeCorrectness == CacheSpec => []CacheTypeOK
<1>1. CacheInv => CacheTypeOK
  <2> SUFFICES ASSUME CacheInv PROVE CacheTypeOK
    OBVIOUS
  <2>1. lru \in Seq(CacheKeys) /\ IsInjective(lru)
    BY DEF CacheInv, Holds, Order
  <2>2. \A k \in CacheKeys : Contains(lru, k) <=> entry[k].resp # NoResponse
    BY <2>1, Members DEF CacheInv, Holds, NoEntry
  <2> QED
    BY <2>1, <2>2 DEF CacheTypeOK, CacheInv, Holds, Recent
<1> QED
  BY <1>1, CacheInvariance, PTL

(* Whatever the order of gets and sets, a response is evicted before its   *)
(* end only for max_entries other keys, all used since it was.             *)
THEOREM EvictsOnlyTheUnused == CacheSpec => []RecentlyUsedKept
  BY CacheInvariance, PTL DEF CacheInv, Recent

(* At first the cache owes nobody anything. *)
LEMMA InitForgets == CacheInit => Forgetful!Init
<1> SUFFICES ASSUME CacheInit PROVE Forgetful!Init
  OBVIOUS
<1>1. \A k : ~Contains(lru, k)
  BY DEF CacheInit, Contains
<1> QED
  BY <1>1 DEF CacheInit, Forgetful!Init, Owed

(* What is owed for a key that is there. *)
LEMMA OwedNow ==
  ASSUME CacheInv, NEW k \in CacheKeys
  PROVE  /\ Owed[k] = IF k \in ToSet(lru) /\ stored[k].left >= 0
                      THEN stored[k].resp ELSE NoResponse
         /\ Contains(lru, k) <=> k \in ToSet(lru)
         /\ k \in ToSet(lru) => entry[k] = stored[k]
<1>1. lru \in Seq(CacheKeys)
  BY DEF CacheInv, Holds, Order
<1> QED
  BY <1>1, Members DEF CacheInv, Holds, Owed

(* A lookup answers what is owed, and takes nothing from anyone. *)
LEMMA GetsLookUp ==
  ASSUME CacheInv, CacheInv', NEW k \in CacheKeys, Miss(k) \/ GetExpired(k) \/ Hit(k)
  PROVE  Forgetful!Lookup(k)
<1>1. lru \in Order(CacheKeys) /\ stored' = stored
  BY DEF CacheInv, Holds, Miss, GetExpired, Hit
<1>2. answer' = Owed[k]
  <2>1. CASE Miss(k)
    BY <2>1, OwedNow DEF Miss
  <2>2. CASE GetExpired(k)
    <3>1. stored[k].left < 0 /\ stored[k] \in Entry
      BY <2>2, OwedNow DEF GetExpired, Expired, CacheInv, Holds
    <3> QED
      BY <2>2, <3>1, OwedNow DEF GetExpired, Entry
  <2>3. CASE Hit(k)
    <3>1. k \in ToSet(lru) /\ ~(stored[k].left < 0) /\ stored[k] \in Entry
          /\ answer' = stored[k].resp
      BY <2>3, OwedNow DEF Hit, Expired, CacheInv, Holds
    <3> QED
      BY <3>1, OwedNow DEF Entry
  <2> QED
    BY <2>1, <2>2, <2>3
<1>3. ASSUME NEW x \in CacheKeys PROVE Owed'[x] = Owed[x]
  <2>0. Owed'[x] = IF x \in ToSet(lru') /\ stored[x].left >= 0
                   THEN stored[x].resp ELSE NoResponse
    <3>1. lru' \in Seq(CacheKeys)
      BY DEF CacheInv, Holds, Order
    <3>2. Contains(lru', x) <=> x \in ToSet(lru')
      BY <3>1, Members
    <3> QED
      BY <1>1, <3>2 DEF Owed
  <2>1. CASE Miss(k)
    BY <2>0, <2>1, OwedNow DEF Miss
  <2>2. CASE GetExpired(k)
    <3>1. stored[k].left < 0 /\ stored[k] \in Entry
      BY <2>2, OwedNow DEF GetExpired, Expired, CacheInv, Holds
    <3>2. ToSet(lru') = ToSet(lru) \ {k}
      BY <1>1, <2>2, RemoveFirstOrder DEF GetExpired
    <3>3. ~(stored[k].left >= 0)
      BY <3>1 DEF Entry
    <3> QED
      BY <2>0, <3>2, <3>3, OwedNow
  <2>3. CASE Hit(k)
    <3>1. ToSet(Used(lru, k)) = ToSet(lru) \cup {k} /\ k \in ToSet(lru)
      BY <1>1, <2>3, UsedOrder, OwedNow DEF Hit
    <3>2. ToSet(lru') = ToSet(lru)
      BY <2>3, <3>1 DEF Hit
    <3> QED
      BY <2>0, <3>2, OwedNow
  <2> QED
    BY <2>1, <2>2, <2>3
<1>4. Owed' = Owed
  BY <1>3 DEF Owed
<1> QED
  BY <1>2, <1>4 DEF Forgetful!Lookup

(* A set stores one response, and forgets the one it evicts. *)
LEMMA SetStores ==
  ASSUME CacheInv, CacheInv', NEW k \in CacheKeys, NEW r \in Responses,
         NEW ttl \in 0..MaxTtl, Set(k, r, ttl)
  PROVE  \E lost \in SUBSET CacheKeys : Forgetful!Store(k, r, lost)
<1> DEFINE lost == CacheKeys \ ToSet(lru')
           u == Used(lru, k)
<1>1. /\ stored' = [stored EXCEPT ![k] = [resp |-> r, left |-> ttl]]
      /\ lru' = KeptInBound(u) /\ UNCHANGED answer
  BY DEF Set
<1>2. lru \in Order(CacheKeys) /\ stored \in [CacheKeys -> Entry] /\ lru' \in Seq(CacheKeys)
  BY DEF CacheInv, Holds, Order
<1>3. u \in Order(CacheKeys) /\ u # <<>> /\ ToSet(u) = ToSet(lru) \cup {k} /\ u[Len(u)] = k
  BY <1>2, UsedOrder
<1> HIDE DEF u
<1>4. k \in ToSet(lru') /\ ToSet(lru') \subseteq ToSet(lru) \cup {k}
  BY <1>1, <1>3, KeptOrder
<1>5. ASSUME NEW x \in CacheKeys
      PROVE  Owed'[x] = IF x = k THEN r ELSE IF x \in lost THEN NoResponse ELSE Owed[x]
  <2>1. Owed'[x] = IF x \in ToSet(lru') /\ stored'[x].left >= 0
                   THEN stored'[x].resp ELSE NoResponse
    BY <1>2, Members DEF Owed
  <2>2. CASE x = k
    BY <1>1, <1>2, <1>4, <2>1, <2>2
  <2>3. CASE x # k /\ x \in ToSet(lru')
    BY <1>1, <1>2, <1>4, <2>1, <2>3, OwedNow
  <2>4. CASE x # k /\ x \notin ToSet(lru')
    BY <2>1, <2>4
  <2> QED
    BY <2>2, <2>3, <2>4
<1> HIDE DEF lost
<1>6. Owed' = [Forgetful!Forgetting(lost) EXCEPT ![k] = r]
  <2> DEFINE f == Forgetful!Forgetting(lost)
  <2>1. f = [x \in CacheKeys |-> IF x \in lost THEN NoResponse ELSE Owed[x]]
    BY DEF Forgetful!Forgetting
  <2> HIDE DEF f
  <2>2. [f EXCEPT ![k] = r]
          = [x \in CacheKeys |-> IF x = k THEN r
                                ELSE IF x \in lost THEN NoResponse ELSE Owed[x]]
    BY <2>1
  <2>3. Owed' = [x \in CacheKeys |-> Owed'[x]]
    BY DEF Owed
  <2> QED
    BY <1>5, <2>2, <2>3 DEF f
<1>7. lost \in SUBSET CacheKeys
  BY DEF lost
<1> QED
  BY <1>1, <1>6, <1>7 DEF Forgetful!Store

(* Time makes the cache forget what has come to its end. *)
LEMMA TickForgets ==
  ASSUME CacheInv, CacheInv', CacheTick
  PROVE  \E lost \in SUBSET CacheKeys : Forgetful!Forget(lost)
<1> DEFINE lost == {x \in CacheKeys : ~(stored'[x].left >= 0)}
<1>1. stored' = [x \in CacheKeys |-> Less(stored[x])] /\ UNCHANGED <<lru, answer>>
  BY DEF CacheTick, Less
<1>2. ASSUME NEW x \in CacheKeys
      PROVE  Owed'[x] = IF x \in lost THEN NoResponse ELSE Owed[x]
  <2>1. /\ stored'[x] = Less(stored[x]) /\ stored'[x].resp = stored[x].resp
        /\ stored'[x].left >= 0 => stored[x].left >= 0
    BY <1>1, Ageing DEF CacheInv, Holds
  <2>2. Owed'[x] = IF Contains(lru, x) /\ stored'[x].left >= 0
                   THEN stored'[x].resp ELSE NoResponse
    BY <1>1 DEF Owed
  <2> QED
    BY <2>1, <2>2, OwedNow
<1> HIDE DEF lost
<1>3. Owed' = [x \in CacheKeys |-> Owed'[x]]
  BY DEF Owed
<1>4. Owed' = Forgetful!Forgetting(lost)
  BY <1>2, <1>3 DEF Forgetful!Forgetting
<1>5. lost \in SUBSET CacheKeys
  BY DEF lost
<1> QED
  BY <1>1, <1>4, <1>5 DEF Forgetful!Forget

(* Every step of the cache is one ForgetfulCache allows, or changes        *)
(* nothing it can see.                                                     *)
LEMMA CacheForgets ==
  CacheInv /\ CacheInv' /\ [CacheNext]_cacheVars => [Forgetful!Next]_<<Owed, answer>>
<1> SUFFICES ASSUME CacheInv, CacheInv', [CacheNext]_cacheVars
             PROVE  [Forgetful!Next]_<<Owed, answer>>
  OBVIOUS
<1>1. CASE CacheTick
  BY <1>1, TickForgets DEF Forgetful!Next
<1>2. ASSUME NEW k \in CacheKeys, Miss(k) \/ GetExpired(k) \/ Hit(k)
      PROVE  Forgetful!Next
  BY <1>2, GetsLookUp DEF Forgetful!Next
<1>3. ASSUME NEW k \in CacheKeys, NEW r \in Responses, NEW ttl \in 0..MaxTtl, Set(k, r, ttl)
      PROVE  Forgetful!Next
  BY <1>3, SetStores DEF Forgetful!Next
<1>4. CASE UNCHANGED cacheVars
  BY <1>4 DEF cacheVars, Owed
<1> QED
  BY <1>1, <1>2, <1>3, <1>4 DEF CacheNext

(* MemoryCache implements what Gateway.invoke relies on: an answer is what *)
(* was stored last under that very key and has not come to its end, and a  *)
(* response that is still in the cache is served to its end.               *)
THEOREM CacheIsForgetful == CacheSpec => CacheImplements
  BY InitForgets, CacheForgets, CacheInvariance, PTL
     DEF CacheSpec, CacheImplements, Forgetful!Spec
----------------------------------------------------------------------------
(* The rate limiter.  What a request is made of. *)
LEMMA RequestParts ==
  ASSUME NEW r \in Requests
  PROVE  /\ r.client \in Clients /\ r.via \in Ways[r.client]
         /\ r.via \in Seq(Trusted) /\ r.earlier \in Seq(Clients)
<1>1. PICK c \in Clients : r \in [client : {c}, via : Ways[c], earlier : Earlier, ask : Asks[c]]
  BY DEF Requests
<1>2. r.client = c /\ r.via \in Ways[c] /\ r.earlier \in Earlier
  BY <1>1
<1> QED
  BY <1>2, LimiterAssumption

(* The hops are addresses.  Of a request that came through proxies they    *)
(* end with the client's and those of all its proxies but the last.        *)
LEMMA HopsProperties ==
  ASSUME NEW r \in Requests
  PROVE  /\ Peer(r) \in Clients \cup Trusted
         /\ r.via = <<>> => Peer(r) = r.client
         /\ r.via # <<>> => Peer(r) \in Trusted
         /\ Hops(r) \in Seq(Clients \cup Trusted)
         /\ r.via # <<>> =>
              \E p \in 1..Len(Hops(r)) :
                /\ Hops(r)[p] = r.client
                /\ \A i \in 1..Len(Hops(r)) : i > p => Hops(r)[i] \in Trusted
<1>1. /\ r.client \in Clients /\ r.via \in Seq(Trusted) /\ r.earlier \in Seq(Clients)
  BY RequestParts
<1>2. CASE r.via = <<>>
  <2>1. Peer(r) = r.client /\ Hops(r) = r.earlier
    BY <1>2 DEF Peer, Hops
  <2>2. r.earlier \in Seq(Clients \cup Trusted)
    BY <1>1
  <2> QED
    BY <1>1, <1>2, <2>1, <2>2
<1>3. CASE r.via # <<>>
  <2> DEFINE e == r.earlier
             f == Front(r.via)
  <2>1. Len(r.via) \in 1..Len(r.via) /\ Peer(r) = r.via[Len(r.via)]
    BY <1>1, <1>3 DEF Peer, Last
  <2>2. Peer(r) \in Trusted
    BY <1>1, <2>1
  <2>3. f \in Seq(Trusted)
    <3>1. \A i \in 1..(Len(r.via) - 1) : r.via[i] \in Trusted
      BY <1>1
    <3> QED
      BY <1>1, <3>1, SubSeqProperties DEF Front
  <2>4. e \in Seq(Clients \cup Trusted) /\ f \in Seq(Clients \cup Trusted)
        /\ <<r.client>> \in Seq(Clients \cup Trusted) /\ Len(<<r.client>>) = 1
        /\ Len(e) \in Nat /\ Len(f) \in Nat /\ <<r.client>>[1] = r.client
    BY <1>1, <2>3
  <2>5. Hops(r) = (e \o <<r.client>>) \o f
    BY <1>3 DEF Hops
  <2> HIDE DEF e, f
  <2> DEFINE a == e \o <<r.client>>
  <2>6. /\ a \in Seq(Clients \cup Trusted) /\ Len(a) = Len(e) + 1
        /\ a[Len(e) + 1] = r.client
    BY <2>4, ConcatProperties
  <2> HIDE DEF a
  <2>7. /\ a \o f \in Seq(Clients \cup Trusted) /\ Len(a \o f) = Len(a) + Len(f)
        /\ \A i \in 1..(Len(a) + Len(f)) :
             (a \o f)[i] = IF i <= Len(a) THEN a[i] ELSE f[i - Len(a)]
    BY <2>4, <2>6, ConcatProperties
  <2>8. Hops(r) = a \o f
    BY <2>5 DEF a
  <2>9. Len(e) + 1 \in 1..Len(Hops(r)) /\ Hops(r)[Len(e) + 1] = r.client
    BY <2>4, <2>6, <2>7, <2>8
  <2>10. ASSUME NEW i \in 1..Len(Hops(r)), i > Len(e) + 1 PROVE Hops(r)[i] \in Trusted
    <3>1. i - Len(a) \in 1..Len(f) /\ Hops(r)[i] = f[i - Len(a)]
      BY <2>4, <2>6, <2>7, <2>8, <2>10
    <3> QED
      BY <2>3, <3>1
  <2> QED
    BY <1>3, <2>2, <2>7, <2>8, <2>9, <2>10
<1> QED
  BY <1>2, <1>3

(* A request is limited under the address of a client or a proxy. *)
LEMMA KeyTyped ==
  ASSUME NEW r \in Requests
  PROVE  RateLimitKey(r) \in Keys
<1> DEFINE hops == Hops(r)
           untrusted == {i \in DOMAIN hops : hops[i] \notin Trusted}
<1>1. hops \in Seq(Clients \cup Trusted) /\ Peer(r) \in Clients \cup Trusted
  BY HopsProperties
<1> HIDE DEF hops
<1>2. CASE TrustProxy /\ Peer(r) \in Trusted /\ untrusted # {}
  <2>1. untrusted \in SUBSET Nat /\ \A i \in untrusted : i <= Len(hops)
    BY <1>1
  <2>2. \E i \in untrusted : \A j \in untrusted : j <= i
    <3>1. Len(hops) \in Nat /\ untrusted # {}
      BY <1>1, <1>2
    <3> HIDE DEF untrusted
    <3> QED
      BY <2>1, <3>1, GreatestNumber
  <2> DEFINE last == CHOOSE i \in untrusted : \A j \in untrusted : j <= i
  <2>3. last \in untrusted
    BY <2>2
  <2> HIDE DEF last
  <2>4. hops[last] \in Clients \cup Trusted
    BY <1>1, <2>3
  <2>5. RateLimitKey(r) = <<"xff", hops[last]>>
    BY <1>2 DEF RateLimitKey, hops, last
  <2> QED
    BY <2>4, <2>5 DEF Keys
<1>3. CASE ~(TrustProxy /\ Peer(r) \in Trusted /\ untrusted # {})
  <2>1. RateLimitKey(r) = <<"peer", Peer(r)>>
    BY <1>3 DEF RateLimitKey, hops
  <2> QED
    BY <1>1, <2>1 DEF Keys
<1> QED
  BY <1>2, <1>3
----------------------------------------------------------------------------
(* The ages that are left once the old ones have gone: the same, counted   *)
(* from the youngest, and all that are not old.                            *)
FromEnd(s, j) == s[Len(s) + 1 - j]

Sorted(s) == \A i, j \in 1..Len(s) : i < j => s[j] <= s[i]

(* Of a deque in order only older stamps are dropped, and those from its   *)
(* front: what is left are its youngest.                                   *)
LEMMA FreshAges ==
  ASSUME NEW a \in Seq(Ages), NEW f, f = Fresh(a)
  PROVE  /\ f \in Seq(Ages) /\ Len(f) <= Len(a)
         /\ \A j \in 1..Len(f) : FromEnd(f, j) = FromEnd(a, j)
         /\ \A j \in 1..Len(a) : FromEnd(a, j) <= Window => j <= Len(f)
         /\ Sorted(a) => Sorted(f) /\ \A i \in 1..Len(f) : f[i] <= Window
<1> DEFINE live == {i \in DOMAIN a : a[i] <= Window}
<1>0. Len(a) \in Nat /\ DOMAIN a = 1..Len(a) /\ Window \in Nat
  BY LimiterAssumption
<1>1. \A i \in 1..Len(a) : a[i] \in Int
  BY <1>0 DEF Ages
<1>2. CASE live = {}
  <2>1. f = <<>> /\ Len(f) = 0
    BY <1>2 DEF Fresh
  <2>2. \A j \in 1..Len(a) : Len(a) + 1 - j \in 1..Len(a)
    BY <1>0
  <2>3. \A j \in 1..Len(a) : ~(FromEnd(a, j) <= Window)
    BY <1>0, <1>2, <2>2 DEF FromEnd
  <2> QED
    BY <1>0, <2>1, <2>3 DEF Sorted
<1>3. CASE live # {}
  <2>1. live \in SUBSET Nat
    BY <1>0
  <2>2. Min(live) \in live /\ \A i \in live : Min(live) <= i
    BY <1>3, <2>1, LeastNumber
  <2>3. PICK m \in 1..Len(a) : m = Min(live) /\ a[m] <= Window
                               /\ \A i \in 1..Len(a) : a[i] <= Window => m <= i
    BY <1>0, <2>2
  <2>4. f = SubSeq(a, m, Len(a))
    BY <1>3, <2>3 DEF Fresh
  <2>5. \A i \in m..Len(a) : a[i] \in Ages
    BY <1>0
  <2>6. /\ f \in Seq(Ages) /\ Len(f) = Len(a) - m + 1
        /\ \A i \in 1..(Len(a) - m + 1) : f[i] = a[m + i - 1]
    <3>1. /\ SubSeq(a, m, Len(a)) \in Seq(Ages)
          /\ Len(SubSeq(a, m, Len(a))) = IF m <= Len(a) THEN Len(a) - m + 1 ELSE 0
          /\ \A i \in 1..(Len(a) - m + 1) : SubSeq(a, m, Len(a))[i] = a[m + i - 1]
      BY <1>0, <2>5, SubSeqProperties
    <3>2. m <= Len(a)
      BY <1>0
    <3> QED
      BY <2>4, <3>1, <3>2
  <2>7. \A j \in 1..Len(f) : FromEnd(f, j) = FromEnd(a, j)
    <3> SUFFICES ASSUME NEW j \in 1..Len(f) PROVE FromEnd(f, j) = FromEnd(a, j)
      OBVIOUS
    <3>1. Len(f) + 1 - j \in 1..(Len(a) - m + 1) /\ m + (Len(f) + 1 - j) - 1 = Len(a) + 1 - j
      <4>1. Len(f) = Len(a) - m + 1 /\ j \in 1..Len(f)
        BY <2>6
      <4> QED
        BY <1>0, <4>1
    <3> QED
      BY <2>6, <3>1 DEF FromEnd
  <2>8. ASSUME NEW j \in 1..Len(a), FromEnd(a, j) <= Window PROVE j <= Len(f)
    <3>1. Len(a) + 1 - j \in 1..Len(a)
      BY <1>0
    <3>2. m <= Len(a) + 1 - j
      BY <2>3, <2>8, <3>1 DEF FromEnd
    <3> QED
      BY <1>0, <2>6, <3>2
  <2>9. ASSUME Sorted(a) PROVE Sorted(f) /\ \A i \in 1..Len(f) : f[i] <= Window
    <3>1. \A i \in 1..Len(f) : m + i - 1 \in 1..Len(a) /\ f[i] = a[m + i - 1]
      BY <1>0, <2>3, <2>6
    <3>2. ASSUME NEW i \in 1..Len(f) PROVE f[i] <= Window
      <4>1. CASE i = 1
        BY <2>3, <3>1, <4>1
      <4>2. CASE i # 1
        <5>1. m < m + i - 1
          BY <4>2
        <5>2. a[m + i - 1] <= a[m]
          BY <2>3, <2>9, <3>1, <5>1 DEF Sorted
        <5>3. a[m + i - 1] \in Int /\ a[m] \in Int
          BY <1>1, <2>3, <3>1
        <5> QED
          BY <1>0, <2>3, <3>1, <5>2, <5>3
      <4> QED
        BY <4>1, <4>2
    <3>3. ASSUME NEW i \in 1..Len(f), NEW j \in 1..Len(f), i < j PROVE f[j] <= f[i]
      <4>1. m + i - 1 < m + j - 1
        BY <3>3
      <4> QED
        BY <2>9, <3>1, <4>1 DEF Sorted
    <3> QED
      BY <3>2, <3>3 DEF Sorted
  <2>10. Len(f) <= Len(a)
    BY <1>0, <2>3, <2>6
  <2> QED
    BY <2>6, <2>7, <2>8, <2>9, <2>10
<1> QED
  BY <1>2, <1>3

(* A request that is entered is the youngest of its deque. *)
LEMMA YoungestAdded ==
  ASSUME NEW a \in Seq(Ages), NEW q, q = Append(a, 0)
  PROVE  /\ q \in Seq(Ages) /\ Len(q) = Len(a) + 1
         /\ FromEnd(q, 1) = 0
         /\ \A j \in 1..Len(a) : FromEnd(q, j + 1) = FromEnd(a, j)
         /\ q[Len(a) + 1] = 0 /\ \A i \in 1..Len(a) : q[i] = a[i]
         /\ Sorted(a) => Sorted(q)
<1>0. Len(a) \in Nat /\ 0 \in Ages /\ Window \in Nat
  BY LimiterAssumption DEF Ages
<1>1. /\ q \in Seq(Ages) /\ Len(q) = Len(a) + 1 /\ q[Len(a) + 1] = 0
      /\ \A i \in 1..Len(a) : q[i] = a[i]
  BY <1>0, AppendProperties
<1>2. FromEnd(q, 1) = 0
  BY <1>0, <1>1 DEF FromEnd
<1>3. ASSUME NEW j \in 1..Len(a) PROVE FromEnd(q, j + 1) = FromEnd(a, j)
  <2>1. Len(q) + 1 - (j + 1) = Len(a) + 1 - j /\ Len(a) + 1 - j \in 1..Len(a)
    BY <1>0, <1>1
  <2> QED
    BY <1>1, <2>1 DEF FromEnd
<1>4. ASSUME Sorted(a), NEW i \in 1..Len(q), NEW j \in 1..Len(q), i < j PROVE q[j] <= q[i]
  <2>1. i \in 1..Len(a) /\ a[i] \in Nat
    BY <1>0, <1>1, <1>4 DEF Ages
  <2>2. CASE j \in 1..Len(a)
    BY <1>1, <1>4, <2>1, <2>2 DEF Sorted
  <2>3. CASE j = Len(a) + 1
    BY <1>1, <2>1, <2>3
  <2> QED
    BY <1>0, <1>1, <2>2, <2>3
<1> QED
  BY <1>1, <1>2, <1>3, <1>4 DEF Sorted

(* Without its first element. *)
LEMMA OldestDropped ==
  ASSUME NEW a \in Seq(Ages), a # <<>>, NEW q, q = Tail(a)
  PROVE  /\ q \in Seq(Ages) /\ Len(q) = Len(a) - 1
         /\ \A j \in 1..Len(q) : FromEnd(q, j) = FromEnd(a, j)
         /\ \A i \in 1..Len(q) : i + 1 \in 1..Len(a) /\ q[i] = a[i + 1]
         /\ Sorted(a) => Sorted(q)
<1>0. Len(a) \in Nat /\ Len(a) >= 1
  OBVIOUS
<1>1. /\ q \in Seq(Ages) /\ Len(q) = Len(a) - 1
      /\ \A i \in 1..(Len(a) - 1) : q[i] = a[i + 1]
  BY HeadTailProperties
<1>2. ASSUME NEW j \in 1..Len(q) PROVE FromEnd(q, j) = FromEnd(a, j)
  <2>1. /\ Len(q) + 1 - j \in 1..(Len(a) - 1)
        /\ (Len(q) + 1 - j) + 1 = Len(a) + 1 - j
    BY <1>0, <1>1
  <2> QED
    BY <1>1, <2>1 DEF FromEnd
<1>3. \A i \in 1..Len(q) : i + 1 \in 1..Len(a) /\ q[i] = a[i + 1]
  BY <1>0, <1>1
<1>4. ASSUME Sorted(a), NEW i \in 1..Len(q), NEW j \in 1..Len(q), i < j PROVE q[j] <= q[i]
  <2>1. i + 1 < j + 1
    BY <1>4
  <2> QED
    BY <1>3, <1>4, <2>1 DEF Sorted
<1> QED
  BY <1>1, <1>2, <1>3, <1>4 DEF Sorted

(* A tick makes every entry older, in step. *)
Aged(a) == [i \in DOMAIN a |-> Older(a[i])]

(* Ageing keeps the order of two ages.                                     *)
LEMMA OlderIsMonotone ==
  ASSUME NEW x \in Ages, NEW y \in Ages
  PROVE  /\ Older(x) \in Ages
         /\ x <= y => Older(x) <= Older(y)
         /\ Older(x) <= Window => x <= Window
  BY LimiterAssumption DEF Older, Ages

(* A deque whose stamps age together stays in order.                       *)
LEMMA AgedTogether ==
  ASSUME NEW a \in Seq(Ages), NEW q, q = Aged(a)
  PROVE  /\ q \in Seq(Ages) /\ Len(q) = Len(a)
         /\ \A i \in 1..Len(a) : q[i] = Older(a[i])
         /\ \A j \in 1..Len(a) : /\ FromEnd(a, j) \in Ages
                                 /\ FromEnd(q, j) = Older(FromEnd(a, j))
         /\ Sorted(a) => Sorted(q)
<1>0. Len(a) \in Nat /\ DOMAIN a = 1..Len(a) /\ \A i \in 1..Len(a) : a[i] \in Ages
  OBVIOUS
<1>1. \A i \in 1..Len(a) : Older(a[i]) \in Ages
  BY <1>0, OlderIsMonotone
<1>2. q \in [1..Len(a) -> Ages] /\ \A i \in 1..Len(a) : q[i] = Older(a[i])
  BY <1>0, <1>1 DEF Aged
<1>3. q \in Seq(Ages) /\ Len(q) = Len(a)
  BY <1>0, <1>2
<1>4. ASSUME NEW j \in 1..Len(a)
      PROVE  FromEnd(a, j) \in Ages /\ FromEnd(q, j) = Older(FromEnd(a, j))
  <2>1. Len(a) + 1 - j \in 1..Len(a)
    BY <1>0
  <2> QED
    BY <1>0, <1>2, <1>3, <2>1 DEF FromEnd
<1>5. ASSUME Sorted(a), NEW i \in 1..Len(a), NEW j \in 1..Len(a), i < j PROVE q[j] <= q[i]
  <2>1. a[j] <= a[i] /\ a[i] \in Ages /\ a[j] \in Ages
    BY <1>0, <1>5 DEF Sorted
  <2> QED
    BY <1>2, <2>1, OlderIsMonotone
<1> QED
  BY <1>2, <1>3, <1>4, <1>5 DEF Sorted
----------------------------------------------------------------------------
(* The keys kept of a table when a request enters it. *)
KeptBy(t, k) == IF Limited(t, k) THEN Touched(order[t], k)
                ELSE Kept(Touched(order[t], k))

(* The key of the request is kept; if one is not, it is the first of the   *)
(* others, and the table is full.                                          *)
LEMMA KeptKeys ==
  ASSUME NEW S, NEW o \in Order(S), NEW k \in S, Len(o) <= MaxClients,
         NEW r, r = Touched(o, k), NEW q, q = Kept(r)
  PROVE  /\ q \in Order(S) /\ Len(q) <= MaxClients
         /\ k \in ToSet(q) /\ ToSet(q) \subseteq ToSet(o) \cup {k}
         /\ \/ q = r
            \/ /\ q = Tail(r) /\ r # <<>> /\ r \in Order(S) /\ r[1] # k
               /\ Len(q) = MaxClients /\ Len(r) = MaxClients + 1
               /\ ToSet(q) = ToSet(r) \ {r[1]}
<1>0. MaxClients \in Nat /\ MaxClients >= 1 /\ Len(o) \in Nat
  BY LimiterAssumption DEF Order
<1>1. /\ r \in Order(S) /\ r # <<>> /\ ToSet(r) = ToSet(o) \cup {k}
      /\ Len(r) = IF k \in ToSet(o) THEN Len(o) ELSE Len(o) + 1
      /\ \A i, j \in 1..Len(r) : i < j => r[i] # k
  BY UsedOrder DEF Used, Touched
<1>2. CASE Len(r) <= MaxClients
  <2>1. q = r
    BY <1>0, <1>1, <1>2 DEF Kept
  <2> QED
    BY <1>1, <1>2, <2>1
<1>3. CASE ~(Len(r) <= MaxClients)
  <2>1. Len(r) = MaxClients + 1 /\ q = Tail(r)
    BY <1>0, <1>1, <1>3 DEF Kept
  <2>2. /\ q \in Order(S) /\ ToSet(q) = ToSet(r) \ {r[1]} /\ Len(q) = Len(r) - 1
    BY <1>1, <2>1, OldestEvicted
  <2>3. 1 \in 1..Len(r) /\ 2 \in 1..Len(r)
    BY <1>0, <2>1
  <2>4. r[1] # k
    BY <1>1, <2>3
  <2> QED
    BY <1>0, <1>1, <2>1, <2>2, <2>4
<1> QED
  BY <1>2, <1>3

(* What a request changes in its table. *)
LEMMA Entered ==
  ASSUME LimiterTypeOK, NEW t \in Tables, NEW k \in Keys, Enter(t, k)
  PROVE  /\ order' \in [Tables -> Seq(Keys)]
         /\ bucket' \in [Tables -> [Keys -> Seq(Ages)]]
         /\ \A u \in Tables : u # t => order'[u] = order[u] /\ bucket'[u] = bucket[u]
         /\ order'[t] = KeptBy(t, k) /\ order'[t] \in Order(Keys)
         /\ Len(order'[t]) <= MaxClients /\ k \in ToSet(order'[t])
         /\ ToSet(order'[t]) \subseteq ToSet(order[t]) \cup {k}
         /\ bucket'[t][k] = IF Limited(t, k) THEN Fresh(bucket[t][k])
                            ELSE Append(Fresh(bucket[t][k]), 0)
         /\ \A j \in Keys : j # k => bucket'[t][j] = IF j \in ToSet(order'[t])
                                                    THEN bucket[t][j] ELSE <<>>
         /\ bucket'[t][k] # <<>>
<1> DEFINE q == KeptBy(t, k)
           r == Touched(order[t], k)
           fresh == Fresh(bucket[t][k])
<1>1. /\ order[t] \in Order(Keys) /\ Len(order[t]) <= MaxClients /\ Len(order[t]) \in Nat
      /\ bucket[t][k] \in Seq(Ages) /\ bucket[t] \in [Keys -> Seq(Ages)]
      /\ bucket \in [Tables -> [Keys -> Seq(Ages)]] /\ order \in [Tables -> Seq(Keys)]
      /\ \A j \in Keys : bucket[t][j] # <<>> <=> j \in ToSet(order[t])
  BY DEF LimiterTypeOK, Order
<1>2. fresh \in Seq(Ages) /\ Len(fresh) \in Nat /\ Len(fresh) <= Len(bucket[t][k])
  <2>1. fresh \in Seq(Ages) /\ Len(fresh) <= Len(bucket[t][k])
    BY <1>1, FreshAges
  <2> QED
    BY <2>1
<1>3. Append(fresh, 0) \in Seq(Ages) /\ Append(fresh, 0) # <<>>
  <2>1. Append(fresh, 0) \in Seq(Ages) /\ Len(Append(fresh, 0)) = Len(fresh) + 1
    <3> HIDE DEF fresh
    <3> QED
      BY <1>2, YoungestAdded
  <2> DEFINE q1 == Append(fresh, 0)
  <2>2. q1 \in Seq(Ages) /\ Len(q1) # 0
    <3> HIDE DEF fresh
    <3> QED
      BY <1>2, <2>1
  <2>3. q1 # <<>>
    <3> HIDE DEF q1
    <3> QED
      BY <2>2
  <2> QED
    BY <2>2, <2>3
<1>4. Limited(t, k) => fresh # <<>> /\ k \in ToSet(order[t])
  <2>1. Limited(t, k) => Len(fresh) >= 1
    BY <1>2, LimiterAssumption DEF Limited
  <2>2. Limited(t, k) => fresh # <<>> /\ bucket[t][k] # <<>>
    BY <1>1, <1>2, <2>1
  <2> QED
    BY <1>1, <2>2
<1>5. /\ q \in Order(Keys) /\ Len(q) <= MaxClients
      /\ k \in ToSet(q) /\ ToSet(q) \subseteq ToSet(order[t]) \cup {k}
  <2>1. CASE Limited(t, k)
    <3>1. /\ r \in Order(Keys) /\ ToSet(r) = ToSet(order[t]) \cup {k}
          /\ Len(r) = IF k \in ToSet(order[t]) THEN Len(order[t]) ELSE Len(order[t]) + 1
      BY <1>1, UsedOrder DEF Used, Touched
    <3> QED
      BY <1>1, <1>4, <2>1, <3>1 DEF KeptBy
  <2>2. CASE ~Limited(t, k)
    <3>1. q = Kept(r)
      BY <2>2 DEF KeptBy
    <3> QED
      BY <1>1, <3>1, KeptKeys
  <2> QED
    BY <2>1, <2>2
<1>6. /\ order' = [order EXCEPT ![t] = q]
      /\ bucket' = [bucket EXCEPT ![t] = [j \in Keys |->
                      IF ~Contains(q, j) THEN <<>>
                      ELSE IF j # k THEN bucket[t][j]
                      ELSE IF Limited(t, k) THEN fresh ELSE Append(fresh, 0)]]
  BY <1>1 DEF Enter, KeptBy
<1> HIDE DEF q, fresh, r
<1>7. q \in Seq(Keys) /\ \A j : Contains(q, j) <=> j \in ToSet(q)
  BY <1>5, Members DEF Order
<1>8. /\ order'[t] = q /\ order' \in [Tables -> Seq(Keys)]
      /\ \A u \in Tables : u # t => order'[u] = order[u] /\ bucket'[u] = bucket[u]
  BY <1>1, <1>6, <1>7
<1> DEFINE new == [j \in Keys |-> IF j \notin ToSet(q) THEN <<>>
                                  ELSE IF j # k THEN bucket[t][j]
                                  ELSE IF Limited(t, k) THEN fresh ELSE Append(fresh, 0)]
<1>9. bucket' = [bucket EXCEPT ![t] = new]
  BY <1>6, <1>7
<1>10. <<>> \in Seq(Ages)
  OBVIOUS
<1>11. new \in [Keys -> Seq(Ages)]
  BY <1>1, <1>2, <1>3, <1>10
<1>12. /\ new[k] = IF Limited(t, k) THEN fresh ELSE Append(fresh, 0)
       /\ \A j \in Keys : j # k => new[j] = IF j \in ToSet(q) THEN bucket[t][j] ELSE <<>>
  BY <1>5
<1> HIDE DEF new
<1>13. bucket'[t] = new /\ bucket' \in [Tables -> [Keys -> Seq(Ages)]]
  BY <1>1, <1>9, <1>11
<1> QED
  BY <1>3, <1>4, <1>5, <1>8, <1>12, <1>13 DEF q, fresh

(* ... and in what is known of its client. *)
LEMMA Remembered ==
  ASSUME LimiterTypeOK, NEW t \in Tables, NEW c \in Clients, NEW lim, Remember(t, c, lim)
  PROVE  /\ seen' = [seen EXCEPT ![t][c] = 0] /\ seen' \in [Tables -> [Clients -> Ages]]
         /\ admitted' \in [Tables -> [Clients -> Seq(Ages)]]
         /\ lim => admitted' = admitted
         /\ \A u \in Tables : \A d \in Clients :
              (u # t \/ d # c) => admitted'[u][d] = admitted[u][d]
         /\ ~lim => admitted'[t][c] =
              LET a == Append(admitted[t][c], 0) IN IF Len(a) > Limit + 1 THEN Tail(a) ELSE a
<1> DEFINE a == Append(admitted[t][c], 0)
           new == IF Len(a) > Limit + 1 THEN Tail(a) ELSE a
<1>1. /\ admitted[t][c] \in Seq(Ages) /\ admitted \in [Tables -> [Clients -> Seq(Ages)]]
      /\ seen \in [Tables -> [Clients -> Ages]] /\ 0 \in Ages /\ Limit \in Nat
  BY LimiterAssumption DEF LimiterTypeOK, Ages
<1>2. a \in Seq(Ages) /\ Len(a) = Len(admitted[t][c]) + 1
  BY <1>1, YoungestAdded
<1>3. new \in Seq(Ages)
  <2>1. a # <<>>
    <3>1. Len(admitted[t][c]) \in Nat
      BY <1>1
    <3> HIDE DEF a
    <3> QED
      BY <1>2, <3>1
  <2>2. Tail(a) \in Seq(Ages)
    BY <1>2, <2>1, OldestDropped
  <2> QED
    BY <1>2, <2>2
<1>4. /\ seen' = [seen EXCEPT ![t][c] = 0]
      /\ admitted' = IF lim THEN admitted ELSE [admitted EXCEPT ![t][c] = new]
  BY DEF Remember
<1> HIDE DEF new
<1>5. seen' \in [Tables -> [Clients -> Ages]]
  BY <1>1, <1>4
<1>6. /\ admitted' \in [Tables -> [Clients -> Seq(Ages)]]
      /\ \A u \in Tables : \A d \in Clients :
              (u # t \/ d # c) => admitted'[u][d] = admitted[u][d]
      /\ ~lim => admitted'[t][c] = new
  <2>1. CASE lim
    BY <1>1, <1>4, <2>1
  <2>2. CASE ~lim
    BY <1>1, <1>3, <1>4, <2>2
  <2> QED
    BY <2>1, <2>2
<1> QED
  BY <1>4, <1>5, <1>6 DEF new

(* A request and what it does to a table and to its client, together. *)
LEMMA EntryTyped ==
  ASSUME LimiterTypeOK, NEW t \in Tables, NEW k \in Keys, NEW c \in Clients, NEW lim,
         Enter(t, k), Remember(t, c, lim), refused' \in Clients \cup {None}
  PROVE  LimiterTypeOK'
<1>1. /\ order' \in [Tables -> Seq(Keys)]
      /\ bucket' \in [Tables -> [Keys -> Seq(Ages)]]
      /\ \A u \in Tables : u # t => order'[u] = order[u] /\ bucket'[u] = bucket[u]
      /\ order'[t] \in Order(Keys)
      /\ Len(order'[t]) <= MaxClients /\ k \in ToSet(order'[t])
      /\ ToSet(order'[t]) \subseteq ToSet(order[t]) \cup {k}
      /\ \A j \in Keys : j # k => bucket'[t][j] = IF j \in ToSet(order'[t])
                                                  THEN bucket[t][j] ELSE <<>>
      /\ bucket'[t][k] # <<>>
  BY Entered
<1>2. seen' \in [Tables -> [Clients -> Ages]] /\ admitted' \in [Tables -> [Clients -> Seq(Ages)]]
  BY Remembered
<1>3. ASSUME NEW u \in Tables
      PROVE  /\ IsInjective(order'[u]) /\ Len(order'[u]) <= MaxClients
             /\ \A j \in Keys : bucket'[u][j] # <<>> <=> j \in ToSet(order'[u])
  <2>1. CASE u # t
    <3>1. order'[u] = order[u] /\ bucket'[u] = bucket[u]
      BY <1>1, <2>1
    <3>2. /\ IsInjective(order[u]) /\ Len(order[u]) <= MaxClients
          /\ \A j \in Keys : bucket[u][j] # <<>> <=> j \in ToSet(order[u])
      BY DEF LimiterTypeOK
    <3> QED
      BY <3>1, <3>2
  <2>2. CASE u = t
    <3>1. IsInjective(order'[u]) /\ Len(order'[u]) <= MaxClients
      BY <1>1, <2>2 DEF Order
    <3>2. \A j \in Keys : bucket[t][j] # <<>> <=> j \in ToSet(order[t])
      BY DEF LimiterTypeOK
    <3>3. ASSUME NEW j \in Keys PROVE bucket'[u][j] # <<>> <=> j \in ToSet(order'[u])
      <4>1. CASE j = k
        BY <1>1, <2>2, <4>1
      <4>2. CASE j # k
        BY <1>1, <2>2, <3>2, <4>2
      <4> QED
        BY <4>1, <4>2
    <3> QED
      BY <3>1, <3>3
  <2> QED
    BY <2>1, <2>2
<1> QED
  BY <1>1, <1>2, <1>3 DEF LimiterTypeOK

(* A tick changes no key and no number of entries. *)
LEMMA TickTyped ==
  ASSUME LimiterTypeOK, TickWindow
  PROVE  /\ LimiterTypeOK' /\ order' = order
         /\ \A t \in Tables : \A k \in Keys : bucket'[t][k] = Aged(bucket[t][k])
         /\ \A t \in Tables : \A c \in Clients :
              /\ admitted'[t][c] = Fresh(Aged(admitted[t][c]))
              /\ seen'[t][c] = Older(seen[t][c])
<1>1. /\ bucket' = [t \in Tables |-> [k \in Keys |-> Aged(bucket[t][k])]]
      /\ admitted' = [t \in Tables |-> [c \in Clients |-> Fresh(Aged(admitted[t][c]))]]
      /\ seen' = [t \in Tables |-> [c \in Clients |-> Older(seen[t][c])]]
      /\ refused' = None /\ order' = order
  BY DEF TickWindow, Aged
<1>2. \A t \in Tables : \A k \in Keys :
        /\ Aged(bucket[t][k]) \in Seq(Ages)
        /\ Aged(bucket[t][k]) # <<>> <=> bucket[t][k] # <<>>
  <2> SUFFICES ASSUME NEW t \in Tables, NEW k \in Keys
               PROVE  /\ Aged(bucket[t][k]) \in Seq(Ages)
                      /\ Aged(bucket[t][k]) # <<>> <=> bucket[t][k] # <<>>
    OBVIOUS
  <2>1. bucket[t][k] \in Seq(Ages)
    BY DEF LimiterTypeOK
  <2>2. /\ Aged(bucket[t][k]) \in Seq(Ages)
        /\ Len(Aged(bucket[t][k])) = Len(bucket[t][k])
    BY <2>1, AgedTogether
  <2> QED
    BY <2>1, <2>2, EmptySeq
<1>3. \A t \in Tables : \A c \in Clients : Fresh(Aged(admitted[t][c])) \in Seq(Ages)
  <2> SUFFICES ASSUME NEW t \in Tables, NEW c \in Clients
               PROVE  Fresh(Aged(admitted[t][c])) \in Seq(Ages)
    OBVIOUS
  <2>1. admitted[t][c] \in Seq(Ages)
    BY DEF LimiterTypeOK
  <2>2. Aged(admitted[t][c]) \in Seq(Ages)
    BY <2>1, AgedTogether
  <2> QED
    BY <2>2, FreshAges
<1>4. \A t \in Tables : \A c \in Clients : Older(seen[t][c]) \in Ages
  BY OlderIsMonotone DEF LimiterTypeOK
<1>5. LimiterTypeOK'
  <2>1. /\ order' \in [Tables -> Seq(Keys)]
        /\ \A t \in Tables : IsInjective(order'[t]) /\ Len(order'[t]) <= MaxClients
    BY <1>1 DEF LimiterTypeOK
  <2>2. bucket' \in [Tables -> [Keys -> Seq(Ages)]]
    BY <1>1, <1>2
  <2>3. \A t \in Tables : \A k \in Keys : bucket'[t][k] # <<>> <=> k \in ToSet(order'[t])
    BY <1>1, <1>2 DEF LimiterTypeOK
  <2>4. /\ admitted' \in [Tables -> [Clients -> Seq(Ages)]]
        /\ seen' \in [Tables -> [Clients -> Ages]]
    BY <1>1, <1>3, <1>4
  <2> QED
    BY <1>1, <2>1, <2>2, <2>3, <2>4 DEF LimiterTypeOK
<1> QED
  BY <1>1, <1>5

(* Every step keeps the tables well formed. *)
LEMMA LimiterStepTyped == LimiterTypeOK /\ [LimiterNext]_limiterVars => LimiterTypeOK'
<1> SUFFICES ASSUME LimiterTypeOK, [LimiterNext]_limiterVars PROVE LimiterTypeOK'
  OBVIOUS
<1>1. CASE TickWindow
  BY <1>1, TickTyped
<1>2. CASE BadLength
  BY <1>2 DEF BadLength, LimiterTypeOK
<1>3. ASSUME NEW r \in Requests, Unauthorized(r) PROVE LimiterTypeOK'
  <2>1. RateLimitKey(r) \in Keys /\ r.client \in Clients /\ "auth_failure" \in Tables
    BY KeyTyped, RequestParts DEF Tables
  <2>2. PICK k \in Keys : k = RateLimitKey(r)
    BY <2>1
  <2>3. Enter("auth_failure", k) /\ refused' \in Clients \cup {None}
        /\ Remember("auth_failure", r.client, Limited("auth_failure", k))
    BY <1>3, <2>2 DEF Unauthorized
  <2> QED
    BY <2>1, <2>3, EntryTyped
<1>4. ASSUME NEW r \in Requests, Unlimited(r) PROVE LimiterTypeOK'
  BY <1>4 DEF Unlimited, LimiterTypeOK
<1>5. ASSUME NEW r \in Requests, Limit429(r) PROVE LimiterTypeOK'
  <2>1. RateLimitKey(r) \in Keys /\ r.client \in Clients /\ "request" \in Tables
    BY KeyTyped, RequestParts DEF Tables
  <2>2. PICK k \in Keys : k = RateLimitKey(r)
    BY <2>1
  <2>3. Enter("request", k) /\ refused' \in Clients \cup {None}
        /\ Remember("request", r.client, Limited("request", k))
    BY <1>5, <2>1, <2>2 DEF Limit429
  <2> QED
    BY <2>1, <2>3, EntryTyped
<1>6. CASE UNCHANGED limiterVars
  BY <1>6 DEF limiterVars, LimiterTypeOK
<1> QED
  BY <1>1, <1>2, <1>3, <1>4, <1>5, <1>6 DEF LimiterNext

(* No sequence of requests makes a table hold more clients than allowed,   *)
(* one of them twice, or a client without entries, whatever the headers.   *)
THEOREM LimiterTypeCorrectness == LimiterSpec => []LimiterTypeOK
<1>1. LimiterInit => LimiterTypeOK
  <2> SUFFICES ASSUME LimiterInit PROVE LimiterTypeOK
    OBVIOUS
  <2> USE DEF LimiterInit
  <2>1. <<>> \in Seq(Keys) /\ <<>> \in Seq(Ages) /\ Len(<<>>) = 0
        /\ Window + 1 \in Ages /\ 0 <= MaxClients
    BY LimiterAssumption DEF Ages
  <2>2. IsInjective(<<>>) /\ ToSet(<<>>) = {}
    BY DEF IsInjective, ToSet
  <2>3. \A t \in Tables : order[t] = <<>> /\ \A k \in Keys : bucket[t][k] = <<>>
    OBVIOUS
  <2>4. /\ order \in [Tables -> Seq(Keys)]
        /\ bucket \in [Tables -> [Keys -> Seq(Ages)]]
    BY <2>1
  <2>5. /\ admitted \in [Tables -> [Clients -> Seq(Ages)]]
        /\ seen \in [Tables -> [Clients -> Ages]]
    BY <2>1
  <2> QED
    BY <2>1, <2>2, <2>3, <2>4, <2>5 DEF LimiterTypeOK
<1> QED
  BY <1>1, LimiterStepTyped, PTL DEF LimiterSpec
----------------------------------------------------------------------------
(* Each client comes in one way: from nowhere but its own address, or      *)
(* through trusted proxies every time, whose headers the server trusts.    *)
OneWay ==
  \A c \in Clients : Ways[c] \subseteq {<<>>} \/ (TrustProxy /\ <<>> \notin Ways[c])

KeyOf(c) == <<IF Ways[c] \subseteq {<<>>} THEN "peer" ELSE "xff", c>>

ClientKeys == {KeyOf(c) : c \in Clients}

(* Enough others were seen not longer ago than y. *)
SeenIn(s, y) == {d \in Clients : s[d] <= y}
Crowd(s, c, y) == Cardinality(SeenIn(s, y) \ {c}) >= MaxClients

(* The deque b of a client holds the youngest of the requests a that were  *)
(* let through in this window, all of them unless there was a crowd since. *)
Follows(b, a, s, c) ==
  /\ Len(b) <= Limit
  /\ Sorted(b) /\ Sorted(a)
  /\ \A i \in 1..Len(a) : a[i] <= Window /\ s[c] <= a[i]
  /\ \A j \in 1..Len(b) : j <= Len(a) => FromEnd(b, j) = FromEnd(a, j)
  /\ \A j \in 1..Len(b) : FromEnd(b, j) <= Window => j <= Len(a)
  /\ \A j \in 1..Len(a) : Len(b) < j => Crowd(s, c, FromEnd(a, j))

(* The keys of a table are in the order in which their clients were seen.  *)
InOrderSeen(o, s) == \A i, j \in 1..Len(o) : i < j => s[o[j][2]] <= s[o[i][2]]

TableInv(o, b, a, s) ==
  /\ ToSet(o) \subseteq ClientKeys
  /\ InOrderSeen(o, s)
  /\ IsFiniteSet(SeenIn(s, Window))
  /\ \A c \in Clients : Follows(b[KeyOf(c)], a[c], s, c)

LimiterInv ==
  /\ LimiterTypeOK /\ RefusedOnlyAtLimit
  /\ \A t \in Tables : TableInv(order[t], bucket[t], admitted[t], seen[t])

(* The header of a client's requests ends with its own address, before     *)
(* those of trusted proxies: whatever it sent itself, it has one key.      *)
LEMMA KeyIsTheClients ==
  ASSUME OneWay, NEW r \in Requests
  PROVE  RateLimitKey(r) = KeyOf(r.client)
<1> DEFINE hops == Hops(r)
           untrusted == {i \in DOMAIN hops : hops[i] \notin Trusted}
<1>1. /\ r.client \in Clients /\ r.via \in Ways[r.client] /\ r.client \notin Trusted
  BY RequestParts, LimiterAssumption
<1>2. /\ hops \in Seq(Clients \cup Trusted) /\ Peer(r) \in Clients \cup Trusted
      /\ r.via = <<>> => Peer(r) = r.client
      /\ r.via # <<>> => Peer(r) \in Trusted
      /\ r.via # <<>> =>
           \E p \in 1..Len(hops) : /\ hops[p] = r.client
                                   /\ \A i \in 1..Len(hops) : i > p => hops[i] \in Trusted
  BY HopsProperties
<1> HIDE DEF hops
<1>3. CASE r.via = <<>>
  <2>1. Ways[r.client] \subseteq {<<>>} /\ Peer(r) = r.client
    BY <1>1, <1>2, <1>3 DEF OneWay
  <2>2. RateLimitKey(r) = <<"peer", r.client>>
    BY <1>1, <2>1 DEF RateLimitKey
  <2> QED
    BY <2>1, <2>2 DEF KeyOf
<1>4. CASE r.via # <<>>
  <2>1. ~(Ways[r.client] \subseteq {<<>>}) /\ TrustProxy /\ Peer(r) \in Trusted
    BY <1>1, <1>2, <1>4 DEF OneWay
  <2>2. PICK p \in 1..Len(hops) :
          hops[p] = r.client /\ \A i \in 1..Len(hops) : i > p => hops[i] \in Trusted
    BY <1>2, <1>4
  <2>3. p \in untrusted /\ p \in Nat
    BY <1>1, <1>2, <2>2
  <2>4. \A i \in untrusted : i \in Nat /\ i <= p
    BY <1>2, <2>2
  <2> DEFINE last == CHOOSE i \in untrusted : \A j \in untrusted : j <= i
  <2>5. last \in untrusted /\ \A j \in untrusted : j <= last
    BY <2>3, <2>4
  <2>6. RateLimitKey(r) = <<"xff", hops[last]>>
    BY <2>1, <2>3 DEF RateLimitKey, hops
  <2> HIDE DEF last, untrusted
  <2>7. last = p
    BY <2>3, <2>4, <2>5
  <2> QED
    BY <2>1, <2>2, <2>6, <2>7 DEF KeyOf
<1> QED
  BY <1>3, <1>4

(* No two clients have one key.                                            *)
LEMMA KeyOfProperties ==
  /\ \A c \in Clients : KeyOf(c) \in Keys /\ KeyOf(c)[2] = c /\ KeyOf(c) \in ClientKeys
  /\ \A c, d \in Clients : KeyOf(c) = KeyOf(d) => c = d
  /\ \A k \in ClientKeys : k[2] \in Clients /\ k = KeyOf(k[2])
  /\ ClientKeys \subseteq Keys
<1>1. \A c \in Clients : KeyOf(c) \in Keys /\ KeyOf(c)[2] = c
  BY DEF KeyOf, Keys
<1> QED
  BY <1>1 DEF ClientKeys

(* A crowd stays one when more are seen. *)
LEMMA CrowdGrows ==
  ASSUME NEW s, NEW u, NEW c, NEW y, NEW z,
         IsFiniteSet(SeenIn(u, z)), SeenIn(s, y) \ {c} \subseteq SeenIn(u, z), Crowd(s, c, y)
  PROVE  Crowd(u, c, z)
<1> DEFINE A == SeenIn(s, y) \ {c}
           B == SeenIn(u, z) \ {c}
<1>1. IsFiniteSet(B) /\ A \subseteq B
  BY FS_Subset
<1>2. IsFiniteSet(A) /\ Cardinality(A) <= Cardinality(B)
  BY <1>1, FS_Subset
<1>3. Cardinality(A) >= MaxClients /\ Cardinality(A) \in Nat /\ Cardinality(B) \in Nat
  BY <1>1, <1>2, FS_CardinalityType DEF Crowd
<1> HIDE DEF A, B
<1>4. Cardinality(B) >= MaxClients
  BY <1>2, <1>3, LimiterAssumption
<1> QED
  BY <1>4 DEF Crowd, B

(* A request of a client is seen. *)
LEMMA SeenGrows ==
  ASSUME NEW s \in [Clients -> Ages], NEW c \in Clients, NEW u, u = [s EXCEPT ![c] = 0],
         IsFiniteSet(SeenIn(s, Window))
  PROVE  /\ IsFiniteSet(SeenIn(u, Window))
         /\ \A y \in 0..Window : /\ SeenIn(s, y) \subseteq SeenIn(u, y)
                                 /\ SeenIn(u, y) \ {c} = SeenIn(s, y) \ {c}
                                 /\ IsFiniteSet(SeenIn(u, y))
<1>0. \A d \in Clients : s[d] \in Nat
  BY DEF Ages
<1>1. u \in [Clients -> Nat] /\ u[c] = 0 /\ \A d \in Clients \ {c} : u[d] = s[d]
  BY <1>0
<1>2. SeenIn(u, Window) \subseteq SeenIn(s, Window) \cup {c}
  BY <1>1 DEF SeenIn
<1>3. IsFiniteSet(SeenIn(s, Window) \cup {c})
  BY FS_AddElement
<1>4. IsFiniteSet(SeenIn(u, Window))
  BY <1>2, <1>3, FS_Subset
<1>5. ASSUME NEW y \in 0..Window
      PROVE  /\ SeenIn(s, y) \subseteq SeenIn(u, y)
             /\ SeenIn(u, y) \ {c} = SeenIn(s, y) \ {c}
             /\ SeenIn(u, y) \subseteq SeenIn(u, Window)
  <2>1. \A x \in Nat : x <= y => x <= Window
    BY LimiterAssumption
  <2> QED
    BY <1>0, <1>1, <2>1 DEF SeenIn
<1> QED
  BY <1>4, <1>5, FS_Subset

(* The ages of those let through are of this window. *)
LEMMA AdmittedAges ==
  ASSUME NEW a \in Seq(Ages), NEW b, NEW s \in [Clients -> Ages], NEW c \in Clients,
         Follows(b, a, s, c)
  PROVE  \A j \in 1..Len(a) : FromEnd(a, j) \in 0..Window /\ s[c] <= FromEnd(a, j)
<1> SUFFICES ASSUME NEW j \in 1..Len(a)
             PROVE  FromEnd(a, j) \in 0..Window /\ s[c] <= FromEnd(a, j)
  OBVIOUS
<1>1. Len(a) + 1 - j \in 1..Len(a)
  OBVIOUS
<1>2. a[Len(a) + 1 - j] \in Ages /\ Window \in Nat
  BY <1>1, LimiterAssumption
<1> QED
  BY <1>1, <1>2 DEF Follows, FromEnd, Ages

(* What follows a client still does when another is seen ...               *)
LEMMA FollowsOthers ==
  ASSUME NEW a \in Seq(Ages), NEW b, NEW s \in [Clients -> Ages],
         NEW c \in Clients, NEW d \in Clients, NEW u, u = [s EXCEPT ![c] = 0],
         IsFiniteSet(SeenIn(s, Window)), d # c, Follows(b, a, s, d)
  PROVE  Follows(b, a, u, d)
<1>1. u[d] = s[d]
  OBVIOUS
<1>2. ASSUME NEW j \in 1..Len(a), Len(b) < j PROVE Crowd(u, d, FromEnd(a, j))
  <2>1. PICK y \in 0..Window : y = FromEnd(a, j)
    BY AdmittedAges
  <2>2. Crowd(s, d, y)
    BY <1>2, <2>1 DEF Follows
  <2>3. IsFiniteSet(SeenIn(u, y)) /\ SeenIn(s, y) \ {d} \subseteq SeenIn(u, y)
    BY SeenGrows
  <2> QED
    BY <2>1, <2>2, <2>3, CrowdGrows
<1> QED
  BY <1>1, <1>2 DEF Follows

(* ... and when it is seen itself. *)
LEMMA FollowsItself ==
  ASSUME NEW a \in Seq(Ages), NEW b, NEW s \in [Clients -> Ages],
         NEW c \in Clients, NEW u, u = [s EXCEPT ![c] = 0],
         IsFiniteSet(SeenIn(s, Window)), Follows(b, a, s, c)
  PROVE  Follows(b, a, u, c)
<1>1. u[c] = 0 /\ \A j \in 1..Len(a) : a[j] \in Ages
  OBVIOUS
<1>2. \A j \in 1..Len(a) : a[j] <= Window /\ u[c] <= a[j]
  BY <1>1 DEF Ages, Follows
<1>3. ASSUME NEW j \in 1..Len(a), Len(b) < j PROVE Crowd(u, c, FromEnd(a, j))
  <2>1. PICK y \in 0..Window : y = FromEnd(a, j)
    BY AdmittedAges
  <2>2. Crowd(s, c, y)
    BY <1>3, <2>1 DEF Follows
  <2>3. SeenIn(u, y) \ {c} = SeenIn(s, y) \ {c}
    BY SeenGrows
  <2> QED
    BY <2>1, <2>2, <2>3 DEF Crowd
<1> QED
  BY <1>2, <1>3 DEF Follows

(* What is left of the deque at a look follows as well, and is no more     *)
(* than was let through.                                                   *)
LEMMA FollowsFresh ==
  ASSUME NEW a \in Seq(Ages), NEW b \in Seq(Ages), NEW s, NEW c, NEW f, f = Fresh(b),
         Follows(b, a, s, c)
  PROVE  Follows(f, a, s, c) /\ Len(f) <= Len(a)
<1>1. /\ f \in Seq(Ages) /\ Len(f) <= Len(b) /\ Sorted(b)
      /\ \A j \in 1..Len(f) : FromEnd(f, j) = FromEnd(b, j)
      /\ \A j \in 1..Len(b) : FromEnd(b, j) <= Window => j <= Len(f)
      /\ Sorted(f) /\ \A i \in 1..Len(f) : f[i] <= Window
  BY FreshAges DEF Follows
<1>2. Len(f) \in Nat /\ Len(b) \in Nat /\ Len(a) \in Nat /\ Limit \in Nat
  BY <1>1, LimiterAssumption
<1>3. /\ Len(b) <= Limit
      /\ \A j \in 1..Len(b) : j <= Len(a) => FromEnd(b, j) = FromEnd(a, j)
      /\ \A j \in 1..Len(b) : FromEnd(b, j) <= Window => j <= Len(a)
      /\ \A j \in 1..Len(a) : Len(b) < j => Crowd(s, c, FromEnd(a, j))
  BY DEF Follows
<1>4. \A j \in 1..Len(f) : j \in 1..Len(b) /\ FromEnd(f, j) <= Window
  <2> SUFFICES ASSUME NEW j \in 1..Len(f) PROVE j \in 1..Len(b) /\ FromEnd(f, j) <= Window
    OBVIOUS
  <2>1. Len(f) + 1 - j \in 1..Len(f)
    BY <1>2
  <2> QED
    BY <1>1, <1>2, <2>1 DEF FromEnd
<1>5. \A j \in 1..Len(f) : j <= Len(a) /\ FromEnd(f, j) = FromEnd(a, j)
  BY <1>1, <1>3, <1>4
<1>6. Len(f) <= Len(a)
  <2>1. CASE Len(f) = 0
    BY <1>2, <2>1
  <2>2. CASE Len(f) # 0
    <3>1. Len(f) \in 1..Len(f)
      BY <1>2, <2>2
    <3> QED
      BY <1>5, <3>1
  <2> QED
    BY <2>1, <2>2
<1>7. ASSUME NEW j \in 1..Len(a), Len(f) < j PROVE Crowd(s, c, FromEnd(a, j))
  <2>1. CASE Len(b) < j
    BY <1>3, <2>1
  <2>2. CASE ~(Len(b) < j)
    <3>1. j \in 1..Len(b)
      BY <1>2, <2>2
    <3>2. FromEnd(a, j) <= Window
      <4>1. Len(a) + 1 - j \in 1..Len(a)
        BY <1>2
      <4> QED
        BY <4>1 DEF FromEnd, Follows
    <3>3. j <= Len(f)
      BY <1>1, <1>3, <3>1, <3>2
    <3> QED
      BY <1>2, <1>7, <3>3
  <2> QED
    BY <2>1, <2>2
<1>8. Len(f) <= Limit
  BY <1>1, <1>2, <1>3
<1> QED
  BY <1>1, <1>5, <1>6, <1>7, <1>8 DEF Follows

(* A request let through is entered in both. *)
LEMMA FollowsEntered ==
  ASSUME NEW a \in Seq(Ages), NEW f \in Seq(Ages), NEW s \in [Clients -> Ages],
         NEW c \in Clients, s[c] = 0, Follows(f, a, s, c), Len(f) < Limit, Len(f) <= Len(a),
         NEW p, p = Append(a, 0), NEW q, q = IF Len(p) > Limit + 1 THEN Tail(p) ELSE p,
         NEW g, g = Append(f, 0)
  PROVE  Follows(g, q, s, c)
<1>0. /\ Len(a) \in Nat /\ Len(f) \in Nat /\ Limit \in Nat /\ Limit >= 1 /\ Window \in Nat
      /\ Sorted(a) /\ Sorted(f)
  BY LimiterAssumption DEF Follows
<1>1. /\ p \in Seq(Ages) /\ Len(p) = Len(a) + 1 /\ FromEnd(p, 1) = 0
      /\ \A j \in 1..Len(a) : FromEnd(p, j + 1) = FromEnd(a, j)
      /\ p[Len(a) + 1] = 0 /\ \A i \in 1..Len(a) : p[i] = a[i]
      /\ Sorted(p)
  BY <1>0, YoungestAdded
<1>2. /\ g \in Seq(Ages) /\ Len(g) = Len(f) + 1 /\ FromEnd(g, 1) = 0
      /\ \A j \in 1..Len(f) : FromEnd(g, j + 1) = FromEnd(f, j)
      /\ Sorted(g)
  BY <1>0, YoungestAdded
<1>3. p # <<>>
  BY <1>0, <1>1
<1>4. \A i \in 1..Len(p) : p[i] <= Window /\ s[c] <= p[i]
  <2>1. \A j \in 1..Len(a) : a[j] <= Window /\ s[c] <= a[j]
    BY DEF Follows
  <2>2. \A i \in 1..Len(p) : i \in 1..Len(a) \/ i = Len(a) + 1
    BY <1>0, <1>1
  <2> QED
    BY <1>0, <1>1, <2>1, <2>2
<1>5. /\ q \in Seq(Ages) /\ Len(q) \in Nat /\ Len(q) <= Len(a) + 1 /\ Sorted(q)
      /\ Len(q) = Len(a) + 1 \/ Len(q) >= Limit + 1
      /\ \A j \in 1..Len(q) : FromEnd(q, j) = FromEnd(p, j)
      /\ \A i \in 1..Len(q) : q[i] <= Window /\ s[c] <= q[i]
  <2>1. CASE Len(p) > Limit + 1
    <3>1. q = Tail(p)
      BY <2>1
    <3>2. /\ q \in Seq(Ages) /\ Len(q) = Len(p) - 1
          /\ \A j \in 1..Len(q) : FromEnd(q, j) = FromEnd(p, j)
          /\ \A i \in 1..Len(q) : i + 1 \in 1..Len(p) /\ q[i] = p[i + 1]
          /\ Sorted(q)
      <4>1. p \in Seq(Ages) /\ Sorted(p) /\ p # <<>>
        BY <1>1, <1>3
      <4> QED
        BY ONLY <3>1, <4>1, OldestDropped
    <3>3. \A i \in 1..Len(q) : q[i] <= Window /\ s[c] <= q[i]
      BY <1>4, <3>2
    <3>4. Len(q) \in Nat /\ Len(q) <= Len(a) + 1 /\ Len(q) >= Limit + 1
      BY <1>0, <1>1, <2>1, <3>2
    <3> QED
      BY <3>2, <3>3, <3>4
  <2>2. CASE ~(Len(p) > Limit + 1)
    <3>1. q = p
      BY <2>2
    <3>2. Len(p) \in Nat /\ Len(p) = Len(a) + 1
      BY <1>0, <1>1
    <3> QED
      BY <1>1, <1>4, <3>1, <3>2
  <2> QED
    BY <2>1, <2>2
<1>6. /\ \A j \in 1..Len(f) : j <= Len(a) => FromEnd(f, j) = FromEnd(a, j)
      /\ \A j \in 1..Len(a) : Len(f) < j => Crowd(s, c, FromEnd(a, j))
  BY DEF Follows
<1>7. \A j \in 1..Len(g) : j <= Len(q) /\ FromEnd(g, j) = FromEnd(q, j)
  <2> SUFFICES ASSUME NEW j \in 1..Len(g) PROVE j <= Len(q) /\ FromEnd(g, j) = FromEnd(q, j)
    OBVIOUS
  <2>1. j \in 1..Len(q)
    BY <1>0, <1>2, <1>5
  <2>2. FromEnd(q, j) = FromEnd(p, j)
    BY <1>5, <2>1
  <2>3. CASE j = 1
    BY <1>1, <1>2, <2>1, <2>2, <2>3
  <2>4. CASE j # 1
    <3>1. PICK i \in 1..Len(f) : j = i + 1 /\ i \in 1..Len(a)
      <4>1. j - 1 \in 1..Len(f) /\ j - 1 \in 1..Len(a) /\ j = (j - 1) + 1
        BY <1>0, <1>2, <2>4
      <4> QED
        BY <4>1
    <3>2. FromEnd(g, j) = FromEnd(f, i) /\ FromEnd(p, j) = FromEnd(a, i)
      BY <1>1, <1>2, <3>1
    <3>3. i <= Len(a)
      BY <3>1
    <3> QED
      BY <1>6, <2>1, <2>2, <3>2, <3>3
  <2> QED
    BY <2>3, <2>4
<1>8. ASSUME NEW j \in 1..Len(q), Len(g) < j PROVE Crowd(s, c, FromEnd(q, j))
  <2>1. PICK i \in 1..Len(a) : j = i + 1 /\ Len(f) < i
    <3>1. j - 1 \in 1..Len(a) /\ Len(f) < j - 1 /\ j = (j - 1) + 1
      BY <1>0, <1>2, <1>5, <1>8
    <3> QED
      BY <3>1
  <2>2. FromEnd(q, j) = FromEnd(a, i)
    BY <1>1, <1>5, <2>1
  <2> QED
    BY <1>6, <2>1, <2>2
<1>9. Len(g) <= Limit
  BY <1>0, <1>2
<1> QED
  BY <1>2, <1>5, <1>7, <1>8, <1>9 DEF Follows

(* A client is evicted when there is a crowd that was seen after it. *)
LEMMA FollowsEvicted ==
  ASSUME NEW a \in Seq(Ages), NEW b, NEW s \in [Clients -> Ages], NEW c \in Clients,
         IsFiniteSet(SeenIn(s, Window)), s[c] <= Window => Crowd(s, c, s[c]),
         Follows(b, a, s, c)
  PROVE  Follows(<<>>, a, s, c)
<1>0. /\ \A d \in Clients : s[d] \in Nat
      /\ Len(<<>>) = 0 /\ Limit \in Nat /\ Window \in Nat
  BY LimiterAssumption DEF Ages
<1>1. ASSUME NEW j \in 1..Len(a) PROVE Crowd(s, c, FromEnd(a, j))
  <2>1. PICK y \in 0..Window : y = FromEnd(a, j) /\ s[c] <= y
    BY AdmittedAges
  <2>2. SeenIn(s, s[c]) \subseteq SeenIn(s, y) /\ SeenIn(s, y) \subseteq SeenIn(s, Window)
    BY <1>0, <2>1 DEF SeenIn
  <2>3. IsFiniteSet(SeenIn(s, y))
    BY <2>2, FS_Subset
  <2>4. s[c] <= Window
    BY <1>0, <2>1
  <2> QED
    BY <2>1, <2>2, <2>3, <2>4, CrowdGrows
<1>2. Sorted(<<>>)
  BY <1>0 DEF Sorted
<1> QED
  BY <1>0, <1>1, <1>2 DEF Follows

(* All grow older together; who has left the window is forgotten. *)
LEMMA FollowsOlder ==
  ASSUME NEW a \in Seq(Ages), NEW b \in Seq(Ages), NEW s \in [Clients -> Ages],
         NEW c \in Clients, IsFiniteSet(SeenIn(s, Window)), Follows(b, a, s, c),
         NEW u, \A d \in Clients : u[d] = Older(s[d]),
         NEW p, p = Aged(a), NEW q, q = Fresh(p), NEW g, g = Aged(b)
  PROVE  Follows(g, q, u, c)
<1>0. /\ Len(a) \in Nat /\ Len(b) \in Nat /\ Limit \in Nat /\ Window \in Nat
      /\ Sorted(a) /\ Sorted(b) /\ Len(b) <= Limit
      /\ \A j \in 1..Len(b) : j <= Len(a) => FromEnd(b, j) = FromEnd(a, j)
      /\ \A j \in 1..Len(b) : FromEnd(b, j) <= Window => j <= Len(a)
      /\ \A j \in 1..Len(a) : Len(b) < j => Crowd(s, c, FromEnd(a, j))
      /\ \A i \in 1..Len(a) : a[i] <= Window /\ s[c] <= a[i]
  BY LimiterAssumption DEF Follows
<1>1. /\ p \in Seq(Ages) /\ Len(p) = Len(a) /\ Sorted(p)
      /\ \A i \in 1..Len(a) : p[i] = Older(a[i])
      /\ \A j \in 1..Len(a) : FromEnd(a, j) \in Ages /\ FromEnd(p, j) = Older(FromEnd(a, j))
  BY <1>0, AgedTogether
<1>2. /\ g \in Seq(Ages) /\ Len(g) = Len(b) /\ Sorted(g)
      /\ \A j \in 1..Len(b) : FromEnd(b, j) \in Ages /\ FromEnd(g, j) = Older(FromEnd(b, j))
  BY <1>0, AgedTogether
<1>3. /\ q \in Seq(Ages) /\ Len(q) <= Len(p) /\ Len(q) \in Nat /\ Sorted(q)
      /\ \A j \in 1..Len(q) : FromEnd(q, j) = FromEnd(p, j)
      /\ \A j \in 1..Len(p) : FromEnd(p, j) <= Window => j <= Len(q)
      /\ \A i \in 1..Len(q) : q[i] <= Window
  <2>1. /\ q \in Seq(Ages) /\ Len(q) <= Len(p) /\ Sorted(q)
        /\ \A j \in 1..Len(q) : FromEnd(q, j) = FromEnd(p, j)
        /\ \A j \in 1..Len(p) : FromEnd(p, j) <= Window => j <= Len(q)
        /\ \A i \in 1..Len(q) : q[i] <= Window
    BY <1>1, FreshAges
  <2> QED
    BY <2>1
<1>4. \A j \in 1..Len(q) : j \in 1..Len(a) /\ FromEnd(q, j) = Older(FromEnd(a, j))
  BY <1>0, <1>1, <1>3
<1>5. ASSUME NEW i \in 1..Len(q) PROVE u[c] <= q[i]
  <2>1. PICK j \in 1..Len(q) : i = Len(q) + 1 - j
    <3>1. Len(q) + 1 - i \in 1..Len(q) /\ i = Len(q) + 1 - (Len(q) + 1 - i)
      BY <1>3
    <3> QED
      BY <3>1
  <2>2. q[i] = Older(FromEnd(a, j)) /\ j \in 1..Len(a)
    BY <1>4, <2>1 DEF FromEnd
  <2>3. s[c] <= FromEnd(a, j) /\ FromEnd(a, j) \in Ages /\ s[c] \in Ages
    BY <1>1, <2>2, AdmittedAges
  <2> QED
    BY <2>2, <2>3, OlderIsMonotone
<1>6. ASSUME NEW j \in 1..Len(g), j <= Len(q) PROVE FromEnd(g, j) = FromEnd(q, j)
  <2>1. j \in 1..Len(q)
    BY <1>0, <1>2, <1>3, <1>6
  <2>2. j \in 1..Len(b) /\ j <= Len(a)
    BY <1>0, <1>1, <1>2, <1>3, <1>6
  <2> QED
    BY <1>0, <1>2, <1>4, <2>1, <2>2
<1>7. ASSUME NEW j \in 1..Len(g), FromEnd(g, j) <= Window PROVE j <= Len(q)
  <2>1. j \in 1..Len(b) /\ FromEnd(b, j) \in Ages
    BY <1>2
  <2>2. FromEnd(b, j) <= Window
    BY <1>2, <1>7, <2>1, OlderIsMonotone
  <2>3. j \in 1..Len(a) /\ FromEnd(a, j) = FromEnd(b, j)
    BY <1>0, <2>1, <2>2
  <2>4. FromEnd(p, j) <= Window
    BY <1>1, <1>2, <1>7, <2>1, <2>3
  <2> QED
    BY <1>1, <1>3, <2>3, <2>4
<1>8. ASSUME NEW j \in 1..Len(q), Len(g) < j PROVE Crowd(u, c, FromEnd(q, j))
  <2>1. PICK y \in 0..Window : y = FromEnd(a, j) /\ j \in 1..Len(a)
    BY <1>4, AdmittedAges
  <2>2. Crowd(s, c, y)
    BY <1>0, <1>2, <1>8, <2>1
  <2>3. PICK z \in Ages : z = FromEnd(q, j) /\ z = Older(y) /\ z <= Window
    <3>1. Len(q) + 1 - j \in 1..Len(q)
      BY <1>3
    <3>2. FromEnd(q, j) \in Ages /\ FromEnd(q, j) <= Window
      BY <1>3, <3>1 DEF FromEnd
    <3> QED
      BY <1>4, <2>1, <3>2
  <2>4. y \in Ages
    BY <1>0 DEF Ages
  <2>5. SeenIn(s, y) \subseteq SeenIn(u, z)
    BY <2>3, <2>4, OlderIsMonotone DEF SeenIn
  <2>6. \A d \in Clients : s[d] \in Ages /\ Older(s[d]) \in Ages
    BY OlderIsMonotone
  <2>7. SeenIn(u, z) \subseteq SeenIn(s, Window)
    <3> SUFFICES ASSUME NEW d \in Clients, u[d] <= z PROVE s[d] <= Window
      BY DEF SeenIn
    <3>1. Older(s[d]) <= Window
      BY <1>0, <2>3, <2>6 DEF Ages
    <3> QED
      BY <2>6, <3>1, OlderIsMonotone
  <2>8. IsFiniteSet(SeenIn(u, z))
    BY <2>7, FS_Subset
  <2>9. Crowd(u, c, z)
    BY <2>2, <2>5, <2>8, CrowdGrows
  <2> QED
    BY <2>3, <2>9
<1>9. Len(g) <= Limit
  BY <1>0, <1>2
<1> QED
  BY <1>2, <1>3, <1>5, <1>6, <1>7, <1>8, <1>9 DEF Follows

(* The client of a request goes to the end of the order, where the one     *)
(* seen last belongs.                                                      *)
LEMMA OrderSeen ==
  ASSUME NEW o \in Order(Keys), NEW s \in [Clients -> Ages], NEW c \in Clients,
         ToSet(o) \subseteq ClientKeys, InOrderSeen(o, s),
         NEW u, u = [s EXCEPT ![c] = 0], NEW r, r = Touched(o, KeyOf(c))
  PROVE  /\ r \in Order(Keys) /\ ToSet(r) = ToSet(o) \cup {KeyOf(c)}
         /\ ToSet(r) \subseteq ClientKeys /\ InOrderSeen(r, u)
<1> DEFINE k == KeyOf(c)
<1>0. k \in Keys /\ k \in ClientKeys /\ k[2] = c
  BY KeyOfProperties
<1> HIDE DEF k
<1>1. /\ r \in Order(Keys) /\ ToSet(r) = ToSet(o) \cup {k}
      /\ \A i, j \in 1..Len(r) : i < j =>
           /\ r[i] # k
           /\ \/ r[j] = k
              \/ \E m, n \in 1..Len(o) : m < n /\ o[m] = r[i] /\ o[n] = r[j]
  BY <1>0, UsedOrder DEF Used, Touched, k
<1>2. ToSet(r) \subseteq ClientKeys
  BY <1>0, <1>1
<1>3. r \in Seq(Keys) /\ \A i \in 1..Len(r) : r[i] \in ClientKeys
  BY <1>1, <1>2, Members DEF Order
<1>4. \A i \in 1..Len(r) : r[i][2] \in Clients /\ (r[i][2] = c => r[i] = k)
  BY <1>3, KeyOfProperties DEF k
<1>5. /\ u[c] = 0 /\ \A d \in Clients : s[d] \in Nat /\ u[d] \in Nat /\ u[d] <= s[d]
      /\ \A d \in Clients : d # c => u[d] = s[d]
  <2>1. \A d \in Clients : s[d] \in Nat /\ 0 <= s[d]
    BY DEF Ages
  <2>2. u[c] = 0 /\ \A d \in Clients : d # c => u[d] = s[d]
    OBVIOUS
  <2>3. \A d \in Clients : u[d] = 0 \/ u[d] = s[d]
    BY <2>2
  <2> QED
    BY <2>1, <2>2, <2>3
<1>6. ASSUME NEW i \in 1..Len(r), NEW j \in 1..Len(r), i < j PROVE u[r[j][2]] <= u[r[i][2]]
  <2>1. r[i] # k /\ r[i][2] \in Clients /\ r[j][2] \in Clients /\ r[i][2] # c
    BY <1>1, <1>4, <1>6
  <2>2. u[r[i][2]] = s[r[i][2]]
    BY <1>5, <2>1
  <2>3. CASE r[j] = k
    BY <1>0, <1>5, <2>1, <2>3
  <2>4. CASE r[j] # k
    <3>1. PICK m, n \in 1..Len(o) : m < n /\ o[m] = r[i] /\ o[n] = r[j]
      BY <1>1, <1>6, <2>4
    <3>2. s[r[j][2]] <= s[r[i][2]]
      BY <3>1 DEF InOrderSeen
    <3>3. u[r[j][2]] <= s[r[j][2]] /\ u[r[j][2]] \in Nat /\ s[r[j][2]] \in Nat
          /\ s[r[i][2]] \in Nat
      BY <1>5, <2>1
    <3> QED
      BY <2>2, <3>2, <3>3
  <2> QED
    BY <2>3, <2>4
<1> QED
  BY <1>1, <1>2, <1>6 DEF InOrderSeen, k

(* The order of those that are left when the first is evicted, and that    *)
(* they are a crowd, seen not longer ago than it.                          *)
LEMMA EvictedInOrder ==
  ASSUME NEW r \in Order(Keys), r # <<>>, ToSet(r) \subseteq ClientKeys,
         NEW u \in [Clients -> Ages], InOrderSeen(r, u), IsFiniteSet(SeenIn(u, Window)),
         NEW q, q = Tail(r)
  PROVE  /\ InOrderSeen(q, u)
         /\ \A d \in Clients : Len(q) = MaxClients /\ KeyOf(d) = r[1] /\ u[d] <= Window
                                 => Crowd(u, d, u[d])
<1>1. /\ q \in Order(Keys) /\ ToSet(q) = ToSet(r) \ {r[1]} /\ Len(q) = Len(r) - 1
      /\ \A i \in 1..(Len(r) - 1) : q[i] = r[i + 1]
  BY OldestEvicted
<1>2. /\ r \in Seq(Keys) /\ q \in Seq(Keys) /\ Len(r) \in Nat /\ Len(q) \in Nat /\ Len(r) >= 1
  BY <1>1 DEF Order
<1>3. \A i \in 1..Len(q) : i + 1 \in 1..Len(r) /\ q[i] = r[i + 1]
  BY <1>1, <1>2
<1>4. InOrderSeen(q, u)
  <2> SUFFICES ASSUME NEW i \in 1..Len(q), NEW j \in 1..Len(q), i < j
               PROVE  u[q[j][2]] <= u[q[i][2]]
    BY DEF InOrderSeen
  <2>1. i + 1 < j + 1
    OBVIOUS
  <2> QED
    BY <1>3, <2>1 DEF InOrderSeen
<1>5. ASSUME NEW d \in Clients, Len(q) = MaxClients, KeyOf(d) = r[1], u[d] <= Window
      PROVE  Crowd(u, d, u[d])
  <2> DEFINE K == ToSet(q)
             D == {k[2] : k \in K}
             f == [k \in K |-> k[2]]
  <2>1. IsFiniteSet(K) /\ Cardinality(K) = MaxClients
    BY <1>1, <1>5, OrderCardinality
  <2>2. K \subseteq ClientKeys /\ r[1] \notin K
    BY <1>1
  <2>3. \A k \in K : \E i \in 1..Len(q) : q[i] = k
    BY <1>2, Members
  <2> HIDE DEF K
  <2>4. f \in Bijection(K, D)
    <3>1. f \in [K -> D] /\ \A x \in D : \E k \in K : f[k] = x
      OBVIOUS
    <3>2. \A k, l \in K : f[k] = f[l] => k = l
      BY <2>2, KeyOfProperties
    <3> QED
      BY <3>1, <3>2 DEF Bijection, Injection, Surjection, IsInjective
  <2>5. IsFiniteSet(D) /\ Cardinality(D) = MaxClients
    <3>1. ExistsBijection(K, D)
      BY <2>4 DEF ExistsBijection
    <3> HIDE DEF D
    <3> QED
      BY <2>1, <3>1, FS_Bijection
  <2>6. D \subseteq SeenIn(u, u[d]) \ {d}
    <3> SUFFICES ASSUME NEW k \in K PROVE k[2] \in SeenIn(u, u[d]) /\ k[2] # d
      OBVIOUS
    <3>1. k[2] \in Clients /\ k = KeyOf(k[2]) /\ k # r[1]
      BY <2>2, KeyOfProperties
    <3>2. PICK i \in 1..Len(q) : q[i] = k
      BY <2>3
    <3>3. i + 1 \in 1..Len(r) /\ r[i + 1] = k /\ 1 \in 1..Len(r) /\ 1 < i + 1
      BY <1>2, <1>3, <3>2
    <3>4. u[k[2]] <= u[r[1][2]] /\ r[1][2] = d
      BY <1>5, <3>3, KeyOfProperties DEF InOrderSeen
    <3> QED
      BY <1>5, <3>1, <3>4 DEF SeenIn
  <2>7. SeenIn(u, u[d]) \subseteq SeenIn(u, Window)
    <3>1. \A e \in Clients : u[e] \in Nat
      BY DEF Ages
    <3> QED
      BY <1>5, <3>1, LimiterAssumption DEF SeenIn
  <2>8. IsFiniteSet(SeenIn(u, u[d]) \ {d})
    BY <2>7, FS_Subset
  <2> HIDE DEF D
  <2>9. /\ Cardinality(D) <= Cardinality(SeenIn(u, u[d]) \ {d})
    BY <2>6, <2>8, FS_Subset
  <2> QED
    BY <2>5, <2>9 DEF Crowd
<1> QED
  BY <1>4, <1>5

(* One request of a client in its table: the deque follows it, and those   *)
(* of all others, and it is limited only at the limit.                     *)
LEMMA RequestFollowed ==
  ASSUME LimiterTypeOK, NEW t \in Tables, NEW c \in Clients,
         TableInv(order[t], bucket[t], admitted[t], seen[t]),
         Enter(t, KeyOf(c)), Remember(t, c, Limited(t, KeyOf(c)))
  PROVE  /\ TableInv(order'[t], bucket'[t], admitted'[t], seen'[t])
         /\ Limited(t, KeyOf(c)) => Len(admitted[t][c]) >= Limit
<1> DEFINE k == KeyOf(c)
           o == order[t]
           q == order'[t]
           s == seen[t]
           u == seen'[t]
           r == Touched(o, k)
           b == bucket[t]
           a == admitted[t]
           f == Fresh(b[k])
<1>0. /\ k \in Keys /\ k \in ClientKeys
      /\ \A d \in Clients : KeyOf(d) \in Keys /\ (d # c => KeyOf(d) # k)
  BY KeyOfProperties
<1>1. /\ o \in Order(Keys) /\ Len(o) <= MaxClients /\ s \in [Clients -> Ages]
      /\ \A d \in Clients : a[d] \in Seq(Ages)
      /\ \A j \in Keys : b[j] \in Seq(Ages) /\ (b[j] # <<>> <=> j \in ToSet(o))
  BY DEF LimiterTypeOK, Order
<1>2. /\ ToSet(o) \subseteq ClientKeys /\ InOrderSeen(o, s) /\ IsFiniteSet(SeenIn(s, Window))
      /\ \A d \in Clients : Follows(b[KeyOf(d)], a[d], s, d)
  BY DEF TableInv
<1> HIDE DEF k
<1>3. /\ q = KeptBy(t, k) /\ ToSet(q) \subseteq ToSet(o) \cup {k}
      /\ bucket'[t][k] = IF Limited(t, k) THEN f ELSE Append(f, 0)
      /\ \A j \in Keys : j # k => bucket'[t][j] = IF j \in ToSet(q) THEN b[j] ELSE <<>>
  BY <1>0, Entered DEF k
<1>4. /\ u = [s EXCEPT ![c] = 0] /\ u \in [Clients -> Ages] /\ u[c] = 0
      /\ Limited(t, k) => admitted' = admitted
      /\ \A d \in Clients : d # c => admitted'[t][d] = a[d]
      /\ ~Limited(t, k) => admitted'[t][c] =
           LET p == Append(a[c], 0) IN IF Len(p) > Limit + 1 THEN Tail(p) ELSE p
  <2>1. /\ seen' = [seen EXCEPT ![t][c] = 0] /\ seen' \in [Tables -> [Clients -> Ages]]
        /\ Limited(t, k) => admitted' = admitted
        /\ \A v \in Tables : \A d \in Clients :
             (v # t \/ d # c) => admitted'[v][d] = admitted[v][d]
        /\ ~Limited(t, k) => admitted'[t][c] =
             LET p == Append(a[c], 0) IN IF Len(p) > Limit + 1 THEN Tail(p) ELSE p
    BY Remembered DEF k
  <2>2. seen \in [Tables -> [Clients -> Ages]]
    BY DEF LimiterTypeOK
  <2> QED
    BY <2>1, <2>2
<1> HIDE DEF o, q, s, u, b, a
<1>5. IsFiniteSet(SeenIn(u, Window))
  BY <1>1, <1>2, <1>4, SeenGrows
<1>6. /\ r \in Order(Keys) /\ ToSet(r) = ToSet(o) \cup {k}
      /\ ToSet(r) \subseteq ClientKeys /\ InOrderSeen(r, u)
  BY <1>1, <1>2, <1>4, OrderSeen DEF k
<1>7. \/ q = r
      \/ q = Tail(r) /\ r # <<>> /\ Len(q) = MaxClients /\ ToSet(q) = ToSet(r) \ {r[1]}
  <2>1. CASE Limited(t, k)
    BY <1>3, <2>1 DEF KeptBy, o
  <2>2. CASE ~Limited(t, k)
    <3>1. q = Kept(r)
      BY <1>3, <2>2 DEF KeptBy, o
    <3> HIDE DEF r
    <3>2. r = Touched(o, k)
      BY DEF r
    <3>3. o \in Order(Keys) /\ k \in Keys /\ Len(o) <= MaxClients
      BY <1>0, <1>1
    <3> QED
      BY ONLY <3>1, <3>2, <3>3, KeptKeys
  <2> QED
    BY <2>1, <2>2
<1> HIDE DEF r
<1>8. InOrderSeen(q, u) /\ ToSet(q) \subseteq ClientKeys
  <2>1. ToSet(q) \subseteq ClientKeys
    BY <1>0, <1>2, <1>3
  <2>2. CASE q = r
    BY <1>6, <2>1, <2>2
  <2>3. CASE q # r
    BY <1>4, <1>5, <1>6, <1>7, <2>1, <2>3, EvictedInOrder
  <2> QED
    BY <2>2, <2>3
<1>9. /\ Follows(f, a[c], u, c) /\ Len(f) <= Len(a[c])
      /\ f \in Seq(Ages) /\ a[c] \in Seq(Ages)
  <2>1. b[k] \in Seq(Ages) /\ a[c] \in Seq(Ages) /\ Follows(b[k], a[c], s, c)
    BY <1>0, <1>1, <1>2 DEF k
  <2>2. f \in Seq(Ages)
    BY <2>1, FreshAges
  <2>3. Follows(f, a[c], s, c) /\ Len(f) <= Len(a[c])
    BY <2>1, FollowsFresh
  <2> HIDE DEF f
  <2> QED
    BY <1>1, <1>2, <1>4, <2>1, <2>2, <2>3, FollowsItself
<1>10. Limited(t, k) <=> Len(f) >= Limit
  BY DEF Limited, b
<1> HIDE DEF f
<1>11. Follows(bucket'[t][k], admitted'[t][c], u, c)
  <2>1. CASE Limited(t, k)
    <3>1. bucket'[t][k] = f /\ admitted'[t][c] = a[c]
      BY <1>3, <1>4, <2>1 DEF a
    <3> QED
      BY <1>9, <3>1
  <2>2. CASE ~Limited(t, k)
    <3>1. Len(f) < Limit
      <4>1. Len(f) \in Nat /\ Limit \in Nat
        BY <1>9, LimiterAssumption
      <4> QED
        BY <1>10, <2>2, <4>1
    <3>2. PICK p : p = Append(a[c], 0)
      OBVIOUS
    <3>3. PICK g : g = Append(f, 0)
      OBVIOUS
    <3>4. PICK x : x = IF Len(p) > Limit + 1 THEN Tail(p) ELSE p
      OBVIOUS
    <3>5. admitted'[t][c] = x /\ bucket'[t][k] = g
      BY <1>3, <1>4, <2>2, <3>2, <3>3, <3>4
    <3>6. Follows(g, x, u, c)
      BY <1>4, <1>9, <3>1, <3>2, <3>3, <3>4, FollowsEntered
    <3> QED
      BY <3>5, <3>6
  <2> QED
    BY <2>1, <2>2
<1>12. ASSUME NEW d \in Clients, d # c
       PROVE  Follows(bucket'[t][KeyOf(d)], admitted'[t][d], u, d)
  <2>1. KeyOf(d) \in Keys /\ KeyOf(d) # k /\ admitted'[t][d] = a[d] /\ a[d] \in Seq(Ages)
    BY <1>0, <1>1, <1>4, <1>12
  <2>2. Follows(b[KeyOf(d)], a[d], s, d)
    BY <1>2
  <2>3. Follows(b[KeyOf(d)], a[d], u, d)
    BY <1>1, <1>2, <1>4, <1>12, <2>1, <2>2, FollowsOthers
  <2>4. CASE KeyOf(d) \in ToSet(q)
    BY <1>3, <2>1, <2>3, <2>4
  <2>5. CASE KeyOf(d) \notin ToSet(q) /\ KeyOf(d) \notin ToSet(o)
    <3>1. bucket'[t][KeyOf(d)] = <<>> /\ b[KeyOf(d)] = <<>>
      BY <1>1, <1>3, <2>1, <2>5
    <3> QED
      BY <2>1, <2>3, <3>1
  <2>6. CASE KeyOf(d) \notin ToSet(q) /\ KeyOf(d) \in ToSet(o)
    <3>1. bucket'[t][KeyOf(d)] = <<>>
      BY <1>3, <2>1, <2>6
    <3>2. /\ q = Tail(r) /\ r # <<>> /\ Len(q) = MaxClients /\ KeyOf(d) = r[1]
      BY <1>6, <1>7, <2>6
    <3>3. u[d] <= Window => Crowd(u, d, u[d])
      BY <1>4, <1>5, <1>6, <3>2, EvictedInOrder
    <3>4. Follows(<<>>, a[d], u, d)
      BY <1>4, <1>5, <2>1, <2>3, <3>3, FollowsEvicted
    <3> QED
      BY <2>1, <3>1, <3>4
  <2> QED
    BY <2>4, <2>5, <2>6
<1>13. \A d \in Clients : Follows(bucket'[t][KeyOf(d)], admitted'[t][d], u, d)
  BY <1>11, <1>12 DEF k
<1>14. Limited(t, k) => Len(a[c]) >= Limit
  <2>1. Len(f) \in Nat /\ Len(a[c]) \in Nat /\ Limit \in Nat
    BY <1>9, LimiterAssumption
  <2> QED
    BY <1>9, <1>10, <2>1
<1> QED
  BY <1>5, <1>8, <1>13, <1>14 DEF TableInv, q, u, k, a

(* The table that a request does not enter stays as it is. *)
LEMMA OtherTable ==
  ASSUME LimiterTypeOK, NEW t \in Tables, NEW c \in Clients, NEW k \in Keys, NEW lim,
         Enter(t, k), Remember(t, c, lim), NEW v \in Tables, v # t,
         TableInv(order[v], bucket[v], admitted[v], seen[v])
  PROVE  /\ TableInv(order'[v], bucket'[v], admitted'[v], seen'[v])
         /\ admitted'[v] = admitted[v]
<1>1. order'[v] = order[v] /\ bucket'[v] = bucket[v]
  BY Entered
<1>2. /\ seen' = [seen EXCEPT ![t][c] = 0] /\ seen \in [Tables -> [Clients -> Ages]]
      /\ admitted \in [Tables -> [Clients -> Seq(Ages)]]
      /\ admitted' \in [Tables -> [Clients -> Seq(Ages)]]
      /\ \A d \in Clients : admitted'[v][d] = admitted[v][d]
  BY Remembered DEF LimiterTypeOK
<1>3. seen'[v] = seen[v] /\ admitted'[v] = admitted[v]
  BY <1>2
<1> QED
  BY <1>1, <1>3

(* One more tick for a table. *)
LEMMA TableOlder ==
  ASSUME LimiterTypeOK, TickWindow, NEW t \in Tables,
         TableInv(order[t], bucket[t], admitted[t], seen[t])
  PROVE  TableInv(order'[t], bucket'[t], admitted'[t], seen'[t])
<1>1. /\ order' = order
      /\ \A k \in Keys : bucket'[t][k] = Aged(bucket[t][k])
      /\ \A c \in Clients : /\ admitted'[t][c] = Fresh(Aged(admitted[t][c]))
                            /\ seen'[t][c] = Older(seen[t][c])
  BY TickTyped
<1> DEFINE o == order[t]
           s == seen[t]
           u == seen'[t]
<1>2. /\ ToSet(o) \subseteq ClientKeys /\ InOrderSeen(o, s) /\ IsFiniteSet(SeenIn(s, Window))
      /\ \A c \in Clients : Follows(bucket[t][KeyOf(c)], admitted[t][c], s, c)
  BY DEF TableInv
<1>3. /\ o \in Seq(Keys) /\ s \in [Clients -> Ages]
      /\ \A c \in Clients : admitted[t][c] \in Seq(Ages) /\ bucket[t][KeyOf(c)] \in Seq(Ages)
  BY KeyOfProperties DEF LimiterTypeOK
<1> HIDE DEF o, s, u
<1>4. \A c \in Clients : u[c] = Older(s[c]) /\ s[c] \in Ages
  BY <1>1, <1>3 DEF u, s
<1>5. InOrderSeen(o, u)
  <2> SUFFICES ASSUME NEW i \in 1..Len(o), NEW j \in 1..Len(o), i < j
               PROVE  u[o[j][2]] <= u[o[i][2]]
    BY DEF InOrderSeen
  <2>1. s[o[j][2]] <= s[o[i][2]]
    BY <1>2 DEF InOrderSeen
  <2>2. o[i] \in ClientKeys /\ o[j] \in ClientKeys
    BY <1>2, <1>3, Members
  <2>3. o[i][2] \in Clients /\ o[j][2] \in Clients
    BY <2>2, KeyOfProperties
  <2> QED
    BY <1>4, <2>1, <2>3, OlderIsMonotone
<1>6. IsFiniteSet(SeenIn(u, Window))
  <2>1. SeenIn(u, Window) \subseteq SeenIn(s, Window)
    BY <1>4, OlderIsMonotone DEF SeenIn
  <2> QED
    BY <1>2, <2>1, FS_Subset
<1>7. ASSUME NEW c \in Clients PROVE Follows(bucket'[t][KeyOf(c)], admitted'[t][c], u, c)
  <2>1. PICK a \in Seq(Ages) : a = admitted[t][c]
    BY <1>3
  <2>2. PICK b \in Seq(Ages) : b = bucket[t][KeyOf(c)]
    BY <1>3
  <2>3. PICK p : p = Aged(a)
    OBVIOUS
  <2>4. PICK q : q = Fresh(p)
    OBVIOUS
  <2>5. PICK g : g = Aged(b)
    OBVIOUS
  <2>6. Follows(b, a, s, c)
    BY <1>2, <2>1, <2>2
  <2>7. Follows(g, q, u, c)
    BY <1>2, <1>3, <1>4, <2>3, <2>4, <2>5, <2>6, FollowsOlder
  <2>8. bucket'[t][KeyOf(c)] = g /\ admitted'[t][c] = q
    BY <1>1, <2>1, <2>2, <2>3, <2>4, <2>5, KeyOfProperties
  <2> QED
    BY <2>7, <2>8
<1> QED
  BY <1>1, <1>2, <1>5, <1>6, <1>7 DEF TableInv, o, u

(* A client's requests are followed from the first on. *)
LEMMA InitLimiter == LimiterInit /\ LimiterTypeOK => LimiterInv
<1>0. LimiterInit => RefusedOnlyAtLimit
  BY DEF LimiterInit, RefusedOnlyAtLimit
<1> SUFFICES ASSUME LimiterInit, LimiterTypeOK, NEW t \in Tables
             PROVE  TableInv(order[t], bucket[t], admitted[t], seen[t])
  BY <1>0 DEF LimiterInv
<1>1. /\ order[t] = <<>> /\ refused = None
      /\ \A c \in Clients : /\ bucket[t][KeyOf(c)] = <<>> /\ admitted[t][c] = <<>>
                            /\ seen[t][c] = Window + 1
  BY KeyOfProperties DEF LimiterInit
<1>2. SeenIn(seen[t], Window) = {} /\ Len(<<>>) = 0 /\ ToSet(<<>>) = {} /\ Limit \in Nat
  BY <1>1, LimiterAssumption DEF SeenIn, ToSet
<1>3. \A c \in Clients : Follows(<<>>, <<>>, seen[t], c)
  BY <1>2 DEF Follows, Sorted
<1>4. InOrderSeen(order[t], seen[t])
  BY <1>1, <1>2 DEF InOrderSeen
<1>5. IsFiniteSet(SeenIn(seen[t], Window))
  BY <1>2, FS_EmptySet
<1> QED
  BY <1>1, <1>2, <1>3, <1>4, <1>5 DEF TableInv

(* Every step keeps it so; a refusal is the answer to a request for which  *)
(* the client's own were too many.                                         *)
LEMMA LimiterFollows ==
  ASSUME OneWay, LimiterInv, [LimiterNext]_limiterVars
  PROVE  LimiterInv'
<1> USE DEF LimiterInv
<1>1. LimiterTypeOK'
  BY LimiterStepTyped
<1>2. CASE TickWindow
  <2>1. \A t \in Tables : TableInv(order'[t], bucket'[t], admitted'[t], seen'[t])
    BY <1>2, TableOlder
  <2>2. RefusedOnlyAtLimit'
    BY <1>2 DEF TickWindow, RefusedOnlyAtLimit
  <2> QED
    BY <1>1, <2>1, <2>2
<1>3. CASE BadLength
  BY <1>1, <1>3 DEF BadLength, RefusedOnlyAtLimit
<1>4. ASSUME NEW r \in Requests, NEW t \in Tables, Enter(t, RateLimitKey(r)),
             Remember(t, r.client, Limited(t, RateLimitKey(r)))
      PROVE  /\ \A v \in Tables : TableInv(order'[v], bucket'[v], admitted'[v], seen'[v])
             /\ Limited(t, RateLimitKey(r)) =>
                  admitted' = admitted /\ Len(admitted[t][r.client]) >= Limit
  <2>1. r.client \in Clients /\ RateLimitKey(r) = KeyOf(r.client) /\ KeyOf(r.client) \in Keys
    BY RequestParts, KeyIsTheClients, KeyOfProperties
  <2>2. PICK c \in Clients : c = r.client
    BY <2>1
  <2>3. Enter(t, KeyOf(c)) /\ Remember(t, c, Limited(t, KeyOf(c)))
    BY <1>4, <2>1, <2>2
  <2>4. /\ TableInv(order'[t], bucket'[t], admitted'[t], seen'[t])
        /\ Limited(t, KeyOf(c)) => Len(admitted[t][c]) >= Limit
    BY <2>3, RequestFollowed
  <2>5. ASSUME NEW v \in Tables PROVE TableInv(order'[v], bucket'[v], admitted'[v], seen'[v])
    <3>1. CASE v = t
      BY <2>4, <3>1
    <3>2. CASE v # t
      <4>1. TableInv(order[v], bucket[v], admitted[v], seen[v])
        OBVIOUS
      <4> QED
        BY <2>1, <2>2, <2>3, <3>2, <4>1, OtherTable
    <3> QED
      BY <3>1, <3>2
  <2>6. Limited(t, KeyOf(c)) => admitted' = admitted
    BY <2>3 DEF Remember
  <2> QED
    BY <2>1, <2>2, <2>4, <2>5, <2>6
<1>5. ASSUME NEW r \in Requests, Unauthorized(r) PROVE LimiterInv'
  <2>1. "auth_failure" \in Tables
    BY DEF Tables
  <2>2. \A v \in Tables : TableInv(order'[v], bucket'[v], admitted'[v], seen'[v])
    BY <1>4, <1>5, <2>1 DEF Unauthorized
  <2>3. RefusedOnlyAtLimit'
    BY <1>5 DEF Unauthorized, RefusedOnlyAtLimit
  <2> QED
    BY <1>1, <2>2, <2>3
<1>6. ASSUME NEW r \in Requests, Unlimited(r) PROVE LimiterInv'
  BY <1>1, <1>6 DEF Unlimited, RefusedOnlyAtLimit
<1>7. ASSUME NEW r \in Requests, Limit429(r) PROVE LimiterInv'
  <2> DEFINE limited == Limited("request", RateLimitKey(r))
  <2>1. /\ "request" \in Tables /\ Enter("request", RateLimitKey(r))
        /\ Remember("request", r.client, limited)
        /\ refused' = IF limited THEN r.client ELSE None
    BY <1>7 DEF Limit429, Tables
  <2>2. /\ \A v \in Tables : TableInv(order'[v], bucket'[v], admitted'[v], seen'[v])
        /\ limited => admitted' = admitted /\ Len(admitted["request"][r.client]) >= Limit
    BY <1>4, <2>1
  <2> HIDE DEF limited
  <2>3. RefusedOnlyAtLimit'
    BY <2>1, <2>2 DEF RefusedOnlyAtLimit
  <2> QED
    BY <1>1, <2>2, <2>3
<1>8. CASE UNCHANGED limiterVars
  BY <1>1, <1>8 DEF limiterVars, RefusedOnlyAtLimit
<1> QED
  BY <1>2, <1>3, <1>5, <1>6, <1>7, <1>8 DEF LimiterNext

(* What follows the deques keeps the limit.                                *)
LEMMA FollowedIsLimited == LimiterInv => LimitHolds
<1> SUFFICES ASSUME LimiterInv, NEW t \in Tables, NEW c \in Clients,
                    Len(admitted[t][c]) > Limit
             PROVE  Cardinality({d \in Clients \ {c} : seen[t][d] <= Window}) >= MaxClients
  BY DEF LimiterInv, LimitHolds, OverLimitOnlyIfEvicted
<1> DEFINE b == bucket[t][KeyOf(c)]
           a == admitted[t][c]
           s == seen[t]
<1>1. /\ a \in Seq(Ages) /\ b \in Seq(Ages) /\ s \in [Clients -> Ages]
      /\ Follows(b, a, s, c) /\ IsFiniteSet(SeenIn(s, Window))
  BY KeyOfProperties DEF LimiterInv, LimiterTypeOK, TableInv
<1> HIDE DEF a, b, s
<1>2. Len(a) > Limit
  BY DEF a
<1>3. Len(a) \in 1..Len(a) /\ Len(b) < Len(a)
  <2>1. Len(b) \in Nat /\ Len(a) \in Nat /\ Limit \in Nat /\ Len(b) <= Limit
    BY <1>1, LimiterAssumption DEF Follows
  <2> QED
    BY <1>2, <2>1
<1>4. PICK y \in 0..Window : y = FromEnd(a, Len(a))
  BY <1>1, <1>3, AdmittedAges
<1>5. Crowd(s, c, y)
  BY <1>1, <1>3, <1>4 DEF Follows
<1>6. SeenIn(s, y) \subseteq SeenIn(s, Window)
  <2>1. \A d \in Clients : s[d] \in Nat
    BY <1>1 DEF Ages
  <2> QED
    BY <1>4, <2>1, LimiterAssumption DEF SeenIn
<1>7. Crowd(s, c, Window)
  BY <1>1, <1>5, <1>6, CrowdGrows
<1>8. SeenIn(s, Window) \ {c} = {d \in Clients \ {c} : s[d] <= Window}
  BY DEF SeenIn
<1> QED
  BY <1>7, <1>8 DEF Crowd, s

(* However many clients there are, and whatever they send: nobody is let   *)
(* through more often than allowed unless a crowd drove it out of the      *)
(* table, and nobody is refused for the requests of others, if each client *)
(* has one way to the server.                                              *)
THEOREM LimitIsKept == OneWay /\ LimiterSpec => []LimitHolds
<1> SUFFICES ASSUME OneWay PROVE LimiterSpec => []LimitHolds
  OBVIOUS
<1>1. LimiterInv /\ [LimiterNext]_limiterVars => LimiterInv'
  BY LimiterFollows
<1> QED
  BY <1>1, InitLimiter, FollowedIsLimited, LimiterTypeCorrectness, PTL DEF LimiterSpec
----------------------------------------------------------------------------
(* The metrics.  What a thread knows where it is: inside the lock, that nobody has been  *)
(* there before it; outside, that the registry is published.               *)
Knows(w) ==
  /\ At(w, "build") => ~resolved /\ counts = <<>>
  /\ At(w, "publish") => ~resolved /\ worker[w].got = Len(counts)
  /\ At(w, "resolve") => ~resolved /\ instance = Len(counts)
  /\ worker[w].at \in {"release", "read", "use"} => resolved
  /\ At(w, "use") => worker[w].got = instance

(* Nothing is constructed before someone who holds the lock does it, once. *)
Once ==
  /\ Len(counts) <= 1
  /\ resolved => instance = Len(counts)
  /\ Available /\ (resolved \/ \E w \in Workers : worker[w].at \in {"publish", "resolve"})
       => Len(counts) = 1
  /\ ~resolved /\ (\A w \in Workers : worker[w].at \notin {"publish", "resolve"})
       => counts = <<>>

(* The one registry has counted the calls that have returned; none has     *)
(* before it is published.                                                 *)
Counted ==
  /\ ~resolved => finished = 0
  /\ Available => finished = IF Len(counts) = 0 THEN 0 ELSE counts[1]

Scraped ==
  \A w \in Workers :
    /\ worker[w].before <= finished
    /\ Available /\ At(w, "idle") /\ worker[w].op = "render" =>
         worker[w].shown >= worker[w].before

MetricsInv ==
  /\ MetricsTypeOK /\ Once /\ Counted /\ Scraped
  /\ \A w \in Workers : Knows(w)
----------------------------------------------------------------------------
(* Before the first use the invariant holds. *)
LEMMA InitMetrics == MetricsInit => MetricsInv
<1> SUFFICES ASSUME MetricsInit PROVE MetricsInv
  OBVIOUS
<1> USE MetricsAssumption DEF MetricsInit, At, Resting, Places, Locked
<1>1. MetricsTypeOK
  <2>1. counts \in Seq(Nat) /\ Len(counts) = 0
    OBVIOUS
  <2>2. \A w \in Workers : holder = w <=> worker[w].at \in Locked
    OBVIOUS
  <2>3. worker \in [Workers -> [at : Places, op : {"record", "render"},
                              got : 0..Len(counts), before : Nat, shown : Nat]]
    BY <2>1
  <2>4. instance \in 0..Len(counts) /\ begun \in Nat /\ finished \in Nat
    BY <2>1
  <2>5. resolved \in BOOLEAN /\ holder \in Workers \cup {NoWorker}
    OBVIOUS
  <2> HIDE DEF MetricsInit
  <2> QED
    BY <2>1, <2>2, <2>3, <2>4, <2>5 DEF MetricsTypeOK
<1>2. Once /\ Counted /\ Scraped /\ \A w \in Workers : Knows(w)
  BY DEF Once, Counted, Scraped, Knows
<1> QED
  BY <1>1, <1>2 DEF MetricsInv

(* Two threads are never inside the lock. *)
LEMMA OneInside ==
  ASSUME MetricsTypeOK, NEW w \in Workers, worker[w].at \in Locked,
         NEW v \in Workers \ {w}
  PROVE  worker[v].at \notin Locked
  BY DEF MetricsTypeOK

(* A thread that moves to another place is otherwise the same.             *)
LEMMA Moving ==
  ASSUME MetricsTypeOK, NEW w \in Workers, NEW place \in Places, Move(w, place),
         counts' = counts
  PROVE  /\ worker' \in [Workers -> [at : Places, op : {"record", "render"},
                                    got : 0..Len(counts'), before : Nat, shown : Nat]]
         /\ worker'[w].at = place
         /\ \A v \in Workers \ {w} : worker'[v] = worker[v]
<1> DEFINE T == [at : Places, op : {"record", "render"}, got : 0..Len(counts),
                 before : Nat, shown : Nat]
<1>1. worker \in [Workers -> T] /\ worker' = [worker EXCEPT ![w].at = place]
  BY DEF MetricsTypeOK, Move
<1>2. \A t \in T : [t EXCEPT !.at = place] \in T /\ [t EXCEPT !.at = place].at = place
  OBVIOUS
<1>3. worker' \in [Workers -> T] /\ worker'[w] = [worker[w] EXCEPT !.at = place]
  <2> HIDE DEF T
  <2>1. worker' = [worker EXCEPT ![w] = [worker[w] EXCEPT !.at = place]]
    BY <1>1
  <2> QED
    BY <1>1, <1>2, <2>1
<1>4. \A v \in Workers \ {w} : worker'[v] = worker[v]
  BY <1>1
<1> QED
  BY <1>1, <1>2, <1>3, <1>4

(* One step per action.  Those before the lock and after the last read     *)
(* move one thread; those inside it use that nobody else is there.         *)
LEMMA NextMetrics == MetricsInv /\ [MetricsNext]_metricsVars => MetricsInv'
<1> SUFFICES ASSUME MetricsInv, [MetricsNext]_metricsVars PROVE MetricsInv'
  OBVIOUS
<1> USE MetricsAssumption DEF At, Move, Places, Locked
<1> DEFINE Thread(n) == [at : Places, op : {"record", "render"}, got : 0..n,
                 before : Nat, shown : Nat]
<1>nat. Len(counts) \in Nat /\ finished \in Nat
  BY DEF MetricsInv, MetricsTypeOK
<1>thread. \A v \in Workers : worker[v] \in Thread(Len(counts))
  BY DEF MetricsInv, MetricsTypeOK
<1>1. ASSUME NEW w \in Workers, RecordCall(w) PROVE MetricsInv'
  <2>1. MetricsTypeOK'
    <3>1. [Resting EXCEPT !.at = "first"] \in Thread(Len(counts))
      BY <1>nat DEF Resting
    <3>2. worker' \in [Workers -> Thread(Len(counts))]
      BY <1>1, <3>1 DEF RecordCall, MetricsInv, MetricsTypeOK
    <3>3. worker'[w].at = "first" /\ worker[w].at = "idle"
      BY <1>1 DEF RecordCall, Resting, MetricsInv, MetricsTypeOK
    <3>4. \A v \in Workers \ {w} : worker'[v] = worker[v]
      BY <1>1 DEF RecordCall, MetricsInv, MetricsTypeOK
    <3>5. \A v \in Workers : holder' = v <=> worker'[v].at \in Locked
      BY <1>1, <3>3, <3>4 DEF RecordCall, MetricsInv, MetricsTypeOK
    <3>6. begun' \in Nat
      BY <1>1 DEF RecordCall, MetricsInv, MetricsTypeOK
    <3> QED
      BY <1>1, <3>2, <3>5, <3>6 DEF RecordCall, MetricsInv, MetricsTypeOK
  <2>2. Once'
    BY <1>1 DEF RecordCall, Resting, MetricsInv, MetricsTypeOK, Once
  <2>3. Counted'
    BY <1>1 DEF RecordCall, MetricsInv, Counted
  <2>4. Scraped'
    BY <1>1 DEF RecordCall, Resting, MetricsInv, MetricsTypeOK, Scraped
  <2>5. \A v \in Workers : Knows(v)'
    BY <1>1 DEF RecordCall, Resting, MetricsInv, MetricsTypeOK, Knows
  <2> QED
    BY <2>1, <2>2, <2>3, <2>4, <2>5 DEF MetricsInv
<1>2. ASSUME NEW w \in Workers, Render(w) PROVE MetricsInv'
  <2>1. MetricsTypeOK'
    <3>1. [at |-> "first", op |-> "render", got |-> 0, before |-> finished, shown |-> 0]
            \in Thread(Len(counts))
      BY <1>nat
    <3>2. worker' \in [Workers -> [at : Places, op : {"record", "render"},
                                got : 0..Len(counts'), before : Nat, shown : Nat]]
      BY <1>2, <1>thread, <3>1 DEF Render, MetricsInv, MetricsTypeOK
    <3>3. \A v \in Workers : holder' = v <=> worker'[v].at \in Locked
      BY <1>2 DEF Render, MetricsInv, MetricsTypeOK
    <3> QED
      BY <1>2, <3>2, <3>3 DEF Render, Resting, MetricsInv, MetricsTypeOK
  <2>2. Once'
    BY <1>2 DEF Render, MetricsInv, Once, Knows, MetricsTypeOK
  <2>3. Counted'
    BY <1>2 DEF Render, MetricsInv, Once, Counted, Knows, MetricsTypeOK
  <2>4. Scraped'
    BY <1>2 DEF Render, MetricsInv, Scraped, Once, Counted, Knows, MetricsTypeOK
  <2>5. \A v \in Workers : Knows(v)'
    BY <1>2 DEF Render, MetricsInv, Once, Knows, MetricsTypeOK
  <2> QED
    BY <2>1, <2>2, <2>3, <2>4, <2>5 DEF MetricsInv
<1>3. ASSUME NEW w \in Workers, FirstCheck(w) PROVE MetricsInv'
  <2>1. MetricsTypeOK'
    <3>1. counts' = counts /\ \E place \in Places : Move(w, place)
      <4>1. (IF resolved THEN "read" ELSE "lock") \in Places
        OBVIOUS
      <4> QED
        BY <1>3, <4>1 DEF FirstCheck
    <3>2. worker' \in [Workers -> [at : Places, op : {"record", "render"},
                                got : 0..Len(counts'), before : Nat, shown : Nat]]
      BY <3>1, Moving DEF MetricsInv
    <3>3. \A v \in Workers : holder' = v <=> worker'[v].at \in Locked
      BY <1>3 DEF FirstCheck, MetricsInv, MetricsTypeOK
    <3> QED
      BY <1>3, <3>2, <3>3 DEF FirstCheck, MetricsInv, MetricsTypeOK
  <2>2. Once'
    BY <1>3 DEF FirstCheck, MetricsInv, Once, Knows, MetricsTypeOK
  <2>3. Counted'
    BY <1>3 DEF FirstCheck, MetricsInv, Once, Counted, Knows, MetricsTypeOK
  <2>4. Scraped'
    BY <1>3 DEF FirstCheck, MetricsInv, Scraped, Once, Counted, Knows, MetricsTypeOK
  <2>5. \A v \in Workers : Knows(v)'
    BY <1>3 DEF FirstCheck, MetricsInv, Once, Knows, MetricsTypeOK
  <2> QED
    BY <2>1, <2>2, <2>3, <2>4, <2>5 DEF MetricsInv
<1>4. ASSUME NEW w \in Workers, Acquire(w) PROVE MetricsInv'
  <2>1. MetricsTypeOK'
    <3>1. counts' = counts /\ \E place \in Places : Move(w, place)
      <4>1. "second" \in Places
        OBVIOUS
      <4> QED
        BY <1>4, <4>1 DEF Acquire
    <3>2. worker' \in [Workers -> [at : Places, op : {"record", "render"},
                                got : 0..Len(counts'), before : Nat, shown : Nat]]
      BY <3>1, Moving DEF MetricsInv
    <3>3. \A v \in Workers : holder' = v <=> worker'[v].at \in Locked
      BY <1>4 DEF Acquire, MetricsInv, MetricsTypeOK
    <3> QED
      BY <1>4, <3>2, <3>3 DEF Acquire, MetricsInv, MetricsTypeOK
  <2>2. Once'
    BY <1>4 DEF Acquire, MetricsInv, Once, Knows, MetricsTypeOK
  <2>3. Counted'
    BY <1>4 DEF Acquire, MetricsInv, Counted, MetricsTypeOK
  <2>4. Scraped'
    BY <1>4 DEF Acquire, MetricsInv, Scraped, Counted, MetricsTypeOK
  <2>5. \A v \in Workers : Knows(v)'
    BY <1>4 DEF Acquire, MetricsInv, Once, Knows, MetricsTypeOK
  <2> QED
    BY <2>1, <2>2, <2>3, <2>4, <2>5 DEF MetricsInv
<1>5. ASSUME NEW w \in Workers, SecondCheck(w) PROVE MetricsInv'
  <2>1. MetricsTypeOK'
    <3>1. counts' = counts /\ \E place \in Places : Move(w, place)
      <4>1. (IF resolved THEN "release" ELSE "build") \in Places
        OBVIOUS
      <4> QED
        BY <1>5, <4>1 DEF SecondCheck
    <3>2. worker' \in [Workers -> [at : Places, op : {"record", "render"},
                                got : 0..Len(counts'), before : Nat, shown : Nat]]
      BY <3>1, Moving DEF MetricsInv
    <3>3. \A v \in Workers : holder' = v <=> worker'[v].at \in Locked
      BY <1>5, OneInside DEF SecondCheck, MetricsInv, MetricsTypeOK
    <3> QED
      BY <1>5, <3>2, <3>3 DEF SecondCheck, MetricsInv, MetricsTypeOK
  <2>2. Once'
    BY <1>5, OneInside DEF SecondCheck, MetricsInv, Once, Knows, MetricsTypeOK
  <2>3. Counted'
    BY <1>5, OneInside DEF SecondCheck, MetricsInv, Once, Counted, Knows, MetricsTypeOK
  <2>4. Scraped'
    BY <1>5, OneInside DEF SecondCheck, MetricsInv, Scraped, Once, Counted, Knows, MetricsTypeOK
  <2>5. \A v \in Workers : Knows(v)'
    <3>1. ~resolved => counts = <<>>
      BY <1>5, OneInside DEF SecondCheck, MetricsInv, Once
    <3>2. worker'[w].at = IF resolved THEN "release" ELSE "build"
      BY <1>5 DEF SecondCheck, MetricsInv, MetricsTypeOK
    <3>3. \A v \in Workers \ {w} : worker'[v] = worker[v]
      BY <1>5 DEF SecondCheck, MetricsInv, MetricsTypeOK
    <3>4. resolved' = resolved /\ instance' = instance /\ counts' = counts
      BY <1>5 DEF SecondCheck
    <3>5. Knows(w)'
      BY <3>1, <3>2, <3>4 DEF Knows
    <3>6. ASSUME NEW v \in Workers \ {w} PROVE Knows(v)'
      BY <3>3, <3>4, <3>6 DEF Knows, MetricsInv
    <3> QED
      BY <3>5, <3>6
  <2> QED
    BY <2>1, <2>2, <2>3, <2>4, <2>5 DEF MetricsInv
<1>6. ASSUME NEW w \in Workers, Build(w) PROVE MetricsInv'
  <2>1. MetricsTypeOK'
    <3>1. counts' \in Seq(Nat) /\ Len(counts') >= Len(counts) /\ Len(counts') \in Nat
      BY <1>6 DEF Build, MetricsInv, MetricsTypeOK
    <3>a. \A v \in Workers : worker[v] \in Thread(Len(counts'))
      BY <1>thread, <3>1 DEF MetricsInv, MetricsTypeOK
    <3>b. [worker[w] EXCEPT !.at = "publish", !.got = Len(counts')] \in Thread(Len(counts'))
      <4>1. Len(counts') \in 0..Len(counts')
        BY <3>1
      <4>2. \A t \in Thread(Len(counts')), n \in 0..Len(counts') :
              [t EXCEPT !.at = "publish", !.got = n] \in Thread(Len(counts'))
        OBVIOUS
      <4> QED
        BY <3>a, <4>1, <4>2
    <3>c. worker' = [worker EXCEPT ![w] =
                       [worker[w] EXCEPT !.at = "publish", !.got = Len(counts')]]
      BY <1>6 DEF Build, MetricsInv, MetricsTypeOK
    <3>2. worker' \in [Workers -> [at : Places, op : {"record", "render"},
                                got : 0..Len(counts'), before : Nat, shown : Nat]]
      BY <3>a, <3>b, <3>c DEF MetricsInv, MetricsTypeOK
    <3>3. \A v \in Workers : holder' = v <=> worker'[v].at \in Locked
      BY <1>6, OneInside DEF Build, MetricsInv, MetricsTypeOK
    <3>4. /\ resolved' \in BOOLEAN /\ instance' \in 0..Len(counts')
          /\ holder' \in Workers \cup {NoWorker} /\ begun' \in Nat /\ finished' \in Nat
      <4>1. UNCHANGED <<resolved, instance, holder, begun, finished>>
        BY <1>6 DEF Build
      <4>2. instance \in 0..Len(counts)
        BY DEF MetricsInv, MetricsTypeOK
      <4>3. instance \in 0..Len(counts')
        BY <4>2, <3>1, <1>nat
      <4> QED
        BY <4>1, <4>3 DEF MetricsInv, MetricsTypeOK
    <3> QED
      BY <3>1, <3>2, <3>3, <3>4 DEF MetricsTypeOK
  <2>2. Once'
    BY <1>6, OneInside DEF Build, MetricsInv, Once, Knows, MetricsTypeOK
  <2>3. Counted'
    BY <1>6, OneInside DEF Build, MetricsInv, Once, Counted, Knows, MetricsTypeOK
  <2>4. Scraped'
    BY <1>6, OneInside DEF Build, MetricsInv, Scraped, Once, Counted, Knows, MetricsTypeOK
  <2>5. \A v \in Workers : Knows(v)'
    BY <1>6, OneInside DEF Build, MetricsInv, Once, Knows, MetricsTypeOK
  <2> QED
    BY <2>1, <2>2, <2>3, <2>4, <2>5 DEF MetricsInv
<1>7. ASSUME NEW w \in Workers, Publish(w) PROVE MetricsInv'
  <2>1. MetricsTypeOK'
    <3>1. counts' = counts /\ \E place \in Places : Move(w, place)
      <4>1. "resolve" \in Places
        OBVIOUS
      <4> QED
        BY <1>7, <4>1 DEF Publish
    <3>2. worker' \in [Workers -> [at : Places, op : {"record", "render"},
                                got : 0..Len(counts'), before : Nat, shown : Nat]]
      BY <3>1, Moving DEF MetricsInv
    <3>3. \A v \in Workers : holder' = v <=> worker'[v].at \in Locked
      BY <1>7, OneInside DEF Publish, MetricsInv, MetricsTypeOK
    <3> QED
      BY <1>7, <3>2, <3>3 DEF Publish, MetricsInv, MetricsTypeOK
  <2>2. Once'
    BY <1>7, OneInside DEF Publish, MetricsInv, Once, Knows, MetricsTypeOK
  <2>3. Counted'
    BY <1>7, OneInside DEF Publish, MetricsInv, Once, Counted, Knows, MetricsTypeOK
  <2>4. Scraped'
    BY <1>7, OneInside DEF Publish, MetricsInv, Scraped, Once, Counted, Knows, MetricsTypeOK
  <2>5. \A v \in Workers : Knows(v)'
    BY <1>7, OneInside DEF Publish, MetricsInv, Once, Knows, MetricsTypeOK
  <2> QED
    BY <2>1, <2>2, <2>3, <2>4, <2>5 DEF MetricsInv
<1>8. ASSUME NEW w \in Workers, Resolve(w) PROVE MetricsInv'
  <2>1. MetricsTypeOK'
    <3>1. counts' = counts /\ \E place \in Places : Move(w, place)
      <4>1. "release" \in Places
        OBVIOUS
      <4> QED
        BY <1>8, <4>1 DEF Resolve
    <3>2. worker' \in [Workers -> [at : Places, op : {"record", "render"},
                                got : 0..Len(counts'), before : Nat, shown : Nat]]
      BY <3>1, Moving DEF MetricsInv
    <3>3. \A v \in Workers : holder' = v <=> worker'[v].at \in Locked
      BY <1>8, OneInside DEF Resolve, MetricsInv, MetricsTypeOK
    <3> QED
      BY <1>8, <3>2, <3>3 DEF Resolve, MetricsInv, MetricsTypeOK
  <2>2. Once'
    BY <1>8, OneInside DEF Resolve, MetricsInv, Once, Knows, MetricsTypeOK
  <2>3. Counted'
    BY <1>8 DEF Resolve, MetricsInv, Once, Counted, Knows, MetricsTypeOK
  <2>4. Scraped'
    BY <1>8 DEF Resolve, MetricsInv, Scraped, Once, Counted, Knows, MetricsTypeOK
  <2>5. \A v \in Workers : Knows(v)'
    BY <1>8, OneInside DEF Resolve, MetricsInv, Once, Knows, MetricsTypeOK
  <2> QED
    BY <2>1, <2>2, <2>3, <2>4, <2>5 DEF MetricsInv
<1>9. ASSUME NEW w \in Workers, Release(w) PROVE MetricsInv'
  <2>1. MetricsTypeOK'
    <3>1. counts' = counts /\ \E place \in Places : Move(w, place)
      <4>1. "read" \in Places
        OBVIOUS
      <4> QED
        BY <1>9, <4>1 DEF Release
    <3>2. worker' \in [Workers -> [at : Places, op : {"record", "render"},
                                got : 0..Len(counts'), before : Nat, shown : Nat]]
      BY <3>1, Moving DEF MetricsInv
    <3>3. \A v \in Workers : holder' = v <=> worker'[v].at \in Locked
      BY <1>9, OneInside DEF Release, MetricsInv, MetricsTypeOK
    <3> QED
      BY <1>9, <3>2, <3>3 DEF Release, MetricsInv, MetricsTypeOK
  <2>2. Once'
    BY <1>9, OneInside DEF Release, MetricsInv, Once, Knows, MetricsTypeOK
  <2>3. Counted'
    BY <1>9 DEF Release, MetricsInv, Once, Counted, Knows, MetricsTypeOK
  <2>4. Scraped'
    BY <1>9 DEF Release, MetricsInv, Scraped, Once, Counted, Knows, MetricsTypeOK
  <2>5. \A v \in Workers : Knows(v)'
    BY <1>9, OneInside DEF Release, MetricsInv, Once, Knows, MetricsTypeOK
  <2> QED
    BY <2>1, <2>2, <2>3, <2>4, <2>5 DEF MetricsInv
<1>10. ASSUME NEW w \in Workers, ReadInstance(w) PROVE MetricsInv'
  <2>1. MetricsTypeOK'
    <3>1. instance \in 0..Len(counts)
      BY DEF MetricsInv, MetricsTypeOK
    <3>a. [worker[w] EXCEPT !.at = "use", !.got = instance] \in Thread(Len(counts))
      <4>1. \A t \in Thread(Len(counts)), n \in 0..Len(counts) :
              [t EXCEPT !.at = "use", !.got = n] \in Thread(Len(counts))
        OBVIOUS
      <4> QED
        BY <1>thread, <3>1, <4>1
    <3>b. worker' = [worker EXCEPT ![w] =
                       [worker[w] EXCEPT !.at = "use", !.got = instance]]
      BY <1>10 DEF ReadInstance, MetricsInv, MetricsTypeOK
    <3>c. counts' = counts
      BY <1>10 DEF ReadInstance
    <3>2. worker' \in [Workers -> [at : Places, op : {"record", "render"},
                                got : 0..Len(counts'), before : Nat, shown : Nat]]
      BY <3>a, <3>b, <3>c, <1>thread DEF MetricsInv, MetricsTypeOK
    <3>3. \A v \in Workers : holder' = v <=> worker'[v].at \in Locked
      BY <1>10 DEF ReadInstance, MetricsInv, MetricsTypeOK
    <3> QED
      BY <1>10, <3>2, <3>3 DEF ReadInstance, MetricsInv, MetricsTypeOK
  <2>2. Once'
    BY <1>10 DEF ReadInstance, MetricsInv, Once, Knows, MetricsTypeOK
  <2>3. Counted'
    BY <1>10 DEF ReadInstance, MetricsInv, Counted, MetricsTypeOK
  <2>4. Scraped'
    BY <1>10 DEF ReadInstance, MetricsInv, Scraped, Counted, MetricsTypeOK
  <2>5. \A v \in Workers : Knows(v)'
    BY <1>10 DEF ReadInstance, MetricsInv, Once, Knows, MetricsTypeOK
  <2> QED
    BY <2>1, <2>2, <2>3, <2>4, <2>5 DEF MetricsInv
<1>11. ASSUME NEW w \in Workers, CountCall(w) PROVE MetricsInv'
  <2>1. MetricsTypeOK'
    <3>1. counts' \in Seq(Nat) /\ Len(counts') = Len(counts)
      BY <1>11 DEF CountCall, MetricsInv, MetricsTypeOK
    <3>a. [worker[w] EXCEPT !.at = "idle"] \in Thread(Len(counts'))
      BY <1>thread, <3>1
    <3>b. worker' = [worker EXCEPT ![w] = [worker[w] EXCEPT !.at = "idle"]]
      BY <1>11 DEF CountCall, MetricsInv, MetricsTypeOK
    <3>2. worker' \in [Workers -> [at : Places, op : {"record", "render"},
                                got : 0..Len(counts'), before : Nat, shown : Nat]]
      BY <3>a, <3>b, <3>1, <1>thread DEF MetricsInv, MetricsTypeOK
    <3>3. \A v \in Workers : holder' = v <=> worker'[v].at \in Locked
      BY <1>11 DEF CountCall, MetricsInv, MetricsTypeOK
    <3>4. resolved' \in BOOLEAN /\ instance' \in 0..Len(counts') /\ finished' \in Nat
          /\ begun' \in Nat /\ holder' \in Workers \cup {NoWorker}
      BY <1>11, <3>1 DEF CountCall, MetricsInv, MetricsTypeOK
    <3> QED
      BY <3>1, <3>2, <3>3, <3>4 DEF MetricsTypeOK
  <2>2. Once'
    BY <1>11 DEF CountCall, MetricsInv, Once, Knows, MetricsTypeOK
  <2>3. Counted'
    <3>1. resolved /\ worker[w].got = Len(counts) /\ (Available => Len(counts) = 1)
      BY <1>11 DEF CountCall, MetricsInv, Once, Knows
    <3>2. Available => /\ counts' = [counts EXCEPT ![1] = @ + 1] /\ Len(counts') = 1
                       /\ counts'[1] = counts[1] + 1
      <4> SUFFICES ASSUME Available
                   PROVE  /\ counts' = [counts EXCEPT ![1] = @ + 1] /\ Len(counts') = 1
                          /\ counts'[1] = counts[1] + 1
        OBVIOUS
      <4>0. worker[w].got = 1
        BY <3>1
      <4>1. counts' = [counts EXCEPT ![1] = @ + 1]
        BY <1>11, <4>0 DEF CountCall
      <4>2. counts \in Seq(Nat) /\ Len(counts) = 1
        BY <3>1 DEF MetricsInv, MetricsTypeOK
      <4> QED
        BY <4>1, <4>2
    <3> QED
      BY <1>11, <3>1, <3>2 DEF CountCall, MetricsInv, Counted
  <2>4. Scraped'
    BY <1>11 DEF CountCall, MetricsInv, Scraped, Once, Counted, Knows, MetricsTypeOK
  <2>5. \A v \in Workers : Knows(v)'
    BY <1>11 DEF CountCall, MetricsInv, Once, Knows, MetricsTypeOK
  <2> QED
    BY <2>1, <2>2, <2>3, <2>4, <2>5 DEF MetricsInv
<1>12. ASSUME NEW w \in Workers, ExportText(w) PROVE MetricsInv'
  <2>1. MetricsTypeOK'
    <3>1. worker[w].got \in 0..Len(counts)
          /\ (worker[w].got # 0 => counts[worker[w].got] \in Nat)
      BY <1>12 DEF ExportText, MetricsInv, MetricsTypeOK
    <3>a. PICK n \in Nat : worker' = [worker EXCEPT ![w] =
                                  [worker[w] EXCEPT !.at = "idle", !.shown = n]]
      BY <1>12, <3>1 DEF ExportText, MetricsInv, MetricsTypeOK
    <3>b. [worker[w] EXCEPT !.at = "idle", !.shown = n] \in Thread(Len(counts'))
      BY <1>12, <1>thread DEF ExportText
    <3>2. worker' \in [Workers -> [at : Places, op : {"record", "render"},
                                got : 0..Len(counts'), before : Nat, shown : Nat]]
      BY <1>12, <3>a, <3>b, <1>thread DEF ExportText, MetricsInv, MetricsTypeOK
    <3>3. \A v \in Workers : holder' = v <=> worker'[v].at \in Locked
      BY <1>12 DEF ExportText, MetricsInv, MetricsTypeOK
    <3> QED
      BY <1>12, <3>2, <3>3, <3>1 DEF ExportText, MetricsInv, MetricsTypeOK
  <2>2. Once'
    BY <1>12 DEF ExportText, MetricsInv, Once, Knows, MetricsTypeOK
  <2>3. Counted'
    BY <1>12 DEF ExportText, MetricsInv, Once, Counted, Knows, MetricsTypeOK
  <2>4. Scraped'
    BY <1>12 DEF ExportText, MetricsInv, Scraped, Once, Counted, Knows, MetricsTypeOK
  <2>5. \A v \in Workers : Knows(v)'
    BY <1>12 DEF ExportText, MetricsInv, Once, Knows, MetricsTypeOK
  <2> QED
    BY <2>1, <2>2, <2>3, <2>4, <2>5 DEF MetricsInv
<1>13. CASE UNCHANGED metricsVars
  BY <1>13 DEF metricsVars, MetricsInv, MetricsTypeOK, Once, Counted, Scraped, Knows
<1> QED
  BY <1>1, <1>2, <1>3, <1>4, <1>5, <1>6, <1>7, <1>8, <1>9, <1>10, <1>11, <1>12, <1>13
     DEF MetricsNext, GetStep

(* The invariant of the registry (obs/metrics.py) holds in every reachable state. *)
THEOREM MetricsInvariance == MetricsSpec => []MetricsInv
  BY InitMetrics, NextMetrics, PTL DEF MetricsSpec

(* The state of the registry is well formed, and the lock is held exactly  *)
(* by the thread that is between taking it and giving it back.             *)
THEOREM MetricsTypeCorrect == MetricsSpec => []MetricsTypeOK
<1>1. MetricsInv => MetricsTypeOK
  BY DEF MetricsInv
<1> QED
  BY <1>1, MetricsInvariance, PTL

(* However many threads find no registry at once, every call that returned *)
(* is counted in the one that is scraped, and every scrape shows the calls *)
(* that had returned when it began.                                        *)
THEOREM NoCallUncounted == MetricsSpec => []CallsCounted
<1>1. MetricsInv => CallsCounted
  BY MetricsAssumption
     DEF MetricsInv, MetricsTypeOK, Once, Counted, Scraped, CallsCounted, EveryCallCounted,
         ScrapeShowsFinished
<1> QED
  BY <1>1, MetricsInvariance, PTL
----------------------------------------------------------------------------
(* All of them together, one of which runs at a time (the instance that is *)
(* model-checked).  Each behaves as it does alone.                         *)
LEMMA EachAlone ==
  Spec => LimiterSpec /\ CacheSpec /\ MetricsSpec /\ StoreSpec
<1>1. Init => LimiterInit /\ CacheInit /\ MetricsInit /\ StoreInit
  BY DEF Init
<1>2. [Next]_vars => [LimiterNext]_limiterVars
  BY DEF Next, vars, Metrics, Store
<1>3. [Next]_vars => [CacheNext]_cacheVars
  BY DEF Next, vars, Metrics, Store
<1>4. [Next]_vars => [MetricsNext]_metricsVars
  BY DEF Next, vars, Metrics, Store
<1>5. [Next]_vars => [StoreNext]_storeVars
  BY DEF Next, vars, Metrics, Store
<1> QED
  BY <1>1, <1>2, <1>3, <1>4, <1>5, PTL
     DEF Spec, LimiterSpec, CacheSpec, MetricsSpec, StoreSpec

(* The server's tables, its metrics and its database are always well       *)
(* formed.                                                                 *)
THEOREM TypeCorrectness == Spec => []TypeOK
<1>1. LimiterTypeOK /\ CacheTypeOK /\ MetricsTypeOK /\ StoreTypeOK => TypeOK
  BY DEF TypeOK
<1> QED
  BY <1>1, EachAlone, LimiterTypeCorrectness, CacheTypeCorrectness, MetricsTypeCorrect,
     StoreTypeCorrectness, PTL
==============================================================================
