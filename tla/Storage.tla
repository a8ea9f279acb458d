------------------------------- MODULE Storage -------------------------------
(***************************************************************************)
(* board/storage.c: collected samples go through a message queue to the    *)
(* storage thread, which inserts them in an SQLite table inside a          *)
(* transaction it commits every ten seconds.  The web server commits in    *)
(* the middle of a configuration restore (bStorageDoCommit); a reset of    *)
(* the device closes the database first (bStorageDoClose,                  *)
(* NVIC_SystemReset in das_os.h:56).                                       *)
(*                                                                         *)
(* Everything between taking and releasing s_db_mutex is one step.  The    *)
(* unlocked reads of s_dbinit and s_db are steps of their own.  One table  *)
(* stands for the tables of the five record types: each has its own limit  *)
(* and nothing relates them.  The queue is MsgFifo, which BlockMsgQueue    *)
(* implements for one receiving thread.                                    *)
(*                                                                         *)
(* ST_T_COMMIT messages are left out: bStorageCommit, which sends them,    *)
(* has no caller.                                                          *)
(***************************************************************************)
EXTENDS Integers, SequencesExt

CONSTANTS
    Producers,      \* the collecting threads that call bStorageAddData
    QueueLimit,     \* STORAGE_LINE_LIMIT
    Limit,          \* s_limit_count[type]; a table with limit 0 takes nothing
    DelNum,         \* _DEL_NUM
    DbErrors,       \* may the medium fill up or break?
    MaxItems,       \* bound: samples offered to the storage
    MaxBoots        \* bound: restarts

ASSUME LimitAssumption == Limit \in Nat /\ DelNum \in Nat
ASSUME QueueAssumption == QueueLimit \in Nat \ {0}
ASSUME BoundsAssumption == MaxItems \in Nat /\ MaxBoots \in Nat
ASSUME FlagsAssumption == DbErrors \in BOOLEAN

VARIABLES
    mq,         \* s_stroage_mq: the samples waiting, oldest first
    dbinit,     \* s_dbinit
    db,         \* s_db is not NULL
    flag,       \* s_transaction
    txn,        \* SQLite has a transaction open
    table,      \* the table as the connection sees it
    disk,       \* the table a power failure leaves
    wk,         \* where the storage thread stands
    item,       \* the sample it received
    insert,     \* its local insert: something was inserted since the commit
    due,        \* ten seconds have passed since start_tick
    add,        \* add[p]: where producer p stands in bStorageAddData
    web,        \* where the web server stands in bStorageDoCommit
    resetting,  \* where NVIC_SystemReset stands
    offered,    \* samples offered so far; the next one is offered + 1
    broken,     \* SQLite may report errors: the medium is full or broken
    boots,      \* restarts so far
    early       \* history: see CommitNow

sqlite == <<flag, txn, table, disk>>
thread == <<wk, item, insert, due>>
callers == <<add, web, resetting>>
bounds == <<offered, boots, early>>

vars == <<mq, dbinit, db, sqlite, thread, callers, broken, bounds>>

Samples == 1 .. MaxItems
NoItem == 0

\* A table: the sample of each row id, and the last id AUTOINCREMENT gave.
EmptyTable == [rows |-> <<>>, last |-> 0]
Ids(t) == DOMAIN t.rows

\* The sequence of ids is not moved on.
InsertedSameId(t, s) ==
    [t EXCEPT !.rows = [i \in Ids(t) \cup {t.last + 1} |->
                            IF i = t.last + 1 THEN s ELSE t.rows[i]]]

\* INSERT with id NULL.
Inserted(t, s) ==
    LET id == t.last + 1
    IN  [rows |-> [i \in Ids(t) \cup {id} |-> IF i = id THEN s ELSE t.rows[i]],
         last |-> id]

\* DELETE FROM table WHERE id < bound.
DeletedBelow(t, bound) ==
    [rows |-> Restrict(t.rows, {i \in Ids(t) : i >= bound}), last |-> t.last]

\* maxid - minid > limit, both from the table just inserted into.
TooMany(t) ==
    /\ t.last > Limit
    /\ \E i \in Ids(t) : t.last - i > Limit

RelimitedTooLittle(t) ==
    IF TooMany(t) THEN DeletedBelow(t, t.last - Limit - DelNum) ELSE t

Relimited(t) ==
    IF TooMany(t) THEN DeletedBelow(t, t.last - Limit + DelNum) ELSE t

NewConnection ==
    /\ flag' = FALSE
    /\ txn' = FALSE
    /\ table' = disk
    /\ UNCHANGED disk

Init ==
    /\ mq = <<>>
    /\ dbinit = FALSE
    /\ db = FALSE
    /\ flag = FALSE /\ txn = FALSE /\ table = EmptyTable /\ disk = EmptyTable
    /\ wk = "open" /\ item = NoItem /\ insert = FALSE /\ due = FALSE
    /\ add = [p \in Producers |-> "idle"] /\ web = "idle" /\ resetting = "no"
    /\ broken = FALSE /\ offered = 0 /\ boots = 0 /\ early = FALSE

-----------------------------------------------------------------------------
(***************************************************************************)
(* Transactions.                                                           *)
(***************************************************************************)

\* sqlite3_exec "commit;" did or did not succeed.  Without a transaction it
\* fails; with one it fails only on an error of the medium.
CommitOutcomes == IF ~txn THEN {FALSE} ELSE IF broken THEN BOOLEAN ELSE {TRUE}

\* A commit that fails is left as it is.
CommittedOrLeft(ok) ==
    IF ~(dbinit /\ flag) THEN [table |-> table, disk |-> disk, txn |-> txn]
    ELSE IF ok           THEN [table |-> table, disk |-> table, txn |-> FALSE]
    ELSE                      [table |-> table, disk |-> disk, txn |-> txn]

\* __commit_transaction: [table, disk, txn] after it.  A commit that fails is
\* rolled back.
Committed(ok) ==
    IF ~(dbinit /\ flag) THEN [table |-> table, disk |-> disk, txn |-> txn]
    ELSE IF ok           THEN [table |-> table, disk |-> table, txn |-> FALSE]
    ELSE                      [table |-> disk, disk |-> disk, txn |-> FALSE]

\* __begin_transaction finds `open`: begin inside a transaction is an error.
BeginOutcomes(open) == IF open THEN {FALSE} ELSE IF broken THEN BOOLEAN ELSE {TRUE}

\* __commit_transaction(); __begin_transaction();
CommitAndBegin ==
    \E committed \in CommitOutcomes :
        LET c == Committed(committed)
        IN  \E begun \in BeginOutcomes(c.txn) :
                /\ table' = c.table
                /\ disk' = c.disk
                /\ txn' = (c.txn \/ (dbinit /\ begun))
                /\ flag' = IF dbinit THEN begun ELSE flag

-----------------------------------------------------------------------------
(***************************************************************************)
(* The storage thread.                                                     *)
(***************************************************************************)

\* sqlite3_open and the CREATE statements; the thread ends if one fails.
OpenDb ==
    /\ wk = "open"
    /\ \/ /\ NewConnection
          /\ db' = TRUE
          /\ dbinit' = TRUE
          /\ wk' = "begin"
       \/ /\ broken
          /\ wk' = "ended"
          /\ UNCHANGED <<db, dbinit, sqlite>>
    /\ UNCHANGED <<mq, item, insert, due, callers, broken, bounds>>

\* The first __begin_transaction takes no mutex.
BeginFirst ==
    /\ wk = "begin"
    /\ wk' = "recv"
    /\ IF dbinit
       THEN \E begun \in BeginOutcomes(txn) :
                /\ flag' = begun
                /\ txn' = (txn \/ begun)
       ELSE UNCHANGED <<flag, txn>>
    /\ UNCHANGED <<mq, dbinit, db, table, disk, item, insert, due, callers, broken, bounds>>

\* The newest sample first.
ReceiveNewest ==
    /\ wk = "recv"
    /\ mq # <<>>
    /\ mq' = Front(mq)
    /\ IF db /\ Limit > 0
       THEN wk' = "insert" /\ item' = Last(mq)
       ELSE wk' = "tick" /\ UNCHANGED item
    /\ UNCHANGED <<dbinit, db, sqlite, insert, due, callers, broken, bounds>>

\* rt_mq_recv returns a sample, and s_db is read without the mutex.
Receive ==
    /\ wk = "recv"
    /\ mq # <<>>
    /\ mq' = Tail(mq)
    /\ IF db /\ Limit > 0
       THEN wk' = "insert" /\ item' = Head(mq)
       ELSE wk' = "tick" /\ UNCHANGED item
    /\ UNCHANGED <<dbinit, db, sqlite, insert, due, callers, broken, bounds>>

\* rt_mq_recv times out after five seconds.
ReceiveTimeout ==
    /\ wk = "recv"
    /\ mq = <<>>
    /\ wk' = "tick"
    /\ UNCHANGED <<mq, dbinit, db, sqlite, item, insert, due, callers, broken, bounds>>

\* INSERT and __relimit_table under the mutex.  Outside a transaction the row
\* is durable at once; the statement fails on a closed handle and on an error
\* of the medium, which may also roll the transaction back, or strike between
\* the two so that nothing is deleted.
InsertRow(t) ==
    \E new \in {Relimited(Inserted(t, item))}
               \cup (IF broken THEN {Inserted(t, item)} ELSE {}) :
        /\ table' = new
        /\ disk' = IF txn THEN disk ELSE new
        /\ insert' = TRUE
        /\ UNCHANGED <<flag, txn>>

InsertFails ==
    /\ broken \/ ~db
    /\ \/ UNCHANGED <<insert, sqlite>>
       \/ /\ db
          /\ insert' = TRUE
          /\ \/ UNCHANGED sqlite
             \/ txn' = FALSE /\ table' = disk /\ UNCHANGED <<flag, disk>>

\* On an error the sample is inserted again, also when only the purge failed.
InsertTriedAgain ==
    /\ wk = "insert"
    /\ \/ db /\ InsertRow(table)
       \/ InsertFails
    /\ IF broken THEN UNCHANGED <<wk, item>> ELSE wk' = "tick" /\ item' = NoItem
    /\ UNCHANGED <<mq, dbinit, db, due, callers, broken, bounds>>

Insert ==
    /\ wk = "insert"
    /\ \/ db /\ InsertRow(table)
       \/ InsertFails
    /\ wk' = "tick"
    /\ item' = NoItem
    /\ UNCHANGED <<mq, dbinit, db, due, callers, broken, bounds>>

\* The end of the loop: commit if ten seconds have passed and rows came in.
CommitDue ==
    /\ wk = "tick"
    /\ due /\ insert
    /\ CommitAndBegin
    /\ insert' = FALSE
    /\ due' = FALSE
    /\ wk' = "recv"
    /\ UNCHANGED <<mq, dbinit, db, item, callers, broken, bounds>>

NothingDueForgets ==
    /\ wk = "tick"
    /\ ~(due /\ insert)
    /\ wk' = "recv"
    /\ insert' = FALSE
    /\ UNCHANGED <<mq, dbinit, db, sqlite, item, due, callers, broken, bounds>>

NothingDue ==
    /\ wk = "tick"
    /\ ~(due /\ insert)
    /\ wk' = "recv"
    /\ UNCHANGED <<mq, dbinit, db, sqlite, item, insert, due, callers, broken, bounds>>

\* Ten seconds have passed since start_tick.
TenSeconds ==
    /\ wk \notin {"open", "begin", "ended"}
    /\ ~due
    /\ due' = TRUE
    /\ UNCHANGED <<mq, dbinit, db, sqlite, wk, item, insert, callers, broken, bounds>>

StorageThread ==
    \/ OpenDb \/ BeginFirst \/ Receive \/ ReceiveTimeout \/ Insert
    \/ CommitDue \/ NothingDue

-----------------------------------------------------------------------------
(***************************************************************************)
(* The other threads.                                                      *)
(***************************************************************************)

\* bStorageAddData looks at s_dbinit and returns, or goes on.
AddLooks(p) ==
    /\ add[p] = "idle"
    /\ offered < MaxItems
    /\ IF dbinit
       THEN add' = [add EXCEPT ![p] = "send"] /\ UNCHANGED offered
       ELSE offered' = offered + 1 /\ UNCHANGED add
    /\ UNCHANGED <<mq, dbinit, db, sqlite, thread, web, resetting, broken, boots, early>>

\* It sends; a full queue loses the sample and bStorageAddData does not tell.
AddSends(p) ==
    /\ add[p] = "send"
    /\ offered < MaxItems
    /\ offered' = offered + 1
    /\ mq' = IF Len(mq) < QueueLimit THEN Append(mq, offered + 1) ELSE mq
    /\ add' = [add EXCEPT ![p] = "idle"]
    /\ UNCHANGED <<dbinit, db, sqlite, thread, web, resetting, broken, boots, early>>

\* bStorageDoCommit looks at s_dbinit, then commits under the mutex.
CommitLooks ==
    /\ web = "idle"
    /\ dbinit
    /\ web' = "commit"
    /\ UNCHANGED <<mq, dbinit, db, sqlite, thread, add, resetting, broken, bounds>>

\* History: it may begin a transaction before the storage thread does, whose
\* own begin then fails and clears s_transaction.
CommitNow ==
    /\ web = "commit"
    /\ CommitAndBegin
    /\ web' = "idle"
    /\ early' = (early \/ (wk = "begin" /\ txn'))
    /\ UNCHANGED <<mq, dbinit, db, thread, add, resetting, broken, offered, boots>>

\* bStorageDoClose looks at s_dbinit; without it the reset goes straight on.
CloseLooks ==
    /\ resetting = "no"
    /\ boots < MaxBoots
    /\ resetting' = IF dbinit THEN "close" ELSE "reboot"
    /\ UNCHANGED <<mq, dbinit, db, sqlite, thread, add, web, broken, bounds>>

CloseDbAtOnce ==
    /\ resetting = "close"
    /\ table' = disk
    /\ txn' = FALSE
    /\ flag' = FALSE
    /\ db' = FALSE
    /\ dbinit' = FALSE
    /\ resetting' = "closed"
    /\ UNCHANGED <<mq, disk, thread, add, web, broken, bounds>>

\* Under the mutex it commits and closes.  Closing a connection with a
\* transaction still open rolls that transaction back.
CloseDb ==
    /\ resetting = "close"
    /\ \E committed \in CommitOutcomes :
        LET c == IF db THEN Committed(committed)
                 ELSE [table |-> table, disk |-> disk, txn |-> txn]
        IN  /\ disk' = c.disk
            /\ table' = c.disk
    /\ txn' = FALSE
    /\ flag' = IF db /\ dbinit THEN FALSE ELSE flag
    /\ db' = FALSE
    /\ dbinit' = FALSE
    /\ resetting' = "closed"
    /\ UNCHANGED <<mq, thread, add, web, broken, bounds>>

\* my_system("reboot"), and a power failure at any moment: only the disk stays.
Restart ==
    /\ boots < MaxBoots
    /\ boots' = boots + 1
    /\ mq' = <<>>
    /\ dbinit' = FALSE /\ db' = FALSE
    /\ flag' = FALSE /\ txn' = FALSE /\ table' = disk /\ UNCHANGED disk
    /\ wk' = "open" /\ item' = NoItem /\ insert' = FALSE /\ due' = FALSE
    /\ add' = [p \in Producers |-> "idle"] /\ web' = "idle" /\ resetting' = "no"
    /\ early' = FALSE
    /\ UNCHANGED <<broken, offered>>

\* The medium fills up or fails, and recovers.
Medium ==
    /\ DbErrors
    /\ broken' = ~broken
    /\ UNCHANGED <<mq, dbinit, db, sqlite, thread, callers, bounds>>

Next ==
    \/ StorageThread \/ TenSeconds
    \/ \E p \in Producers : AddLooks(p) \/ AddSends(p)
    \/ CommitLooks \/ CommitNow \/ CloseLooks \/ CloseDb
    \/ Restart \/ Medium

Spec == Init /\ [][Next]_vars

\* The storage thread runs and time passes.
FairSpec == Spec /\ WF_vars(StorageThread) /\ WF_vars(TenSeconds)

-----------------------------------------------------------------------------
WkStates == {"open", "begin", "recv", "insert", "tick", "ended"}

IsTable(t) ==
    /\ t.last \in Nat
    /\ Ids(t) \subseteq 1 .. t.last
    /\ \A i \in Ids(t) : t.rows[i] \in Samples

TypeOK ==
    /\ mq \in Seq(Samples) /\ Len(mq) <= QueueLimit
    /\ dbinit \in BOOLEAN /\ db \in BOOLEAN
    /\ flag \in BOOLEAN /\ txn \in BOOLEAN
    /\ IsTable(table) /\ IsTable(disk)
    /\ wk \in WkStates /\ item \in Samples \cup {NoItem}
    /\ wk = "insert" <=> item # NoItem
    /\ insert \in BOOLEAN /\ due \in BOOLEAN
    /\ add \in [Producers -> {"idle", "send"}]
    /\ web \in {"idle", "commit"}
    /\ resetting \in {"no", "close", "closed", "reboot"}
    /\ broken \in BOOLEAN /\ offered \in 0 .. MaxItems /\ boots \in 0 .. MaxBoots
    /\ early \in BOOLEAN

\* SQLite never has a transaction open that s_transaction does not know of:
\* such a transaction would never be committed, and every later begin would
\* fail.  Commits of the storage thread, of the web server and of the reset,
\* failing or not, keep the two in step, with one exception: a transaction the
\* web server begins between storage.c:319, which sets s_dbinit, and 345, the
\* thread's own first begin, which takes no mutex (early).
NoOrphanTransaction == txn /\ ~early => flag

\* After every insert on a sound medium the table spans at most Limit + 1 row
\* ids, so that the file stays within its share of the flash: also when
\* inserts or purges failed, commits were rolled back or the power failed
\* before.  And __relimit_table keeps the row just inserted as long as
\* _DEL_NUM <= limit.
InWindow(t) ==
    /\ \A i \in Ids(t) : t.last - i <= Limit
    /\ DelNum <= Limit => t.last \in Ids(t)
RetentionRestored ==
    [][(wk = "insert" /\ wk' = "tick" /\ table' # table /\ ~broken)
            => InWindow(table')]_vars

\* Rows stand in the order the samples were accepted and none stands twice,
\* also when a failed commit rolled ids back that are then given again, and
\* when a power failure came in between.
InOrder(t) == \A i, j \in Ids(t) : i < j => t.rows[i] < t.rows[j]
RowsInOrder == InOrder(table) /\ InOrder(disk)

\* Readers of the table and the survivor of a power failure see a log: samples
\* have their turn once, in the order they were offered, the purge forgets the
\* oldest only, and a rollback, a reset or a failing power brings back what the
\* last commit kept, after which no sample comes again.
RowsOf(t) == {t.rows[i] : i \in Ids(t)}
Passed ==
    IF item # NoItem THEN item - 1
    ELSE IF mq # <<>> THEN Head(mq) - 1
    ELSE offered
Log == INSTANCE DurableLog WITH
    passed <- Passed, shown <- RowsOf(table), kept <- RowsOf(disk)
LogSpec == Log!Spec

\* A reset closes the database with every inserted row on the disk unless the
\* medium fails or the transaction is an orphan (early), and from then on
\* nothing is written: the sample the storage thread had in hand is refused,
\* not half written.
CloseKeepsRows ==
    [][/\ (resetting = "close" /\ resetting' = "closed" /\ ~broken /\ ~early)
            => disk' = table
       /\ (resetting = "closed" /\ resetting' = "closed") => disk' = disk]_vars

\* An inserted row gets to the disk with the ten-second commit, unless the
\* medium fails or the power does first, or the transaction is an orphan.
RowsReachDisk == (table # disk /\ ~early) ~> (table = disk \/ broken)
=============================================================================
