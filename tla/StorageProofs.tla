---------------------------- MODULE StorageProofs ----------------------------
(***************************************************************************)
(* Proofs about Storage for every limit, every size of the queue and every *)
(* set of producers.                                                       *)
(***************************************************************************)
EXTENDS Storage, TLAPS

-----------------------------------------------------------------------------
(***************************************************************************)
(* Tables.                                                                 *)
(***************************************************************************)

\* An insert adds one row, with a fresh id above all others.
LEMMA InsertedRow ==
    ASSUME NEW t, IsTable(t), NEW s \in Samples
    PROVE  LET n == Inserted(t, s)
           IN  /\ IsTable(n)
               /\ n.last = t.last + 1
               /\ Ids(n) = Ids(t) \cup {t.last + 1}
               /\ n.rows[t.last + 1] = s
               /\ \A i \in Ids(t) : i <= t.last /\ n.rows[i] = t.rows[i]
BY DEF Inserted, IsTable, Ids

\* A purge keeps the rows at or above the bound as they are.
LEMMA PurgedTable ==
    ASSUME NEW t, IsTable(t), NEW b \in Int
    PROVE  LET n == DeletedBelow(t, b)
           IN  /\ IsTable(n)
               /\ n.last = t.last
               /\ Ids(n) = {i \in Ids(t) : i >= b}
               /\ \A i \in Ids(n) : n.rows[i] = t.rows[i]
BY DEF DeletedBelow, IsTable, Ids, Restrict

\* __relimit_table only ever takes rows away.
LEMMA RelimitedTable ==
    ASSUME NEW t, IsTable(t)
    PROVE  LET n == Relimited(t)
           IN  /\ IsTable(n)
               /\ n.last = t.last
               /\ Ids(n) \subseteq Ids(t)
               /\ \A i \in Ids(n) : n.rows[i] = t.rows[i]
<1>1. t.last - Limit + DelNum \in Int
  BY LimitAssumption DEF IsTable
<1>2. QED
  BY <1>1, PurgedTable DEF Relimited

\* What an insert of sample s followed by the purge, or by a purge that
\* failed, leaves of table t.
AfterInsert(t, s) == {Relimited(Inserted(t, s)), Inserted(t, s)}

\* It is a table whose rows are old rows or the new one.
LEMMA AfterInsertTable ==
    ASSUME NEW t, IsTable(t), NEW s \in Samples, NEW n \in AfterInsert(t, s)
    PROVE  /\ IsTable(n)
           /\ n.last = t.last + 1
           /\ Ids(n) \subseteq Ids(t) \cup {t.last + 1}
           /\ t.last + 1 \in Ids(n) => n.rows[t.last + 1] = s
           /\ \A i \in Ids(t) : i <= t.last
           /\ \A i \in Ids(n) \cap Ids(t) : n.rows[i] = t.rows[i]
<1> DEFINE m == Inserted(t, s)
<1>1. /\ IsTable(m)
      /\ m.last = t.last + 1
      /\ Ids(m) = Ids(t) \cup {t.last + 1}
      /\ m.rows[t.last + 1] = s
      /\ \A i \in Ids(t) : i <= t.last /\ m.rows[i] = t.rows[i]
  BY InsertedRow
<1>2. CASE n = m
  BY <1>1, <1>2
<1>3. CASE n = Relimited(m)
  <2> HIDE DEF m
  <2>1. /\ IsTable(n)
        /\ n.last = m.last
        /\ Ids(n) \subseteq Ids(m)
        /\ \A i \in Ids(n) : n.rows[i] = m.rows[i]
    BY <1>1, <1>3, RelimitedTable
  <2>2. QED
    BY <1>1, <2>1
<1>4. QED
  BY <1>2, <1>3 DEF AfterInsert

-----------------------------------------------------------------------------
(***************************************************************************)
(* Type correctness.                                                       *)
(***************************************************************************)

\* A commit and the begin after it leave the table or what was on the disk.
LEMMA CommitTables ==
    ASSUME TypeOK, CommitAndBegin
    PROVE  /\ table' \in {table, disk}
           /\ disk' \in {table, disk}
           /\ flag' \in BOOLEAN
           /\ txn' \in BOOLEAN
<1>1. PICK committed \in CommitOutcomes :
        LET c == Committed(committed)
        IN  \E begun \in BeginOutcomes(c.txn) :
                /\ table' = c.table
                /\ disk' = c.disk
                /\ txn' = (c.txn \/ (dbinit /\ begun))
                /\ flag' = IF dbinit THEN begun ELSE flag
  BY DEF CommitAndBegin
<1>2. \A open : BeginOutcomes(open) \subseteq BOOLEAN
  BY DEF BeginOutcomes
<1>3. QED
  BY <1>1, <1>2, Zenon DEF Committed, TypeOK

\* Every step of the storage thread, the collectors, the web server, the
\* reset and the medium keeps the types.
THEOREM StorageTypeCorrect == Spec => []TypeOK
<1>0. <<>> \in Seq(Samples) /\ Len(<<>>) <= QueueLimit
  BY QueueAssumption
<1>1. Init => TypeOK
  <2>1. IsTable(EmptyTable)
    BY DEF EmptyTable, IsTable, Ids
  <2>2. Init => mq \in Seq(Samples) /\ Len(mq) <= QueueLimit
    BY <1>0 DEF Init
  <2>3. Init => offered \in 0 .. MaxItems /\ boots \in 0 .. MaxBoots
    BY BoundsAssumption DEF Init
  <2>4. Init => /\ add \in [Producers -> {"idle", "send"}]
                /\ wk \in WkStates /\ (wk = "insert" <=> item # NoItem)
    BY DEF Init, WkStates
  <2>5. QED
    BY <2>1, <2>2, <2>3, <2>4, Zenon DEF Init, TypeOK
<1>2. TypeOK /\ [Next]_vars => TypeOK'
  <2> SUFFICES ASSUME TypeOK, [Next]_vars PROVE TypeOK'
    OBVIOUS
  <2> USE DEF TypeOK, WkStates, NoItem, sqlite, thread, callers, bounds
  <2>1. CASE OpenDb
    BY <2>1 DEF OpenDb, NewConnection
  <2>2. CASE BeginFirst
    BY <2>2 DEF BeginFirst, BeginOutcomes
  <2>3. CASE Receive
    <3>1. mq' \in Seq(Samples) /\ Len(mq') <= QueueLimit /\ Head(mq) \in Samples
      BY <2>3, QueueAssumption DEF Receive
    <3>2. QED
      BY <2>3, <3>1 DEF Receive, Samples
  <2>4. CASE ReceiveTimeout
    BY <2>4 DEF ReceiveTimeout
  <2>5. CASE Insert
    <3>1. CASE db /\ InsertRow(table)
      <4>1. item \in Samples
        BY <2>5 DEF Insert
      <4>2. PICK new \in AfterInsert(table, item) :
                /\ table' = new
                /\ disk' = IF txn THEN disk ELSE new
                /\ insert' = TRUE
                /\ UNCHANGED <<flag, txn>>
        BY <3>1 DEF InsertRow, AfterInsert
      <4>3. IsTable(new)
        BY <4>1, AfterInsertTable
      <4>4. QED
        BY <2>5, <4>2, <4>3 DEF Insert
    <3>2. CASE InsertFails
      BY <2>5, <3>2 DEF Insert, InsertFails
    <3>3. QED
      BY <2>5, <3>1, <3>2 DEF Insert
  <2>6. CASE CommitDue
    BY <2>6, CommitTables DEF CommitDue
  <2>7. CASE NothingDue
    BY <2>7 DEF NothingDue
  <2>8. CASE TenSeconds
    BY <2>8 DEF TenSeconds
  <2>9. ASSUME NEW p \in Producers, AddLooks(p)
        PROVE  TypeOK'
    BY <2>9, BoundsAssumption DEF AddLooks
  <2>10. ASSUME NEW p \in Producers, AddSends(p)
         PROVE  TypeOK'
    <3>1. offered' \in 0 .. MaxItems /\ offered + 1 \in Samples
      BY <2>10, BoundsAssumption DEF AddSends, Samples
    <3>2. mq' \in Seq(Samples) /\ Len(mq') <= QueueLimit
      BY <2>10, <3>1, QueueAssumption DEF AddSends
    <3>3. QED
      BY <2>10, <3>1, <3>2 DEF AddSends
  <2>11. CASE CommitLooks
    BY <2>11 DEF CommitLooks
  <2>12. CASE CommitNow
    BY <2>12, CommitTables DEF CommitNow
  <2>13. CASE CloseLooks
    BY <2>13 DEF CloseLooks
  <2>14. CASE CloseDb
    <3>1. disk' \in {table, disk} /\ table' \in {table, disk}
      BY <2>14 DEF CloseDb, Committed
    <3>2. QED
      BY <2>14, <3>1 DEF CloseDb
  <2>15. CASE Restart
    <3>1. mq' \in Seq(Samples) /\ Len(mq') <= QueueLimit
      BY <1>0, <2>15 DEF Restart
    <3>2. boots' \in 0 .. MaxBoots
      BY <2>15, BoundsAssumption DEF Restart
    <3>3. add' \in [Producers -> {"idle", "send"}]
      BY <2>15 DEF Restart
    <3>4. QED
      BY <2>15, <3>1, <3>2, <3>3, Zenon DEF Restart
  <2>16. CASE Medium
    BY <2>16 DEF Medium
  <2>17. CASE UNCHANGED vars
    BY <2>17 DEF vars
  <2>18. QED
    BY <2>1, <2>2, <2>3, <2>4, <2>5, <2>6, <2>7, <2>8, <2>9, <2>10, <2>11,
       <2>12, <2>13, <2>14, <2>15, <2>16, <2>17
    DEF Next, StorageThread
<1>3. QED
  BY <1>1, <1>2, PTL DEF Spec

-----------------------------------------------------------------------------
(***************************************************************************)
(* The purge keeps the table in its window, whatever went wrong before.    *)
(***************************************************************************)

\* Between inserts rows may lie outside the window (a purge failed), but the
\* next insert that is followed by its purge brings the table back into it.
THEOREM PurgeRestoresWindow == Spec => RetentionRestored
<1>1. ASSUME TypeOK, [Next]_vars, wk = "insert", wk' = "tick", table' # table, ~broken
      PROVE  InWindow(table')
  <2>1. Insert
    BY <1>1 DEF Next, StorageThread, OpenDb, BeginFirst, Receive, ReceiveTimeout,
                CommitDue, NothingDue, TenSeconds, AddLooks, AddSends, CommitLooks,
                CommitNow, CloseLooks, CloseDb, Restart, Medium, vars, thread
  <2>2. table' = Relimited(Inserted(table, item))
    BY <1>1, <2>1 DEF Insert, InsertRow, InsertFails, sqlite
  <2> DEFINE m == Inserted(table, item)
  <2>3. /\ IsTable(m)
        /\ m.last \in Ids(m)
        /\ m.last \in Nat
    <3>1. IsTable(table) /\ item \in Samples
      BY <1>1 DEF TypeOK
    <3>2. QED
      BY <3>1, InsertedRow DEF IsTable
  <2> HIDE DEF m
  <2>4. CASE TooMany(m)
    <3> DEFINE b == m.last - Limit + DelNum
    <3>1. b \in Int /\ table' = DeletedBelow(m, b)
      BY <2>2, <2>3, <2>4, LimitAssumption DEF Relimited, m
    <3>2. table'.last = m.last /\ Ids(table') = {i \in Ids(m) : i >= b}
      BY <2>3, <3>1, PurgedTable
    <3>3. Ids(m) \subseteq Int
      BY <2>3 DEF IsTable
    <3>4. QED
      BY <2>3, <3>2, <3>3, LimitAssumption DEF InWindow
  <2>5. CASE ~TooMany(m)
    <3>1. table' = m
      BY <2>2, <2>5 DEF Relimited, m
    <3>2. \A i \in Ids(m) : i \in 1 .. m.last
      BY <2>3 DEF IsTable
    <3>3. QED
      BY <2>3, <2>5, <3>1, <3>2, LimitAssumption DEF InWindow, TooMany
  <2>6. QED
    BY <2>4, <2>5
<1>2. QED
  BY <1>1, StorageTypeCorrect, PTL DEF Spec, RetentionRestored

-----------------------------------------------------------------------------
(***************************************************************************)
(* SQLite's transaction and s_transaction stay in step.                    *)
(***************************************************************************)

\* Until the storage thread begins its first transaction none is open, but
\* for one the web server began (early).
OrphanInv ==
    /\ NoOrphanTransaction
    /\ wk = "open" => ~dbinit
    /\ wk \in {"open", "begin"} /\ ~early => ~txn

\* A commit followed by a begin keeps the flag in step with SQLite, failing or
\* not.
LEMMA CommitKeepsStep ==
    ASSUME TypeOK, txn => flag, CommitAndBegin
    PROVE  /\ txn' => flag'
           /\ ~dbinit => txn' = txn
<1>1. PICK committed \in CommitOutcomes :
        LET c == Committed(committed)
        IN  \E begun \in BeginOutcomes(c.txn) :
                /\ txn' = (c.txn \/ (dbinit /\ begun))
                /\ flag' = IF dbinit THEN begun ELSE flag
  BY DEF CommitAndBegin
<1> DEFINE c == Committed(committed)
<1>2. PICK begun \in BeginOutcomes(c.txn) :
        /\ txn' = (c.txn \/ (dbinit /\ begun))
        /\ flag' = IF dbinit THEN begun ELSE flag
  BY <1>1
<1>3. c.txn = IF dbinit /\ flag THEN FALSE ELSE txn
  BY DEF Committed
<1>4. QED
  BY <1>2, <1>3, Zenon DEF TypeOK

\* No transaction is ever open that s_transaction does not know of, unless a
\* restore began it before the storage thread's first begin.
THEOREM FlagInStep == Spec => []NoOrphanTransaction
<1> USE DEF OrphanInv, sqlite, thread, callers, bounds
<1>1. Init => OrphanInv
  BY DEF Init, NoOrphanTransaction
<1>2. TypeOK /\ OrphanInv /\ [Next]_vars => OrphanInv'
  <2> SUFFICES ASSUME TypeOK, OrphanInv, [Next]_vars PROVE OrphanInv'
    OBVIOUS
  <2>1. CASE OpenDb
    <3>1. CASE NewConnection /\ wk' = "begin"
      BY <2>1, <3>1 DEF OpenDb, NewConnection, NoOrphanTransaction
    <3>2. CASE wk' = "ended" /\ UNCHANGED sqlite
      BY <2>1, <3>2 DEF OpenDb, NoOrphanTransaction
    <3>3. QED
      BY <2>1, <3>1, <3>2 DEF OpenDb
  <2>2. CASE BeginFirst
    <3>1. CASE dbinit
      <4>1. PICK begun \in BeginOutcomes(txn) : flag' = begun /\ txn' = (txn \/ begun)
        BY <2>2, <3>1 DEF BeginFirst
      <4>2. ~early => (txn' => flag')
        BY <2>2, <4>1, Zenon DEF BeginFirst
      <4>3. wk' = "recv" /\ early' = early
        BY <2>2 DEF BeginFirst
      <4>4. QED
        BY <4>2, <4>3 DEF NoOrphanTransaction
    <3>2. CASE ~dbinit
      BY <2>2, <3>2 DEF BeginFirst, NoOrphanTransaction
    <3>3. QED
      BY <3>1, <3>2
  <2>3. CASE Receive \/ ReceiveTimeout \/ NothingDue
    BY <2>3 DEF Receive, ReceiveTimeout, NothingDue, NoOrphanTransaction
  <2>4. CASE Insert
    BY <2>4 DEF Insert, InsertRow, InsertFails, NoOrphanTransaction
  <2>5. CASE CommitDue
    <3>1. ~early => (txn' => flag')
      BY <2>5, CommitKeepsStep DEF CommitDue, NoOrphanTransaction
    <3>2. QED
      BY <2>5, <3>1 DEF CommitDue, NoOrphanTransaction
  <2>6. CASE CommitNow
    <3>1. /\ ~early' => ~early /\ (wk = "begin" => ~txn')
          /\ UNCHANGED <<wk, dbinit>>
      BY <2>6, Zenon DEF CommitNow
    <3>2. ~early => (txn' => flag') /\ (~dbinit => txn' = txn)
      BY <2>6, CommitKeepsStep DEF CommitNow, NoOrphanTransaction
    <3>3. ~early' /\ wk = "open" => ~txn'
      BY <3>1, <3>2
    <3>4. QED
      BY <3>1, <3>2, <3>3 DEF NoOrphanTransaction
  <2>7. CASE CommitLooks
    BY <2>7 DEF CommitLooks, NoOrphanTransaction
  <2>8. CASE CloseLooks
    BY <2>8 DEF CloseLooks, NoOrphanTransaction
  <2>9. CASE CloseDb
    BY <2>9 DEF CloseDb, NoOrphanTransaction
  <2>10. CASE Restart
    BY <2>10 DEF Restart, NoOrphanTransaction
  <2>11. CASE TenSeconds \/ Medium
    BY <2>11 DEF TenSeconds, Medium, NoOrphanTransaction
  <2>12. ASSUME NEW p \in Producers, AddLooks(p) \/ AddSends(p)
         PROVE  OrphanInv'
    BY <2>12 DEF AddLooks, AddSends, NoOrphanTransaction
  <2>13. CASE UNCHANGED vars
    BY <2>13 DEF vars, NoOrphanTransaction
  <2>14. QED
    BY <2>1, <2>2, <2>3, <2>4, <2>5, <2>6, <2>7, <2>8, <2>9, <2>10, <2>11,
       <2>12, <2>13
    DEF Next, StorageThread
<1>3. QED
  BY <1>1, <1>2, StorageTypeCorrect, PTL DEF Spec, OrphanInv

-----------------------------------------------------------------------------
(***************************************************************************)
(* Rows stand in the order their samples were offered.  The order of the   *)
(* rows follows from the order of everything that is on its way to them:   *)
(* rows before the sample in hand before the samples in the queue before   *)
(* the next one offered.                                                   *)
(***************************************************************************)
AllBelow(t, s) == \A i \in Ids(t) : t.rows[i] < s

OrderInv ==
    /\ RowsInOrder
    /\ item <= offered
    /\ AllBelow(table, offered + 1) /\ AllBelow(disk, offered + 1)
    /\ item # NoItem => AllBelow(table, item) /\ AllBelow(disk, item)
    /\ \A k \in 1 .. Len(mq) :
            /\ item < mq[k] /\ mq[k] <= offered
            /\ AllBelow(table, mq[k]) /\ AllBelow(disk, mq[k])
    /\ \A j, k \in 1 .. Len(mq) : j < k => mq[j] < mq[k]

\* A row above all others goes in behind them, whatever the purge takes.
LEMMA InsertKeepsOrder ==
    ASSUME NEW t, IsTable(t), InOrder(t), NEW s \in Samples, AllBelow(t, s),
           NEW n \in AfterInsert(t, s)
    PROVE  InOrder(n) /\ AllBelow(n, s + 1)
<1>1. /\ IsTable(n)
      /\ Ids(n) \subseteq Ids(t) \cup {t.last + 1}
      /\ t.last + 1 \in Ids(n) => n.rows[t.last + 1] = s
      /\ \A i \in Ids(t) : i <= t.last
      /\ \A i \in Ids(n) \cap Ids(t) : n.rows[i] = t.rows[i]
  BY AfterInsertTable
<1>2. /\ t.last \in Nat /\ Ids(t) \subseteq Int /\ Ids(n) \subseteq Int
      /\ s \in Int
      /\ \A i \in Ids(t) : t.rows[i] \in Int
  BY <1>1 DEF IsTable, Samples
<1>3. AllBelow(n, s + 1)
  BY <1>1, <1>2 DEF AllBelow
<1>4. InOrder(n)
  BY <1>1, <1>2 DEF AllBelow, InOrder
<1>5. QED
  BY <1>3, <1>4

\* Steps that only roll the table back or bring the disk up to date keep it.
LEMMA SwapKeepsOrder ==
    ASSUME OrderInv, table' \in {table, disk}, disk' \in {table, disk},
           UNCHANGED <<mq, item, offered>>
    PROVE  OrderInv'
<1>1. table' = table \/ table' = disk
  OBVIOUS
<1>2. disk' = table \/ disk' = disk
  OBVIOUS
<1>3. QED
  BY <1>1, <1>2, Zenon DEF OrderInv, RowsInOrder, InOrder, AllBelow, Ids, NoItem

\* Every step keeps rows, sample in hand and queue in the order of the offers.
LEMMA OrderInvariant == Spec => []OrderInv
<1> USE DEF sqlite, thread, callers, bounds
<1>1. Init => OrderInv
  BY DEF Init, OrderInv, RowsInOrder, InOrder, AllBelow, Ids, EmptyTable, NoItem
<1>2. TypeOK /\ OrderInv /\ [Next]_vars => OrderInv'
  <2> SUFFICES ASSUME TypeOK, OrderInv, [Next]_vars PROVE OrderInv'
    OBVIOUS
  <2>0. /\ offered \in Nat /\ item \in Nat
        /\ mq \in Seq(Samples) /\ \A k \in 1 .. Len(mq) : mq[k] \in Nat
        /\ \A t \in {table, disk} : \A i \in Ids(t) : t.rows[i] \in Nat
    BY BoundsAssumption DEF TypeOK, Samples, NoItem, IsTable
  <2>1. CASE Receive
    <3>1. /\ Len(mq') = Len(mq) - 1 /\ Len(mq) \in Nat \ {0} /\ Head(mq) = mq[1]
          /\ \A k \in 1 .. Len(mq') : mq'[k] = mq[k + 1]
      BY <2>0, <2>1 DEF Receive
    <3>2. UNCHANGED <<table, disk, offered>> /\ item' \in {item, mq[1]}
      BY <2>1, <3>1 DEF Receive
    <3>3. \A k \in 1 .. Len(mq') :
            /\ item' < mq'[k] /\ mq'[k] <= offered
            /\ AllBelow(table, mq'[k]) /\ AllBelow(disk, mq'[k])
      <4> SUFFICES ASSUME NEW k \in 1 .. Len(mq')
                   PROVE  /\ item' < mq'[k] /\ mq'[k] <= offered
                          /\ AllBelow(table, mq'[k]) /\ AllBelow(disk, mq'[k])
        OBVIOUS
      <4>1. k + 1 \in 1 .. Len(mq) /\ 1 \in 1 .. Len(mq) /\ 1 < k + 1
            /\ mq'[k] = mq[k + 1]
        BY <3>1
      <4>2. QED
        BY <3>2, <4>1 DEF OrderInv
    <3>4. \A j, k \in 1 .. Len(mq') : j < k => mq'[j] < mq'[k]
      <4> SUFFICES ASSUME NEW j \in 1 .. Len(mq'), NEW k \in 1 .. Len(mq'), j < k
                   PROVE  mq'[j] < mq'[k]
        OBVIOUS
      <4>1. j + 1 \in 1 .. Len(mq) /\ k + 1 \in 1 .. Len(mq) /\ j + 1 < k + 1
        BY <3>1
      <4>2. QED
        BY <3>1, <4>1 DEF OrderInv
    <3>5. /\ item' <= offered
          /\ item' # NoItem => AllBelow(table, item') /\ AllBelow(disk, item')
      <4>1. 1 \in 1 .. Len(mq)
        BY <3>1
      <4>2. QED
        BY <3>2, <4>1 DEF OrderInv
    <3>6. QED
      BY <3>2, <3>3, <3>4, <3>5, Zenon DEF OrderInv, RowsInOrder, InOrder, AllBelow, Ids
  <2>2. CASE Insert /\ InsertRow(table)
    <3>1. item \in Samples
      BY <2>2 DEF TypeOK, Insert
    <3>2. PICK n \in AfterInsert(table, item) :
            table' = n /\ disk' = IF txn THEN disk ELSE n
      BY <2>2 DEF InsertRow, AfterInsert
    <3>3. InOrder(n) /\ AllBelow(n, item + 1)
      BY <3>1, InsertKeepsOrder DEF OrderInv, RowsInOrder, TypeOK, NoItem, Samples
    <3>4. item' = 0 /\ UNCHANGED <<mq, offered>>
      BY <2>2 DEF Insert, NoItem
    <3>5. IsTable(n)
      BY <3>1, AfterInsertTable DEF TypeOK
    <3>6. \A m \in Nat : item < m => AllBelow(n, m)
      BY <2>0, <3>3, <3>5 DEF AllBelow, IsTable, Samples
    <3>7. QED
      BY <2>0, <3>2, <3>3, <3>4, <3>6 DEF OrderInv, RowsInOrder, NoItem
  <2>3. CASE Insert /\ InsertFails
    <3>1. disk' = disk /\ table' \in {table, disk} /\ item' = 0 /\ UNCHANGED <<mq, offered>>
      BY <2>3 DEF Insert, InsertFails, NoItem
    <3>2. QED
      BY <2>0, <3>1 DEF OrderInv, RowsInOrder, NoItem, AllBelow
  <2>4. ASSUME NEW p \in Producers, AddLooks(p)
        PROVE  OrderInv'
    <3>1. offered' \in {offered, offered + 1} /\ UNCHANGED <<mq, item, table, disk>>
      BY <2>4 DEF AddLooks
    <3>2. QED
      BY <2>0, <3>1 DEF OrderInv, RowsInOrder, NoItem, AllBelow
  <2>5. ASSUME NEW p \in Producers, AddSends(p)
        PROVE  OrderInv'
    <3>1. /\ offered' = offered + 1 /\ UNCHANGED <<item, table, disk>>
          /\ mq' \in {mq, Append(mq, offered + 1)}
      BY <2>5 DEF AddSends
    <3>2. CASE mq' = mq
      BY <2>0, <3>1, <3>2 DEF OrderInv, RowsInOrder, NoItem, AllBelow
    <3>3. CASE mq' = Append(mq, offered + 1)
      <4>1. Len(mq') = Len(mq) + 1 /\ Len(mq) \in Nat
        BY <2>0, <3>3
      <4>2. \A k \in 1 .. Len(mq') :
                mq'[k] = IF k \in 1 .. Len(mq) THEN mq[k] ELSE offered + 1
        BY <2>0, <3>3
      <4>3. QED
        BY <2>0, <3>1, <4>1, <4>2 DEF OrderInv, RowsInOrder, NoItem, AllBelow
    <3>4. QED
      BY <3>1, <3>2, <3>3
  <2>6. CASE CommitDue \/ CommitNow
    BY <2>6, CommitTables, SwapKeepsOrder DEF CommitDue, CommitNow
  <2>7. CASE CloseDb
    <3>1. disk' \in {table, disk} /\ table' \in {table, disk}
      BY <2>7 DEF CloseDb, Committed
    <3>2. QED
      BY <2>7, <3>1, SwapKeepsOrder DEF CloseDb
  <2>8. CASE Restart
    <3>1. Len(mq') = 0 /\ item' = 0 /\ table' = disk /\ UNCHANGED <<disk, offered>>
      BY <2>8 DEF Restart, NoItem
    <3>2. QED
      BY <2>0, <3>1 DEF OrderInv, RowsInOrder, NoItem
  <2>9. CASE OpenDb
    <3>1. table' \in {table, disk} /\ disk' \in {table, disk} /\ UNCHANGED <<mq, item, offered>>
      BY <2>9 DEF OpenDb, NewConnection
    <3>2. QED
      BY <3>1, SwapKeepsOrder
  <2>10. CASE \/ BeginFirst \/ ReceiveTimeout \/ NothingDue \/ TenSeconds
              \/ CommitLooks \/ CloseLooks \/ Medium
    <3>1. UNCHANGED <<mq, item, offered, table, disk>>
      BY <2>10 DEF BeginFirst, ReceiveTimeout, NothingDue, TenSeconds, CommitLooks,
                   CloseLooks, Medium
    <3>2. QED
      BY <3>1, SwapKeepsOrder
  <2>11. CASE UNCHANGED vars
    BY <2>11, SwapKeepsOrder DEF vars
  <2>12. QED
    BY <2>1, <2>2, <2>3, <2>4, <2>5, <2>6, <2>7, <2>8, <2>9, <2>10, <2>11
    DEF Next, StorageThread, Insert
<1>3. QED
  BY <1>1, <1>2, StorageTypeCorrect, PTL DEF Spec

\* In the table and on the disk rows are ordered as their samples were offered
\* and no sample stands twice, through rollbacks and power failures.
THEOREM RowsOrdered == Spec => []RowsInOrder
<1>1. OrderInv => RowsInOrder
  BY DEF OrderInv
<1>2. QED
  BY <1>1, OrderInvariant, PTL

-----------------------------------------------------------------------------
(***************************************************************************)
(* The reset closes the database with its rows on the disk.                *)
(***************************************************************************)

\* Outside a transaction the connection sees what is on the disk; a reset
\* that found the database open finds it open still when it gets the mutex;
\* and a database once closed is not opened again before the restart.
CloseInv ==
    /\ ~txn => table = disk
    /\ db <=> dbinit
    /\ dbinit => wk # "open"
    /\ resetting = "close" => dbinit
    /\ resetting = "closed" => ~dbinit /\ wk # "open"

\* A commit that leaves no transaction open leaves the table on the disk, and
\* on a closed database it does nothing.
LEMMA CommitReachesDisk ==
    ASSUME TypeOK, ~txn => table = disk, CommitAndBegin
    PROVE  /\ ~txn' => table' = disk'
           /\ ~dbinit => UNCHANGED sqlite
<1>1. PICK committed \in CommitOutcomes :
        LET c == Committed(committed)
        IN  \E begun \in BeginOutcomes(c.txn) :
                /\ table' = c.table
                /\ disk' = c.disk
                /\ txn' = (c.txn \/ (dbinit /\ begun))
                /\ flag' = IF dbinit THEN begun ELSE flag
  BY DEF CommitAndBegin
<1> DEFINE c == Committed(committed)
<1>2. PICK begun \in BeginOutcomes(c.txn) :
        /\ table' = c.table
        /\ disk' = c.disk
        /\ txn' = (c.txn \/ (dbinit /\ begun))
        /\ flag' = IF dbinit THEN begun ELSE flag
  BY <1>1
<1>3. ~txn => ~committed
  BY DEF CommitOutcomes
<1>4. ~c.txn => c.table = c.disk
  BY <1>3 DEF Committed
<1>5. ~dbinit => c.table = table /\ c.disk = disk /\ c.txn = txn
  BY DEF Committed
<1>6. QED
  BY <1>2, <1>4, <1>5, Zenon DEF TypeOK, sqlite

LEMMA CloseInvInductive ==
    ASSUME TypeOK, CloseInv, [Next]_vars
    PROVE  CloseInv'
<1> USE DEF CloseInv, sqlite, thread, callers
<1>1. CASE OpenDb
  BY <1>1 DEF OpenDb, NewConnection
<1>2. CASE BeginFirst
  <2>1. CASE dbinit
    <3>1. PICK begun \in BeginOutcomes(txn) : txn' = (txn \/ begun)
      BY <1>2, <2>1 DEF BeginFirst
    <3>2. ~txn' => ~txn
      BY <3>1, Zenon
    <3>3. QED
      BY <1>2, <3>2 DEF BeginFirst
  <2>2. CASE ~dbinit
    BY <1>2, <2>2 DEF BeginFirst
  <2>3. QED
    BY <2>1, <2>2
<1>3. CASE Receive \/ ReceiveTimeout \/ NothingDue
  BY <1>3 DEF Receive, ReceiveTimeout, NothingDue
<1>4. CASE Insert
  BY <1>4 DEF Insert, InsertRow, InsertFails
<1>5. CASE CommitDue
  BY <1>5, CommitReachesDisk DEF CommitDue
<1>6. CASE CommitNow
  BY <1>6, CommitReachesDisk DEF CommitNow
<1>7. CASE CommitLooks \/ TenSeconds \/ Medium
  BY <1>7 DEF CommitLooks, TenSeconds, Medium
<1>8. CASE CloseLooks
  BY <1>8 DEF CloseLooks
<1>9. CASE CloseDb
  BY <1>9 DEF CloseDb
<1>10. CASE Restart
  BY <1>10 DEF Restart
<1>11. ASSUME NEW p \in Producers, AddLooks(p) \/ AddSends(p)
       PROVE  CloseInv'
  BY <1>11 DEF AddLooks, AddSends
<1>12. CASE UNCHANGED vars
  BY <1>12 DEF vars
<1>13. QED
  BY <1>1, <1>2, <1>3, <1>4, <1>5, <1>6, <1>7, <1>8, <1>9, <1>10, <1>11, <1>12
  DEF Next, StorageThread

LEMMA CloseInvariant == Spec => []CloseInv
<1>1. Init => CloseInv
  BY DEF Init, CloseInv
<1>2. QED
  BY <1>1, CloseInvInductive, StorageTypeCorrect, PTL DEF Spec

\* On a sound medium the commit of the reset takes every row to the disk: it
\* commits, or there is nothing to commit.  This is where s_transaction must
\* be in step with SQLite: the reset would skip a commit the flag does not
\* know to be due.
LEMMA ResetCommits ==
    ASSUME TypeOK, NoOrphanTransaction, CloseInv, CloseDb, ~broken, ~early
    PROVE  disk' = table
<1>1. dbinit /\ db
  BY DEF CloseInv, CloseDb
<1>2. PICK committed \in CommitOutcomes : disk' = Committed(committed).disk
  BY <1>1 DEF CloseDb
<1>3. CASE txn
  BY <1>1, <1>2, <1>3 DEF CommitOutcomes, Committed, NoOrphanTransaction
<1>4. CASE ~txn
  BY <1>2, <1>4 DEF CommitOutcomes, Committed, CloseInv
<1>5. QED
  BY <1>3, <1>4

\* After it no step but a restart writes anything: inserts are refused and
\* commits have nothing to do.
LEMMA ClosedWritesNothing ==
    ASSUME TypeOK, CloseInv, [Next]_vars, resetting = "closed", resetting' = "closed"
    PROVE  disk' = disk
<1> USE DEF CloseInv, sqlite, thread, callers
<1>1. ~dbinit /\ ~db /\ wk # "open"
  OBVIOUS
<1>2. CASE OpenDb \/ CloseLooks \/ CloseDb \/ Restart
  BY <1>1, <1>2 DEF OpenDb, CloseLooks, CloseDb, Restart
<1>3. CASE BeginFirst \/ Receive \/ ReceiveTimeout \/ NothingDue \/ TenSeconds
             \/ CommitLooks \/ Medium
  BY <1>3 DEF BeginFirst, Receive, ReceiveTimeout, NothingDue, TenSeconds,
              CommitLooks, Medium
<1>4. CASE Insert
  BY <1>1, <1>4 DEF Insert, InsertFails
<1>5. CASE CommitDue \/ CommitNow
  BY <1>1, <1>5, CommitReachesDisk DEF CommitDue, CommitNow
<1>6. ASSUME NEW p \in Producers, AddLooks(p) \/ AddSends(p)
      PROVE  disk' = disk
  BY <1>6 DEF AddLooks, AddSends
<1>7. CASE UNCHANGED vars
  BY <1>7 DEF vars
<1>8. QED
  BY <1>2, <1>3, <1>4, <1>5, <1>6, <1>7 DEF Next, StorageThread

\* A reset on a sound medium closes the database with every inserted row on
\* the disk, unless a restore left it an orphan transaction; and, whatever the
\* medium does, nothing is written between the close and the restart.
THEOREM ResetKeepsRows == Spec => CloseKeepsRows
<1>1. ASSUME TypeOK, NoOrphanTransaction, CloseInv, [Next]_vars
      PROVE  /\ (resetting = "close" /\ resetting' = "closed" /\ ~broken /\ ~early)
                 => disk' = table
             /\ (resetting = "closed" /\ resetting' = "closed") => disk' = disk
  <2>1. resetting = "close" /\ resetting' = "closed" => CloseDb
    BY <1>1 DEF Next, StorageThread, OpenDb, BeginFirst, Receive, ReceiveTimeout,
                Insert, CommitDue, NothingDue, TenSeconds, AddLooks, AddSends,
                CommitLooks, CommitNow, CloseLooks, Restart, Medium, vars, callers
  <2>2. QED
    BY <1>1, <2>1, ResetCommits, ClosedWritesNothing
<1>2. QED
  BY <1>1, CloseInvariant, StorageTypeCorrect, FlagInStep, PTL
  DEF Spec, CloseKeepsRows

-----------------------------------------------------------------------------
(***************************************************************************)
(* The storage is a log of which a failure takes the end (DurableLog).     *)
(***************************************************************************)

\* The turn is that of the sample in hand, or of the oldest in the queue, or of
\* the next one offered.
TurnOK ==
    /\ Passed \in Nat /\ Passed <= offered
    /\ item # NoItem => Passed = item - 1
    /\ item = NoItem => /\ \A k \in 1 .. Len(mq) : Passed < mq[k]
                        /\ mq # <<>> => Passed = mq[1] - 1
                        /\ mq = <<>> => Passed = offered

LEMMA WhoseTurn == TypeOK /\ OrderInv => TurnOK
<1> SUFFICES ASSUME TypeOK, OrderInv PROVE TurnOK
  OBVIOUS
<1> USE DEF TurnOK
<1>1. /\ offered \in Nat /\ item \in Nat /\ NoItem = 0
      /\ mq \in Seq(Samples) /\ \A k \in 1 .. Len(mq) : mq[k] \in Nat \ {0}
  BY BoundsAssumption DEF TypeOK, Samples, NoItem
<1>2. CASE item # NoItem
  BY <1>1, <1>2 DEF Passed, OrderInv
<1>3. CASE item = NoItem /\ mq = <<>>
  BY <1>1, <1>3 DEF Passed
<1>4. CASE item = NoItem /\ mq # <<>>
  <2>1. Len(mq) \in Nat \ {0} /\ Head(mq) = mq[1]
    BY <1>1, <1>4
  <2>2. 1 \in 1 .. Len(mq) /\ Passed = mq[1] - 1
    BY <1>4, <2>1 DEF Passed
  <2>3. mq[1] \in Nat \ {0} /\ mq[1] <= offered
    BY <1>1, <2>2 DEF OrderInv
  <2>4. \A k \in 1 .. Len(mq) : mq[1] <= mq[k]
    BY <1>1, <2>1, <2>2 DEF OrderInv
  <2>5. QED
    BY <1>1, <1>4, <2>2, <2>3, <2>4
<1>5. QED
  BY <1>2, <1>3, <1>4

\* No step gives a sample its turn again, and an insert is the turn of the
\* sample in hand.
LEMMA TurnsPass ==
    ASSUME TypeOK, OrderInv, TypeOK', OrderInv', [Next]_vars
    PROVE  /\ Passed' \in Nat /\ Passed' >= Passed
           /\ Insert => Passed < item /\ Passed' >= item
<1> USE DEF sqlite, thread, callers, bounds
<1>1. /\ Passed \in Nat /\ Passed <= offered
      /\ item # NoItem => Passed = item - 1
      /\ item = NoItem => /\ \A k \in 1 .. Len(mq) : Passed < mq[k]
                          /\ mq # <<>> => Passed = mq[1] - 1
                          /\ mq = <<>> => Passed = offered
  BY WhoseTurn DEF TurnOK
<1>0. TurnOK'
  BY WhoseTurn, PTL
<1>2. /\ Passed' \in Nat /\ Passed' <= offered'
      /\ item' # NoItem => Passed' = item' - 1
      /\ item' = NoItem => /\ mq' # <<>> => Passed' = mq'[1] - 1
                           /\ mq' = <<>> => Passed' = offered'
  BY <1>0 DEF TurnOK
<1>3. /\ offered \in Nat /\ offered' \in Nat /\ item \in Nat /\ NoItem = 0
      /\ mq \in Seq(Samples) /\ \A k \in 1 .. Len(mq) : mq[k] \in Nat
      /\ wk = "insert" <=> item # NoItem
  BY BoundsAssumption DEF TypeOK, Samples, NoItem
<1>4. ASSUME Insert
      PROVE  Passed' >= item
  <2>1. item \in Nat \ {0} /\ item' = NoItem /\ UNCHANGED <<mq, offered>>
    BY <1>3, <1>4 DEF Insert
  <2>2. mq # <<>> => 1 \in 1 .. Len(mq)
    BY <1>3
  <2>3. mq # <<>> => item < mq[1]
    BY <2>2 DEF OrderInv
  <2>4. item <= offered
    BY DEF OrderInv
  <2>5. mq # <<>> => mq[1] \in Nat
    BY <1>3, <2>2
  <2>6. QED
    BY <1>1, <1>2, <1>3, <2>1, <2>3, <2>4, <2>5
<1>5. ASSUME Receive
      PROVE  Passed' >= Passed
  <2>1. item = NoItem /\ UNCHANGED offered /\ item' \in {item, mq[1]} /\ mq' = Tail(mq)
    BY <1>3, <1>5 DEF Receive
  <2>2. /\ Len(mq) \in Nat \ {0}
        /\ Passed = mq[1] - 1
    BY <1>1, <1>3, <1>5, <2>1 DEF Receive
  <2>3. CASE item' # NoItem
    BY <1>2, <2>1, <2>2, <2>3
  <2>4. CASE item' = NoItem /\ mq' = <<>>
    BY <1>1, <1>2, <2>1, <2>4
  <2>5. CASE item' = NoItem /\ mq' # <<>>
    <3>1. 2 \in 1 .. Len(mq) /\ mq'[1] = mq[2]
      BY <1>3, <2>1, <2>5
    <3>2. mq[1] < mq[2] /\ mq[1] \in Nat /\ mq[2] \in Nat
      BY <1>3, <2>2, <3>1 DEF OrderInv
    <3>3. QED
      BY <1>2, <2>2, <2>5, <3>1, <3>2
  <2>6. QED
    BY <2>3, <2>4, <2>5
<1>6. ASSUME NEW p \in Producers, AddLooks(p)
      PROVE  Passed' >= Passed
  BY <1>1, <1>2, <1>3, <1>6 DEF AddLooks
<1>7. ASSUME NEW p \in Producers, AddSends(p)
      PROVE  Passed' >= Passed
  <2>1. offered' = offered + 1 /\ UNCHANGED item
        /\ mq' = IF Len(mq) < QueueLimit THEN Append(mq, offered + 1) ELSE mq
    BY <1>7 DEF AddSends
  <2>2. CASE item # NoItem
    BY <1>1, <1>2, <2>1, <2>2
  <2>3. CASE item = NoItem /\ mq = <<>>
    <3>1. mq' # <<>> /\ mq'[1] = offered + 1
      BY <2>1, <2>3, QueueAssumption
    <3>2. QED
      BY <1>1, <1>2, <1>3, <2>1, <2>3, <3>1
  <2>4. CASE item = NoItem /\ mq # <<>>
    <3>1. mq' # <<>> /\ mq'[1] = mq[1]
      BY <1>3, <2>1, <2>4
    <3>2. QED
      BY <1>1, <1>2, <2>1, <2>4, <3>1
  <2>5. QED
    BY <2>2, <2>3, <2>4
<1>8. ASSUME Restart
      PROVE  Passed' >= Passed
  BY <1>1, <1>2, <1>8 DEF Restart
<1>9. ASSUME UNCHANGED <<mq, item, offered>>
      PROVE  Passed' >= Passed
  BY <1>1, <1>9 DEF Passed
<1>10. \/ Insert \/ Receive \/ Restart
       \/ \E p \in Producers : AddLooks(p) \/ AddSends(p)
       \/ UNCHANGED <<mq, item, offered>>
  BY DEF Next, StorageThread, OpenDb, BeginFirst, ReceiveTimeout, CommitDue,
         NothingDue, TenSeconds, CommitLooks, CommitNow, CloseLooks, CloseDb,
         Medium, vars
<1>11. Insert => Passed < item
  BY <1>1, <1>3 DEF Insert
<1>12. Insert => Passed' >= Passed
  BY <1>1, <1>2, <1>3, <1>4, <1>11
<1>13. QED
  BY <1>2, <1>4, <1>5, <1>6, <1>7, <1>8, <1>9, <1>10, <1>11, <1>12

\* An insert shows the new sample besides the old ones, and what the purge
\* takes is older than all it leaves.
LEMMA PurgeForgetsOldest ==
    ASSUME NEW t, IsTable(t), InOrder(t), NEW s \in Samples, AllBelow(t, s),
           NEW n \in AfterInsert(t, s)
    PROVE  /\ RowsOf(n) \subseteq RowsOf(t) \cup {s}
           /\ \A old \in (RowsOf(t) \cup {s}) \ RowsOf(n) : \A x \in RowsOf(n) : old < x
<1> DEFINE m == Inserted(t, s)
<1>1. /\ IsTable(m)
      /\ Ids(m) = Ids(t) \cup {t.last + 1}
      /\ m.rows[t.last + 1] = s
      /\ \A i \in Ids(t) : m.rows[i] = t.rows[i]
  BY InsertedRow
<1>2. InOrder(m)
  BY InsertKeepsOrder DEF AfterInsert
<1>3. RowsOf(m) = RowsOf(t) \cup {s}
  <2> HIDE DEF m
  <2>1. ASSUME NEW i \in Ids(m) PROVE m.rows[i] \in RowsOf(t) \cup {s}
    BY <1>1 DEF RowsOf
  <2>2. ASSUME NEW i \in Ids(t) PROVE t.rows[i] \in RowsOf(m)
    BY <1>1 DEF RowsOf
  <2>3. s \in RowsOf(m)
    BY <1>1 DEF RowsOf
  <2>4. QED
    BY <2>1, <2>2, <2>3 DEF RowsOf
<1>4. CASE n = m
  BY <1>3, <1>4
<1>5. CASE n = Relimited(m) /\ TooMany(m)
  <2> HIDE DEF m
  <2>1. PICK b \in Int : n = DeletedBelow(m, b)
    BY <1>1, <1>5, LimitAssumption DEF Relimited, IsTable
  <2>2. /\ Ids(n) = {i \in Ids(m) : i >= b}
        /\ \A i \in Ids(n) : n.rows[i] = m.rows[i]
    BY <1>1, <2>1, PurgedTable
  <2>3. RowsOf(n) \subseteq RowsOf(m)
    BY <2>2 DEF RowsOf
  <2>4. ASSUME NEW old \in RowsOf(m) \ RowsOf(n), NEW x \in RowsOf(n)
        PROVE  old < x
    <3>1. PICK i \in Ids(m) : old = m.rows[i]
      BY <2>4 DEF RowsOf
    <3>2. PICK j \in Ids(n) : x = n.rows[j]
      BY <2>4 DEF RowsOf
    <3>3. i \notin Ids(n)
      BY <2>2, <2>4, <3>1 DEF RowsOf
    <3>4. i \in Int /\ j \in Int /\ j \in Ids(m)
      BY <1>1, <2>2, <3>1, <3>2 DEF IsTable
    <3>5. i < j
      BY <2>1, <2>2, <3>1, <3>2, <3>3, <3>4
    <3>6. QED
      BY <1>2, <2>2, <3>1, <3>2, <3>4, <3>5 DEF InOrder
  <2>5. QED
    BY <1>3, <2>3, <2>4
<1>6. QED
  BY <1>4, <1>5 DEF AfterInsert, Relimited

\* A commit keeps what is shown, brings back what was kept, or does nothing.
LEMMA CommitKeepsOrLoses ==
    ASSUME CommitAndBegin
    PROVE  \/ table' = table /\ disk' = disk
           \/ table' = table /\ disk' = table
           \/ table' = disk /\ disk' = disk
BY DEF CommitAndBegin, Committed

\* Every step of the storage is a step of the log or leaves it alone.
LEMMA StepOfLog ==
    ASSUME TypeOK, OrderInv, CloseInv, TypeOK', OrderInv', [Next]_vars
    PROVE  [Log!Next]_(Log!logVars)
<1> USE DEF sqlite, thread, callers, bounds
<1>1. /\ Passed \in Nat /\ Passed' \in Nat /\ Passed' >= Passed
      /\ Insert => Passed < item /\ Passed' >= item
  BY TurnsPass, WhoseTurn DEF TurnOK
<1>2. CASE table' = table /\ disk' = disk
  <2>1. Log!GiveUp
    BY <1>1, <1>2 DEF Log!GiveUp, Log!PassesBy
  <2>2. QED
    BY <2>1 DEF Log!Next
<1>3. CASE table' = disk /\ disk' = disk
  <2>1. Log!Lose
    BY <1>1, <1>3 DEF Log!Lose, Log!PassesBy
  <2>2. QED
    BY <2>1 DEF Log!Next
<1>4. CASE table' = table /\ disk' = table /\ UNCHANGED <<mq, item, offered>>
  <2>1. Passed' = Passed
    BY <1>4 DEF Passed
  <2>2. Log!Keep
    BY <1>4, <2>1 DEF Log!Keep
  <2>3. QED
    BY <2>2 DEF Log!Next
<1>5. CASE Insert /\ InsertRow(table)
  <2>1. item \in Samples
    BY <1>5 DEF TypeOK, Insert
  <2>2. PICK n \in AfterInsert(table, item) :
            table' = n /\ disk' = IF txn THEN disk ELSE n
    BY <1>5 DEF InsertRow, AfterInsert
  <2>3. IsTable(table) /\ InOrder(table) /\ AllBelow(table, item)
    BY <2>1 DEF TypeOK, OrderInv, RowsInOrder, Samples, NoItem
  <2>4. Log!Forgetful(item, RowsOf(n))
    BY <2>1, <2>3, PurgeForgetsOldest DEF Log!Forgetful
  <2>5. \/ disk' = disk
        \/ table = disk /\ disk' = table'
    BY <2>2 DEF CloseInv
  <2>6. Log!Record(item)
    BY <1>1, <1>5, <2>2, <2>4, <2>5 DEF Log!Record, Log!PassesBy
  <2>7. QED
    BY <2>1, <2>6 DEF Log!Next
<1>6. CASE Insert /\ InsertFails
  BY <1>2, <1>3, <1>6 DEF Insert, InsertFails
<1>7. CASE CommitDue \/ CommitNow
  BY <1>2, <1>3, <1>4, <1>7, CommitKeepsOrLoses DEF CommitDue, CommitNow
<1>8. CASE CloseDb
  <2>1. disk' \in {table, disk} /\ table' = disk'
    BY <1>8 DEF CloseDb, Committed
  <2>2. QED
    BY <1>3, <1>4, <1>8, <2>1 DEF CloseDb
<1>9. CASE OpenDb \/ Restart
  BY <1>2, <1>3, <1>9 DEF OpenDb, NewConnection, Restart
<1>10. ASSUME NEW p \in Producers, AddLooks(p) \/ AddSends(p)
       PROVE  [Log!Next]_(Log!logVars)
  BY <1>2, <1>10 DEF AddLooks, AddSends
<1>11. CASE \/ BeginFirst \/ Receive \/ ReceiveTimeout \/ NothingDue \/ TenSeconds
            \/ CommitLooks \/ CloseLooks \/ Medium \/ UNCHANGED vars
  BY <1>2, <1>11 DEF BeginFirst, Receive, ReceiveTimeout, NothingDue, TenSeconds,
                     CommitLooks, CloseLooks, Medium, vars
<1>12. QED
  BY <1>5, <1>6, <1>7, <1>8, <1>9, <1>10, <1>11 DEF Next, StorageThread, Insert

\* Threads, queue, transactions, failing statements, resets and power failures
\* together are no more than a log of which a failure takes the end: also when
\* a restore commits before the first begin.
THEOREM ImplementsLog == Spec => LogSpec
<1>1. Init => Log!Init
  BY DEF Init, Log!Init, Passed, RowsOf, Ids, EmptyTable, NoItem
<1>2. TypeOK /\ OrderInv /\ CloseInv /\ TypeOK' /\ OrderInv' /\ [Next]_vars
            => [Log!Next]_(Log!logVars)
  BY StepOfLog
<1>3. QED
  BY <1>1, <1>2, StorageTypeCorrect, OrderInvariant, CloseInvariant, PTL
  DEF Spec, LogSpec, Log!Spec
=============================================================================
