---------------------------- MODULE IndexRecovery ----------------------------
(***************************************************************************)
(* The index stage with the persistence it really has.  Batches are        *)
(* written with the write-ahead log disabled, so what a crash leaves is    *)
(* the store as of some earlier batch: the last one RocksDB flushed.  All  *)
(* tables are in one column family, so a flush takes all of them at the    *)
(* same batch.  The process ends without a flush on a shutdown signal too  *)
(* (shutdown.rs exits the process), so a shutdown is a crash here.         *)
(***************************************************************************)
EXTENDS IndexStage, FiniteSets

\* A key with no value is told apart from the records that are read at startup.
ASSUME AbsentAssumption == Absent \notin Block /\ Absent \notin Info

VARIABLES
  disk,      \* the store as of the last flush
  delivered  \* the greatest height of a block delivered to this process

Current == [db |-> db, rbTable |-> rbTable, stamps |-> stamps]

rvars == <<vars, disk, delivered>>

RInit == Init /\ disk = Current /\ delivered = 0

\* A memtable flush, at any time between two batches.  A crash between the two
\* batches of one handler leaves the store of the handler's failed outcome.
Flush ==
  /\ disk' = Current
  /\ UNCHANGED <<vars, delivered>>

----------------------------------------------------------------------------
(* Stage::new and Worker::bootstrap over the store found on disk.          *)

\* The points of a set, the highest first.
NewestFirst(points) ==
  CHOOSE s \in [1..Cardinality(points) -> points] :
    \A i, j \in DOMAIN s : i < j => s[i] # s[j] /\ s[i].height >= s[j].height

\* The originals of the rows of a point.
KvsAt(table, p) ==
  LET rows == {r \in table : r.point = p}
  IN  [k \in {r.key : r \in rows} |-> (CHOOSE r \in rows : r.key = k).original]

\* The rows in ascending (height, hash, key) order, one entry per point, each
\* pushed to the front, the oldest dropped beyond the capacity.
FetchFromStorage(table) ==
  LET points == NewestFirst({r.point : r \in table})
      n == IF Len(points) > Capacity THEN Capacity ELSE Len(points)
  IN  [i \in 1..n |-> [point |-> points[i], kvs |-> KvsAt(table, points[i])]]

\* A faulty variant of LastProcessed: the point is taken from IndexerInfoKV.
LastFromInfo(d) ==
  IF d[InfoKey] = Absent THEN PointOf(Genesis)
  ELSE [height |-> d[InfoKey].height, hash |-> d[InfoKey].hash]

\* The greatest entry of HashByHeightKV, or genesis in an empty store.
LastProcessed(d) ==
  LET hs == {h \in BlockHeight : d[HashKey(h)] # Absent}
  IN  IF hs = {} THEN PointOf(Genesis)
      ELSE LET top == CHOOSE h \in hs : \A x \in hs : x <= h
           IN  [height |-> top, hash |-> d[HashKey(top)]]

InfoMempool(d) == d[InfoKey] # Absent /\ d[InfoKey].mempool

\* The assertions of Stage::new.
StartupAsserts(d, b) ==
  (d[InfoKey] # Absent /\ b # <<>>) =>
    LET info == d[InfoKey]
        latest == b[1].point
    IN  IF info.mempool
        THEN latest.hash = info.hash /\ latest.hash = LastProcessed(d).hash
        ELSE /\ latest = LastProcessed(d)
             /\ latest = [height |-> info.height, hash |-> info.hash]

\* The process ends, at any time, and is started again.
Reopen ==
  /\ db' = disk.db
  /\ rbTable' = disk.rbTable
  /\ stamps' = disk.stamps
  /\ buf' = FetchFromStorage(disk.rbTable)
  /\ last' = LastProcessed(disk.db)
  /\ processedMempool' = InfoMempool(disk.db)
  /\ Bootstrap(buf')
  /\ status' = IF StartupAsserts(disk.db, buf') THEN "running" ELSE "panicked"
  /\ delivered' = 0
  /\ UNCHANGED disk

\* The events of IndexStage, but for one thing a node does not do: it builds
\* no block template below a block it has already delivered.
Handle ==
  \/ \E p \in Point :
       /\ \E tip \in BlockHeight : tip >= p.height /\ RollForward(p, tip)
       /\ delivered' = IF p.height > delivered THEN p.height ELSE delivered
  \/ \E p \in Point : RollBack(p) /\ UNCHANGED delivered
  \/ \E t \in Block, s \in Snapshot :
       /\ Height[t] >= delivered
       /\ MempoolBlocks(t, s)
       /\ UNCHANGED delivered

\* stop_after: flush_and_compact before the stage ends.
StopFlushed ==
  /\ \E p \in Point : Stop(p)
  /\ disk' = Current
  /\ UNCHANGED delivered

RNext ==
  \/ Handle /\ UNCHANGED disk
  \/ StopFlushed
  \/ Flush
  \/ Reopen

RSpec == RInit /\ [][RNext]_rvars

----------------------------------------------------------------------------
(* Properties.                                                             *)

\* The assertions of Stage::new hold for whatever a crash can leave on disk,
\* so that an index that ran once can always be opened again.
CanReopen == StartupAsserts(disk.db, FetchFromStorage(disk.rbTable))

\* Whatever batches a crash loses and wherever it strikes, the process that
\* comes up again has the store, the buffer and last_processed of one chain, and
\* keeps them so: what it reads back fits what it goes on to undo (Stage::new).
ConsistentAcrossCrashes == StoreMatchesChain /\ MempoolOverlay /\ BufferIsChain

\* A snapshot on disk can be undone by the process that finds it there: its
\* originals are read back on top of the entry of the tip they belong to.
MempoolRecoverable ==
  InfoMempool(disk.db) =>
    LET b == FetchFromStorage(disk.rbTable) IN
    /\ Len(b) >= 2
    /\ b[1].point = MempoolPoint(LastProcessed(disk.db).hash)
    /\ b[2].point = LastProcessed(disk.db)
=============================================================================
