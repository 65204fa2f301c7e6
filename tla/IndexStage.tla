----------------------------- MODULE IndexStage -----------------------------
(***************************************************************************)
(* The index stage of the sync pipeline (sync/stages/index): it receives   *)
(* chain events from the pull stage, applies the writes of each block to   *)
(* the key-value store in one batch, and undoes blocks from the original   *)
(* values it recorded in the rollback buffer.                              *)
(*                                                                         *)
(* The store is seen at its latest timestamp; module CommitClock says when *)
(* that view is the one the code reads.  Indexers are abstract: Indexed    *)
(* gives the keys a block writes, with their new values, as a function of  *)
(* the block and of the data tables before it.                             *)
(***************************************************************************)
EXTENDS Naturals, Sequences, RollbackBuffer

CONSTANTS
  DataKey,              \* keys of the tables the indexers write
  DataVal,              \* their values
  Absent,               \* PreviousValue::NotPresent, a key with no value
  Block,                \* block hashes
  Genesis,              \* the network's genesis block
  Prev,                 \* header.prev_blockhash
  Height,               \* the height of a block in its chain
  Snapshot,             \* mempool snapshots (block templates)
  Indexed(_, _),        \* Indexed(b, v): what block b writes over view v
  MempoolIndexed(_, _), \* MempoolIndexed(s, v): what snapshot s writes over v
  MaxRollback,          \* config.max_rollback
  StopAfter,            \* config.stop_after
  MaxU64                \* u64::MAX, the height of the mempool pseudo point

InfoKey == <<"indexer_info">>
HashKey(h) == <<"hash_by_height", h>>

BlockHeight == {Height[b] : b \in Block}

Key == DataKey \cup {InfoKey} \cup {HashKey(h) : h \in BlockHeight}

Info == [height : Nat, hash : Block, mempool : BOOLEAN]

DataView == [DataKey -> DataVal \cup {Absent}]

\* Write sets over the data tables; a deleted key is written as Absent.
DataWrites == UNION {[S -> DataVal \cup {Absent}] : S \in SUBSET DataKey}

ASSUME ChainAssumption ==
  /\ Genesis \in Block
  /\ Prev[Genesis] \notin Block    \* the all-zero hash
  /\ Height \in [Block -> Nat]
  /\ Height[Genesis] = 0
  /\ \A b \in Block \ {Genesis} : /\ Prev[b] \in Block
                                  /\ Height[b] = Height[Prev[b]] + 1

ASSUME IndexerAssumption ==
  \A v \in DataView :
    /\ \A b \in Block : Indexed(b, v) \in DataWrites
    /\ \A s \in Snapshot : MempoolIndexed(s, v) \in DataWrites

ASSUME BoundAssumption ==
  /\ MaxRollback \in Nat
  /\ StopAfter \in Nat
  /\ MaxU64 \in Nat
  /\ \A b \in Block : Height[b] + 1 < MaxU64

ASSUME KeyAssumption ==
  \A k \in DataKey : k # InfoKey /\ \A h \in BlockHeight : k # HashKey(h)

Point == [height : BlockHeight, hash : Block]
PointOf(b) == [height |-> Height[b], hash |-> b]
MempoolPoint(b) == [height |-> MaxU64, hash |-> b]

SaturatingSub(a, b) == IF a >= b THEN a - b ELSE 0

----------------------------------------------------------------------------
(* What one indexing task writes over a store d, and what it records.      *)

DataOf(d) == [k \in DataKey |-> d[k]]

WithInfo(w, info) ==
  [k \in DOMAIN w \cup {InfoKey} |-> IF k = InfoKey THEN info ELSE w[k]]

\* The write buffer of a confirmed block: its indexers' writes, then
\* IndexerInfoKV and HashByHeightKV.
BlockWrites(p, d) ==
  LET w == WithInfo(Indexed(p.hash, DataOf(d)),
                    [height |-> p.height, hash |-> p.hash, mempool |-> FALSE])
  IN  [k \in DOMAIN w \cup {HashKey(p.height)} |->
         IF k = HashKey(p.height) THEN p.hash ELSE w[k]]

\* The write buffer of a mempool snapshot, which is one estimated block on p.
MempoolWrites(s, p, d) ==
  WithInfo(MempoolIndexed(s, DataOf(d)),
           [height |-> p.height + 1, hash |-> p.hash, mempool |-> TRUE])

Applied(d, w) == [k \in Key |-> IF k \in DOMAIN w THEN w[k] ELSE d[k]]

\* maybe_store_original_kv: the stored value of every key the task modifies.
Originals(d, w) == [k \in DOMAIN w |-> d[k]]

EmptyDb == [k \in Key |-> Absent]

\* The store after indexing exactly the chain from genesis to b.
StateAt[b \in Block] ==
  IF b = Genesis THEN EmptyDb
  ELSE Applied(StateAt[Prev[b]], BlockWrites(PointOf(b), StateAt[Prev[b]]))

\* The blocks of the chain from genesis to b.
Ancestors[b \in Block] ==
  IF b = Genesis THEN {b} ELSE {b} \cup Ancestors[Prev[b]]

----------------------------------------------------------------------------
VARIABLES
  db,               \* latest value of every key of the data and core tables
  rbTable,          \* RollbackBufferKV: rows [point, key, original]
  stamps,           \* TimestampsKV: the points of the latest commits, by kind
  buf,              \* RollbackBuffer.points, newest first
  last,             \* Stage.last_processed
  processedMempool, \* Stage.processed_mempool
  mutable,          \* Worker.mutable
  status            \* "running", "panicked" or "done"

store == <<db, rbTable, stamps>>
memory == <<buf, last, processedMempool>>
vars == <<store, memory, mutable, status>>

Capacity == MaxRollback + 2

Init ==
  /\ db = EmptyDb
  /\ rbTable = {}
  /\ stamps = [confirmed |-> Absent, mempool |-> Absent]
  /\ buf = <<>>
  /\ last = PointOf(Genesis)
  /\ processedMempool = FALSE
  /\ mutable = FALSE
  /\ status = "running"

----------------------------------------------------------------------------
\* rollback_to_point(p), once p was found with n newer entries.
Undo(n, p) ==
  /\ db' = Undone(db, buf, n)
  /\ rbTable' = UndoneRows(rbTable, buf, n)
  /\ buf' = Kept(buf, n)
  /\ last' = p
  /\ processedMempool' = FALSE

----------------------------------------------------------------------------
(* apply_indexing_task.                                                    *)

Rows(p, kvs) == {[point |-> p, key |-> k, original |-> kvs[k]] : k \in DOMAIN kvs}

Put(table, p, kvs) ==
  {r \in table : r.point = p => r.key \notin DOMAIN kvs} \cup Rows(p, kvs)

\* Faulty variants of GcTable: one height too many, and none.
GcTableShort(table, h) ==
  {r \in table : r.point.height > SaturatingSub(h, MaxRollback)}
GcTableNever(table, h) == table

\* Rows below remove_before are deleted in the batch of a recorded block.
GcTable(table, h) ==
  {r \in table : r.point.height >= SaturatingSub(h, MaxRollback)}

----------------------------------------------------------------------------
(* gasket: an or_restart error ends the worker, drops the event in hand    *)
(* and bootstraps a new worker on the same stage; an or_panic error ends   *)
(* the stage.                                                              *)

Bootstrap(b) == mutable' = (b # <<>>)

Panic == status' = "panicked" /\ UNCHANGED mutable

----------------------------------------------------------------------------
(* ChainEvent::RollForward                                                 *)

\* Entries undone before a confirmed block: those of the mempool snapshot.
MempoolDepth == IF processedMempool THEN PointsSince(buf, last) ELSE 0

NearTip(p, tip) == p.height > SaturatingSub(tip, MaxRollback)

\* A faulty variant of ChainsOnLast: the parent is not checked.
ChainsOnAny(p) == TRUE

ChainsOnLast(p) == Prev[p.hash] = last.hash

CommitBlock(p, n, record) ==
  LET base == Undone(db, buf, n)
      w == BlockWrites(p, base)
      kvs == Originals(base, w)
  IN  /\ db' = Applied(base, w)
      /\ rbTable' = LET kept == UndoneRows(rbTable, buf, n)
                    IN  IF record THEN GcTable(Put(kept, p, kvs), p.height)
                        ELSE kept
      /\ stamps' = [stamps EXCEPT !.confirmed = p]
      /\ buf' = IF record THEN AddBlock(Kept(buf, n), p, kvs, Capacity)
                ELSE Kept(buf, n)
      /\ last' = p
      /\ processedMempool' = FALSE

RollForward(p, tip) ==
  /\ status = "running"
  /\ p.height <= StopAfter
  /\ \/ /\ processedMempool /\ ~InBuffer(buf, last)
        /\ Panic
        /\ UNCHANGED <<store, memory>>
     \/ \* the undo of the mempool snapshot is not written
        /\ processedMempool /\ InBuffer(buf, last)
        /\ Bootstrap(buf)
        /\ UNCHANGED <<store, memory, status>>
     \/ /\ processedMempool => InBuffer(buf, last)
        /\ \/ \* an old or repeated block
              /\ p.height < last.height + 1
              /\ Undo(MempoolDepth, last)
              /\ UNCHANGED <<stamps, mutable, status>>
           \/ /\ p.height > last.height + 1 \/ ~ChainsOnLast(p)
              /\ p.height >= last.height + 1
              /\ Undo(MempoolDepth, last)
              /\ Panic
              /\ UNCHANGED stamps
           \/ /\ p.height = last.height + 1 /\ ChainsOnLast(p)
              /\ \/ \* an error while indexing, or the batch is not written
                    /\ Undo(MempoolDepth, last)
                    /\ Bootstrap(Kept(buf, MempoolDepth))
                    /\ UNCHANGED <<stamps, status>>
                 \/ /\ mutable' = (mutable \/ NearTip(p, tip))
                    /\ CommitBlock(p, MempoolDepth, mutable')
                    /\ UNCHANGED status

(* ChainEvent::RollBack                                                    *)
RollBack(p) ==
  /\ status = "running"
  /\ \/ /\ ~InBuffer(buf, p)
        /\ Panic
        /\ UNCHANGED <<store, memory>>
     \/ /\ InBuffer(buf, p)
        /\ Undo(PointsSince(buf, p), p)
        /\ UNCHANGED <<stamps, mutable, status>>
     \/ \* the batch is not written
        /\ InBuffer(buf, p)
        /\ Bootstrap(buf)
        /\ UNCHANGED <<store, memory, status>>

(* ChainEvent::MempoolBlocks, a snapshot s built by the node on block t    *)

CommitMempool(s, n) ==
  LET base == Undone(db, buf, n)
      w == MempoolWrites(s, last, base)
      kvs == Originals(base, w)
  IN  /\ db' = Applied(base, w)
      /\ rbTable' = Put(UndoneRows(rbTable, buf, n), MempoolPoint(last.hash), kvs)
      /\ stamps' = [stamps EXCEPT
                      !.mempool = [height |-> last.height + 1, hash |-> last.hash]]
      /\ buf' = AddBlock(Kept(buf, n), MempoolPoint(last.hash), kvs, Capacity)
      /\ processedMempool' = TRUE
      /\ UNCHANGED last

MempoolBlocks(t, s) ==
  /\ status = "running"
  /\ \/ /\ ~InBuffer(buf, last)
        /\ Panic
        /\ UNCHANGED <<store, memory>>
     \/ /\ InBuffer(buf, last)
        /\ LET n == PointsSince(buf, last) IN
           \/ \* the undo of the previous snapshot is not written
              /\ n > 0
              /\ Bootstrap(buf)
              /\ UNCHANGED <<store, memory, status>>
           \/ \* the snapshot is not chained on our tip
              /\ t # last.hash
              /\ IF n > 0 THEN Undo(n, last)
                 ELSE UNCHANGED <<db, rbTable, memory>>
              /\ UNCHANGED <<stamps, mutable, status>>
           \/ \* an error while indexing, or the batch is not written
              /\ t = last.hash
              /\ IF n > 0 THEN Undo(n, last)
                 ELSE UNCHANGED <<db, rbTable, memory>>
              /\ Bootstrap(Kept(buf, n))
              /\ UNCHANGED <<stamps, status>>
           \/ /\ t = last.hash
              /\ CommitMempool(s, n)
              /\ UNCHANGED <<mutable, status>>

\* A block past stop_after ends the stage before it is processed.
Stop(p) ==
  /\ status = "running"
  /\ p.height > StopAfter
  /\ status' = "done"
  /\ UNCHANGED <<store, memory, mutable>>

\* The events a pull stage may deliver, in any order: any point, with a tip
\* at or above it, and snapshots on any block.
Next ==
  \/ \E p \in Point : \E tip \in BlockHeight : tip >= p.height /\ RollForward(p, tip)
  \/ \E p \in Point : RollBack(p)
  \/ \E t \in Block, s \in Snapshot : MempoolBlocks(t, s)
  \/ \E p \in Point : Stop(p)

Spec == Init /\ [][Next]_vars

----------------------------------------------------------------------------
(* Properties.                                                             *)

ValueOf(k) ==
  IF k \in DataKey THEN DataVal \cup {Absent}
  ELSE IF k = InfoKey THEN Info \cup {Absent} ELSE Block \cup {Absent}

Value == DataVal \cup Info \cup Block \cup {Absent}

DB == {d \in [Key -> Value] : \A k \in Key : d[k] \in ValueOf(k)}

BufferPoint == Point \cup {MempoolPoint(b) : b \in Block}

\* The originals of an entry are values its keys may hold.
WellTyped(kvs) ==
  DOMAIN kvs \subseteq Key /\ \A k \in DOMAIN kvs : kvs[k] \in ValueOf(k)

Row == {r \in [point : BufferPoint, key : Key, original : Value] :
          r.original \in ValueOf(r.key)}

Stamp == [height : Nat, hash : Block] \cup {Absent}

\* Every variable has its type: tables hold values of their own tables, and
\* buffer entries and rollback rows are about real or pseudo points.
TypeOK ==
  /\ db \in DB
  /\ \A r \in rbTable : r \in Row
  /\ stamps \in [confirmed : Stamp, mempool : Stamp]
  /\ Len(buf) \in 0..Capacity
  /\ \A i \in 1..Len(buf) : buf[i].point \in BufferPoint /\ WellTyped(buf[i].kvs)
  /\ last \in Point
  /\ processedMempool \in BOOLEAN
  /\ mutable \in BOOLEAN
  /\ status \in {"running", "panicked", "done"}

\* With no mempool snapshot applied, the store is exactly what indexing the
\* chain from genesis to last_processed gives, whatever rollbacks, snapshots,
\* repeated events and failed batches came before (Stage::rollback_to_point).
StoreMatchesChain == ~processedMempool => db = StateAt[last.hash]

\* With a snapshot applied, the store is that snapshot alone over the chain's
\* state: earlier snapshots leave nothing behind, and the snapshot was indexed
\* over the tip it is chained on.
MempoolOverlay ==
  processedMempool =>
    \E s \in Snapshot :
      db = Applied(StateAt[last.hash], MempoolWrites(s, last, StateAt[last.hash]))

\* The confirmed entries of the buffer, newest first, are last_processed and
\* its ancestors without a gap, under the mempool entry if there is one.
First == IF processedMempool THEN 2 ELSE 1

BufferIsChain ==
  /\ processedMempool => Len(buf) >= 2 /\ buf[1].point = MempoolPoint(last.hash)
  /\ Len(buf) >= First => buf[First].point = last
  /\ \A i \in First..Len(buf) : buf[i].point = PointOf(buf[i].point.hash)
  /\ \A i \in First..(Len(buf) - 1) :
       Prev[buf[i].point.hash] = buf[i + 1].point.hash

\* The persistent buffer never holds a row the buffer in memory does not, and
\* holds the rows of an entry all or not at all, for the newest entries only:
\* what a restart reads back is a prefix of the buffer, with its values.
TableMirrorsBuffer ==
  \E n \in 0..Len(buf) :
    rbTable = UNION {Rows(buf[i].point, buf[i].kvs) : i \in 1..n}

\* A step moves last_processed to a child of it, or to a buffered point: an
\* indexed block is never replaced by another of the same height without an
\* undo.
ChainStep ==
  [][last' = last \/ Prev[last'.hash] = last.hash \/ InBuffer(buf, last')]_vars

\* The store of the chain to b, and the same with a snapshot over it.
Confirmed(b) == StateAt[b]
Overlaid(s, b) == Applied(StateAt[b], MempoolWrites(s, PointOf(b), StateAt[b]))

Promise == INSTANCE ChainStore WITH tip <- last.hash, store <- db

\* The index stage implements ChainStore: whatever events arrive and whichever
\* batches fail, each step of the store is a block on the tip, a return to an
\* ancestor, a snapshot over the tip, or nothing.
ImplementsChainStore == Promise!Spec

\* The points a tip at height h can still be rolled back to.
InWindow(p, h) == p.height <= h /\ h <= p.height + MaxRollback

WindowStep ==
  /\ \A i \in 1..Len(buf) : InWindow(buf[i].point, last'.height) =>
       \E j \in 1..Len(buf') : buf'[j] = buf[i]
  /\ \A r \in rbTable : InWindow(r.point, last'.height) => r \in rbTable'

\* Truncation drops only points more than MaxRollback below the new tip, so
\* that many blocks can always be undone once recorded (RollbackBuffer::new:
\* "+1 to include rb point, +1 to include mempool psuedo point"), by this
\* process and, from the rows of the persistent buffer, by the next; the one is
\* bounded by a count, the other by a range deletion by height.
WindowKept == [][WindowStep]_vars
=============================================================================
