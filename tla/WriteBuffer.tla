---------------------------- MODULE WriteBuffer ----------------------------
(***************************************************************************)
(* The write buffer of one indexing task (IndexingTask in                  *)
(* storage/kv_store.rs) and the counters' merge operations                 *)
(* (storage/merge_operation.rs).  A task reads through its buffer; a       *)
(* commit puts the buffer into RocksDB, which keeps merge operands and     *)
(* combines them when it reads or compacts.                                *)
(*                                                                         *)
(* Values are unsigned integers that saturate at MaxValue (u128::MAX).     *)
(***************************************************************************)
EXTENDS Naturals, Sequences

CONSTANTS
  Key,
  Settable,    \* keys of tables that are set
  Deletable,   \* keys of tables that are deleted from
  Mergeable,   \* keys of tables that are incremented and decremented
  Amount,      \* the amounts used
  MaxValue,    \* u128::MAX
  Saturating,  \* whether callers may count below 0 or above MaxValue
  Absent,      \* no value, no action, no task
  MaxOperands  \* bound: merge operands RocksDB keeps for a key

ASSUME WriteBufferAssumption ==
  /\ Settable \cup Deletable \cup Mergeable \subseteq Key
  /\ MaxValue \in Nat /\ MaxOperands \in Nat
  /\ Amount \subseteq 0..MaxValue
  /\ Saturating \in BOOLEAN

Number == 0..MaxValue
Operation == [op : {"increment", "decrement"}, delta : Number]

\* What the buffer holds for a key.
StorageAction == [action : {"set", "delete", "merge"}, value : Number \cup {Absent} \cup Operation]

Partial(S) == UNION {[keys -> S] : keys \in SUBSET Key}

IndexingTask ==
  [buffer : Partial(StorageAction), originals : Partial(Number \cup {Absent}), mutable : BOOLEAN]

ASSUME AbsentAssumption == Absent \notin Number \cup Operation /\ Absent \notin IndexingTask

VARIABLES
  store,  \* RocksDB: for each key a base value and operands, oldest first
  task,   \* the open task's write buffer and original values
  undo,   \* the originals of the last task, once committed, if it recorded them
  ref,    \* history: each key's value, every operation applied in turn
  back    \* history: ref when the last task began

vars == <<store, task, undo, ref, back>>

Init ==
  /\ store = [k \in Key |-> [base |-> Absent, operands |-> <<>>]]
  /\ task = Absent
  /\ undo = Absent
  /\ ref = [k \in Key |-> Absent]
  /\ back = ref

----------------------------------------------------------------------------
(* Merge operations                                                        *)

SaturatingAdd(a, b) == IF a + b <= MaxValue THEN a + b ELSE MaxValue
SaturatingSub(a, b) == IF a >= b THEN a - b ELSE 0

ApplyMerge(o, n) == IF o.op = "increment" THEN SaturatingAdd(n, o.delta)
                    ELSE SaturatingSub(n, o.delta)

OrZero(v) == IF v = Absent THEN 0 ELSE v

\* create_merge_operator: the operands in sequence over the base, or over 0.
FullMerge(base, operands) ==
  LET current[i \in 0..Len(operands)] ==
        IF i = 0 THEN OrZero(base) ELSE ApplyMerge(operands[i], current[i - 1])
  IN  current[Len(operands)]

Net(up, down) ==
  IF up >= down THEN [op |-> "increment", delta |-> up - down]
  ELSE [op |-> "decrement", delta |-> down - up]

\* increment_total and decrement_total of create_partial_merge_operator
Total(kind, operands) ==
  LET total[i \in 0..Len(operands)] ==
        IF i = 0 THEN 0
        ELSE IF operands[i].op = kind
             THEN SaturatingAdd(total[i - 1], operands[i].delta)
             ELSE total[i - 1]
  IN  total[Len(operands)]

\* create_partial_merge_operator: the net change of the operands.
PartialMerge(operands) ==
  Net(Total("increment", operands), Total("decrement", operands))

\* combine_merge_operations
CombineMergeOperations(a, b) ==
  IF a.op = b.op THEN [a EXCEPT !.delta = SaturatingAdd(a.delta, b.delta)]
  ELSE IF b.delta <= a.delta THEN [a EXCEPT !.delta = a.delta - b.delta]
       ELSE [b EXCEPT !.delta = b.delta - a.delta]

----------------------------------------------------------------------------
(* IndexingTask                                                            *)

\* A read of RocksDB.
Stored(k) == IF store[k].operands = <<>> THEN store[k].base
             ELSE FullMerge(store[k].base, store[k].operands)

\* A faulty variant of GetInner: the pending operation is forgotten.
GetInnerNoMerge(k, o) == Stored(k)

\* get_inner, with a pending merge operation
GetInner(k, o) == ApplyMerge(o, OrZero(Stored(k)))

\* get, multi_get
Get(k) ==
  IF k \notin DOMAIN task.buffer THEN Stored(k)
  ELSE LET a == task.buffer[k] IN
       CASE a.action = "set"    -> a.value
         [] a.action = "delete" -> Absent
         [] a.action = "merge"  -> GetInner(k, a.value)

NoFunction == [k \in {} |-> Absent]
Extended(f, k, v) == [i \in DOMAIN f \cup {k} |-> IF i = k THEN v ELSE f[i]]

\* A faulty variant of MaybeStoreOriginal: the task's own value is recorded.
OriginalFromBuffer(k) ==
  IF task.mutable THEN Extended(task.originals, k, Get(k)) ELSE task.originals

\* maybe_store_original_kv: the stored value, once per key.
MaybeStoreOriginal(k) ==
  IF task.mutable /\ k \notin DOMAIN task.originals
  THEN Extended(task.originals, k, Stored(k))
  ELSE task.originals

Buffer(k, action, value) ==
  task' = [task EXCEPT
    !.originals = MaybeStoreOriginal(k),
    !.buffer = Extended(@, k, [action |-> action, value |-> value])]

Begin(mutable) ==
  /\ task = Absent
  /\ task' = [buffer |-> NoFunction, originals |-> NoFunction, mutable |-> mutable]
  /\ back' = ref
  /\ undo' = Absent
  /\ UNCHANGED <<store, ref>>

Set(k, v) ==
  /\ task # Absent
  /\ Buffer(k, "set", v)
  /\ ref' = [ref EXCEPT ![k] = v]
  /\ UNCHANGED <<store, undo, back>>

Delete(k) ==
  /\ task # Absent
  /\ Buffer(k, "delete", Absent)
  /\ ref' = [ref EXCEPT ![k] = Absent]
  /\ UNCHANGED <<store, undo, back>>

\* Callers that keep their counts in range, as the counters' tables do.
InRange(k, o) ==
  IF o.op = "increment" THEN OrZero(ref[k]) + o.delta <= MaxValue
  ELSE OrZero(ref[k]) >= o.delta

\* merge_op, called by increment and decrement
MergeOp(k, o) ==
  /\ task # Absent
  /\ Saturating \/ InRange(k, o)
  /\ IF k \in DOMAIN task.buffer /\ task.buffer[k].action = "set"
     THEN Buffer(k, "set", ApplyMerge(o, task.buffer[k].value))
     ELSE IF k \in DOMAIN task.buffer /\ task.buffer[k].action = "merge"
     THEN Buffer(k, "merge", CombineMergeOperations(task.buffer[k].value, o))
     ELSE Buffer(k, "merge", o)
  /\ ref' = [ref EXCEPT ![k] = ApplyMerge(o, OrZero(@))]
  /\ UNCHANGED <<store, undo, back>>

----------------------------------------------------------------------------
(* StorageHandler and RocksDB                                              *)

\* The batch of apply_indexing_task, for one key.
Written(row, a) ==
  IF a.action = "merge" THEN [row EXCEPT !.operands = Append(@, a.value)]
  ELSE [base |-> a.value, operands |-> <<>>]

\* A bound on the operands of a key: their number, and for callers that keep
\* their counts in range their totals, far from u128::MAX.
Room(operands) ==
  /\ Len(operands) <= MaxOperands
  /\ Saturating \/ \A kind \in {"increment", "decrement"} : Total(kind, operands) < MaxValue

Commit ==
  /\ task # Absent
  /\ store' = [k \in Key |-> IF k \in DOMAIN task.buffer
                             THEN Written(store[k], task.buffer[k]) ELSE store[k]]
  /\ \A k \in Key : Room(store'[k].operands)
  /\ undo' = IF task.mutable THEN task.originals ELSE Absent
  /\ task' = Absent
  /\ UNCHANGED <<ref, back>>

\* The task fails, or its batch is not written.
Abort ==
  /\ task # Absent
  /\ task' = Absent
  /\ ref' = back
  /\ UNCHANGED <<store, undo, back>>

\* Stage::rollback_to_point puts or deletes the originals.
Rollback ==
  /\ task = Absent /\ undo # Absent
  /\ store' = [k \in Key |-> IF k \in DOMAIN undo
                             THEN [base |-> undo[k], operands |-> <<>>]
                             ELSE store[k]]
  /\ ref' = back
  /\ undo' = Absent
  /\ UNCHANGED <<task, back>>

\* Compaction combines the operands of a key, or resolves them.
Compact(k) ==
  LET row == store[k] IN
  /\ \/ /\ Len(row.operands) > 1
        /\ store' = [store EXCEPT ![k].operands = <<PartialMerge(row.operands)>>]
     \/ /\ Len(row.operands) > 0
        /\ store' = [store EXCEPT ![k] = [base |-> Stored(k), operands |-> <<>>]]
  /\ UNCHANGED <<task, undo, ref, back>>

Next ==
  \/ \E mutable \in BOOLEAN : Begin(mutable)
  \/ \E k \in Settable, v \in Number : Set(k, v)
  \/ \E k \in Deletable : Delete(k)
  \/ \E k \in Mergeable, d \in Amount, op \in {"increment", "decrement"} :
       MergeOp(k, [op |-> op, delta |-> d])
  \/ Commit
  \/ Abort
  \/ Rollback
  \/ \E k \in Key : Compact(k)

Spec == Init /\ [][Next]_vars

----------------------------------------------------------------------------
(* Properties.                                                             *)

\* Inside a task every read returns what the operations so far give when they
\* are applied one by one (get and get_inner over buffered merges).
ReadsOwnWrites == task # Absent => \A k \in Key : Get(k) = ref[k]

\* Between tasks the store holds what all operations of the committed tasks
\* give when they are applied one by one, less the task that was rolled back:
\* combining operations in the buffer, keeping them as operands, compacting
\* and restoring originals change nothing.
StoreIsSequential == task = Absent => \A k \in Key : Stored(k) = ref[k]
=============================================================================
