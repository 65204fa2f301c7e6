------------------------------- MODULE Utxos -------------------------------
(***************************************************************************)
(* How the inputs of a block's transactions are resolved: from the block   *)
(* itself, from the UTXO cache, from UtxoByTxoRefKV (utxo_by_txo_ref.rs),  *)
(* and what a task does to the resolver, the cache and the table           *)
(* (IndexingContext in worker/context.rs).  The cache belongs to the stage *)
(* and survives rollbacks, mempool snapshots and failed batches.           *)
(*                                                                         *)
(* Rollbacks are exact (theorem RollbackIsExact of SyncProofs), so         *)
(* the rollback buffer is kept here as the tables it restores.  A Utxo is  *)
(* its height and the metadata indexers attach, which may depend on the    *)
(* block.                                                                  *)
(***************************************************************************)
EXTENDS Naturals, Sequences

CONSTANTS
  Ref,          \* transaction outputs
  Unspendable,  \* those with an OP_RETURN script
  Block, Genesis, Prev, Height,
  Txs(_),       \* the transactions of a block or snapshot, [ins, outs]
  Snapshot,     \* mempool snapshots
  SnapshotTip,  \* the block each one is chained on
  Absent

ASSUME ChainAssumption ==
  /\ Genesis \in Block /\ Unspendable \subseteq Ref
  /\ Height \in [Block -> Nat] /\ Height[Genesis] = 0
  /\ \A b \in Block \ {Genesis} : /\ Prev[b] \in Block
                                  /\ Height[b] = Height[Prev[b]] + 1
  /\ SnapshotTip \in [Snapshot -> Block] /\ Snapshot \cap Block = {}

VARIABLES
  tip,     \* Stage.last_processed
  table,   \* UtxoByTxoRefKV
  undo,    \* the points below and the tables they are restored to, newest last
  snap,    \* whether a snapshot is applied (its entry is the last of undo)
  cache,   \* Stage.utxo_cache
  seen,    \* what the indexers of the last task resolved
  status   \* "running" or "panicked"

vars == <<tip, table, undo, snap, cache, seen, status>>

Empty == [r \in {} |-> Absent]

Without(f, S) == [r \in DOMAIN f \ S |-> f[r]]
With(f, g) == [r \in DOMAIN f \cup DOMAIN g |-> IF r \in DOMAIN g THEN g[r] ELSE f[r]]

Init ==
  /\ tip = Genesis
  /\ table = [r \in Ref |-> Absent]
  /\ undo = <<>>
  /\ snap = FALSE
  /\ cache = Empty
  /\ seen = [of |-> Absent, resolved |-> Empty]
  /\ status = "running"

----------------------------------------------------------------------------
(* resolve_inputs and IndexingContext::new                                 *)

Inputs(txs) == UNION {txs[i].ins : i \in 1..Len(txs)}
Produced(txs) == UNION {txs[i].outs : i \in 1..Len(txs)}

\* Inputs produced in the block itself.
ChainedTxos(txs) == Inputs(txs) \cap Produced(txs)

Required(txs) == Inputs(txs) \ ChainedTxos(txs)

\* Inputs that are neither cached nor in the table.
Missing(txs, t, c) == {r \in Required(txs) : r \notin DOMAIN c /\ t[r] = Absent}

Resolver(txs, t, c) ==
  [r \in Required(txs) |-> IF r \in DOMAIN c THEN c[r] ELSE t[r]]

\* Looking an input up removes it from the cache, in mempool tasks too.
CacheAfterResolve(txs, c) == Without(c, Required(txs))

----------------------------------------------------------------------------
(* One transaction: the indexers resolve its inputs, then update_utxo_set  *)

\* A faulty variant of Spendable: OP_RETURN outputs are kept too.
SpendableAll(tx) == tx.outs

Spendable(tx) == tx.outs \ Unspendable

\* A faulty variant of Inserted: an entry that is there is kept.
InsertedIfNew(c, out) == With(out, c)

\* UtxoCache::insert replaces an entry, of an undone block for instance.
Inserted(c, out) == With(c, out)

Processed(st, tx, chained, value, mempool) ==
  LET out(S) == [r \in S |-> value]
      spendable == Spendable(tx)
  IN  [seen     |-> With(st.seen, [r \in tx.ins |->
                      IF r \in DOMAIN st.resolver THEN st.resolver[r] ELSE Absent]),
       resolver |-> With(IF mempool THEN st.resolver ELSE Without(st.resolver, tx.ins),
                         out(spendable \cap chained)),
       writes   |-> With(With(st.writes, [r \in tx.ins |-> Absent]),
                         out(spendable \ chained)),
       cache    |-> IF mempool THEN st.cache
                    ELSE Inserted(st.cache, out(spendable \ chained))]

\* The task after its first n transactions.
Task(txs, t, c, value, mempool, n) ==
  LET chained == ChainedTxos(txs)
      st[i \in 0..Len(txs)] ==
        IF i = 0
        THEN [seen |-> Empty, resolver |-> Resolver(txs, t, c),
              writes |-> Empty, cache |-> CacheAfterResolve(txs, c)]
        ELSE Processed(st[i - 1], txs[i], chained, value, mempool)
  IN  st[n]

----------------------------------------------------------------------------
(* The events of the index stage, as far as they concern outputs.          *)

\* The table once an applied snapshot is undone, and the entries left.
Base == IF snap THEN undo[Len(undo)].table ELSE table
Confirmed == IF snap THEN SubSeq(undo, 1, Len(undo) - 1) ELSE undo

\* An applied snapshot is undone, in a batch of its own.
UndoSnapshot == table' = Base /\ undo' = Confirmed /\ snap' = FALSE

\* "missing non chained utxo": the panic ends the stage.
MissingPanic(txs) ==
  /\ status' = "panicked"
  /\ UndoSnapshot
  /\ cache' = CacheAfterResolve(txs, cache)
  /\ UNCHANGED <<tip, seen>>

Entry(b, t) == [block |-> b, table |-> t]

Run(of, mempool, value) ==
  LET txs == Txs(of)
      done == Task(txs, Base, cache, value, mempool, Len(txs))
  IN  \/ /\ Missing(txs, Base, cache) # {}
         /\ MissingPanic(txs)
      \/ \* an error after n transactions (in one: Evict covers the outputs it
         \* had not cached yet), or the batch is not written
         /\ Missing(txs, Base, cache) = {}
         /\ \E n \in 0..Len(txs) :
              cache' = Task(txs, Base, cache, value, mempool, n).cache
         /\ UndoSnapshot
         /\ UNCHANGED <<tip, seen, status>>
      \/ /\ Missing(txs, Base, cache) = {}
         /\ table' = With(Base, done.writes)
         /\ undo' = Append(Confirmed, Entry(tip, Base))
         /\ cache' = done.cache
         /\ seen' = [of |-> of, resolved |-> done.seen]
         /\ snap' = mempool
         /\ tip' = IF mempool THEN tip ELSE of
         /\ UNCHANGED status

\* An event that is not for the tip leaves the snapshot undone (the ones that
\* end the stage are in IndexStage).
Skip == UndoSnapshot /\ UNCHANGED <<tip, cache, seen, status>>

RollForward(b) ==
  /\ status = "running"
  /\ \/ Height[b] <= Height[tip] /\ Skip
     \/ /\ b # Genesis /\ Prev[b] = tip
        /\ Run(b, FALSE, [height |-> Height[b], data |-> b])

\* A faulty variant of PseudoHeight: the context keeps the point of the tip.
PseudoHeightOfTip == Height[tip]

\* The height a snapshot is indexed at.
PseudoHeight == Height[tip] + 1

MempoolBlocks(s) ==
  /\ status = "running"
  /\ \/ SnapshotTip[s] # tip /\ Skip
     \/ SnapshotTip[s] = tip /\ Run(s, TRUE, [height |-> PseudoHeight, data |-> s])

RollBack(n) ==
  /\ status = "running"
  /\ tip' = Confirmed[n].block
  /\ table' = Confirmed[n].table
  /\ undo' = SubSeq(Confirmed, 1, n - 1)
  /\ snap' = FALSE
  /\ UNCHANGED <<cache, seen, status>>

\* The cache is over its capacity, or wiped because memory is short.
Evict(S) ==
  /\ status = "running"
  /\ cache' = Without(cache, S)
  /\ UNCHANGED <<tip, table, undo, snap, seen, status>>

Next ==
  \/ \E b \in Block : RollForward(b)
  \/ \E s \in Snapshot : MempoolBlocks(s)
  \/ \E n \in 1..Len(Confirmed) : RollBack(n)
  \/ \E r \in DOMAIN cache : Evict({r})

Spec == Init /\ [][Next]_vars

----------------------------------------------------------------------------
(* Properties.                                                             *)

\* The outputs of the chain to b that no transaction of it spends.
UtxoSet[b \in Block] ==
  IF b = Genesis THEN [r \in Ref |-> Absent]
  ELSE [r \in Ref |->
          IF r \in Inputs(Txs(b)) \cup Unspendable THEN Absent
          ELSE IF r \in Produced(Txs(b)) THEN [height |-> Height[b], data |-> b]
          ELSE UtxoSet[Prev[b]][r]]

\* The outputs the chain to b ever produced, spent or not.
EverProduced[b \in Block] ==
  IF b = Genesis THEN {} ELSE EverProduced[Prev[b]] \cup Produced(Txs(b))

\* What the node's validation guarantees of transactions on top of a block:
\* inputs are unspent below or outputs of an earlier transaction of the list,
\* no output is spent twice, and no output is produced again.
Valid(txs, below) ==
  /\ txs \in Seq([ins : SUBSET Ref, outs : SUBSET Ref])
  /\ \A r \in Required(txs) : UtxoSet[below][r] # Absent
  /\ \A i \in 1..Len(txs) : \A r \in txs[i].ins \cap Produced(txs) :
       r \notin Unspendable /\ \E j \in 1..(i - 1) : r \in txs[j].outs
  /\ \A i, j \in 1..Len(txs) : i # j => txs[i].ins \cap txs[j].ins = {}
  /\ Produced(txs) \cap EverProduced[below] = {}

ASSUME ValidAssumption ==
  /\ \A b \in Block \ {Genesis} : Valid(Txs(b), Prev[b])
  /\ \A s \in Snapshot : Valid(Txs(s), SnapshotTip[s])

\* The table is the set of unspent outputs of the chain indexed: outputs
\* produced and spent in one block never stay in it (update_utxo_set).
TableIsUtxoSet == Base = UtxoSet[tip]

\* A cached output that is unspent has the value the table has: an entry of an
\* undone block, a failed task or another fork is never served in its place
\* (UtxoCache is not told of rollbacks).
CacheCoherent ==
  \A r \in DOMAIN cache : Base[r] # Absent => cache[r] = Base[r]

\* No input of a valid block is missing (the panic in resolve_inputs), and every
\* input an indexer resolved was the output as the chain, or an earlier
\* transaction of the same block, left it: right height and metadata
\* (IndexingContext::resolve_input).
InputsResolved ==
  /\ status = "running"
  /\ \A r \in DOMAIN seen.resolved :
       LET of == seen.of
           below == IF of \in Snapshot THEN SnapshotTip[of] ELSE Prev[of]
       IN  seen.resolved[r] =
             IF r \in Produced(Txs(of))
             THEN [height |-> Height[below] + 1, data |-> of]
             ELSE UtxoSet[below][r]
=============================================================================
