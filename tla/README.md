# A TLA+ model of maestro-symphony

maestro-symphony follows a Bitcoin node, indexes its blocks and its mempool
into RocksDB, and serves the result over an HTTP API. This directory holds a
specification of the parts that are hard to get right, model-checking
configurations for TLC, and proofs for TLAPS.

Paths below are relative to the repository root.

## The system

| Part | State | Operations | Where |
| --- | --- | --- | --- |
| Pull stage | cursor of points, estimated tip, mempool timer | bootstrap, fetch headers and blocks, emit chain events, poll a block template | `src/sync/stages/pull/stage.rs` |
| Peer session | a connection, requests in flight | connect, get headers, get blocks, ping | `src/sync/stages/pull/peer.rs` |
| Index stage | `last_processed`, `processed_mempool`, rollback buffer, `mutable` | roll forward, roll back, mempool snapshot, stop | `src/sync/stages/index/worker/stage.rs` |
| Rollback buffer | points with the original values of the keys they changed | add, find, drain, reload | `src/sync/stages/index/rollback/buffer.rs` |
| Storage | RocksDB with user timestamps, `previous_timestamp` | tasks, batches, readers, compaction | `src/storage/kv_store.rs`, `timestamp.rs`, `merge_operation.rs` |
| Core tables | hash by height, indexer info, timestamps, rollback rows, UTXOs | written with each batch | `src/sync/stages/index/indexers/core/` |
| Indexers | Runes, Charms, UTXOs and counts by address | `process_tx` over a task | `src/sync/stages/index/indexers/custom/` |
| API | a shared storage handle | a reader per request | `src/serve/` |

The pull and the index stage run concurrently, joined by a bounded queue of
`ChainEvent`s. The pull stage also reads the tables the index stage writes (to
build its cursor), and so does every API request. A stage that meets a
recoverable error is bootstrapped again with its stage state kept and the event
in hand dropped; another error ends it. Nothing is written to a write-ahead
log, and a shutdown signal exits the process without a flush.

What is hard here: rollbacks that must restore exactly the state before, over
several blocks and with a mempool snapshot on top; batches that fail between
two steps of one handler; crashes that lose batches; a clock that names the
versions of the store; API reads while batches are written; reorgs that reach
below what is kept, or that arrive while events are in flight; answers of the
node that are told apart by their order alone; tables that share one ordered
space of byte strings. `PROJECT.json` lists these hazards with their lines.

## Modules

| Module | Models | Composes |
| --- | --- | --- |
| `RollbackBuffer` | the buffer's operations and what undoing does to a store | |
| `IndexStage` | the index stage: one action per chain event, with its early returns, error paths, batches and garbage collection | `RollbackBuffer` |
| `ChainStore` | abstract specification: what readers of the store are promised | implemented by `IndexStage` |
| `IndexRecovery` | flushes, crashes and `Stage::new` over what is left | `IndexStage` |
| `Intersection` | the heights `intersect_options` offers to the node | |
| `Pipeline` | the pull stage, the queue, the index stage, process restarts, and a node that reorganises | `IndexRecovery`, `Intersection` |
| `PeerSession` | the session with the node: worker, handler, ingress and egress tasks, channels, a connection that is lost | |
| `CommitClock` | timestamps, versions, the GC watermark, restarts, and the API's reader | |
| `Locator` | the pull cursor over long chains, and where a reorg is rolled back to | `Intersection` |
| `WriteBuffer` | the write buffer of a task, original values, and merge operations | |
| `Tables` | keys, values and ranges as byte strings in one ordered store | |
| `Utxos` | resolution of inputs, the UTXO table and the UTXO cache | |
| `Runes` | the runes indexer: mints, etchings, allocation, its five tables | |
| `RuneRoutes` | the API routes about runes | `Runes` |
| `AddressTables` | UTXOs and transaction counts by address, and charms | |
| `CharmRoutes` | the API routes about addresses and charms | `AddressTables` |
| `MCIndexStage`, `MCIndexRecovery`, `MCPipeline`, `MCCommitClock`, `MCTables`, `MCUtxos`, `MCRunes`, `MCAddressTables` | instances for TLC | |
| `NatOrder` | lemmas: least and greatest naturals, induction, recursion over numbers and along a tree | |
| `SyncProofs` | theorems about `IndexStage`, `IndexRecovery` and `Pipeline` | `NatOrder` |
| `CommitClockProofs` | theorems about `CommitClock` | `NatOrder` |
| `WriteBufferProofs` | theorems about `WriteBuffer` | `NatOrder` |
| `PullProofs` | theorems about `Locator` and `PeerSession` | `NatOrder` |
| `UtxosProofs` | theorems about `Utxos` | `NatOrder` |
| `RunesProofs` | theorems about `Runes` and `RuneRoutes` | `NatOrder` |
| `AddressTablesProofs` | theorems about `AddressTables` and `CharmRoutes` | |

### IndexStage

`db` is the latest value of every key of the data tables, `IndexerInfoKV` and
`HashByHeightKV`; `rbTable` is `RollbackBufferKV`, `stamps` is `TimestampsKV`.
`buf`, `last`, `processedMempool` and `mutable` are the fields of `Stage` and
`Worker`. A handler is one action, because a stage handles one event at a time;
where it writes two batches (undo of a snapshot, then the block) its disjuncts
include the outcome with only the first one written. `or_restart` drops the
event and bootstraps the worker (`Bootstrap`), `or_panic` ends the stage
(`Panic`).

Indexers are a parameter: `Indexed(b, v)` is the set of writes block `b` makes
over the data tables `v`. That is what the code relies on: a block's writes are
a function of the block and of the store before it. A mempool snapshot is always
one block in the code (`pull/stage.rs` sends a vector of one), so a snapshot is
one set of writes. `StateAt[b]` is the reference: the store that indexing the
chain from genesis to `b`, and nothing else, gives.

The events are not restricted to those a correct pull stage sends: any point
may arrive with any tip at or above it, in any order, and snapshots on any
block. So the properties hold whatever the pull stage and the queue do.

`ChainStore` says what others rely on: the store is the state of one chain, or
that state with one snapshot over it, and moves by a block on the tip or back to
an ancestor. `ImplementsChainStore` maps its `tip` to `last_processed` and its
`store` to `db`; a handler that writes two batches is one step of `ChainStore`,
or, when the second one fails, the step of the first.

### IndexRecovery

`disk` is the store of the batch RocksDB flushed last; all tables share a column
family, so a flush takes them together. `Reopen` is a crash, or a shutdown, and
`Stage::new` over `disk`. One assumption is made here (variable `delivered`): no
snapshot is built below a block that was given to this process. Without it there
is a behaviour after which the index cannot go on: an undo of `max_rollback + 1`
blocks, possible in memory only, a snapshot indexed on the tip that is left, a
flush and a crash; the snapshot is then found without the entry it must be undone
to. `Pipeline` discharges the assumption (`TemplatesNotBelow`): the node's chain
only gets longer, and a template is asked for after the blocks of the page.

### Pipeline

`pull` is the worker of the pull stage with its position in a tick. What the
stage reads one after the other is read in separate steps: the last height and
then the hashes (`intersect_options`), the headers with their blocks, the
template. The cursor is moved when a page is fetched; its events are sent one by
one, waiting for room in the queue, while the index stage (`IndexStage`, with
`IndexRecovery`'s disk) takes them out. An error of the node restarts the pull
worker (`RestartPull`) with its events in hand dropped and those queued kept; a
panic ends the stage. The index stage's end is noticed at the next send, the
process ends, and is started again (`Restarted`); it may also be killed at any
moment (`Crash`).

Two histories separate what the code handles while it runs from what it handles
by a restart. `dropped`: the index stage itself dropped an event, after a failed
batch. `disturbed`: the pull stage restarted with events in flight, or the node
reorganised while the cursor did not describe what the index stage holds. Then
rollback points may not be in the buffer and blocks may not fit, and the index
stage ends in a panic; `Converges` says that this, too, is cured. In their
absence `CursorIsDestination` and `AlignedReorgHandled` say that events fit.

The node's chain grows, and reorganises by at most `MaxReorg` blocks, fewer than
`max_rollback`, onto a longer branch, never from genesis. Both limits are the
code's: right after the initial synchronisation the buffer holds the newest
`max_rollback` blocks and not the point below them, so a reorg of exactly
`max_rollback` blocks then, or one that forks at genesis, ends the index stage
after every restart.

### PeerSession

One variable per channel and task. Answers carry no reference to a request, so
messages are modelled with what they answer (`from`), which the code does not
look at, and `AnswersMatch` compares. What is left on the wire when Ingress ends is
never read, and so is not under way (`Arriving`). `announced` and `ready` are the permits of
the two `Notify`s. The node answers in order, once, and sends headers and blocks
only when asked, and ignores a request before the verack; it may send a wrong block or something that cannot be decoded,
and the connection may be lost with any part of what was under way. An error
makes the worker start again with a new session and a cursor that may be behind
(`Restart`); the panic of `get_blocks` on a closed channel ends the process,
which from here looks the same.

Once the tip was reached each tick begins with a wait of at most five seconds,
also when the last page left headers over; `NoLostWakeup` is about blocks the
worker has not heard of.

### CommitClock

A commit leaves versions `[key, ts, seq, val]`; `ReadAt` picks the greatest
timestamp not above the one asked for. `latest` records what each key was last
given, in the order of the commits. `Compact` drops versions the watermark
allows RocksDB to drop; `Restart` loses what was not flushed and forgets
`previous_timestamp`; the watermark survives in RocksDB's manifest. An API
request takes two steps, as `start_reader` does two reads. `ServedFresh` is
about a reorg away from a tip and back: the mempool entry of the first visit
passes the comparison of tips, and only the watermark, raised by the second
visit, refuses the read. A task whose reads would be below the watermark is
refused them as well (`TaskRefused`) and commits nothing; `IndexReadsLast` is about
the others, and `CommitsIncrease` says that there is none. Two flags add what the
code does not guard against: `ClockStepsBack` a system clock that is set back,
`InstantRestart` a process that restarts within the second of its last commit. The
run `clock_steps_back` sets the first; what the second leads to is under Known
limits. `FitsInSecond` bounds the
commits of one second by what the logical counter tells apart, 2^18 in the code
(`LogicalSpan`): beyond it a timestamp reaches into the next second.

### Locator

Heights on the followed chain stand for points. `LocatorInit` is a database with a
full rollback buffer that both stages have just opened. A reorg forks at most
`max_rollback` blocks below the newest block indexed so far, which is as deep as the
repository's README promises to handle. The points of the cursor are dense for ten
blocks or for the last page, and then 11, 15, 23, 39 ... below the tip, so the node may
answer from far below the fork, and from below the rollback buffer: then the index stage
ends (`ReorgPanics`) and `lost` keeps the depth. The promise does not hold, and
`ReorgHandled` says what does: only reorgs deeper than `Reach` end the stage.
`WithinReach(d, r, len, lag)` is the depth that a buffer of `r` blocks covers, with a page
of `len` points and `lag` blocks queued: every gap of the points that begins above depth
`d` leads to a point the buffer holds, also when an earlier reorg and a restart have
moved the points. `ReachExamples`, evaluated by TLC, gives it for the code's page of 50
points and no queued blocks: 13 of 16, 23 of 32, 49 of 256; and the depths that are lost
right after a restart (`Missed`): from 16 of 16, from 24 of 32, from 136 of 256.

One assumption is made: a reorg is fetched when the queue is drained, and undone
before the next page is fetched; cursors that describe a fork still being undone are
in `Pipeline`. `PullProofs` extends both this module and
`PeerSession`, so `LocatorInit`, `RestartStages` and the like have names of their own.

### WriteBuffer

RocksDB keeps merge operands of a counter until a read or a compaction combines
them. `ref` applies each operation in turn. Keys are restricted by table:
`Settable`, `Deletable`, `Mergeable`; today only `increment` is used, on a table
nothing else writes (`tx_count_by_address.rs`). A key in both of the last two
would break `ReadsOwnWrites`: `merge_op` replaces a buffered delete and counts
from the value in the database. `Room` bounds the operands RocksDB keeps for a key:
their number, and their totals, which stay below `MaxValue` (`u128::MAX`). The
second bound is a limit of the code that the proof brought up:
`create_partial_merge_operator` adds up increments and decrements apart, so a
counter that is always in range comes out wrong once one of the two totals
saturates. Three operands are enough for that, and increments of one never get
there.

### Tables

`rows` is the column family, byte strings to byte strings; `tables` is what the
tables are meant to hold. A byte has `Base` values instead of 256 and a number
at most `MaxDigits` bytes instead of 16; everything else is as in the code:
lengths, big-endian numbers, the fields of structs in order, the index of an
enum's variant, prefixes, the end of a prefix's range, and reads that decode what
was stored. Four tables stand for all: their keys have every kind of field, and
among their prefixes are a byte that cannot be incremented and neighbours.

### Utxos

`cache` is `Stage.utxo_cache`, `table` is `UtxoByTxoRefKV`, `undo` the tables a
rollback restores (that it does restore them is `RollbackIsExact`). A task
(`Task`) is `IndexingContext::new`, then for each transaction what the indexers
resolve and `update_utxo_set`. The cache is changed while the task runs, so a
task that fails after `n` transactions leaves those changes. An output carries
its height and a tag for the block whose indexers attached metadata to it, so
that an output confirmed in another block is another value. `UtxoSet[b]` is the
reference: outputs of the chain to `b` that it does not spend.

### Runes

One action per transaction, with everything `process_tx` and `update_utxo_set`
write. Allocation is an operator over a record of the balance left and the
outputs' shares; edicts and splits are recursive functions over it with the one
step `Allocate`, as in the code, so that nothing is conserved by the way the model is
written. `burned` is not in the code: it adds up what a cenotaph, a transaction
without outputs, or an OP_RETURN output takes out. A transaction with no message
is one with an empty message, which the code treats alike. Activity records are
a set, because the code numbers them in the order of a hash map. They are written
only with the option `index_activity`, which is off by default (`indexer.rs:69`); it
is a constant of the module, the run sets it to TRUE, and what the properties say of
activity has it as a condition.

### AddressTables

Three indexers and `update_utxo_set` in one action per transaction. `chain` keeps
the transactions themselves; the properties read the expected tables off it,
without the model's tables.

A spell is a list of apps and, for each output, a set of indices into it. As in the
code an output with indices is marked (`Marked`) before the indices without an app are
filtered out (`Resolved`): if none is left it gets no charms, a row by script, and no
row by app. Such a row stays when the output is spent (`LeftOver`), since the clean-up
looks at the charms. `CharmsTablesAgree` states exactly which rows are left over, against
the comment at `charms/indexer.rs:50` (Known limits). Whether the external library verifies a spell
with such indices is not known from this repository.

### RuneRoutes, CharmRoutes

A route reads at one version and changes nothing, so it is an operator over the
indexer's tables with the answer and its status. The properties are evaluated in
every state the indexers reach: the answers of different routes about one address,
output, rune or app agree. For runes no address is answered with "internal server
error". For charms `RoutesAgree` says when exactly that is the answer: `charm_latest`
when the newest row of the app is of an OP_RETURN output, which is indexed and never
stored, and the routes by address when the address has a left-over row.

Of `RuneIdentifier::parse` the four outcomes are modelled: an identifier, a name, 400
(`Malformed`), and the panic of `parse().unwrap()` (`NotNumeric`), after which the request
gets no answer. A batch passes over a malformed entry.

### Faulty variants

Next to a definition there may be a variant of it marked as faulty: a plausible
mistake in the code it models. `PROJECT.json` names, for each property, a
variant that violates it.

## Runs

| Run | Checks | Shows |
| --- | --- | --- |
| `index_stage` | `TypeOK`, `StoreMatchesChain`, `MempoolOverlay`, `BufferIsChain`, `ChainStep`, `WindowKept`, `ImplementsChainStore` | rollback is exact, snapshots leave nothing behind, buffer and table keep the promised window, and readers get what `ChainStore` promises |
| `index_recovery` | `ConsistentAcrossCrashes` (`StoreMatchesChain`, `MempoolOverlay` and `BufferIsChain` again), `TableMirrorsBuffer`, `CanReopen`, `MempoolRecoverable` | the assertions of `Stage::new` hold after any crash, and the store found is one chain's |
| `pipeline` | `CursorIsDestination`, `TemplatesNotBelow`, `AlignedReorgHandled`, `Converges` | both stages and the queue follow a node through reorgs, failures and crashes, and end at its tip |
| `peer_session` | `AnswersMatch`, `NoLostWakeup`, `CatchesUp` | answers are never mixed up, no announcement is lost, no wait but the one in `connect` lasts for ever |
| `commit_clock` | `IndexReadsLast`, `ServedConsistent`, `ServedFresh`, `CommitsIncrease` | with a monotone clock, reads and API responses are consistent |
| `clock_steps_back` | `IndexReadsLast` (violated) | a clock set back makes tasks read an old state |
| `locator` | `ReorgHandled` | with `max_rollback` 16 only reorgs of more than 13 blocks end the index stage, three blocks queued or not; some of those do |
| `write_buffer` | `ReadsOwnWrites`, `StoreIsSequential` | buffering and merging are sequential semantics |
| `tables` | `TableReadsExact`, `RouteScansExact` | encoding keeps tables, scripts and numbers apart and in order |
| `utxos` | `TableIsUtxoSet`, `CacheCoherent`, `InputsResolved` | the cache never serves an output of another fork, of a failed task or of a snapshot |
| `runes` | `Conserved`, `SupplyBounded`, `NamesAgree`, `RowsMatchUtxos`, `ActivityExplainsBalances`, `RoutesAgree` | no rune is made or lost, supply stays within its terms, the five tables and the routes over them agree |
| `address_tables` | `AddressRowsExact`, `TxCountExact`, `CharmsTablesAgree`, `RoutesAgree` | the tables by address and of charms are what the transactions say, left-over rows included, and the routes over them agree, errors included |

Bounds. `index_stage` and `index_recovery` use a tree of eight blocks: a chain
of five and a fork of two on its first block, one output that is created, spent
and created again, one counter, two snapshots, and `max_rollback` 1. That is
enough for a buffer at its limit (three entries), an undo over two blocks that
touch the same key, a reorg with a snapshot applied, truncation on both sides,
and `stop_after`. `commit_clock` uses four commits in two seconds: a reorg away
from a tip and back with a snapshot between takes four. `locator` uses pages of
up to 15 blocks, 14 of which are taken as cursor, and heights from 18 to 28, so that
reorgs follow reorgs and restarts, the points 11 and 15 below the tip are inside the
window, and those 23 below it are not; `MaxPushes` bounds the loop of
`intersect_options`, enough for any height below 2^20. `write_buffer` uses
numbers to 4, so that counts reach both ends, and three operands. `utxos` has a
chain of four transactions, confirmed on three forks in different blocks, heights
and groupings (a parent and its child in one block or in two), and four snapshots;
no bound beyond the tree is needed. `runes` has four blocks of one, one, three and
one transactions, the first below the start height, and nine shapes of messages
that use every branch of the allocation; each non-coinbase transaction spends
any one or two outputs. That reaches mints before, in and after their window and
beyond the cap, a name asked for twice, and a reserved name asked for early.
`address_tables` has three transactions with any inputs, on three heights, and spells
with known, unknown and no apps, beamed outputs and OP_RETURN outputs.

`pipeline` uses a chain of three blocks and a fork of two on its second block,
pages and cursors of two, a queue of three, `max_rollback` 2, reorgs of one
block, one fault and one flush: enough for blocks of both forks in the queue at
once, a cursor completed from a database behind it, a crash during each step,
and reorgs in each of these states. `peer_session` uses pages of two over three
blocks, channels of one, one message of chat and two faults, so that each channel
is full and each task waits while the connection is lost or a second loss follows
the first. `tables` uses bytes of five values, numbers of four bytes and thirteen
keys, at each change of length, at the largest numbers and at scripts that begin
each other.

Deadlock is checked in `index_recovery`, `pipeline` and `utxos`. The other systems
may stop: a stage that has ended, a worker that waits in `connect` (below), or a
bound that is reached.

Fairness. `pipeline` assumes that both stages run (they are threads of their
own), that the node finishes its initial download, and that a process that ended
is started again (`docker-compose.yml:49`, `restart: unless-stopped`). It assumes
nothing of faults, crashes, flushes or of what the node does to its chain.
`peer_session` assumes that the tasks are scheduled by the runtime and that the
node answers while it is connected: the session has no timeout of its own, and a
peer that stays connected and silent is waited for. `TakeHeaders` and the like are
weakly fair as one step of the worker, never one by one.

## Findings

One run ends in a violation on purpose; `PROJECT.json` quotes the line it contradicts.
`clock_steps_back`: `Timestamp::after` goes backwards when the system clock does. A
block commits in second 0, a snapshot and its undo in second 1, the clock goes back
and the next block is stamped in second 0 again, not below the watermark; the task
that reads at this timestamp misses the undo.

Known limits, met while modelling. The first five contradict what the repository says
of itself; the passing runs are exact about the second, the third and the fourth.

- `previous_timestamp` is not restored from the database (`kv_store.rs:429`, "TODO detect
  from DB?"), so a process restarted within the second of its last commit begins that
  second again. The next task misses commits it should read (`kv_store.rs:46`, "we
  want data at commit ts of last rollforward/back"): `MCClockStepsBack.cfg` with
  `InstantRestart` TRUE and `ClockStepsBack` FALSE violates `IndexReadsLast`.
- `max_rollback` is the "Number of rollbacked blocks from tip that can be handled"
  (`README.md:103`). Right after a restart, with the default 16 (`buffer.rs:19`) a reorg
  of 16 blocks is answered from 23 below the tip, with the documented 32
  (`examples/mainnet.toml:17`) one of 24 to 32 blocks from 39 below it; 14 or 15 of 16 may be
  lost after an earlier reorg and a restart. The point is not kept, and the index
  stage panics, again after every restart. `locator` takes these steps (`ReorgPanics`).
- "Always clean up consumed charm UTXOs from index tables" (`charms/indexer.rs:50`): the
  row by script of an output whose app indices have no app is never deleted (line 61),
  and the routes about charms by address answer 500 for its script from then on
  (`LeftOver` in `CharmsTablesAgree` and `RoutesAgree`).
- `charm_latest` "returns the most recently produced UTXO containing the specified
  charm" (`charm_latest.rs:37`): a charm given to an OP_RETURN output leaves a row by app
  whose output is not stored, and the answer is 500 (line 62) until a newer output has
  the charm, although an older one holds it (`Sealed` in `RoutesAgree`).
- A rune identifier of two parts one of which is no number is unwrapped
  (`serve/utils.rs:52`) instead of being answered with the documented 400
  (`rune_info.rs:31`); the model has the outcome (`NotNumeric`).
- With `max_rollback` 0 the first snapshot ends the index stage (`stage.rs:281`).
- A connection lost before the verack leaves `Peer::connect` waiting for ever
  (`peer.rs:228`); `CatchesUp` excepts this case.
- `get_blocks` panics (`peer.rs:265`) where `get_new_headers` returns an error.
- After `teardown` the egress task of the old session spins on its closed channel
  (`peer.rs:383`).
- An event the index stage drops after a failed batch is fetched again only when
  the node's next block shows the gap; `Converges` excepts the time until then.
- Runes and charms sent to an OP_RETURN output leave rows by script that name no
  stored output; no address has such a script, so no request meets them.
- After a crash the watermark may be above every commit that survived; API reads
  are refused until the next commit.
- More than 65535 activity records in one transaction end the index stage.

## Proofs

**The index stage.** The first part of `SyncProofs` proves, for every chain, every indexer, every `max_rollback`
and any order of events and failures: `TypeCorrect` (`TypeOK`),
`RollbackIsExact` (`StoreMatchesChain`), `SnapshotIsIsolated`
(`MempoolOverlay`), `BufferFollowsChain` (`BufferIsChain`),
`ChainMovesByBlocks` (`ChainStep`) and `StorePromise` (`ImplementsChainStore`,
the refinement of `ChainStore`).

Assumptions: blocks form a tree by `Prev`, heights grow by one along it
(`ChainAssumption`); indexers write data keys only (`IndexerAssumption`);
heights stay below `u64::MAX` (`BoundAssumption`); keys of different tables
differ (`KeyAssumption`). That the recursive functions `StateAt` and `Ancestors`
satisfy their own equations at every height is proved (`StateAtSteps`,
`AncestorsSteps`) from `TreeRecursion` of `NatOrder`.

The argument. `StoreMatchesChain` is not inductive: a rollback is exact only if
every buffer entry holds the originals of its block. The invariant `IInv` says
of store, buffer, `last` and the snapshot flag (`Good`): the buffer's points
descend along the chain; the originals of entry `i` are the values of
`StateAt` of the next older point; a key no entry newer than `i` touches has in
the store the value it has in the state of entry `i`. From these, undoing the `n`
newest entries gives the state of entry `n + 1` (`UndoneIsEntryState`): a touched
key gets the original of the oldest entry that touches it, and no entry between
that one and `n + 1` changed it. A commit adds an entry whose originals are the
store before it, and truncation removes entries at the far end only. The last
part of `IInv`, `buf # <<>> => mutable`, is needed because a block indexed without
recording would leave a gap in the buffer.

The refinement follows from `IInv` before and after a step: a store without a
snapshot is `Confirmed` of `last_processed`, one with a snapshot is `Overlaid`, and
`last_processed` stays, moves to a child, or moves to a buffered point, which is an
ancestor because the entries above it lead to the tip (`BufferedAreAncestors`, by
the least entry that would not).

**The persistent buffer.** The second part adds `TableFollowsBuffer`
(`TableMirrorsBuffer`) and `WindowIsKept` (`WindowKept`). The table may hold rows of
fewer entries than the buffer (the range deletion of old rows comes earlier than
the truncation), and the two are undone together. `Mirror` says for some `n` that
the table is exactly the rows of the `n` newest entries, with `n` at most
`max_rollback + 1`, plus one for a snapshot. Entries go down one height at a time
(`Stepped`), so the range deletion, which is by height, removes whole entries at the
far end; that is also why no entry of the window is lost.

**Recovery.** The third part proves the run's four invariants for any number of flushes
and crashes: `CrashesAreConsistent`, `TableSurvivesCrashes`, `AlwaysReopens`,
`SnapshotsAreRecoverable`. The invariant `RInv` adds two things. `DiskGood`: what is
on disk determines a buffer that `Good` holds of; `fetch_from_storage` groups the
rows by point and sorts them, and the buffer it builds is that one (every entry
has rows because each task writes `IndexerInfoKV`, `Filled`). `Recorded`: rows exist
for every entry that is not `max_rollback` below a block delivered to the process.
The second is what makes a snapshot recoverable: it is built on a tip at or above
every delivered block, so the entry under it has rows. It is also where the
assumption on `delivered` enters. `AbsentAssumption` says that no value is not a value.

**The pipeline.** The fourth part shows that the assumption on `delivered` is met and that
what was proved of the index stage alone holds in the composed system, whatever
the node, the queue, failures and crashes do: `PipelineImplementsRecovery`
(`PSpec => RSpec`: a step of `Pipeline` is a step of `IndexRecovery` or leaves its
variables alone), `PipelineIsConsistent`, `TemplatesAreNotBelow`
(`TemplatesNotBelow`) and `CursorLeads` (`CursorIsDestination`). The invariant is
`RInv` with three parts. `WorkerOK`: the worker's cursor and page are points of the
node's blocks, and what it holds fits its position in the tick. `FlowOK`: over the
events in flight, queued or in the worker's hands (`Coming`), none is above the
node's tip and no template is below a block before it; this is what
`IndexRecovery` assumes, and it is kept because the node's chain only gets longer
and a template is fetched after the blocks of its page. `LeadOK`: in a run that
nothing disturbed, each event in flight fits the state the events before it lead
to (`Fits`), and following all of them from `last_processed` ends at the head of the
cursor (`Dest`).

`CommitClockProofs`: `ResponsesAreFresh` (`ServedFresh`) holds whatever the clock
does. `StampsIncrease` (`CommitsIncrease`), `TasksReadLast` (`IndexReadsLast`) and
`ResponsesAreConsistent` (`ServedConsistent`) have the hypothesis `SteadyClock`, without
which they are false (`clock_steps_back`, Known limits): the system clock does not
step back and a process lives into the second after its last commit. The
invariant: versions are ordered by timestamp as by commit (`Ordered`); every
timestamp in the store or in a request is below what the next commit will get
(`Past`); what `TimestampsKV` says of a commit is what a read as of it finds, while the
watermark allows it (`Tells`); the watermark is at most the newest commit of this
process, or not above the clock if it has none (`LowInv`), so that no task is refused.
Compaction keeps the newest version at or below the
watermark, a restart keeps a prefix of the commits, and so both leave `Tells` true.

`WriteBufferProofs`: `CountersAreSequential` (`StoreIsSequential`) and
`TasksReadTheirWrites` (`ReadsOwnWrites`), for every set of keys, `u128::MAX`, amounts
and number of operands. The hypothesis `CountersInRange` is how the tables use
counters: no count leaves the range, and no key is both counted and deleted. The
argument: an operation in range is an exact addition or subtraction (`Exact`); two
in turn are the combined one (`ExactCombines`); a row `Holds` a value when the
operands lead to it by exact steps, in which case `FullMerge` returns it and
`PartialMerge` is one exact step to it, both by induction over the operands. A task
keeps, per key, one such step from the value before it, and that value as original.

`PullProofs`, for `Locator`: `ReorgsAreHandled` (`ReorgHandled`) for every `max_rollback`,
page size, page taken as cursor and lag, at any height, with a `Reach` that is within
reach of them (`WithinReach(Reach, MaxRollback, CursorLen, MaxLag)`): a reorg that ends the
index stage is deeper. For a larger `Reach` it is false (Known limits). The invariant
`LInv` says that the stage has ended in such a reorg, or (`Runs`) that the cursor serves
every reorg within reach (`Serves`): for a fork that deep, the newest point at or below it
is one the buffer holds now and will hold after a restart. The points of a new page are dense; those of
`intersect_options` are at the distances `Walk[n]` from the tip of the database, which is
at most the newest block indexed, and one `Step` below a point above the fork is still
in the buffer. `StepAssumption` (powers of two are naturals) is the one fact of
arithmetic the prover does not know.

`PullProofs`, for `PeerSession`: `AnswersAlwaysMatch` (`AnswersMatch`) and
`WakeupsAreKept` (`NoLostWakeup`), for chains and pages of any length, channels of
any size, any chatter of the node and any number of losses and restarts. The channels,
the tasks' hands and the wire are two belts: `Line`, from the node to the worker, and
`Leaving`, from the handler to the node. On them `OfType` selects the messages of one
kind in order: headers, blocks and announcements (`Hs`, `Bs`, `Is`), and the requests
for both (`Gs`, `Ds`). A step of a task, of the connection or of the node moves the front of a part to
the back of the next, and so changes no selection, or it is one of a few effects
(`Effect`: an answer is delivered, a request is answered, something is lost), each of
which keeps the invariant. Its parts (`SInv`):

- `TypesOK`: types, channels of which the worker's holds at most one request, and what an
  ended task and a lost connection leave behind;
- `HeadersOK`, `BlocksOK`: what is asked for, on its way and delivered adds up to one
  answer, or to the blocks wanted in their order. `AnswersMatch` does not say where on
  the way the blocks still to be sent are counted, so it is not inductive;
- `HandsOK`: a request that is not yet with the node is whole, without which a
  request that outlives the connection could be one that was answered in part;
- `ShakeOK`: the node has the handler's verack, or gets it before any request, since
  the worker sends none before the node's own verack, which follows its version. Without
  this the node may ignore a request, and `HeadersOK` fails;
- `WakeOK`: a tip the worker was told of, or is about to be, is the node's tip, or an
  announcement or the permit is waiting. This is kept because a node past its
  handshake announces each block, and the worker takes the permit only when no answer
  is under way (`HeadersOK`), and then asks again.

`AddressTablesProofs`: `AddressRows`, `TxCounts`, `CharmsTables` and, for the routes,
`CharmRoutesAgree`, for every sequence of transactions (`TemplateAssumption` and
`HeightAssumption` are the types of outputs, spells and heights; a spell's indices are any
naturals). `CharmsTables` and `CharmRoutesAgree` are exact: left-over rows and the
answers that are errors are part of what is proved. The tables are
functions of the unspent outputs (`RowsInv`, `CharmInv`); an indexer finds the rows of
a spent output through the output's script, height and charms in the UTXO table, so
`UtxoInv` must say that these are those of the transaction that made it, and
`OrderInv` that no output is spent before it is made.

`UtxosProofs`: `TableIsExact` (`TableIsUtxoSet`), `CacheIsCoherent` (`CacheCoherent`) and
`InputsAreResolved` (`InputsResolved`), for every tree of blocks, every grouping of
transactions into blocks and every set of snapshots. `ValidAssumption` is what the
consensus rules give: along a chain, an input was created before and not spent
since, and no output is created twice. The last part is needed: for a transaction
id that occurs twice on one chain (two pairs of coinbases before BIP30) a rollback
brings the first output back into the table while the cache keeps the second.
`CacheCoherent` is not inductive, because the cache is not told of rollbacks. The
invariant (`Good`) says that the cache agrees with what was unspent at the tip and
at every block a rollback can lead to. A task adds to the cache only outputs that
none of these blocks has produced, and this is so whether it ends, fails half-way
or is undone.

`RunesProofs`: `RunesAreConserved` (`Conserved`), `SupplyIsBounded` (`SupplyBounded`),
`NamesAreOneToOne` (`NamesAgree`), `RowsAreUtxos` (`RowsMatchUtxos`), `ActivityExplains`
(`ActivityExplainsBalances`) and, for the routes, `RoutesTellOneStory` (`RoutesAgree`), with
`index_activity` or without (`ActivityAssumption`), for
every sequence of blocks and every shape of message. The assumptions are types:
OP_RETURN scripts are not taproot scripts (`ScriptAssumption`), names are not ids
(`NameAssumption`), the fields of a message are in range (`ShapeAssumption`), blocks
have sizes (`HeightAssumption`). The first half is arithmetic: sums over finite sets
of outputs, and `Kept`, which says that what the allocation shared out and what it has left add up
to what it was given; one `Allocate` keeps it, and so edicts, splits among
outputs and the rest given to the default output do, each by induction along its
list. The invariant `RunesInv` then relates the five tables. Everything recorded
names an earlier transaction, so what a transaction records is new (a rune's id, an
output, an activity record), and rows, balances and activity change together. A
rune etched at a height has no mint before it, and none below `StartHeight`.

Only model-checked, with the reason:

- `Converges` and `CatchesUp`: liveness, out of the prover's reach, as is `ENABLED`;
- `AlignedReorgHandled`: needs that the cursor completed from the database has a
  point for each reorg the buffer can undo, which is a bound on the lengths of pages,
  cursor and queue together; `ReorgsAreHandled` has the part of it that is about
  the cursor;
- `TableReadsExact` and `RouteScansExact`: powers of the base and comparison of byte
  strings of different lengths, for which the provers have no theory.

The library's induction theorems cannot be used, because they take an operator;
what the proofs need is derived in `NatOrder` from the least element of a set of
naturals.

## Not modelled

- the refresh of a read-only secondary in serve mode (`serve/mod.rs:115`), which is
  RocksDB reading the writer's files;
- parsing of addresses, hashes and rune names (but for its outcomes), formatting of responses, the OpenAPI
  description, configuration, logging, timings and statistics: no behaviour a
  property is about;
- back-off times and retry limits of the stages, and `stop_after` in `Pipeline`
  (it is in `IndexStage`);
- `safe_mode` checks and functions nothing calls (`estimate_tip`,
  `remove_actions_for_point`, `get_mempool`);
- deciphering of runestones and verification of spells, which are libraries.
