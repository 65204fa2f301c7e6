---------------------------- MODULE CommitClock ----------------------------
(***************************************************************************)
(* Timestamps of the store: the hybrid clock that stamps each commit       *)
(* (storage/timestamp.rs), the versions a commit leaves in RocksDB, the    *)
(* timestamp an indexing task reads at (storage/kv_store.rs), the GC       *)
(* watermark, and the API's reader (serve/mod.rs), which runs concurrently *)
(* with the index stage and reads as of a commit it finds in TimestampsKV. *)
(*                                                                         *)
(* Indexing is abstract: a commit writes the info key and any of the data  *)
(* keys, the value of a data key being the number of the commit.           *)
(***************************************************************************)
EXTENDS Naturals

CONSTANTS
  Hash,            \* block hashes
  DataKey,         \* keys of the indexers' tables
  Absent,          \* a key with no value, and previous_timestamp = None
  LogicalSpan,     \* 2^LOGICAL_BITS
  ClockStepsBack,  \* whether the system clock may be set back
  InstantRestart,  \* whether a restart may fit in one second
  MaxNow,          \* bound: seconds of system time
  MaxCommits       \* bound: commits

ASSUME SpanAssumption == LogicalSpan \in Nat \ {0}
ASSUME BoundAssumption == MaxNow \in Nat /\ MaxCommits \in Nat
ASSUME FlagAssumption == ClockStepsBack \in BOOLEAN /\ InstantRestart \in BOOLEAN
ASSUME AbsentAssumption == Absent \notin [physical : Nat, logical : Nat]

InfoKey == "indexer_info"
StampKey == {"confirmed", "mempool"}   \* the two keys of TimestampsKV
Key == DataKey \cup {InfoKey} \cup StampKey

ASSUME KeyAssumption == DataKey \cap ({InfoKey} \cup StampKey) = {}

VARIABLES
  now,       \* system time in seconds
  prev,      \* StorageHandler.previous_timestamp
  seq,       \* commits so far
  versions,  \* RocksDB: the versions of each key
  flushed,   \* commits that are in table files
  low,       \* full_history_ts_low
  req,       \* the API request in progress
  latest     \* history: the value each key was last given

vars == <<now, prev, seq, versions, flushed, low, req, latest>>

Idle == [phase |-> "idle"]

Init ==
  /\ now = 0
  /\ prev = Absent
  /\ seq = 0
  /\ versions = {}
  /\ flushed = 0
  /\ low = 0
  /\ req = Idle
  /\ latest = [k \in Key |-> Absent]

----------------------------------------------------------------------------
(* Timestamp                                                               *)

New(t) == [physical |-> t, logical |-> 0]

\* A faulty variant of After: commits of one second are not told apart.
AfterNoCounter(p, t) == New(t)

After(p, t) ==
  [physical |-> t, logical |-> IF t <= p.physical THEN p.logical + 1 ELSE 0]

AsU64(ts) == ts.physical * LogicalSpan + ts.logical

\* map(Timestamp::after).unwrap_or_default()
CommitTs == IF prev = Absent THEN New(now) ELSE After(prev, now)

\* Bound: a second has fewer commits than the counter tells apart (2^18).
FitsInSecond == CommitTs.logical < LogicalSpan

----------------------------------------------------------------------------
(* Reads as of a timestamp: the version with the greatest one not above it *)

Visible(k, t) == {v \in versions : v.key = k /\ v.ts <= t}

Newest(S) == CHOOSE v \in S : \A w \in S : \/ w.ts < v.ts
                                           \/ w.ts = v.ts /\ w.seq <= v.seq

ReadAt(k, t) == IF Visible(k, t) = {} THEN Absent ELSE Newest(Visible(k, t)).val

\* A read at u64::MAX.
ReadMax(k) == LET S == {v \in versions : v.key = k}
              IN  IF S = {} THEN Absent ELSE Newest(S).val

\* What a task begun now reads: read_ts is previous_timestamp, or u64::MAX.
TaskReads(k) == IF prev = Absent THEN ReadMax(k) ELSE ReadAt(k, AsU64(prev))

\* RocksDB answers a read below full_history_ts_low with an error, which fails
\* the task.  (A read at u64::MAX is never refused.)
TaskRefused == prev # Absent /\ AsU64(prev) < low

----------------------------------------------------------------------------
(* Commits.  All versions of a batch carry its commit timestamp.           *)

Write(w) ==
  LET ts == AsU64(CommitTs) IN
  /\ seq < MaxCommits
  /\ FitsInSecond
  /\ versions' = versions \cup
       {[key |-> k, ts |-> ts, seq |-> seq + 1, val |-> w[k]] : k \in DOMAIN w}
  /\ latest' = [k \in Key |-> IF k \in DOMAIN w THEN w[k] ELSE latest[k]]
  /\ seq' = seq + 1
  /\ UNCHANGED <<now, flushed, req>>

Writes(S, info) ==
  [k \in S \cup {InfoKey} |-> IF k = InfoKey THEN info ELSE seq + 1]

\* apply_indexing_task for a confirmed block (kind "confirmed") or for a
\* mempool snapshot on the current tip.  A task that reads is not applied when
\* it is refused: near the tip it reads the original of IndexerInfoKV, and
\* before that the outputs its inputs spend (a lone coinbase reads nothing, and
\* is left out).
Stamped(S, kind, tip) ==
  LET w == Writes(S, [tip |-> tip, mempool |-> kind = "mempool"])
  IN  [k \in DOMAIN w \cup {kind} |->
         IF k = kind THEN [tip |-> tip, ts |-> AsU64(CommitTs)] ELSE w[k]]

\* A faulty variant of Watermark: it is never raised.
WatermarkStays(ts) == low

\* increase_full_history_ts_low refuses to go down; the error is logged.
Watermark(ts) == IF ts > low THEN ts ELSE low

ApplyConfirmed(S, tip) ==
  /\ ~TaskRefused
  /\ Write(Stamped(S, "confirmed", tip))
  /\ low' = Watermark(AsU64(CommitTs))
  /\ prev' = CommitTs

ApplyMempool(S) ==
  /\ ~TaskRefused
  /\ latest[InfoKey] # Absent
  /\ Write(Stamped(S, "mempool", latest[InfoKey].tip))
  /\ prev' = CommitTs
  /\ UNCHANGED low

\* A faulty variant of Rollback: previous_timestamp is not updated.
RollbackKeepsClock(S, tip) ==
  /\ latest[InfoKey] # Absent
  /\ Write(Writes(S, [tip |-> tip, mempool |-> FALSE]))
  /\ UNCHANGED <<prev, low>>

\* Stage::rollback_to_point: a batch that reads nothing and has no TimestampsKV
\* entry.
Rollback(S, tip) ==
  /\ latest[InfoKey] # Absent
  /\ Write(Writes(S, [tip |-> tip, mempool |-> FALSE]))
  /\ prev' = CommitTs
  /\ UNCHANGED low

----------------------------------------------------------------------------
(* RocksDB and the process.  No commit is in a write-ahead log, so a crash *)
(* loses those after the last flush; a restart forgets the clock.          *)

Flush ==
  /\ flushed < seq
  /\ flushed' = seq
  /\ UNCHANGED <<now, prev, seq, versions, low, req, latest>>

\* Compaction drops, from table files, versions a version at or below the
\* watermark supersedes.
Compact ==
  LET F == {v \in versions : v.seq <= flushed}
      gone == {v \in F : \E w \in F \ {v} :
                 w.key = v.key /\ w.ts <= low /\ Newest({v, w}) = w}
  IN  /\ gone # {}
      /\ versions' = versions \ gone
      /\ UNCHANGED <<now, prev, seq, flushed, low, req, latest>>

Restart ==
  LET kept == {v \in versions : v.seq <= flushed} IN
  /\ prev # Absent
  /\ InstantRestart \/ prev.physical < now
  /\ prev' = Absent
  /\ versions' = kept
  /\ latest' = [k \in Key |->
                  LET S == {v \in kept : v.key = k} IN
                  IF S = {} THEN Absent
                  ELSE (CHOOSE v \in S : \A u \in S : u.seq <= v.seq).val]
  /\ req' = Idle
  /\ UNCHANGED <<now, seq, flushed, low>>

\* The system clock shows another second.
Clock ==
  \E t \in 0..MaxNow :
    /\ t > now \/ ClockStepsBack
    /\ now' = t
    /\ UNCHANGED <<prev, seq, versions, flushed, low, req, latest>>

----------------------------------------------------------------------------
(* AppState::start_reader(mempool): two reads at u64::MAX, then a reader.  *)

\* As of ts, for a request that found the confirmed entry c.
Reading(ts, c, mempool) ==
  [phase |-> "reading", ts |-> ts, tip |-> c.tip, mempool |-> mempool, since |-> c.ts]

ReadConfirmed(mempool) ==
  LET c == ReadMax("confirmed") IN
  /\ req = Idle
  /\ c # Absent     \* get_expected fails the request otherwise
  /\ req' = IF mempool THEN [phase |-> "confirmed", point |-> c]
            ELSE Reading(c.ts, c, FALSE)
  /\ UNCHANGED <<now, prev, seq, versions, flushed, low, latest>>

\* A faulty variant of Chained: the tips are not compared.
AnyTip(m, c) == m # Absent

\* The mempool point is used if it is chained on the confirmed tip.
Chained(m, c) == m # Absent /\ m.tip = c.tip

ReadMempool ==
  LET c == req.point
      m == ReadMax("mempool")
  IN  /\ req.phase = "confirmed"
      /\ req' = IF Chained(m, c) THEN Reading(m.ts, c, TRUE)
                ELSE Reading(c.ts, c, FALSE)
      /\ UNCHANGED <<now, prev, seq, versions, flushed, low, latest>>

Respond ==
  /\ req.phase = "reading"
  /\ req' = Idle
  /\ UNCHANGED <<now, prev, seq, versions, flushed, low, latest>>

----------------------------------------------------------------------------
Next ==
  \/ \E S \in SUBSET DataKey, tip \in Hash : ApplyConfirmed(S, tip)
  \/ \E S \in SUBSET DataKey : ApplyMempool(S)
  \/ \E S \in SUBSET DataKey, tip \in Hash : Rollback(S, tip)
  \/ Flush
  \/ Compact
  \/ Restart
  \/ Clock
  \/ \E mempool \in BOOLEAN : ReadConfirmed(mempool)
  \/ ReadMempool
  \/ Respond

Spec == Init /\ [][Next]_vars

----------------------------------------------------------------------------
(* Properties.                                                             *)

\* A task whose reads are not refused reads the store as the last commit left
\* it: every key has the value it was last given, and compaction takes nothing
\* of it away (IndexingTask.read_ts: "we want data at commit ts of last
\* rollforward/back").
IndexReadsLast == ~TaskRefused => \A k \in Key : TaskReads(k) = latest[k]

\* A commit is stamped above everything in the store, so that no earlier
\* version shadows it, and not below the watermark, so that the next task's
\* reads are not refused (Timestamp::after, across restarts too).
CommitsIncrease ==
  [][seq' # seq => /\ \A v \in versions : v.ts < AsU64(prev')
                   /\ ~TaskRefused']_vars

\* A response is one commit's state: what a request reads, as long as the
\* watermark allows its timestamp, is the tip it reports, with the mempool
\* estimate exactly when it reports one, whatever was committed, rolled back
\* or compacted since the request began (AppState::start_reader).
ServedConsistent ==
  req.phase = "reading" /\ req.ts >= low =>
    ReadAt(InfoKey, req.ts) = [tip |-> req.tip, mempool |-> req.mempool]

\* No response is older than the block it reports: a mempool entry left by an
\* earlier visit to the same tip, before a reorg away from it and back, passes
\* the comparison of tips but is below the watermark, so that the read is
\* refused (start_reader, increase_full_history_ts_low).
ServedFresh == req.phase = "reading" /\ req.ts >= low => req.ts >= req.since
=============================================================================
