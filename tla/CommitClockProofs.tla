------------------------- MODULE CommitClockProofs -------------------------
(* Theorems about CommitClock, for every number of commits, every set of    *)
(* keys and every interleaving with the API's requests.                     *)
EXTENDS CommitClock, NatOrder, TLAPS

\* What CommitsIncrease, IndexReadsLast and ServedConsistent need of the
\* system: time does not go back, and a process lives through a change of second.
SteadyClock == ~ClockStepsBack /\ ~InstantRestart

Timestamp == [physical : Nat, logical : Nat]

----------------------------------------------------------------------------
(* The invariants.                                                         *)

\* Versions have bounded timestamps and numbers, so that a newest one exists.
Bounded ==
  /\ \A v \in versions : v.ts \in Nat /\ v.seq \in 1..seq
  /\ \E top \in Nat : \A v \in versions : v.ts <= top

\* The watermark is at or above every confirmed entry, stored or being served.
Covered ==
  /\ \A v \in versions : /\ v.key \in StampKey => v.val.ts \in Nat
                         /\ v.key = "confirmed" => v.val.ts <= low
  /\ req.phase \in {"idle", "confirmed", "reading"}
  /\ req.phase = "confirmed" => req.point.ts \in Nat /\ req.point.ts <= low
  /\ req.phase = "reading" => req.ts \in Nat /\ req.since \in Nat /\ req.since <= low

\* This much holds whatever the clock does.
BaseInv ==
  /\ now \in Nat
  /\ prev \in Timestamp \cup {Absent}
  /\ seq \in 0..MaxCommits
  /\ flushed \in 0..seq
  /\ low \in Nat
  /\ Bounded
  /\ Covered

\* The clock of the running process is not ahead of the system's, and its
\* counter does not reach into the seconds.
ClockInv ==
  prev # Absent => prev.physical <= now /\ prev.logical < LogicalSpan

\* Times a commit may already have: what the next one will be above.
Past(t) == IF prev = Absent THEN t < now * LogicalSpan ELSE t <= AsU64(prev)

\* The next commit will not be below the watermark.
LowInv == low <= IF prev = Absent THEN now * LogicalSpan ELSE AsU64(prev)

\* Later commits have later timestamps; a commit has one version of a key.
Ordered(V) ==
  \A v, w \in V : /\ v.seq < w.seq => v.ts < w.ts
                  /\ v.seq = w.seq => v.ts = w.ts
                  /\ v.seq = w.seq /\ v.key = w.key => v = w

\* Above the watermark, a read as of t finds this tip and kind.
Tells(t, tip, mempool) ==
  t >= low => ReadAt(InfoKey, t) = [tip |-> tip, mempool |-> mempool]

\* An entry of TimestampsKV says what its own commit wrote.
StampInv ==
  \A v \in versions : v.key \in StampKey =>
    /\ v.val.ts = v.ts
    /\ Tells(v.ts, v.val.tip, v.key = "mempool")

ReqInv ==
  /\ req.phase = "confirmed" =>
       /\ req.point.ts \in Nat /\ Past(req.point.ts)
       /\ Tells(req.point.ts, req.point.tip, FALSE)
  /\ req.phase = "reading" =>
       /\ req.ts \in Nat /\ Past(req.ts)
       /\ Tells(req.ts, req.tip, req.mempool)

\* The value a key was last given is its newest version's.
LatestInv == \A k \in Key : latest[k] = ReadMax(k)

IInv ==
  /\ BaseInv
  /\ ClockInv
  /\ LowInv
  /\ Ordered(versions)
  /\ \A v \in versions : Past(v.ts)
  /\ LatestInv
  /\ StampInv
  /\ ReqInv

----------------------------------------------------------------------------
(* Timestamps.                                                             *)

\* Timestamps of different seconds do not overlap.
LEMMA SecondsApart ==
  ASSUME NEW a \in Nat, NEW b \in Nat, a < b
  PROVE  /\ a * LogicalSpan \in Nat /\ b * LogicalSpan \in Nat
         /\ a * LogicalSpan + LogicalSpan <= b * LogicalSpan
<1>1. LogicalSpan \in Nat
  BY SpanAssumption
<1>2. PICK d \in Nat : b = a + 1 + d
  <2>1. b - a - 1 \in Nat /\ b = a + 1 + (b - a - 1)
    OBVIOUS
  <2>. QED BY <2>1
<1>3. d * LogicalSpan \in Nat /\ a * LogicalSpan \in Nat
  BY <1>1
<1>4. (a + 1 + d) * LogicalSpan = a * LogicalSpan + LogicalSpan + d * LogicalSpan
  BY <1>1
<1>. QED BY <1>1, <1>2, <1>3, <1>4

\* The encoding of a timestamp is a number.
LEMMA AsU64Type ==
  ASSUME NEW ts \in Timestamp
  PROVE  AsU64(ts) \in Nat
BY SpanAssumption DEF AsU64, Timestamp

\* Whatever the clock does, a commit has a timestamp (Timestamp::after).
LEMMA CommitTsType ==
  ASSUME BaseInv
  PROVE  CommitTs \in Timestamp /\ AsU64(CommitTs) \in Nat
<1>1. CommitTs \in Timestamp
  BY DEF BaseInv, CommitTs, New, After, Timestamp
<1>. QED BY <1>1, AsU64Type

----------------------------------------------------------------------------
(* Newest versions.                                                        *)

\* A set of versions with bounded timestamps and numbers has a newest one.
LEMMA NewestExists ==
  ASSUME NEW S, S # {}, NEW top \in Nat, NEW n \in Nat,
         \A v \in S : v.ts \in 0..top /\ v.seq \in 0..n
  PROVE  /\ Newest(S) \in S
         /\ \A w \in S : \/ w.ts < Newest(S).ts
                         \/ w.ts = Newest(S).ts /\ w.seq <= Newest(S).seq
<1>. DEFINE T == {v.ts : v \in S}
<1>1. T \subseteq 0..top /\ T # {}
  OBVIOUS
<1>2. PICK t \in T : \A y \in T : y <= t
  <2> HIDE DEF T
  <2>. QED BY <1>1, GreatestNat
<1>. DEFINE Q == {v.seq : v \in {u \in S : u.ts = t}}
<1>3. Q \subseteq 0..n /\ Q # {}
  BY <1>2
<1>4. PICK q \in Q : \A y \in Q : y <= q
  <2> HIDE DEF Q
  <2>. QED BY <1>3, GreatestNat
<1>5. PICK v \in S : v.ts = t /\ v.seq = q
  BY <1>4
<1>6. \A w \in S : w.ts <= t
  BY <1>2
<1>7. \A w \in S : w.ts = t => w.seq <= q
  BY <1>4
<1> HIDE DEF T, Q
<1>8. \A w \in S : w.ts < v.ts \/ (w.ts = v.ts /\ w.seq <= v.seq)
  BY <1>1, <1>2, <1>5, <1>6, <1>7
<1>. QED BY <1>8, Zenon DEF Newest

\* A read at u64::MAX returns nothing, or the value of a version of the key.
LEMMA ReadMaxFound ==
  ASSUME Bounded, seq \in Nat, NEW k, ReadMax(k) # Absent
  PROVE  \E v \in versions : v.key = k /\ ReadMax(k) = v.val
<1>. DEFINE S == {v \in versions : v.key = k}
<1>1. S # {} /\ ReadMax(k) = Newest(S).val
  BY DEF ReadMax
<1>2. PICK top \in Nat : \A v \in versions : v.ts <= top
  BY DEF Bounded
<1>3. \A v \in S : v.ts \in 0..top /\ v.seq \in 0..seq
  BY <1>2 DEF Bounded
<1>4. Newest(S) \in S
  <2> HIDE DEF S
  <2>. QED BY <1>1, <1>3, NewestExists
<1>. QED BY <1>1, <1>4

----------------------------------------------------------------------------
(* The unconditional invariant.                                            *)

\* The empty store is covered.
LEMMA InitBase == Init => BaseInv
<1> SUFFICES ASSUME Init PROVE BaseInv
  OBVIOUS
<1>1. 0 \in Nat /\ \A v \in versions : v.ts <= 0
  BY DEF Init
<1>2. Bounded
  BY <1>1 DEF Bounded, Init
<1>3. Covered
  BY DEF Covered, Init, Idle
<1>. QED BY <1>2, <1>3, BoundAssumption DEF BaseInv, Init

\* What a batch adds to the store.
NewVersions(w, ts) ==
  {[key |-> k, ts |-> ts, seq |-> seq + 1, val |-> w[k]] : k \in DOMAIN w}

\* A batch keeps versions bounded and confirmed entries covered, if it raises
\* the watermark to the one it writes.
LEMMA WriteBase ==
  ASSUME BaseInv, NEW w, Write(w), prev' = CommitTs, low' \in Nat, low' >= low,
         \A k \in DOMAIN w \cap StampKey : w[k].ts \in Nat,
         "confirmed" \in DOMAIN w => w["confirmed"].ts <= low'
  PROVE  BaseInv'
<1>. DEFINE ts == AsU64(CommitTs)
            new == NewVersions(w, ts)
<1>1. CommitTs \in Timestamp /\ ts \in Nat
  BY CommitTsType
<1> HIDE DEF ts
<1>2. /\ versions' = versions \cup new
      /\ seq' = seq + 1 /\ seq < MaxCommits
      /\ now' = now /\ flushed' = flushed /\ req' = req
  BY DEF Write, NewVersions, ts
<1>3. \A v \in new : v.ts = ts /\ v.seq = seq + 1
                     /\ v.key \in DOMAIN w /\ v.val = w[v.key]
  BY DEF NewVersions
<1> HIDE DEF new
<1>4. seq \in Nat /\ low \in Nat /\ MaxCommits \in Nat
  BY BoundAssumption DEF BaseInv
<1>5. \A v \in versions' : v.ts \in Nat /\ v.seq \in 1..seq'
  BY <1>1, <1>2, <1>3, <1>4 DEF BaseInv, Bounded
<1>6. PICK top \in Nat : \A v \in versions : v.ts <= top
  BY DEF BaseInv, Bounded
<1>7. \E t \in Nat : t >= top /\ t >= ts
  <2>1. top + ts \in Nat /\ top + ts >= top /\ top + ts >= ts
    BY <1>1
  <2>. QED BY <2>1
<1>8. PICK t \in Nat : t >= top /\ t >= ts
  BY <1>7
<1>9. \A v \in versions' : v.ts <= t
  BY <1>1, <1>2, <1>3, <1>6, <1>8, <1>5 DEF BaseInv, Bounded
<1>10. Bounded'
  BY <1>5, <1>8, <1>9 DEF Bounded
<1>11. \A v \in versions' : /\ v.key \in StampKey => v.val.ts \in Nat
                            /\ v.key = "confirmed" => v.val.ts <= low'
  BY <1>2, <1>3, <1>4 DEF BaseInv, Covered, StampKey
<1>12. Covered'
  BY <1>2, <1>4, <1>11 DEF BaseInv, Covered
<1>. QED BY <1>1, <1>2, <1>4, <1>10, <1>12 DEF BaseInv

\* Timestamps entries are written under their own key, and say their time.
LEMMA StampedFacts ==
  ASSUME NEW S \in SUBSET DataKey, NEW kind \in StampKey, NEW tip
  PROVE  /\ DOMAIN Stamped(S, kind, tip) = S \cup {InfoKey, kind}
         /\ Stamped(S, kind, tip)[kind] = [tip |-> tip, ts |-> AsU64(CommitTs)]
         /\ Stamped(S, kind, tip)[InfoKey] = [tip |-> tip, mempool |-> kind = "mempool"]
BY KeyAssumption DEF Stamped, Writes, InfoKey, StampKey

\* A batch with no timestamps entry holds IndexerInfoKV all the same.
LEMMA WritesFacts ==
  ASSUME NEW S \in SUBSET DataKey, NEW info
  PROVE  /\ DOMAIN Writes(S, info) = S \cup {InfoKey}
         /\ Writes(S, info)[InfoKey] = info
BY DEF Writes

\* A confirmed block raises the watermark to its own timestamp.
LEMMA ApplyConfirmedBase ==
  ASSUME BaseInv, NEW S \in SUBSET DataKey, NEW tip, ApplyConfirmed(S, tip)
  PROVE  BaseInv' /\ low' >= AsU64(CommitTs) /\ low' >= low
<1>. DEFINE w == Stamped(S, "confirmed", tip)
            ts == AsU64(CommitTs)
<1>1. ts \in Nat /\ low \in Nat
  BY CommitTsType DEF BaseInv
<1>2. Write(w) /\ prev' = CommitTs /\ low' = Watermark(ts)
  BY DEF ApplyConfirmed
<1>3. w["confirmed"] = [tip |-> tip, ts |-> ts]
  BY StampedFacts DEF StampKey
<1>4. low' \in Nat /\ low' >= low /\ low' >= ts
  <2> HIDE DEF ts
  <2>. QED BY <1>1, <1>2 DEF Watermark
<1>5. /\ w["confirmed"].ts = ts
      /\ \A k \in DOMAIN w \cap StampKey : k = "confirmed"
  <2>1. DOMAIN w = S \cup {InfoKey, "confirmed"}
    BY StampedFacts DEF StampKey
  <2> HIDE DEF ts, w
  <2>. QED BY <1>3, <2>1, KeyAssumption DEF StampKey, InfoKey
<1> HIDE DEF w, ts
<1>6. BaseInv'
  BY <1>1, <1>2, <1>4, <1>5, WriteBase
<1>. QED BY <1>4, <1>6 DEF ts

\* Every step keeps the versions bounded and the confirmed entries covered.
LEMMA NextBase == BaseInv /\ [Next]_vars => BaseInv'
<1> SUFFICES ASSUME BaseInv, [Next]_vars PROVE BaseInv'
  OBVIOUS
<1>1. ASSUME NEW S \in SUBSET DataKey, NEW tip \in Hash, ApplyConfirmed(S, tip)
      PROVE  BaseInv'
  BY <1>1, ApplyConfirmedBase
<1>2. ASSUME NEW S \in SUBSET DataKey, ApplyMempool(S)
      PROVE  BaseInv'
  <2>. DEFINE w == Stamped(S, "mempool", latest[InfoKey].tip)
  <2>1. Write(w) /\ prev' = CommitTs /\ low' = low
    BY <1>2 DEF ApplyMempool
  <2>2. DOMAIN w = S \cup {InfoKey, "mempool"}
    BY StampedFacts DEF StampKey
  <2>3. DOMAIN w \cap StampKey = {"mempool"}
    BY <2>2, KeyAssumption DEF InfoKey, StampKey
  <2>4. w["mempool"].ts \in Nat
    <3>1. w["mempool"] = [tip |-> latest[InfoKey].tip, ts |-> AsU64(CommitTs)]
      BY StampedFacts DEF StampKey
    <3>2. w["mempool"].ts = AsU64(CommitTs)
      <4> HIDE DEF w
      <4>. QED BY <3>1
    <3>. QED BY <3>2, CommitTsType
  <2> HIDE DEF w
  <2>5. low \in Nat /\ "confirmed" \notin DOMAIN w
    BY <2>3 DEF BaseInv, StampKey
  <2>6. \A k \in DOMAIN w \cap StampKey : w[k].ts \in Nat
    BY <2>3, <2>4
  <2>. QED BY <2>1, <2>5, <2>6, WriteBase
<1>3. ASSUME NEW S \in SUBSET DataKey, NEW tip \in Hash, Rollback(S, tip)
      PROVE  BaseInv'
  <2>. DEFINE w == Writes(S, [tip |-> tip, mempool |-> FALSE])
  <2>1. Write(w) /\ prev' = CommitTs /\ low' = low
    BY <1>3 DEF Rollback
  <2>2. DOMAIN w = S \cup {InfoKey}
    BY WritesFacts
  <2>3. DOMAIN w \cap StampKey = {}
    BY <2>2, KeyAssumption DEF InfoKey, StampKey
  <2> HIDE DEF w
  <2>4. low \in Nat /\ "confirmed" \notin DOMAIN w
    BY <2>3 DEF BaseInv, StampKey
  <2>5. \A k \in DOMAIN w \cap StampKey : w[k].ts \in Nat
    BY <2>3
  <2>. QED BY <2>1, <2>4, <2>5, WriteBase
<1>4. CASE Flush
  BY <1>4 DEF Flush, BaseInv, Bounded, Covered
<1>5. CASE Compact
  <2>1. /\ versions' \subseteq versions
        /\ UNCHANGED <<now, prev, seq, flushed, low, req, latest>>
    BY <1>5 DEF Compact
  <2>2. Bounded'
    BY <2>1 DEF BaseInv, Bounded
  <2>3. Covered'
    BY <2>1 DEF BaseInv, Covered
  <2>. QED BY <2>1, <2>2, <2>3 DEF BaseInv
<1>6. CASE Restart
  <2>1. /\ versions' \subseteq versions
        /\ UNCHANGED <<now, seq, flushed, low>>
        /\ req' = Idle /\ prev' = Absent
    BY <1>6 DEF Restart
  <2>2. Bounded'
    BY <2>1 DEF BaseInv, Bounded
  <2>3. Covered'
    BY <2>1 DEF BaseInv, Covered, Idle
  <2>. QED BY <2>1, <2>2, <2>3 DEF BaseInv
<1>7. CASE Clock
  <2>1. now' \in Nat /\ UNCHANGED <<prev, seq, versions, flushed, low, req, latest>>
    BY <1>7, BoundAssumption DEF Clock
  <2>. QED BY <2>1 DEF BaseInv, Bounded, Covered
<1>8. ASSUME NEW mempool \in BOOLEAN, ReadConfirmed(mempool)
      PROVE  BaseInv'
  <2>1. PICK v \in versions : v.key = "confirmed" /\ ReadMax("confirmed") = v.val
    BY <1>8, ReadMaxFound DEF ReadConfirmed, BaseInv
  <2>2. ReadMax("confirmed").ts \in Nat /\ ReadMax("confirmed").ts <= low
    BY <2>1 DEF BaseInv, Covered, StampKey
  <2>3. /\ UNCHANGED <<now, prev, seq, versions, flushed, low>>
        /\ req' = IF mempool THEN [phase |-> "confirmed", point |-> ReadMax("confirmed")]
                  ELSE Reading(ReadMax("confirmed").ts, ReadMax("confirmed"), FALSE)
    BY <1>8 DEF ReadConfirmed
  <2>4. Covered'
    BY <2>2, <2>3 DEF Covered, Reading, BaseInv
  <2>. QED BY <2>3, <2>4 DEF BaseInv, Bounded
<1>9. CASE ReadMempool
  <2>1. /\ UNCHANGED <<now, prev, seq, versions, flushed, low>>
        /\ req.phase = "confirmed"
        /\ req'.phase = "reading" /\ req'.since = req.point.ts
        /\ \/ req'.ts = req.point.ts
           \/ ReadMax("mempool") # Absent /\ req'.ts = ReadMax("mempool").ts
    BY <1>9 DEF ReadMempool, Reading, Chained
  <2>2. ASSUME ReadMax("mempool") # Absent PROVE ReadMax("mempool").ts \in Nat
    <3>1. PICK v \in versions : v.key = "mempool" /\ ReadMax("mempool") = v.val
      BY <2>2, ReadMaxFound DEF BaseInv
    <3>. QED BY <3>1 DEF BaseInv, Covered, StampKey
  <2>3. Covered'
    BY <2>1, <2>2 DEF Covered, BaseInv
  <2>. QED BY <2>1, <2>3 DEF BaseInv, Bounded
<1>10. CASE Respond
  BY <1>10 DEF Respond, BaseInv, Bounded, Covered, Idle
<1>11. CASE UNCHANGED vars
  BY <1>11 DEF vars, BaseInv, Bounded, Covered
<1>. QED BY <1>1, <1>2, <1>3, <1>4, <1>5, <1>6, <1>7, <1>8, <1>9, <1>10, <1>11 DEF Next

\* The unconditional invariant holds.
LEMMA BaseInvariance == Spec => []BaseInv
BY InitBase, NextBase, PTL DEF Spec

\* No response is older than the block it reports, whatever the clock does: the
\* watermark, which every confirmed commit raises, refuses a mempool entry left
\* by an earlier visit to the tip (start_reader, increase_full_history_ts_low).
THEOREM ResponsesAreFresh == Spec => []ServedFresh
<1>1. BaseInv => ServedFresh
  <2> SUFFICES ASSUME BaseInv, req.phase = "reading", req.ts >= low
               PROVE  req.ts >= req.since
    BY DEF ServedFresh
  <2>. QED BY DEF BaseInv, Covered
<1>. QED BY <1>1, BaseInvariance, PTL

----------------------------------------------------------------------------
(* Versions of one key, when commits are ordered.                          *)

\* Some versions of one key.
OneKey(S) == \A v, w \in S : v.key = w.key

Numbered(S, n) == \A v \in S : v.ts \in Nat /\ v.seq \in 1..n

\* The version of the last commit is the newest.
LEMMA NewestIs ==
  ASSUME NEW S, NEW n \in Nat, Numbered(S, n), Ordered(S), OneKey(S),
         NEW v \in S, \A w \in S : w.seq <= v.seq
  PROVE  Newest(S) = v
<1>. DEFINE P(u) == \A w \in S : w.ts < u.ts \/ (w.ts = u.ts /\ w.seq <= u.seq)
<1>1. P(v)
  BY DEF Numbered, Ordered, OneKey
<1>2. ASSUME NEW u \in S, P(u) PROVE u = v
  <2>1. v.ts < u.ts \/ (v.ts = u.ts /\ v.seq <= u.seq)
    BY <1>2
  <2>2. ~(u.seq < v.seq)
    BY <2>1 DEF Numbered, Ordered
  <2>3. u.seq = v.seq
    BY <2>2 DEF Numbered
  <2>. QED BY <2>3 DEF Ordered, OneKey
<1>3. Newest(S) = CHOOSE u \in S : P(u)
  BY DEF Newest
<1> HIDE DEF P
<1>4. \E u \in S : P(u)
  BY <1>1
<1>5. Newest(S) \in S /\ P(Newest(S))
  BY <1>3, <1>4, Zenon
<1>. QED BY <1>2, <1>5

\* There is a version of the last commit, and it is the newest.
LEMMA NewestLast ==
  ASSUME NEW S, S # {}, NEW n \in Nat, Numbered(S, n), Ordered(S), OneKey(S)
  PROVE  Newest(S) \in S /\ \A w \in S : w.seq <= Newest(S).seq
<1>. DEFINE Q == {v.seq : v \in S}
<1>1. Q \subseteq 0..n /\ Q # {}
  BY DEF Numbered
<1>2. PICK q \in Q : \A y \in Q : y <= q
  <2> HIDE DEF Q
  <2>. QED BY <1>1, GreatestNat
<1>3. PICK v \in S : v.seq = q
  BY <1>2
<1>4. \A w \in S : w.seq <= v.seq
  BY <1>2, <1>3
<1>5. Newest(S) = v
  BY <1>4, NewestIs
<1>. QED BY <1>4, <1>5

\* Reads go to sets of versions of one key.
LEMMA VersionsOf ==
  ASSUME NEW V, NEW n \in Nat, Numbered(V, n), Ordered(V), NEW S, S \subseteq V,
         NEW k, \A v \in S : v.key = k
  PROVE  Numbered(S, n) /\ Ordered(S) /\ OneKey(S)
BY DEF Numbered, Ordered, OneKey

----------------------------------------------------------------------------
(* The clock.                                                              *)

\* A commit is stamped above everything committed before (Timestamp::after):
\* by the counter within a second, by the second otherwise.
LEMMA CommitAbove ==
  ASSUME BaseInv, ClockInv
  PROVE  /\ \A t \in Nat : Past(t) => t < AsU64(CommitTs)
         /\ CommitTs.physical <= now
<1>1. LogicalSpan \in Nat /\ now \in Nat /\ now * LogicalSpan \in Nat
  BY SpanAssumption DEF BaseInv
<1>2. CASE prev = Absent
  <2>1. CommitTs = [physical |-> now, logical |-> 0]
    BY <1>2 DEF CommitTs, New
  <2>2. AsU64(CommitTs) = now * LogicalSpan
    BY <1>1, <2>1 DEF AsU64
  <2>. QED BY <1>1, <1>2, <2>1, <2>2 DEF Past
<1>3. CASE prev # Absent
  <2>1. /\ prev.physical \in Nat /\ prev.logical \in Nat
        /\ prev.physical <= now /\ prev.logical < LogicalSpan
    BY <1>3 DEF BaseInv, ClockInv, Timestamp
  <2>2. AsU64(prev) = prev.physical * LogicalSpan + prev.logical
    BY DEF AsU64
  <2>3. CASE prev.physical = now
    <3>1. CommitTs = [physical |-> now, logical |-> prev.logical + 1]
      BY <1>1, <1>3, <2>1, <2>3 DEF CommitTs, After
    <3>2. AsU64(CommitTs) = now * LogicalSpan + (prev.logical + 1)
      BY <3>1 DEF AsU64
    <3>3. AsU64(prev) = now * LogicalSpan + prev.logical
      BY <2>2, <2>3
    <3>. QED BY <1>1, <1>3, <2>1, <3>1, <3>2, <3>3 DEF Past
  <2>4. CASE prev.physical < now
    <3>1. CommitTs = [physical |-> now, logical |-> 0]
      BY <1>1, <1>3, <2>1, <2>4 DEF CommitTs, After
    <3>2. AsU64(CommitTs) = now * LogicalSpan
      BY <1>1, <3>1 DEF AsU64
    <3>3. /\ prev.physical * LogicalSpan \in Nat
          /\ prev.physical * LogicalSpan + LogicalSpan <= now * LogicalSpan
      BY <1>1, <2>1, <2>4, SecondsApart
    <3>4. AsU64(prev) < now * LogicalSpan /\ AsU64(prev) \in Nat
      BY <1>1, <2>1, <2>2, <3>3
    <3>. QED BY <1>1, <1>3, <3>1, <3>2, <3>4 DEF Past
  <2>. QED BY <1>1, <2>1, <2>3, <2>4
<1>. QED BY <1>2, <1>3

\* A commit is not stamped below the watermark.
LEMMA CommitReaches ==
  ASSUME BaseInv, ClockInv, LowInv
  PROVE  low <= AsU64(CommitTs)
<1>1. low \in Nat /\ AsU64(CommitTs) \in Nat
  BY CommitTsType DEF BaseInv
<1>2. CASE prev = Absent
  <2>1. AsU64(CommitTs) = now * LogicalSpan + 0 /\ now * LogicalSpan \in Nat
    BY <1>2, SpanAssumption DEF BaseInv, AsU64, CommitTs, New
  <2>2. low <= now * LogicalSpan
    BY <1>2 DEF LowInv
  <2>. QED BY <2>1, <2>2
<1>3. CASE prev # Absent
  <2>1. Past(low)
    BY <1>3 DEF LowInv, Past
  <2>2. low < AsU64(CommitTs)
    BY <1>1, <2>1, CommitAbove
  <2>. QED BY <1>1, <2>2
<1>. QED BY <1>2, <1>3

\* Nor is the watermark above the commit that raised it, or left it alone.
LEMMA LowStays ==
  ASSUME BaseInv, ClockInv, LowInv, prev' = CommitTs,
         low' = low \/ low' = AsU64(CommitTs)
  PROVE  LowInv'
<1>1. prev' # Absent /\ AsU64(prev)' = AsU64(CommitTs)
  BY CommitTsType, AbsentAssumption DEF Timestamp, AsU64
<1>2. AsU64(CommitTs) \in Nat /\ low <= AsU64(CommitTs)
  BY CommitTsType, CommitReaches
<1>. QED BY <1>1, <1>2 DEF LowInv

\* What was past stays past, over a commit.
LEMMA PastGrows ==
  ASSUME BaseInv, ClockInv, prev' = CommitTs
  PROVE  \A t \in Nat : Past(t) \/ t = AsU64(CommitTs) => Past(t)'
<1>1. prev' # Absent
  BY CommitTsType, AbsentAssumption DEF Timestamp
<1>2. AsU64(CommitTs) \in Nat
  BY CommitTsType
<1>3. \A t \in Nat : Past(t)' <=> t <= AsU64(CommitTs)
  BY <1>1 DEF Past, AsU64
<1>4. \A t \in Nat : Past(t) => t < AsU64(CommitTs)
  BY CommitAbove
<1>. QED BY <1>2, <1>3, <1>4

----------------------------------------------------------------------------
(* Commits.                                                                *)

\* What a batch of the index stage is: an entry of TimestampsKV in it says the
\* batch's time, and what its IndexerInfoKV says.
SaysSo(w, ts) ==
  \A k \in DOMAIN w \cap StampKey :
    /\ w[k].ts = ts
    /\ InfoKey \in DOMAIN w
    /\ w[InfoKey] = [tip |-> w[k].tip, mempool |-> k = "mempool"]

\* A batch is the newest of all: it is what is read as of its time and at
\* u64::MAX, and no read as of an earlier time finds it.
LEMMA WriteReads ==
  ASSUME IInv, BaseInv', NEW w, Write(w), prev' = CommitTs, NEW ts, ts = AsU64(CommitTs)
  PROVE  /\ Ordered(versions')
         /\ \A k \in DOMAIN w : ReadAt(k, ts)' = w[k] /\ ReadMax(k)' = w[k]
         /\ \A k : k \notin DOMAIN w => ReadMax(k)' = ReadMax(k)
         /\ \A k : \A t \in Nat : t < ts => ReadAt(k, t)' = ReadAt(k, t)
<1>. DEFINE new == NewVersions(w, ts)
            entry(k) == [key |-> k, ts |-> ts, seq |-> seq + 1, val |-> w[k]]
<1>1. seq \in Nat /\ seq < MaxCommits /\ ts \in Nat
  BY CommitTsType DEF Write, IInv, BaseInv
<1>2. versions' = versions \cup new /\ seq' = seq + 1
  BY DEF Write, NewVersions
<1>3. \A v \in versions : v.ts \in Nat /\ v.seq \in 1..seq /\ v.ts < ts
  BY <1>1, CommitAbove DEF IInv, BaseInv, Bounded
<1>4. /\ \A v \in new : v.key \in DOMAIN w /\ v = entry(v.key)
      /\ \A k \in DOMAIN w : entry(k) \in new
  BY DEF NewVersions
<1>5. \A k : entry(k).key = k /\ entry(k).ts = ts /\ entry(k).seq = seq + 1
             /\ entry(k).val = w[k]
  OBVIOUS
<1> HIDE DEF new, entry
<1>6. Numbered(versions', seq + 1)
  BY <1>1, <1>2, <1>3, <1>4, <1>5 DEF Numbered
<1>7. Ordered(versions')
  <2> SUFFICES ASSUME NEW v \in versions', NEW u \in versions'
               PROVE  /\ v.seq < u.seq => v.ts < u.ts
                      /\ v.seq = u.seq => v.ts = u.ts
                      /\ v.seq = u.seq /\ v.key = u.key => v = u
    BY DEF Ordered
  <2>1. CASE v \in versions /\ u \in versions
    BY <2>1 DEF IInv, Ordered
  <2>2. CASE v \in versions /\ u \in new
    <3>1. u.seq = seq + 1 /\ u.ts = ts
      BY <1>4, <1>5, <2>2
    <3>. QED BY <1>1, <1>3, <2>2, <3>1
  <2>3. CASE v \in new /\ u \in versions
    <3>1. v.seq = seq + 1 /\ v.ts = ts
      BY <1>4, <1>5, <2>3
    <3>. QED BY <1>1, <1>3, <2>3, <3>1
  <2>4. CASE v \in new /\ u \in new
    <3>1. v.seq = seq + 1 /\ u.seq = seq + 1 /\ v.ts = ts /\ u.ts = ts
      BY <1>4, <1>5, <2>4
    <3>2. v.key = u.key => v = u
      BY <1>4, <2>4
    <3>. QED BY <1>1, <3>1, <3>2
  <2>. QED BY <1>2, <2>1, <2>2, <2>3, <2>4
<1>8. ASSUME NEW k \in DOMAIN w, NEW S, S \subseteq versions', entry(k) \in S,
             \A v \in S : v.key = k
      PROVE  S # {} /\ Newest(S).val = w[k]
  <2>1. Numbered(S, seq + 1) /\ Ordered(S) /\ OneKey(S)
    BY <1>1, <1>6, <1>7, <1>8, VersionsOf
  <2>2. \A v \in S : v.seq <= entry(k).seq
    BY <1>1, <1>5, <2>1 DEF Numbered
  <2>3. Newest(S) = entry(k)
    BY <1>1, <1>8, <2>1, <2>2, NewestIs
  <2>. QED BY <1>5, <1>8, <2>3
<1>9. ASSUME NEW k \in DOMAIN w
      PROVE  ReadAt(k, ts)' = w[k] /\ ReadMax(k)' = w[k]
  <2>. DEFINE S == {v \in versions' : v.key = k /\ v.ts <= ts}
              R == {v \in versions' : v.key = k}
  <2>1. entry(k) \in S /\ entry(k) \in R
    BY <1>1, <1>2, <1>4, <1>5
  <2>2. S # {} /\ Newest(S).val = w[k]
    BY <1>8, <2>1
  <2>3. R # {} /\ Newest(R).val = w[k]
    BY <1>8, <2>1
  <2>4. ReadAt(k, ts)' = IF S = {} THEN Absent ELSE Newest(S).val
    BY DEF ReadAt, Visible
  <2>5. ReadMax(k)' = IF R = {} THEN Absent ELSE Newest(R).val
    BY DEF ReadMax
  <2>. QED BY <2>2, <2>3, <2>4, <2>5
<1>10. ASSUME NEW k, k \notin DOMAIN w PROVE ReadMax(k)' = ReadMax(k)
  <2>1. {v \in versions' : v.key = k} = {v \in versions : v.key = k}
    BY <1>2, <1>4, <1>10
  <2>. QED BY <2>1 DEF ReadMax
<1>11. ASSUME NEW k, NEW t \in Nat, t < ts PROVE ReadAt(k, t)' = ReadAt(k, t)
  <2>1. {v \in versions' : v.key = k /\ v.ts <= t} = {v \in versions : v.key = k /\ v.ts <= t}
    BY <1>1, <1>2, <1>4, <1>5, <1>11
  <2>. QED BY <2>1 DEF ReadAt, Visible
<1>. QED BY <1>7, <1>9, <1>10, <1>11

\* A commit keeps the invariant.
LEMMA WriteStep ==
  ASSUME IInv, BaseInv', NEW w, Write(w), prev' = CommitTs, low' >= low,
         low' = low \/ low' = AsU64(CommitTs), SaysSo(w, AsU64(CommitTs))
  PROVE  IInv'
<1>1. PICK ts : ts = AsU64(CommitTs)
  OBVIOUS
<1>2. /\ seq \in Nat /\ seq < MaxCommits /\ seq' = seq + 1 /\ now' = now /\ req' = req
      /\ versions' = versions \cup NewVersions(w, ts)
      /\ latest' = [k \in Key |-> IF k \in DOMAIN w THEN w[k] ELSE latest[k]]
      /\ now \in Nat /\ ts \in Nat /\ low \in Nat /\ low' \in Nat
  BY <1>1, CommitTsType DEF Write, NewVersions, IInv, BaseInv
<1>3. \A t \in Nat : Past(t) => t < ts
  BY <1>1, <1>2, CommitAbove DEF IInv
<1>4. \A t \in Nat : Past(t) \/ t = ts => Past(t)'
  BY <1>1, <1>2, PastGrows DEF IInv
<1>5. /\ Ordered(versions')
      /\ \A k \in DOMAIN w : ReadAt(k, ts)' = w[k] /\ ReadMax(k)' = w[k]
      /\ \A k : k \notin DOMAIN w => ReadMax(k)' = ReadMax(k)
      /\ \A k : \A t \in Nat : t < ts => ReadAt(k, t)' = ReadAt(k, t)
  BY <1>1, WriteReads
<1>6. \A v \in NewVersions(w, ts) : v.ts = ts /\ v.key \in DOMAIN w /\ v.val = w[v.key]
  BY DEF NewVersions
<1>7. \A t \in Nat : \A tip, mp : Past(t) /\ Tells(t, tip, mp) => Tells(t, tip, mp)'
  BY <1>2, <1>3, <1>5 DEF Tells, InfoKey
<1>8. ClockInv'
  BY <1>2, CommitAbove DEF ClockInv, IInv, Write, FitsInSecond
<1>9. \A v \in versions' : Past(v.ts)'
  BY <1>2, <1>4, <1>6 DEF IInv, BaseInv, Bounded
<1>10. LatestInv'
  BY <1>2, <1>5 DEF LatestInv, IInv
<1>11. StampInv'
  <2> SUFFICES ASSUME NEW v \in versions', v.key \in StampKey
               PROVE  v.val.ts = v.ts /\ Tells(v.ts, v.val.tip, v.key = "mempool")'
    BY DEF StampInv, StampKey
  <2>1. CASE v \in versions
    <3>1. v.ts \in Nat /\ Past(v.ts)
      BY <2>1 DEF IInv, BaseInv, Bounded
    <3>2. v.val.ts = v.ts /\ Tells(v.ts, v.val.tip, v.key = "mempool")
      BY <2>1 DEF IInv, StampInv
    <3>. QED BY <1>7, <3>1, <3>2
  <2>2. CASE v \in NewVersions(w, ts)
    <3>1. v.ts = ts /\ v.key \in DOMAIN w /\ v.val = w[v.key]
      BY <1>6, <2>2
    <3>2. /\ v.val.ts = ts /\ InfoKey \in DOMAIN w
          /\ w[InfoKey] = [tip |-> v.val.tip, mempool |-> v.key = "mempool"]
      BY <1>1, <3>1 DEF SaysSo
    <3>3. ReadAt(InfoKey, ts)' = w[InfoKey]
      BY <1>5, <3>2
    <3>4. ReadAt(InfoKey, v.ts)' = ReadAt(InfoKey, ts)'
      BY <3>1
    <3>. QED BY <3>1, <3>2, <3>3, <3>4 DEF Tells
  <2>. QED BY <1>2, <2>1, <2>2
<1>12. ReqInv'
  BY <1>2, <1>4, <1>7 DEF IInv, ReqInv
<1>13. LowInv'
  BY LowStays DEF IInv
<1>. QED BY <1>5, <1>8, <1>9, <1>10, <1>11, <1>12, <1>13 DEF IInv

----------------------------------------------------------------------------
(* Compaction and restarts.                                                *)

\* Compaction takes away no version a read as of the watermark or later, or at
\* u64::MAX, would find: S is what such a read chooses from.
LEMMA CompactKeeps ==
  ASSUME IInv, Compact, NEW S, S \subseteq versions, NEW k, \A v \in S : v.key = k,
         \A u \in versions : u.key = k /\ u.ts <= low => u \in S
  PROVE  /\ S = {} <=> S \cap versions' = {}
         /\ S # {} => Newest(S \cap versions') = Newest(S)
<1>1. seq \in Nat /\ Numbered(versions, seq) /\ Ordered(versions)
  BY DEF IInv, BaseInv, Bounded, Numbered
<1>2. Numbered(S, seq) /\ Ordered(S) /\ OneKey(S)
  BY <1>1, VersionsOf
<1>3. versions' \subseteq versions
  BY DEF Compact
<1>4. ASSUME S # {} PROVE Newest(S) \in versions'
  <2>. DEFINE F == {v \in versions : v.seq <= flushed}
              gone == {v \in F : \E w \in F \ {v} :
                         w.key = v.key /\ w.ts <= low /\ Newest({v, w}) = w}
              n == Newest(S)
  <2>1. n \in S /\ \A v \in S : v.seq <= n.seq
    BY <1>1, <1>2, <1>4, NewestLast
  <2>2. versions' = versions \ gone
    BY DEF Compact
  <2> HIDE DEF n
  <2>3. ASSUME NEW u \in F \ {n}, u.key = n.key, u.ts <= low, Newest({n, u}) = u
        PROVE  FALSE
    <3>1. u \in S /\ n \in S
      BY <2>1, <2>3
    <3>2. Numbered({n, u}, seq) /\ Ordered({n, u}) /\ OneKey({n, u})
      BY <1>1, <2>3, <3>1, VersionsOf
    <3>3. n.seq <= u.seq
      BY <1>1, <2>3, <3>2, NewestLast
    <3>4. u.seq = n.seq
      BY <1>2, <2>1, <3>1, <3>3 DEF Numbered
    <3>. QED BY <1>2, <2>3, <3>1, <3>4 DEF Ordered
  <2>4. n \notin gone
    BY <2>3
  <2>. QED BY <2>1, <2>2, <2>4 DEF n
<1>5. ASSUME S # {} PROVE Newest(S \cap versions') = Newest(S)
  <2>1. Newest(S) \in S /\ \A v \in S : v.seq <= Newest(S).seq
    BY <1>1, <1>2, <1>5, NewestLast
  <2>2. /\ Numbered(S \cap versions', seq) /\ Ordered(S \cap versions')
        /\ OneKey(S \cap versions')
    BY <1>2 DEF Numbered, Ordered, OneKey
  <2>3. Newest(S) \in S \cap versions'
    BY <1>4, <1>5, <2>1
  <2>. QED BY <1>1, <2>1, <2>2, <2>3, NewestIs
<1>. QED BY <1>4, <1>5, <1>1, <1>2, NewestLast

\* Compaction keeps the invariant.
LEMMA CompactStep ==
  ASSUME IInv, BaseInv', Compact
  PROVE  IInv'
<1>1. versions' \subseteq versions /\ UNCHANGED <<now, prev, seq, flushed, low, req, latest>>
  BY DEF Compact
<1>2. low \in Nat /\ \A v \in versions : v.ts \in Nat
  BY DEF IInv, BaseInv, Bounded
<1>3. ASSUME NEW k PROVE ReadMax(k)' = ReadMax(k)
  <2>. DEFINE S == {v \in versions : v.key = k}
  <2>1. /\ S = {} <=> S \cap versions' = {}
        /\ S # {} => Newest(S \cap versions') = Newest(S)
    BY CompactKeeps
  <2>2. {v \in versions' : v.key = k} = S \cap versions'
    BY <1>1
  <2>3. ReadMax(k)' = IF S \cap versions' = {} THEN Absent ELSE Newest(S \cap versions').val
    BY <2>2 DEF ReadMax
  <2>4. ReadMax(k) = IF S = {} THEN Absent ELSE Newest(S).val
    BY DEF ReadMax
  <2> HIDE DEF S
  <2>. QED BY <2>1, <2>3, <2>4
<1>4. ASSUME NEW k, NEW t \in Nat, t >= low PROVE ReadAt(k, t)' = ReadAt(k, t)
  <2>. DEFINE S == {v \in versions : v.key = k /\ v.ts <= t}
  <2>1. \A u \in versions : u.key = k /\ u.ts <= low => u \in S
    BY <1>2, <1>4
  <2>2. /\ S = {} <=> S \cap versions' = {}
        /\ S # {} => Newest(S \cap versions') = Newest(S)
    BY <2>1, CompactKeeps
  <2>3. {v \in versions' : v.key = k /\ v.ts <= t} = S \cap versions'
    BY <1>1
  <2>4. ReadAt(k, t)' = IF S \cap versions' = {} THEN Absent ELSE Newest(S \cap versions').val
    BY <2>3 DEF ReadAt, Visible
  <2>5. ReadAt(k, t) = IF S = {} THEN Absent ELSE Newest(S).val
    BY DEF ReadAt, Visible
  <2> HIDE DEF S
  <2>. QED BY <2>2, <2>4, <2>5
<1>5. \A t \in Nat : \A tip, mp : Tells(t, tip, mp) => Tells(t, tip, mp)'
  BY <1>1, <1>4 DEF Tells, InfoKey
<1>6. \A t : Past(t)' <=> Past(t)
  BY <1>1 DEF Past, AsU64
<1>7. ClockInv' /\ Ordered(versions')
  BY <1>1 DEF IInv, ClockInv, Ordered
<1>8. \A v \in versions' : Past(v.ts)'
  BY <1>1, <1>6 DEF IInv
<1>9. LatestInv'
  BY <1>1, <1>3 DEF IInv, LatestInv
<1>10. StampInv'
  BY <1>1, <1>2, <1>5 DEF IInv, StampInv, StampKey
<1>11. ReqInv'
  BY <1>1, <1>5, <1>6 DEF IInv, ReqInv
<1>12. LowInv'
  BY <1>1 DEF IInv, LowInv, AsU64
<1>. QED BY <1>7, <1>8, <1>9, <1>10, <1>11, <1>12 DEF IInv

\* A restart keeps the invariant: the flushed commits are a prefix, so that what
\* is read as of one of them stays, and the second has changed since the last.
LEMMA RestartStep ==
  ASSUME SteadyClock, IInv, BaseInv', Restart
  PROVE  IInv'
<1>. DEFINE kept == {v \in versions : v.seq <= flushed}
<1>1. /\ versions' = kept /\ prev' = Absent /\ req' = Idle
      /\ UNCHANGED <<now, seq, flushed, low>>
      /\ prev # Absent /\ prev.physical < now
      /\ latest' = [k \in Key |->
                      LET S == {v \in kept : v.key = k} IN
                      IF S = {} THEN Absent
                      ELSE (CHOOSE v \in S : \A u \in S : u.seq <= v.seq).val]
  BY DEF Restart, SteadyClock
<1>2. /\ seq \in Nat /\ Numbered(versions, seq) /\ Ordered(versions)
      /\ flushed \in Nat /\ now \in Nat /\ low \in Nat
  BY DEF IInv, BaseInv, Bounded, Numbered
<1>3. kept \subseteq versions
  OBVIOUS
<1>4. Ordered(versions') /\ Numbered(kept, seq)
  BY <1>1, <1>2, <1>3 DEF Ordered, Numbered
<1>5. (\A v \in versions' : Past(v.ts)') /\ LowInv'
  <2>1. \A v \in versions' : v.ts \in Nat /\ v.ts <= AsU64(prev)
    BY <1>1, <1>2, <1>3 DEF IInv, Past, Numbered
  <2>2. /\ prev.physical \in Nat /\ prev.logical \in Nat /\ prev.logical < LogicalSpan
        /\ LogicalSpan \in Nat
    BY <1>1, SpanAssumption DEF IInv, BaseInv, ClockInv, Timestamp
  <2>3. /\ prev.physical * LogicalSpan \in Nat /\ now * LogicalSpan \in Nat
        /\ prev.physical * LogicalSpan + LogicalSpan <= now * LogicalSpan
    BY <1>1, <1>2, <2>2, SecondsApart
  <2>4. AsU64(prev) = prev.physical * LogicalSpan + prev.logical
    BY DEF AsU64
  <2>5. AsU64(prev) \in Nat /\ AsU64(prev) < now * LogicalSpan
    BY <2>2, <2>3, <2>4
  <2>6. low <= AsU64(prev)
    BY <1>1 DEF IInv, LowInv
  <2>7. \A v \in versions' : v.ts < now * LogicalSpan
    BY <2>1, <2>3, <2>5
  <2>8. low <= now * LogicalSpan
    BY <1>2, <2>3, <2>5, <2>6
  <2>9. now' * LogicalSpan = now * LogicalSpan /\ prev' = Absent /\ low' = low
    BY <1>1
  <2>. QED BY <2>7, <2>8, <2>9 DEF Past, LowInv
<1>6. LatestInv'
  <2> SUFFICES ASSUME NEW k \in Key PROVE latest'[k] = ReadMax(k)'
    BY DEF LatestInv
  <2>. DEFINE S == {v \in kept : v.key = k}
  <2>1. latest'[k] = IF S = {} THEN Absent
                     ELSE (CHOOSE v \in S : \A u \in S : u.seq <= v.seq).val
    BY <1>1
  <2>2. ReadMax(k)' = IF S = {} THEN Absent ELSE Newest(S).val
    BY <1>1 DEF ReadMax
  <2>3. ASSUME S # {}
        PROVE  Newest(S) = CHOOSE v \in S : \A u \in S : u.seq <= v.seq
    <3>1. Numbered(S, seq) /\ Ordered(S) /\ OneKey(S)
      BY <1>2, <1>3, VersionsOf
    <3> HIDE DEF S
    <3>2. \E v \in S : \A u \in S : u.seq <= v.seq
      BY <1>2, <2>3, <3>1, NewestLast
    <3>3. PICK x \in S : /\ x = CHOOSE v \in S : \A u \in S : u.seq <= v.seq
                         /\ \A u \in S : u.seq <= x.seq
      BY <3>2
    <3>. QED BY <1>2, <3>1, <3>3, NewestIs
  <2> HIDE DEF S
  <2>. QED BY <2>1, <2>2, <2>3
<1>7. StampInv'
  <2> SUFFICES ASSUME NEW v \in versions', v.key \in StampKey
               PROVE  v.val.ts = v.ts /\ Tells(v.ts, v.val.tip, v.key = "mempool")'
    BY DEF StampInv, StampKey
  <2>1. v \in versions /\ v.seq <= flushed /\ v.ts \in Nat
    BY <1>1, <1>2 DEF Numbered
  <2>2. \A u \in versions : u.ts <= v.ts => u.seq <= flushed
    BY <1>2, <2>1 DEF Numbered, Ordered
  <2>3. {u \in versions' : u.key = InfoKey /\ u.ts <= v.ts}
          = {u \in versions : u.key = InfoKey /\ u.ts <= v.ts}
    BY <1>1, <2>2
  <2>4. ReadAt(InfoKey, v.ts)' = ReadAt(InfoKey, v.ts)
    BY <2>3 DEF ReadAt, Visible, InfoKey
  <2>. QED BY <1>1, <2>1, <2>4 DEF Tells, IInv, StampInv, InfoKey
<1>8. ClockInv' /\ ReqInv'
  BY <1>1 DEF ClockInv, ReqInv, Idle
<1>. QED BY <1>4, <1>5, <1>6, <1>7, <1>8 DEF IInv

----------------------------------------------------------------------------
(* The other steps.                                                        *)

\* Steps that leave the store and the clock of the process alone.
LEMMA SameReads ==
  ASSUME UNCHANGED <<versions, low>>
  PROVE  /\ \A k : ReadMax(k)' = ReadMax(k)
         /\ \A t, tip, mp : Tells(t, tip, mp)' <=> Tells(t, tip, mp)
BY DEF ReadMax, Tells, ReadAt, Visible, InfoKey

\* The three kinds of batch.
LEMMA CommitStep ==
  ASSUME IInv, BaseInv', NEW S \in SUBSET DataKey, NEW tip,
         \/ ApplyConfirmed(S, tip)
         \/ ApplyMempool(S)
         \/ Rollback(S, tip)
  PROVE  IInv'
<1>1. ASSUME NEW kind \in StampKey, NEW h
      PROVE  SaysSo(Stamped(S, kind, h), AsU64(CommitTs))
  <2>. DEFINE w == Stamped(S, kind, h)
  <2>1. /\ DOMAIN w = S \cup {InfoKey, kind}
        /\ w[kind] = [tip |-> h, ts |-> AsU64(CommitTs)]
        /\ w[InfoKey] = [tip |-> h, mempool |-> kind = "mempool"]
    BY StampedFacts
  <2>2. DOMAIN w \cap StampKey = {kind}
    BY <2>1, KeyAssumption DEF StampKey, InfoKey
  <2> HIDE DEF w
  <2>3. SaysSo(w, AsU64(CommitTs))
    BY <2>1, <2>2 DEF SaysSo
  <2>. QED BY <2>3 DEF w
<1>2. CASE ApplyConfirmed(S, tip)
  <2>1. Write(Stamped(S, "confirmed", tip)) /\ prev' = CommitTs
    BY <1>2 DEF ApplyConfirmed
  <2>2. low' >= low /\ (low' = low \/ low' = AsU64(CommitTs))
    BY <1>2, ApplyConfirmedBase DEF IInv, ApplyConfirmed, Watermark
  <2>3. SaysSo(Stamped(S, "confirmed", tip), AsU64(CommitTs))
    BY <1>1 DEF StampKey
  <2>. QED BY <2>1, <2>2, <2>3, WriteStep
<1>3. CASE ApplyMempool(S)
  <2>1. /\ Write(Stamped(S, "mempool", latest[InfoKey].tip)) /\ prev' = CommitTs
        /\ low' = low /\ low \in Nat
    BY <1>3 DEF ApplyMempool, IInv, BaseInv
  <2>2. SaysSo(Stamped(S, "mempool", latest[InfoKey].tip), AsU64(CommitTs))
    BY <1>1 DEF StampKey
  <2>. QED BY <2>1, <2>2, WriteStep
<1>4. CASE Rollback(S, tip)
  <2>. DEFINE w == Writes(S, [tip |-> tip, mempool |-> FALSE])
  <2>1. Write(w) /\ prev' = CommitTs /\ low' = low /\ low \in Nat
    BY <1>4 DEF Rollback, IInv, BaseInv
  <2>2. DOMAIN w = S \cup {InfoKey}
    BY WritesFacts
  <2>3. DOMAIN w \cap StampKey = {}
    BY <2>2, KeyAssumption DEF StampKey, InfoKey
  <2> HIDE DEF w
  <2>4. SaysSo(w, AsU64(CommitTs))
    BY <2>3 DEF SaysSo
  <2>. QED BY <2>1, <2>4, WriteStep
<1>. QED BY <1>2, <1>3, <1>4

\* A second passes: what was past stays past.
LEMMA ClockStep ==
  ASSUME SteadyClock, IInv, BaseInv', Clock
  PROVE  IInv'
<1>1. /\ now \in Nat /\ now' \in Nat /\ now' > now
      /\ UNCHANGED <<prev, seq, versions, flushed, low, req, latest>>
  BY BoundAssumption DEF Clock, SteadyClock, IInv, BaseInv
<1>2. now * LogicalSpan \in Nat /\ now' * LogicalSpan \in Nat
      /\ now * LogicalSpan + LogicalSpan <= now' * LogicalSpan
  BY <1>1, SecondsApart
<1>3. \A t \in Nat : Past(t) => Past(t)'
  <2>1. now * LogicalSpan < now' * LogicalSpan
    BY <1>2, SpanAssumption
  <2>2. \A t \in Nat : t < now * LogicalSpan => t < now' * LogicalSpan
    <3>. DEFINE x == now * LogicalSpan
                y == now' * LogicalSpan
    <3>1. x \in Nat /\ y \in Nat /\ x < y
      BY <1>2, <2>1
    <3> HIDE DEF x, y
    <3>2. \A t \in Nat : t < x => t < y
      BY <3>1
    <3>. QED BY <3>2 DEF x, y
  <2>3. AsU64(prev)' = AsU64(prev) /\ prev' = prev
    BY <1>1 DEF AsU64
  <2>. QED BY <2>2, <2>3, Zenon DEF Past
<1>4. ClockInv'
  BY <1>1 DEF IInv, ClockInv, BaseInv, Timestamp
<1>5. Ordered(versions') /\ \A v \in versions' : Past(v.ts)'
  BY <1>1, <1>3 DEF IInv, BaseInv, Bounded
<1>6. LatestInv' /\ StampInv'
  BY <1>1, SameReads DEF IInv, LatestInv, StampInv
<1>7. ReqInv'
  BY <1>1, <1>3, SameReads DEF IInv, ReqInv
<1>8. LowInv'
  <2>1. CASE prev = Absent
    <3>1. low \in Nat /\ low <= now * LogicalSpan
      BY <2>1 DEF IInv, LowInv, BaseInv
    <3>2. low <= now' * LogicalSpan
      BY <1>2, <3>1, SpanAssumption
    <3>. QED BY <1>1, <2>1, <3>2 DEF LowInv
  <2>2. CASE prev # Absent
    <3>1. low <= AsU64(prev) /\ AsU64(prev)' = AsU64(prev)
      BY <1>1, <2>2 DEF IInv, LowInv, AsU64
    <3>. QED BY <1>1, <2>2, <3>1 DEF LowInv
  <2>. QED BY <2>1, <2>2
<1>. QED BY <1>4, <1>5, <1>6, <1>7, <1>8 DEF IInv

\* Steps that change the request at most.
LEMMA RequestStep ==
  ASSUME IInv, BaseInv', ReqInv', UNCHANGED <<now, prev, seq, versions, low, latest>>
  PROVE  IInv'
<1>1. ClockInv' /\ LowInv' /\ Ordered(versions')
  BY DEF IInv, ClockInv, LowInv, AsU64
<1>2. \A v \in versions' : Past(v.ts)'
  BY DEF IInv, Past, AsU64
<1>3. LatestInv' /\ StampInv'
  BY SameReads DEF IInv, LatestInv, StampInv
<1>. QED BY <1>1, <1>2, <1>3 DEF IInv

\* An entry a request finds says what was committed with it.
LEMMA EntryFound ==
  ASSUME IInv, NEW kind \in StampKey, ReadMax(kind) # Absent
  PROVE  /\ ReadMax(kind).ts \in Nat /\ Past(ReadMax(kind).ts)
         /\ Tells(ReadMax(kind).ts, ReadMax(kind).tip, kind = "mempool")
<1>1. PICK v \in versions : v.key = kind /\ ReadMax(kind) = v.val
  BY ReadMaxFound DEF IInv, BaseInv
<1>2. v.val.ts = v.ts /\ Tells(v.ts, v.val.tip, v.key = "mempool")
  BY <1>1 DEF IInv, StampInv
<1>3. v.ts \in Nat /\ Past(v.ts)
  BY DEF IInv, BaseInv, Bounded
<1>. QED BY <1>1, <1>2, <1>3

\* Every step keeps the invariant.
LEMMA NextIInv ==
  ASSUME SteadyClock, IInv, [Next]_vars
  PROVE  IInv'
<1>1. BaseInv'
  BY NextBase DEF IInv
<1>2. ASSUME NEW S \in SUBSET DataKey, NEW tip \in Hash,
             ApplyConfirmed(S, tip) \/ Rollback(S, tip)
      PROVE  IInv'
  BY <1>1, <1>2, CommitStep
<1>3. ASSUME NEW S \in SUBSET DataKey, ApplyMempool(S)
      PROVE  IInv'
  BY <1>1, <1>3, CommitStep
<1>4. ASSUME UNCHANGED <<now, prev, low, versions>> PROVE /\ \A t : Past(t)' <=> Past(t)
                        /\ \A t, tip, mp : Tells(t, tip, mp)' <=> Tells(t, tip, mp)
  BY <1>4, SameReads DEF Past, AsU64
<1>5. CASE Flush
  <2>1. UNCHANGED <<now, prev, seq, versions, low, req, latest>>
    BY <1>5 DEF Flush
  <2>2. ReqInv'
    BY <1>4, <2>1 DEF IInv, ReqInv
  <2>. QED BY <1>1, <2>1, <2>2, RequestStep
<1>6. CASE Compact
  BY <1>1, <1>6, CompactStep
<1>7. CASE Restart
  BY <1>1, <1>7, RestartStep
<1>8. CASE Clock
  BY <1>1, <1>8, ClockStep
<1>9. ASSUME NEW mempool \in BOOLEAN, ReadConfirmed(mempool)
      PROVE  IInv'
  <2>. DEFINE c == ReadMax("confirmed")
  <2>1. /\ UNCHANGED <<now, prev, seq, versions, low, latest>>
        /\ c # Absent
        /\ req' = IF mempool THEN [phase |-> "confirmed", point |-> c]
                  ELSE Reading(c.ts, c, FALSE)
    BY <1>9 DEF ReadConfirmed
  <2>2. c.ts \in Nat /\ Past(c.ts) /\ Tells(c.ts, c.tip, FALSE)
    <3>1. ("confirmed" = "mempool") = FALSE
      OBVIOUS
    <3>. QED BY <2>1, <3>1, EntryFound DEF StampKey
  <2>3. PICK x : x = c
    OBVIOUS
  <2>4. x.ts \in Nat /\ Past(x.ts)' /\ Tells(x.ts, x.tip, FALSE)'
    BY <1>4, <2>1, <2>2, <2>3
  <2>5. CASE mempool
    <3>1. req'.phase = "confirmed" /\ req'.point = x
      BY <2>1, <2>3, <2>5
    <3>. QED BY <1>1, <2>1, <2>4, <3>1, RequestStep DEF ReqInv
  <2>6. CASE ~mempool
    <3>1. req'.phase = "reading" /\ req'.ts = x.ts /\ req'.tip = x.tip
          /\ req'.mempool = FALSE
      BY <2>1, <2>3, <2>6 DEF Reading
    <3>. QED BY <1>1, <2>1, <2>4, <3>1, RequestStep DEF ReqInv
  <2>. QED BY <2>5, <2>6
<1>10. CASE ReadMempool
  <2>1. /\ UNCHANGED <<now, prev, seq, versions, low, latest>>
        /\ req.phase = "confirmed"
        /\ req' = IF Chained(ReadMax("mempool"), req.point)
                  THEN Reading(ReadMax("mempool").ts, req.point, TRUE)
                  ELSE Reading(req.point.ts, req.point, FALSE)
    BY <1>10 DEF ReadMempool
  <2>2. PICK x, c : x = ReadMax("mempool") /\ c = req.point
    OBVIOUS
  <2>3. CASE Chained(x, c)
    <3>1. x # Absent /\ x.tip = c.tip
      BY <2>3 DEF Chained
    <3>2. ("mempool" = "mempool") = TRUE
      OBVIOUS
    <3>3. x.ts \in Nat /\ Past(x.ts) /\ Tells(x.ts, x.tip, TRUE)
      BY <2>2, <3>1, <3>2, EntryFound DEF StampKey
    <3>4. Past(x.ts)' /\ Tells(x.ts, x.tip, TRUE)'
      BY <1>4, <2>1, <3>3
    <3>5. req'.phase = "reading" /\ req'.ts = x.ts /\ req'.tip = x.tip
          /\ req'.mempool = TRUE
      BY <2>1, <2>2, <2>3, <3>1 DEF Reading
    <3>. QED BY <1>1, <2>1, <3>3, <3>4, <3>5, RequestStep DEF ReqInv
  <2>4. CASE ~Chained(x, c)
    <3>1. c.ts \in Nat /\ Past(c.ts) /\ Tells(c.ts, c.tip, FALSE)
      BY <2>1, <2>2 DEF IInv, ReqInv
    <3>2. Past(c.ts)' /\ Tells(c.ts, c.tip, FALSE)'
      BY <1>4, <2>1, <3>1
    <3>3. req'.phase = "reading" /\ req'.ts = c.ts /\ req'.tip = c.tip
          /\ req'.mempool = FALSE
      BY <2>1, <2>2, <2>4 DEF Reading
    <3>. QED BY <1>1, <2>1, <3>1, <3>2, <3>3, RequestStep DEF ReqInv
  <2>. QED BY <2>3, <2>4
<1>11. CASE Respond
  <2>1. UNCHANGED <<now, prev, seq, versions, low, latest>> /\ req'.phase = "idle"
    BY <1>11 DEF Respond, Idle
  <2>. QED BY <1>1, <2>1, RequestStep DEF ReqInv
<1>12. CASE UNCHANGED vars
  <2>1. UNCHANGED <<now, prev, seq, versions, low, req, latest>>
    BY <1>12 DEF vars
  <2>2. ReqInv'
    BY <1>4, <2>1 DEF IInv, ReqInv
  <2>. QED BY <1>1, <2>1, <2>2, RequestStep
<1>. QED BY <1>2, <1>3, <1>5, <1>6, <1>7, <1>8, <1>9, <1>10, <1>11, <1>12 DEF Next

\* The empty store satisfies the invariant.
LEMMA InitIInv == Init => IInv
<1> SUFFICES ASSUME Init PROVE IInv
  OBVIOUS
<1>1. BaseInv
  BY InitBase
<1>2. versions = {} /\ prev = Absent /\ req.phase = "idle" /\ latest = [k \in Key |-> Absent]
  BY DEF Init, Idle
<1>3. LatestInv
  BY <1>2 DEF LatestInv, ReadMax
<1>4. LowInv
  BY <1>2, SpanAssumption DEF LowInv, Init
<1>. QED BY <1>1, <1>2, <1>3, <1>4 DEF IInv, ClockInv, Ordered, StampInv, ReqInv

\* The invariant holds while the clock is steady.
LEMMA Invariance ==
  ASSUME SteadyClock
  PROVE  Spec => []IInv
<1>1. IInv /\ [Next]_vars => IInv'
  BY NextIInv
<1>. QED BY <1>1, InitIInv, PTL DEF Spec

----------------------------------------------------------------------------
(* The theorems.                                                           *)

\* On a steady clock every commit is stamped above everything in the store, and
\* not below the watermark, across restarts and lost commits too
\* (Timestamp::after).
THEOREM StampsIncrease ==
  ASSUME SteadyClock
  PROVE  Spec => CommitsIncrease
<1>1. ASSUME IInv, Next, seq' # seq
      PROVE  (\A v \in versions : v.ts < AsU64(prev')) /\ ~TaskRefused'
  <2>1. PICK w : Write(w) /\ prev' = CommitTs
    BY <1>1 DEF Next, ApplyConfirmed, ApplyMempool, Rollback, Flush, Compact, Restart, Clock,
           ReadConfirmed, ReadMempool, Respond
  <2>2. ASSUME NEW v \in versions PROVE v.ts < AsU64(prev')
    <3>1. v.ts \in Nat /\ Past(v.ts)
      BY <1>1, <2>2 DEF IInv, BaseInv, Bounded
    <3>. QED BY <1>1, <2>1, <3>1, CommitAbove DEF IInv
  <2>3. LowInv' /\ BaseInv'
    BY <1>1, NextIInv DEF IInv
  <2>4. prev' # Absent => low' <= AsU64(prev)' /\ low' \in Nat /\ AsU64(prev)' \in Nat
    BY <2>1, <2>3, <1>1, CommitTsType DEF LowInv, BaseInv, IInv, AsU64
  <2>. QED BY <2>2, <2>4 DEF TaskRefused
<1>2. ASSUME IInv, [Next]_vars
      PROVE  [seq' # seq => /\ \A v \in versions : v.ts < AsU64(prev')
                            /\ ~TaskRefused']_vars
  BY <1>1, <1>2, Zenon
<1>. QED BY <1>2, Invariance, PTL DEF Spec, CommitsIncrease

\* On a steady clock a task reads every key as the last commit that wrote it left
\* it: the read timestamp hides no commit, and compaction and restarts take
\* nothing of the kept store away (IndexingTask.read_ts).
THEOREM TasksReadLast ==
  ASSUME SteadyClock
  PROVE  Spec => []IndexReadsLast
<1>1. IInv => IndexReadsLast
  <2> SUFFICES ASSUME IInv, NEW k \in Key PROVE TaskReads(k) = latest[k]
    BY DEF IndexReadsLast
  <2>1. latest[k] = ReadMax(k)
    BY DEF IInv, LatestInv
  <2>2. CASE prev = Absent
    BY <2>1, <2>2 DEF TaskReads
  <2>3. CASE prev # Absent
    <3>1. \A v \in versions : v.ts <= AsU64(prev)
      BY <2>3 DEF IInv, Past
    <3>2. Visible(k, AsU64(prev)) = {v \in versions : v.key = k}
      BY <3>1 DEF Visible
    <3>. QED BY <2>1, <2>3, <3>2 DEF TaskReads, ReadAt, ReadMax
  <2>. QED BY <2>2, <2>3
<1>. QED BY <1>1, Invariance, PTL

\* On a steady clock a response is one commit's state: as long as the watermark
\* allows its timestamp, a request reads the tip it reports, with the mempool
\* estimate exactly when it reports one (AppState::start_reader).
THEOREM ResponsesAreConsistent ==
  ASSUME SteadyClock
  PROVE  Spec => []ServedConsistent
<1>1. IInv => ServedConsistent
  BY DEF IInv, ReqInv, Tells, ServedConsistent
<1>. QED BY <1>1, Invariance, PTL
=============================================================================
