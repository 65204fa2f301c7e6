----------------------------- MODULE SyncProofs -----------------------------
(***************************************************************************)
(* Theorems about IndexStage, IndexRecovery and Pipeline, for every chain, *)
(* indexer and max_rollback, in four parts:                                *)
(*   - the store, the buffer and last_processed belong to one chain;       *)
(*   - the persistent rollback buffer: the rows of RollbackBufferKV are    *)
(*     those of the newest entries of the buffer in memory, and neither    *)
(*     loses an entry that max_rollback asks to keep;                      *)
(*   - crashes: whatever batches a crash loses, the store it leaves can be *)
(*     opened, and the process that opens it has the store, the buffer and *)
(*     last_processed of one chain;                                        *)
(*   - the pipeline: it implements IndexRecovery, so that what is proved   *)
(*     there of any events holds of those the pull stage sends, and what   *)
(*     the pull stage sends fits what the index stage holds.               *)
(***************************************************************************)
EXTENDS Pipeline, NatOrder, TLAPS, FiniteSetTheorems

\* Oldest, the greatest index of a non-empty set of buffer positions, exists.
LEMMA OldestExists ==
  ASSUME NEW n \in Nat, NEW S, S \subseteq 1..n, S # {}
  PROVE  Oldest(S) \in S /\ \A j \in S : j <= Oldest(S)
<1>1. S \subseteq 0..n
  OBVIOUS
<1>2. \E i \in S : \A j \in S : j <= i
  BY <1>1, GreatestNat, Zenon
<1>. QED BY <1>2, Zenon DEF Oldest

(***************************************************************************)
(* The buffer's operations, on a sequence b of entries.                    *)
(***************************************************************************)

\* Draining the n newest entries shifts the rest (rollback_to_point).
LEMMA KeptFacts ==
  ASSUME NEW E, NEW b \in Seq(E), NEW n \in 0..Len(b)
  PROVE  /\ Kept(b, n) \in Seq(E)
         /\ Len(Kept(b, n)) = Len(b) - n
         /\ \A i \in 1..(Len(b) - n) : Kept(b, n)[i] = b[i + n]
BY DEF Kept

Pushed(a, b, e, size) ==
  /\ Len(a) = IF Len(b) + 1 > size THEN size ELSE Len(b) + 1
  /\ a[1] = e
  /\ \A i \in 2..Len(a) : a[i] = b[i - 1]

\* add_block puts its entry first and keeps a prefix of the others.
LEMMA AddBlockFacts ==
  ASSUME NEW E, NEW b \in Seq(E), NEW p, NEW kvs, NEW size \in Nat \ {0},
         [point |-> p, kvs |-> kvs] \in E
  PROVE  /\ AddBlock(b, p, kvs, size) \in Seq(E)
         /\ Pushed(AddBlock(b, p, kvs, size), b, [point |-> p, kvs |-> kvs], size)
<1>. DEFINE e == [point |-> p, kvs |-> kvs]
            all == <<e>> \o b
            m == IF Len(all) > size THEN size ELSE Len(all)
<1>1. all \in Seq(E) /\ Len(all) = Len(b) + 1
  OBVIOUS
<1>2. all[1] = e /\ \A i \in 2..Len(all) : all[i] = b[i - 1]
  OBVIOUS
<1>3. m \in 1..Len(all)
  BY <1>1
<1>4. AddBlock(b, p, kvs, size) = SubSeq(all, 1, m)
  BY DEF AddBlock
<1> HIDE DEF all, m
<1>5. /\ SubSeq(all, 1, m) \in Seq(E)
      /\ Len(SubSeq(all, 1, m)) = m
      /\ \A i \in 1..m : SubSeq(all, 1, m)[i] = all[i]
  BY <1>1, <1>3
<1>. QED BY <1>1, <1>2, <1>3, <1>4, <1>5 DEF m, Pushed

\* position finds a point of a buffer; it is the only place of that point when
\* no two entries have the same point.
LEMMA PositionFacts ==
  ASSUME NEW E, NEW b \in Seq(E), NEW p, InBuffer(b, p)
  PROVE  /\ Position(b, p) \in 1..Len(b)
         /\ b[Position(b, p)].point = p
         /\ \A j \in 1..(Position(b, p) - 1) : b[j].point # p
<1>. DEFINE T == {i \in 1..Len(b) : b[i].point = p}
<1>1. T \subseteq Nat /\ T # {}
  BY DEF InBuffer
<1>2. PICK x \in T : \A y \in T : x <= y
  BY <1>1, LeastNat
<1>3. \A j \in 1..(x - 1) : b[j].point # p
  BY <1>2
<1>4. x \in 1..Len(b) /\ b[x].point = p
  BY <1>2
<1>5. \E i \in 1..Len(b) : b[i].point = p /\ \A j \in 1..(i-1) : b[j].point # p
  BY <1>3, <1>4
<1>. QED BY <1>5, Zenon DEF Position

(***************************************************************************)
(* The inductive invariant, over a store d, a buffer b, a tip l and the    *)
(* flag mp.                                                                *)
(***************************************************************************)

Kvs == {f \in UNION {[S -> Value] : S \in SUBSET Key} : WellTyped(f)}

Entry == [point : BufferPoint, kvs : Kvs]

\* The store as it was when entry i was the newest.
EntryState(d, b, mp, i) == IF mp /\ i = 1 THEN d ELSE StateAt[b[i].point.hash]

Typed(d, b, l, mp) ==
  /\ d \in DB
  /\ b \in Seq(Entry)
  /\ Len(b) <= Capacity
  /\ l \in Point
  /\ l = PointOf(l.hash)
  /\ mp \in BOOLEAN

Chained(b, l, mp) ==
  LET first == IF mp THEN 2 ELSE 1 IN
  /\ mp => Len(b) >= 2 /\ b[1].point = MempoolPoint(l.hash)
  /\ Len(b) >= first => b[first].point = l
  /\ \A i \in first..Len(b) : b[i].point = PointOf(b[i].point.hash)
  /\ \A i \in first..(Len(b) - 1) : Prev[b[i].point.hash] = b[i + 1].point.hash

\* Heights decrease along the buffer, so a point has one position.
Descending(b) ==
  \A i, j \in 1..Len(b) : i < j => b[i].point.height > b[j].point.height

\* An entry holds the values of the state just before it.
OriginalsExact(d, b, mp) ==
  \A i \in 1..(Len(b) - 1) : \A k \in DOMAIN b[i].kvs :
    b[i].kvs[k] = EntryState(d, b, mp, i + 1)[k]

\* A key that no entry from i down to before j touched has the same value in
\* the states of i and of j.  It is stated for every pair because a rollback
\* skips several entries in one step.
UntouchedEqual(d, b, mp) ==
  \A i, j \in 1..Len(b) : i <= j =>
    \A k \in Key : (\A m \in i..(j - 1) : k \notin DOMAIN b[m].kvs) =>
      EntryState(d, b, mp, i)[k] = EntryState(d, b, mp, j)[k]

Overlay(d, l) ==
  \E s \in Snapshot :
    d = Applied(StateAt[l.hash], MempoolWrites(s, l, StateAt[l.hash]))

Good(d, b, l, mp) ==
  /\ Typed(d, b, l, mp)
  /\ Chained(b, l, mp)
  /\ Descending(b)
  /\ OriginalsExact(d, b, mp)
  /\ UntouchedEqual(d, b, mp)
  /\ ~mp => d = StateAt[l.hash]
  /\ mp => Overlay(d, l)

IInv ==
  /\ Good(db, buf, last, processedMempool)
  /\ \A r \in rbTable : r \in Row
  /\ stamps \in [confirmed : Stamp, mempool : Stamp]
  /\ mutable \in BOOLEAN
  /\ status \in {"running", "panicked", "done"}
  /\ buf # <<>> => mutable

(***************************************************************************)
(* Types of what a task writes and records.                                *)
(***************************************************************************)

\* A well-typed write set gives a well-typed store and well-typed originals.
LEMMA WritesTyped ==
  ASSUME NEW d \in DB, NEW w, WellTyped(w)
  PROVE  /\ Applied(d, w) \in DB
         /\ Originals(d, w) \in Kvs
<1>1. DOMAIN w \subseteq Key /\ \A k \in DOMAIN w : w[k] \in ValueOf(k)
  BY DEF WellTyped
<1>2. \A k \in Key : d[k] \in ValueOf(k)
  BY DEF DB
<1>3. \A k \in Key : ValueOf(k) \subseteq Value
  BY DEF ValueOf, Value
<1>4. Applied(d, w) \in DB
  BY <1>1, <1>2, <1>3 DEF Applied, DB
<1>5. Originals(d, w) \in [DOMAIN w -> Value]
  BY <1>1, <1>2, <1>3 DEF Originals
<1>6. Originals(d, w) \in UNION {[S -> Value] : S \in SUBSET Key}
  BY <1>1, <1>5
<1>7. WellTyped(Originals(d, w))
  BY <1>1, <1>2 DEF Originals, WellTyped
<1>. QED BY <1>4, <1>6, <1>7 DEF Kvs

\* The indexers are given a view of the data tables (DataOf).
LEMMA ViewTyped ==
  ASSUME NEW d \in DB
  PROVE  DataOf(d) \in DataView
<1>1. \A k \in DataKey : k \in Key /\ d[k] \in DataVal \cup {Absent}
  BY DEF DB, Key, ValueOf
<1>. QED BY <1>1 DEF DataOf, DataView

\* The indexers' writes, with the indexer info, are values their keys may hold.
LEMMA WithInfoTyped ==
  ASSUME NEW w \in DataWrites, NEW info \in Info
  PROVE  WellTyped(WithInfo(w, info))
<1>1. PICK S \in SUBSET DataKey : w \in [S -> DataVal \cup {Absent}]
  BY DEF DataWrites
<1>2. DOMAIN WithInfo(w, info) = S \cup {InfoKey}
  BY <1>1 DEF WithInfo
<1>3. InfoKey \in Key /\ InfoKey \notin DataKey
  BY KeyAssumption DEF Key
<1>4. ASSUME NEW k \in S \cup {InfoKey} PROVE WithInfo(w, info)[k] \in ValueOf(k)
  <2>1. CASE k = InfoKey
    BY <1>1, <1>3, <2>1 DEF WithInfo, ValueOf
  <2>2. CASE k # InfoKey
    BY <1>1, <2>2 DEF WithInfo, ValueOf
  <2>. QED BY <2>1, <2>2
<1>. QED BY <1>2, <1>3, <1>4 DEF WellTyped, Key

\* A block's write buffer is well typed.
LEMMA BlockWritesTyped ==
  ASSUME NEW d \in DB, NEW p \in Point
  PROVE  WellTyped(BlockWrites(p, d))
<1>. DEFINE info == [height |-> p.height, hash |-> p.hash, mempool |-> FALSE]
            w == WithInfo(Indexed(p.hash, DataOf(d)), info)
<1>1. p.hash \in Block /\ p.height \in BlockHeight /\ p.height \in Nat
  BY ChainAssumption DEF Point, BlockHeight
<1>2. Indexed(p.hash, DataOf(d)) \in DataWrites
  BY <1>1, ViewTyped, IndexerAssumption
<1>3. info \in Info
  BY <1>1 DEF Info
<1>4. WellTyped(w)
  BY <1>2, <1>3, WithInfoTyped
<1>5. BlockWrites(p, d) = [k \in DOMAIN w \cup {HashKey(p.height)} |->
                            IF k = HashKey(p.height) THEN p.hash ELSE w[k]]
  BY DEF BlockWrites
<1> HIDE DEF w, info
<1>6. HashKey(p.height) \in Key /\ HashKey(p.height) \notin DataKey
  BY <1>1, KeyAssumption DEF Key
<1>7. HashKey(p.height) # InfoKey
  BY DEF HashKey, InfoKey
<1>8. p.hash \in ValueOf(HashKey(p.height))
  BY <1>1, <1>6, <1>7 DEF ValueOf
<1>. QED BY <1>4, <1>5, <1>6, <1>8 DEF WellTyped

\* A snapshot's write buffer is well typed.
LEMMA MempoolWritesTyped ==
  ASSUME NEW d \in DB, NEW p \in Point, NEW s \in Snapshot
  PROVE  WellTyped(MempoolWrites(s, p, d))
<1>1. p.hash \in Block /\ p.height \in Nat
  BY ChainAssumption DEF Point, BlockHeight
<1>2. MempoolIndexed(s, DataOf(d)) \in DataWrites
  BY ViewTyped, IndexerAssumption
<1>3. [height |-> p.height + 1, hash |-> p.hash, mempool |-> TRUE] \in Info
  BY <1>1 DEF Info
<1>. QED BY <1>2, <1>3, WithInfoTyped DEF MempoolWrites

(***************************************************************************)
(* Each way the stage changes its store and buffer keeps Good.             *)
(***************************************************************************)

(***************************************************************************)
(* The recursive definitions along the chain.                              *)
(***************************************************************************)

\* Blocks form a tree by Prev.
LEMMA ChainIsTree == Tree(Block, Genesis, Prev, Height)
BY ChainAssumption DEF Tree

\* StateAt satisfies its own equation, at every height.
LEMMA StateAtSteps ==
  /\ StateAt \in [Block -> DB]
  /\ StateAt[Genesis] = EmptyDb
  /\ \A b \in Block \ {Genesis} :
       StateAt[b] = Applied(StateAt[Prev[b]], BlockWrites(PointOf(b), StateAt[Prev[b]]))
<1>. DEFINE Made(b, d) == Applied(d, BlockWrites(PointOf(b), d))
            g == [b \in Block |-> [d \in DB |-> Made(b, d)]]
            Body(f) == [b \in Block |-> IF b = Genesis THEN EmptyDb ELSE Made(b, f[Prev[b]])]
<1>1. EmptyDb \in DB
  BY DEF EmptyDb, DB, Value, ValueOf
<1>2. ASSUME NEW b \in Block, NEW d \in DB PROVE Made(b, d) \in DB
  <2>1. PointOf(b) \in Point
    BY ChainAssumption DEF PointOf, Point, BlockHeight
  <2>. QED BY <2>1, BlockWritesTyped, WritesTyped
<1>. HIDE DEF Made
<1>3. g \in [Block -> [DB -> DB]]
  BY <1>2
<1>4. PICK f : Recursion(f, Block, Genesis, Prev, DB, EmptyDb, g)
  <2>. HIDE DEF g
  <2>. QED BY <1>1, <1>3, ChainIsTree, TreeRecursion
<1>5. f = Body(f)
  <2>1. ASSUME NEW b \in Block PROVE f[b] = Body(f)[b]
    <3>1. b # Genesis => f[Prev[b]] \in DB
      BY <1>4, ChainAssumption DEF Recursion
    <3>. QED BY <1>4, <3>1 DEF Recursion
  <2>2. f = [b \in Block |-> f[b]] /\ Body(f) = [b \in Block |-> Body(f)[b]]
    BY <1>4 DEF Recursion
  <2>. HIDE DEF Body
  <2>. QED BY <2>1, <2>2
<1>6. StateAt = CHOOSE e : e = Body(e)
  BY Zenon DEF StateAt, Made
<1>7. StateAt = Body(StateAt)
  <2>. HIDE DEF Body
  <2>. QED BY <1>5, <1>6, Zenon
<1>8. \A b \in Block : StateAt[b] = IF b = Genesis THEN EmptyDb ELSE Made(b, StateAt[Prev[b]])
  BY <1>7
<1>9. ASSUME NEW a \in Block PROVE StateAt[a] \in DB
  <2>. SUFFICES ASSUME StateAt[a] \notin DB PROVE FALSE
    OBVIOUS
  <2>. DEFINE D == {b \in Block : StateAt[b] \notin DB}
              T == {Height[b] : b \in D}
  <2>1. T \subseteq Nat /\ T # {}
    BY ChainAssumption
  <2>2. PICK h \in T : \A y \in T : h <= y
    <3>. HIDE DEF T
    <3>. QED BY <2>1, LeastNat
  <2>3. PICK b \in D : Height[b] = h
    BY <2>2
  <2>4. b \in Block /\ StateAt[b] \notin DB /\ b # Genesis
    BY <1>1, <1>8, <2>3
  <2>5. /\ Prev[b] \in Block /\ Height[b] = Height[Prev[b]] + 1
        /\ Height[b] \in Nat /\ Height[Prev[b]] \in Nat
    BY <2>4, ChainAssumption
  <2>6. Prev[b] \notin D
    BY <2>2, <2>3, <2>5
  <2>7. StateAt[Prev[b]] \in DB
    BY <2>5, <2>6
  <2>. QED BY <1>2, <1>8, <2>4, <2>7
<1>10. DOMAIN StateAt = Block /\ StateAt = [b \in Block |-> StateAt[b]]
  BY <1>7
<1>. QED BY <1>8, <1>9, <1>10, ChainAssumption DEF Made

\* So does Ancestors.
LEMMA AncestorsSteps ==
  /\ Ancestors[Genesis] = {Genesis}
  /\ \A b \in Block \ {Genesis} : Ancestors[b] = {b} \cup Ancestors[Prev[b]]
<1>. DEFINE g == [b \in Block |-> [a \in SUBSET Block |-> {b} \cup a]]
            Body(f) == [b \in Block |-> IF b = Genesis THEN {b} ELSE {b} \cup f[Prev[b]]]
<1>1. g \in [Block -> [SUBSET Block -> SUBSET Block]] /\ {Genesis} \in SUBSET Block
  BY ChainAssumption
<1>2. PICK f : Recursion(f, Block, Genesis, Prev, SUBSET Block, {Genesis}, g)
  <2>. HIDE DEF g
  <2>. QED BY <1>1, ChainIsTree, TreeRecursion
<1>3. f = Body(f)
  <2>1. ASSUME NEW b \in Block PROVE f[b] = Body(f)[b]
    <3>1. b # Genesis => f[Prev[b]] \in SUBSET Block
      BY <1>2, ChainAssumption DEF Recursion
    <3>. QED BY <1>2, <3>1 DEF Recursion
  <2>2. f = [b \in Block |-> f[b]] /\ Body(f) = [b \in Block |-> Body(f)[b]]
    BY <1>2 DEF Recursion
  <2>. HIDE DEF Body
  <2>. QED BY <2>1, <2>2
<1>4. Ancestors = CHOOSE e : e = Body(e)
  BY Zenon DEF Ancestors
<1>5. Ancestors = Body(Ancestors)
  <2>. HIDE DEF Body
  <2>. QED BY <1>3, <1>4, Zenon
<1>. QED BY <1>5, ChainAssumption

(***************************************************************************)
(* Undoing the newest n entries gives exactly the state of entry n + 1.    *)
(***************************************************************************)

\* Undoing the entries above a confirmed one restores the state of its block
\* exactly: the key lemma behind RollbackIsExact.
LEMMA UndoneIsEntryState ==
  ASSUME NEW d, NEW b, NEW l, NEW mp, Good(d, b, l, mp),
         NEW n \in 0..(Len(b) - 1), b[n + 1].point \in Point
  PROVE  Undone(d, b, n) = StateAt[b[n + 1].point.hash]
<1>. USE DEF Good
<1>1. b \in Seq(Entry) /\ Len(b) \in Nat /\ DOMAIN d = Key
  BY DEF Typed, DB
<1>2. ~(mp /\ n + 1 = 1)
  BY BoundAssumption DEF Chained, Point, MempoolPoint, BlockHeight
<1>3. EntryState(d, b, mp, n + 1) = StateAt[b[n + 1].point.hash]
  BY <1>2 DEF EntryState
<1>4. EntryState(d, b, mp, 1) = d
  BY <1>1 DEF EntryState, Chained, Typed
<1>5. ASSUME NEW k \in Key
      PROVE  Undone(d, b, n)[k] = EntryState(d, b, mp, n + 1)[k]
  <2>1. CASE Touching(b, n, k) = {}
    <3>1. \A m \in 1..((n + 1) - 1) : k \notin DOMAIN b[m].kvs
      BY <2>1 DEF Touching
    <3>2. EntryState(d, b, mp, 1)[k] = EntryState(d, b, mp, n + 1)[k]
      BY <1>1, <3>1 DEF UntouchedEqual
    <3>3. Undone(d, b, n)[k] = d[k]
      BY <1>1, <2>1 DEF Undone
    <3>. QED BY <1>4, <3>2, <3>3
  <2>2. CASE Touching(b, n, k) # {}
    <3>. DEFINE m == Oldest(Touching(b, n, k))
    <3>1. Touching(b, n, k) \subseteq 1..n
      BY DEF Touching
    <3>2. m \in Touching(b, n, k) /\ \A j \in Touching(b, n, k) : j <= m
      BY <1>1, <2>2, <3>1, OldestExists
    <3>3. m \in 1..n /\ k \in DOMAIN b[m].kvs
      BY <3>2 DEF Touching
    <3>4. Undone(d, b, n)[k] = b[m].kvs[k]
      BY <1>1, <2>2 DEF Undone
    <3> HIDE DEF m
    <3>5. b[m].kvs[k] = EntryState(d, b, mp, m + 1)[k]
      BY <1>1, <3>3 DEF OriginalsExact
    <3>6. \A j \in (m + 1)..((n + 1) - 1) : k \notin DOMAIN b[j].kvs
      BY <1>1, <3>2, <3>3 DEF Touching
    <3>7. EntryState(d, b, mp, m + 1)[k] = EntryState(d, b, mp, n + 1)[k]
      BY SMTT(30), <1>1, <3>3, <3>6 DEF UntouchedEqual
    <3>. QED BY <3>4, <3>5, <3>7
  <2>. QED BY <2>1, <2>2
<1>6. DOMAIN Undone(d, b, n) = Key /\ Undone(d, b, n) = [k \in Key |-> Undone(d, b, n)[k]]
  BY <1>1 DEF Undone
<1>7. StateAt[b[n + 1].point.hash] = [k \in Key |-> StateAt[b[n + 1].point.hash][k]]
  BY StateAtSteps DEF Applied, EmptyDb, Point
<1>. QED BY <1>3, <1>5, <1>6, <1>7

\* Undoing entries of a typed buffer gives a typed store.
LEMMA UndoneTyped ==
  ASSUME NEW d \in DB, NEW b \in Seq(Entry), NEW n \in 0..Len(b)
  PROVE  Undone(d, b, n) \in DB
<1>1. DOMAIN d = Key /\ \A k \in Key : d[k] \in ValueOf(k)
  BY DEF DB
<1>2. \A k \in Key : ValueOf(k) \subseteq Value
  BY DEF ValueOf, Value
<1>3. ASSUME NEW k \in Key PROVE Undone(d, b, n)[k] \in ValueOf(k)
  <2>1. CASE Touching(b, n, k) = {}
    BY <1>1, <2>1 DEF Undone
  <2>2. CASE Touching(b, n, k) # {}
    <3>. DEFINE m == Oldest(Touching(b, n, k))
    <3>0. n \in Nat /\ Touching(b, n, k) \subseteq 1..n
      BY DEF Touching
    <3>1. m \in Touching(b, n, k)
      BY <2>2, <3>0, OldestExists
    <3>2. m \in 1..Len(b) /\ k \in DOMAIN b[m].kvs
      BY <3>1 DEF Touching
    <3>3. Undone(d, b, n)[k] = b[m].kvs[k]
      BY <1>1, <2>2 DEF Undone
    <3> HIDE DEF m
    <3>4. b[m] \in Entry
      BY <3>2
    <3>. QED BY <3>2, <3>3, <3>4 DEF Entry, Kvs, WellTyped
  <2>. QED BY <2>1, <2>2
<1>4. Undone(d, b, n) = [k \in Key |-> Undone(d, b, n)[k]]
  BY <1>1 DEF Undone
<1>. QED BY <1>2, <1>3, <1>4 DEF DB

\* rollback_to_point keeps store, buffer and last_processed in agreement.
LEMMA UndoGood ==
  ASSUME NEW d, NEW b, NEW l, NEW mp, Good(d, b, l, mp),
         NEW n \in 0..(Len(b) - 1), b[n + 1].point \in Point
  PROVE  Good(Undone(d, b, n), Kept(b, n), b[n + 1].point, FALSE)
<1>. DEFINE D == Undone(d, b, n)
            B == Kept(b, n)
            p == b[n + 1].point
<1>1. b \in Seq(Entry) /\ Len(b) \in Nat /\ mp \in BOOLEAN /\ d \in DB
      /\ Len(b) <= Capacity
  BY DEF Good, Typed
<1>2. /\ B \in Seq(Entry)
      /\ Len(B) = Len(b) - n
      /\ \A i \in 1..Len(B) : B[i] = b[i + n]
  <2>1. n \in 0..Len(b)
    BY <1>1
  <2>2. /\ B \in Seq(Entry)
        /\ Len(B) = Len(b) - n
        /\ \A i \in 1..(Len(b) - n) : B[i] = b[i + n]
    BY <1>1, <2>1, KeptFacts
  <2>. QED BY <2>2
<1>3. mp => n >= 1
  BY BoundAssumption DEF Good, Chained, Point, MempoolPoint, BlockHeight
<1>4. p = PointOf(p.hash)
  BY <1>1, <1>3 DEF Good, Chained
<1>5. D = StateAt[p.hash]
  BY UndoneIsEntryState
<1>6. D \in DB
  BY <1>1, UndoneTyped
<1>7. \A i \in 1..Len(B) :
        EntryState(D, B, FALSE, i) = EntryState(d, b, mp, i + n)
  BY <1>1, <1>2, <1>3 DEF EntryState
<1> HIDE DEF D, B, p
<1>8. Capacity \in Nat
  BY BoundAssumption DEF Capacity
<1>9. Typed(D, B, p, FALSE)
  BY <1>1, <1>2, <1>4, <1>6, <1>8 DEF Typed, p
<1>10. Chained(B, p, FALSE)
  <2>1. Len(B) >= 1 => B[1].point = p
    BY <1>1, <1>2 DEF p
  <2>2. ASSUME NEW i \in 1..Len(B) PROVE B[i].point = PointOf(B[i].point.hash)
    <3>1. i + n \in (IF mp THEN 2 ELSE 1)..Len(b) /\ B[i] = b[i + n]
      BY <1>1, <1>2, <1>3
    <3>. QED BY <3>1 DEF Good, Chained
  <2>3. ASSUME NEW i \in 1..(Len(B) - 1)
        PROVE  Prev[B[i].point.hash] = B[i + 1].point.hash
    <3>1. i + n \in (IF mp THEN 2 ELSE 1)..(Len(b) - 1)
      BY <1>1, <1>2, <1>3
    <3>2. i + 1 \in 1..Len(B) /\ (i + 1) + n = (i + n) + 1
      BY <1>1, <1>2
    <3>3. B[i] = b[i + n] /\ B[i + 1] = b[(i + n) + 1]
      BY <1>2, <3>2
    <3>. QED BY <3>1, <3>3 DEF Good, Chained
  <2>. QED BY <2>1, <2>2, <2>3 DEF Chained
<1>11. Descending(B)
  <2>. SUFFICES ASSUME NEW i \in 1..Len(B), NEW j \in 1..Len(B), i < j
                PROVE  B[i].point.height > B[j].point.height
    BY DEF Descending
  <2>1. /\ i + n \in 1..Len(b) /\ j + n \in 1..Len(b) /\ i + n < j + n
        /\ B[i] = b[i + n] /\ B[j] = b[j + n]
    BY <1>1, <1>2
  <2>2. \A x, y \in 1..Len(b) : x < y => b[x].point.height > b[y].point.height
    BY DEF Good, Descending
  <2>. QED BY <2>1, <2>2
<1>12. OriginalsExact(D, B, FALSE)
  <2>. SUFFICES ASSUME NEW i \in 1..(Len(B) - 1), NEW k \in DOMAIN B[i].kvs
                PROVE  B[i].kvs[k] = EntryState(D, B, FALSE, i + 1)[k]
    BY DEF OriginalsExact
  <2>1. i + n \in 1..(Len(b) - 1) /\ B[i] = b[i + n]
    BY <1>1, <1>2
  <2>2. b[i + n].kvs[k] = EntryState(d, b, mp, (i + n) + 1)[k]
    BY <2>1 DEF Good, OriginalsExact
  <2>3. i + 1 \in 1..Len(B) /\ (i + 1) + n = (i + n) + 1
    BY SMTT(30), <1>1, <1>2
  <2>. QED BY <1>7, <2>1, <2>2, <2>3
<1>13. UntouchedEqual(D, B, FALSE)
  <2>. SUFFICES ASSUME NEW i \in 1..Len(B), NEW j \in 1..Len(B), i <= j,
                       NEW k \in Key,
                       \A m \in i..(j - 1) : k \notin DOMAIN B[m].kvs
                PROVE  EntryState(D, B, FALSE, i)[k] = EntryState(D, B, FALSE, j)[k]
    BY DEF UntouchedEqual
  <2>1. i + n \in 1..Len(b) /\ j + n \in 1..Len(b) /\ i + n <= j + n
    BY <1>1, <1>2
  <2>2. ASSUME NEW m \in (i + n)..((j + n) - 1) PROVE k \notin DOMAIN b[m].kvs
    <3>1. m - n \in i..(j - 1) /\ m - n \in 1..Len(B) /\ (m - n) + n = m
      BY SMTT(30), <1>1, <1>2
    <3>. QED BY <1>2, <3>1
  <2>3. EntryState(d, b, mp, i + n)[k] = EntryState(d, b, mp, j + n)[k]
    BY <2>1, <2>2 DEF Good, UntouchedEqual
  <2>. QED BY <1>7, <2>3
<1>. QED BY <1>5, <1>9, <1>10, <1>11, <1>12, <1>13 DEF Good, D, B, p

PushedWell(D, B, b, q, mp) ==
  /\ B \in Seq(Entry) /\ Len(B) <= Capacity
  /\ Len(B) >= 1 /\ B[1].point = q
  /\ Len(B) <= Len(b) + 1
  /\ Len(B) = Len(b) + 1 \/ Len(B) >= 2
  /\ \A i \in 2..Len(B) : B[i] = b[i - 1]
  /\ Descending(B)
  /\ OriginalsExact(D, B, mp)
  /\ UntouchedEqual(D, B, mp)

\* Pushing the entry of a task with writes w, confirmed or not, on a buffer
\* with no mempool entry keeps the parts of Good about originals.
LEMMA PushKeepsOriginals ==
  ASSUME NEW d, NEW b, NEW l, Good(d, b, l, FALSE),
         NEW w, WellTyped(w), NEW q \in BufferPoint, NEW mp \in BOOLEAN,
         NEW B, B = AddBlock(b, q, Originals(d, w), Capacity),
         EntryState(Applied(d, w), B, mp, 1) = Applied(d, w),
         \A i \in 1..Len(b) : q.height > b[i].point.height
  PROVE  PushedWell(Applied(d, w), B, b, q, mp)
<1>. DEFINE D == Applied(d, w)
            kvs == Originals(d, w)
            e == [point |-> q, kvs |-> kvs]
<1>1. /\ b \in Seq(Entry) /\ Len(b) \in Nat /\ d \in DB /\ Len(b) <= Capacity
      /\ DOMAIN d = Key
  BY DEF Good, Typed, DB
<1>2. Capacity \in Nat \ {0} /\ Capacity >= 2
  BY BoundAssumption DEF Capacity
<1>3. e \in Entry
  BY <1>1, WritesTyped DEF Entry
<1>4. /\ B \in Seq(Entry)
      /\ Len(B) = IF Len(b) + 1 > Capacity THEN Capacity ELSE Len(b) + 1
      /\ B[1] = e
      /\ \A i \in 2..Len(B) : B[i] = b[i - 1]
  <2>1. /\ AddBlock(b, q, kvs, Capacity) \in Seq(Entry)
        /\ Pushed(AddBlock(b, q, kvs, Capacity), b, e, Capacity)
    <3> HIDE DEF kvs
    <3>. QED BY <1>1, <1>2, <1>3, AddBlockFacts
  <2>2. AddBlock(b, q, kvs, Capacity) = B
    OBVIOUS
  <2>. QED BY <2>1, <2>2 DEF Pushed
<1>5. DOMAIN kvs = DOMAIN w /\ \A k \in DOMAIN w : kvs[k] = d[k]
  BY DEF Originals
<1>6. \A k \in Key : k \notin DOMAIN w => D[k] = d[k]
  BY DEF Applied
<1>7. EntryState(D, B, mp, 1) = D
  OBVIOUS
<1>8. Len(b) >= 1 => EntryState(d, b, FALSE, 1) = d
  BY <1>1 DEF EntryState, Good, Chained
<1> HIDE DEF D, kvs
<1>9. \A i \in 2..Len(B) : /\ i - 1 \in 1..Len(b)
                           /\ EntryState(D, B, mp, i) = EntryState(d, b, FALSE, i - 1)
  BY <1>1, <1>4 DEF EntryState
<1>10. Len(B) \in Nat /\ Len(B) <= Capacity /\ Len(B) >= 1 /\ Len(B) <= Len(b) + 1
       /\ (Len(B) = Len(b) + 1 \/ Len(B) >= 2)
  BY <1>1, <1>2, <1>4
<1>11. Descending(B)
  <2>. SUFFICES ASSUME NEW i \in 1..Len(B), NEW j \in 1..Len(B), i < j
                PROVE  B[i].point.height > B[j].point.height
    BY DEF Descending
  <2>1. j \in 2..Len(B) /\ B[j] = b[j - 1] /\ j - 1 \in 1..Len(b)
    BY <1>4, <1>9, <1>10
  <2>2. CASE i = 1
    <3>1. q.height > b[j - 1].point.height
      BY <2>1
    <3>2. B[i].point.height = q.height
      BY <1>4, <2>2
    <3>. QED BY <2>1, <3>1, <3>2
  <2>3. CASE i # 1
    <3>1. i \in 2..Len(B) /\ B[i] = b[i - 1] /\ i - 1 \in 1..Len(b) /\ i - 1 < j - 1
      BY <1>4, <1>9, <1>10, <2>3
    <3>2. \A x, y \in 1..Len(b) : x < y => b[x].point.height > b[y].point.height
      BY DEF Good, Descending
    <3>. QED BY <2>1, <3>1, <3>2
  <2>. QED BY <2>2, <2>3
<1>12. OriginalsExact(D, B, mp)
  <2>. SUFFICES ASSUME NEW i \in 1..(Len(B) - 1), NEW k \in DOMAIN B[i].kvs
                PROVE  B[i].kvs[k] = EntryState(D, B, mp, i + 1)[k]
    BY DEF OriginalsExact
  <2>1. i + 1 \in 2..Len(B) /\ (i + 1) - 1 = i /\ i \in 1..Len(b)
    BY <1>1, <1>10
  <2>2. EntryState(D, B, mp, i + 1) = EntryState(d, b, FALSE, i)
    BY <1>9, <2>1
  <2>3. CASE i = 1
    <3>1. B[i].kvs = kvs /\ k \in DOMAIN w
      BY <1>4, <1>5, <2>3
    <3>2. Len(b) >= 1
      BY <1>1, <2>1, <2>3
    <3>3. EntryState(d, b, FALSE, 1) = d
      BY <1>8, <3>2
    <3>. QED BY <1>5, <2>2, <2>3, <3>1, <3>3
  <2>4. CASE i # 1
    <3>1. i \in 2..Len(B) /\ B[i] = b[i - 1] /\ i - 1 \in 1..(Len(b) - 1)
          /\ (i - 1) + 1 = i
      BY <1>1, <1>4, <2>1, <2>4
    <3>2. b[i - 1].kvs[k] = EntryState(d, b, FALSE, (i - 1) + 1)[k]
      BY <3>1 DEF Good, OriginalsExact
    <3>. QED BY <2>2, <3>1, <3>2
  <2>. QED BY <2>3, <2>4
<1>13. UntouchedEqual(D, B, mp)
  <2>. SUFFICES ASSUME NEW i \in 1..Len(B), NEW j \in 1..Len(B), i <= j,
                       NEW k \in Key,
                       \A m \in i..(j - 1) : k \notin DOMAIN B[m].kvs
                PROVE  EntryState(D, B, mp, i)[k] = EntryState(D, B, mp, j)[k]
    BY DEF UntouchedEqual
  <2>0. \A x, y \in 1..Len(b) : x <= y =>
          ((\A m \in x..(y - 1) : k \notin DOMAIN b[m].kvs) =>
             EntryState(d, b, FALSE, x)[k] = EntryState(d, b, FALSE, y)[k])
    BY DEF Good, UntouchedEqual
  <2>1. CASE i = j
    BY <2>1
  <2>2. CASE i # j
    <3>1. j \in 2..Len(B) /\ j - 1 \in 1..Len(b) /\ i < j
      <4>1. i < j /\ j \in 2..Len(B)
        BY <1>10, <2>2
      <4>. QED BY <1>9, <4>1
    <3>2. ASSUME NEW x \in 1..Len(b), x <= j - 1, i <= x + 1
          PROVE  EntryState(d, b, FALSE, x)[k] = EntryState(d, b, FALSE, j - 1)[k]
      <4>1. ASSUME NEW m \in x..((j - 1) - 1) PROVE k \notin DOMAIN b[m].kvs
        <5>1. m + 1 \in i..(j - 1) /\ m + 1 \in 2..Len(B) /\ (m + 1) - 1 = m
          BY <1>10, <3>1, <3>2
        <5>. QED BY <1>4, <5>1
      <4>. QED BY <2>0, <3>1, <3>2, <4>1
    <3>3. CASE i = 1
      <4>1. 1 \in i..(j - 1) /\ k \notin DOMAIN B[1].kvs
        BY <3>1, <3>3
      <4>2. D[k] = d[k]
        BY <1>4, <1>5, <1>6, <4>1
      <4>3. 1 \in 1..Len(b) /\ 1 <= j - 1 /\ i <= 1 + 1 /\ Len(b) >= 1
        BY <1>1, <3>1, <3>3
      <4>4. EntryState(d, b, FALSE, 1)[k] = EntryState(d, b, FALSE, j - 1)[k]
        BY <3>2, <4>3
      <4>5. EntryState(D, B, mp, j) = EntryState(d, b, FALSE, j - 1)
        BY <1>9, <3>1
      <4>. QED BY <1>7, <1>8, <3>3, <4>2, <4>3, <4>4, <4>5
    <3>4. CASE i # 1
      <4>0. i \in 2..Len(B)
        BY <1>10, <3>4
      <4>1. i - 1 \in 1..Len(b) /\ i - 1 <= j - 1 /\ i <= (i - 1) + 1
        BY <1>9, <3>1, <4>0
      <4>2. EntryState(d, b, FALSE, i - 1)[k] = EntryState(d, b, FALSE, j - 1)[k]
        BY <3>2, <4>1
      <4>. QED BY <1>9, <3>1, <4>0, <4>2
    <3>. QED BY <3>3, <3>4
  <2>. QED BY <2>1, <2>2
<1>. QED BY <1>4, <1>10, <1>11, <1>12, <1>13 DEF D, PushedWell

\* A confirmed block indexed over the state of its parent gives the state of
\* its chain.
LEMMA CommitState ==
  ASSUME NEW d, NEW b, NEW l, Good(d, b, l, FALSE),
         NEW p \in Point, p.height = l.height + 1, Prev[p.hash] = l.hash
  PROVE  /\ p = PointOf(p.hash)
         /\ WellTyped(BlockWrites(p, d))
         /\ Applied(d, BlockWrites(p, d)) \in DB
         /\ Applied(d, BlockWrites(p, d)) = StateAt[p.hash]
<1>1. p.hash \in Block /\ l \in Point /\ l.hash \in Block /\ d \in DB
  BY DEF Point, Good, Typed
<1>2. p.hash # Genesis
  BY <1>1, ChainAssumption
<1>3. Height[p.hash] = Height[l.hash] + 1
  BY <1>1, <1>2, ChainAssumption
<1>4. l.height = Height[l.hash]
  BY DEF Good, Typed, PointOf
<1>5. p = PointOf(p.hash)
  BY <1>3, <1>4 DEF PointOf, Point
<1>6. d = StateAt[l.hash]
  BY DEF Good
<1>7. StateAt[p.hash] = Applied(StateAt[l.hash], BlockWrites(PointOf(p.hash), StateAt[l.hash]))
  BY <1>1, <1>2, StateAtSteps
<1>8. WellTyped(BlockWrites(p, d))
  BY <1>1, BlockWritesTyped
<1>9. Applied(d, BlockWrites(p, d)) \in DB
  BY <1>1, <1>8, WritesTyped
<1>. QED BY <1>5, <1>6, <1>7, <1>8, <1>9

\* A block indexed with rollback data over its parent keeps the agreement,
\* with the buffer truncated to its capacity or not.
LEMMA CommitRecorded ==
  ASSUME NEW d, NEW b, NEW l, Good(d, b, l, FALSE),
         NEW p \in Point, p.height = l.height + 1, Prev[p.hash] = l.hash
  PROVE  LET w == BlockWrites(p, d)
         IN  Good(Applied(d, w), AddBlock(b, p, Originals(d, w), Capacity), p, FALSE)
<1>. DEFINE w == BlockWrites(p, d)
            D == Applied(d, w)
            B == AddBlock(b, p, Originals(d, w), Capacity)
<1>1. /\ p = PointOf(p.hash) /\ WellTyped(w) /\ D \in DB /\ D = StateAt[p.hash]
  BY CommitState
<1>2. /\ b \in Seq(Entry) /\ Len(b) \in Nat /\ Len(b) <= Capacity
      /\ Capacity \in Nat \ {0}
  BY BoundAssumption DEF Good, Typed, Capacity
<1>3. p \in BufferPoint /\ l.height \in Nat
  BY ChainAssumption DEF BufferPoint, Good, Typed, Point, BlockHeight
<1>4. ASSUME NEW i \in 1..Len(b) PROVE p.height > b[i].point.height
  <2>1. b[1].point = l
    BY <1>2 DEF Good, Chained
  <2>2. CASE i = 1
    BY <1>3, <2>1, <2>2
  <2>3. CASE i # 1
    <3>1. 1 \in 1..Len(b) /\ 1 < i
      BY <1>2, <2>3
    <3>2. l.height > b[i].point.height
      BY <2>1, <3>1 DEF Good, Descending
    <3>3. b[i].point = PointOf(b[i].point.hash) /\ b[i] \in Entry
      BY <1>2 DEF Good, Chained
    <3>4. b[i].point.hash \in Block
      BY <3>3 DEF Entry, BufferPoint, Point, MempoolPoint
    <3>5. b[i].point.height \in Nat
      BY <3>3, <3>4, ChainAssumption DEF PointOf
    <3>. QED BY <1>3, <3>2, <3>5
  <2>. QED BY <2>2, <2>3
<1>5. B[1].point = p => EntryState(D, B, FALSE, 1) = D
  BY <1>1 DEF EntryState
<1>6. B[1].point = p
  <2>1. [point |-> p, kvs |-> Originals(d, w)] \in Entry
    BY <1>1, <1>3, WritesTyped DEF Entry, Good, Typed
  <2>. HIDE DEF w
  <2>2. B[1] = [point |-> p, kvs |-> Originals(d, w)]
    BY <1>2, <2>1, AddBlockFacts DEF Pushed
  <2>. QED BY <2>2
<1>. HIDE DEF w, D, B
<1>7. /\ B \in Seq(Entry) /\ Len(B) <= Capacity
      /\ Len(B) >= 1 /\ Len(B) <= Len(b) + 1
      /\ \A i \in 2..Len(B) : B[i] = b[i - 1]
      /\ Descending(B)
      /\ OriginalsExact(D, B, FALSE)
      /\ UntouchedEqual(D, B, FALSE)
  <2>1. EntryState(D, B, FALSE, 1) = D /\ B = AddBlock(b, p, Originals(d, w), Capacity)
    BY <1>5, <1>6 DEF B
  <2>2. FALSE \in BOOLEAN /\ WellTyped(w) /\ p \in BufferPoint
    BY <1>1, <1>3
  <2>3. PushedWell(D, B, b, p, FALSE)
    BY <1>4, <2>1, <2>2, PushKeepsOriginals DEF D
  <2>. QED BY <2>3 DEF PushedWell
<1>8. Typed(D, B, p, FALSE)
  BY <1>1, <1>7 DEF Typed
<1>9. Chained(B, p, FALSE)
  <2>1. ASSUME NEW i \in 1..Len(B) PROVE B[i].point = PointOf(B[i].point.hash)
    <3>1. CASE i = 1
      BY <1>1, <1>6, <3>1
    <3>2. CASE i # 1
      <4>1. i \in 2..Len(B) /\ i - 1 \in 1..Len(b)
        BY <1>2, <1>7, <3>2
      <4>. QED BY <1>7, <4>1 DEF Good, Chained
    <3>. QED BY <3>1, <3>2
  <2>2. ASSUME NEW i \in 1..(Len(B) - 1)
        PROVE  Prev[B[i].point.hash] = B[i + 1].point.hash
    <3>1. i + 1 \in 2..Len(B) /\ (i + 1) - 1 = i /\ i \in 1..Len(b)
      BY <1>2, <1>7
    <3>2. B[i + 1] = b[i]
      BY <1>7, <3>1
    <3>3. CASE i = 1
      <4>1. b[1].point = l
        BY <1>2, <3>1, <3>3 DEF Good, Chained
      <4>. QED BY <1>6, <3>2, <3>3, <4>1
    <3>4. CASE i # 1
      <4>1. i \in 2..Len(B) /\ i - 1 \in 1..(Len(b) - 1) /\ (i - 1) + 1 = i
        BY <1>2, <1>7, <3>1, <3>4
      <4>2. B[i] = b[i - 1]
        BY <1>7, <4>1
      <4>3. Prev[b[i - 1].point.hash] = b[(i - 1) + 1].point.hash
        BY <4>1 DEF Good, Chained
      <4>. QED BY <3>2, <4>1, <4>2, <4>3
    <3>. QED BY <3>3, <3>4
  <2>. QED BY <1>6, <2>1, <2>2 DEF Chained
<1>. QED BY <1>1, <1>7, <1>8, <1>9 DEF Good, w, D, B

\* A block indexed before the buffer is kept leaves it empty.
LEMMA CommitUnrecorded ==
  ASSUME NEW d, NEW l, Good(d, <<>>, l, FALSE),
         NEW p \in Point, p.height = l.height + 1, Prev[p.hash] = l.hash
  PROVE  Good(Applied(d, BlockWrites(p, d)), <<>>, p, FALSE)
<1>1. /\ p = PointOf(p.hash)
      /\ Applied(d, BlockWrites(p, d)) \in DB
      /\ Applied(d, BlockWrites(p, d)) = StateAt[p.hash]
  BY CommitState
<1>. QED BY <1>1 DEF Good, Typed, Chained, Descending, OriginalsExact, UntouchedEqual

\* A mempool snapshot indexed over a recorded tip.
LEMMA CommitSnapshot ==
  ASSUME NEW d, NEW b, NEW l, Good(d, b, l, FALSE), Len(b) >= 1, NEW s \in Snapshot
  PROVE  LET w == MempoolWrites(s, l, d)
             q == MempoolPoint(l.hash)
         IN  Good(Applied(d, w), AddBlock(b, q, Originals(d, w), Capacity), l, TRUE)
<1>. DEFINE w == MempoolWrites(s, l, d)
            q == MempoolPoint(l.hash)
            D == Applied(d, w)
            B == AddBlock(b, q, Originals(d, w), Capacity)
<1>1. /\ b \in Seq(Entry) /\ Len(b) \in Nat /\ d \in DB /\ l \in Point
      /\ l.hash \in Block /\ l = PointOf(l.hash) /\ d = StateAt[l.hash]
  BY DEF Good, Typed, Point
<1>2. WellTyped(w)
  BY <1>1, MempoolWritesTyped
<1>3. D \in DB
  BY <1>1, <1>2, WritesTyped
<1>4. q \in BufferPoint /\ q.height = MaxU64
  BY <1>1 DEF BufferPoint, MempoolPoint
<1>5. EntryState(D, B, TRUE, 1) = D
  BY DEF EntryState
<1>6. ASSUME NEW i \in 1..Len(b) PROVE q.height > b[i].point.height
  <2>1. b[i].point = PointOf(b[i].point.hash) /\ b[i] \in Entry
    BY <1>1 DEF Good, Chained
  <2>2. b[i].point.hash \in Block
    BY <2>1 DEF Entry, BufferPoint, Point, MempoolPoint
  <2>3. b[i].point.height = Height[b[i].point.hash] /\ Height[b[i].point.hash] \in Nat
    BY <2>1, <2>2, ChainAssumption DEF PointOf
  <2>. QED BY <1>4, <2>2, <2>3, BoundAssumption
<1>7. Overlay(D, l)
  BY <1>1 DEF Overlay
<1>. HIDE DEF w, q
<1>8. PushedWell(D, B, b, q, TRUE)
  BY <1>2, <1>4, <1>5, <1>6, PushKeepsOriginals
<1>. HIDE DEF D, B
<1>9. /\ B \in Seq(Entry) /\ Len(B) <= Capacity /\ B[1].point = q
      /\ Len(B) \in Nat /\ Len(B) >= 2 /\ Len(B) <= Len(b) + 1
      /\ \A i \in 2..Len(B) : B[i] = b[i - 1]
  BY <1>1, <1>8 DEF PushedWell
<1>10. Typed(D, B, l, TRUE)
  BY <1>1, <1>3, <1>9 DEF Typed
<1>11. Chained(B, l, TRUE)
  <2>1. B[2].point = l
    <3>1. B[2] = b[2 - 1]
      BY <1>9
    <3>2. b[1].point = l
      BY <1>1 DEF Good, Chained
    <3>. QED BY <3>1, <3>2
  <2>2. ASSUME NEW i \in 2..Len(B) PROVE B[i].point = PointOf(B[i].point.hash)
    <3>1. i - 1 \in 1..Len(b) /\ B[i] = b[i - 1]
      BY <1>1, <1>9
    <3>. QED BY <3>1 DEF Good, Chained
  <2>3. ASSUME NEW i \in 2..(Len(B) - 1)
        PROVE  Prev[B[i].point.hash] = B[i + 1].point.hash
    <3>. DEFINE lb == Len(b)
                lB == Len(B)
    <3>0. lb \in Nat /\ lB \in Nat /\ lB <= lb + 1 /\ i \in 2..(lB - 1)
      BY <1>1, <1>9
    <3>1. /\ i - 1 \in 1..(Len(b) - 1)
          /\ (i + 1) - 1 = (i - 1) + 1
          /\ i + 1 \in 2..Len(B) /\ i \in 2..Len(B)
      <4>. HIDE DEF lb, lB
      <4>1. i - 1 \in 1..(lb - 1) /\ (i + 1) - 1 = (i - 1) + 1 /\ i + 1 \in 2..lB /\ i \in 2..lB
        BY <3>0
      <4>. QED BY <4>1 DEF lb, lB
    <3>2. B[i] = b[i - 1] /\ B[i + 1] = b[(i + 1) - 1]
      BY <1>9, <3>1
    <3>3. Prev[b[i - 1].point.hash] = b[(i - 1) + 1].point.hash
      BY <3>1 DEF Good, Chained
    <3>. QED BY <3>1, <3>2, <3>3
  <2>. QED BY <1>9, <2>1, <2>2, <2>3 DEF Chained, q
<1>. QED BY <1>7, <1>8, <1>10, <1>11 DEF Good, PushedWell, w, q, D, B

(***************************************************************************)
(* The handlers.                                                           *)
(***************************************************************************)

\* An empty undo changes neither the store nor the buffer.
LEMMA UndoNothing ==
  ASSUME NEW d \in DB, NEW b \in Seq(Entry)
  PROVE  Undone(d, b, 0) = d /\ Kept(b, 0) = b
<1>1. \A k : Touching(b, 0, k) = {}
  BY DEF Touching
<1>2. Undone(d, b, 0) = [k \in DOMAIN d |-> d[k]]
  BY <1>1 DEF Undone
<1>3. d = [k \in DOMAIN d |-> d[k]]
  BY DEF DB
<1>4. Kept(b, 0) = b
  BY DEF Kept
<1>. QED BY <1>2, <1>3, <1>4

\* Undoing down to a confirmed point found in the buffer.
LEMMA UndoToPoint ==
  ASSUME IInv, NEW p \in Point, InBuffer(buf, p)
  PROVE  /\ PointsSince(buf, p) \in 0..(Len(buf) - 1)
         /\ Good(Undone(db, buf, PointsSince(buf, p)),
                 Kept(buf, PointsSince(buf, p)), p, FALSE)
         /\ Len(Kept(buf, PointsSince(buf, p))) >= 1
         /\ buf # <<>>
<1>. DEFINE n == PointsSince(buf, p)
<1>1. buf \in Seq(Entry) /\ Good(db, buf, last, processedMempool)
  BY DEF IInv, Good, Typed
<1>2. Position(buf, p) \in 1..Len(buf) /\ buf[Position(buf, p)].point = p
  BY <1>1, PositionFacts
<1>3. n \in 0..(Len(buf) - 1) /\ n + 1 = Position(buf, p) /\ Len(buf) \in Nat
  BY <1>1, <1>2 DEF PointsSince
<1>. HIDE DEF n
<1>4. buf[n + 1].point = p
  BY <1>2, <1>3
<1>5. Good(Undone(db, buf, n), Kept(buf, n), buf[n + 1].point, FALSE)
  BY <1>1, <1>3, <1>4, UndoGood
<1>6. n \in 0..Len(buf)
  BY <1>3
<1>7. Len(Kept(buf, n)) = Len(buf) - n
  BY <1>1, <1>6, KeptFacts
<1>8. Len(Kept(buf, n)) >= 1 /\ Len(buf) >= 1
  BY <1>3, <1>7
<1>9. buf # <<>>
  BY <1>8
<1>. QED BY <1>3, <1>4, <1>5, <1>8, <1>9 DEF n

\* The state every confirmed block is indexed over.
LEMMA BaseGood ==
  ASSUME IInv, processedMempool => InBuffer(buf, last)
  PROVE  /\ Good(Undone(db, buf, MempoolDepth), Kept(buf, MempoolDepth), last, FALSE)
         /\ Kept(buf, MempoolDepth) # <<>> => mutable
<1>1. /\ buf \in Seq(Entry) /\ Good(db, buf, last, processedMempool) /\ last \in Point
      /\ db \in DB /\ processedMempool \in BOOLEAN
  BY DEF IInv, Good, Typed
<1>2. CASE processedMempool
  BY <1>1, <1>2, UndoToPoint DEF MempoolDepth, IInv
<1>3. CASE ~processedMempool
  BY <1>1, <1>3, UndoNothing DEF MempoolDepth, IInv
<1>. QED BY <1>1, <1>2, <1>3

\* The rows written for a typed entry are typed.
LEMMA RowsTyped ==
  ASSUME NEW p \in BufferPoint, NEW kvs \in Kvs
  PROVE  \A r \in Rows(p, kvs) : r \in Row
<1>1. DOMAIN kvs \subseteq Key /\ \A k \in DOMAIN kvs : kvs[k] \in ValueOf(k)
  BY DEF Kvs, WellTyped
<1>2. \A k \in Key : ValueOf(k) \subseteq Value
  BY DEF ValueOf, Value
<1>. QED BY <1>1, <1>2 DEF Rows, Row

\* The inductive invariant holds initially.
LEMMA InitIInv == Init => IInv
<1>. SUFFICES ASSUME Init PROVE IInv
  OBVIOUS
<1>1. Genesis \in Block /\ PointOf(Genesis) \in Point
  BY ChainAssumption DEF PointOf, Point, BlockHeight
<1>2. EmptyDb \in DB
  BY DEF EmptyDb, DB, Value, ValueOf
<1>3. Typed(db, buf, last, processedMempool)
  <2>1. <<>> \in Seq(Entry) /\ Len(<<>>) = 0 /\ 0 <= Capacity
    BY BoundAssumption DEF Capacity
  <2>2. PointOf(Genesis).hash = Genesis
    BY DEF PointOf
  <2>. QED BY <1>1, <1>2, <2>1, <2>2 DEF Init, Typed
<1>4. db = StateAt[last.hash]
  BY StateAtSteps DEF Init, PointOf
<1>5. Good(db, buf, last, processedMempool)
  BY <1>3, <1>4
  DEF Init, Good, Chained, Descending, OriginalsExact, UntouchedEqual
<1>. QED BY <1>5 DEF Init, IInv, Stamp

\* A restart or an end of the stage that leaves store and buffer alone.
LEMMA UnchangedStep ==
  ASSUME IInv, UNCHANGED <<store, memory>>,
         mutable' = mutable \/ Bootstrap(buf),
         status' \in {"running", "panicked", "done"}
  PROVE  IInv'
BY DEF IInv, store, memory, Bootstrap

\* A step that commits an undo, and at most restarts or ends the stage.
LEMMA UndoStep ==
  ASSUME IInv, NEW n, NEW p, Undo(n, p),
         Good(Undone(db, buf, n), Kept(buf, n), p, FALSE),
         Kept(buf, n) # <<>> => mutable,
         UNCHANGED stamps,
         mutable' = mutable \/ Bootstrap(Kept(buf, n)),
         status' \in {"running", "panicked", "done"}
  PROVE  IInv'
<1>1. Good(db', buf', last', processedMempool')
  BY DEF Undo
<1>2. \A r \in rbTable' : r \in Row
  BY DEF Undo, UndoneRows, IInv
<1>3. mutable' \in BOOLEAN /\ (buf' # <<>> => mutable')
  BY DEF Undo, Bootstrap, IInv
<1>. QED BY <1>1, <1>2, <1>3 DEF IInv

\* ChainEvent::RollBack preserves the invariant.
LEMMA RollBackStep ==
  ASSUME IInv, NEW p \in Point, RollBack(p)
  PROVE  IInv'
<1>1. CASE /\ ~InBuffer(buf, p) /\ Panic /\ UNCHANGED <<store, memory>>
  BY <1>1, UnchangedStep DEF Panic
<1>2. CASE /\ InBuffer(buf, p) /\ Undo(PointsSince(buf, p), p)
           /\ UNCHANGED <<stamps, mutable, status>>
  <2>1. /\ Good(Undone(db, buf, PointsSince(buf, p)), Kept(buf, PointsSince(buf, p)), p, FALSE)
        /\ mutable
    BY <1>2, UndoToPoint DEF IInv
  <2>2. status' \in {"running", "panicked", "done"} /\ mutable' = mutable
    BY <1>2 DEF IInv
  <2>. QED BY <1>2, <2>1, <2>2, UndoStep
<1>3. CASE InBuffer(buf, p) /\ Bootstrap(buf) /\ UNCHANGED <<store, memory, status>>
  BY <1>3, UnchangedStep DEF IInv
<1>. QED BY <1>1, <1>2, <1>3 DEF RollBack

\* The commit of a confirmed block preserves the invariant, whatever snapshot
\* is undone before it and whether or not rollback data is recorded.
LEMMA CommitBlockStep ==
  ASSUME IInv, NEW p \in Point, NEW tip,
         processedMempool => InBuffer(buf, last),
         p.height = last.height + 1, Prev[p.hash] = last.hash,
         mutable' = (mutable \/ NearTip(p, tip)),
         CommitBlock(p, MempoolDepth, mutable'),
         UNCHANGED status
  PROVE  IInv'
<1>. DEFINE d == Undone(db, buf, MempoolDepth)
            b == Kept(buf, MempoolDepth)
            w == BlockWrites(p, d)
<1>1. Good(d, b, last, FALSE) /\ (b # <<>> => mutable)
  BY BaseGood
<1>2. mutable' \in BOOLEAN /\ (mutable => mutable')
  BY DEF IInv, NearTip
<1>3. /\ db' = Applied(d, w)
      /\ stamps' = [stamps EXCEPT !.confirmed = p]
      /\ last' = p /\ processedMempool' = FALSE
      /\ buf' = IF mutable' THEN AddBlock(b, p, Originals(d, w), Capacity) ELSE b
      /\ rbTable' = IF mutable'
                    THEN GcTable(Put(UndoneRows(rbTable, buf, MempoolDepth), p,
                                     Originals(d, w)), p.height)
                    ELSE UndoneRows(rbTable, buf, MempoolDepth)
  BY DEF CommitBlock
<1>. HIDE DEF d, b
<1>4. Good(db', buf', last', processedMempool')
  <2>1. CASE mutable'
    BY <1>1, <1>3, <2>1, CommitRecorded
  <2>2. CASE ~mutable'
    <3>1. b = <<>> /\ buf' = <<>>
      BY <1>1, <1>2, <1>3, <2>2
    <3>. QED BY <1>1, <1>3, <3>1, CommitUnrecorded
  <2>. QED BY <1>2, <2>1, <2>2
<1>5. buf' # <<>> => mutable'
  BY <1>1, <1>2, <1>3
<1>6. p \in BufferPoint /\ Originals(d, w) \in Kvs
  BY <1>1, CommitState, WritesTyped DEF BufferPoint, Good, Typed
<1>. HIDE DEF w
<1>7. \A r \in rbTable' : r \in Row
  <2>1. \A r \in Rows(p, Originals(d, w)) : r \in Row
    BY <1>6, RowsTyped
  <2>2. \A r \in UndoneRows(rbTable, buf, MempoolDepth) : r \in Row
    BY DEF UndoneRows, IInv
  <2>3. \A r \in rbTable' : \/ r \in UndoneRows(rbTable, buf, MempoolDepth)
                            \/ r \in Rows(p, Originals(d, w))
    BY <1>2, <1>3 DEF GcTable, Put
  <2>. QED BY <2>1, <2>2, <2>3
<1>8. p \in Stamp
  BY ChainAssumption DEF Stamp, Point, BlockHeight
<1>9. stamps' \in [confirmed : Stamp, mempool : Stamp]
  BY <1>3, <1>8 DEF IInv
<1>. QED BY <1>2, <1>4, <1>5, <1>7, <1>9 DEF IInv

\* ChainEvent::RollForward preserves the invariant, on each of its exits.
LEMMA RollForwardStep ==
  ASSUME IInv, NEW p \in Point, NEW tip, RollForward(p, tip)
  PROVE  IInv'
<1>. DEFINE n == MempoolDepth
<1>0. status \in {"running", "panicked", "done"} /\ mutable \in BOOLEAN
  BY DEF IInv
<1>1. CASE Panic /\ UNCHANGED <<store, memory>>
  BY <1>1, UnchangedStep DEF Panic
<1>2. CASE Bootstrap(buf) /\ UNCHANGED <<store, memory, status>>
  BY <1>0, <1>2, UnchangedStep
<1>3. ASSUME processedMempool => InBuffer(buf, last), Undo(n, last), UNCHANGED stamps,
             mutable' = mutable \/ Bootstrap(Kept(buf, n)),
             status' = status \/ status' = "panicked"
      PROVE  IInv'
  <2>1. Good(Undone(db, buf, n), Kept(buf, n), last, FALSE) /\ (Kept(buf, n) # <<>> => mutable)
    BY <1>3, BaseGood
  <2>. HIDE DEF n
  <2>. QED BY <1>0, <1>3, <2>1, UndoStep
<1>4. ASSUME processedMempool => InBuffer(buf, last),
             p.height = last.height + 1, Prev[p.hash] = last.hash,
             mutable' = (mutable \/ NearTip(p, tip)),
             CommitBlock(p, n, mutable'), UNCHANGED status
      PROVE  IInv'
  BY <1>4, CommitBlockStep
<1>5. CASE /\ processedMempool => InBuffer(buf, last)
           /\ \/ /\ p.height < last.height + 1
                 /\ Undo(n, last)
                 /\ UNCHANGED <<stamps, mutable, status>>
              \/ /\ p.height > last.height + 1 \/ Prev[p.hash] # last.hash
                 /\ p.height >= last.height + 1
                 /\ Undo(n, last)
                 /\ Panic
                 /\ UNCHANGED stamps
              \/ /\ p.height = last.height + 1 /\ Prev[p.hash] = last.hash
                 /\ \/ /\ Undo(n, last)
                       /\ Bootstrap(Kept(buf, n))
                       /\ UNCHANGED <<stamps, status>>
                    \/ /\ mutable' = (mutable \/ NearTip(p, tip))
                       /\ CommitBlock(p, n, mutable')
                       /\ UNCHANGED status
  BY <1>3, <1>4, <1>5 DEF Panic
<1>. QED BY <1>1, <1>2, <1>5 DEF RollForward, ChainsOnLast

\* The commit of a snapshot preserves the invariant.
LEMMA CommitMempoolStep ==
  ASSUME IInv, InBuffer(buf, last), NEW s \in Snapshot,
         CommitMempool(s, PointsSince(buf, last)),
         UNCHANGED <<mutable, status>>
  PROVE  IInv'
<1>. DEFINE n == PointsSince(buf, last)
            d == Undone(db, buf, n)
            b == Kept(buf, n)
            w == MempoolWrites(s, last, d)
            q == MempoolPoint(last.hash)
<1>1. last \in Point
  BY DEF IInv, Good, Typed
<1>2. Good(d, b, last, FALSE) /\ Len(b) >= 1 /\ mutable /\ mutable \in BOOLEAN
  BY <1>1, UndoToPoint DEF IInv
<1>3. /\ db' = Applied(d, w)
      /\ rbTable' = Put(UndoneRows(rbTable, buf, n), q, Originals(d, w))
      /\ stamps' = [stamps EXCEPT
                      !.mempool = [height |-> last.height + 1, hash |-> last.hash]]
      /\ buf' = AddBlock(b, q, Originals(d, w), Capacity)
      /\ processedMempool' = TRUE /\ last' = last
  BY DEF CommitMempool
<1>. HIDE DEF n, d, b
<1>4. Good(db', buf', last', processedMempool')
  BY <1>2, <1>3, CommitSnapshot
<1>5. d \in DB /\ WellTyped(w)
  BY <1>1, <1>2, MempoolWritesTyped DEF Good, Typed
<1>6. q \in BufferPoint /\ Originals(d, w) \in Kvs
  BY <1>1, <1>5, WritesTyped DEF BufferPoint, Point
<1>. HIDE DEF w, q
<1>7. \A r \in rbTable' : r \in Row
  <2>1. \A r \in Rows(q, Originals(d, w)) : r \in Row
    BY <1>6, RowsTyped
  <2>2. \A r \in UndoneRows(rbTable, buf, n) : r \in Row
    BY DEF UndoneRows, IInv
  <2>. QED BY <1>3, <2>1, <2>2 DEF Put
<1>8. [height |-> last.height + 1, hash |-> last.hash] \in Stamp
  BY <1>1, ChainAssumption DEF Stamp, Point, BlockHeight
<1>9. stamps' \in [confirmed : Stamp, mempool : Stamp]
  BY <1>3, <1>8 DEF IInv
<1>. QED BY <1>2, <1>4, <1>7, <1>9 DEF IInv

\* ChainEvent::MempoolBlocks preserves the invariant, on each of its exits.
LEMMA MempoolBlocksStep ==
  ASSUME IInv, NEW t, NEW s \in Snapshot, MempoolBlocks(t, s)
  PROVE  IInv'
<1>. DEFINE n == PointsSince(buf, last)
<1>0. /\ status \in {"running", "panicked", "done"} /\ mutable \in BOOLEAN
      /\ last \in Point
  BY DEF IInv, Good, Typed
<1>1. CASE ~InBuffer(buf, last) /\ Panic /\ UNCHANGED <<store, memory>>
  BY <1>1, UnchangedStep DEF Panic
<1>2. CASE Bootstrap(buf) /\ UNCHANGED <<store, memory, status>>
  BY <1>0, <1>2, UnchangedStep
<1>3. ASSUME InBuffer(buf, last),
             IF n > 0 THEN Undo(n, last) ELSE UNCHANGED <<db, rbTable, memory>>,
             UNCHANGED <<stamps, status>>,
             mutable' = mutable \/ Bootstrap(Kept(buf, n))
      PROVE  IInv'
  <2>1. /\ Good(Undone(db, buf, n), Kept(buf, n), last, FALSE)
        /\ n \in Nat /\ mutable /\ Len(Kept(buf, n)) >= 1
    <3>1. /\ n \in 0..(Len(buf) - 1) /\ buf # <<>> /\ Len(Kept(buf, n)) >= 1
          /\ Good(Undone(db, buf, n), Kept(buf, n), last, FALSE)
      BY <1>0, <1>3, UndoToPoint
    <3>2. Len(buf) \in Nat /\ mutable
      BY <3>1 DEF IInv, Good, Typed
    <3>. HIDE DEF n
    <3>3. n \in Nat
      BY <3>1, <3>2
    <3>. QED BY <3>1, <3>2, <3>3
  <2>2. CASE n > 0
    <3>. HIDE DEF n
    <3>. QED BY <1>0, <1>3, <2>1, <2>2, UndoStep
  <2>3. CASE ~(n > 0)
    <3>1. n = 0
      BY <2>1, <2>3
    <3>2. Kept(buf, n) = buf
      BY <3>1, UndoNothing DEF IInv, Good, Typed
    <3>3. UNCHANGED <<store, memory>>
      BY <1>3, <2>3 DEF store
    <3>. QED BY <1>0, <1>3, <3>2, <3>3, UnchangedStep
  <2>. QED BY <2>2, <2>3
<1>4. CASE InBuffer(buf, last) /\ CommitMempool(s, n) /\ UNCHANGED <<mutable, status>>
  BY <1>4, CommitMempoolStep
<1>. QED BY <1>1, <1>2, <1>3, <1>4 DEF MempoolBlocks

\* Every step keeps the inductive invariant.
LEMMA NextIInv == IInv /\ [Next]_vars => IInv'
<1>. SUFFICES ASSUME IInv, [Next]_vars PROVE IInv'
  OBVIOUS
<1>1. ASSUME NEW p \in Point, NEW tip \in BlockHeight, RollForward(p, tip) PROVE IInv'
  BY <1>1, RollForwardStep
<1>2. ASSUME NEW p \in Point, RollBack(p) PROVE IInv'
  BY <1>2, RollBackStep
<1>3. ASSUME NEW t \in Block, NEW s \in Snapshot, MempoolBlocks(t, s) PROVE IInv'
  BY <1>3, MempoolBlocksStep
<1>4. ASSUME NEW p \in Point, Stop(p) PROVE IInv'
  BY <1>4, UnchangedStep DEF Stop
<1>5. CASE UNCHANGED vars
  BY <1>5 DEF vars, store, memory, IInv
<1>. QED BY <1>1, <1>2, <1>3, <1>4, <1>5 DEF Next

\* The inductive invariant holds throughout.
LEMMA Invariance == Spec => []IInv
BY InitIInv, NextIInv, PTL DEF Spec

(***************************************************************************)
(* Theorems.                                                               *)
(***************************************************************************)

\* Type correctness of the index stage, for every chain and every indexer.
THEOREM TypeCorrect == Spec => []TypeOK
<1>1. IInv => TypeOK
  <2>. SUFFICES ASSUME IInv PROVE TypeOK
    OBVIOUS
  <2>1. /\ db \in DB /\ buf \in Seq(Entry) /\ Len(buf) <= Capacity
        /\ last \in Point /\ processedMempool \in BOOLEAN
    BY DEF IInv, Good, Typed
  <2>2. Len(buf) \in 0..Capacity
    BY <2>1, BoundAssumption DEF Capacity
  <2>3. ASSUME NEW i \in 1..Len(buf)
        PROVE  buf[i].point \in BufferPoint /\ WellTyped(buf[i].kvs)
    <3>1. buf[i] \in Entry
      BY <2>1
    <3>. QED BY <3>1 DEF Entry, Kvs
  <2>. QED BY <2>1, <2>2, <2>3 DEF IInv, TypeOK
<1>. QED BY <1>1, Invariance, PTL

\* Whatever events arrive and whatever fails, a store with no mempool snapshot
\* is the state of exactly the chain up to last_processed: rollback_to_point
\* restores the store the undone blocks were indexed over.
THEOREM RollbackIsExact == Spec => []StoreMatchesChain
<1>1. IInv => StoreMatchesChain
  BY DEF IInv, Good, StoreMatchesChain
<1>. QED BY <1>1, Invariance, PTL

\* A store with a mempool snapshot is that snapshot alone over the state of the
\* chain: undoing a snapshot before the next one leaves nothing of it.
THEOREM SnapshotIsIsolated == Spec => []MempoolOverlay
<1>1. IInv => MempoolOverlay
  BY DEF IInv, Good, MempoolOverlay, Overlay
<1>. QED BY <1>1, Invariance, PTL

\* The buffer is the newest part of the chain, without gaps, with the mempool
\* pseudo point over the tip it belongs to: a snapshot can always be undone.
THEOREM BufferFollowsChain == Spec => []BufferIsChain
<1>1. IInv => BufferIsChain
  BY DEF IInv, Good, BufferIsChain, Chained, First
<1>. QED BY <1>1, Invariance, PTL

\* A step leaves last_processed, or moves it to a child block or to a buffered
\* point; a snapshot is only ever put over the tip there was.
LEMMA StepMoves ==
  ASSUME Next
  PROVE  /\ last' = last \/ Prev[last'.hash] = last.hash \/ InBuffer(buf, last')
         /\ processedMempool' => last' = last
<1>. DEFINE Moved == /\ last' = last \/ Prev[last'.hash] = last.hash \/ InBuffer(buf, last')
                     /\ processedMempool' => last' = last
<1>1. ASSUME NEW p \in Point, NEW tip \in BlockHeight, RollForward(p, tip) PROVE Moved
  BY <1>1 DEF RollForward, ChainsOnLast, Undo, CommitBlock, memory
<1>2. ASSUME NEW p \in Point, RollBack(p) PROVE Moved
  BY <1>2 DEF RollBack, Undo, memory
<1>3. ASSUME NEW t \in Block, NEW s \in Snapshot, MempoolBlocks(t, s) PROVE Moved
  BY <1>3 DEF MempoolBlocks, Undo, CommitMempool, memory
<1>4. ASSUME NEW p \in Point, Stop(p) PROVE Moved
  BY <1>4 DEF Stop, memory
<1>. QED BY <1>1, <1>2, <1>3, <1>4 DEF Next

\* last_processed only moves to a child block or to a buffered point: one of
\* two blocks of the same height never replaces the other directly.
THEOREM ChainMovesByBlocks == Spec => ChainStep
<1>. DEFINE Moved == last' = last \/ Prev[last'.hash] = last.hash \/ InBuffer(buf, last')
<1>1. [Next]_vars => [Moved]_vars
  BY StepMoves
<1>. QED BY <1>1, PTL DEF Spec, ChainStep

(***************************************************************************)
(* The refinement of ChainStore.                                           *)
(***************************************************************************)

\* The confirmed points of the buffer are blocks of the chain to
\* last_processed: by the least distance from the point at which an entry
\* would not have it among its ancestors.
LEMMA BufferedAreAncestors ==
  ASSUME IInv, NEW p \in Point, InBuffer(buf, p)
  PROVE  p.hash \in Ancestors[last.hash]
<1>. DEFINE i == Position(buf, p)
            H(k) == buf[i - k].point.hash
            T == {k \in 0..(i - First) : p.hash \notin Ancestors[H(k)]}
<1>1. /\ buf \in Seq(Entry) /\ Len(buf) \in Nat /\ processedMempool \in BOOLEAN
      /\ Chained(buf, last, processedMempool) /\ last \in Point
  BY DEF IInv, Good, Typed
<1>2. i \in 1..Len(buf) /\ buf[i].point = p
  BY <1>1, PositionFacts
<1>3. First \in 1..i
  <2>1. processedMempool => buf[1].point \notin Point
    BY <1>1, BoundAssumption DEF Chained, Point, MempoolPoint, BlockHeight
  <2>. QED BY <1>1, <1>2, <2>1 DEF First
<1>. HIDE DEF i
<1>4. \A b \in Block : b \in Ancestors[b]
  BY AncestorsSteps
<1>5. p.hash \in Block
  BY DEF Point
<1>6. ASSUME NEW k \in 0..(i - First), k # 0, p.hash \in Ancestors[H(k - 1)]
      PROVE  p.hash \in Ancestors[H(k)]
  <2>1. i - k \in First..(Len(buf) - 1) /\ i - k \in 1..Len(buf)
    BY <1>1, <1>2, <1>3, <1>6
  <2>2. Prev[H(k)] = H(k - 1)
    <3>1. i - (k - 1) = (i - k) + 1
      BY <1>2, <1>3, <1>6
    <3>. QED BY <1>1, <2>1, <3>1 DEF Chained, First
  <2>3. H(k) \in Block /\ H(k - 1) \in Block
    <3>1. /\ i - k \in 1..Len(buf) /\ i - (k - 1) \in 1..Len(buf)
      BY <1>1, <1>2, <1>3, <1>6
    <3>2. ASSUME NEW j \in 1..Len(buf) PROVE buf[j].point.hash \in Block
      <4>1. buf[j] \in Entry
        BY <1>1
      <4>2. buf[j].point \in BufferPoint
        BY <4>1 DEF Entry
      <4>. QED BY <4>2 DEF BufferPoint, Point, MempoolPoint
    <3>. QED BY <3>1, <3>2
  <2>. QED BY <1>6, <2>2, <2>3, ChainAssumption, AncestorsSteps
<1>7. T = {}
  <2>. SUFFICES ASSUME T # {} PROVE FALSE
    OBVIOUS
  <2>1. T \subseteq Nat
    BY <1>2, <1>3
  <2>2. PICK k \in T : \A y \in T : k <= y
    BY <2>1, LeastNat
  <2>3. k # 0
    BY <1>2, <1>4, <1>5, <2>2
  <2>4. k \in 0..(i - First) /\ k - 1 \in 0..(i - First) /\ ~ (k <= k - 1)
    <3>1. k \in 0..(i - First)
      BY <2>2
    <3>. HIDE DEF T
    <3>. QED BY <1>2, <1>3, <2>3, <3>1
  <2>5. k - 1 \notin T
    <3>. HIDE DEF T
    <3>. QED BY <2>2, <2>4
  <2>6. p.hash \in Ancestors[H(k - 1)]
    BY <2>4, <2>5
  <2>7. p.hash \in Ancestors[H(k)]
    BY <1>6, <2>3, <2>4, <2>6
  <2>. QED BY <2>2, <2>7
<1>8. i - First \in 0..(i - First) /\ i - (i - First) = First /\ Len(buf) >= First
  BY <1>1, <1>2, <1>3
<1>9. buf[First].point = last
  BY <1>1, <1>8 DEF Chained, First
<1>10. H(i - First) = last.hash
  BY <1>8, <1>9
<1>. QED BY <1>7, <1>8, <1>10

\* The index stage implements ChainStore: what the handlers write, undo and fail
\* to write is, for a reader of the store, a block on the tip, a return to an
\* ancestor, a snapshot over the tip, or nothing.
THEOREM StorePromise == Spec => ImplementsChainStore
<1>1. Init => Promise!Init
  <2>. SUFFICES ASSUME Init PROVE Promise!Init
    OBVIOUS
  <2>1. last.hash = Genesis /\ db = StateAt[Genesis]
    BY StateAtSteps DEF Init, PointOf
  <2>. QED BY <2>1 DEF Promise!Init, Confirmed
<1>2. IInv /\ IInv' /\ [Next]_vars => [Promise!Next]_(Promise!svars)
  <2>. SUFFICES ASSUME IInv, IInv', Next PROVE Promise!Next
    BY DEF vars, store, memory, Promise!svars
  <2>1. /\ last \in Point /\ last' \in Point /\ last = PointOf(last.hash)
        /\ last.hash \in Block /\ last'.hash \in Block
        /\ processedMempool' \in BOOLEAN
    BY DEF IInv, Good, Typed, Point
  <2>2. CASE processedMempool'
    <3>1. last' = last
      BY <2>2, StepMoves
    <3>2. PICK s \in Snapshot :
            db' = Applied(StateAt[last'.hash], MempoolWrites(s, last', StateAt[last'.hash]))
      BY <2>2 DEF IInv, Good, Overlay
    <3>3. db' = Overlaid(s, last.hash)
      BY <2>1, <3>1, <3>2 DEF Overlaid
    <3>. QED BY <3>1, <3>3 DEF Promise!Next, Promise!Preview
  <2>3. CASE ~processedMempool'
    <3>1. db' = Confirmed(last'.hash)
      BY <2>3 DEF IInv, Good, Confirmed
    <3>2. CASE Prev[last'.hash] = last.hash
      BY <2>1, <3>1, <3>2 DEF Promise!Next, Promise!Extend
    <3>3. CASE last' = last \/ InBuffer(buf, last')
      <4>1. last'.hash \in Ancestors[last.hash]
        BY <2>1, <3>3, BufferedAreAncestors, AncestorsSteps
      <4>. QED BY <2>1, <3>1, <4>1 DEF Promise!Next, Promise!Retreat
    <3>. QED BY <3>2, <3>3, StepMoves
  <2>. QED BY <2>1, <2>2, <2>3
<1>. QED BY <1>1, <1>2, Invariance, PTL DEF Spec, ImplementsChainStore, Promise!Spec

-----------------------------------------------------------------------------
(***************************************************************************)
(* Part 2. The persistent rollback buffer.                                 *)
(***************************************************************************)

(***************************************************************************)
(* The rows of the n newest entries of a buffer b, and what each batch     *)
(* does to them.                                                           *)
(***************************************************************************)

TableOf(b, n) == UNION {Rows(b[i].point, b[i].kvs) : i \in 1..n}

\* A row of the table is the row of a key of one of the entries.
LEMMA TableRow ==
  ASSUME NEW b, NEW n, NEW r
  PROVE  r \in TableOf(b, n) <=> \E i \in 1..n : r \in Rows(b[i].point, b[i].kvs)
BY DEF TableOf

\* The batch of rollback_to_point deletes the rows of the undone entries and no
\* others, because no two entries have the same point.
LEMMA UndoTable ==
  ASSUME NEW b \in Seq(Entry), Descending(b), NEW n \in 0..Len(b), NEW m \in 0..Len(b)
  PROVE  UndoneRows(TableOf(b, n), b, m) = TableOf(Kept(b, m), SaturatingSub(n, m))
<1>. DEFINE N == SaturatingSub(n, m)
            K == Kept(b, m)
<1>1. /\ \A i \in 1..(Len(b) - m) : K[i] = b[i + m]
      /\ Len(b) \in Nat
  BY DEF Kept
<1>2. N \in Nat /\ (n >= m => N = n - m) /\ (n < m => N = 0)
  BY DEF SaturatingSub
<1>3. \A i, j \in 1..Len(b) : b[i].point = b[j].point => i = j
  <2>. SUFFICES ASSUME NEW i \in 1..Len(b), NEW j \in 1..Len(b), i < j
                PROVE  b[i].point # b[j].point
    BY <1>1
  <2>1. b[i].point.height > b[j].point.height
    BY DEF Descending
  <2>2. b[j] \in Entry
    OBVIOUS
  <2>3. b[j].point.height \in Nat
    BY <2>2, ChainAssumption, BoundAssumption
    DEF Entry, BufferPoint, Point, MempoolPoint, BlockHeight
  <2>. QED BY <2>1, <2>3
<1>. HIDE DEF N, K
<1>4. ASSUME NEW r \in UndoneRows(TableOf(b, n), b, m)
      PROVE  r \in TableOf(K, N)
  <2>1. r \in TableOf(b, n)
    BY DEF UndoneRows
  <2>2. PICK i \in 1..n : r \in Rows(b[i].point, b[i].kvs)
    BY <2>1, TableRow
  <2>3. r.point = b[i].point /\ r.key \in DOMAIN b[i].kvs
    BY <2>2 DEF Rows
  <2>4. i \notin 1..m
    BY <2>3 DEF UndoneRows
  <2>5. i - m \in 1..N /\ i - m \in 1..(Len(b) - m) /\ (i - m) + m = i
    BY <1>1, <1>2, <2>4
  <2>6. K[i - m] = b[i]
    BY <1>1, <2>5
  <2>. QED BY <2>2, <2>5, <2>6, TableRow
<1>5. ASSUME NEW r \in TableOf(K, N)
      PROVE  r \in UndoneRows(TableOf(b, n), b, m)
  <2>1. PICK i \in 1..N : r \in Rows(K[i].point, K[i].kvs)
    BY TableRow
  <2>2. i \in 1..(Len(b) - m) /\ i + m \in 1..n /\ i + m \in 1..Len(b)
    BY <1>1, <1>2
  <2>3. r \in Rows(b[i + m].point, b[i + m].kvs)
    BY <1>1, <2>1, <2>2
  <2>4. r.point = b[i + m].point
    BY <2>3 DEF Rows
  <2>5. ASSUME NEW j \in 1..m PROVE r.point # b[j].point
    <3>1. j \in 1..Len(b) /\ j # i + m
      BY <1>1, <2>2
    <3>. QED BY <1>3, <2>2, <2>4, <3>1
  <2>6. r \in TableOf(b, n)
    BY <2>2, <2>3, TableRow
  <2>. QED BY <2>5, <2>6 DEF UndoneRows
<1>. QED BY <1>4, <1>5 DEF N, K

\* The rows put for a new point join those of the entries below it.
LEMMA PutTable ==
  ASSUME NEW b \in Seq(Entry), NEW n \in 0..Len(b), NEW p, NEW kvs,
         \A i \in 1..Len(b) : b[i].point # p,
         NEW B, B[1] = [point |-> p, kvs |-> kvs],
         \A i \in 2..(n + 1) : B[i] = b[i - 1]
  PROVE  Put(TableOf(b, n), p, kvs) = TableOf(B, n + 1)
<1>0. Len(b) \in Nat /\ n \in Nat
  OBVIOUS
<1>1. ASSUME NEW r \in Put(TableOf(b, n), p, kvs) PROVE r \in TableOf(B, n + 1)
  <2>1. CASE r \in Rows(p, kvs)
    <3>1. 1 \in 1..(n + 1) /\ r \in Rows(B[1].point, B[1].kvs)
      BY <1>0, <2>1
    <3>. QED BY <3>1, TableRow
  <2>2. CASE r \in TableOf(b, n)
    <3>1. PICK i \in 1..n : r \in Rows(b[i].point, b[i].kvs)
      BY <2>2, TableRow
    <3>2. i + 1 \in 2..(n + 1) /\ i + 1 \in 1..(n + 1) /\ (i + 1) - 1 = i
      BY <1>0
    <3>3. r \in Rows(B[i + 1].point, B[i + 1].kvs)
      BY <3>1, <3>2
    <3>. QED BY <3>2, <3>3, TableRow
  <2>. QED BY <2>1, <2>2 DEF Put
<1>2. ASSUME NEW r \in TableOf(B, n + 1) PROVE r \in Put(TableOf(b, n), p, kvs)
  <2>1. PICK i \in 1..(n + 1) : r \in Rows(B[i].point, B[i].kvs)
    BY TableRow
  <2>2. CASE i = 1
    BY <2>1, <2>2 DEF Put
  <2>3. CASE i # 1
    <3>1. i \in 2..(n + 1) /\ i - 1 \in 1..n /\ i - 1 \in 1..Len(b)
      BY <1>0, <2>3
    <3>2. r \in Rows(b[i - 1].point, b[i - 1].kvs)
      BY <2>1, <3>1
    <3>3. r \in TableOf(b, n)
      BY <3>1, <3>2, TableRow
    <3>4. r.point = b[i - 1].point
      BY <3>2 DEF Rows
    <3>. QED BY <3>1, <3>3, <3>4 DEF Put
  <2>. QED BY <2>2, <2>3
<1>. QED BY <1>1, <1>2

Stepped(b, l) ==
  \A i \in 1..Len(b) : /\ b[i].point \in Point
                       /\ b[i].point.height \in Nat
                       /\ b[i].point.height + i = l.height + 1

\* The confirmed entries go down from the tip one height at a time: by the
\* least position at which they would not.
LEMMA Heights ==
  ASSUME NEW d, NEW b, NEW l, Good(d, b, l, FALSE)
  PROVE  Stepped(b, l)
<1>. DEFINE H(i) == b[i].point.height
            T == {i \in 1..Len(b) : H(i) + i # l.height + 1}
<1>0. b \in Seq(Entry) /\ Chained(b, l, FALSE) /\ l \in Point
  BY DEF Good, Typed
<1>1. Len(b) \in Nat /\ l.height \in Nat
  BY <1>0, ChainAssumption DEF Point, BlockHeight
<1>2. ASSUME NEW i \in 1..Len(b)
      PROVE  /\ b[i].point.hash \in Block /\ b[i].point = PointOf(b[i].point.hash)
             /\ H(i) = Height[b[i].point.hash] /\ H(i) \in Nat
             /\ b[i].point \in Point
  <2>1. b[i] \in Entry /\ b[i].point = PointOf(b[i].point.hash)
    BY <1>0 DEF Chained
  <2>2. b[i].point.hash \in Block
    BY <2>1 DEF Entry, BufferPoint, Point, MempoolPoint
  <2>3. H(i) = Height[b[i].point.hash]
    BY <2>1 DEF PointOf
  <2>4. PointOf(b[i].point.hash) \in Point
    BY <2>2 DEF PointOf, Point, BlockHeight
  <2>. QED BY <2>1, <2>2, <2>3, <2>4, ChainAssumption
<1>3. ASSUME NEW i \in 1..Len(b), i - 1 \in 1..Len(b), H(i - 1) + (i - 1) = l.height + 1
      PROVE  H(i) + i = l.height + 1
  <2>1. i - 1 \in 1..(Len(b) - 1) /\ (i - 1) + 1 = i
    BY <1>1, <1>3
  <2>2. Prev[b[i - 1].point.hash] = b[i].point.hash
    BY <1>0, <2>1 DEF Chained
  <2>3. b[i - 1].point.hash # Genesis
    BY <1>2, <2>2, ChainAssumption
  <2>4. H(i - 1) = H(i) + 1
    BY SMTT(30), <1>2, <1>3, <2>2, <2>3, ChainAssumption
  <2>. HIDE DEF H
  <2>5. H(i) \in Nat /\ H(i - 1) \in Nat
    BY <1>2, <1>3 DEF H
  <2>. QED BY <1>1, <1>3, <2>4, <2>5
<1>4. T = {}
  <2>. SUFFICES ASSUME T # {} PROVE FALSE
    OBVIOUS
  <2>1. T \subseteq Nat
    BY <1>1
  <2>2. PICK i \in T : \A j \in T : i <= j
    BY <2>1, LeastNat
  <2>3. i \in 1..Len(b) /\ H(i) + i # l.height + 1
    BY <2>2
  <2>4. i # 1
    BY <1>0, <1>1, <2>3 DEF Chained
  <2>5. i - 1 \in 1..Len(b) /\ ~(i <= i - 1)
    BY <1>1, <2>3, <2>4
  <2>6. i - 1 \notin T
    <3>. HIDE DEF T
    <3>. QED BY <2>2, <2>5
  <2>7. H(i - 1) + (i - 1) = l.height + 1
    BY <2>5, <2>6
  <2>. QED BY <1>3, <2>3, <2>5, <2>7
<1>. QED BY <1>2, <1>4 DEF Stepped

\* The range deletion of a recorded block at height h keeps the rows of the
\* MaxRollback + 1 newest entries of a buffer whose newest entry is that block.
LEMMA GcKeeps ==
  ASSUME NEW d, NEW b, NEW l, Good(d, b, l, FALSE), NEW n \in 0..Len(b)
  PROVE  LET N == IF n > MaxRollback + 1 THEN MaxRollback + 1 ELSE n
         IN  GcTable(TableOf(b, n), l.height) = TableOf(b, N)
<1>. DEFINE N == IF n > MaxRollback + 1 THEN MaxRollback + 1 ELSE n
<1>1. /\ b \in Seq(Entry) /\ Len(b) \in Nat /\ l.height \in Nat /\ MaxRollback \in Nat
  BY ChainAssumption, BoundAssumption DEF Good, Typed, Point, BlockHeight
<1>2. ASSUME NEW i \in 1..n
      PROVE  b[i].point.height >= SaturatingSub(l.height, MaxRollback) <=> i \in 1..N
  <2>1. i \in 1..Len(b)
    BY <1>1
  <2>2. /\ b[i].point.height \in Nat
        /\ b[i].point.height + i = l.height + 1
    <3>1. Stepped(b, l)
      BY Heights
    <3>. QED BY <2>1, <3>1 DEF Stepped
  <2>. QED BY SMTT(30), <1>1, <2>2 DEF SaturatingSub
<1>3. N \in 0..n
  BY <1>1
<1>. HIDE DEF N
<1>4. ASSUME NEW r \in GcTable(TableOf(b, n), l.height) PROVE r \in TableOf(b, N)
  <2>1. /\ r \in TableOf(b, n)
        /\ r.point.height >= SaturatingSub(l.height, MaxRollback)
    BY DEF GcTable
  <2>2. PICK i \in 1..n : r \in Rows(b[i].point, b[i].kvs)
    BY <2>1, TableRow
  <2>3. r.point = b[i].point
    BY <2>2 DEF Rows
  <2>4. i \in 1..N
    BY <1>2, <2>1, <2>3
  <2>. QED BY <2>2, <2>4, TableRow
<1>5. ASSUME NEW r \in TableOf(b, N) PROVE r \in GcTable(TableOf(b, n), l.height)
  <2>1. PICK i \in 1..N : r \in Rows(b[i].point, b[i].kvs)
    BY TableRow
  <2>2. i \in 1..n
    BY <1>3
  <2>3. r.point = b[i].point
    BY <2>1 DEF Rows
  <2>4. r.point.height >= SaturatingSub(l.height, MaxRollback)
    BY <1>2, <2>1, <2>2, <2>3
  <2>5. r \in TableOf(b, n)
    BY <2>1, <2>2, TableRow
  <2>. QED BY <2>4, <2>5 DEF GcTable
<1>. QED BY <1>4, <1>5 DEF N

(***************************************************************************)
(* What each handler does to the buffer, whichever way it ends: nothing,   *)
(* an undo down to a point, a block or a snapshot over an undone base.     *)
(***************************************************************************)

\* The m newest entries are above p, and the rest are the buffer of p.
Base(m, p) ==
  /\ m \in 0..Len(buf)
  /\ Good(Undone(db, buf, m), Kept(buf, m), p, FALSE)
  /\ Kept(buf, m) # <<>> => mutable
  /\ processedMempool => m >= 1
  /\ \A i \in 1..m : buf[i].point.height > p.height

Rests == UNCHANGED <<rbTable, buf, last, processedMempool>>

Undoes == \E m \in 0..Len(buf), p \in Point : Base(m, p) /\ Undo(m, p)

Indexes(p) ==
  /\ p.height = last.height + 1
  /\ Prev[p.hash] = last.hash
  /\ mutable' \in BOOLEAN
  /\ mutable => mutable'
  /\ \E m \in 0..Len(buf) : Base(m, last) /\ CommitBlock(p, m, mutable')

Previews(s) ==
  \E m \in 0..Len(buf) : Base(m, last) /\ m < Len(buf) /\ CommitMempool(s, m)

\* A point found in the buffer is a base to undo to.
LEMMA PointBase ==
  ASSUME IInv, NEW p \in Point, InBuffer(buf, p)
  PROVE  Base(PointsSince(buf, p), p) /\ PointsSince(buf, p) < Len(buf)
<1>. DEFINE m == PointsSince(buf, p)
<1>1. /\ m \in 0..(Len(buf) - 1) /\ buf # <<>>
      /\ Good(Undone(db, buf, m), Kept(buf, m), p, FALSE)
  BY UndoToPoint
<1>2. buf \in Seq(Entry) /\ Len(buf) \in Nat
  BY DEF IInv, Good, Typed
<1>3. m + 1 \in 1..Len(buf) /\ buf[m + 1].point = p
  BY <1>2, PositionFacts DEF PointsSince
<1>. HIDE DEF m
<1>4. mutable
  BY <1>1 DEF IInv
<1>5. processedMempool => m >= 1
  <2>1. processedMempool => buf[1].point \notin Point
    BY BoundAssumption DEF IInv, Good, Chained, Point, MempoolPoint, BlockHeight
  <2>. QED BY <1>1, <1>2, <1>3, <2>1
<1>6. ASSUME NEW i \in 1..m PROVE buf[i].point.height > p.height
  <2>1. i \in 1..Len(buf) /\ i < m + 1
    BY <1>1, <1>2
  <2>. QED BY <1>3, <2>1 DEF IInv, Good, Descending
<1>7. m \in 0..Len(buf) /\ m < Len(buf)
  BY <1>1, <1>2
<1>. QED BY <1>1, <1>4, <1>5, <1>6, <1>7 DEF Base, m

\* The base a confirmed block is indexed over: last_processed, with the
\* snapshot undone.
LEMMA MempoolBase ==
  ASSUME IInv, processedMempool => InBuffer(buf, last)
  PROVE  Base(MempoolDepth, last)
<1>1. last \in Point /\ processedMempool \in BOOLEAN /\ buf \in Seq(Entry)
  BY DEF IInv, Good, Typed
<1>2. CASE processedMempool
  BY <1>1, <1>2, PointBase DEF MempoolDepth
<1>3. CASE ~processedMempool
  <2>1. MempoolDepth = 0 /\ 0 \in 0..Len(buf) /\ 1..0 = {}
    BY <1>1, <1>3 DEF MempoolDepth
  <2>2. /\ Good(Undone(db, buf, MempoolDepth), Kept(buf, MempoolDepth), last, FALSE)
        /\ Kept(buf, MempoolDepth) # <<>> => mutable
    BY BaseGood
  <2>. QED BY <1>3, <2>1, <2>2 DEF Base
<1>. QED BY <1>1, <1>2, <1>3

\* ChainEvent::RollForward.
LEMMA RollForwardEffect ==
  ASSUME IInv, NEW p \in Point, NEW tip, RollForward(p, tip)
  PROVE  Rests \/ Undoes \/ Indexes(p)
<1>. DEFINE m == MempoolDepth
<1>1. last \in Point /\ mutable \in BOOLEAN
  BY DEF IInv, Good, Typed
<1>2. CASE UNCHANGED <<store, memory>>
  BY <1>2 DEF Rests, store, memory
<1>3. CASE (processedMempool => InBuffer(buf, last)) /\ Undo(m, last)
  <2>1. Base(m, last)
    BY <1>3, MempoolBase
  <2>. HIDE DEF m
  <2>2. m \in 0..Len(buf)
    BY <2>1 DEF Base
  <2>. QED BY <1>1, <1>3, <2>1, <2>2 DEF Undoes
<1>4. CASE /\ processedMempool => InBuffer(buf, last)
           /\ p.height = last.height + 1 /\ ChainsOnLast(p)
           /\ mutable' = (mutable \/ NearTip(p, tip))
           /\ CommitBlock(p, m, mutable')
  <2>1. Base(m, last)
    BY <1>4, MempoolBase
  <2>2. mutable' \in BOOLEAN /\ (mutable => mutable')
    BY <1>1, <1>4 DEF NearTip
  <2>. HIDE DEF m
  <2>3. m \in 0..Len(buf)
    BY <2>1 DEF Base
  <2>. QED BY <1>4, <2>1, <2>2, <2>3 DEF Indexes, ChainsOnLast
<1>. QED BY <1>2, <1>3, <1>4 DEF RollForward

\* ChainEvent::RollBack.
LEMMA RollBackEffect ==
  ASSUME IInv, NEW p \in Point, RollBack(p)
  PROVE  Rests \/ Undoes
<1>1. CASE UNCHANGED <<store, memory>>
  BY <1>1 DEF Rests, store, memory
<1>2. CASE InBuffer(buf, p) /\ Undo(PointsSince(buf, p), p)
  <2>. DEFINE m == PointsSince(buf, p)
  <2>1. Base(m, p)
    BY <1>2, PointBase
  <2>. HIDE DEF m
  <2>2. m \in 0..Len(buf)
    BY <2>1 DEF Base
  <2>. QED BY <1>2, <2>1, <2>2 DEF Undoes, m
<1>. QED BY <1>1, <1>2 DEF RollBack

\* ChainEvent::MempoolBlocks.
LEMMA MempoolBlocksEffect ==
  ASSUME IInv, NEW t, NEW s \in Snapshot, MempoolBlocks(t, s)
  PROVE  Rests \/ Undoes \/ (t = last.hash /\ Previews(s))
<1>. DEFINE m == PointsSince(buf, last)
<1>1. last \in Point
  BY DEF IInv, Good, Typed
<1>2. CASE UNCHANGED <<store, memory>> \/ UNCHANGED <<db, rbTable, memory>>
  BY <1>2 DEF Rests, store, memory
<1>3. ASSUME InBuffer(buf, last) PROVE Base(m, last) /\ m < Len(buf) /\ m \in 0..Len(buf)
  <2>1. Base(m, last) /\ m < Len(buf)
    BY <1>1, <1>3, PointBase
  <2>. HIDE DEF m
  <2>. QED BY <2>1 DEF Base
<1>4. CASE InBuffer(buf, last) /\ Undo(m, last)
  <2>. HIDE DEF m
  <2>. QED BY <1>1, <1>3, <1>4 DEF Undoes
<1>5. CASE InBuffer(buf, last) /\ t = last.hash /\ CommitMempool(s, m)
  <2>. HIDE DEF m
  <2>. QED BY <1>3, <1>5 DEF Previews
<1>. QED BY <1>2, <1>4, <1>5 DEF MempoolBlocks

(***************************************************************************)
(* Every effect keeps the table the rows of the newest entries.            *)
(***************************************************************************)

\* The table t holds the rows of the n newest entries of b: at most those of
\* MaxRollback + 1 blocks and of a snapshot, which a recorded block's range
\* deletion leaves and which fit the buffer's capacity.
Mirror(t, b, mp, n) ==
  /\ n \in 0..Len(b)
  /\ n <= MaxRollback + (IF mp THEN 2 ELSE 1)
  /\ t = TableOf(b, n)

\* The entries of B without rows had none in b, or are too old for a tip at h.
Lost(b, n, B, N, h) ==
  \A j \in 1..Len(B) : j > N =>
    \/ B[j].point.height + MaxRollback < h
    \/ \E i \in 1..Len(b) : i > n /\ B[j] = b[i]

\* Undoing down to a base undoes its rows.
LEMMA BaseMirror ==
  ASSUME IInv, NEW n, Mirror(rbTable, buf, processedMempool, n),
         NEW m, NEW p, Base(m, p), NEW h
  PROVE  /\ Mirror(UndoneRows(rbTable, buf, m), Kept(buf, m), FALSE, SaturatingSub(n, m))
         /\ Lost(buf, n, Kept(buf, m), SaturatingSub(n, m), h)
<1>. DEFINE N == SaturatingSub(n, m)
            K == Kept(buf, m)
<1>1. buf \in Seq(Entry) /\ Descending(buf) /\ processedMempool \in BOOLEAN
  BY DEF IInv, Good, Typed
<1>2. /\ n \in 0..Len(buf) /\ n <= MaxRollback + (IF processedMempool THEN 2 ELSE 1)
      /\ rbTable = TableOf(buf, n)
  BY DEF Mirror
<1>3. m \in 0..Len(buf) /\ (processedMempool => m >= 1)
  BY DEF Base
<1>4. UndoneRows(rbTable, buf, m) = TableOf(K, N)
  BY <1>1, <1>2, <1>3, UndoTable
<1>5. /\ Len(K) = Len(buf) - m
      /\ \A i \in 1..(Len(buf) - m) : K[i] = buf[i + m]
  BY <1>1, <1>3, KeptFacts
<1>6. Len(buf) \in Nat /\ MaxRollback \in Nat
  BY <1>1, BoundAssumption
<1>7. N \in 0..Len(K) /\ N <= MaxRollback + 1
  BY <1>1, <1>2, <1>3, <1>5, <1>6 DEF SaturatingSub
<1>8. ASSUME NEW j \in 1..Len(K), j > N
      PROVE  \E i \in 1..Len(buf) : i > n /\ K[j] = buf[i]
  <2>1. j + m \in 1..Len(buf) /\ j + m > n
    BY <1>2, <1>3, <1>5, <1>6, <1>8 DEF SaturatingSub
  <2>2. K[j] = buf[j + m]
    BY <1>5
  <2>. QED BY <2>1, <2>2
<1>. QED BY <1>4, <1>7, <1>8 DEF Mirror, Lost

\* A block: its rows are put, and the rows below max_rollback deleted.
LEMMA IndexMirror ==
  ASSUME IInv, NEW n, Mirror(rbTable, buf, processedMempool, n),
         NEW p \in Point, Indexes(p)
  PROVE  \E N : /\ Mirror(rbTable', buf', processedMempool', N)
                /\ Lost(buf, n, buf', N, last'.height)
<1>1. PICK m \in 0..Len(buf) : Base(m, last) /\ CommitBlock(p, m, mutable')
  BY DEF Indexes
<1>2. p.height = last.height + 1 /\ Prev[p.hash] = last.hash /\ mutable' \in BOOLEAN
  BY DEF Indexes
<1>. DEFINE K == Kept(buf, m)
            U == UndoneRows(rbTable, buf, m)
            n1 == SaturatingSub(n, m)
            d == Undone(db, buf, m)
            w == BlockWrites(p, d)
            kvs == Originals(d, w)
            B == AddBlock(K, p, kvs, Capacity)
<1>3. /\ buf' = IF mutable' THEN B ELSE K
      /\ rbTable' = IF mutable' THEN GcTable(Put(U, p, kvs), p.height) ELSE U
      /\ last' = p /\ processedMempool' = FALSE
  BY <1>1 DEF CommitBlock
<1>4. Good(d, K, last, FALSE)
  BY <1>1 DEF Base
<1>5. Mirror(U, K, FALSE, n1) /\ Lost(buf, n, K, n1, p.height)
  BY <1>1, BaseMirror
<1>6. Good(Applied(d, w), B, p, FALSE)
  BY <1>2, <1>4, CommitRecorded
<1>7. [point |-> p, kvs |-> kvs] \in Entry
  <2>1. d \in DB /\ WellTyped(w)
    BY <1>2, <1>4, CommitState DEF Good, Typed
  <2>. HIDE DEF d, w
  <2>. QED BY <2>1, WritesTyped DEF Entry, BufferPoint
<1>. HIDE DEF K, U, n1, d, w, kvs
<1>8. K \in Seq(Entry) /\ Len(K) \in Nat /\ last \in Point
  BY <1>4 DEF Good, Typed
<1>9. Capacity \in Nat \ {0} /\ MaxRollback \in Nat /\ Capacity = MaxRollback + 2
      /\ last.height \in Nat
  <2>1. Capacity \in Nat \ {0} /\ MaxRollback \in Nat /\ Capacity = MaxRollback + 2
    BY BoundAssumption DEF Capacity
  <2>2. last.height \in BlockHeight
    BY <1>8 DEF Point
  <2>3. BlockHeight \subseteq Nat
    BY ChainAssumption DEF BlockHeight
  <2>. QED BY <2>1, <2>2, <2>3
<1>10. Pushed(B, K, [point |-> p, kvs |-> kvs], Capacity)
  BY <1>7, <1>8, <1>9, AddBlockFacts
<1>. HIDE DEF B
<1>11. CASE ~mutable'
  BY <1>3, <1>5, <1>11
<1>12. CASE mutable'
  <2>. DEFINE M == n1 + 1
              N == IF M > MaxRollback + 1 THEN MaxRollback + 1 ELSE M
  <2>1. n1 \in 0..Len(K) /\ n1 <= MaxRollback + 1 /\ U = TableOf(K, n1)
    BY <1>5 DEF Mirror
  <2>2. /\ Len(B) = IF Len(K) + 1 > Capacity THEN Capacity ELSE Len(K) + 1
        /\ B[1] = [point |-> p, kvs |-> kvs]
        /\ \A i \in 2..Len(B) : B[i] = K[i - 1]
    BY <1>10 DEF Pushed
  <2>3. Len(B) \in Nat /\ M \in 0..Len(B)
    BY <1>8, <1>9, <2>1, <2>2
  <2>4. ASSUME NEW i \in 1..Len(K) PROVE K[i].point # p
    <3>1. Stepped(K, last)
      BY <1>4, Heights
    <3>. QED BY <1>2, <1>9, <3>1 DEF Stepped
  <2>5. \A i \in 2..(n1 + 1) : B[i] = K[i - 1]
    BY <2>1, <2>2, <2>3
  <2>6. Put(U, p, kvs) = TableOf(B, M)
    BY <1>8, <2>1, <2>2, <2>4, <2>5, PutTable
  <2>7. GcTable(TableOf(B, M), p.height) = TableOf(B, N)
    <3>. HIDE DEF M
    <3>. QED BY <1>6, <2>3, GcKeeps
  <2>8. N \in 0..Len(B) /\ N <= MaxRollback + 1
    BY <1>9, <2>1, <2>3
  <2>9. ASSUME NEW j \in 1..Len(B), j > N
        PROVE  \/ B[j].point.height + MaxRollback < p.height
               \/ \E i \in 1..Len(buf) : i > n /\ B[j] = buf[i]
    <3>1. CASE M > MaxRollback + 1
      <4>1. Stepped(B, p)
        BY <1>6, Heights
      <4>2. j > MaxRollback + 1 /\ j \in Nat /\ p.height \in Nat
        BY <1>2, <1>9, <2>9, <3>1
      <4>. QED BY SMTT(30), <1>9, <4>1, <4>2 DEF Stepped
    <3>2. CASE ~(M > MaxRollback + 1)
      <4>1. j \in 2..Len(B) /\ j - 1 \in 1..Len(K) /\ j - 1 > n1
        <5>. DEFINE b == Len(B)
                    k == Len(K)
        <5>1. b \in Nat /\ k \in Nat /\ b <= k + 1 /\ n1 \in 0..k /\ j \in 1..b
          BY <1>8, <1>9, <2>1, <2>2, <2>3
        <5>2. j > n1 + 1
          BY <2>9, <3>2
        <5>. HIDE DEF b, k
        <5>3. j \in 2..b /\ j - 1 \in 1..k /\ j - 1 > n1
          BY <5>1, <5>2
        <5>. QED BY <5>3 DEF b, k
      <4>2. B[j] = K[j - 1]
        BY <2>2, <4>1
      <4>. QED BY <1>5, <4>1, <4>2 DEF Lost
    <3>. QED BY <3>1, <3>2
  <2>. HIDE DEF M, N
  <2>10. Mirror(rbTable', buf', FALSE, N) /\ Lost(buf, n, buf', N, p.height)
    BY <1>3, <1>12, <2>6, <2>7, <2>8, <2>9 DEF Mirror, Lost
  <2>. QED BY <1>3, <2>10
<1>. QED BY <1>2, <1>11, <1>12

\* A snapshot: its rows are put over those of its tip.
LEMMA PreviewMirror ==
  ASSUME IInv, NEW n, Mirror(rbTable, buf, processedMempool, n),
         NEW s \in Snapshot, Previews(s), NEW h
  PROVE  \E N : /\ Mirror(rbTable', buf', processedMempool', N)
                /\ Lost(buf, n, buf', N, h)
                /\ N >= 2 \/ \E i \in 1..Len(buf) : i > n /\ buf[i].point = last
<1>1. PICK m \in 0..Len(buf) : Base(m, last) /\ m < Len(buf) /\ CommitMempool(s, m)
  BY DEF Previews
<1>. DEFINE K == Kept(buf, m)
            U == UndoneRows(rbTable, buf, m)
            n1 == SaturatingSub(n, m)
            d == Undone(db, buf, m)
            w == MempoolWrites(s, last, d)
            kvs == Originals(d, w)
            q == MempoolPoint(last.hash)
            B == AddBlock(K, q, kvs, Capacity)
            N == n1 + 1
<1>3. /\ buf' = B
      /\ rbTable' = Put(U, q, kvs)
      /\ last' = last /\ processedMempool' = TRUE
  BY <1>1 DEF CommitMempool
<1>4. Good(d, K, last, FALSE)
  BY <1>1 DEF Base
<1>5. Mirror(U, K, FALSE, n1) /\ Lost(buf, n, K, n1, h)
  BY <1>1, BaseMirror
<1>6. K \in Seq(Entry) /\ Len(K) \in Nat /\ last \in Point /\ last.hash \in Block
  BY <1>4 DEF Good, Typed, Point
<1>7. [point |-> q, kvs |-> kvs] \in Entry
  <2>1. d \in DB /\ WellTyped(w)
    BY <1>4, <1>6, MempoolWritesTyped DEF Good, Typed
  <2>. HIDE DEF d, w
  <2>2. kvs \in Kvs
    BY <2>1, WritesTyped
  <2>. QED BY <1>6, <2>2 DEF Entry, BufferPoint
<1>8. Len(buf) \in Nat /\ Len(K) = Len(buf) - m /\ K[1] = buf[1 + m] /\ n \in Nat
  <2>1. buf \in Seq(Entry) /\ Len(buf) \in Nat /\ n \in Nat
    BY DEF IInv, Good, Typed, Mirror
  <2>2. /\ Len(K) = Len(buf) - m
        /\ \A i \in 1..(Len(buf) - m) : K[i] = buf[i + m]
    BY <1>1, <2>1, KeptFacts
  <2>3. 1 \in 1..(Len(buf) - m)
    BY <1>1, <2>1
  <2>. QED BY <2>1, <2>2, <2>3
<1>9. Capacity \in Nat \ {0} /\ MaxRollback \in Nat /\ Capacity = MaxRollback + 2
      /\ last.height \in Nat /\ MaxU64 > last.height + 1 /\ MaxU64 \in Nat
  <2>1. last.height \in Nat /\ MaxU64 > last.height + 1 /\ MaxU64 \in Nat
    BY <1>6, BoundAssumption, ChainAssumption DEF Point, BlockHeight
  <2>. QED BY <2>1, BoundAssumption DEF Capacity
<1>10. q.height = MaxU64
  BY DEF MempoolPoint
<1>11. N >= 2 \/ \E i \in 1..Len(buf) : i > n /\ buf[i].point = last
  <2>1. K[1].point = last
    BY <1>1, <1>4, <1>8 DEF Good, Chained
  <2>2. CASE n > m
    BY <1>8, <2>2 DEF SaturatingSub
  <2>3. CASE ~(n > m)
    <3>1. 1 + m \in 1..Len(buf) /\ 1 + m > n
      BY <1>1, <1>8, <2>3
    <3>. QED BY <1>8, <2>1, <3>1
  <2>. QED BY <2>2, <2>3
<1>. HIDE DEF K, U, n1, d, w, kvs, q
<1>12. Pushed(B, K, [point |-> q, kvs |-> kvs], Capacity)
  BY <1>6, <1>7, <1>9, AddBlockFacts
<1>. HIDE DEF B
<1>13. n1 \in 0..Len(K) /\ n1 <= MaxRollback + 1 /\ U = TableOf(K, n1)
  BY <1>5 DEF Mirror
<1>14. /\ Len(B) = IF Len(K) + 1 > Capacity THEN Capacity ELSE Len(K) + 1
       /\ B[1] = [point |-> q, kvs |-> kvs]
       /\ \A i \in 2..Len(B) : B[i] = K[i - 1]
  BY <1>12 DEF Pushed
<1>15. Len(B) \in Nat /\ N \in 0..Len(B) /\ N <= MaxRollback + 2
  BY <1>6, <1>9, <1>13, <1>14
<1>16. ASSUME NEW i \in 1..Len(K) PROVE K[i].point # q
  <2>1. Stepped(K, last)
    BY <1>4, Heights
  <2>. QED BY SMTT(30), <1>9, <1>10, <2>1 DEF Stepped
<1>17. \A i \in 2..(n1 + 1) : B[i] = K[i - 1]
  BY <1>13, <1>14, <1>15
<1>18. Put(U, q, kvs) = TableOf(B, N)
  BY <1>6, <1>13, <1>14, <1>16, <1>17, PutTable
<1>19. ASSUME NEW j \in 1..Len(B), j > N
       PROVE  \/ B[j].point.height + MaxRollback < h
              \/ \E i \in 1..Len(buf) : i > n /\ B[j] = buf[i]
  <2>1. j \in 2..Len(B) /\ j - 1 \in 1..Len(K) /\ j - 1 > n1
    BY <1>6, <1>9, <1>13, <1>14, <1>15, <1>19
  <2>2. B[j] = K[j - 1]
    BY <1>14, <2>1
  <2>. QED BY <1>5, <2>1, <2>2 DEF Lost
<1>. HIDE DEF N
<1>20. Mirror(rbTable', buf', TRUE, N) /\ Lost(buf, n, buf', N, h)
  BY <1>3, <1>15, <1>18, <1>19 DEF Mirror, Lost
<1>. QED BY <1>3, <1>11, <1>20

\* A step that leaves the buffer, or undoes a part of it.
LEMMA UndoMirror ==
  ASSUME IInv, NEW n, Mirror(rbTable, buf, processedMempool, n), Rests \/ Undoes, NEW h
  PROVE  \E N : /\ Mirror(rbTable', buf', processedMempool', N)
                /\ Lost(buf, n, buf', N, h)
<1>1. CASE Rests
  <2>1. Mirror(rbTable', buf', processedMempool', n)
    BY <1>1 DEF Rests
  <2>2. Lost(buf, n, buf', n, h)
    BY <1>1 DEF Rests, Lost
  <2>. QED BY <2>1, <2>2
<1>2. CASE Undoes
  <2>1. PICK m \in 0..Len(buf), p \in Point : Base(m, p) /\ Undo(m, p)
    BY <1>2 DEF Undoes
  <2>2. \A r : /\ Mirror(UndoneRows(rbTable, buf, m), Kept(buf, m), FALSE,
                         SaturatingSub(n, m))
               /\ Lost(buf, n, Kept(buf, m), SaturatingSub(n, m), r)
    BY <2>1, BaseMirror
  <2>3. /\ rbTable' = UndoneRows(rbTable, buf, m) /\ buf' = Kept(buf, m)
        /\ processedMempool' = FALSE
    BY <2>1 DEF Undo
  <2>. QED BY <2>2, <2>3
<1>. QED BY <1>1, <1>2

TableInv == \E n : Mirror(rbTable, buf, processedMempool, n)

\* A step is one of the effects.
LEMMA StepEffect ==
  ASSUME IInv, [Next]_vars
  PROVE  \/ Rests \/ Undoes
         \/ \E p \in Point : Indexes(p)
         \/ \E s \in Snapshot : Previews(s)
<1>1. ASSUME NEW p \in Point, NEW tip \in BlockHeight, RollForward(p, tip)
      PROVE  Rests \/ Undoes \/ Indexes(p)
  BY <1>1, RollForwardEffect
<1>2. ASSUME NEW p \in Point, RollBack(p) PROVE Rests \/ Undoes
  BY <1>2, RollBackEffect
<1>3. ASSUME NEW t \in Block, NEW s \in Snapshot, MempoolBlocks(t, s)
      PROVE  Rests \/ Undoes \/ Previews(s)
  BY <1>3, MempoolBlocksEffect
<1>4. ASSUME NEW p \in Point, Stop(p) PROVE Rests
  BY <1>4 DEF Stop, Rests, store, memory
<1>5. CASE UNCHANGED vars
  BY <1>5 DEF Rests, vars, store, memory
<1>. QED BY <1>1, <1>2, <1>3, <1>4, <1>5 DEF Next

\* The persistent buffer mirrors the newest entries throughout.
LEMMA TableInvariance == Spec => []TableInv
<1>1. Init => TableInv
  <2>. SUFFICES ASSUME Init PROVE Mirror(rbTable, buf, processedMempool, 0)
    BY DEF TableInv
  <2>1. 1..0 = {} /\ TableOf(buf, 0) = {}
    BY DEF TableOf
  <2>. QED BY <2>1, BoundAssumption DEF Init, Mirror
<1>2. IInv /\ TableInv /\ [Next]_vars => TableInv'
  <2>. SUFFICES ASSUME IInv, TableInv, [Next]_vars PROVE TableInv'
    OBVIOUS
  <2>1. PICK n : Mirror(rbTable, buf, processedMempool, n)
    BY DEF TableInv
  <2>2. \E N : Mirror(rbTable', buf', processedMempool', N)
    <3>1. CASE Rests \/ Undoes
      BY <2>1, <3>1, UndoMirror
    <3>2. CASE \E p \in Point : Indexes(p)
      BY <2>1, <3>2, IndexMirror
    <3>3. CASE \E s \in Snapshot : Previews(s)
      BY <2>1, <3>3, PreviewMirror
    <3>. QED BY <3>1, <3>2, <3>3, StepEffect
  <2>. QED BY <2>2 DEF TableInv
<1>. QED BY <1>1, <1>2, Invariance, PTL DEF Spec

\* What RollbackBufferKV holds is always the rows of a prefix of the buffer, so
\* a process that starts again reads back entries this one had, with their
\* values: undo, put and range deletion move the table and the deque together.
THEOREM TableFollowsBuffer == Spec => []TableMirrorsBuffer
<1>1. TableInv => TableMirrorsBuffer
  BY DEF TableInv, Mirror, TableOf, TableMirrorsBuffer
<1>. QED BY <1>1, TableInvariance, PTL

(***************************************************************************)
(* The rollback window.                                                    *)
(***************************************************************************)

\* Draining entries above p leaves every entry and row up to p.
LEMMA BaseWindow ==
  ASSUME IInv, TableInv, NEW m, NEW p, Base(m, p), NEW q, q.height <= p.height,
         p.height \in Nat, q.height \in Nat
  PROVE  /\ \A i \in 1..Len(buf) : buf[i].point = q =>
              \E j \in 1..Len(Kept(buf, m)) : Kept(buf, m)[j] = buf[i]
         /\ \A r \in rbTable : r.point = q => r \in UndoneRows(rbTable, buf, m)
<1>1. buf \in Seq(Entry) /\ Len(buf) \in Nat
  BY DEF IInv, Good, Typed
<1>2. m \in 0..Len(buf) /\ \A i \in 1..m : buf[i].point.height > p.height
  BY DEF Base
<1>3. \A i \in 1..m : buf[i].point # q
  <2>. SUFFICES ASSUME NEW i \in 1..m, buf[i].point = q PROVE FALSE
    OBVIOUS
  <2>1. q.height > p.height
    BY <1>2
  <2>. QED BY <2>1
<1>4. /\ Len(Kept(buf, m)) = Len(buf) - m
      /\ \A i \in 1..(Len(buf) - m) : Kept(buf, m)[i] = buf[i + m]
  BY <1>1, <1>2, KeptFacts
<1>5. ASSUME NEW i \in 1..Len(buf), buf[i].point = q
      PROVE  \E j \in 1..Len(Kept(buf, m)) : Kept(buf, m)[j] = buf[i]
  <2>1. i \notin 1..m
    BY <1>3, <1>5
  <2>2. i - m \in 1..(Len(buf) - m) /\ (i - m) + m = i
    BY <1>1, <1>2, <2>1
  <2>. QED BY <1>4, <2>2
<1>6. \A r \in rbTable : r.point = q => r \in UndoneRows(rbTable, buf, m)
  BY <1>3 DEF UndoneRows
<1>. QED BY <1>5, <1>6

\* The points of rows are points of the buffer, none of which is a block above
\* last_processed.
LEMMA RowPoints ==
  ASSUME IInv, TableInv, NEW r \in rbTable
  PROVE  \E i \in 1..Len(buf) : r.point = buf[i].point
<1>1. PICK n : Mirror(rbTable, buf, processedMempool, n)
  BY DEF TableInv
<1>2. PICK i \in 1..n : r \in Rows(buf[i].point, buf[i].kvs)
  BY <1>1, TableRow DEF Mirror
<1>3. i \in 1..Len(buf) /\ r.point = buf[i].point
  BY <1>1, <1>2 DEF Mirror, Rows, IInv, Good, Typed
<1>. QED BY <1>3

\* A point of the buffer is the mempool point or at most as high as
\* last_processed.
LEMMA EntryHeights ==
  ASSUME IInv, NEW i \in 1..Len(buf)
  PROVE  /\ buf[i].point.height \in Nat
         /\ buf[i].point.height = MaxU64 \/ buf[i].point.height <= last.height
<1>1. /\ buf \in Seq(Entry) /\ Len(buf) \in Nat /\ processedMempool \in BOOLEAN
      /\ Chained(buf, last, processedMempool) /\ Descending(buf) /\ last \in Point
  BY DEF IInv, Good, Typed
<1>2. buf[i].point.height \in Nat /\ last.height \in Nat
  <2>0. buf[i] \in Entry
    BY <1>1
  <2>1. buf[i].point \in BufferPoint
    BY <2>0 DEF Entry
  <2>. QED BY SMTT(30), <1>1, <2>1, ChainAssumption, BoundAssumption
       DEF BufferPoint, Point, MempoolPoint, BlockHeight
<1>3. First \in 1..2 /\ (i >= First => buf[First].point = last)
  BY <1>1 DEF Chained, First
<1>4. CASE i < First
  <2>1. i = 1 /\ processedMempool
    BY <1>1, <1>4 DEF First
  <2>. QED BY <1>1, <1>2, <2>1 DEF Chained, MempoolPoint
<1>5. CASE i = First
  BY <1>2, <1>3, <1>5
<1>6. CASE i > First
  <2>1. First \in 1..Len(buf) /\ buf[First].point = last
    BY <1>1, <1>3, <1>6
  <2>2. last.height > buf[i].point.height
    BY <1>1, <1>6, <2>1 DEF Descending
  <2>. QED BY <1>2, <2>2
<1>. QED BY <1>3, <1>4, <1>5, <1>6

\* A push on a buffer that starts at l drops no entry that is within
\* MaxRollback of l, nor one within MaxRollback of a block above l.
LEMMA PushWindow ==
  ASSUME NEW K \in Seq(Entry), NEW l, l.height \in Nat, Stepped(K, l),
         NEW B, NEW e, Pushed(B, K, e, Capacity),
         NEW j \in 1..Len(K), l.height <= K[j].point.height + MaxRollback
  PROVE  \E x \in 1..Len(B) : B[x] = K[j]
<1>1. MaxRollback \in Nat /\ Capacity = MaxRollback + 2 /\ Len(K) \in Nat
  BY BoundAssumption DEF Capacity
<1>2. K[j].point.height \in Nat /\ K[j].point.height + j = l.height + 1
  BY DEF Stepped
<1>3. j <= MaxRollback + 1
  BY <1>1, <1>2
<1>4. j + 1 \in 2..Len(B) /\ j + 1 \in 1..Len(B) /\ (j + 1) - 1 = j
  <2>1. Len(B) = IF Len(K) + 1 > Capacity THEN Capacity ELSE Len(K) + 1
    BY DEF Pushed
  <2>2. CASE Len(K) + 1 > Capacity
    BY <1>1, <1>3, <2>1, <2>2
  <2>3. CASE ~(Len(K) + 1 > Capacity)
    BY <1>1, <2>1, <2>3
  <2>. QED BY <2>2, <2>3
<1>5. B[j + 1] = K[j]
  BY <1>4 DEF Pushed
<1>. QED BY <1>4, <1>5

\* Undoing keeps the window of the point it goes down to.
LEMMA UndoWindow ==
  ASSUME IInv, TableInv, Rests \/ Undoes
  PROVE  WindowStep
<1>1. CASE Rests
  BY <1>1 DEF Rests, WindowStep
<1>2. CASE Undoes
  <2>1. PICK m \in 0..Len(buf), p \in Point : Base(m, p) /\ Undo(m, p)
    BY <1>2 DEF Undoes
  <2>2. /\ rbTable' = UndoneRows(rbTable, buf, m) /\ buf' = Kept(buf, m) /\ last' = p
    BY <2>1 DEF Undo
  <2>3. p.height \in Nat
    BY ChainAssumption DEF Point, BlockHeight
  <2>4. ASSUME NEW q, q.height \in Nat, InWindow(q, p.height)
        PROVE  /\ \A i \in 1..Len(buf) : buf[i].point = q =>
                    \E j \in 1..Len(Kept(buf, m)) : Kept(buf, m)[j] = buf[i]
               /\ \A r \in rbTable : r.point = q => r \in UndoneRows(rbTable, buf, m)
    <3>1. q.height <= p.height
      BY <2>4 DEF InWindow
    <3>. QED BY <2>1, <2>3, <2>4, <3>1, BaseWindow
  <2>5. ASSUME NEW i \in 1..Len(buf), InWindow(buf[i].point, p.height)
        PROVE  \E j \in 1..Len(Kept(buf, m)) : Kept(buf, m)[j] = buf[i]
    BY <2>4, <2>5, EntryHeights
  <2>6. ASSUME NEW r \in rbTable, InWindow(r.point, p.height)
        PROVE  r \in UndoneRows(rbTable, buf, m)
    <3>1. PICK i \in 1..Len(buf) : r.point = buf[i].point
      BY RowPoints
    <3>2. r.point.height \in Nat
      BY <3>1, EntryHeights
    <3>. QED BY <2>4, <2>6, <3>2
  <2>. QED BY <2>2, <2>5, <2>6 DEF WindowStep
<1>. QED BY <1>1, <1>2

\* A block drops only what is more than MaxRollback below it.
LEMMA IndexWindow ==
  ASSUME IInv, TableInv, NEW p \in Point, Indexes(p)
  PROVE  WindowStep
<1>1. PICK m \in 0..Len(buf) : Base(m, last) /\ CommitBlock(p, m, mutable')
  BY DEF Indexes
<1>2. p.height = last.height + 1 /\ Prev[p.hash] = last.hash /\ mutable' \in BOOLEAN
  BY DEF Indexes
<1>. DEFINE K == Kept(buf, m)
            U == UndoneRows(rbTable, buf, m)
            d == Undone(db, buf, m)
            kvs == Originals(d, BlockWrites(p, d))
            B == AddBlock(K, p, kvs, Capacity)
<1>3. /\ buf' = IF mutable' THEN B ELSE K
      /\ rbTable' = IF mutable' THEN GcTable(Put(U, p, kvs), p.height) ELSE U
      /\ last' = p
  BY <1>1 DEF CommitBlock
<1>4. Good(d, K, last, FALSE)
  BY <1>1 DEF Base
<1>5. Stepped(K, last)
  BY <1>4, Heights
<1>6. K \in Seq(Entry) /\ last \in Point
  BY <1>4 DEF Good, Typed
<1>7. /\ last.height \in Nat /\ p.height < MaxU64 /\ MaxU64 \in Nat
      /\ MaxRollback \in Nat /\ Capacity \in Nat \ {0} /\ p.height \in Nat
  <2>1. last.height \in Nat /\ p.height < MaxU64
    BY <1>6, BoundAssumption, ChainAssumption DEF Point, BlockHeight
  <2>. QED BY <1>2, <2>1, BoundAssumption DEF Capacity
<1>8. Pushed(B, K, [point |-> p, kvs |-> kvs], Capacity)
  <2>1. d \in DB /\ WellTyped(BlockWrites(p, d))
    BY <1>2, <1>4, CommitState DEF Good, Typed
  <2>. HIDE DEF d
  <2>2. [point |-> p, kvs |-> kvs] \in Entry
    BY <2>1, WritesTyped DEF Entry, BufferPoint
  <2>. HIDE DEF kvs, K
  <2>. QED BY <1>6, <1>7, <2>2, AddBlockFacts
<1>9. ASSUME NEW i \in 1..Len(buf), InWindow(buf[i].point, p.height)
      PROVE  /\ buf[i].point.height \in Nat /\ buf[i].point.height <= last.height
             /\ last.height <= buf[i].point.height + MaxRollback
  <2>1. /\ buf[i].point.height \in Nat
        /\ buf[i].point.height = MaxU64 \/ buf[i].point.height <= last.height
    BY EntryHeights
  <2>. QED BY <1>2, <1>7, <1>9, <2>1 DEF InWindow
<1>. HIDE DEF d, kvs, U, K, B
<1>10. ASSUME NEW i \in 1..Len(buf), InWindow(buf[i].point, p.height)
       PROVE  \E j \in 1..Len(K) : K[j] = buf[i]
  BY <1>1, <1>7, <1>9, <1>10, BaseWindow DEF K
<1>11. ASSUME NEW i \in 1..Len(buf), InWindow(buf[i].point, p.height)
       PROVE  \E j \in 1..Len(buf') : buf'[j] = buf[i]
  <2>1. PICK j \in 1..Len(K) : K[j] = buf[i]
    BY <1>10, <1>11
  <2>2. last.height <= K[j].point.height + MaxRollback
    BY <1>9, <1>11, <2>1
  <2>3. \E x \in 1..Len(B) : B[x] = K[j]
    BY <1>5, <1>6, <1>7, <1>8, <2>2, PushWindow
  <2>. QED BY <1>2, <1>3, <2>1, <2>3
<1>12. ASSUME NEW r \in rbTable, InWindow(r.point, p.height)
       PROVE  r \in rbTable'
  <2>1. PICK i \in 1..Len(buf) : r.point = buf[i].point
    BY RowPoints
  <2>2. r.point.height \in Nat /\ r.point.height <= last.height
    BY <1>9, <1>12, <2>1
  <2>3. r \in U
    BY <1>1, <1>7, <2>2, BaseWindow DEF U
  <2>4. r.point # p
    BY <1>2, <1>7, <2>2
  <2>5. r.point.height >= SaturatingSub(p.height, MaxRollback)
    BY <1>7, <1>12, <2>2 DEF SaturatingSub, InWindow
  <2>6. r \in GcTable(Put(U, p, kvs), p.height)
    BY <2>3, <2>4, <2>5 DEF GcTable, Put
  <2>. QED BY <1>2, <1>3, <2>3, <2>6
<1>. QED BY <1>3, <1>11, <1>12 DEF WindowStep

\* A snapshot drops only what is more than MaxRollback below its tip.
LEMMA PreviewWindow ==
  ASSUME IInv, TableInv, NEW s \in Snapshot, Previews(s)
  PROVE  WindowStep
<1>1. PICK m \in 0..Len(buf) : Base(m, last) /\ m < Len(buf) /\ CommitMempool(s, m)
  BY DEF Previews
<1>. DEFINE K == Kept(buf, m)
            U == UndoneRows(rbTable, buf, m)
            d == Undone(db, buf, m)
            kvs == Originals(d, MempoolWrites(s, last, d))
            q == MempoolPoint(last.hash)
            B == AddBlock(K, q, kvs, Capacity)
<1>3. buf' = B /\ rbTable' = Put(U, q, kvs) /\ last' = last
  BY <1>1 DEF CommitMempool
<1>4. Good(d, K, last, FALSE)
  BY <1>1 DEF Base
<1>5. Stepped(K, last)
  BY <1>4, Heights
<1>6. K \in Seq(Entry) /\ last \in Point /\ last.hash \in Block
  BY <1>4 DEF Good, Typed, Point
<1>7. /\ last.height \in Nat /\ last.height < MaxU64 /\ MaxU64 \in Nat
      /\ MaxRollback \in Nat /\ Capacity \in Nat \ {0} /\ q.height = MaxU64
  <2>1. last.height \in Nat /\ last.height < MaxU64
    BY <1>6, BoundAssumption, ChainAssumption DEF Point, BlockHeight
  <2>. QED BY <2>1, BoundAssumption DEF Capacity, MempoolPoint
<1>8. Pushed(B, K, [point |-> q, kvs |-> kvs], Capacity)
  <2>1. d \in DB /\ WellTyped(MempoolWrites(s, last, d))
    BY <1>4, <1>6, MempoolWritesTyped DEF Good, Typed
  <2>. HIDE DEF d
  <2>2. kvs \in Kvs
    BY <2>1, WritesTyped
  <2>3. [point |-> q, kvs |-> kvs] \in Entry
    BY <1>6, <2>2 DEF Entry, BufferPoint
  <2>. HIDE DEF kvs, K, q
  <2>. QED BY <1>6, <1>7, <2>3, AddBlockFacts
<1>. HIDE DEF d, kvs, U, K, B, q
<1>9. ASSUME NEW i \in 1..Len(buf), InWindow(buf[i].point, last.height)
      PROVE  /\ buf[i].point.height \in Nat /\ buf[i].point.height <= last.height
             /\ last.height <= buf[i].point.height + MaxRollback
  BY <1>9, EntryHeights DEF InWindow
<1>10. ASSUME NEW i \in 1..Len(buf), InWindow(buf[i].point, last.height)
       PROVE  \E j \in 1..Len(buf') : buf'[j] = buf[i]
  <2>1. PICK j \in 1..Len(K) : K[j] = buf[i]
    BY <1>1, <1>7, <1>9, <1>10, BaseWindow DEF K
  <2>2. last.height <= K[j].point.height + MaxRollback
    BY <1>9, <1>10, <2>1
  <2>3. \E x \in 1..Len(B) : B[x] = K[j]
    BY <1>5, <1>6, <1>7, <1>8, <2>2, PushWindow
  <2>. QED BY <1>3, <2>1, <2>3
<1>11. ASSUME NEW r \in rbTable, InWindow(r.point, last.height)
       PROVE  r \in rbTable'
  <2>1. PICK i \in 1..Len(buf) : r.point = buf[i].point
    BY RowPoints
  <2>2. r.point.height \in Nat /\ r.point.height <= last.height
    BY <1>9, <1>11, <2>1
  <2>3. r \in U
    BY <1>1, <1>7, <2>2, BaseWindow DEF U
  <2>4. r.point # q
    BY <1>7, <2>2
  <2>. QED BY <1>3, <2>3, <2>4 DEF Put
<1>. QED BY <1>3, <1>10, <1>11 DEF WindowStep

\* No step, of whichever handler, drops from the buffer or from its table an
\* entry within MaxRollback of the tip it leaves: what was recorded can be
\* undone until it is that deep, by this process or the next.
THEOREM WindowIsKept == Spec => WindowKept
<1>1. IInv /\ TableInv /\ [Next]_vars => WindowStep
  BY StepEffect, UndoWindow, IndexWindow, PreviewWindow
<1>. QED BY <1>1, Invariance, TableInvariance, PTL DEF Spec, WindowKept

-----------------------------------------------------------------------------
(***************************************************************************)
(* Part 3. Crashes and restarts.                                           *)
(***************************************************************************)

(***************************************************************************)
(* What the core tables of a chain's state hold.                           *)
(***************************************************************************)

\* A set of blocks with genesis and the children of its blocks has them all: by
\* the least height of a block it would lack.
LEMMA ChainInduction ==
  ASSUME NEW S, Genesis \in S,
         \A b \in Block \ {Genesis} : Prev[b] \in S => b \in S
  PROVE  \A b \in Block : b \in S
<1>. DEFINE T == {Height[b] : b \in Block \ S}
<1>. SUFFICES ASSUME NEW c \in Block, c \notin S PROVE FALSE
  OBVIOUS
<1>1. T \subseteq Nat /\ T # {}
  BY ChainAssumption
<1>2. PICK h \in T : \A y \in T : h <= y
  <2>. HIDE DEF T
  <2>. QED BY <1>1, LeastNat
<1>3. PICK b \in Block \ S : Height[b] = h
  BY <1>2
<1>4. b \in Block \ {Genesis} /\ Prev[b] \in Block /\ Height[b] = Height[Prev[b]] + 1
  BY <1>3, ChainAssumption
<1>5. Prev[b] \in Block \ S
  BY <1>3, <1>4
<1>6. Height[Prev[b]] \in T
  BY <1>5
<1>7. h <= Height[Prev[b]]
  BY <1>2, <1>6
<1>8. Height[Prev[b]] \in Nat
  BY <1>4, ChainAssumption
<1>. HIDE DEF T
<1>. QED BY <1>3, <1>4, <1>7, <1>8

InfoOf(p) == [height |-> p.height, hash |-> p.hash, mempool |-> FALSE]

\* A block writes data keys, the indexer info and its own hash row.
LEMMA BlockWritesFacts ==
  ASSUME NEW d \in DB, NEW p \in Point
  PROVE  LET w == BlockWrites(p, d) IN
         /\ \A k \in DOMAIN w : k \in DataKey \/ k = InfoKey \/ k = HashKey(p.height)
         /\ InfoKey \in DOMAIN w /\ w[InfoKey] = InfoOf(p)
         /\ HashKey(p.height) \in DOMAIN w /\ w[HashKey(p.height)] = p.hash
<1>. DEFINE v == Indexed(p.hash, DataOf(d))
            u == WithInfo(v, InfoOf(p))
            w == BlockWrites(p, d)
<1>1. p.hash \in Block
  BY DEF Point
<1>2. v \in DataWrites
  BY <1>1, ViewTyped, IndexerAssumption
<1>3. DOMAIN v \subseteq DataKey
  BY <1>2 DEF DataWrites
<1>. HIDE DEF v
<1>4. /\ DOMAIN u = DOMAIN v \cup {InfoKey}
      /\ u[InfoKey] = InfoOf(p)
  BY DEF WithInfo
<1>5. w = [k \in DOMAIN u \cup {HashKey(p.height)} |->
             IF k = HashKey(p.height) THEN p.hash ELSE u[k]]
  BY DEF BlockWrites, InfoOf, v
<1>6. HashKey(p.height) # InfoKey
  BY DEF HashKey, InfoKey
<1>. HIDE DEF u, w
<1>7. /\ DOMAIN w = DOMAIN u \cup {HashKey(p.height)}
      /\ w[InfoKey] = InfoOf(p) /\ w[HashKey(p.height)] = p.hash
  BY <1>4, <1>5, <1>6
<1>8. /\ \A k \in DOMAIN w : k \in DataKey \/ k = InfoKey \/ k = HashKey(p.height)
      /\ InfoKey \in DOMAIN w /\ HashKey(p.height) \in DOMAIN w
  BY <1>3, <1>4, <1>7
<1>. QED BY <1>7, <1>8 DEF w

\* A snapshot writes data keys and the indexer info.
LEMMA MempoolWritesFacts ==
  ASSUME NEW d \in DB, NEW p \in Point, NEW s \in Snapshot
  PROVE  LET w == MempoolWrites(s, p, d) IN
         /\ \A k \in DOMAIN w : k \in DataKey \/ k = InfoKey
         /\ InfoKey \in DOMAIN w
         /\ w[InfoKey] = [height |-> p.height + 1, hash |-> p.hash, mempool |-> TRUE]
<1>. DEFINE v == MempoolIndexed(s, DataOf(d))
            i == [height |-> p.height + 1, hash |-> p.hash, mempool |-> TRUE]
<1>1. v \in DataWrites
  BY ViewTyped, IndexerAssumption
<1>2. DOMAIN v \subseteq DataKey
  BY <1>1 DEF DataWrites
<1>3. MempoolWrites(s, p, d) = WithInfo(v, i)
  BY DEF MempoolWrites
<1>. HIDE DEF v, i
<1>4. /\ DOMAIN WithInfo(v, i) = DOMAIN v \cup {InfoKey}
      /\ WithInfo(v, i)[InfoKey] = i
  BY DEF WithInfo
<1>. QED BY <1>2, <1>3, <1>4 DEF i

\* Rows of HashByHeightKV are different keys, and no data key is one.
LEMMA HashKeys ==
  /\ \A h, x : HashKey(h) = HashKey(x) => h = x
  /\ \A h \in BlockHeight : HashKey(h) \in Key /\ HashKey(h) # InfoKey /\ HashKey(h) \notin DataKey
  /\ InfoKey \in Key
<1>1. \A h, x : HashKey(h) = HashKey(x) => h = x
  BY DEF HashKey
<1>2. \A h : HashKey(h) # InfoKey
  BY DEF HashKey, InfoKey
<1>3. \A h \in BlockHeight : HashKey(h) \in Key /\ HashKey(h) \notin DataKey
  BY KeyAssumption DEF Key
<1>. QED BY <1>1, <1>2, <1>3 DEF Key

\* The state of a chain has hash rows up to the height of its tip, and the row
\* and the info of the tip unless that is genesis.
LEMMA ChainRows ==
  ASSUME NEW b \in Block
  PROVE  /\ StateAt[b] \in DB
         /\ \A h \in BlockHeight : StateAt[b][HashKey(h)] # Absent => h <= Height[b]
         /\ b # Genesis => /\ StateAt[b][HashKey(Height[b])] = b
                           /\ StateAt[b][InfoKey] = InfoOf(PointOf(b))
         /\ b = Genesis => /\ \A h \in BlockHeight : StateAt[b][HashKey(h)] = Absent
                           /\ StateAt[b][InfoKey] = Absent
<1>. DEFINE S == {c \in Block : /\ StateAt[c] \in DB
                                /\ \A h \in BlockHeight :
                                     StateAt[c][HashKey(h)] # Absent => h <= Height[c]}
<1>1. EmptyDb \in DB /\ \A k \in Key : EmptyDb[k] = Absent
  BY DEF EmptyDb, DB, Value, ValueOf
<1>2. Genesis \in S
  BY <1>1, StateAtSteps, ChainAssumption, HashKeys
<1>3. ASSUME NEW c \in Block \ {Genesis}, Prev[c] \in S
      PROVE  /\ StateAt[c] \in DB
             /\ \A h \in BlockHeight : StateAt[c][HashKey(h)] # Absent => h <= Height[c]
             /\ StateAt[c][HashKey(Height[c])] = c
             /\ StateAt[c][InfoKey] = InfoOf(PointOf(c))
  <2>. DEFINE d == StateAt[Prev[c]]
              p == PointOf(c)
              w == BlockWrites(p, d)
  <2>1. /\ d \in DB /\ Prev[c] \in Block
        /\ \A h \in BlockHeight : d[HashKey(h)] # Absent => h <= Height[Prev[c]]
    BY <1>3
  <2>2. p \in Point /\ p.height = Height[c] /\ p.hash = c /\ Height[c] \in BlockHeight
    BY DEF PointOf, Point, BlockHeight
  <2>3. StateAt[c] = Applied(d, w)
    BY StateAtSteps
  <2>4. WellTyped(w)
    BY <2>1, <2>2, BlockWritesTyped
  <2>5. /\ \A k \in DOMAIN w : k \in DataKey \/ k = InfoKey \/ k = HashKey(p.height)
        /\ InfoKey \in DOMAIN w /\ w[InfoKey] = InfoOf(p)
        /\ HashKey(p.height) \in DOMAIN w /\ w[HashKey(p.height)] = p.hash
    <3>. HIDE DEF d, p
    <3>. QED BY <2>1, <2>2, BlockWritesFacts
  <2>6. Height[c] = Height[Prev[c]] + 1 /\ Height[Prev[c]] \in Nat
    BY <2>1, ChainAssumption
  <2>. HIDE DEF d, p, w
  <2>7. Applied(d, w) \in DB
    BY <2>1, <2>4, WritesTyped
  <2>8. \A k \in Key : Applied(d, w)[k] = IF k \in DOMAIN w THEN w[k] ELSE d[k]
    BY DEF Applied
  <2>9. Applied(d, w)[HashKey(Height[c])] = c /\ Applied(d, w)[InfoKey] = InfoOf(p)
    BY <2>2, <2>5, <2>8, HashKeys
  <2>10. ASSUME NEW h \in BlockHeight, Applied(d, w)[HashKey(h)] # Absent
         PROVE  h <= Height[c]
    <3>1. CASE h = Height[c]
      BY <2>6, <3>1
    <3>2. CASE h # Height[c]
      <4>1. HashKey(h) \notin DOMAIN w
        BY <2>2, <2>5, <3>2, HashKeys
      <4>2. d[HashKey(h)] # Absent
        BY <2>8, <2>10, <4>1, HashKeys
      <4>3. h <= Height[Prev[c]] /\ h \in Nat
        BY <2>1, <4>2, ChainAssumption DEF BlockHeight
      <4>. QED BY <2>6, <4>3
    <3>. QED BY <3>1, <3>2
  <2>. QED BY <2>3, <2>7, <2>9, <2>10 DEF p
<1>4. \A c \in Block \ {Genesis} : Prev[c] \in S => c \in S
  BY <1>3
<1>5. \A c \in Block : c \in S
  <2>. HIDE DEF S
  <2>. QED BY <1>2, <1>4, ChainInduction
<1>6. CASE b = Genesis
  BY <1>1, <1>5, <1>6, StateAtSteps, HashKeys
<1>7. CASE b # Genesis
  <2>1. Prev[b] \in S
    BY <1>5, <1>7, ChainAssumption
  <2>. QED BY <1>3, <1>7, <2>1
<1>. QED BY <1>6, <1>7

\* Stage::new finds last_processed in the hash rows, under a snapshot or not.
LEMMA LastOf ==
  ASSUME NEW l \in Point, l = PointOf(l.hash), NEW d,
         \A h \in BlockHeight : d[HashKey(h)] = StateAt[l.hash][HashKey(h)]
  PROVE  LastProcessed(d) = l
<1>. DEFINE hs == {h \in BlockHeight : d[HashKey(h)] # Absent}
            top == CHOOSE h \in hs : \A x \in hs : x <= h
<1>1. /\ l.hash \in Block /\ l.height = Height[l.hash] /\ l.height \in BlockHeight
      /\ BlockHeight \subseteq Nat
  BY ChainAssumption DEF Point, PointOf, BlockHeight
<1>2. LastProcessed(d) = IF hs = {} THEN PointOf(Genesis)
                         ELSE [height |-> top, hash |-> d[HashKey(top)]]
  BY DEF LastProcessed
<1>3. CASE l.hash = Genesis
  <2>1. \A h \in BlockHeight : d[HashKey(h)] = Absent
    BY <1>1, <1>3, ChainRows
  <2>. QED BY <1>2, <1>3, <2>1
<1>4. CASE l.hash # Genesis
  <2>1. d[HashKey(l.height)] = l.hash /\ l.hash # Absent
    BY <1>1, <1>4, ChainRows, AbsentAssumption
  <2>2. l.height \in hs
    BY <1>1, <2>1
  <2>3. \A h \in hs : h <= l.height
    <3>1. \A h \in BlockHeight : StateAt[l.hash][HashKey(h)] # Absent => h <= Height[l.hash]
      BY <1>1, ChainRows
    <3>. QED BY <1>1, <3>1
  <2>4. hs \subseteq Nat
    BY <1>1
  <2>. HIDE DEF hs
  <2>5. top \in hs /\ \A x \in hs : x <= top
    <3>1. \E h \in hs : \A x \in hs : x <= h
      BY <2>2, <2>3
    <3>. QED BY <3>1, Zenon
  <2>. HIDE DEF top
  <2>6. top = l.height
    <3>1. top <= l.height /\ l.height <= top /\ top \in Nat /\ l.height \in Nat
      BY <2>2, <2>3, <2>4, <2>5, Zenon
    <3>. QED BY <3>1
  <2>7. hs # {}
    BY <2>2
  <2>8. LastProcessed(d) = [height |-> l.height, hash |-> l.hash]
    BY <1>2, <2>1, <2>6, <2>7
  <2>9. l = [height |-> l.height, hash |-> l.hash]
    BY DEF Point
  <2>. QED BY <2>8, <2>9
<1>. QED BY <1>3, <1>4

\* What Stage::new reads from the store of an index stage: its last_processed,
\* whether a snapshot is applied, and an indexer info that agrees with both.
LEMMA StoreFacts ==
  ASSUME NEW d, NEW b, NEW l, NEW mp, Good(d, b, l, mp)
  PROVE  /\ LastProcessed(d) = l
         /\ InfoMempool(d) = mp
         /\ d[InfoKey] # Absent => /\ d[InfoKey].hash = l.hash
                                   /\ d[InfoKey].mempool = mp
                                   /\ ~mp => d[InfoKey].height = l.height
<1>1. l \in Point /\ l = PointOf(l.hash) /\ mp \in BOOLEAN /\ l.hash \in Block
      /\ l.height \in Nat
  BY ChainAssumption DEF Good, Typed, Point, BlockHeight
<1>2. CASE ~mp
  <2>1. d = StateAt[l.hash]
    BY <1>2 DEF Good
  <2>2. LastProcessed(d) = l
    BY <1>1, <2>1, LastOf
  <2>3. CASE l.hash = Genesis
    <3>1. d[InfoKey] = Absent
      BY <1>1, <2>1, <2>3, ChainRows
    <3>. QED BY <1>1, <1>2, <2>2, <3>1 DEF InfoMempool
  <2>4. CASE l.hash # Genesis
    <3>1. d[InfoKey] = InfoOf(l)
      BY <1>1, <2>1, <2>4, ChainRows
    <3>2. /\ d[InfoKey].mempool = FALSE /\ d[InfoKey].hash = l.hash
          /\ d[InfoKey].height = l.height
      BY <3>1 DEF InfoOf
    <3>. QED BY <1>1, <1>2, <2>2, <3>2 DEF InfoMempool
  <2>. QED BY <2>3, <2>4
<1>3. CASE mp
  <2>1. PICK s \in Snapshot :
          d = Applied(StateAt[l.hash], MempoolWrites(s, l, StateAt[l.hash]))
    BY <1>3 DEF Good, Overlay
  <2>. DEFINE a == StateAt[l.hash]
              w == MempoolWrites(s, l, a)
              i == [height |-> l.height + 1, hash |-> l.hash, mempool |-> TRUE]
  <2>2. a \in DB
    BY <1>1, ChainRows
  <2>3. /\ \A k \in DOMAIN w : k \in DataKey \/ k = InfoKey
        /\ InfoKey \in DOMAIN w /\ w[InfoKey] = i
    <3>. HIDE DEF a
    <3>. QED BY <1>1, <2>2, MempoolWritesFacts
  <2>4. i \in Info /\ i.hash = l.hash /\ i.mempool = TRUE
    BY <1>1 DEF Info
  <2>. HIDE DEF w, i
  <2>5. \A k \in Key : d[k] = IF k \in DOMAIN w THEN w[k] ELSE a[k]
    BY <2>1 DEF Applied, w
  <2>6. d[InfoKey] = i
    BY <2>3, <2>5, HashKeys
  <2>7. \A h \in BlockHeight : d[HashKey(h)] = a[HashKey(h)]
    BY <2>3, <2>5, HashKeys
  <2>8. LastProcessed(d) = l
    BY <1>1, <2>7, LastOf
  <2>9. i # Absent
    BY <2>4, AbsentAssumption
  <2>. QED BY <1>1, <1>3, <2>4, <2>6, <2>8, <2>9 DEF InfoMempool
<1>. QED BY <1>1, <1>2, <1>3

(***************************************************************************)
(* What fetch_from_storage reads back.                                     *)
(***************************************************************************)

\* Every entry has rows: a task writes at least the indexer info.
Filled(b) == \A i \in 1..Len(b) : DOMAIN b[i].kvs # {}

\* The newest entries of a good buffer, with the tip under a snapshot, are a
\* good buffer.
LEMMA PrefixGood ==
  ASSUME NEW d, NEW b, NEW l, NEW mp, Good(d, b, l, mp),
         NEW n \in 0..Len(b), mp => n >= 2
  PROVE  /\ Good(d, SubSeq(b, 1, n), l, mp)
         /\ Len(SubSeq(b, 1, n)) = n
         /\ \A i \in 1..n : SubSeq(b, 1, n)[i] = b[i]
<1>. DEFINE B == SubSeq(b, 1, n)
<1>1. b \in Seq(Entry) /\ Len(b) \in Nat /\ mp \in BOOLEAN /\ Len(b) <= Capacity
      /\ Capacity \in Nat
  BY BoundAssumption DEF Good, Typed, Capacity
<1>2. B \in Seq(Entry) /\ Len(B) = n /\ \A i \in 1..n : B[i] = b[i]
  BY <1>1
<1>. HIDE DEF B
<1>3. Typed(d, B, l, mp)
  BY <1>1, <1>2 DEF Good, Typed
<1>4. Chained(B, l, mp)
  <2>. DEFINE first == IF mp THEN 2 ELSE 1
  <2>1. mp => Len(B) >= 2 /\ B[1].point = MempoolPoint(l.hash)
    BY <1>1, <1>2 DEF Good, Chained
  <2>2. Len(B) >= first => B[first].point = l
    BY <1>1, <1>2 DEF Good, Chained
  <2>3. ASSUME NEW i \in first..Len(B) PROVE B[i].point = PointOf(B[i].point.hash)
    <3>1. i \in first..Len(b) /\ i \in 1..n
      BY <1>1, <1>2
    <3>. QED BY <1>2, <3>1 DEF Good, Chained
  <2>4. ASSUME NEW i \in first..(Len(B) - 1)
        PROVE  Prev[B[i].point.hash] = B[i + 1].point.hash
    <3>1. i \in first..(Len(b) - 1) /\ i \in 1..n /\ i + 1 \in 1..n
      BY <1>1, <1>2
    <3>. QED BY <1>2, <3>1 DEF Good, Chained
  <2>. QED BY <2>1, <2>2, <2>3, <2>4 DEF Chained
<1>5. Descending(B)
  BY <1>1, <1>2 DEF Good, Descending
<1>6. \A i \in 1..n : EntryState(d, B, mp, i) = EntryState(d, b, mp, i)
  BY <1>2 DEF EntryState
<1>7. OriginalsExact(d, B, mp)
  <2>. SUFFICES ASSUME NEW i \in 1..(Len(B) - 1), NEW k \in DOMAIN B[i].kvs
                PROVE  B[i].kvs[k] = EntryState(d, B, mp, i + 1)[k]
    BY DEF OriginalsExact
  <2>1. i \in 1..(Len(b) - 1) /\ i \in 1..n /\ i + 1 \in 1..n
    BY <1>1, <1>2
  <2>. QED BY <1>2, <1>6, <2>1 DEF Good, OriginalsExact
<1>8. UntouchedEqual(d, B, mp)
  <2>. SUFFICES ASSUME NEW i \in 1..Len(B), NEW j \in 1..Len(B), i <= j,
                       NEW k \in Key,
                       \A m \in i..(j - 1) : k \notin DOMAIN B[m].kvs
                PROVE  EntryState(d, B, mp, i)[k] = EntryState(d, B, mp, j)[k]
    BY DEF UntouchedEqual
  <2>1. i \in 1..Len(b) /\ j \in 1..Len(b) /\ i \in 1..n /\ j \in 1..n
    BY <1>1, <1>2
  <2>2. ASSUME NEW m \in i..(j - 1) PROVE k \notin DOMAIN b[m].kvs
    <3>1. m \in 1..n
      BY <1>1, <1>2
    <3>. QED BY <1>2, <3>1
  <2>3. EntryState(d, b, mp, i)[k] = EntryState(d, b, mp, j)[k]
    BY <2>1, <2>2 DEF Good, UntouchedEqual
  <2>. QED BY <1>6, <2>1, <2>3
<1>. QED BY <1>2, <1>3, <1>4, <1>5, <1>7, <1>8 DEF Good, B

\* Read newest first, the points of a buffer are in its order.
LEMMA NewestFirstFacts ==
  ASSUME NEW b \in Seq(Entry), Descending(b)
  PROVE  NewestFirst({b[i].point : i \in 1..Len(b)}) = [i \in 1..Len(b) |-> b[i].point]
<1>. DEFINE n == Len(b)
            P == {b[i].point : i \in 1..n}
            e == [i \in 1..n |-> b[i].point]
            Ok(s) == \A i, j \in DOMAIN s : i < j => s[i] # s[j] /\ s[i].height >= s[j].height
            s0 == NewestFirst(P)
<1>1. n \in Nat
  OBVIOUS
<1>2. \A i \in 1..n : b[i].point.height \in Nat
  <2>. SUFFICES ASSUME NEW i \in 1..n PROVE b[i].point.height \in Nat
    OBVIOUS
  <2>1. b[i] \in Entry
    OBVIOUS
  <2>. QED BY <2>1, ChainAssumption, BoundAssumption
       DEF Entry, BufferPoint, Point, MempoolPoint, BlockHeight
<1>3. \A i, j \in 1..n : i < j => b[i].point.height > b[j].point.height
  BY DEF Descending
<1>. HIDE DEF n
<1>4. \A i, j \in 1..n : i < j => b[i].point # b[j].point /\ b[i].point.height >= b[j].point.height
  <2>. SUFFICES ASSUME NEW i \in 1..n, NEW j \in 1..n, i < j
                PROVE  b[i].point # b[j].point /\ b[i].point.height >= b[j].point.height
    OBVIOUS
  <2>1. b[i].point.height > b[j].point.height
    BY <1>3
  <2>2. b[i].point.height \in Nat /\ b[j].point.height \in Nat
    BY <1>2
  <2>3. b[i].point.height # b[j].point.height
    BY <2>1, <2>2
  <2>. QED BY <2>1, <2>2, <2>3
<1>5. e \in Bijection(1..n, P)
  <2>1. e \in [1..n -> P] /\ \A t \in P : \E i \in 1..n : e[i] = t
    OBVIOUS
  <2>2. ASSUME NEW i \in 1..n, NEW j \in 1..n, e[i] = e[j] PROVE i = j
    BY <1>1, <1>4, <2>2
  <2>. QED BY <2>1, <2>2 DEF Bijection, Injection, Surjection, IsInjective
<1>6. Cardinality(P) = n
  <2>1. ExistsBijection(1..n, P)
    BY <1>5 DEF ExistsBijection
  <2>. HIDE DEF P
  <2>. QED BY <1>1, <2>1, FS_CountingElements
<1>7. e \in [1..n -> P] /\ Ok(e)
  BY <1>4
<1>8. s0 \in [1..n -> P] /\ Ok(s0)
  <2>1. s0 = CHOOSE s \in [1..n -> P] : Ok(s)
    BY <1>6 DEF NewestFirst
  <2>. HIDE DEF s0, P, e, Ok
  <2>. QED BY <1>7, <2>1
<1>9. \A i \in 1..n : \E j \in 1..n : s0[i] = b[j].point
  BY <1>8
<1>. DEFINE f == [i \in 1..n |-> CHOOSE j \in 1..n : s0[i] = b[j].point]
<1>10. \A i \in 1..n : f[i] \in 1..n /\ s0[i] = b[f[i]].point
  BY <1>9
<1>11. f \in [1..n -> 1..n]
  BY <1>10
<1>12. \A i, j \in 1..n : i < j => s0[i] # s0[j] /\ s0[i].height >= s0[j].height
  BY <1>8
<1>. HIDE DEF f, s0
<1>13. ASSUME NEW i \in 1..n, NEW j \in 1..n, i < j PROVE f[i] < f[j]
  <2>1. /\ f[i] \in 1..n /\ f[j] \in 1..n
        /\ b[f[i]].point # b[f[j]].point
        /\ b[f[i]].point.height >= b[f[j]].point.height
    BY <1>10, <1>12, <1>13
  <2>2. f[i] # f[j]
    BY <2>1
  <2>3. ~(f[j] < f[i])
    <3>. SUFFICES ASSUME f[j] < f[i] PROVE FALSE
      OBVIOUS
    <3>1. b[f[j]].point.height > b[f[i]].point.height
      BY <1>3, <2>1
    <3>2. b[f[j]].point.height \in Nat /\ b[f[i]].point.height \in Nat
      BY <1>2, <2>1
    <3>. QED BY <2>1, <3>1, <3>2
  <2>4. f[i] \in Nat /\ f[j] \in Nat
    BY <1>1, <2>1
  <2>. QED BY <2>2, <2>3, <2>4
<1>14. \A i \in 1..n : f[i] = i
  BY <1>1, <1>11, <1>13, IncreasingIsIdentity
<1>15. \A i \in 1..n : s0[i] = e[i]
  BY <1>10, <1>14
<1>16. s0 = e
  BY <1>7, <1>8, <1>15
<1>. QED BY <1>16 DEF s0, n

\* The rows of a point are those of its entry, and give back its originals.
LEMMA KvsAtFacts ==
  ASSUME NEW b \in Seq(Entry), Descending(b), NEW i \in 1..Len(b)
  PROVE  KvsAt(TableOf(b, Len(b)), b[i].point) = b[i].kvs
<1>. DEFINE n == Len(b)
            rows == {r \in TableOf(b, n) : r.point = b[i].point}
            g == b[i].kvs
            orig(k) == (CHOOSE r \in rows : r.key = k).original
<1>1. \A j \in 1..n : b[j].point = b[i].point => j = i
  <2>. SUFFICES ASSUME NEW j \in 1..n, j # i PROVE b[j].point # b[i].point
    OBVIOUS
  <2>1. b[i] \in Entry /\ b[j] \in Entry
    OBVIOUS
  <2>2. b[i].point.height \in Nat /\ b[j].point.height \in Nat
    BY SMTT(30), <2>1, ChainAssumption, BoundAssumption
    DEF Entry, BufferPoint, Point, MempoolPoint, BlockHeight
  <2>3. i < j \/ j < i
    OBVIOUS
  <2>4. \/ b[i].point.height > b[j].point.height
        \/ b[j].point.height > b[i].point.height
    BY <2>3 DEF Descending
  <2>5. b[i].point.height # b[j].point.height
    BY <2>2, <2>4
  <2>. QED BY <2>5
<1>2. \A r : r \in rows <=> r \in Rows(b[i].point, g)
  <2>1. ASSUME NEW r, r \in rows PROVE r \in Rows(b[i].point, g)
    <3>1. PICK j \in 1..n : r \in Rows(b[j].point, b[j].kvs)
      BY <2>1, TableRow
    <3>2. r.point = b[j].point /\ r.point = b[i].point
      BY <2>1, <3>1 DEF Rows
    <3>. QED BY <1>1, <3>1, <3>2
  <2>2. ASSUME NEW r, r \in Rows(b[i].point, g) PROVE r \in rows
    <3>1. r \in TableOf(b, n)
      BY <2>2, TableRow
    <3>2. r.point = b[i].point
      BY <2>2 DEF Rows
    <3>. QED BY <3>1, <3>2
  <2>. QED BY <2>1, <2>2
<1>3. KvsAt(TableOf(b, n), b[i].point) = [k \in {r.key : r \in rows} |-> orig(k)]
  BY DEF KvsAt
<1>. HIDE DEF rows
<1>4. {r.key : r \in rows} = DOMAIN g
  <2>1. ASSUME NEW k \in DOMAIN g PROVE \E r \in rows : r.key = k
    <3>1. [point |-> b[i].point, key |-> k, original |-> g[k]] \in rows
      BY <1>2 DEF Rows
    <3>. QED BY <3>1
  <2>2. ASSUME NEW r \in rows PROVE r.key \in DOMAIN g
    BY <1>2 DEF Rows
  <2>. QED BY <2>1, <2>2
<1>5. ASSUME NEW k \in DOMAIN g PROVE orig(k) = g[k]
  <2>1. \E r \in rows : r.key = k
    BY <1>4
  <2>. DEFINE c == CHOOSE r \in rows : r.key = k
  <2>2. c \in rows /\ c.key = k
    BY <2>1, Zenon
  <2>3. c \in Rows(b[i].point, g)
    BY <1>2, <2>2
  <2>. HIDE DEF c
  <2>4. c.original = g[k]
    BY <2>2, <2>3 DEF Rows
  <2>. QED BY <2>4 DEF c
<1>6. g = [k \in DOMAIN g |-> g[k]]
  <2>1. b[i] \in Entry
    OBVIOUS
  <2>. QED BY <2>1 DEF Entry, Kvs
<1>7. KvsAt(TableOf(b, n), b[i].point) = [k \in DOMAIN g |-> orig(k)]
  <2>. HIDE DEF n, g, orig
  <2>. QED BY <1>3, <1>4
<1>8. [k \in DOMAIN g |-> orig(k)] = [k \in DOMAIN g |-> g[k]]
  <2>. HIDE DEF g, orig
  <2>. QED BY <1>5
<1>. QED BY <1>6, <1>7, <1>8

\* fetch_from_storage gives back the buffer whose rows the table holds.
LEMMA FetchFacts ==
  ASSUME NEW b \in Seq(Entry), Descending(b), Len(b) <= Capacity, Filled(b)
  PROVE  FetchFromStorage(TableOf(b, Len(b))) = b
<1>. DEFINE n == Len(b)
            t == TableOf(b, n)
            P == {b[i].point : i \in 1..n}
            e == [i \in 1..n |-> b[i].point]
<1>1. n \in Nat /\ Capacity \in Nat /\ n <= Capacity
  BY BoundAssumption DEF Capacity
<1>2. {r.point : r \in t} = P
  <2>1. ASSUME NEW r \in t PROVE r.point \in P
    <3>1. PICK i \in 1..n : r \in Rows(b[i].point, b[i].kvs)
      BY TableRow
    <3>. QED BY <3>1 DEF Rows
  <2>2. ASSUME NEW i \in 1..n PROVE \E r \in t : r.point = b[i].point
    <3>1. PICK k \in DOMAIN b[i].kvs : TRUE
      BY DEF Filled
    <3>2. [point |-> b[i].point, key |-> k, original |-> b[i].kvs[k]] \in Rows(b[i].point, b[i].kvs)
      BY DEF Rows
    <3>3. [point |-> b[i].point, key |-> k, original |-> b[i].kvs[k]] \in t
      BY <3>2, TableRow
    <3>. QED BY <3>3
  <2>. QED BY <2>1, <2>2
<1>3. NewestFirst(P) = e
  BY NewestFirstFacts
<1>4. Len(e) = n
  BY <1>1
<1>5. FetchFromStorage(t) = [i \in 1..n |-> [point |-> e[i], kvs |-> KvsAt(t, e[i])]]
  <2>1. FetchFromStorage(t) =
          LET m == IF Len(e) > Capacity THEN Capacity ELSE Len(e)
          IN  [i \in 1..m |-> [point |-> e[i], kvs |-> KvsAt(t, e[i])]]
    BY <1>2, <1>3 DEF FetchFromStorage
  <2>2. (IF Len(e) > Capacity THEN Capacity ELSE Len(e)) = n
    <3>. HIDE DEF n, e
    <3>. QED BY <1>1, <1>4
  <2>. QED BY <2>1, <2>2
<1>6. ASSUME NEW i \in 1..n PROVE [point |-> e[i], kvs |-> KvsAt(t, e[i])] = b[i]
  <2>1. KvsAt(t, b[i].point) = b[i].kvs
    BY KvsAtFacts
  <2>2. b[i] \in Entry /\ e[i] = b[i].point
    OBVIOUS
  <2>3. b[i] = [point |-> b[i].point, kvs |-> b[i].kvs]
    BY <2>2 DEF Entry
  <2>. QED BY <2>1, <2>2, <2>3
<1>7. b = [i \in 1..n |-> b[i]]
  OBVIOUS
<1>. QED BY <1>5, <1>6, <1>7

(***************************************************************************)
(* The inductive invariant of the stage and of what is on disk.            *)
(***************************************************************************)

\* The table holds the rows of the n newest entries, of a snapshot and its tip
\* at least, and of every entry that is not MaxRollback below a block that was
\* delivered to this process.
Recorded(t, b, mp, top, n) ==
  /\ Mirror(t, b, mp, n)
  /\ mp => n >= 2
  /\ \A i \in 1..Len(b) : i > n => b[i].point.height + MaxRollback < top

\* A store that Stage::new reads a good buffer from.
DiskGood(D) ==
  \E b : /\ Good(D.db, b, LastProcessed(D.db), InfoMempool(D.db))
         /\ Filled(b)
         /\ Mirror(D.rbTable, b, InfoMempool(D.db), Len(b))
         /\ D.stamps \in [confirmed : Stamp, mempool : Stamp]

RInv ==
  /\ IInv
  /\ Filled(buf)
  /\ \E n : Recorded(rbTable, buf, processedMempool, delivered, n)
  /\ delivered \in Nat
  /\ DiskGood(disk)

\* A flush leaves a store that can be opened: the rows it takes are those of a
\* prefix of the buffer, which is a good buffer for the same tip.
LEMMA FlushGood ==
  ASSUME RInv
  PROVE  DiskGood(Current)
<1>1. PICK n : Recorded(rbTable, buf, processedMempool, delivered, n)
  BY DEF RInv
<1>. DEFINE b == SubSeq(buf, 1, n)
<1>2. /\ n \in 0..Len(buf) /\ (processedMempool => n >= 2)
      /\ n <= MaxRollback + (IF processedMempool THEN 2 ELSE 1)
      /\ rbTable = TableOf(buf, n)
  BY <1>1 DEF Recorded, Mirror
<1>3. Good(db, buf, last, processedMempool)
  BY DEF RInv, IInv
<1>4. /\ Good(db, b, last, processedMempool) /\ Len(b) = n
      /\ \A i \in 1..n : b[i] = buf[i]
  BY <1>2, <1>3, PrefixGood
<1>5. LastProcessed(db) = last /\ InfoMempool(db) = processedMempool
  BY <1>3, StoreFacts
<1>6. n \in Nat /\ Len(buf) \in Nat
  BY <1>2, <1>3 DEF Good, Typed
<1>. HIDE DEF b
<1>7. TableOf(b, n) = TableOf(buf, n)
  <2>1. ASSUME NEW r PROVE r \in TableOf(b, n) <=> r \in TableOf(buf, n)
    BY <1>4, TableRow
  <2>. QED BY <2>1
<1>8. Filled(b)
  <2>. SUFFICES ASSUME NEW i \in 1..Len(b) PROVE DOMAIN b[i].kvs # {}
    BY DEF Filled
  <2>1. b[i] = buf[i] /\ i \in 1..Len(buf)
    BY <1>2, <1>4, <1>6
  <2>. QED BY <2>1 DEF RInv, Filled
<1>9. Mirror(rbTable, b, processedMempool, Len(b))
  BY <1>2, <1>4, <1>6, <1>7 DEF Mirror
<1>10. stamps \in [confirmed : Stamp, mempool : Stamp]
  BY DEF RInv, IInv
<1>. QED BY <1>4, <1>5, <1>8, <1>9, <1>10 DEF DiskGood, Current

\* Every entry a handler pushes has rows.
LEMMA FilledStep ==
  ASSUME IInv, Filled(buf),
         \/ Rests \/ Undoes
         \/ \E p \in Point : Indexes(p)
         \/ \E s \in Snapshot : Previews(s)
  PROVE  Filled(buf')
<1>1. buf \in Seq(Entry) /\ Len(buf) \in Nat /\ last \in Point
  BY DEF IInv, Good, Typed
<1>2. ASSUME NEW m \in 0..Len(buf) PROVE Filled(Kept(buf, m))
  <2>1. /\ Len(Kept(buf, m)) = Len(buf) - m
        /\ \A i \in 1..(Len(buf) - m) : Kept(buf, m)[i] = buf[i + m]
    BY <1>1, KeptFacts
  <2>. SUFFICES ASSUME NEW i \in 1..Len(Kept(buf, m)) PROVE DOMAIN Kept(buf, m)[i].kvs # {}
    BY DEF Filled
  <2>2. Kept(buf, m)[i] = buf[i + m] /\ i + m \in 1..Len(buf)
    BY <1>1, <2>1
  <2>. QED BY <2>2 DEF Filled
<1>3. ASSUME NEW K, Filled(K), NEW B, NEW q, NEW d, NEW w, InfoKey \in DOMAIN w,
             Pushed(B, K, [point |-> q, kvs |-> Originals(d, w)], Capacity),
             Len(K) \in Nat
      PROVE  Filled(B)
  <2>. SUFFICES ASSUME NEW i \in 1..Len(B) PROVE DOMAIN B[i].kvs # {}
    BY DEF Filled
  <2>0. Len(B) \in Nat /\ Len(B) <= Len(K) + 1
    BY <1>3, BoundAssumption DEF Pushed, Capacity
  <2>1. CASE i = 1
    BY <1>3, <2>1 DEF Pushed, Originals
  <2>2. CASE i # 1
    <3>1. i \in 2..Len(B) /\ i - 1 \in 1..Len(K)
      BY <1>3, <2>0, <2>2
    <3>. QED BY <1>3, <3>1 DEF Pushed, Filled
  <2>. QED BY <2>1, <2>2
<1>4. Capacity \in Nat \ {0}
  BY BoundAssumption DEF Capacity
<1>5. CASE Rests
  BY <1>5 DEF Rests
<1>6. CASE Undoes
  BY <1>2, <1>6 DEF Undoes, Undo
<1>7. ASSUME NEW p \in Point, Indexes(p) PROVE Filled(buf')
  <2>1. PICK m \in 0..Len(buf) : Base(m, last) /\ CommitBlock(p, m, mutable')
    BY <1>7 DEF Indexes
  <2>. DEFINE K == Kept(buf, m)
              d == Undone(db, buf, m)
              w == BlockWrites(p, d)
              kvs == Originals(d, w)
  <2>2. buf' = (IF mutable' THEN AddBlock(K, p, kvs, Capacity) ELSE K)
    BY <2>1 DEF CommitBlock
  <2>3. Good(d, K, last, FALSE)
    BY <2>1 DEF Base
  <2>4. d \in DB /\ K \in Seq(Entry) /\ Len(K) \in Nat
    BY <2>3 DEF Good, Typed
  <2>5. InfoKey \in DOMAIN w /\ WellTyped(w)
    <3>. HIDE DEF d
    <3>. QED BY <2>4, BlockWritesFacts, BlockWritesTyped
  <2>. HIDE DEF d, w
  <2>6. [point |-> p, kvs |-> kvs] \in Entry
    BY <2>4, <2>5, WritesTyped DEF Entry, BufferPoint
  <2>. HIDE DEF kvs, K
  <2>7. Pushed(AddBlock(K, p, kvs, Capacity), K, [point |-> p, kvs |-> kvs], Capacity)
    BY <1>4, <2>4, <2>6, AddBlockFacts
  <2>8. Filled(K)
    BY <1>2 DEF K
  <2>9. Filled(AddBlock(K, p, kvs, Capacity))
    BY <1>3, <2>4, <2>5, <2>7, <2>8 DEF kvs
  <2>. QED BY <1>7, <2>2, <2>8, <2>9 DEF Indexes
<1>8. ASSUME NEW s \in Snapshot, Previews(s) PROVE Filled(buf')
  <2>1. PICK m \in 0..Len(buf) : Base(m, last) /\ CommitMempool(s, m)
    BY <1>8 DEF Previews
  <2>. DEFINE K == Kept(buf, m)
              d == Undone(db, buf, m)
              w == MempoolWrites(s, last, d)
              kvs == Originals(d, w)
              q == MempoolPoint(last.hash)
  <2>2. buf' = AddBlock(K, q, kvs, Capacity)
    BY <2>1 DEF CommitMempool
  <2>3. Good(d, K, last, FALSE)
    BY <2>1 DEF Base
  <2>4. d \in DB /\ K \in Seq(Entry) /\ Len(K) \in Nat
    BY <2>3 DEF Good, Typed
  <2>5. InfoKey \in DOMAIN w /\ WellTyped(w)
    <3>. HIDE DEF d
    <3>. QED BY <1>1, <2>4, MempoolWritesFacts, MempoolWritesTyped
  <2>. HIDE DEF d, w
  <2>6. [point |-> q, kvs |-> kvs] \in Entry
    <3>1. kvs \in Kvs
      BY <2>4, <2>5, WritesTyped
    <3>. QED BY <1>1, <3>1 DEF Entry, BufferPoint, Point
  <2>. HIDE DEF kvs, K, q
  <2>7. Pushed(AddBlock(K, q, kvs, Capacity), K, [point |-> q, kvs |-> kvs], Capacity)
    BY <1>4, <2>4, <2>6, AddBlockFacts
  <2>8. Filled(K)
    BY <1>2 DEF K
  <2>9. Filled(AddBlock(K, q, kvs, Capacity))
    BY <1>3, <2>4, <2>5, <2>7, <2>8 DEF kvs
  <2>. QED BY <2>2, <2>9
<1>. QED BY <1>5, <1>6, <1>7, <1>8

\* Entries without rows stay below the blocks delivered.
LEMMA StillRecorded ==
  ASSUME IInv, IInv', NEW n, Recorded(rbTable, buf, processedMempool, delivered, n),
         NEW h \in Nat, NEW N, delivered \in Nat, delivered' \in Nat,
         delivered <= delivered', h <= delivered',
         Mirror(rbTable', buf', processedMempool', N), Lost(buf, n, buf', N, h),
         processedMempool' => N >= 2
  PROVE  Recorded(rbTable', buf', processedMempool', delivered', N)
<1>. SUFFICES ASSUME NEW j \in 1..Len(buf'), j > N
              PROVE  buf'[j].point.height + MaxRollback < delivered'
  BY DEF Recorded
<1>1. \A i \in 1..Len(buf) : buf[i].point.height \in Nat
  BY EntryHeights
<1>2. buf'[j].point.height \in Nat
  <2>1. buf'[j] \in Entry
    BY DEF IInv, Good, Typed
  <2>. QED BY <2>1, ChainAssumption, BoundAssumption
       DEF Entry, BufferPoint, Point, MempoolPoint, BlockHeight
<1>3. MaxRollback \in Nat
  BY BoundAssumption
<1>4. CASE buf'[j].point.height + MaxRollback < h
  BY <1>2, <1>3, <1>4
<1>5. ASSUME NEW i \in 1..Len(buf), i > n, buf'[j] = buf[i]
      PROVE  buf'[j].point.height + MaxRollback < delivered'
  <2>1. buf[i].point.height + MaxRollback < delivered
    BY <1>5 DEF Recorded
  <2>. QED BY <1>1, <1>3, <1>5, <2>1
<1>. QED BY <1>4, <1>5 DEF Lost

\* Every event of the stage keeps the invariant.
LEMMA HandleStep ==
  ASSUME RInv, Handle, UNCHANGED disk
  PROVE  RInv'
<1>1. /\ IInv /\ Filled(buf) /\ delivered \in Nat /\ DiskGood(disk)
      /\ last \in Point /\ last = PointOf(last.hash)
  BY DEF RInv, IInv, Good, Typed
<1>2. PICK n : Recorded(rbTable, buf, processedMempool, delivered, n)
  BY DEF RInv
<1>3. Mirror(rbTable, buf, processedMempool, n) /\ (processedMempool => n >= 2)
  BY <1>2 DEF Recorded
<1>4. Next
  BY DEF Handle, Next
<1>5. IInv'
  BY <1>1, <1>4, NextIInv
<1>6. Filled(buf')
  <2>1. \/ Rests \/ Undoes
        \/ \E p \in Point : Indexes(p)
        \/ \E s \in Snapshot : Previews(s)
    BY <1>1, <1>4, StepEffect
  <2>. QED BY <1>1, <2>1, FilledStep
<1>7. delivered' \in Nat /\ delivered <= delivered'
  <2>1. \A p \in Point : p.height \in Nat
    BY ChainAssumption DEF Point, BlockHeight
  <2>. QED BY <1>1, <2>1 DEF Handle
<1>. DEFINE Goal == \E N : Recorded(rbTable', buf', processedMempool', delivered', N)
<1>8. ASSUME Rests PROVE Goal
  <2>2. /\ Mirror(rbTable', buf', processedMempool', n)
        /\ processedMempool' => n >= 2
    BY <1>3, <1>8 DEF Rests
  <2>3. Lost(buf, n, buf', n, 0)
    BY <1>8 DEF Rests, Lost
  <2>4. Recorded(rbTable', buf', processedMempool', delivered', n)
    BY <1>1, <1>2, <1>5, <1>7, <2>2, <2>3, StillRecorded
  <2>. QED BY <2>4
<1>9. ASSUME Undoes PROVE Goal
  <2>1. PICK N : /\ Mirror(rbTable', buf', processedMempool', N)
                 /\ Lost(buf, n, buf', N, 0)
    BY <1>1, <1>3, <1>9, UndoMirror
  <2>2. processedMempool' = FALSE
    BY <1>9 DEF Undoes, Undo
  <2>3. Recorded(rbTable', buf', processedMempool', delivered', N)
    BY <1>1, <1>2, <1>5, <1>7, <2>1, <2>2, StillRecorded
  <2>. QED BY <2>3
<1>10. ASSUME NEW p \in Point, Indexes(p), p.height <= delivered' PROVE Goal
  <2>1. PICK N : /\ Mirror(rbTable', buf', processedMempool', N)
                 /\ Lost(buf, n, buf', N, last'.height)
    BY <1>1, <1>3, <1>10, IndexMirror
  <2>2. processedMempool' = FALSE /\ last' = p
    BY <1>10 DEF Indexes, CommitBlock
  <2>3. last'.height \in Nat /\ last'.height <= delivered'
    BY <1>10, <2>2, ChainAssumption DEF Point, BlockHeight
  <2>4. Recorded(rbTable', buf', processedMempool', delivered', N)
    BY <1>1, <1>2, <1>5, <1>7, <2>1, <2>2, <2>3, StillRecorded
  <2>. QED BY <2>4
<1>11. ASSUME NEW s \in Snapshot, Previews(s), Height[last.hash] >= delivered PROVE Goal
  <2>1. PICK N : /\ Mirror(rbTable', buf', processedMempool', N)
                 /\ Lost(buf, n, buf', N, 0)
                 /\ N >= 2 \/ \E i \in 1..Len(buf) : i > n /\ buf[i].point = last
    BY <1>1, <1>3, <1>11, PreviewMirror
  <2>2. last.height = Height[last.hash] /\ last.height \in Nat /\ MaxRollback \in Nat
    BY <1>1, ChainAssumption, BoundAssumption DEF PointOf, Point, BlockHeight
  <2>3. ASSUME NEW i \in 1..Len(buf), i > n, buf[i].point = last PROVE FALSE
    <3>1. last.height + MaxRollback < delivered
      BY <1>2, <2>3 DEF Recorded
    <3>. QED BY <1>1, <1>11, <2>2, <3>1
  <2>4. N >= 2
    BY <2>1, <2>3
  <2>5. Recorded(rbTable', buf', processedMempool', delivered', N)
    BY <1>1, <1>2, <1>5, <1>7, <2>1, <2>4, StillRecorded
  <2>. QED BY <2>5
<1>12. Goal
  <2>1. ASSUME NEW p \in Point, NEW tip \in BlockHeight, RollForward(p, tip),
               delivered' = IF p.height > delivered THEN p.height ELSE delivered
        PROVE  Goal
    <3>1. p.height <= delivered'
      BY <1>1, <2>1, ChainAssumption DEF Point, BlockHeight
    <3>. QED BY <1>1, <1>8, <1>9, <1>10, <2>1, <3>1, RollForwardEffect
  <2>2. ASSUME NEW p \in Point, RollBack(p) PROVE Goal
    BY <1>1, <1>8, <1>9, <2>2, RollBackEffect
  <2>3. ASSUME NEW t \in Block, NEW s \in Snapshot, Height[t] >= delivered,
               MempoolBlocks(t, s)
        PROVE  Goal
    BY <1>1, <1>8, <1>9, <1>11, <2>3, MempoolBlocksEffect
  <2>. QED BY <2>1, <2>2, <2>3 DEF Handle
<1>13. DiskGood(disk')
  BY <1>1
<1>. QED BY <1>5, <1>6, <1>7, <1>12, <1>13 DEF RInv

\* Stage::new on a good disk gives a stage in agreement with it.
LEMMA ReopenStep ==
  ASSUME RInv, Reopen
  PROVE  RInv'
<1>1. PICK b : /\ Good(disk.db, b, LastProcessed(disk.db), InfoMempool(disk.db))
               /\ Filled(b)
               /\ Mirror(disk.rbTable, b, InfoMempool(disk.db), Len(b))
               /\ disk.stamps \in [confirmed : Stamp, mempool : Stamp]
  BY DEF RInv, DiskGood
<1>2. /\ b \in Seq(Entry) /\ Descending(b) /\ Len(b) <= Capacity /\ Len(b) \in Nat
      /\ InfoMempool(disk.db) \in BOOLEAN
      /\ InfoMempool(disk.db) => Len(b) >= 2
  BY <1>1 DEF Good, Typed, Chained
<1>3. disk.rbTable = TableOf(b, Len(b))
  BY <1>1 DEF Mirror
<1>4. FetchFromStorage(disk.rbTable) = b
  BY <1>1, <1>2, <1>3, FetchFacts
<1>5. /\ db' = disk.db /\ rbTable' = disk.rbTable /\ stamps' = disk.stamps
      /\ buf' = b /\ last' = LastProcessed(disk.db)
      /\ processedMempool' = InfoMempool(disk.db)
      /\ mutable' = (b # <<>>) /\ delivered' = 0 /\ disk' = disk
      /\ status' \in {"running", "panicked", "done"}
  BY <1>4 DEF Reopen, Bootstrap
<1>6. \A r \in rbTable' : r \in Row
  <2>. SUFFICES ASSUME NEW r \in TableOf(b, Len(b)) PROVE r \in Row
    BY <1>3, <1>5
  <2>1. PICK i \in 1..Len(b) : r \in Rows(b[i].point, b[i].kvs)
    BY TableRow
  <2>2. b[i] \in Entry
    BY <1>2
  <2>3. b[i].point \in BufferPoint /\ b[i].kvs \in Kvs
    BY <2>2 DEF Entry
  <2>. QED BY <2>1, <2>3, RowsTyped
<1>7. IInv'
  BY <1>1, <1>5, <1>6 DEF IInv
<1>8. Recorded(rbTable', buf', processedMempool', delivered', Len(b))
  BY <1>1, <1>2, <1>5 DEF Recorded
<1>9. Filled(buf') /\ delivered' \in Nat /\ DiskGood(disk')
  BY <1>1, <1>5 DEF RInv
<1>. QED BY <1>7, <1>8, <1>9 DEF RInv

\* An empty store is one that Stage::new can open.
LEMMA InitRInv == RInit => RInv
<1>. SUFFICES ASSUME RInit PROVE RInv
  OBVIOUS
<1>1. IInv
  BY InitIInv DEF RInit
<1>2. buf = <<>> /\ rbTable = {} /\ processedMempool = FALSE /\ delivered = 0
      /\ disk = Current
  BY DEF RInit, Init
<1>3. 1..0 = {} /\ Len(buf) = 0
  BY <1>2
<1>4. TableOf(buf, 0) = {}
  BY <1>3 DEF TableOf
<1>5. Filled(buf)
  BY <1>2, <1>3 DEF Filled
<1>6. Recorded(rbTable, buf, processedMempool, delivered, 0)
  BY <1>2, <1>3, <1>4, BoundAssumption DEF Recorded, Mirror
<1>7. Good(db, buf, last, processedMempool) /\ stamps \in [confirmed : Stamp, mempool : Stamp]
  BY <1>1 DEF IInv
<1>8. LastProcessed(db) = last /\ InfoMempool(db) = processedMempool
  BY <1>7, StoreFacts
<1>9. Mirror(rbTable, buf, processedMempool, Len(buf))
  BY <1>3, <1>6 DEF Recorded
<1>10. DiskGood(Current)
  BY <1>5, <1>7, <1>8, <1>9 DEF DiskGood, Current
<1>. QED BY <1>1, <1>2, <1>5, <1>6, <1>10 DEF RInv

\* The invariant of the stage and its disk, step by step.
LEMMA RInvStep ==
  ASSUME RInv, [RNext]_rvars
  PROVE  RInv'
<1>1. CASE Handle /\ UNCHANGED disk
  BY <1>1, HandleStep
<1>2. ASSUME UNCHANGED <<store, memory, delivered>>, disk' = Current, IInv'
      PROVE  RInv'
  <2>1. DiskGood(Current)
    BY FlushGood
  <2>2. DiskGood(disk')
    BY <1>2, <2>1
  <2>3. /\ buf' = buf /\ rbTable' = rbTable /\ processedMempool' = processedMempool
        /\ delivered' = delivered
    BY <1>2 DEF store, memory
  <2>. QED BY <1>2, <2>2, <2>3 DEF RInv
<1>3. CASE StopFlushed
  <2>1. PICK p \in Point : Stop(p)
    BY <1>3 DEF StopFlushed
  <2>2. UNCHANGED <<store, memory, delivered>> /\ disk' = Current
    BY <1>3, <2>1 DEF StopFlushed, Stop
  <2>3. IInv'
    BY <2>1, UnchangedStep DEF Stop, RInv
  <2>. QED BY <1>2, <2>2, <2>3
<1>4. CASE Flush
  <2>1. UNCHANGED <<store, memory, delivered>> /\ disk' = Current /\ UNCHANGED vars
    BY <1>4 DEF Flush, vars
  <2>2. IInv'
    BY <2>1, NextIInv DEF RInv
  <2>. QED BY <1>2, <2>1, <2>2
<1>5. CASE Reopen
  BY <1>5, ReopenStep
<1>6. CASE UNCHANGED rvars
  <2>1. IInv'
    BY <1>6, NextIInv DEF RInv, rvars
  <2>. QED BY <1>6, <2>1 DEF RInv, rvars, vars, store, memory
<1>. QED BY <1>1, <1>3, <1>4, <1>5, <1>6 DEF RNext

\* The invariant of the stage and its disk holds throughout.
LEMMA RInvariance == RSpec => []RInv
<1>1. RInv /\ [RNext]_rvars => RInv'
  BY RInvStep
<1>. QED BY <1>1, InitRInv, PTL DEF RSpec

(***************************************************************************)
(* Theorems.                                                               *)
(***************************************************************************)

\* Whatever batches a crash loses and whenever it strikes, the stage that comes
\* up has the store, the buffer and last_processed of one chain and keeps them.
THEOREM CrashesAreConsistent == RSpec => []ConsistentAcrossCrashes
<1>1. RInv => ConsistentAcrossCrashes
  BY DEF RInv, IInv, Good, Chained, Overlay, First, ConsistentAcrossCrashes,
         StoreMatchesChain, MempoolOverlay, BufferIsChain
<1>. QED BY <1>1, RInvariance, PTL

\* The persistent buffer mirrors a prefix of the buffer, across crashes too.
THEOREM TableSurvivesCrashes == RSpec => []TableMirrorsBuffer
<1>1. RInv => TableMirrorsBuffer
  <2>. SUFFICES ASSUME RInv PROVE TableMirrorsBuffer
    OBVIOUS
  <2>1. PICK n : Mirror(rbTable, buf, processedMempool, n)
    BY DEF RInv, Recorded
  <2>. QED BY <2>1 DEF Mirror, TableOf, TableMirrorsBuffer
<1>. QED BY <1>1, RInvariance, PTL

\* The assertions of Stage::new hold on whatever store is on disk.
THEOREM AlwaysReopens == RSpec => []CanReopen
<1>1. RInv => CanReopen
  <2>. SUFFICES ASSUME RInv PROVE CanReopen
    OBVIOUS
  <2>. DEFINE d == disk.db
              l == LastProcessed(d)
              mp == InfoMempool(d)
  <2>1. PICK b : /\ Good(d, b, l, mp)
                 /\ Filled(b)
                 /\ Mirror(disk.rbTable, b, mp, Len(b))
    BY DEF RInv, DiskGood
  <2>2. /\ b \in Seq(Entry) /\ Descending(b) /\ Len(b) <= Capacity /\ mp \in BOOLEAN
        /\ l \in Point /\ Chained(b, l, mp)
    BY <2>1 DEF Good, Typed
  <2>3. FetchFromStorage(disk.rbTable) = b
    BY <2>1, <2>2, FetchFacts DEF Mirror
  <2>4. d[InfoKey] # Absent => /\ d[InfoKey].hash = l.hash
                               /\ d[InfoKey].mempool = mp
                               /\ ~mp => d[InfoKey].height = l.height
    <3>. HIDE DEF l, mp
    <3>. QED BY <2>1, StoreFacts
  <2>. HIDE DEF l, mp
  <2>5. l = [height |-> l.height, hash |-> l.hash]
    BY <2>2 DEF Point
  <2>6. b # <<>> => Len(b) >= 1
    BY <2>2
  <2>7. b # <<>> => b[1].point = IF mp THEN MempoolPoint(l.hash) ELSE l
    BY <2>2, <2>6 DEF Chained
  <2>8. MempoolPoint(l.hash).hash = l.hash
    BY DEF MempoolPoint
  <2>9. StartupAsserts(d, b)
    BY <2>2, <2>4, <2>5, <2>7, <2>8 DEF StartupAsserts, l
  <2>. QED BY <2>3, <2>9 DEF CanReopen
<1>. QED BY <1>1, RInvariance, PTL

\* A snapshot found on disk has its originals there, over the entry of its tip,
\* so the process that finds it can undo it.
THEOREM SnapshotsAreRecoverable == RSpec => []MempoolRecoverable
<1>1. RInv => MempoolRecoverable
  <2>. SUFFICES ASSUME RInv, InfoMempool(disk.db)
                PROVE  LET b == FetchFromStorage(disk.rbTable) IN
                       /\ Len(b) >= 2
                       /\ b[1].point = MempoolPoint(LastProcessed(disk.db).hash)
                       /\ b[2].point = LastProcessed(disk.db)
    BY DEF MempoolRecoverable
  <2>1. PICK b : /\ Good(disk.db, b, LastProcessed(disk.db), InfoMempool(disk.db))
                 /\ Filled(b)
                 /\ Mirror(disk.rbTable, b, InfoMempool(disk.db), Len(b))
    BY DEF RInv, DiskGood
  <2>2. /\ b \in Seq(Entry) /\ Descending(b) /\ Len(b) <= Capacity
        /\ Chained(b, LastProcessed(disk.db), InfoMempool(disk.db))
    BY <2>1 DEF Good, Typed
  <2>3. FetchFromStorage(disk.rbTable) = b
    BY <2>1, <2>2, FetchFacts DEF Mirror
  <2>. QED BY <2>2, <2>3 DEF Chained
<1>. QED BY <1>1, RInvariance, PTL

(***************************************************************************)
(* Part 4. The pipeline.                                                   *)
(***************************************************************************)

(***************************************************************************)
(* The node's chain.                                                       *)
(***************************************************************************)

\* What the ancestors of a block are.
Lineage(b) ==
  /\ Ancestors[b] \subseteq Block /\ b \in Ancestors[b] /\ Genesis \in Ancestors[b]
  /\ \A x \in Ancestors[b] : Height[x] <= Height[b]
  /\ \A x, y \in Ancestors[b] : Height[x] = Height[y] => x = y
  /\ \A x \in Ancestors[b] \ {Genesis} : Prev[x] \in Ancestors[b]
  /\ \A h \in 0..Height[b] : \E x \in Ancestors[b] : Height[x] = h

\* One ancestor at every height.
LEMMA AncestorFacts ==
  ASSUME NEW a \in Block
  PROVE  Lineage(a)
<1>. DEFINE S == {b \in Block : Lineage(b)}
<1>1. Genesis \in S
  <2>1. Genesis \in Block /\ Height[Genesis] = 0 /\ Ancestors[Genesis] = {Genesis}
    BY ChainAssumption, AncestorsSteps
  <2>2. Lineage(Genesis)
    BY <2>1 DEF Lineage
  <2>. QED BY <2>1, <2>2
<1>2. ASSUME NEW b \in Block \ {Genesis}, Prev[b] \in S PROVE b \in S
  <2>. DEFINE c == Prev[b]
  <2>1. /\ c \in Block /\ Lineage(c) /\ Ancestors[b] = {b} \cup Ancestors[c]
        /\ Height[b] = Height[c] + 1 /\ Height[b] \in Nat /\ Height[c] \in Nat
    BY <1>2, ChainAssumption, AncestorsSteps
  <2>2. \A x \in Block : Height[x] \in Nat
    BY ChainAssumption
  <2>3. /\ Ancestors[c] \subseteq Block /\ c \in Ancestors[c] /\ Genesis \in Ancestors[c]
        /\ \A x \in Ancestors[c] : Height[x] <= Height[c]
        /\ \A x, y \in Ancestors[c] : Height[x] = Height[y] => x = y
        /\ \A x \in Ancestors[c] \ {Genesis} : Prev[x] \in Ancestors[c]
        /\ \A h \in 0..Height[c] : \E x \in Ancestors[c] : Height[x] = h
    BY <2>1 DEF Lineage
  <2>. HIDE DEF c
  <2>4. \A x \in Ancestors[b] : Height[x] <= Height[b]
    BY <2>1, <2>2, <2>3
  <2>5. \A x, y \in Ancestors[b] : Height[x] = Height[y] => x = y
    BY <2>1, <2>2, <2>3
  <2>6. \A x \in Ancestors[b] \ {Genesis} : Prev[x] \in Ancestors[b]
    BY <2>1, <2>3 DEF c
  <2>7. ASSUME NEW h \in 0..Height[b] PROVE \E x \in Ancestors[b] : Height[x] = h
    <3>1. CASE h = Height[b]
      BY <2>1, <3>1
    <3>2. CASE h # Height[b]
      <4>1. h \in 0..Height[c]
        BY <2>1, <3>2
      <4>. QED BY <2>1, <2>3, <4>1
    <3>. QED BY <3>1, <3>2
  <2>. QED BY <2>1, <2>3, <2>4, <2>5, <2>6, <2>7 DEF Lineage
<1>3. \A b \in Block \ {Genesis} : Prev[b] \in S => b \in S
  BY <1>2
<1>4. a \in S
  <2>. HIDE DEF S
  <2>. QED BY <1>1, <1>3, ChainInduction
<1>. QED BY <1>4

\* The headers after height h are the blocks of b's chain above it.
LEMMA PathFacts ==
  ASSUME NEW b \in Block, NEW h \in BlockHeight
  PROVE  /\ Path[b][h] \in Seq(Block)
         /\ Len(Path[b][h]) = IF Height[b] >= h THEN Height[b] - h ELSE 0
         /\ \A i \in 1..Len(Path[b][h]) : /\ Path[b][h][i] \in Ancestors[b]
                                          /\ Height[Path[b][h][i]] = h + i
<1>. DEFINE n == Height[b] - h
            m == IF Height[b] >= h THEN Height[b] - h ELSE 0
            F == [i \in 1..n |-> CHOOSE x \in Ancestors[b] : Height[x] = h + i]
<1>1. Height[b] \in Nat /\ h \in Nat
  BY ChainAssumption DEF BlockHeight
<1>2. Path[b][h] = F
  BY DEF Path
<1>3. 1..n = 1..m /\ m \in Nat
  BY <1>1
<1>4. ASSUME NEW i \in 1..m PROVE F[i] \in Ancestors[b] /\ Height[F[i]] = h + i
  <2>1. h + i \in 0..Height[b]
    BY <1>1, <1>4
  <2>2. \E x \in Ancestors[b] : Height[x] = h + i
    BY <2>1, AncestorFacts DEF Lineage
  <2>. DEFINE c == CHOOSE x \in Ancestors[b] : Height[x] = h + i
  <2>3. c \in Ancestors[b] /\ Height[c] = h + i
    BY <2>2, Zenon
  <2>4. F[i] = c
    BY <1>3
  <2>. QED BY <2>3, <2>4
<1>5. Ancestors[b] \subseteq Block
  BY AncestorFacts DEF Lineage
<1>6. F \in [1..m -> Block] /\ DOMAIN F = 1..m
  <2>1. F = [i \in 1..m |-> F[i]]
    BY <1>3
  <2>2. \A i \in 1..m : F[i] \in Block
    BY <1>4, <1>5
  <2>. HIDE DEF F
  <2>. QED BY <2>1, <2>2
<1>. HIDE DEF F, m, n
<1>7. F \in Seq(Block) /\ Len(F) = m
  BY <1>3, <1>6
<1>. QED BY <1>2, <1>4, <1>7 DEF m

\* j is s followed by t.
Joins(j, s, t) ==
  /\ Len(j) = Len(s) + Len(t) /\ Len(s) \in Nat /\ Len(t) \in Nat
  /\ \A i \in 1..Len(s) : j[i] = s[i]
  /\ \A i \in 1..Len(t) : j[Len(s) + i] = t[i]

\* The elements of a concatenation.
LEMMA Concat ==
  ASSUME NEW S, NEW s \in Seq(S), NEW t \in Seq(S)
  PROVE  s \o t \in Seq(S) /\ Joins(s \o t, s, t)
BY DEF Joins

(***************************************************************************)
(* The options of the database, and the cursor.                            *)
(***************************************************************************)

\* A set of numbers from a on that has every number from a to each of its own
\* is an interval of as many.
LEMMA InitialSegment ==
  ASSUME NEW a \in Nat, NEW N \in Nat, NEW S, S \subseteq a..N,
         \A i \in S : \A j \in a..N : j < i => j \in S
  PROVE  Cardinality(S) \in Nat /\ S = a..(a + Cardinality(S) - 1)
<1>1. CASE S = {}
  <2>1. Cardinality(S) = 0
    BY <1>1, FS_EmptySet
  <2>. QED BY <1>1, <2>1
<1>2. CASE S # {}
  <2>1. S \subseteq 0..N
    OBVIOUS
  <2>2. PICK m \in S : \A i \in S : i <= m
    BY <1>2, <2>1, GreatestNat
  <2>3. m \in Nat /\ a <= m /\ m <= N
    OBVIOUS
  <2>5. ASSUME NEW i \in a..m PROVE i \in S
    <3>1. i \in a..N /\ (i = m \/ i < m)
      BY <2>3
    <3>. QED BY <3>1
  <2>6. ASSUME NEW i \in S PROVE i \in a..m
    BY <2>2, <2>3
  <2>7. S = a..m
    BY <2>5, <2>6
  <2>4. Cardinality(a..m) = m - a + 1
    BY <2>3, FS_Interval
  <2>. QED BY <2>3, <2>4, <2>7
<1>. QED BY <1>1, <1>2

\* The loop's distances from the tip are naturals that never shrink, and grow
\* from the first on.
Distances ==
  /\ Walk \in [0..MaxPushes -> Nat]
  /\ Walk[0] = 0
  /\ \A i \in 1..MaxPushes : Walk[i] > 0
  /\ \A i, j \in 0..MaxPushes : i < j => Walk[i] <= Walk[j]

\* They are computed by the loop of intersect_options.
LEMMA WalkSteps ==
  /\ Walk[0] = 0
  /\ \A i \in 1..MaxPushes : Walk[i] = Walk[i - 1] + Step(i)
  /\ Walk = [i \in 0..MaxPushes |-> Walk[i]]
<1>. DEFINE N == MaxPushes
            g == [i \in 1..N |-> [x \in Nat |-> x + Step(i)]]
            Body(f) == [i \in 0..N |-> IF i = 0 THEN 0 ELSE f[i - 1] + Step(i)]
<1>1. N \in Nat
  BY DEF MaxPushes
<1>2. g \in [1..N -> [Nat -> Nat]]
  BY StepAssumption
<1>3. PICK f \in [0..N -> Nat] : Computed(f, N, 0, g)
  <2>. HIDE DEF g, N
  <2>. QED BY <1>1, <1>2, RecursionExists
<1>4. f = Body(f)
  <2>1. ASSUME NEW i \in 0..N PROVE f[i] = Body(f)[i]
    <3>1. f[i] = IF i = 0 THEN 0 ELSE g[i][f[i - 1]]
      <4>. HIDE DEF g
      <4>. QED BY <1>3 DEF Computed
    <3>2. i # 0 => i \in 1..N /\ f[i - 1] \in Nat
      BY <1>1
    <3>. QED BY <3>1, <3>2
  <2>2. f = [i \in 0..N |-> f[i]] /\ Body(f) = [i \in 0..N |-> Body(f)[i]]
    OBVIOUS
  <2>. HIDE DEF Body
  <2>. QED BY <2>1, <2>2
<1>5. Walk = CHOOSE e : e = Body(e)
  BY Zenon DEF Walk
<1>6. Walk = Body(Walk)
  <2>. HIDE DEF Body
  <2>. QED BY <1>4, <1>5, Zenon
<1>7. Body(Walk) = [i \in 0..N |-> Body(Walk)[i]]
  OBVIOUS
<1>8. Walk = [i \in 0..N |-> Walk[i]]
  <2>. HIDE DEF Body
  <2>. QED BY <1>6, <1>7
<1>9. Walk[0] = 0
  BY <1>1, <1>6
<1>10. \A i \in 1..N : Walk[i] = Walk[i - 1] + Step(i)
  BY <1>1, <1>6
<1>. QED BY <1>8, <1>9, <1>10

\* So they grow.
LEMMA WalkGrows == Distances
<1>. DEFINE N == MaxPushes
<1>1. N \in Nat /\ N = 29 /\ \A i \in 1..N : Step(i) \in Nat
  BY StepAssumption DEF MaxPushes
<1>2. /\ Walk[0] = 0 /\ Walk = [i \in 0..N |-> Walk[i]]
      /\ \A i \in 1..N : Walk[i] = Walk[i - 1] + Step(i)
  BY WalkSteps
<1>3. Walk[1] = 1
  BY <1>1, <1>2 DEF Step
<1>. HIDE DEF N
<1>4. \A i \in 0..N : Walk[i] \in Nat
  <2>. DEFINE P == {i \in 0..N : Walk[i] \in Nat}
  <2>1. 0 \in P
    BY <1>1, <1>2
  <2>3. ASSUME NEW i \in 1..N, i - 1 \in P PROVE i \in P
    <3>1. Walk[i] = Walk[i - 1] + Step(i) /\ Step(i) \in Nat /\ Walk[i - 1] \in Nat
      BY <1>1, <1>2, <2>3
    <3>. QED BY <1>1, <3>1
  <2>4. \A i \in 1..N : i - 1 \in P => i \in P
    BY <2>3
  <2>2. \A i \in 0..N : i \in P
    <3>. HIDE DEF P
    <3>. QED BY <1>1, <2>1, <2>4, UpTo
  <2>. QED BY <2>2
<1>5. ASSUME NEW j \in 0..N PROVE \A i \in 0..N : i <= j => Walk[i] <= Walk[j]
  <2>. DEFINE P == {k \in 0..N : \A i \in 0..N : i <= k => Walk[i] <= Walk[k]}
  <2>1. 0 \in P
    BY <1>1, <1>4
  <2>2. ASSUME NEW k \in 1..N, k - 1 \in P PROVE k \in P
    <3>1. Walk[k - 1] <= Walk[k] /\ Walk[k - 1] \in Nat /\ Walk[k] \in Nat
      BY <1>1, <1>2, <1>4
    <3>2. ASSUME NEW i \in 0..N, i <= k PROVE Walk[i] <= Walk[k]
      <4>1. CASE i = k
        BY <3>1, <4>1
      <4>2. CASE i # k
        <5>1. i <= k - 1 /\ Walk[i] \in Nat
          BY <1>4, <3>2, <4>2
        <5>2. Walk[i] <= Walk[k - 1]
          BY <2>2, <5>1
        <5>. QED BY <3>1, <5>1, <5>2
      <4>. QED BY <4>1, <4>2
    <3>. QED BY <3>2
  <2>3. \A k \in 1..N : k - 1 \in P => k \in P
    BY <2>2
  <2>4. \A k \in 0..N : k \in P
    <3>. HIDE DEF P
    <3>. QED BY <1>1, <2>1, <2>3, UpTo
  <2>. QED BY <2>4
<1>6. Walk \in [0..N -> Nat]
  BY <1>2, <1>4
<1>7. ASSUME NEW i \in 1..N PROVE Walk[i] > 0
  <2>1. 1 \in 0..N /\ i \in 0..N /\ 1 <= i
    BY <1>1
  <2>2. Walk[1] <= Walk[i] /\ Walk[i] \in Nat
    BY <1>4, <1>5, <2>1
  <2>. QED BY <1>3, <2>2
<1>8. \A i, j \in 0..N : i < j => Walk[i] <= Walk[j]
  BY <1>1, <1>5
<1>. QED BY <1>2, <1>6, <1>7, <1>8 DEF N, Distances

\* The heights pushed for a database at height h begin with h and descend.
LEMMA OptionHeightsFacts ==
  ASSUME NEW h \in BlockHeight
  PROVE  LET o == OptionHeights[h] IN
         /\ o \in Seq(BlockHeight)
         /\ h = 0 => o = <<>>
         /\ h # 0 => Len(o) >= 1 /\ o[1] = h
         /\ \A i \in 1..Len(o) : o[i] > 0 /\ o[i] <= h
         /\ \A i \in 2..Len(o) : o[i] < h
         /\ \A i, j \in 1..Len(o) : i < j => o[i] >= o[j]
<1>. DEFINE S == Pushes(h)
            n == Cardinality(S)
            o == OptionHeights[h]
<1>1. h \in Nat /\ \A x \in 0..h : x \in BlockHeight
  <2>1. PICK b \in Block : Height[b] = h
    BY DEF BlockHeight
  <2>2. h \in Nat
    BY <2>1, ChainAssumption
  <2>3. \A x \in 0..h : \E c \in Ancestors[b] : Height[c] = x
    BY <2>1, AncestorFacts DEF Lineage
  <2>4. Ancestors[b] \subseteq Block
    BY AncestorFacts DEF Lineage
  <2>. QED BY <2>2, <2>3, <2>4 DEF BlockHeight
<1>2. /\ \A i \in 0..MaxPushes : Walk[i] \in Nat
      /\ Walk[0] = 0 /\ MaxPushes \in Nat
      /\ \A i \in 1..MaxPushes : Walk[i] > 0
      /\ \A i, j \in 0..MaxPushes : i < j => Walk[i] <= Walk[j]
  BY WalkGrows DEF Distances, MaxPushes
<1>3. S \subseteq 0..MaxPushes /\ \A i \in 0..MaxPushes : i \in S <=> Walk[i] < h
  BY DEF Pushes
<1>4. \A i \in S : \A j \in 0..MaxPushes : j < i => j \in S
  BY <1>1, <1>2, <1>3
<1>5. n \in Nat /\ S = 0..(0 + n - 1)
  <2>. HIDE DEF S
  <2>. QED BY <1>2, <1>3, <1>4, InitialSegment
<1>6. o = [i \in 1..n |-> h - Walk[i - 1]]
  BY DEF OptionHeights
<1>. HIDE DEF S, n
<1>7. ASSUME NEW i \in 1..n
      PROVE  /\ i - 1 \in 0..MaxPushes /\ Walk[i - 1] \in Nat /\ Walk[i - 1] < h
             /\ h - Walk[i - 1] \in BlockHeight
  <2>1. i - 1 \in S
    BY <1>5
  <2>2. i - 1 \in 0..MaxPushes /\ Walk[i - 1] \in Nat /\ Walk[i - 1] < h
    BY <1>2, <1>3, <2>1
  <2>3. h - Walk[i - 1] \in 0..h
    BY <1>1, <2>2
  <2>. QED BY <1>1, <2>2, <2>3
<1>8. o \in Seq(BlockHeight) /\ Len(o) = n
  BY <1>5, <1>6, <1>7
<1>9. \A i \in 1..n : o[i] = h - Walk[i - 1]
  BY <1>6
<1>10. h = 0 => o = <<>>
  <2>. SUFFICES ASSUME h = 0 PROVE n = 0
    BY <1>6
  <2>1. 0 \notin S
    BY <1>2, <1>3
  <2>. QED BY <1>5, <2>1
<1>11. h # 0 => n >= 1
  <2>. SUFFICES ASSUME h # 0 PROVE 0 \in S
    BY <1>5
  <2>. QED BY <1>1, <1>2, <1>3
<1>. HIDE DEF o
<1>12. \A i \in 1..n : o[i] > 0 /\ o[i] <= h
  BY <1>1, <1>7, <1>9
<1>13. ASSUME NEW i \in 2..n PROVE o[i] < h
  <2>1. i \in 1..n /\ i - 1 \in 1..MaxPushes
    BY <1>5, <1>7
  <2>2. Walk[i - 1] > 0 /\ Walk[i - 1] \in Nat
    BY <1>2, <1>7, <2>1
  <2>. QED BY <1>1, <1>9, <2>1, <2>2
<1>14. ASSUME NEW i \in 1..n, NEW j \in 1..n, i < j PROVE o[i] >= o[j]
  <2>1. Walk[i - 1] <= Walk[j - 1]
    <3>1. i - 1 \in 0..MaxPushes /\ j - 1 \in 0..MaxPushes /\ i - 1 < j - 1
      BY <1>7, <1>14
    <3>. QED BY <1>2, <3>1
  <2>. QED BY <1>1, <1>7, <1>9, <2>1
<1>15. h # 0 => o[1] = h
  BY <1>1, <1>2, <1>9, <1>11
<1>. QED BY <1>8, <1>10, <1>11, <1>12, <1>13, <1>14, <1>15 DEF o

\* A row of HashByHeightKV in the state of a chain is a block of that height.
LEMMA ChainHashes ==
  ASSUME NEW a \in Block, NEW h \in BlockHeight, StateAt[a][HashKey(h)] # Absent
  PROVE  StateAt[a][HashKey(h)] \in Block /\ Height[StateAt[a][HashKey(h)]] = h
<1>. DEFINE Row1(b, x) == StateAt[b][HashKey(x)]
            S == {b \in Block : \A x \in BlockHeight :
                    Row1(b, x) # Absent => Row1(b, x) \in Block /\ Height[Row1(b, x)] = x}
<1>1. Genesis \in S
  BY ChainRows, ChainAssumption
<1>2. ASSUME NEW b \in Block \ {Genesis}, Prev[b] \in S PROVE b \in S
  <2>. DEFINE c == Prev[b]
              w == BlockWrites(PointOf(b), StateAt[c])
  <2>1. c \in Block /\ PointOf(b) \in Point /\ b \in Block
    BY ChainAssumption DEF PointOf, Point, BlockHeight
  <2>2. StateAt[c] \in DB /\ StateAt[b] = Applied(StateAt[c], w)
    BY <2>1, StateAtSteps
  <2>3. /\ \A k \in DOMAIN w : k \in DataKey \/ k = InfoKey \/ k = HashKey(Height[b])
        /\ HashKey(Height[b]) \in DOMAIN w /\ w[HashKey(Height[b])] = b
    BY <2>1, <2>2, BlockWritesFacts DEF PointOf
  <2>. HIDE DEF w, c
  <2>4. ASSUME NEW x \in BlockHeight, Row1(b, x) # Absent
        PROVE  Row1(b, x) \in Block /\ Height[Row1(b, x)] = x
    <3>1. HashKey(x) \in Key /\ HashKey(x) # InfoKey /\ HashKey(x) \notin DataKey
      BY HashKeys
    <3>2. Row1(b, x) = IF HashKey(x) \in DOMAIN w THEN w[HashKey(x)] ELSE Row1(c, x)
      BY <2>2, <3>1 DEF Applied
    <3>3. CASE HashKey(x) \in DOMAIN w
      <4>1. HashKey(x) = HashKey(Height[b])
        BY <2>3, <3>1, <3>3
      <4>2. x = Height[b]
        BY <4>1, HashKeys
      <4>. QED BY <2>1, <2>3, <3>2, <3>3, <4>1, <4>2
    <3>4. CASE HashKey(x) \notin DOMAIN w
      <4>1. Row1(b, x) = Row1(c, x)
        BY <3>2, <3>4
      <4>. QED BY <1>2, <2>4, <4>1 DEF c
    <3>. QED BY <3>3, <3>4
  <2>. QED BY <2>1, <2>4
<1>3. \A b \in Block \ {Genesis} : Prev[b] \in S => b \in S
  BY <1>2
<1>4. a \in S
  <2>. HIDE DEF S
  <2>. QED BY <1>1, <1>3, ChainInduction
<1>. QED BY <1>4

\* The rows of HashByHeightKV are those of the chain, under a snapshot too.
LEMMA RowsOfChain ==
  ASSUME IInv, NEW h \in BlockHeight
  PROVE  db[HashKey(h)] = StateAt[last.hash][HashKey(h)]
<1>1. /\ last \in Point /\ last.hash \in Block /\ processedMempool \in BOOLEAN
      /\ StateAt[last.hash] \in DB
  BY ChainRows DEF IInv, Good, Typed, Point
<1>2. CASE ~processedMempool
  BY <1>2 DEF IInv, Good
<1>3. CASE processedMempool
  <2>1. PICK s \in Snapshot :
          db = Applied(StateAt[last.hash], MempoolWrites(s, last, StateAt[last.hash]))
    BY <1>3 DEF IInv, Good, Overlay
  <2>. DEFINE w == MempoolWrites(s, last, StateAt[last.hash])
  <2>2. \A k \in DOMAIN w : k \in DataKey \/ k = InfoKey
    BY <1>1, MempoolWritesFacts
  <2>3. HashKey(h) \in Key /\ HashKey(h) # InfoKey /\ HashKey(h) \notin DataKey
    BY HashKeys
  <2>. HIDE DEF w
  <2>4. HashKey(h) \notin DOMAIN w
    BY <2>2, <2>3
  <2>. QED BY <2>1, <2>3, <2>4 DEF Applied, w
<1>. QED BY <1>1, <1>2, <1>3

\* The points of blocks.
RealPoint == {PointOf(b) : b \in Block}

\* Each is a point, and has its own hash.
LEMMA RealPoints ==
  /\ \A b \in Block : PointOf(b) \in RealPoint /\ PointOf(b).hash = b /\ PointOf(b).height = Height[b]
  /\ \A p \in RealPoint : /\ p \in Point /\ p.hash \in Block /\ p.height = Height[p.hash]
                          /\ p = PointOf(p.hash) /\ p.height \in Nat
                          /\ p.height \in BlockHeight
BY ChainAssumption DEF RealPoint, PointOf, Point, BlockHeight

\* The options read from the database at height h: real points, h first and the
\* others below it, genesis last.
LEMMA OptionsFacts ==
  ASSUME IInv, NEW h \in BlockHeight, ~Missing(h)
  PROVE  LET c == OptionsAt(h) IN
         /\ c \in Seq(RealPoint)
         /\ Len(c) >= 1
         /\ c[Len(c)] = PointOf(Genesis)
         /\ c[1].height = h
         /\ h # 0 => c[1].hash = db[HashKey(h)]
         /\ \A i \in 2..Len(c) : c[i].height < h
         /\ \A i, j \in 1..Len(c) : i < j => c[i].height >= c[j].height
<1>. DEFINE o == OptionHeights[h]
            n == Len(o)
            pt(i) == [height |-> o[i], hash |-> db[HashKey(o[i])]]
            f == [i \in 1..n |-> pt(i)]
            c == OptionsAt(h)
<1>1. /\ o \in Seq(BlockHeight) /\ n \in Nat /\ DOMAIN o = 1..n
      /\ h = 0 => o = <<>>
      /\ h # 0 => n >= 1 /\ o[1] = h
      /\ \A i \in 1..n : o[i] > 0 /\ o[i] <= h
      /\ \A i \in 2..n : o[i] < h
      /\ \A i, j \in 1..n : i < j => o[i] >= o[j]
  BY OptionHeightsFacts
<1>2. h \in Nat /\ BlockHeight \subseteq Nat
  BY ChainAssumption DEF BlockHeight
<1>3. c = f \o <<PointOf(Genesis)>>
  BY <1>1 DEF OptionsAt
<1>4. ASSUME NEW i \in 1..n PROVE pt(i) \in RealPoint /\ pt(i).height = o[i] /\ o[i] \in Nat
  <2>1. o[i] \in BlockHeight /\ db[HashKey(o[i])] # Absent
    BY <1>1 DEF Missing
  <2>2. last.hash \in Block
    BY DEF IInv, Good, Typed, Point
  <2>3. db[HashKey(o[i])] \in Block /\ Height[db[HashKey(o[i])]] = o[i]
    <3>. DEFINE x == o[i]
    <3>1. x \in BlockHeight /\ db[HashKey(x)] # Absent
      BY <2>1
    <3>. HIDE DEF x
    <3>2. db[HashKey(x)] \in Block /\ Height[db[HashKey(x)]] = x
      BY <2>2, <3>1, RowsOfChain, ChainHashes
    <3>. QED BY <3>2 DEF x
  <2>4. pt(i) = PointOf(db[HashKey(o[i])])
    BY <2>3 DEF PointOf
  <2>. QED BY <1>2, <2>1, <2>3, <2>4, RealPoints
<1>5. PointOf(Genesis) \in RealPoint /\ PointOf(Genesis).height = 0
  BY ChainAssumption, RealPoints
<1>. HIDE DEF o, n, pt, c
<1>6. f \in Seq(RealPoint) /\ Len(f) = n /\ \A i \in 1..n : f[i] = pt(i)
  BY <1>1, <1>4
<1>. HIDE DEF f
<1>7. /\ c \in Seq(RealPoint) /\ Len(c) = n + 1 /\ c[n + 1] = PointOf(Genesis)
      /\ \A i \in 1..n : c[i] = f[i]
  BY <1>1, <1>3, <1>5, <1>6
<1>8. \A i \in 1..n : c[i].height = o[i] /\ o[i] \in Nat
  BY <1>4, <1>6, <1>7
<1>9. /\ c[1].height = h
      /\ h # 0 => c[1].hash = db[HashKey(h)]
  <2>1. CASE h = 0
    <3>1. n = 0
      BY <1>1, <2>1 DEF n
    <3>. QED BY <1>5, <1>7, <2>1, <3>1
  <2>2. CASE h # 0
    <3>1. 1 \in 1..n /\ o[1] = h
      BY <1>1, <2>2
    <3>2. c[1] = pt(1)
      BY <1>6, <1>7, <3>1
    <3>. QED BY <1>8, <3>1, <3>2 DEF pt
  <2>. QED BY <2>1, <2>2
<1>10. ASSUME NEW i \in 2..Len(c) PROVE c[i].height < h
  <2>1. CASE i = n + 1
    <3>1. h # 0
      <4>. SUFFICES ASSUME h = 0 PROVE FALSE
        OBVIOUS
      <4>1. n = 0
        BY <1>1 DEF n
      <4>. QED BY <2>1, <4>1
    <3>. QED BY <1>2, <1>5, <1>7, <2>1, <3>1
  <2>2. CASE i # n + 1
    <3>1. i \in 2..n /\ i \in 1..n
      BY <1>1, <1>7, <2>2
    <3>. QED BY <1>1, <1>8, <3>1
  <2>. QED BY <2>1, <2>2
<1>11. ASSUME NEW i \in 1..Len(c), NEW j \in 1..Len(c), i < j PROVE c[i].height >= c[j].height
  <2>1. i \in 1..n /\ c[i].height = o[i] /\ o[i] \in Nat /\ o[i] > 0
    BY <1>1, <1>7, <1>8, <1>11
  <2>2. CASE j = n + 1
    BY <1>5, <1>7, <2>1, <2>2
  <2>3. CASE j # n + 1
    <3>1. j \in 1..n
      BY <1>1, <1>7, <2>3
    <3>. QED BY <1>1, <1>8, <1>11, <2>1, <3>1
  <2>. QED BY <2>2, <2>3
<1>. QED BY <1>1, <1>7, <1>9, <1>10, <1>11 DEF c

\* options.retain keeps the points below x.
LEMMA RetainedFacts ==
  ASSUME NEW c \in Seq(RealPoint), NEW x \in Nat,
         \A i, j \in 1..Len(c) : i < j => c[i].height >= c[j].height
  PROVE  /\ Retained(c, x) \in Seq(RealPoint)
         /\ \A i \in 1..Len(Retained(c, x)) : Retained(c, x)[i].height < x
<1>. DEFINE S == {i \in DOMAIN c : c[i].height >= x}
            n == Cardinality(S)
            r == Retained(c, x)
<1>1. Len(c) \in Nat /\ DOMAIN c = 1..Len(c) /\ \A i \in 1..Len(c) : c[i].height \in Nat
  BY RealPoints
<1>2. S \subseteq 1..Len(c) /\ \A i \in S : \A j \in 1..Len(c) : j < i => j \in S
  BY <1>1
<1>3. n \in Nat /\ S = 1..(1 + n - 1)
  <2>. HIDE DEF S
  <2>. QED BY <1>1, <1>2, InitialSegment
<1>4. \A i \in 1..Len(c) : i > n => ~(c[i].height >= x)
  <2>. SUFFICES ASSUME NEW i \in 1..Len(c), i > n PROVE i \notin S
    BY <1>1
  <2>. HIDE DEF S, n
  <2>. QED BY <1>3
<1>5. r = SubSeq(c, n + 1, Len(c))
  BY DEF Retained
<1>. HIDE DEF S, n, r
<1>6. n <= Len(c)
  BY <1>1, <1>2, <1>3
<1>7. /\ r \in Seq(RealPoint) /\ Len(r) = Len(c) - n
      /\ \A i \in 1..(Len(c) - n) : r[i] = c[n + i]
  BY <1>1, <1>3, <1>5, <1>6
<1>8. ASSUME NEW i \in 1..Len(r) PROVE r[i].height < x
  <2>1. r[i] = c[n + i] /\ n + i \in 1..Len(c) /\ n + i > n
    BY <1>1, <1>3, <1>6, <1>7
  <2>. QED BY <1>1, <1>4, <2>1
<1>. QED BY <1>7, <1>8 DEF r

\* A cursor to ask for headers with: real points, all below the first, and
\* genesis among them.
CursorOK(c) ==
  /\ c \in Seq(RealPoint) /\ Len(c) >= 1
  /\ \E i \in 1..Len(c) : c[i] = PointOf(Genesis)
  /\ \A i \in 2..Len(c) : c[i].height < c[1].height

\* A page of consecutive headers after point at.
PageOK(page, at) ==
  /\ page \in Seq(Block) /\ Len(page) >= 1
  /\ at \in RealPoint
  /\ \A i \in 1..Len(page) : Height[page[i]] = at.height + i
  /\ Prev[page[1]] = at.hash
  /\ \A i \in 2..Len(page) : Prev[page[i]] = page[i - 1]

\* A page's own points, with lower ones after them, are a cursor that begins
\* with the page's newest block.
LEMMA PageCursorFacts ==
  ASSUME NEW page, NEW at, PageOK(page, at), NEW r \in Seq(RealPoint),
         \A i \in 1..Len(r) : r[i].height < Height[page[1]]
  PROVE  /\ CursorOK(PageCursor(page) \o r \o <<PointOf(Genesis)>>)
         /\ (PageCursor(page) \o r \o <<PointOf(Genesis)>>)[1] = PointOf(page[Len(page)])
<1>. DEFINE n == Len(page)
            m == IF n < CursorLen THEN n ELSE CursorLen
            f == PageCursor(page)
            g == f \o r
            c == g \o <<PointOf(Genesis)>>
            top == Height[page[n]]
<1>1. /\ n \in Nat /\ n >= 1 /\ m \in Nat /\ m >= 1 /\ m <= n
      /\ \A i \in 1..n : page[i] \in Block /\ Height[page[i]] = at.height + i
      /\ at.height \in Nat
  BY PipelineAssumption, RealPoints DEF PageOK
<1>2. f = [i \in 1..m |-> PointOf(page[n + 1 - i])]
  BY DEF PageCursor
<1>. HIDE DEF n, m, f
<1>3. ASSUME NEW i \in 1..m
      PROVE  /\ PointOf(page[n + 1 - i]) \in RealPoint
             /\ PointOf(page[n + 1 - i]).height = at.height + (n + 1 - i)
  <2>1. n + 1 - i \in 1..n
    BY <1>1
  <2>. QED BY <1>1, <2>1, RealPoints
<1>4. f \in Seq(RealPoint) /\ Len(f) = m /\ \A i \in 1..m : f[i] = PointOf(page[n + 1 - i])
  BY <1>1, <1>2, <1>3
<1>5. /\ PointOf(Genesis) \in RealPoint /\ PointOf(Genesis).height = 0
      /\ top = at.height + n /\ Height[page[1]] = at.height + 1
  BY <1>1, ChainAssumption, RealPoints
<1>6. f[1] = PointOf(page[n]) /\ f[1].height = top
  <2>1. 1 \in 1..m /\ n + 1 - 1 = n
    BY <1>1
  <2>2. f[1] = PointOf(page[n])
    BY <1>4, <2>1
  <2>3. n \in 1..n
    BY <1>1
  <2>. QED BY <1>1, <2>2, <2>3, RealPoints
<1>7. /\ g \in Seq(RealPoint) /\ Len(g) = m + Len(r) /\ Len(r) \in Nat
      /\ \A i \in 1..m : g[i] = f[i]
      /\ \A i \in 1..Len(r) : g[m + i] = r[i]
  <2>1. f \o r \in Seq(RealPoint) /\ Joins(f \o r, f, r)
    BY <1>4, Concat, Zenon
  <2>2. g \in Seq(RealPoint) /\ Joins(g, f, r)
    BY <2>1
  <2>. HIDE DEF g
  <2>. QED BY <1>4, <2>2 DEF Joins
<1>. HIDE DEF g
<1>8. /\ c \in Seq(RealPoint) /\ Len(c) = m + Len(r) + 1
      /\ \A i \in 1..(m + Len(r)) : c[i] = g[i]
      /\ c[m + Len(r) + 1] = PointOf(Genesis)
  <2>. DEFINE t == <<PointOf(Genesis)>>
  <2>1. t \in Seq(RealPoint) /\ Len(t) = 1 /\ t[1] = PointOf(Genesis) /\ 1 \in 1..Len(t)
    BY <1>5
  <2>2. c = g \o t
    OBVIOUS
  <2>. HIDE DEF t, c
  <2>3. g \o t \in Seq(RealPoint) /\ Joins(g \o t, g, t)
    BY <1>7, <2>1, Concat, Zenon
  <2>4. c \in Seq(RealPoint) /\ Joins(c, g, t)
    BY <2>2, <2>3
  <2>. QED BY <1>7, <2>1, <2>4 DEF Joins
<1>. HIDE DEF c
<1>9. c[1] = PointOf(page[n]) /\ c[1].height = top
  BY <1>1, <1>6, <1>7, <1>8
<1>10. ASSUME NEW i \in 2..Len(c) PROVE c[i].height < top
  <2>1. CASE i <= m
    <3>1. i \in 1..m /\ c[i] = PointOf(page[n + 1 - i])
      BY <1>1, <1>4, <1>7, <1>8, <2>1
    <3>. QED BY <1>1, <1>3, <1>5, <3>1
  <2>2. CASE m < i /\ i <= m + Len(r)
    <3>. DEFINE j == i - m
    <3>1. j \in 1..Len(r) /\ i = m + j
      BY SMTT(30), <1>1, <1>7, <2>2
    <3>. HIDE DEF j
    <3>2. c[i] = r[j] /\ r[j].height \in Nat /\ r[j].height < Height[page[1]]
      BY <1>1, <1>7, <1>8, <2>2, <3>1, RealPoints
    <3>. QED BY <1>1, <1>5, <3>2
  <2>3. CASE i = m + Len(r) + 1
    BY <1>1, <1>5, <1>8, <2>3
  <2>4. m \in Nat /\ Len(r) \in Nat /\ i \in 2..(m + Len(r) + 1)
    BY <1>1, <1>7, <1>8
  <2>. QED BY <2>1, <2>2, <2>3, <2>4
<1>11. m + Len(r) + 1 \in 1..Len(c) /\ Len(c) >= 1
  BY <1>1, <1>7, <1>8
<1>12. CursorOK(c)
  BY <1>8, <1>9, <1>10, <1>11 DEF CursorOK
<1>. QED BY <1>9, <1>12 DEF c, g, f, n

\* The node's answer to a cursor is after one of its points, which is on the
\* node's chain.
LEMMA FirstOnChainFacts ==
  ASSUME NEW c, CursorOK(c), node \in Block
  PROVE  /\ FirstOnChain(c) \in RealPoint
         /\ FirstOnChain(c).hash \in Ancestors[node]
         /\ \E i \in 1..Len(c) : FirstOnChain(c) = c[i]
<1>. DEFINE T == {i \in 1..Len(c) : c[i].hash \in Ancestors[node]}
            Is(i) == /\ c[i].hash \in Ancestors[node]
                     /\ \A j \in 1..(i - 1) : c[j].hash \notin Ancestors[node]
            k == CHOOSE i \in 1..Len(c) : Is(i)
<1>1. c \in Seq(RealPoint) /\ Len(c) \in Nat
  BY DEF CursorOK
<1>2. PICK l \in 1..Len(c) : c[l] = PointOf(Genesis)
  BY DEF CursorOK
<1>3. c[l].hash \in Ancestors[node]
  BY <1>2, AncestorFacts, RealPoints, ChainAssumption DEF Lineage
<1>4. T \subseteq Nat /\ T # {}
  BY <1>1, <1>2, <1>3
<1>5. PICK i \in T : \A j \in T : i <= j
  <2>. HIDE DEF T
  <2>. QED BY <1>4, LeastNat
<1>6. i \in 1..Len(c) /\ Is(i)
  BY <1>1, <1>5
<1>. HIDE DEF Is
<1>7. k \in 1..Len(c) /\ Is(k)
  BY <1>6, Zenon
<1>8. FirstOnChain(c) = c[k]
  BY DEF FirstOnChain, Is
<1>. HIDE DEF k
<1>. QED BY <1>1, <1>7, <1>8 DEF Is

\* What fetch_chain_actions fetches: consecutive blocks of the node's chain
\* after the answer's point.
LEMMA PageFacts ==
  ASSUME NEW c, CursorOK(c), node \in Block, serving \in BOOLEAN,
         FirstPage(GetHeaders(c)) # <<>>
  PROVE  /\ PageOK(FirstPage(GetHeaders(c)), FirstOnChain(c))
         /\ \A i \in 1..Len(FirstPage(GetHeaders(c))) :
              Height[FirstPage(GetHeaders(c))[i]] <= Height[node]
<1>. DEFINE at == FirstOnChain(c)
            hs == GetHeaders(c)
            path == Path[node][at.height]
            n == IF Len(hs) > PageSize THEN PageSize ELSE Len(hs)
            page == FirstPage(hs)
<1>1. at \in RealPoint /\ at.hash \in Ancestors[node]
  BY FirstOnChainFacts
<1>2. /\ at.height \in BlockHeight /\ at.height = Height[at.hash] /\ at.height \in Nat
      /\ Height[node] \in Nat /\ PageSize \in Nat
      /\ at.hash \in Block
  BY <1>1, RealPoints, ChainAssumption, PipelineAssumption
<1>3. /\ path \in Seq(Block)
      /\ \A i \in 1..Len(path) : path[i] \in Ancestors[node] /\ Height[path[i]] = at.height + i
  <2>. DEFINE h == at.height
  <2>1. h \in BlockHeight
    BY <1>2
  <2>. HIDE DEF h
  <2>2. /\ Path[node][h] \in Seq(Block)
        /\ \A i \in 1..Len(Path[node][h]) : /\ Path[node][h][i] \in Ancestors[node]
                                            /\ Height[Path[node][h][i]] = h + i
    BY <2>1, PathFacts
  <2>. QED BY <2>2 DEF h
<1>4. hs = IF serving THEN path ELSE <<>>
  BY DEF GetHeaders
<1>5. page = SubSeq(hs, 1, n)
  BY DEF FirstPage
<1>. HIDE DEF at, path, hs
<1>6. serving
  <2>. SUFFICES ASSUME ~serving PROVE page = <<>>
    BY DEF hs
  <2>1. hs = <<>> /\ Len(hs) = 0
    BY <1>4
  <2>2. n = 0
    BY <1>2, <2>1
  <2>. QED BY <1>5, <2>1, <2>2
<1>7. hs = path /\ Len(path) \in Nat /\ n \in Nat /\ n <= Len(path)
  BY <1>2, <1>3, <1>4, <1>6
<1>. HIDE DEF n
<1>8. page \in Seq(Block) /\ Len(page) = n /\ \A i \in 1..n : page[i] = path[i]
  BY <1>3, <1>5, <1>7
<1>9. n >= 1
  <2>. SUFFICES ASSUME n = 0 PROVE page = <<>>
    BY <1>7 DEF hs, page
  <2>. HIDE DEF page
  <2>. QED BY <1>8
<1>. HIDE DEF page
<1>10. \A i \in 1..n : page[i] \in Ancestors[node] /\ page[i] \in Block /\ Height[page[i]] = at.height + i
  BY <1>3, <1>7, <1>8
<1>11. ASSUME NEW x \in Ancestors[node], NEW y \in Ancestors[node], Height[x] = Height[y] + 1
       PROVE  Prev[x] = y
  <2>1. /\ x \in Block /\ y \in Block /\ Height[y] \in Nat
    BY AncestorFacts, ChainAssumption DEF Lineage
  <2>2. x # Genesis
    BY <1>11, <2>1, ChainAssumption
  <2>3. Prev[x] \in Ancestors[node] /\ Prev[x] \in Block /\ Height[x] = Height[Prev[x]] + 1
    BY <2>1, <2>2, AncestorFacts, ChainAssumption DEF Lineage
  <2>4. Height[Prev[x]] = Height[y]
    <3>1. Height[Prev[x]] \in Nat
      BY <2>3, ChainAssumption
    <3>. QED BY <1>11, <2>1, <2>3, <3>1
  <2>. QED BY <2>3, <2>4, AncestorFacts DEF Lineage
<1>12. Prev[page[1]] = at.hash
  <2>1. 1 \in 1..n
    BY <1>7, <1>9
  <2>. QED BY <1>1, <1>2, <1>10, <1>11, <2>1
<1>13. ASSUME NEW i \in 2..n PROVE Prev[page[i]] = page[i - 1]
  <2>1. i \in 1..n /\ i - 1 \in 1..n
    BY <1>7
  <2>. QED BY SMTT(30), <1>2, <1>10, <1>11, <2>1
<1>14. PageOK(page, at)
  BY <1>1, <1>8, <1>9, <1>10, <1>12, <1>13 DEF PageOK
<1>15. \A i \in 1..n : Height[page[i]] <= Height[node]
  BY <1>10, AncestorFacts DEF Lineage
<1>. QED BY <1>8, <1>14, <1>15 DEF page, hs, at

(***************************************************************************)
(* The events between the stages.                                          *)
(***************************************************************************)

Event ==
  {RollForwardEvent(b, Larger(t, Height[b])) : b \in Block, t \in BlockHeight}
  \cup {RollBackEvent(p) : p \in RealPoint}
  \cup {MempoolEvent(b) : b \in Block}

\* What an event of each type carries.
WellFormed(e) ==
  /\ e.type \in {"RollForward", "RollBack", "MempoolBlocks"}
  /\ e.type = "RollForward" =>
       /\ e.point \in RealPoint /\ e.point.height \in Nat
       /\ e.tip \in BlockHeight /\ e.tip >= e.point.height
  /\ e.type = "RollBack" => e.point \in RealPoint
  /\ e.type = "MempoolBlocks" => e.tip \in Block /\ Height[e.tip] \in Nat

\* Every event that the pull stage can send is well formed.
LEMMA EventFacts ==
  ASSUME NEW e \in Event
  PROVE  WellFormed(e)
<1>1. CASE e \in {RollForwardEvent(b, Larger(t, Height[b])) : b \in Block, t \in BlockHeight}
  <2>1. PICK b \in Block, t \in BlockHeight : e = RollForwardEvent(b, Larger(t, Height[b]))
    BY <1>1
  <2>2. Height[b] \in BlockHeight /\ Height[b] \in Nat /\ t \in Nat
    BY ChainAssumption DEF BlockHeight
  <2>3. Larger(t, Height[b]) \in BlockHeight /\ Larger(t, Height[b]) >= Height[b]
    BY <2>2 DEF Larger
  <2>4. e.type = "RollForward" /\ e.point = PointOf(b) /\ e.tip = Larger(t, Height[b])
    BY <2>1 DEF RollForwardEvent
  <2>. QED BY <2>2, <2>3, <2>4, RealPoints DEF WellFormed
<1>2. CASE e \in {RollBackEvent(p) : p \in RealPoint}
  BY <1>2 DEF RollBackEvent, WellFormed
<1>3. CASE e \in {MempoolEvent(b) : b \in Block}
  BY <1>3, ChainAssumption DEF MempoolEvent, WellFormed
<1>. QED BY <1>1, <1>2, <1>3 DEF Event

\* No block among the events es, nor delivered height d, is above h.
Ceiling(es, d, h) ==
  /\ d <= h
  /\ \A i \in 1..Len(es) : es[i].type = "RollForward" => es[i].point.height <= h

\* TemplatesNotBelow, of any events and any delivered height.
NotBelow(es, d) ==
  \A i \in 1..Len(es) :
    es[i].type = "MempoolBlocks" =>
      /\ Height[es[i].tip] >= d
      /\ \A j \in 1..(i - 1) :
           es[j].type = "RollForward" => Height[es[i].tip] >= es[j].point.height

\* The node's height grows.
LEMMA CeilingRises ==
  ASSUME NEW es \in Seq(Event), NEW d \in Nat, NEW h \in Nat, NEW k \in Nat,
         Ceiling(es, d, h), h <= k
  PROVE  Ceiling(es, d, k)
<1>1. \A i \in 1..Len(es) : WellFormed(es[i])
  BY EventFacts
<1>. QED BY <1>1 DEF Ceiling, WellFormed

\* The events in hand are dropped, and those queued stay.
LEMMA PrefixFits ==
  ASSUME NEW j, NEW q \in Seq(Event), NEW u, Joins(j, q, u), NEW d, NEW h,
         Ceiling(j, d, h), NotBelow(j, d)
  PROVE  Ceiling(q, d, h) /\ NotBelow(q, d)
<1>1. /\ Len(q) \in Nat /\ \A i \in 1..Len(q) : i \in 1..Len(j) /\ j[i] = q[i]
  BY DEF Joins
<1>2. Ceiling(q, d, h)
  BY <1>1 DEF Ceiling
<1>3. ASSUME NEW i \in 1..Len(q), q[i].type = "MempoolBlocks"
      PROVE  /\ Height[q[i].tip] >= d
             /\ \A k \in 1..(i - 1) :
                  q[k].type = "RollForward" => Height[q[i].tip] >= q[k].point.height
  <2>1. \A k \in 1..(i - 1) : k \in 1..Len(q)
    BY <1>1
  <2>. QED BY <1>1, <1>3, <2>1 DEF NotBelow
<1>. QED BY <1>2, <1>3 DEF NotBelow

\* Blocks and rollbacks follow.
LEMMA BlocksFit ==
  ASSUME NEW j, NEW q \in Seq(Event), NEW u, Joins(j, q, u), NEW d, NEW h,
         Ceiling(q, d, h), NotBelow(q, d),
         \A i \in 1..Len(u) : /\ u[i].type # "MempoolBlocks"
                              /\ u[i].type = "RollForward" => u[i].point.height <= h
  PROVE  Ceiling(j, d, h) /\ NotBelow(j, d)
<1>1. /\ Len(q) \in Nat /\ Len(u) \in Nat /\ Len(j) = Len(q) + Len(u)
      /\ \A i \in 1..Len(q) : j[i] = q[i]
      /\ \A i \in 1..Len(u) : j[Len(q) + i] = u[i]
  BY DEF Joins
<1>2. ASSUME NEW i \in 1..Len(j), i \notin 1..Len(q)
      PROVE  /\ j[i].type # "MempoolBlocks"
             /\ j[i].type = "RollForward" => j[i].point.height <= h
  <2>. DEFINE k == i - Len(q)
  <2>1. k \in 1..Len(u) /\ i = Len(q) + k
    BY <1>1, <1>2
  <2>. HIDE DEF k
  <2>2. j[i] = u[k]
    BY <1>1, <2>1
  <2>. QED BY <2>1, <2>2
<1>3. Ceiling(j, d, h)
  <2>. SUFFICES ASSUME NEW i \in 1..Len(j), j[i].type = "RollForward"
                PROVE  j[i].point.height <= h
    BY DEF Ceiling
  <2>1. CASE i \in 1..Len(q)
    BY <1>1, <2>1 DEF Ceiling
  <2>. QED BY <1>2, <2>1
<1>4. ASSUME NEW i \in 1..Len(j), j[i].type = "MempoolBlocks"
      PROVE  /\ Height[j[i].tip] >= d
             /\ \A k \in 1..(i - 1) :
                  j[k].type = "RollForward" => Height[j[i].tip] >= j[k].point.height
  <2>1. i \in 1..Len(q)
    BY <1>2, <1>4
  <2>2. \A k \in 1..(i - 1) : k \in 1..Len(q)
    BY <1>1, <2>1
  <2>. QED BY <1>1, <1>4, <2>1, <2>2 DEF NotBelow
<1>. QED BY <1>3, <1>4 DEF NotBelow

\* A template of height h follows.
LEMMA TemplateFits ==
  ASSUME NEW es \in Seq(Event), NEW d, NEW b \in Block,
         Ceiling(es, d, Height[b]), NotBelow(es, d), d \in Nat
  PROVE  /\ Ceiling(Append(es, MempoolEvent(b)), d, Height[b])
         /\ NotBelow(Append(es, MempoolEvent(b)), d)
<1>. DEFINE e == MempoolEvent(b)
            j == Append(es, e)
            n == Len(es)
<1>1. n \in Nat /\ e.type = "MempoolBlocks" /\ e.tip = b /\ Height[b] \in Nat
  BY ChainAssumption DEF MempoolEvent
<1>. HIDE DEF e
<1>2. Len(j) = n + 1 /\ j[n + 1] = e /\ \A i \in 1..n : j[i] = es[i]
  BY <1>1
<1>3. \A i \in 1..n : WellFormed(es[i])
  BY EventFacts
<1>. HIDE DEF j, n
<1>4. ASSUME NEW i \in 1..Len(j), j[i].type = "RollForward" PROVE j[i].point.height <= Height[b]
  <2>1. i \in 1..n
    BY <1>1, <1>2, <1>4
  <2>. QED BY <1>2, <1>4, <2>1 DEF Ceiling, n
<1>5. ASSUME NEW i \in 1..Len(j), j[i].type = "MempoolBlocks"
      PROVE  /\ Height[j[i].tip] >= d
             /\ \A k \in 1..(i - 1) :
                  j[k].type = "RollForward" => Height[j[i].tip] >= j[k].point.height
  <2>1. CASE i = n + 1
    <3>1. j[i].tip = b /\ \A k \in 1..(i - 1) : k \in 1..Len(j) /\ k \in 1..n
      BY <1>1, <1>2, <2>1
    <3>2. Height[b] >= d
      BY <1>1 DEF Ceiling
    <3>3. ASSUME NEW k \in 1..(i - 1), j[k].type = "RollForward" PROVE Height[b] >= j[k].point.height
      <4>1. j[k].point.height <= Height[b] /\ j[k] = es[k] /\ j[k].point.height \in Nat
        BY <1>2, <1>3, <1>4, <3>1, <3>3 DEF WellFormed
      <4>. QED BY <1>1, <4>1
    <3>. QED BY <3>1, <3>2, <3>3
  <2>2. CASE i # n + 1
    <3>1. i \in 1..n /\ \A k \in 1..(i - 1) : k \in 1..n
      BY <1>1, <1>2, <2>2
    <3>. QED BY <1>2, <1>5, <3>1 DEF NotBelow, n
  <2>. QED BY <2>1, <2>2
<1>6. d <= Height[b]
  BY DEF Ceiling
<1>7. Ceiling(j, d, Height[b])
  BY <1>4, <1>6 DEF Ceiling
<1>8. NotBelow(j, d)
  BY <1>5 DEF NotBelow
<1>. QED BY <1>7, <1>8 DEF j, e

\* The first event is received.
LEMMA ReceivedFits ==
  ASSUME NEW es \in Seq(Event), es # <<>>, NEW d \in Nat, NEW h \in Nat,
         Ceiling(es, d, h), NotBelow(es, d), NEW c,
         c = IF es[1].type = "RollForward" THEN Larger(d, es[1].point.height) ELSE d
  PROVE  c \in Nat /\ Ceiling(Tail(es), c, h) /\ NotBelow(Tail(es), c)
<1>. DEFINE t == Tail(es)
            n == Len(es)
<1>1. n \in Nat /\ n >= 1 /\ 1 \in 1..n /\ Len(t) = n - 1 /\ \A i \in 1..(n - 1) : t[i] = es[i + 1]
  OBVIOUS
<1>2. \A i \in 1..n : WellFormed(es[i])
  BY EventFacts
<1>. HIDE DEF t, n
<1>3. c \in Nat /\ c <= h
  BY <1>1, <1>2 DEF Ceiling, Larger, WellFormed, n
<1>4. Ceiling(t, c, h)
  <2>. SUFFICES ASSUME NEW i \in 1..Len(t), t[i].type = "RollForward"
                PROVE  t[i].point.height <= h
    BY <1>3 DEF Ceiling
  <2>1. t[i] = es[i + 1] /\ i + 1 \in 1..n
    BY <1>1
  <2>. QED BY <2>1 DEF Ceiling, n
<1>5. ASSUME NEW i \in 1..Len(t), t[i].type = "MempoolBlocks"
      PROVE  /\ Height[t[i].tip] >= c
             /\ \A k \in 1..(i - 1) :
                  t[k].type = "RollForward" => Height[t[i].tip] >= t[k].point.height
  <2>1. t[i] = es[i + 1] /\ i + 1 \in 1..n
    BY <1>1
  <2>2. /\ Height[t[i].tip] >= d
        /\ \A k \in 1..((i + 1) - 1) :
             es[k].type = "RollForward" => Height[t[i].tip] >= es[k].point.height
    BY <1>5, <2>1 DEF NotBelow, n
  <2>3. 1 \in 1..((i + 1) - 1)
    BY <1>1
  <2>4. es[1].type = "RollForward" => Height[t[i].tip] >= es[1].point.height
    BY <2>2, <2>3
  <2>5. Height[t[i].tip] >= c
    BY <2>2, <2>4 DEF Larger
  <2>6. ASSUME NEW k \in 1..(i - 1), t[k].type = "RollForward"
        PROVE  Height[t[i].tip] >= t[k].point.height
    <3>1. t[k] = es[k + 1] /\ k + 1 \in 1..((i + 1) - 1)
      BY <1>1
    <3>. QED BY <2>2, <2>6, <3>1
  <2>. QED BY <2>5, <2>6
<1>. QED BY <1>3, <1>4, <1>5 DEF NotBelow, t

(***************************************************************************)
(* Where the events lead the index stage.                                  *)
(***************************************************************************)

\* Destination, of the first n of the events es from point l.
Dest(es, n, l) ==
  LET moves == {i \in 1..n : es[i].type # "MempoolBlocks"}
  IN  IF moves = {} THEN l ELSE es[CHOOSE i \in moves : \A j \in moves : j <= i].point

\* Every block among the events is a child of the point before it.
Fits(es, l) ==
  \A i \in 1..Len(es) :
    es[i].type = "RollForward" => PointOf(Prev[es[i].point.hash]) = Dest(es, i - 1, l)

\* No event leads nowhere.
LEMMA DestNone ==
  ASSUME NEW es, NEW l
  PROVE  Dest(es, 0, l) = l
<1>. DEFINE M == {i \in 1..0 : es[i].type # "MempoolBlocks"}
<1>1. M = {}
  OBVIOUS
<1>. QED BY <1>1, Zenon DEF Dest

\* n is the event after the first k.
Leads(es, l, k, n) ==
  Dest(es, n, l) = IF es[n].type # "MempoolBlocks" THEN es[n].point ELSE Dest(es, k, l)

\* Only the last move counts.
LEMMA DestStep ==
  ASSUME NEW es, NEW l, NEW k \in Nat, NEW n, n = k + 1
  PROVE  Leads(es, l, k, n)
<1>. DEFINE M(x) == {i \in 1..x : es[i].type # "MempoolBlocks"}
            top(S) == CHOOSE i \in S : \A j \in S : j <= i
<1>1. \A x : Dest(es, x, l) = IF M(x) = {} THEN l ELSE es[top(M(x))].point
  BY Zenon DEF Dest
<1>2. CASE es[n].type # "MempoolBlocks"
  <2>1. n \in M(n) /\ \A j \in M(n) : j <= n
    BY <1>2
  <2>2. \A i \in M(n) : i \in Nat
    OBVIOUS
  <2>. DEFINE t == top(M(n))
  <2>. HIDE DEF M
  <2>3. t \in M(n) /\ \A j \in M(n) : j <= t
    BY <2>1, Zenon
  <2>. HIDE DEF t
  <2>4. t = n
    BY <2>1, <2>2, <2>3
  <2>5. M(n) # {}
    BY <2>1
  <2>6. Dest(es, n, l) = es[t].point
    BY <1>1, <2>5, Zenon DEF t
  <2>. QED BY <1>2, <2>4, <2>6 DEF Leads
<1>3. CASE es[n].type = "MempoolBlocks"
  <2>1. M(n) = M(k)
    BY <1>3
  <2>. HIDE DEF M, top
  <2>2. Dest(es, n, l) = Dest(es, k, l)
    BY <1>1, <2>1
  <2>. QED BY <1>3, <2>2 DEF Leads
<1>. QED BY <1>2, <1>3

\* The destination depends only on the events counted.
LEMMA DestPrefix ==
  ASSUME NEW j, NEW q, NEW l, NEW n \in Nat, \A i \in 1..n : j[i] = q[i]
  PROVE  Dest(j, n, l) = Dest(q, n, l)
<1>. DEFINE P == {i \in 0..n : Dest(j, i, l) = Dest(q, i, l)}
<1>1. 0 \in P
  BY DestNone
<1>2. ASSUME NEW i \in 1..n, i - 1 \in P PROVE i \in P
  <2>1. i - 1 \in Nat /\ i = (i - 1) + 1 /\ j[i] = q[i]
    OBVIOUS
  <2>2. Leads(j, l, i - 1, i)
    BY <2>1, DestStep, Zenon
  <2>3. Leads(q, l, i - 1, i)
    BY <2>1, DestStep, Zenon
  <2>. QED BY <1>2, <2>1, <2>2, <2>3 DEF Leads
<1>3. \A i \in 1..n : i - 1 \in P => i \in P
  BY <1>2
<1>4. n \in P
  <2>. HIDE DEF P
  <2>1. \A i \in 0..n : i \in P
    BY <1>1, <1>3, UpTo
  <2>. QED BY <2>1
<1>. QED BY <1>4

\* The first event received, its point is where the others start from.
LEMMA DestTail ==
  ASSUME NEW es \in Seq(Event), es # <<>>, NEW l, NEW m \in 0..(Len(es) - 1)
  PROVE  Dest(Tail(es), m, Dest(es, 1, l)) = Dest(es, m + 1, l)
<1>. DEFINE t == Tail(es)
            k == Dest(es, 1, l)
            n == Len(es) - 1
            P == {i \in 0..n : Dest(t, i, k) = Dest(es, i + 1, l)}
<1>1. n \in Nat /\ \A i \in 1..n : t[i] = es[i + 1]
  OBVIOUS
<1>. HIDE DEF t, n
<1>2. 0 \in P
  BY <1>1, DestNone
<1>3. ASSUME NEW i \in 1..n, i - 1 \in P PROVE i \in P
  <2>1. i \in Nat /\ i - 1 \in Nat /\ i = (i - 1) + 1
    BY <1>1
  <2>2. Leads(t, k, i - 1, i)
    BY <2>1, DestStep, Zenon
  <2>3. Leads(es, l, i, i + 1)
    BY <2>1, DestStep
  <2>4. Dest(t, i - 1, k) = Dest(es, i, l)
    BY <1>3, <2>1
  <2>. QED BY <1>1, <2>2, <2>3, <2>4 DEF Leads
<1>4. \A i \in 1..n : i - 1 \in P => i \in P
  BY <1>3
<1>5. m \in P
  <2>1. m \in 0..n
    BY DEF n
  <2>. HIDE DEF P
  <2>. QED BY <1>1, <1>2, <1>4, <2>1, UpTo
<1>. QED BY <1>5 DEF t

\* Receiving the first event leaves a fitting rest.
LEMMA FitsTail ==
  ASSUME NEW es \in Seq(Event), es # <<>>, NEW l, Fits(es, l)
  PROVE  /\ Fits(Tail(es), Dest(es, 1, l))
         /\ Dest(Tail(es), Len(Tail(es)), Dest(es, 1, l)) = Dest(es, Len(es), l)
<1>. DEFINE t == Tail(es)
            k == Dest(es, 1, l)
            n == Len(es)
<1>1. n \in Nat /\ n >= 1 /\ Len(t) = n - 1 /\ \A i \in 1..(n - 1) : t[i] = es[i + 1]
  OBVIOUS
<1>2. \A m \in 0..(n - 1) : Dest(t, m, k) = Dest(es, m + 1, l)
  BY DestTail
<1>. HIDE DEF t, k, n
<1>3. ASSUME NEW i \in 1..Len(t), t[i].type = "RollForward"
      PROVE  PointOf(Prev[t[i].point.hash]) = Dest(t, i - 1, k)
  <2>1. t[i] = es[i + 1] /\ i + 1 \in 1..n /\ i - 1 \in 0..(n - 1) /\ (i - 1) + 1 = i /\ (i + 1) - 1 = i
    BY <1>1
  <2>2. PointOf(Prev[es[i + 1].point.hash]) = Dest(es, i, l)
    BY <1>3, <2>1 DEF Fits, n
  <2>3. Dest(t, i - 1, k) = Dest(es, i, l)
    BY <1>2, <2>1
  <2>. QED BY <2>1, <2>2, <2>3
<1>4. Dest(t, n - 1, k) = Dest(es, n, l)
  <2>1. n - 1 \in 0..(n - 1) /\ (n - 1) + 1 = n
    BY <1>1
  <2>. QED BY <1>2, <2>1
<1>. QED BY <1>1, <1>3, <1>4 DEF Fits, t, k, n

\* u is a rollback to at if r is 1, then the blocks of a page.
PageUnits(u, page, at, r) ==
  /\ Len(u) = r + Len(page)
  /\ \A i \in 1..Len(page) : u[r + i].type = "RollForward" /\ u[r + i].point = PointOf(page[i])
  /\ r = 1 => u[1].type = "RollBack" /\ u[1].point = at

\* The events of a page fit after events that lead to the cursor's head, and
\* lead to the page's newest block.
LEMMA PageFits ==
  ASSUME NEW j, NEW q \in Seq(Event), NEW u, Joins(j, q, u), NEW l,
         NEW page, NEW at, PageOK(page, at), NEW r \in {0, 1}, PageUnits(u, page, at, r),
         Fits(q, l), r = 0 => Dest(q, Len(q), l) = at
  PROVE  Fits(j, l) /\ Dest(j, Len(j), l) = PointOf(page[Len(page)])
<1>. DEFINE n == Len(q)
            m == Len(page)
<1>1. /\ n \in Nat /\ Len(u) \in Nat /\ Len(j) = n + Len(u) /\ m \in Nat /\ m >= 1
      /\ \A i \in 1..n : j[i] = q[i]
      /\ \A i \in 1..Len(u) : j[n + i] = u[i]
      /\ Len(u) = r + m
  BY DEF Joins, PageOK, PageUnits
<1>2. /\ \A i \in 1..m : page[i] \in Block
      /\ at = PointOf(at.hash) /\ Prev[page[1]] = at.hash
      /\ \A i \in 2..m : Prev[page[i]] = page[i - 1]
  BY RealPoints DEF PageOK
<1>. HIDE DEF n, m
<1>3. \A i \in 0..n : Dest(j, i, l) = Dest(q, i, l)
  <2>. SUFFICES ASSUME NEW i \in 0..n PROVE Dest(j, i, l) = Dest(q, i, l)
    OBVIOUS
  <2>1. i \in Nat /\ \A k \in 1..i : j[k] = q[k]
    BY <1>1
  <2>. QED BY <2>1, DestPrefix
<1>4. Dest(j, n + r, l) = at
  <2>1. CASE r = 0
    <3>1. n \in 0..n /\ n + r = n
      BY <1>1, <2>1
    <3>. QED BY <1>3, <2>1, <3>1 DEF n
  <2>2. CASE r = 1
    <3>1. n \in Nat /\ 1 \in 1..Len(u)
      BY <1>1, <2>2
    <3>2. j[n + 1] = u[1]
      BY <1>1, <3>1
    <3>3. j[n + 1].type # "MempoolBlocks" /\ j[n + 1].point = at
      BY <2>2, <3>2 DEF PageUnits
    <3>4. Leads(j, l, n, n + 1)
      BY <3>1, DestStep
    <3>. QED BY <2>2, <3>3, <3>4 DEF Leads
  <2>. QED BY <2>1, <2>2
<1>5. ASSUME NEW i \in 1..m
      PROVE  /\ j[n + r + i].type = "RollForward" /\ j[n + r + i].point = PointOf(page[i])
             /\ Dest(j, n + r + i, l) = PointOf(page[i])
  <2>1. r + i \in 1..Len(u) /\ n + (r + i) = n + r + i /\ n + r + i \in Nat \ {0}
    BY <1>1
  <2>2. j[n + r + i] = u[r + i]
    BY <1>1, <2>1
  <2>3. j[n + r + i].type = "RollForward" /\ j[n + r + i].point = PointOf(page[i])
    BY <2>2 DEF m, PageUnits
  <2>4. n + r + i - 1 \in Nat /\ n + r + i = (n + r + i - 1) + 1
    BY <1>1
  <2>5. Leads(j, l, n + r + i - 1, n + r + i)
    BY <2>4, DestStep
  <2>. QED BY <2>3, <2>5 DEF Leads
<1>6. ASSUME NEW i \in 1..m
      PROVE  PointOf(Prev[j[n + r + i].point.hash]) = Dest(j, n + r + i - 1, l)
  <2>1. j[n + r + i].point.hash = page[i]
    BY <1>2, <1>5, RealPoints
  <2>2. CASE i = 1
    <3>1. n + r + i - 1 = n + r
      BY <1>1, <2>2
    <3>. QED BY <1>2, <1>4, <2>1, <2>2, <3>1
  <2>3. CASE i # 1
    <3>1. i \in 2..m /\ i - 1 \in 1..m /\ n + r + i - 1 = n + r + (i - 1)
      BY <1>1, <2>3
    <3>2. Dest(j, n + r + (i - 1), l) = PointOf(page[i - 1])
      BY <1>5, <3>1
    <3>. QED BY <1>2, <2>1, <3>1, <3>2
  <2>. QED BY <2>2, <2>3
<1>7. ASSUME NEW i \in 1..Len(j), j[i].type = "RollForward"
      PROVE  PointOf(Prev[j[i].point.hash]) = Dest(j, i - 1, l)
  <2>1. CASE i <= n
    <3>1. i \in 1..n /\ i - 1 \in 0..n
      BY <1>1, <2>1
    <3>2. PointOf(Prev[q[i].point.hash]) = Dest(q, i - 1, l)
      BY <1>1, <1>7, <3>1 DEF Fits, n
    <3>. QED BY <1>1, <1>3, <3>1, <3>2
  <2>2. CASE i > n /\ i <= n + r
    <3>1. r = 1 /\ i = n + 1 /\ 1 \in 1..Len(u)
      BY <1>1, <2>2
    <3>2. j[i] = u[1]
      BY <1>1, <3>1
    <3>. QED BY <1>7, <3>1, <3>2 DEF PageUnits
  <2>3. CASE i > n + r
    <3>. DEFINE k == i - n - r
    <3>1. k \in 1..m /\ i = n + r + k
      BY <1>1, <2>3
    <3>. HIDE DEF k
    <3>2. PointOf(Prev[j[n + r + k].point.hash]) = Dest(j, n + r + k - 1, l)
      BY <1>6, <3>1
    <3>3. n + r + k - 1 = i - 1
      BY <1>1, <3>1
    <3>. QED BY <3>1, <3>2, <3>3
  <2>. QED BY <1>1, <2>1, <2>2, <2>3
<1>8. Dest(j, Len(j), l) = PointOf(page[m])
  <2>1. m \in 1..m /\ Len(j) = n + r + m
    BY <1>1
  <2>. QED BY <1>5, <2>1
<1>. QED BY <1>7, <1>8 DEF Fits, m

\* A template fits anywhere and leads nowhere.
LEMMA TemplateLeads ==
  ASSUME NEW es \in Seq(Event), NEW b, NEW l, Fits(es, l)
  PROVE  LET j == Append(es, MempoolEvent(b)) IN
         Fits(j, l) /\ Dest(j, Len(j), l) = Dest(es, Len(es), l)
<1>. DEFINE e == MempoolEvent(b)
            j == Append(es, e)
            n == Len(es)
<1>1. n \in Nat /\ e.type = "MempoolBlocks"
  BY DEF MempoolEvent
<1>. HIDE DEF e
<1>2. Len(j) = n + 1 /\ j[n + 1] = e /\ \A i \in 1..n : j[i] = es[i]
  BY <1>1
<1>. HIDE DEF j, n
<1>3. \A i \in 0..n : Dest(j, i, l) = Dest(es, i, l)
  <2>. SUFFICES ASSUME NEW i \in 0..n PROVE Dest(j, i, l) = Dest(es, i, l)
    OBVIOUS
  <2>1. i \in Nat /\ \A k \in 1..i : j[k] = es[k]
    BY <1>1, <1>2
  <2>. QED BY <2>1, DestPrefix
<1>4. ASSUME NEW i \in 1..Len(j), j[i].type = "RollForward"
      PROVE  PointOf(Prev[j[i].point.hash]) = Dest(j, i - 1, l)
  <2>1. i \in 1..n /\ i - 1 \in 0..n
    BY <1>1, <1>2, <1>4
  <2>2. PointOf(Prev[es[i].point.hash]) = Dest(es, i - 1, l)
    BY <1>2, <1>4, <2>1 DEF Fits, n
  <2>. QED BY <1>2, <1>3, <2>1, <2>2
<1>5. Dest(j, n + 1, l) = Dest(es, n, l)
  <2>1. n + 1 \in Nat \ {0} /\ (n + 1) - 1 = n /\ n \in 0..n
    BY <1>1
  <2>2. Leads(j, l, n, n + 1)
    BY <1>1, DestStep, Zenon
  <2>. QED BY <1>1, <1>2, <1>3, <2>1, <2>2 DEF Leads
<1>. QED BY <1>2, <1>4, <1>5 DEF Fits, j, e, n

(***************************************************************************)
(* The invariant.                                                          *)
(***************************************************************************)

Worker ==
  [pc : {"boot", "options", "init", "fetch", "cursor", "template", "send", "ended"},
   cursor : Seq(RealPoint), tip : BlockHeight, tipReached : BOOLEAN,
   seen : BlockHeight, page : Seq(Block), units : Seq(Event)]

\* The events queued and still to be sent.
Coming == queue \o pull.units

\* The worker has a cursor when it asks for headers, a page when it completes
\* one, and events when it sends.
WorkerOK ==
  /\ pull \in Worker
  /\ pull.pc \in {"init", "fetch", "cursor", "template", "send"} => CursorOK(pull.cursor)
  /\ pull.pc \in {"cursor", "send"} => pull.units # <<>>
  /\ pull.pc = "cursor" => \E at : PageOK(pull.page, at)
  /\ pull.pc \in {"boot", "options", "init", "fetch"} => pull.units = <<>>

\* Nothing in flight is above the node's tip, and no template is below a block
\* before it.
FlowOK ==
  /\ queue \in Seq(Event)
  /\ node \in Block /\ serving \in BOOLEAN
  /\ disturbed \in BOOLEAN /\ dropped \in BOOLEAN
  /\ Ceiling(Coming, delivered, Height[node])
  /\ NotBelow(Coming, delivered)

\* Nothing disturbed the pipeline.
Steady == ~disturbed /\ ~dropped /\ status = "running"

\* The point the worker goes on from.
Ahead == IF pull.pc = "cursor" THEN PointOf(pull.page[Len(pull.page)]) ELSE pull.cursor[1]

\* The events lead from last_processed to where the worker goes on from.
LeadOK ==
  Steady =>
    /\ Fits(Coming, last)
    /\ pull.pc \in {"boot", "options", "init"} => queue = <<>>
    /\ pull.pc = "options" => pull.seen = last.height
    /\ pull.pc = "init" => pull.cursor[1] = last
    /\ pull.pc \in {"fetch", "cursor", "template", "send"} =>
         Dest(Coming, Len(Coming), last) = Ahead

PInv == RInv /\ WorkerOK /\ FlowOK /\ LeadOK

\* No events are in flight.
LEMMA NoneComing ==
  ASSUME NEW q, q = <<>>, NEW l
  PROVE  /\ q \o <<>> = <<>> /\ Len(q \o <<>>) = 0
         /\ Fits(q \o <<>>, l) /\ Dest(q \o <<>>, Len(q \o <<>>), l) = l
<1>1. q \o <<>> = <<>> /\ Len(q \o <<>>) = 0
  OBVIOUS
<1>2. Fits(q \o <<>>, l)
  BY <1>1 DEF Fits
<1>. QED BY <1>1, <1>2, DestNone

\* The first read of intersect_options is the height of last_processed.
LEMMA LastRead ==
  ASSUME RInv
  PROVE  /\ LastHeight = last.height /\ last.height \in BlockHeight
         /\ last \in RealPoint /\ last = PointOf(last.hash)
<1>1. IInv /\ Good(db, buf, last, processedMempool)
  BY DEF RInv, IInv
<1>2. LastProcessed(db) = last
  BY <1>1, StoreFacts
<1>3. last \in Point /\ last = PointOf(last.hash) /\ last.hash \in Block /\ last.height \in BlockHeight
  BY <1>1 DEF Good, Typed, Point
<1>. QED BY <1>2, <1>3 DEF LastHeight, RealPoint

\* The second read, when nothing moved the index stage between, gives a cursor
\* that begins at last_processed.
LEMMA CursorAtLast ==
  ASSUME RInv, ~Missing(last.height)
  PROVE  OptionsAt(last.height)[1] = last
<1>. DEFINE h == last.height
            c == OptionsAt(h)
            p == c[1]
<1>1. IInv /\ h \in BlockHeight /\ last \in RealPoint /\ h \in Nat /\ h = Height[last.hash] /\ last.hash \in Block
  BY LastRead, RealPoints DEF RInv
<1>2. c \in Seq(RealPoint) /\ Len(c) >= 1 /\ p.height = h /\ (h # 0 => p.hash = db[HashKey(h)])
  <2>1. ~Missing(h)
    OBVIOUS
  <2>. HIDE DEF h
  <2>. QED BY <1>1, <2>1, OptionsFacts
<1>. HIDE DEF c
<1>3. p \in RealPoint
  BY <1>2
<1>4. p.hash = last.hash
  <2>1. CASE h # 0
    <3>1. last.hash # Genesis
      BY <1>1, <2>1, ChainAssumption
    <3>2. StateAt[last.hash][HashKey(Height[last.hash])] = last.hash
      BY <1>1, <3>1, ChainRows
    <3>3. db[HashKey(h)] = StateAt[last.hash][HashKey(h)]
      BY <1>1, RowsOfChain
    <3>. QED BY <1>1, <1>2, <2>1, <3>2, <3>3
  <2>2. CASE h = 0
    <3>1. ASSUME NEW b \in Block, Height[b] = 0 PROVE b = Genesis
      <4>. SUFFICES ASSUME b # Genesis PROVE FALSE
        OBVIOUS
      <4>1. Prev[b] \in Block /\ Height[b] = Height[Prev[b]] + 1 /\ Height[Prev[b]] \in Nat
        BY ChainAssumption
      <4>. QED BY <3>1, <4>1
    <3>2. p.hash \in Block /\ Height[p.hash] = 0
      BY <1>2, <1>3, <2>2, RealPoints
    <3>. QED BY <1>1, <2>2, <3>1, <3>2
  <2>. QED BY <2>1, <2>2
<1>. QED BY <1>1, <1>3, <1>4, RealPoints DEF c, h

\* What no step of the pull stage changes.
LEMMA LeavesFacts ==
  ASSUME PullLeaves
  PROVE  /\ last' = last /\ status' = status /\ delivered' = delivered
         /\ node' = node /\ serving' = serving /\ queue' = queue
         /\ disturbed' = disturbed /\ dropped' = dropped
         /\ UNCHANGED rvars
BY DEF PullLeaves, rvars, vars, store, memory, world, history, bounds

\* A step that keeps the events keeps the flow.
LEMMA QuietFlow ==
  ASSUME FlowOK, PullLeaves, pull'.units = pull.units
  PROVE  FlowOK' /\ Coming' = Coming /\ (Steady' <=> Steady)
<1>1. /\ delivered' = delivered /\ node' = node /\ serving' = serving /\ queue' = queue
      /\ disturbed' = disturbed /\ dropped' = dropped /\ status' = status
  BY LeavesFacts
<1>2. Coming' = Coming
  BY <1>1 DEF Coming
<1>3. Height[node]' = Height[node]
  BY <1>1
<1>4. FlowOK'
  BY <1>1, <1>2, <1>3 DEF FlowOK
<1>. QED BY <1>1, <1>2, <1>4 DEF Steady

\* A worker that has ended keeps what it had.
LEMMA EndStep ==
  ASSUME WorkerOK, FlowOK, LeadOK, PullLeaves, End
  PROVE  WorkerOK' /\ FlowOK' /\ LeadOK'
<1>1. /\ pull' \in Worker /\ pull'.pc = "ended" /\ pull'.units = pull.units
  BY DEF WorkerOK, Worker, End
<1>2. WorkerOK'
  BY <1>1 DEF WorkerOK
<1>3. FlowOK' /\ Coming' = Coming /\ (Steady' <=> Steady) /\ last' = last
  BY <1>1, QuietFlow, LeavesFacts
<1>4. LeadOK'
  BY <1>1, <1>3 DEF LeadOK
<1>. QED BY <1>2, <1>3, <1>4

\* bootstrap reads the height of the last indexed block.
LEMMA BootReadStep ==
  ASSUME RInv, WorkerOK, FlowOK, LeadOK, BootRead
  PROVE  WorkerOK' /\ FlowOK' /\ LeadOK'
<1>1. /\ PullLeaves /\ pull.pc = "boot"
      /\ pull' = [pull EXCEPT !.pc = "options", !.seen = LastHeight]
  BY DEF BootRead
<1>2. LastHeight = last.height /\ last.height \in BlockHeight
  BY LastRead
<1>3. /\ pull' \in Worker /\ pull'.pc = "options" /\ pull'.units = pull.units
      /\ pull'.seen = last.height /\ pull'.units = <<>>
  BY <1>1, <1>2 DEF WorkerOK, Worker
<1>4. WorkerOK'
  BY <1>3 DEF WorkerOK
<1>5. /\ FlowOK' /\ Coming' = Coming /\ (Steady' <=> Steady) /\ last' = last /\ queue' = queue
  BY <1>1, <1>3, QuietFlow, LeavesFacts
<1>6. LeadOK'
  BY <1>1, <1>3, <1>5 DEF LeadOK
<1>. QED BY <1>4, <1>5, <1>6

\* bootstrap reads the intersection options below that height.
LEMMA BootOptionsStep ==
  ASSUME RInv, WorkerOK, FlowOK, LeadOK, BootOptions
  PROVE  WorkerOK' /\ FlowOK' /\ LeadOK'
<1>1. PullLeaves /\ pull.pc = "options"
  BY DEF BootOptions
<1>2. CASE Missing(pull.seen)
  BY <1>1, <1>2, EndStep DEF BootOptions
<1>3. CASE ~Missing(pull.seen)
  <2>. DEFINE c == OptionsAt(pull.seen)
  <2>1. pull' = [pull EXCEPT !.pc = "init", !.cursor = c, !.tip = Height[node]]
    BY <1>3 DEF BootOptions
  <2>2. pull.seen \in BlockHeight /\ Height[node] \in BlockHeight /\ IInv
    BY DEF WorkerOK, Worker, FlowOK, BlockHeight, RInv
  <2>3. CursorOK(c)
    <3>. DEFINE h == pull.seen
    <3>1. h \in BlockHeight /\ ~Missing(h)
      BY <1>3, <2>2
    <3>. HIDE DEF h
    <3>2. /\ OptionsAt(h) \in Seq(RealPoint)
          /\ Len(OptionsAt(h)) >= 1
          /\ OptionsAt(h)[Len(OptionsAt(h))] = PointOf(Genesis)
          /\ OptionsAt(h)[1].height = h
          /\ \A i \in 2..Len(OptionsAt(h)) : OptionsAt(h)[i].height < h
      BY <2>2, <3>1, OptionsFacts
    <3>3. Len(OptionsAt(h)) \in 1..Len(OptionsAt(h))
      BY <3>2
    <3>. QED BY <3>2, <3>3 DEF CursorOK, h
  <2>4. c \in Seq(RealPoint)
    BY <2>3 DEF CursorOK
  <2>. HIDE DEF c
  <2>5. /\ pull' \in Worker /\ pull'.pc = "init" /\ pull'.units = pull.units
        /\ pull'.cursor = c /\ pull'.units = <<>>
    BY <1>1, <2>1, <2>2, <2>4 DEF WorkerOK, Worker
  <2>6. WorkerOK'
    BY <2>3, <2>5 DEF WorkerOK
  <2>7. /\ FlowOK' /\ Coming' = Coming /\ (Steady' <=> Steady) /\ last' = last /\ queue' = queue
    BY <1>1, <2>5, QuietFlow, LeavesFacts
  <2>8. Steady => c[1] = last
    <3>. SUFFICES ASSUME Steady PROVE c[1] = last
      OBVIOUS
    <3>1. pull.seen = last.height
      BY <1>1 DEF LeadOK
    <3>. QED BY <1>3, <3>1, CursorAtLast DEF c
  <2>9. LeadOK'
    BY <1>1, <2>5, <2>7, <2>8 DEF LeadOK
  <2>. QED BY <2>6, <2>7, <2>9
<1>. QED BY <1>2, <1>3

\* The cursor of a new session is what the node makes of the options.
LEMMA InitialiseStep ==
  ASSUME RInv, WorkerOK, FlowOK, LeadOK, Initialise
  PROVE  WorkerOK' /\ FlowOK' /\ LeadOK'
<1>1. PullLeaves /\ pull.pc = "init" /\ pull.units = <<>>
  BY DEF Initialise, WorkerOK
<1>2. /\ pull' \in Worker /\ pull'.pc \in {"init", "fetch"} /\ pull'.units = pull.units
      /\ pull'.cursor = pull.cursor
  <2>1. Height[node] \in BlockHeight
    BY DEF FlowOK, BlockHeight
  <2>. QED BY <1>1, <2>1 DEF Initialise, WorkerOK, Worker
<1>3. WorkerOK'
  BY <1>1, <1>2 DEF WorkerOK
<1>4. /\ FlowOK' /\ Coming' = Coming /\ (Steady' <=> Steady) /\ last' = last /\ queue' = queue
  BY <1>1, <1>2, QuietFlow, LeavesFacts
<1>5. Ahead' = pull.cursor[1]
  BY <1>2 DEF Ahead
<1>6. Steady => /\ Fits(Coming, last) /\ queue = <<>> /\ pull.cursor[1] = last
                /\ Dest(Coming, Len(Coming), last) = last
  <2>. SUFFICES ASSUME Steady PROVE /\ Fits(Coming, last) /\ queue = <<>> /\ pull.cursor[1] = last
                                    /\ Dest(Coming, Len(Coming), last) = last
    OBVIOUS
  <2>1. queue = <<>> /\ pull.cursor[1] = last
    BY <1>1 DEF LeadOK
  <2>2. Coming = <<>> \o <<>>
    BY <1>1, <2>1 DEF Coming
  <2>. QED BY <2>1, <2>2, NoneComing
<1>7. LeadOK'
  BY <1>2, <1>4, <1>5, <1>6 DEF LeadOK
<1>. QED BY <1>3, <1>4, <1>7

\* At the tip of the node the cursor stays where it is.
LEMMA AtTipStep ==
  ASSUME WorkerOK, FlowOK, LeadOK, AtTip
  PROVE  WorkerOK' /\ FlowOK' /\ LeadOK'
<1>1. PullLeaves /\ pull.pc = "fetch" /\ pull.units = <<>>
  BY DEF AtTip, WorkerOK
<1>2. /\ pull' \in Worker /\ pull'.pc \in {"template", "fetch"} /\ pull'.units = pull.units
      /\ pull'.cursor = pull.cursor
  BY <1>1 DEF AtTip, WorkerOK, Worker
<1>3. WorkerOK'
  BY <1>1, <1>2 DEF WorkerOK
<1>4. /\ FlowOK' /\ Coming' = Coming /\ (Steady' <=> Steady) /\ last' = last /\ queue' = queue
  BY <1>1, <1>2, QuietFlow, LeavesFacts
<1>5. Ahead' = pull.cursor[1] /\ Ahead = pull.cursor[1]
  BY <1>1, <1>2 DEF Ahead
<1>6. LeadOK'
  BY <1>1, <1>2, <1>4, <1>5 DEF LeadOK
<1>. QED BY <1>3, <1>4, <1>6

\* A cursor that runs short is completed from the tables.
LEMMA CompleteCursorStep ==
  ASSUME RInv, WorkerOK, FlowOK, LeadOK, CompleteCursor
  PROVE  WorkerOK' /\ FlowOK' /\ LeadOK'
<1>1. PullLeaves /\ pull.pc = "cursor" /\ pull.units # <<>>
  BY DEF CompleteCursor, WorkerOK
<1>2. CASE Missing(pull.seen)
  BY <1>1, <1>2, EndStep DEF CompleteCursor
<1>3. CASE ~Missing(pull.seen)
  <2>. DEFINE h == pull.seen
              page == pull.page
              r == Retained(OptionsAt(h), Height[page[1]])
              c == PageCursor(page) \o r \o <<PointOf(Genesis)>>
  <2>1. pull' = [pull EXCEPT !.pc = AfterFetch, !.page = <<>>, !.seen = 0, !.cursor = c]
    BY <1>3 DEF CompleteCursor
  <2>2. h \in BlockHeight /\ 0 \in BlockHeight /\ IInv /\ AfterFetch \in {"template", "send"}
    BY ChainAssumption DEF WorkerOK, Worker, BlockHeight, RInv, AfterFetch
  <2>3. PICK at : PageOK(page, at)
    BY <1>1 DEF WorkerOK
  <2>4. Height[page[1]] \in Nat
    BY <2>3, ChainAssumption DEF PageOK
  <2>5. r \in Seq(RealPoint) /\ \A i \in 1..Len(r) : r[i].height < Height[page[1]]
    <3>1. ~Missing(h)
      BY <1>3
    <3>. DEFINE x == Height[page[1]]
    <3>2. x \in Nat
      BY <2>4
    <3>. HIDE DEF h, x
    <3>3. /\ OptionsAt(h) \in Seq(RealPoint)
          /\ \A i, j \in 1..Len(OptionsAt(h)) : i < j => OptionsAt(h)[i].height >= OptionsAt(h)[j].height
      BY <2>2, <3>1, OptionsFacts
    <3>4. /\ Retained(OptionsAt(h), x) \in Seq(RealPoint)
          /\ \A i \in 1..Len(Retained(OptionsAt(h), x)) : Retained(OptionsAt(h), x)[i].height < x
      BY <3>2, <3>3, RetainedFacts
    <3>. QED BY <3>4 DEF x
  <2>. HIDE DEF r, page
  <2>6. CursorOK(c) /\ c[1] = PointOf(page[Len(page)])
    BY <2>3, <2>5, PageCursorFacts
  <2>7. c \in Seq(RealPoint)
    BY <2>6 DEF CursorOK
  <2>. HIDE DEF c
  <2>8. /\ pull' \in Worker /\ pull'.pc \in {"template", "send"} /\ pull'.units = pull.units
        /\ pull'.cursor = c
    <3>. DEFINE e == <<>>
    <3>1. pull' = [pull EXCEPT !.pc = AfterFetch, !.page = e, !.seen = 0, !.cursor = c]
      BY <2>1
    <3>2. e \in Seq(Block)
      OBVIOUS
    <3>. HIDE DEF e
    <3>. QED BY <2>2, <2>7, <3>1, <3>2 DEF WorkerOK, Worker
  <2>9. WorkerOK'
    BY <1>1, <2>6, <2>8 DEF WorkerOK
  <2>10. /\ FlowOK' /\ Coming' = Coming /\ (Steady' <=> Steady) /\ last' = last /\ queue' = queue
    BY <1>1, <2>8, QuietFlow, LeavesFacts
  <2>11. Ahead' = c[1] /\ Ahead = c[1]
    BY <1>1, <2>6, <2>8 DEF Ahead, page
  <2>12. LeadOK'
    BY <1>1, <2>8, <2>10, <2>11 DEF LeadOK
  <2>. QED BY <2>9, <2>10, <2>12
<1>. QED BY <1>2, <1>3

\* The events of a page: a rollback first unless the page follows the cursor's
\* head, then its blocks.
LEMMA PageEventsFacts ==
  ASSUME NEW page, NEW at, PageOK(page, at), pull.tip \in BlockHeight
  PROVE  LET u == PageEvents(at, page)
             r == IF at.height # pull.cursor[1].height THEN 1 ELSE 0
         IN  /\ u \in Seq(Event) /\ Len(u) = r + Len(page)
             /\ \A i \in 1..Len(page) : u[r + i].type = "RollForward" /\ u[r + i].point = PointOf(page[i])
             /\ r = 1 => u[1].type = "RollBack" /\ u[1].point = at
<1>. DEFINE u == PageEvents(at, page)
            r == IF at.height # pull.cursor[1].height THEN 1 ELSE 0
            ev(i) == RollForwardEvent(page[i], Larger(pull.tip, Height[page[i]]))
            f == [i \in 1..Len(page) |-> ev(i)]
            g == IF at.height # pull.cursor[1].height THEN <<RollBackEvent(at)>> ELSE <<>>
<1>1. Len(page) \in Nat /\ at \in RealPoint /\ \A i \in 1..Len(page) : page[i] \in Block
  BY DEF PageOK
<1>2. u = g \o f
  BY DEF PageEvents
<1>3. ASSUME NEW i \in 1..Len(page)
      PROVE  ev(i) \in Event /\ ev(i).type = "RollForward" /\ ev(i).point = PointOf(page[i])
  BY <1>1 DEF Event, RollForwardEvent
<1>. HIDE DEF ev
<1>4. f \in Seq(Event) /\ Len(f) = Len(page) /\ \A i \in 1..Len(page) : f[i] = ev(i)
  BY <1>1, <1>3
<1>5. RollBackEvent(at) \in Event /\ RollBackEvent(at).type = "RollBack" /\ RollBackEvent(at).point = at
  BY <1>1 DEF Event, RollBackEvent
<1>6. g \in Seq(Event) /\ Len(g) = r /\ r \in {0, 1} /\ (r = 1 => 1 \in 1..Len(g) /\ g[1] = RollBackEvent(at))
  BY <1>5
<1>. HIDE DEF f, g, r
<1>7. g \o f \in Seq(Event) /\ Joins(g \o f, g, f)
  BY <1>4, <1>6, Concat, Zenon
<1>8. u \in Seq(Event) /\ Joins(u, g, f)
  BY <1>2, <1>7
<1>. HIDE DEF u
<1>9. /\ Len(u) = r + Len(page)
      /\ \A i \in 1..Len(page) : u[r + i] = ev(i)
      /\ r = 1 => u[1] = RollBackEvent(at)
  BY <1>4, <1>6, <1>8 DEF Joins
<1>10. /\ \A i \in 1..Len(page) : u[r + i].type = "RollForward" /\ u[r + i].point = PointOf(page[i])
       /\ r = 1 => u[1].type = "RollBack" /\ u[1].point = at
  BY <1>3, <1>5, <1>9
<1>. QED BY <1>8, <1>9, <1>10 DEF u, r

\* A page of headers yields a rollback, if the node has left the cursor's branch,
\* and the blocks that follow it; the cursor is then where they lead.
LEMMA FetchPageStep ==
  ASSUME RInv, WorkerOK, FlowOK, LeadOK, FetchPage
  PROVE  WorkerOK' /\ FlowOK' /\ LeadOK'
<1>. DEFINE page == FirstPage(GetHeaders(pull.cursor))
            at == FirstOnChain(pull.cursor)
            u == PageEvents(at, page)
            top == page[Len(page)]
            new == [pull EXCEPT !.units = u, !.tip = Larger(@, Height[top])]
            r == IF at.height # pull.cursor[1].height THEN 1 ELSE 0
<1>1. /\ PullLeaves /\ pull.pc = "fetch" /\ pull.units = <<>> /\ page # <<>>
      /\ pull' = IF Len(page) >= CursorLen
                 THEN [new EXCEPT !.pc = AfterFetch,
                              !.cursor = Append(PageCursor(page), PointOf(Genesis))]
                 ELSE [new EXCEPT !.pc = "cursor", !.page = page, !.seen = LastHeight]
  BY DEF FetchPage, WorkerOK
<1>2. CursorOK(pull.cursor) /\ pull \in Worker /\ node \in Block /\ serving \in BOOLEAN
  BY <1>1 DEF WorkerOK, FlowOK
<1>3. /\ PageOK(page, at)
      /\ \A i \in 1..Len(page) : Height[page[i]] <= Height[node]
  BY <1>1, <1>2, PageFacts
<1>4. \E k \in 1..Len(pull.cursor) : at = pull.cursor[k]
  BY <1>2, FirstOnChainFacts
<1>5. LastHeight \in BlockHeight
  BY LastRead
<1>. HIDE DEF page, at
<1>6. /\ u \in Seq(Event) /\ Len(u) = r + Len(page)
      /\ \A i \in 1..Len(page) : u[r + i].type = "RollForward" /\ u[r + i].point = PointOf(page[i])
      /\ r = 1 => u[1].type = "RollBack" /\ u[1].point = at
  BY <1>2, <1>3, PageEventsFacts DEF Worker
<1>7. r \in {0, 1} /\ (r = 0 => at = pull.cursor[1])
  <2>. SUFFICES ASSUME r = 0 PROVE at = pull.cursor[1]
    OBVIOUS
  <2>1. PICK k \in 1..Len(pull.cursor) : at = pull.cursor[k]
    BY <1>4
  <2>2. at.height = pull.cursor[1].height
    OBVIOUS
  <2>3. CASE k = 1
    BY <2>1, <2>3
  <2>4. CASE k # 1
    <3>1. k \in 2..Len(pull.cursor) /\ pull.cursor[k].height \in Nat
      BY <1>2, <2>4, RealPoints DEF CursorOK
    <3>. QED BY <1>2, <2>1, <2>2, <3>1 DEF CursorOK
  <2>. QED BY <2>3, <2>4
<1>8. /\ Len(page) \in Nat /\ Len(page) >= 1 /\ \A i \in 1..Len(page) : page[i] \in Block
      /\ page \in Seq(Block) /\ Height[top] \in BlockHeight /\ Height[page[1]] \in Nat
  BY <1>3, ChainAssumption DEF PageOK, BlockHeight
<1>. HIDE DEF u, r
<1>9. Larger(pull.tip, Height[top]) \in BlockHeight /\ u # <<>>
  <2>1. Len(u) # 0
    BY <1>6, <1>7, <1>8
  <2>. QED BY <1>2, <1>6, <1>8, <2>1 DEF Larger, Worker
<1>10. new \in Worker /\ new.units = u
  BY <1>2, <1>6, <1>9 DEF Worker
<1>. HIDE DEF new, top
<1>11. /\ pull' \in Worker /\ pull'.units = u
       /\ pull'.pc \in {"cursor", "template", "send"}
       /\ CursorOK(pull'.cursor)
       /\ pull'.pc = "cursor" => pull'.page = page
       /\ Ahead' = PointOf(page[Len(page)])
  <2>1. CASE Len(page) >= CursorLen
    <3>. DEFINE c == Append(PageCursor(page), PointOf(Genesis))
    <3>1. pull' = [new EXCEPT !.pc = AfterFetch, !.cursor = c]
      BY <1>1, <2>1
    <3>2. AfterFetch \in {"template", "send"}
      BY DEF AfterFetch
    <3>3. CursorOK(c) /\ c[1] = PointOf(page[Len(page)])
      <4>. DEFINE e == <<>>
                  f == PageCursor(page)
                  G == <<PointOf(Genesis)>>
      <4>1. e \in Seq(RealPoint) /\ Len(e) = 0
        OBVIOUS
      <4>2. \A i \in 1..Len(e) : e[i].height < Height[page[1]]
        BY <4>1
      <4>3. CursorOK(f \o e \o G) /\ (f \o e \o G)[1] = PointOf(page[Len(page)])
        <5>. HIDE DEF e
        <5>. QED BY <1>3, <4>1, <4>2, PageCursorFacts
      <4>4. f \in Seq({PointOf(b) : b \in Block})
        <5>. DEFINE n == IF Len(page) < CursorLen THEN Len(page) ELSE CursorLen
        <5>1. n \in Nat /\ n <= Len(page)
          BY <1>8, PipelineAssumption
        <5>2. \A i \in 1..n : page[Len(page) + 1 - i] \in Block
          BY <1>8, <5>1
        <5>3. f = [i \in 1..n |-> PointOf(page[Len(page) + 1 - i])]
          BY DEF PageCursor
        <5>. HIDE DEF n, f
        <5>. QED BY <5>1, <5>2, <5>3
      <4>5. f \o e \o G = c
        <5>1. f \o e = f
          BY <4>4
        <5>2. f \o G = c
          BY <4>4
        <5>. QED BY <5>1, <5>2
      <4>. QED BY <4>3, <4>5
    <3>4. c \in Seq(RealPoint)
      BY <3>3 DEF CursorOK
    <3>. HIDE DEF c
    <3>5. /\ pull' \in Worker /\ pull'.units = u /\ pull'.pc \in {"template", "send"}
          /\ pull'.cursor = c
      BY <1>10, <3>1, <3>2, <3>4 DEF Worker
    <3>. QED BY <3>3, <3>5 DEF Ahead
  <2>2. CASE ~(Len(page) >= CursorLen)
    <3>1. pull' = [new EXCEPT !.pc = "cursor", !.page = page, !.seen = LastHeight]
      BY <1>1, <2>2
    <3>2. /\ pull' \in Worker /\ pull'.units = u /\ pull'.pc = "cursor"
          /\ pull'.page = page /\ pull'.cursor = pull.cursor
      BY <1>2, <1>5, <1>8, <1>10, <3>1 DEF Worker, new
    <3>. QED BY <1>2, <3>2 DEF Ahead
  <2>. QED BY <2>1, <2>2
<1>12. WorkerOK'
  BY <1>3, <1>9, <1>11 DEF WorkerOK
<1>13. /\ last' = last /\ status' = status /\ delivered' = delivered
       /\ node' = node /\ serving' = serving /\ queue' = queue
       /\ disturbed' = disturbed /\ dropped' = dropped
  BY <1>1, LeavesFacts
<1>14. Coming = queue /\ queue \in Seq(Event) /\ Coming' = queue \o u
  BY <1>1, <1>11, <1>13 DEF Coming, FlowOK
<1>15. Joins(queue \o u, queue, u)
  BY <1>6, <1>14, Concat, Zenon
<1>16. \A i \in 1..Len(u) : /\ u[i].type # "MempoolBlocks"
                            /\ u[i].type = "RollForward" => u[i].point.height <= Height[node]
  <2>. SUFFICES ASSUME NEW i \in 1..Len(u)
                PROVE  /\ u[i].type # "MempoolBlocks"
                       /\ u[i].type = "RollForward" => u[i].point.height <= Height[node]
    OBVIOUS
  <2>1. CASE i <= r
    <3>1. r = 1 /\ i = 1
      BY <1>7, <2>1
    <3>. QED BY <1>6, <3>1
  <2>2. CASE i > r
    <3>. DEFINE k == i - r
    <3>1. k \in 1..Len(page) /\ i = r + k
      BY <1>6, <1>7, <1>8, <2>2
    <3>. HIDE DEF k
    <3>2. u[i].type = "RollForward" /\ u[i].point = PointOf(page[k])
      BY <1>6, <3>1
    <3>. QED BY <1>3, <1>8, <3>1, <3>2, RealPoints
  <2>. QED BY <1>7, <2>1, <2>2
<1>17. Ceiling(queue \o u, delivered, Height[node]) /\ NotBelow(queue \o u, delivered)
  BY <1>14, <1>15, <1>16, BlocksFit DEF FlowOK
<1>18. FlowOK'
  BY <1>13, <1>14, <1>17 DEF FlowOK
<1>19. Steady => Fits(queue \o u, last) /\ Dest(queue \o u, Len(queue \o u), last) = PointOf(page[Len(page)])
  <2>. SUFFICES ASSUME Steady
                PROVE  Fits(queue \o u, last) /\ Dest(queue \o u, Len(queue \o u), last) = PointOf(page[Len(page)])
    OBVIOUS
  <2>1. Fits(queue, last) /\ Dest(queue, Len(queue), last) = pull.cursor[1]
    BY <1>1, <1>14 DEF LeadOK, Ahead
  <2>2. PageUnits(u, page, at, r)
    BY <1>6 DEF PageUnits
  <2>. DEFINE j == queue \o u
  <2>3. /\ Joins(j, queue, u) /\ r \in {0, 1} /\ queue \in Seq(Event)
        /\ PageOK(page, at) /\ (r = 0 => Dest(queue, Len(queue), last) = at)
    BY <1>3, <1>7, <1>14, <1>15, <2>1
  <2>. HIDE DEF j
  <2>4. Fits(j, last) /\ Dest(j, Len(j), last) = PointOf(page[Len(page)])
    BY <2>1, <2>2, <2>3, PageFits
  <2>. QED BY <2>4 DEF j
<1>20. Steady' <=> Steady
  BY <1>13 DEF Steady
<1>21. LeadOK'
  BY <1>11, <1>13, <1>14, <1>19, <1>20 DEF LeadOK
<1>. QED BY <1>12, <1>18, <1>21

\* A template is sent behind the blocks it stands on.
LEMMA TemplateStep ==
  ASSUME RInv, WorkerOK, FlowOK, LeadOK, Template
  PROVE  WorkerOK' /\ FlowOK' /\ LeadOK'
<1>. DEFINE e == MempoolEvent(node)
            u == Append(pull.units, e)
<1>1. /\ PullLeaves /\ pull.pc = "template" /\ pull' = [pull EXCEPT !.pc = "send", !.units = u]
      /\ pull \in Worker /\ CursorOK(pull.cursor)
      /\ pull.units \in Seq(Event) /\ queue \in Seq(Event) /\ node \in Block
      /\ delivered \in Nat
  BY DEF Template, WorkerOK, FlowOK, Worker, RInv
<1>2. e \in Event
  BY <1>1 DEF Event
<1>. HIDE DEF e
<1>3. u \in Seq(Event) /\ u # <<>>
  BY <1>1, <1>2
<1>4. queue \o u = Append(Coming, e) /\ Coming \in Seq(Event)
  BY <1>1, <1>2 DEF Coming
<1>. HIDE DEF u
<1>5. pull' \in Worker /\ pull'.pc = "send" /\ pull'.units = u /\ pull'.cursor = pull.cursor
  BY <1>1, <1>3 DEF Worker
<1>6. WorkerOK'
  BY <1>1, <1>3, <1>5 DEF WorkerOK
<1>7. /\ last' = last /\ status' = status /\ delivered' = delivered
      /\ node' = node /\ serving' = serving /\ queue' = queue
      /\ disturbed' = disturbed /\ dropped' = dropped
  BY <1>1, LeavesFacts
<1>8. Coming' = Append(Coming, e)
  BY <1>4, <1>5, <1>7 DEF Coming
<1>9. Ceiling(Append(Coming, e), delivered, Height[node]) /\ NotBelow(Append(Coming, e), delivered)
  BY <1>1, <1>4, TemplateFits DEF FlowOK, e
<1>10. FlowOK'
  BY <1>7, <1>8, <1>9 DEF FlowOK
<1>11. Steady => /\ Fits(Append(Coming, e), last)
                 /\ Dest(Append(Coming, e), Len(Append(Coming, e)), last) = pull.cursor[1]
  <2>. SUFFICES ASSUME Steady
                PROVE  /\ Fits(Append(Coming, e), last)
                       /\ Dest(Append(Coming, e), Len(Append(Coming, e)), last) = pull.cursor[1]
    OBVIOUS
  <2>1. Fits(Coming, last) /\ Dest(Coming, Len(Coming), last) = pull.cursor[1]
    BY <1>1 DEF LeadOK, Ahead
  <2>2. /\ Fits(Append(Coming, e), last)
        /\ Dest(Append(Coming, e), Len(Append(Coming, e)), last) = Dest(Coming, Len(Coming), last)
    BY <1>4, <2>1, TemplateLeads DEF e
  <2>. QED BY <2>1, <2>2
<1>12. (Steady' <=> Steady) /\ Ahead' = pull.cursor[1]
  BY <1>5, <1>7 DEF Steady, Ahead
<1>13. LeadOK'
  BY <1>5, <1>7, <1>8, <1>11, <1>12 DEF LeadOK
<1>. QED BY <1>6, <1>10, <1>13

\* An event moves from the worker to the queue.
LEMMA Moved ==
  ASSUME NEW q \in Seq(Event), NEW u \in Seq(Event), u # <<>>
  PROVE  Append(q, Head(u)) \o Tail(u) = q \o u
<1>. DEFINE a == Append(q, Head(u))
            s == a \o Tail(u)
            t == q \o u
<1>1. Len(q) \in Nat /\ Len(u) \in Nat /\ Len(u) >= 1 /\ Head(u) = u[1] /\ Head(u) \in Event
  OBVIOUS
<1>2. Tail(u) \in Seq(Event) /\ Len(Tail(u)) = Len(u) - 1 /\ \A i \in 1..(Len(u) - 1) : Tail(u)[i] = u[i + 1]
  OBVIOUS
<1>3. a \in Seq(Event) /\ Len(a) = Len(q) + 1 /\ a[Len(q) + 1] = u[1] /\ \A i \in 1..Len(q) : a[i] = q[i]
  BY <1>1
<1>. HIDE DEF a
<1>4. s \in Seq(Event) /\ Joins(s, a, Tail(u))
  BY <1>2, <1>3, Concat, Zenon
<1>5. t \in Seq(Event) /\ Joins(t, q, u)
  BY Concat, Zenon
<1>. HIDE DEF s, t
<1>6. Len(s) = Len(t) /\ Len(t) = Len(q) + Len(u)
  BY <1>1, <1>2, <1>3, <1>4, <1>5 DEF Joins
<1>7. ASSUME NEW i \in 1..Len(t) PROVE s[i] = t[i]
  <2>1. CASE i <= Len(q)
    <3>1. i \in 1..Len(q) /\ i \in 1..Len(a)
      BY <1>1, <1>3, <2>1
    <3>. QED BY <1>3, <1>4, <1>5, <3>1 DEF Joins
  <2>2. CASE i = Len(q) + 1
    <3>1. i \in 1..Len(a) /\ 1 \in 1..Len(u)
      BY <1>1, <1>3, <2>2
    <3>. QED BY <1>3, <1>4, <1>5, <2>2, <3>1 DEF Joins
  <2>3. CASE i > Len(q) + 1
    <3>. DEFINE k == i - (Len(q) + 1)
    <3>1. k \in 1..(Len(u) - 1) /\ i = Len(a) + k /\ k + 1 \in 1..Len(u) /\ i = Len(q) + (k + 1)
      BY <1>1, <1>3, <1>6, <2>3
    <3>. HIDE DEF k
    <3>2. s[i] = Tail(u)[k]
      BY <1>2, <1>4, <3>1 DEF Joins
    <3>3. t[i] = u[k + 1]
      BY <1>5, <3>1 DEF Joins
    <3>. QED BY <1>2, <3>1, <3>2, <3>3
  <2>. QED BY <1>1, <1>6, <2>1, <2>2, <2>3
<1>8. s = [i \in 1..Len(s) |-> s[i]] /\ t = [i \in 1..Len(t) |-> t[i]]
  BY <1>4, <1>5
<1>9. s = t
  BY <1>6, <1>7, <1>8
<1>. QED BY <1>9 DEF s, t, a

\* A send moves an event in hand to the queue and leaves their order alone.
LEMMA SendStep ==
  ASSUME RInv, WorkerOK, FlowOK, LeadOK, Send
  PROVE  WorkerOK' /\ FlowOK' /\ LeadOK'
<1>1. /\ pull.pc = "send" /\ pull.units # <<>> /\ pull.units \in Seq(Event) /\ queue \in Seq(Event)
      /\ pull \in Worker /\ CursorOK(pull.cursor)
      /\ UNCHANGED <<rvars, world, bounds, history>>
  BY DEF Send, WorkerOK, Worker, FlowOK
<1>2. /\ last' = last /\ status' = status /\ delivered' = delivered
      /\ node' = node /\ serving' = serving
      /\ disturbed' = disturbed /\ dropped' = dropped
  BY <1>1 DEF rvars, vars, store, memory, world, history, bounds
<1>3. CASE status = "running" /\ Sent(Head(pull.units))
  <2>. DEFINE u == Tail(pull.units)
              pc == IF Len(pull.units) = 1 THEN "fetch" ELSE "send"
  <2>1. queue' = Append(queue, Head(pull.units)) /\ pull' = [pull EXCEPT !.units = u, !.pc = pc]
    BY <1>3 DEF Sent
  <2>2. u \in Seq(Event) /\ (u = <<>> <=> Len(pull.units) = 1) /\ Head(pull.units) \in Event
    <3>. DEFINE x == pull.units
    <3>1. x \in Seq(Event) /\ x # <<>>
      BY <1>1
    <3>. HIDE DEF x
    <3>2. Tail(x) \in Seq(Event) /\ Len(Tail(x)) = Len(x) - 1 /\ Len(x) \in Nat /\ Head(x) \in Event
      BY <3>1
    <3>3. Tail(x) = <<>> <=> Len(Tail(x)) = 0
      <4>1. \A y \in Seq(Event) : y = <<>> <=> Len(y) = 0
        OBVIOUS
      <4>. QED BY <3>2, <4>1, Zenon
    <3>4. Len(Tail(x)) = 0 <=> Len(x) = 1
      BY <3>2
    <3>. QED BY <3>2, <3>3, <3>4 DEF x
  <2>3. pc \in {"fetch", "send"} /\ (pc = "fetch" <=> u = <<>>)
    BY <2>2
  <2>. HIDE DEF u, pc
  <2>4. /\ pull' \in Worker /\ pull'.units = u /\ pull'.pc = pc /\ pull'.cursor = pull.cursor
        /\ queue' \in Seq(Event)
    <3>1. queue' \in Seq(Event)
      BY <1>1, <2>1, <2>2
    <3>2. pc \in {"boot", "options", "init", "fetch", "cursor", "template", "send", "ended"}
      BY <2>3
    <3>. QED BY <1>1, <2>1, <2>2, <3>1, <3>2 DEF Worker
  <2>5. WorkerOK'
    BY <1>1, <2>3, <2>4 DEF WorkerOK
  <2>6. Coming' = Coming
    BY <1>1, <2>1, <2>4, Moved DEF Coming, u
  <2>7. FlowOK'
    BY <1>2, <2>4, <2>6 DEF FlowOK
  <2>8. (Steady' <=> Steady) /\ Ahead' = pull.cursor[1] /\ Ahead = pull.cursor[1]
    BY <1>1, <1>2, <2>3, <2>4 DEF Steady, Ahead
  <2>9. LeadOK'
    BY <1>1, <1>2, <2>3, <2>4, <2>6, <2>8 DEF LeadOK
  <2>. QED BY <2>5, <2>7, <2>9
<1>4. CASE status # "running" /\ End /\ UNCHANGED queue
  <2>1. PullLeaves
    BY <1>1, <1>4 DEF PullLeaves
  <2>. QED BY <1>4, <2>1, EndStep
<1>. QED BY <1>3, <1>4 DEF Send

\* A worker of a new process, or of a restarted stage.
LEMMA NewWorkerFacts ==
  /\ NewWorker \in Worker /\ NewWorker.pc = "boot" /\ NewWorker.units = <<>>
<1>1. 0 \in BlockHeight
  BY ChainAssumption DEF BlockHeight
<1>. DEFINE e == <<>>
<1>2. e \in Seq(RealPoint) /\ e \in Seq(Block) /\ e \in Seq(Event)
  OBVIOUS
<1>3. NewWorker = [pc |-> "boot", cursor |-> e, tip |-> 0, tipReached |-> FALSE,
                   seen |-> 0, page |-> e, units |-> e]
  BY DEF NewWorker
<1>4. NewWorker.units = e
  BY <1>3
<1>5. NewWorker.pc = "boot"
  BY <1>3
<1>. HIDE DEF e
<1>6. NewWorker \in Worker
  BY <1>1, <1>2, <1>3 DEF Worker
<1>. QED BY <1>4, <1>5, <1>6 DEF e

\* A restarted pull stage has nothing in hand and no cursor.
LEMMA RestartPullStep ==
  ASSUME RInv, WorkerOK, FlowOK, LeadOK, RestartPull
  PROVE  WorkerOK' /\ FlowOK' /\ LeadOK'
<1>1. /\ pull' = NewWorker /\ disturbed' = (disturbed \/ InFlight)
      /\ UNCHANGED <<rvars, world, queue, flushes, dropped>>
      /\ queue \in Seq(Event) /\ pull.units \in Seq(Event) /\ disturbed \in BOOLEAN
  BY DEF RestartPull, FlowOK, WorkerOK, Worker
<1>2. /\ last' = last /\ status' = status /\ delivered' = delivered
      /\ node' = node /\ serving' = serving /\ queue' = queue /\ dropped' = dropped
  BY <1>1 DEF rvars, vars, store, memory, world
<1>3. pull' \in Worker /\ pull'.pc = "boot" /\ pull'.units = <<>>
  BY <1>1, NewWorkerFacts
<1>4. WorkerOK'
  BY <1>3 DEF WorkerOK
<1>5. Joins(Coming, queue, pull.units)
  BY <1>1, Concat, Zenon DEF Coming
<1>6. Ceiling(queue, delivered, Height[node]) /\ NotBelow(queue, delivered)
  BY <1>1, <1>5, PrefixFits DEF FlowOK
<1>7. Coming' = queue
  BY <1>1, <1>2, <1>3 DEF Coming
<1>8. disturbed' \in BOOLEAN
  BY <1>1, Zenon DEF InFlight
<1>9. FlowOK'
  BY <1>1, <1>2, <1>6, <1>7, <1>8 DEF FlowOK
<1>10. Steady' => queue = <<>>
  BY <1>1 DEF Steady, InFlight
<1>11. LeadOK'
  <2>. SUFFICES ASSUME Steady' PROVE Fits(Coming', last') /\ queue' = <<>>
    BY <1>3 DEF LeadOK
  <2>1. queue = <<>> /\ Len(queue) = 0
    BY <1>10
  <2>2. Fits(queue, last')
    BY <2>1 DEF Fits
  <2>. QED BY <1>2, <1>7, <2>1, <2>2
<1>. QED BY <1>4, <1>9, <1>11

\* A new process starts with an empty queue.
LEMMA NewProcessStep ==
  ASSUME WorkerOK, FlowOK, NewProcess
  PROVE  WorkerOK' /\ FlowOK' /\ LeadOK'
<1>1. /\ pull' = NewWorker /\ queue' = <<>> /\ delivered' = 0 /\ dropped' = FALSE /\ disturbed' = FALSE
      /\ node' = node /\ serving' = serving
  BY DEF NewProcess, Reopen, world
<1>2. pull' \in Worker /\ pull'.pc = "boot" /\ pull'.units = <<>>
  BY <1>1, NewWorkerFacts
<1>3. WorkerOK'
  BY <1>2 DEF WorkerOK
<1>4. Coming' = <<>> /\ Len(Coming') = 0 /\ Fits(Coming', last')
  <2>1. Coming' = <<>> \o <<>>
    BY <1>1, <1>2 DEF Coming
  <2>. QED BY <2>1, NoneComing
<1>5. Ceiling(Coming', delivered', Height[node]') /\ NotBelow(Coming', delivered')
  BY <1>1, <1>4, ChainAssumption DEF Ceiling, NotBelow, FlowOK
<1>6. queue' \in Seq(Event)
  BY <1>1
<1>7. FlowOK'
  BY <1>1, <1>5, <1>6 DEF FlowOK
<1>8. LeadOK'
  BY <1>1, <1>2, <1>4 DEF LeadOK
<1>. QED BY <1>3, <1>7, <1>8

\* The node's chain only gets longer.
LEMMA NodeStep ==
  ASSUME RInv, WorkerOK, FlowOK, LeadOK,
         (\E b \in Block : Grow(b) \/ Reorg(b)) \/ NodeReady
  PROVE  WorkerOK' /\ FlowOK' /\ LeadOK'
<1>1. /\ UNCHANGED <<rvars, pull, queue, dropped>>
      /\ disturbed' \in BOOLEAN /\ (disturbed => disturbed')
      /\ node' \in Block /\ serving' \in BOOLEAN /\ Height[node'] >= Height[node]
  <2>1. ASSUME NEW b \in Block, Grow(b)
        PROVE  /\ UNCHANGED <<rvars, pull, queue, dropped>>
               /\ disturbed' \in BOOLEAN /\ (disturbed => disturbed')
               /\ node' \in Block /\ serving' \in BOOLEAN /\ Height[node'] >= Height[node]
    <3>1. Height[b] \in Nat /\ Height[node] \in Nat /\ node \in Ancestors[b]
      BY <2>1, ChainAssumption DEF Grow, FlowOK
    <3>2. Height[node] <= Height[b]
      BY <3>1, AncestorFacts DEF Lineage
    <3>. QED BY <2>1, <3>1, <3>2 DEF Grow, FlowOK, bounds, history
  <2>2. ASSUME NEW b \in Block, Reorg(b)
        PROVE  /\ UNCHANGED <<rvars, pull, queue, dropped>>
               /\ disturbed' \in BOOLEAN /\ (disturbed => disturbed')
               /\ node' \in Block /\ serving' \in BOOLEAN /\ Height[node'] >= Height[node]
    <3>1. Height[b] \in Nat /\ Height[node] \in Nat /\ Height[b] > Height[node]
      BY <2>2, ChainAssumption DEF Reorg, FlowOK
    <3>2. disturbed' = (disturbed \/ ~Aligned) /\ disturbed \in BOOLEAN
      BY <2>2 DEF Reorg, FlowOK
    <3>3. disturbed' \in BOOLEAN /\ (disturbed => disturbed')
      BY <3>2, Zenon
    <3>. QED BY <2>2, <3>1, <3>3 DEF Reorg, FlowOK
  <2>3. CASE NodeReady
    <3>1. Height[node] \in Nat
      BY ChainAssumption DEF FlowOK
    <3>. QED BY <2>3, <3>1 DEF NodeReady, FlowOK, history
  <2>. QED BY <2>1, <2>2, <2>3
<1>2. /\ last' = last /\ status' = status /\ delivered' = delivered
      /\ queue' = queue /\ dropped' = dropped /\ pull' = pull /\ Coming' = Coming
  BY <1>1 DEF rvars, vars, store, memory, Coming
<1>3. WorkerOK'
  BY <1>2 DEF WorkerOK
<1>4. Coming \in Seq(Event) /\ delivered \in Nat /\ Height[node] \in Nat /\ Height[node'] \in Nat
  <2>1. queue \in Seq(Event) /\ pull.units \in Seq(Event)
    BY DEF FlowOK, WorkerOK, Worker
  <2>. QED BY <1>1, <2>1, ChainAssumption DEF Coming, FlowOK, RInv
<1>5. Ceiling(Coming, delivered, Height[node'])
  BY <1>1, <1>4, CeilingRises DEF FlowOK
<1>6. FlowOK'
  BY <1>1, <1>2, <1>5 DEF FlowOK
<1>7. Steady' => Steady
  BY <1>1, <1>2 DEF Steady
<1>8. Ahead' = Ahead
  BY <1>2 DEF Ahead
<1>9. LeadOK'
  BY <1>2, <1>7, <1>8 DEF LeadOK
<1>. QED BY <1>3, <1>6, <1>9

(***************************************************************************)
(* The composition implements IndexRecovery.                               *)
(***************************************************************************)

\* The index stage receives what the node and the pull stage may send it.
LEMMA HandleEventIsHandle ==
  ASSUME RInv, NEW e, WellFormed(e), HandleEvent(e),
         e.type = "MempoolBlocks" => Height[e.tip] >= delivered
  PROVE  Handle
<1>1. CASE e.type = "RollForward"
  <2>1. e.point \in Point /\ e.point.height \in Nat /\ e.tip \in BlockHeight /\ e.tip >= e.point.height
    BY <1>1, RealPoints DEF WellFormed
  <2>2. RollForward(e.point, e.tip) /\ delivered' = Larger(delivered, e.point.height)
    BY <1>1 DEF HandleEvent
  <2>3. delivered' = IF e.point.height > delivered THEN e.point.height ELSE delivered
    BY <2>1, <2>2 DEF Larger, RInv
  <2>. QED BY <2>1, <2>2, <2>3, Zenon DEF Handle
<1>2. CASE e.type = "RollBack"
  <2>1. e.point \in Point
    BY <1>2, RealPoints DEF WellFormed
  <2>2. RollBack(e.point) /\ UNCHANGED delivered
    BY <1>2 DEF HandleEvent
  <2>. QED BY <2>1, <2>2, Zenon DEF Handle
<1>3. CASE e.type = "MempoolBlocks"
  <2>1. e.tip \in Block /\ Height[e.tip] >= delivered
    BY <1>3 DEF WellFormed
  <2>2. (\E s \in Snapshot : MempoolBlocks(e.tip, s)) /\ UNCHANGED delivered
    BY <1>3 DEF HandleEvent
  <2>. QED BY <2>1, <2>2, Zenon DEF Handle
<1>. QED BY <1>1, <1>2, <1>3 DEF WellFormed

\* The event the index stage receives is the first of those coming.
LEMMA HeadFacts ==
  ASSUME WorkerOK, FlowOK, queue # <<>>
  PROVE  /\ Head(queue) = Coming[1] /\ Head(queue) \in Event
         /\ Coming \in Seq(Event) /\ Coming # <<>>
         /\ Tail(queue) \in Seq(Event)
         /\ Tail(queue) \o pull.units = Tail(Coming)
<1>. DEFINE u == pull.units
<1>1. queue \in Seq(Event) /\ u \in Seq(Event) /\ Len(queue) \in Nat /\ Len(queue) >= 1
      /\ 1 \in 1..Len(queue)
  BY DEF FlowOK, WorkerOK, Worker
<1>. HIDE DEF u
<1>2. Coming = queue \o u
  BY DEF Coming, u
<1>3. Coming \in Seq(Event) /\ Joins(Coming, queue, u)
  BY <1>1, <1>2, Concat
<1>4. Len(Coming) >= 1 /\ Coming[1] = queue[1] /\ Coming # <<>>
  BY <1>1, <1>3 DEF Joins
<1>5. Head(queue) = queue[1] /\ Head(queue) \in Event /\ Tail(queue) \in Seq(Event)
  BY <1>1
<1>6. Tail(queue) \o u = Tail(Coming)
  BY <1>1, <1>2
<1>. QED BY <1>3, <1>4, <1>5, <1>6 DEF u

\* Every step of the pipeline is a step of IndexRecovery or leaves it alone.
LEMMA PipelineRefines ==
  ASSUME PInv, [PNext]_pvars
  PROVE  [RNext]_rvars
<1>1. CASE UNCHANGED pvars
  BY <1>1 DEF pvars
<1>2. ASSUME NEW b \in Block, Grow(b) \/ Reorg(b) PROVE [RNext]_rvars
  BY <1>2 DEF Grow, Reorg
<1>3. CASE NodeReady
  BY <1>3 DEF NodeReady
<1>4. CASE PullStep
  BY <1>4 DEF PullStep, BootRead, BootOptions, Initialise, FetchPage, CompleteCursor, AtTip,
              Template, Send, PullLeaves
<1>5. CASE RestartPull
  BY <1>5 DEF RestartPull
<1>6. CASE IndexStep
  <2>. DEFINE e == Head(queue)
  <2>1. queue # <<>> /\ HandleEvent(e) /\ UNCHANGED disk
    BY <1>6 DEF IndexStep
  <2>2. e = Coming[1] /\ e \in Event /\ Coming \in Seq(Event) /\ Coming # <<>>
    BY <2>1, HeadFacts DEF PInv
  <2>3. WellFormed(e)
    BY <2>2, EventFacts
  <2>. HIDE DEF e
  <2>4. e.type = "MempoolBlocks" => Height[e.tip] >= delivered
    <3>1. 1 \in 1..Len(Coming) /\ NotBelow(Coming, delivered)
      BY <2>2 DEF PInv, FlowOK
    <3>. QED BY <2>2, <3>1 DEF NotBelow
  <2>5. Handle
    BY <2>1, <2>3, <2>4, HandleEventIsHandle DEF PInv
  <2>. QED BY <2>1, <2>5 DEF RNext
<1>7. CASE FlushTables
  BY <1>7 DEF FlushTables, RNext
<1>8. CASE Restarted
  BY <1>8 DEF Restarted, NewProcess, RNext
<1>9. CASE Crash
  BY <1>9 DEF Crash, NewProcess, RNext
<1>. QED BY <1>1, <1>2, <1>3, <1>4, <1>5, <1>6, <1>7, <1>8, <1>9 DEF PNext

(***************************************************************************)
(* The index stage's steps.                                                *)
(***************************************************************************)

\* An event that fits and is not dropped takes the index stage where it leads:
\* no early return or error path of the handlers is left.
LEMMA HandledMoves ==
  ASSUME RInv, NEW e, WellFormed(e), HandleEvent(e), ~Dropped(e), status' = "running",
         e.type = "RollForward" => PointOf(Prev[e.point.hash]) = last
  PROVE  last' = IF e.type # "MempoolBlocks" THEN e.point ELSE last
<1>1. CASE e.type = "RollForward"
  <2>. DEFINE p == e.point
  <2>1. RollForward(p, e.tip)
    BY <1>1 DEF HandleEvent
  <2>2. p \in RealPoint /\ p.hash \in Block /\ p.height = Height[p.hash]
    BY <1>1, RealPoints DEF WellFormed
  <2>3. last.height = Height[Prev[p.hash]] /\ last.hash = Prev[p.hash] /\ last.hash \in Block
    BY <1>1, LastRead, RealPoints DEF PointOf
  <2>4. p.height = last.height + 1 /\ last.height \in Nat
    BY <2>2, <2>3, ChainAssumption
  <2>5. last' # last
    BY <1>1, <2>4 DEF Dropped
  <2>. HIDE DEF p
  <2>6. last' = p
    BY <2>1, <2>3, <2>4, <2>5 DEF RollForward, Panic, memory, Undo, CommitBlock, ChainsOnLast
  <2>. QED BY <1>1, <2>6 DEF p
<1>2. CASE e.type = "RollBack"
  BY <1>2 DEF Dropped
<1>3. CASE e.type = "MempoolBlocks"
  <2>1. PICK s \in Snapshot : MempoolBlocks(e.tip, s)
    BY <1>3 DEF HandleEvent
  <2>2. last' = last
    BY <2>1 DEF MempoolBlocks, Undo, CommitMempool, memory
  <2>. QED BY <1>3, <2>2
<1>. QED BY <1>1, <1>2, <1>3 DEF WellFormed

\* The first of the events leads to its point.
LEMMA DestFirst ==
  ASSUME NEW es, NEW l
  PROVE  Dest(es, 1, l) = IF es[1].type # "MempoolBlocks" THEN es[1].point ELSE l
<1>1. Leads(es, l, 0, 1)
  <2>1. 0 \in Nat /\ 1 = 0 + 1
    OBVIOUS
  <2>. QED BY <2>1, DestStep, Zenon
<1>2. Dest(es, 0, l) = l
  BY DestNone
<1>. QED BY <1>1, <1>2 DEF Leads

\* The index stage receives an event.
LEMMA IndexStepStep ==
  ASSUME RInv, WorkerOK, FlowOK, LeadOK, IndexStep
  PROVE  WorkerOK' /\ FlowOK' /\ LeadOK'
<1>. DEFINE e == Head(queue)
            k == IF Coming[1].type # "MempoolBlocks" THEN Coming[1].point ELSE last
<1>1. /\ queue # <<>> /\ queue' = Tail(queue) /\ HandleEvent(e)
      /\ pull' = pull /\ node' = node /\ serving' = serving /\ disturbed' = disturbed
      /\ dropped' = (dropped \/ Dropped(e))
  BY DEF IndexStep, world
<1>2. /\ e = Coming[1] /\ e \in Event /\ Coming \in Seq(Event) /\ Coming # <<>>
      /\ Tail(queue) \in Seq(Event) /\ Tail(queue) \o pull.units = Tail(Coming)
  BY <1>1, HeadFacts
<1>3. Coming' = Tail(Coming) /\ queue' \in Seq(Event)
  BY <1>1, <1>2 DEF Coming
<1>4. WellFormed(e)
  BY <1>2, EventFacts
<1>5. status = "running"
  BY <1>1 DEF HandleEvent, RollForward, RollBack, MempoolBlocks
<1>6. delivered' = IF e.type = "RollForward" THEN Larger(delivered, e.point.height) ELSE delivered
  BY <1>1, <1>4 DEF HandleEvent, WellFormed
<1>. HIDE DEF e
<1>7. WorkerOK'
  BY <1>1 DEF WorkerOK
<1>8. Ceiling(Coming', delivered', Height[node']) /\ NotBelow(Coming', delivered')
  <2>. DEFINE h == Height[node]
              c == delivered'
              es == Coming
  <2>1. delivered \in Nat /\ h \in Nat /\ es \in Seq(Event) /\ es # <<>>
        /\ Ceiling(es, delivered, h) /\ NotBelow(es, delivered)
    BY <1>2, ChainAssumption DEF RInv, FlowOK
  <2>2. c = IF es[1].type = "RollForward" THEN Larger(delivered, es[1].point.height) ELSE delivered
    BY <1>2, <1>6
  <2>. HIDE DEF h, c, es
  <2>3. Ceiling(Tail(es), c, h) /\ NotBelow(Tail(es), c)
    BY <2>1, <2>2, ReceivedFits
  <2>. QED BY <1>1, <1>3, <2>3 DEF h, c, es
<1>9. FlowOK'
  <2>1. dropped' \in BOOLEAN
    BY <1>1 DEF FlowOK
  <2>. QED BY <1>1, <1>3, <1>8, <2>1 DEF FlowOK
<1>10. LeadOK'
  <2>. SUFFICES ASSUME Steady' PROVE LeadOK'
    BY DEF LeadOK
  <2>1. Steady /\ ~Dropped(e) /\ status' = "running"
    <3>1. ~disturbed' /\ ~dropped' /\ status' = "running"
      BY DEF Steady
    <3>2. ~disturbed /\ ~dropped /\ ~Dropped(e)
      BY <1>1, <3>1, Zenon
    <3>. QED BY <1>5, <3>1, <3>2, Zenon DEF Steady
  <2>2. /\ Fits(Coming, last)
        /\ pull.pc \in {"boot", "options", "init"} => queue = <<>>
        /\ pull.pc \in {"fetch", "cursor", "template", "send"} =>
             Dest(Coming, Len(Coming), last) = Ahead
    BY <2>1, Zenon DEF LeadOK
  <2>3. pull.pc \notin {"boot", "options", "init"}
    BY <1>1, <2>2
  <2>4. e.type = "RollForward" => PointOf(Prev[e.point.hash]) = last
    <3>1. 1 \in 1..Len(Coming) /\ 1 - 1 = 0
      BY <1>2
    <3>2. e.type = "RollForward" => PointOf(Prev[e.point.hash]) = Dest(Coming, 0, last)
      BY <1>2, <2>2, <3>1 DEF Fits
    <3>. QED BY <3>2, DestNone
  <2>5. last' = k
    BY <1>1, <1>2, <1>4, <2>1, <2>4, HandledMoves
  <2>6. last' = Dest(Coming, 1, last)
    BY <2>5, DestFirst
  <2>7. Fits(Tail(Coming), last') /\ Dest(Tail(Coming), Len(Tail(Coming)), last') = Dest(Coming, Len(Coming), last)
    BY <1>2, <2>2, <2>6, FitsTail
  <2>8. Ahead' = Ahead
    BY <1>1 DEF Ahead
  <2>9. Fits(Coming', last') /\ Dest(Coming', Len(Coming'), last') = Dest(Coming, Len(Coming), last)
    BY <1>3, <2>7
  <2>. QED BY <1>1, <2>2, <2>3, <2>8, <2>9 DEF LeadOK
<1>. QED BY <1>7, <1>9, <1>10

\* A flush moves nothing.
LEMMA FlushStep ==
  ASSUME WorkerOK, FlowOK, LeadOK, FlushTables
  PROVE  WorkerOK' /\ FlowOK' /\ LeadOK'
<1>1. /\ pull' = pull /\ queue' = queue /\ node' = node /\ serving' = serving
      /\ disturbed' = disturbed /\ dropped' = dropped
      /\ last' = last /\ status' = status /\ delivered' = delivered
  BY DEF FlushTables, Flush, world, history, memory, vars
<1>2. WorkerOK'
  BY <1>1 DEF WorkerOK
<1>3. FlowOK'
  BY <1>1 DEF FlowOK, Coming
<1>4. LeadOK'
  BY <1>1 DEF LeadOK, Steady, Coming, Ahead
<1>. QED BY <1>2, <1>3, <1>4

(***************************************************************************)
(* The invariant of the pipeline.                                          *)
(***************************************************************************)

\* It holds when the process starts on an empty database.
LEMMA InitPInv == PInit => PInv
<1>. SUFFICES ASSUME PInit PROVE PInv
  OBVIOUS
<1>1. /\ pull = NewWorker /\ queue = <<>> /\ node = Genesis /\ serving = FALSE
      /\ dropped = FALSE /\ disturbed = FALSE /\ delivered = 0 /\ RInit
  BY DEF PInit, RInit
<1>2. RInv
  BY <1>1, InitRInv
<1>3. pull \in Worker /\ pull.pc = "boot" /\ pull.units = <<>>
  BY <1>1, NewWorkerFacts
<1>4. WorkerOK
  BY <1>3 DEF WorkerOK
<1>5. queue \in Seq(Event) /\ Coming = <<>> /\ Len(Coming) = 0
  BY <1>1, <1>3 DEF Coming
<1>6. FlowOK
  <2>. DEFINE n == Len(Coming)
  <2>1. 1..n = {}
    BY <1>5
  <2>2. Height[node] = 0 /\ node \in Block
    BY <1>1, ChainAssumption
  <2>3. Ceiling(Coming, delivered, Height[node]) /\ NotBelow(Coming, delivered)
    BY <1>1, <2>1, <2>2 DEF Ceiling, NotBelow
  <2>. QED BY <1>1, <1>5, <2>2, <2>3 DEF FlowOK
<1>7. Fits(Coming, last)
  BY <1>5 DEF Fits
<1>8. LeadOK
  BY <1>1, <1>3, <1>7 DEF LeadOK
<1>. QED BY <1>2, <1>4, <1>6, <1>8 DEF PInv

\* Every step keeps it.
LEMMA NextPInv ==
  ASSUME PInv, [PNext]_pvars
  PROVE  PInv'
<1>. USE DEF PInv
<1>1. RInv'
  BY PipelineRefines, RInvStep
<1>2. WorkerOK' /\ FlowOK' /\ LeadOK'
  <2>1. CASE UNCHANGED pvars
    <3>1. /\ pull' = pull /\ queue' = queue /\ node' = node /\ serving' = serving
          /\ disturbed' = disturbed /\ dropped' = dropped
          /\ last' = last /\ status' = status /\ delivered' = delivered
      BY <2>1 DEF pvars, rvars, world, history, memory, vars
    <3>2. WorkerOK'
      BY <3>1 DEF WorkerOK
    <3>3. FlowOK'
      BY <3>1 DEF FlowOK, Coming
    <3>4. LeadOK'
      BY <3>1 DEF LeadOK, Steady, Coming, Ahead
    <3>. QED BY <3>2, <3>3, <3>4
  <2>2. CASE (\E b \in Block : Grow(b) \/ Reorg(b)) \/ NodeReady
    BY <2>2, NodeStep
  <2>3. CASE PullStep
    BY <2>3, BootReadStep, BootOptionsStep, InitialiseStep, AtTipStep, CompleteCursorStep,
       FetchPageStep, TemplateStep, SendStep DEF PullStep
  <2>4. CASE RestartPull
    BY <2>4, RestartPullStep
  <2>5. CASE IndexStep
    BY <2>5, IndexStepStep
  <2>6. CASE FlushTables
    BY <2>6, FlushStep
  <2>7. CASE Restarted \/ Crash
    BY <2>7, NewProcessStep DEF Restarted, Crash
  <2>. QED BY <2>1, <2>2, <2>3, <2>4, <2>5, <2>6, <2>7 DEF PNext
<1>. QED BY <1>1, <1>2

\* The invariant of the pipeline holds throughout.
LEMMA PInvariance == PSpec => []PInv
<1>1. PInv /\ [PNext]_pvars => PInv'
  BY NextPInv
<1>. QED BY <1>1, InitPInv, PTL DEF PSpec

(***************************************************************************)
(* Theorems.                                                               *)
(***************************************************************************)

\* What IndexRecovery takes for granted of whoever feeds the index stage, in
\* particular that no snapshot is below a block delivered, is what the node,
\* the pull stage and the queue do: every behaviour of the pipeline is one of
\* IndexRecovery.
THEOREM PipelineImplementsRecovery == PSpec => RSpec
<1>1. PInit => RInit
  BY DEF PInit
<1>2. PInv /\ [PNext]_pvars => [RNext]_rvars
  BY PipelineRefines
<1>. QED BY <1>1, <1>2, PInvariance, PTL DEF PSpec, RSpec

\* Fed by the pull stage, with its restarts, its races with the node and the
\* crashes of the process, the store is always that of one chain, or of one
\* snapshot over it, and the buffer its newest part.
THEOREM PipelineIsConsistent == PSpec => []ConsistentAcrossCrashes
BY PipelineImplementsRecovery, CrashesAreConsistent, PTL

\* No snapshot reaches the index stage below a block it has been given since
\* the process started, for every page size, queue size and schedule.
THEOREM TemplatesAreNotBelow == PSpec => []TemplatesNotBelow
<1>1. PInv => TemplatesNotBelow
  BY DEF PInv, FlowOK, NotBelow, Coming, TemplatesNotBelow
<1>. QED BY <1>1, PInvariance, PTL

\* While nothing disturbed the pipeline the events in flight lead the index
\* stage to the head of the cursor, each block on the point before it, so that
\* the next page the cursor asks for fits as well.
THEOREM CursorLeads == PSpec => []CursorIsDestination
<1>1. PInv => CursorIsDestination
  <2>. DEFINE es == queue \o pull.units
  <2>. SUFFICES ASSUME PInv, ~disturbed /\ ~dropped /\ status = "running",
                       pull.pc \in {"fetch", "template", "send"}
                PROVE  /\ Destination(es) = pull.cursor[1]
                       /\ \A i \in 1..Len(es) :
                            es[i].type = "RollForward" =>
                              PointOf(Prev[es[i].point.hash]) = Destination(SubSeq(es, 1, i - 1))
    BY DEF CursorIsDestination
  <2>1. es = Coming /\ es \in Seq(Event)
    <3>1. queue \in Seq(Event) /\ pull.units \in Seq(Event)
      BY DEF PInv, FlowOK, WorkerOK, Worker
    <3>. QED BY <3>1, Concat DEF Coming
  <2>2. Fits(es, last) /\ Dest(es, Len(es), last) = Ahead
    BY <2>1, Zenon DEF PInv, LeadOK, Steady
  <2>3. Ahead = pull.cursor[1]
    BY DEF Ahead
  <2>. HIDE DEF es
  <2>4. Destination(es) = Dest(es, Len(es), last)
    BY DEF Destination, Dest
  <2>5. ASSUME NEW i \in 1..Len(es), es[i].type = "RollForward"
        PROVE  PointOf(Prev[es[i].point.hash]) = Destination(SubSeq(es, 1, i - 1))
    <3>. DEFINE s == SubSeq(es, 1, i - 1)
    <3>1. Len(s) = i - 1 /\ i - 1 \in Nat /\ \A j \in 1..(i - 1) : s[j] = es[j]
      BY <2>1
    <3>. HIDE DEF s
    <3>2. Destination(s) = Dest(s, i - 1, last)
      BY <3>1 DEF Destination, Dest
    <3>3. Dest(s, i - 1, last) = Dest(es, i - 1, last)
      BY <3>1, DestPrefix
    <3>. QED BY <2>2, <2>5, <3>2, <3>3 DEF Fits, s
  <2>. QED BY <2>2, <2>3, <2>4, <2>5
<1>. QED BY <1>1, PInvariance, PTL
=============================================================================
