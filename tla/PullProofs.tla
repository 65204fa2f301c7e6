---------------------------- MODULE PullProofs ----------------------------
(***************************************************************************)
(* Proofs about the pull stage.  Locator: a reorg is rolled back to a      *)
(* point the rollback buffer holds.  PeerSession: an answer is matched to  *)
(* the request the worker waits for, and no announcement is slept over.    *)
(* The two modules share no variable; this one holds both arguments.       *)
(***************************************************************************)
EXTENDS Locator, PeerSession, NatOrder, TLAPS, SequenceTheorems

(***************************************************************************)
(* The cursor (Locator).                                                   *)
(***************************************************************************)

\* The loop's distances are naturals, each a step beyond the one before.
LEMMA WalkFacts ==
  /\ Walk \in [0..MaxPushes -> Nat] /\ Walk[0] = 0
  /\ \A n \in 1..MaxPushes : Step(n) \in Nat /\ Walk[n] = Walk[n - 1] + Step(n)
<1>. DEFINE N == MaxPushes
            g == [i \in 1..N |-> [x \in Nat |-> x + Step(i)]]
            Body(f) == [i \in 0..N |-> IF i = 0 THEN 0 ELSE f[i - 1] + Step(i)]
<1>1. N \in Nat /\ N = 29
  BY DEF MaxPushes
<1>2. \A i \in 1..N : Step(i) \in Nat
  BY StepAssumption
<1>3. g \in [1..N -> [Nat -> Nat]]
  BY <1>2
<1>4. PICK f \in [0..N -> Nat] : Computed(f, N, 0, g)
  <2>. HIDE DEF g, N
  <2>. QED BY <1>1, <1>3, RecursionExists
<1>5. f = Body(f)
  <2>1. ASSUME NEW i \in 0..N PROVE f[i] = Body(f)[i]
    <3>1. f[i] = IF i = 0 THEN 0 ELSE g[i][f[i - 1]]
      <4>. HIDE DEF g
      <4>. QED BY <1>4 DEF Computed
    <3>2. i # 0 => i \in 1..N /\ i - 1 \in 0..N
      BY <1>1
    <3>3. i # 0 => f[i - 1] \in Nat
      BY <3>2
    <3>. QED BY <3>1, <3>2, <3>3
  <2>2. f = [i \in 0..N |-> f[i]] /\ Body(f) = [i \in 0..N |-> Body(f)[i]]
    OBVIOUS
  <2>. HIDE DEF Body
  <2>. QED BY <2>1, <2>2
<1>6. Walk = CHOOSE e : e = Body(e)
  BY Zenon DEF Walk
<1>7. Walk = Body(Walk)
  <2>. HIDE DEF Body
  <2>. QED BY <1>5, <1>6, Zenon
<1>8. Walk[0] = 0 /\ \A i \in 1..N : Walk[i] = Walk[i - 1] + Step(i)
  BY <1>1, <1>7
<1>9. Walk \in [0..N -> Nat]
  <2>. DEFINE P == {i \in 0..N : Walk[i] \in Nat}
  <2>1. 0 \in P
    BY <1>1, <1>8
  <2>2. \A i \in 1..N : i - 1 \in P => i \in P
    BY <1>1, <1>2, <1>8
  <2>3. \A i \in 0..N : i \in P
    <3>. HIDE DEF P, N
    <3>. QED BY <1>1, <2>1, <2>2, UpTo, Zenon
  <2>4. \A i \in 0..N : Walk[i] \in Nat
    BY <2>3
  <2>. QED BY <1>7, <2>4
<1>. QED BY <1>2, <1>8, <1>9

\* Where the node answers from for a fork at h, if d is the table's last height:
\* d itself, or less than a step below h, and that step begins above h.
Offered(d, h, c) ==
  \/ h = d /\ c = d
  \/ \E n \in 1..MaxPushes : Walk[n - 1] < d - h /\ c + Step(n) >= h + 1

\* intersect_options offers such a point for every height that is not too deep.
LEMMA OptionsOffer ==
  ASSUME NEW d \in Nat, NEW h \in 0..d, d - h <= Walk[MaxPushes]
  PROVE  /\ IntersectOptions(d) \subseteq Nat
         /\ \E c \in IntersectOptions(d) : c <= h /\ Offered(d, h, c)
<1>. DEFINE N == MaxPushes
<1>1. /\ N \in Nat /\ N = 29 /\ Walk \in [0..N -> Nat] /\ Walk[0] = 0
      /\ \A n \in 1..N : Step(n) \in Nat /\ Walk[n] = Walk[n - 1] + Step(n)
  BY WalkFacts DEF MaxPushes
<1>2. IntersectOptions(d) \subseteq Nat
  BY <1>1 DEF IntersectOptions, Pushes
<1>3. CASE h = d
  <2>1. d \in IntersectOptions(d)
    BY DEF IntersectOptions
  <2>. QED BY <1>2, <1>3, <2>1 DEF Offered
<1>4. CASE h # d
  <2>. DEFINE P == {i \in 0..N : Walk[i] < d - h}
  <2>1. PICK n \in 1..N : n - 1 \in P /\ n \notin P
    <3>1. 0 \in P
      BY <1>1, <1>4
    <3>2. N \notin P
      BY <1>1
    <3>3. N \in Nat /\ N \in 0..N
      BY <1>1
    <3>. HIDE DEF P, N
    <3>4. ~ \A i \in 1..N : i - 1 \in P => i \in P
      BY <3>1, <3>2, <3>3, UpTo
    <3>. QED BY <3>4, Zenon
  <2>2. /\ Walk[n - 1] < d - h /\ Walk[n] >= d - h
        /\ Walk[n] = Walk[n - 1] + Step(n) /\ Walk[n] \in Nat /\ Walk[n - 1] \in Nat
        /\ Step(n) \in Nat
    BY <1>1, <2>1
  <2>3. CASE Walk[n] < d
    <3>1. d - Walk[n] \in IntersectOptions(d)
      BY <1>1, <2>1, <2>3 DEF IntersectOptions, Pushes
    <3>2. d - Walk[n] \in Nat /\ d - Walk[n] <= h /\ (d - Walk[n]) + Step(n) >= h + 1
      BY <2>2, <2>3
    <3>. QED BY <1>2, <2>1, <2>2, <3>1, <3>2 DEF Offered
  <2>4. CASE Walk[n] >= d
    <3>1. 0 \in IntersectOptions(d)
      BY DEF IntersectOptions
    <3>2. 0 <= h /\ 0 + Step(n) >= h + 1
      BY <2>2, <2>4
    <3>. QED BY <1>2, <2>1, <2>2, <3>1, <3>2 DEF Offered
  <2>. QED BY <2>2, <2>3, <2>4
<1>. QED BY <1>2, <1>3, <1>4

----------------------------------------------------------------------------
(* The invariant.                                                          *)

InReach == WithinReach(Reach, MaxRollback, CursorLen, MaxLag)

\* For every height up to t that is at most Reach below m, the newest of t
\* and the blocks indexed, cursor c has a point at or below it that is at most
\* MaxRollback below m.
Serves(c, t, m) ==
  \A h \in Nat : h <= t /\ h + Reach >= m => \E o \in c : o <= h /\ o + MaxRollback >= m

\* m is the larger of a and b.
IsLarger(m, a, b) == m \in Nat /\ m >= a /\ m >= b /\ (m = a \/ m = b)

\* The two stages while they run.
Runs ==
  /\ tip \in Nat /\ dbTip \in Nat /\ floor \in Nat /\ gc \in Nat
  /\ cursor \subseteq Nat /\ 0 \in cursor
  /\ dbTip <= tip
  /\ floor <= gc
  /\ gc + MaxRollback >= dbTip
  /\ \E m \in Nat : IsLarger(m, gc + MaxRollback, tip) /\ Serves(cursor, tip, m)

LInv ==
  \/ status = "running" /\ Runs
  \/ status = "panicked" /\ lost \in Nat /\ lost > Reach

\* What the assumptions say of the constants.
LEMMA Constants ==
  /\ MaxRollback \in Nat /\ Reach \in Nat /\ Reach <= MaxRollback
  /\ MaxLag \in Nat /\ MaxHeight \in Nat /\ BlockPageSize \in Nat \ {0}
  /\ CursorLen \in Nat \ {0} /\ Start \in Nat /\ Start > MaxRollback
BY LocatorAssumption

\* A point offered for a fork in reach is in reach of the rollback buffer.
LEMMA OfferedServes ==
  ASSUME InReach, NEW d \in Nat, NEW m \in Nat, d <= m, NEW h \in 0..d, h + Reach >= m
  PROVE  /\ IntersectOptions(d) \subseteq Nat
         /\ \E c \in IntersectOptions(d) : c <= h /\ c + MaxRollback >= m
<1>1. MaxRollback \in Nat /\ Reach \in Nat /\ Reach <= MaxRollback
  BY Constants
<1>2. /\ Reach <= Walk[MaxPushes]
      /\ \A n \in 1..MaxPushes : Walk[n - 1] < Reach => Reach + Step(n) <= MaxRollback + 1
  BY DEF InReach, WithinReach
<1>3. /\ Walk \in [0..MaxPushes -> Nat] /\ MaxPushes = 29
      /\ \A n \in 1..MaxPushes : Step(n) \in Nat /\ Walk[n - 1] \in Nat
  BY WalkFacts DEF MaxPushes
<1>4. d - h \in Nat /\ d - h <= Reach /\ d - h <= Walk[MaxPushes]
  BY <1>1, <1>2, <1>3
<1>5. PICK c \in IntersectOptions(d) : c <= h /\ Offered(d, h, c)
  BY <1>4, OptionsOffer
<1>6. IntersectOptions(d) \subseteq Nat /\ c \in Nat
  BY <1>4, <1>5, OptionsOffer
<1>7. c + MaxRollback >= m
  <2>1. CASE h = d /\ c = d
    BY <1>1, <2>1
  <2>2. ASSUME NEW n \in 1..MaxPushes, Walk[n - 1] < d - h, c + Step(n) >= h + 1
        PROVE  c + MaxRollback >= m
    <3>1. Walk[n - 1] < Reach
      BY <1>1, <1>3, <1>4, <2>2
    <3>2. Reach + Step(n) <= MaxRollback + 1 /\ Step(n) \in Nat
      BY <1>2, <1>3, <3>1
    <3>. QED BY <1>1, <1>6, <2>2, <3>2
  <2>. QED BY <1>5, <2>1, <2>2 DEF Offered
<1>. QED BY <1>5, <1>6, <1>7

\* The cursor read from the database.
LEMMA OptionsServe ==
  ASSUME InReach, NEW d \in Nat, NEW m \in Nat, d <= m
  PROVE  IntersectOptions(d) \subseteq Nat /\ Serves(IntersectOptions(d), d, m)
<1>1. d \in 0..d /\ d - d = 0 /\ 0 <= Walk[MaxPushes]
  BY WalkFacts DEF MaxPushes
<1>2. IntersectOptions(d) \subseteq Nat
  BY <1>1, OptionsOffer
<1>3. ASSUME NEW h \in Nat, h <= d, h + Reach >= m
      PROVE  \E o \in IntersectOptions(d) : o <= h /\ o + MaxRollback >= m
  <2>1. h \in 0..d
    BY <1>3
  <2>. QED BY <1>3, <2>1, OfferedServes
<1>. QED BY <1>2, <1>3 DEF Serves

\* The cursor after a page of n headers above from, up to MaxLag above the
\* table's last height d.
LEMMA NextCursorServes ==
  ASSUME InReach, NEW from \in Nat, NEW n \in Nat \ {0}, NEW d \in Nat, NEW m \in Nat,
         from <= d + MaxLag, d <= m, from + n <= m
  PROVE  NextCursor(from, n, d) \subseteq Nat /\ Serves(NextCursor(from, n, d), from + n, m)
<1>. DEFINE first == from + n + 1 - Smaller(n, CursorLen)
            page == first..(from + n)
            rest == IF n < CursorLen THEN {o \in IntersectOptions(d) : o < first} ELSE {}
<1>0. /\ MaxRollback \in Nat /\ Reach \in Nat /\ Reach <= MaxRollback
      /\ MaxLag \in Nat /\ CursorLen \in Nat
      /\ Reach < CursorLen /\ Reach + MaxLag <= MaxRollback
  BY Constants DEF InReach, WithinReach
<1>1. NextCursor(from, n, d) = page \cup {0} \cup rest
  BY DEF NextCursor
<1>2. first \in Nat /\ first = IF n < CursorLen THEN from + 1 ELSE from + n + 1 - CursorLen
  BY <1>0 DEF Smaller
<1>3. IntersectOptions(d) \subseteq Nat /\ Serves(IntersectOptions(d), d, m)
  BY OptionsServe
<1>. HIDE DEF first
<1>4. page \cup {0} \cup rest \subseteq Nat
  BY <1>2, <1>3
<1>5. ASSUME NEW h \in Nat, h <= from + n, h + Reach >= m
      PROVE  \E o \in page \cup {0} \cup rest : o <= h /\ o + MaxRollback >= m
  <2>1. CASE h >= first
    <3>1. h \in page /\ h <= h /\ h + MaxRollback >= m
      BY <1>0, <1>2, <1>5, <2>1
    <3>. HIDE DEF page, rest
    <3>. QED BY <3>1
  <2>2. CASE ~(h >= first)
    <3>1. n < CursorLen
      BY <1>0, <1>2, <1>5, <2>2
    <3>2. h <= from /\ h < first
      BY <1>2, <2>2, <3>1
    <3>3. \A o \in IntersectOptions(d) : o <= h => o \in rest
      BY <1>2, <1>3, <3>1, <3>2
    <3>4. CASE h <= d
      <4>1. PICK o \in IntersectOptions(d) : o <= h /\ o + MaxRollback >= m
        BY <1>3, <1>5, <3>4 DEF Serves
      <4>2. o \in rest
        BY <3>3, <4>1
      <4>. HIDE DEF page, rest
      <4>. QED BY <4>1, <4>2
    <3>5. CASE h > d
      <4>1. d \in IntersectOptions(d) /\ d <= h
        BY <3>5 DEF IntersectOptions
      <4>2. d \in rest
        BY <3>3, <4>1
      <4>3. d + MaxRollback >= m
        BY <1>0, <1>5, <3>2
      <4>. HIDE DEF page, rest
      <4>. QED BY <4>1, <4>2, <4>3
    <3>. QED BY <3>4, <3>5
  <2>. QED BY <1>2, <2>1, <2>2
<1>6. Serves(page \cup {0} \cup rest, from + n, m)
  <2>. HIDE DEF page, rest
  <2>. QED BY <1>5 DEF Serves
<1>. QED BY <1>1, <1>4, <1>6

\* Both stages have started.
LEMMA LInvInit ==
  ASSUME InReach, LocatorInit
  PROVE  LInv
<1>1. /\ MaxRollback \in Nat /\ Start \in Nat /\ Start - MaxRollback \in Nat
      /\ (Start - MaxRollback) + MaxRollback = Start
  BY Constants
<1>2. Start <= Start
  BY <1>1
<1>3. IntersectOptions(Start) \subseteq Nat /\ Serves(IntersectOptions(Start), Start, Start)
  BY <1>1, <1>2, OptionsServe
<1>4. /\ tip = Start /\ dbTip = Start /\ cursor = IntersectOptions(Start)
      /\ floor = Start - MaxRollback /\ gc = Start - MaxRollback /\ status = "running"
  BY DEF LocatorInit
<1>5. IsLarger(Start, gc + MaxRollback, tip) /\ Serves(cursor, tip, Start)
  BY <1>1, <1>3, <1>4 DEF IsLarger
<1>6. 0 \in cursor
  BY <1>4 DEF IntersectOptions
<1>. QED BY <1>1, <1>3, <1>4, <1>5, <1>6 DEF LInv, Runs

\* The node answers from the newest point of the cursor up to the fork: at least
\* as high as any point o.
LEMMA IntersectNewest ==
  ASSUME NEW fork \in Nat, cursor \subseteq Nat, NEW o \in cursor, o <= fork
  PROVE  /\ Intersect(fork) \in Nat
         /\ Intersect(fork) <= fork /\ Intersect(fork) >= o
<1>. DEFINE Up == {h \in cursor : h <= fork}
<1>1. Up \subseteq 0..fork /\ o \in Up
  <2>1. \A h \in cursor : h \in Nat
    OBVIOUS
  <2>2. \A h \in Up : h \in Nat /\ h <= fork
    BY <2>1
  <2>3. o \in Up
    OBVIOUS
  <2>. HIDE DEF Up
  <2>4. \A h \in Up : h \in 0..fork
    BY <2>2
  <2>. QED BY <2>3, <2>4
<1>2. PICK h \in Up : \A q \in Up : q <= h
  <2>. HIDE DEF Up
  <2>. QED BY <1>1, GreatestNat
<1>3. h \in cursor /\ h <= fork /\ \A q \in cursor : q <= fork => q <= h
  BY <1>2
<1>4. /\ Intersect(fork) \in cursor /\ Intersect(fork) <= fork
      /\ \A q \in cursor : q <= fork => q <= Intersect(fork)
  BY <1>3, Zenon DEF Intersect
<1>5. o <= Intersect(fork)
  BY <1>4
<1>6. Intersect(fork) \in Nat
  BY <1>4
<1>. QED BY <1>4, <1>5, <1>6

\* A reorg that is rolled back to a point in the rollback buffer.
LEMMA ReorgInv ==
  ASSUME InReach, Runs, status = "running", NEW fork \in Nat, NEW n \in Nat \ {0}, Reorg(fork, n)
  PROVE  LInv'
<1>. DEFINE p == Intersect(fork)
            page == Smaller(tip + n - p, BlockPageSize)
            m == gc + MaxRollback
<1>0. /\ MaxRollback \in Nat /\ BlockPageSize \in Nat \ {0} /\ MaxLag \in Nat
      /\ tip \in Nat /\ dbTip \in Nat /\ floor \in Nat /\ gc \in Nat
      /\ cursor \subseteq Nat /\ 0 \in cursor /\ gc + MaxRollback >= dbTip /\ floor <= gc
  BY Constants DEF Runs
<1>1. /\ dbTip = tip /\ fork < tip
      /\ cursor' = NextCursor(p, page, dbTip)
      /\ floor' = floor /\ gc' = gc
      /\ tip' = p + page /\ dbTip' = p /\ status' = status
  BY DEF Reorg, FetchReorg
<1>2. m \in Nat /\ m >= tip
  BY <1>0, <1>1
<1>. HIDE DEF m
<1>3. p \in Nat /\ p <= fork
  <2>1. 0 <= fork
    OBVIOUS
  <2>. QED BY <1>0, <2>1, IntersectNewest
<1>. HIDE DEF p
<1>4. page \in Nat \ {0}
  BY <1>0, <1>1, <1>3 DEF Smaller
<1>. HIDE DEF page
<1>5. PICK k \in Nat : IsLarger(k, m, p + page)
  BY <1>2, <1>3, <1>4 DEF IsLarger
<1>6. NextCursor(p, page, dbTip) \subseteq Nat /\ Serves(NextCursor(p, page, dbTip), p + page, k)
  <2>1. p <= dbTip + MaxLag /\ dbTip <= k /\ p + page <= k
    BY <1>0, <1>1, <1>2, <1>3, <1>5 DEF IsLarger
  <2>. QED BY <1>0, <1>3, <1>4, <2>1, NextCursorServes
<1>7. tip' \in Nat /\ dbTip' \in Nat /\ dbTip' <= tip' /\ gc' + MaxRollback >= dbTip'
  BY <1>0, <1>1, <1>3, <1>4
<1>8. /\ cursor' \subseteq Nat /\ IsLarger(k, gc' + MaxRollback, tip') /\ Serves(cursor', tip', k)
      /\ 0 \in cursor'
  BY <1>1, <1>5, <1>6 DEF m, NextCursor
<1>. QED BY <1>0, <1>1, <1>7, <1>8 DEF LInv, Runs

\* A reorg that ends the index stage is deeper than Reach: up to there the cursor
\* has a point that is in the rollback buffer.
LEMMA PanicInv ==
  ASSUME InReach, Runs, NEW fork \in Nat, NEW n \in Nat, ReorgPanics(fork, n)
  PROVE  LInv'
<1>. DEFINE m == gc + MaxRollback
<1>0. /\ MaxRollback \in Nat /\ Reach \in Nat /\ tip \in Nat /\ dbTip \in Nat /\ floor \in Nat
      /\ gc \in Nat /\ cursor \subseteq Nat /\ gc + MaxRollback >= dbTip /\ floor <= gc
  BY Constants DEF Runs
<1>a. Intersect(fork) < floor /\ status' = "panicked" /\ lost' = Depth(fork)
  BY DEF ReorgPanics
<1>b. FetchReorg(fork, n)
  BY DEF ReorgPanics
<1>c. dbTip = tip /\ fork < tip
  BY <1>b DEF FetchReorg
<1>1. /\ dbTip = tip /\ fork < tip /\ Intersect(fork) < floor
      /\ status' = "panicked" /\ lost' = m - fork
  BY <1>a, <1>c DEF Depth
<1>2. m \in Nat /\ m >= tip /\ Serves(cursor, tip, m)
  BY <1>0, <1>1 DEF Runs, IsLarger
<1>3. lost' \in Nat
  BY <1>0, <1>1, <1>2
<1>4. ASSUME fork + Reach >= m PROVE FALSE
  <2>1. PICK o \in cursor : o <= fork /\ o + MaxRollback >= m
    <3>. HIDE DEF m
    <3>. QED BY <1>0, <1>1, <1>2, <1>4 DEF Serves
  <2>2. Intersect(fork) \in Nat /\ Intersect(fork) >= o
    BY <1>0, <2>1, IntersectNewest
  <2>3. o \in Nat /\ o >= gc
    BY <1>0, <2>1
  <2>. QED BY <1>0, <1>1, <2>2, <2>3
<1>5. lost' > Reach
  BY <1>0, <1>1, <1>2, <1>4
<1>. QED BY <1>1, <1>3, <1>5 DEF LInv

\* Every step keeps the invariant.
LEMMA LInvNext ==
  ASSUME InReach, LInv, [LocatorNext]_locatorVars
  PROVE  LInv'
<1>. SUFFICES ASSUME status = "running", Runs PROVE LInv'
  <2>1. CASE status # "running"
    <3>1. UNCHANGED locatorVars
      BY <2>1 DEF LocatorNext, Fetch, Index, RestartStages, Reorg, ReorgPanics, FetchReorg
    <3>. QED BY <3>1 DEF locatorVars, LInv, Runs
  <2>. QED BY <2>1 DEF LInv
<1>0. /\ MaxRollback \in Nat /\ BlockPageSize \in Nat \ {0} /\ MaxLag \in Nat /\ MaxHeight \in Nat
      /\ tip \in Nat /\ dbTip \in Nat /\ floor \in Nat /\ gc \in Nat /\ cursor \subseteq Nat
      /\ dbTip <= tip /\ floor <= gc /\ gc + MaxRollback >= dbTip /\ 0 \in cursor
  BY Constants DEF Runs
<1>1. PICK m \in Nat : IsLarger(m, gc + MaxRollback, tip) /\ Serves(cursor, tip, m)
  BY DEF Runs
<1>2. CASE UNCHANGED locatorVars
  BY <1>2 DEF locatorVars, LInv, Runs
<1>3. ASSUME NEW n \in 1..BlockPageSize, Fetch(n) PROVE LInv'
  <2>1. /\ tip' = tip + n /\ cursor' = NextCursor(tip, n, dbTip)
        /\ dbTip' = dbTip /\ floor' = floor /\ gc' = gc /\ status' = status
        /\ n \in Nat \ {0} /\ tip <= dbTip + MaxLag
    BY <1>0, <1>3 DEF Fetch
  <2>2. PICK k \in Nat : IsLarger(k, gc + MaxRollback, tip + n)
    BY <1>0, <2>1 DEF IsLarger
  <2>3. dbTip <= k /\ tip + n <= k
    BY <1>0, <2>2 DEF IsLarger
  <2>4. NextCursor(tip, n, dbTip) \subseteq Nat /\ Serves(NextCursor(tip, n, dbTip), tip + n, k)
    BY <1>0, <2>1, <2>3, NextCursorServes
  <2>5. cursor' \subseteq Nat /\ IsLarger(k, gc' + MaxRollback, tip') /\ Serves(cursor', tip', k)
    BY <2>1, <2>2, <2>4
  <2>6. 0 \in cursor'
    BY <2>1 DEF NextCursor
  <2>. QED BY <1>0, <2>1, <2>5, <2>6 DEF LInv, Runs
<1>4. CASE Index
  <2>1. /\ dbTip < tip /\ dbTip' = dbTip + 1
        /\ floor' = Larger(floor, SaturatingSub(dbTip + 1, MaxRollback + 1))
        /\ gc' = Larger(gc, SaturatingSub(dbTip + 1, MaxRollback))
        /\ tip' = tip /\ cursor' = cursor /\ status' = status
    BY <1>4 DEF Index
  <2>2. /\ dbTip' \in Nat /\ dbTip' <= tip /\ floor' \in Nat /\ gc' \in Nat
        /\ floor' <= gc' /\ gc' + MaxRollback >= dbTip'
    BY <1>0, <2>1 DEF Larger, SaturatingSub
  <2>3. IsLarger(m, gc' + MaxRollback, tip')
    BY <1>0, <1>1, <2>1 DEF IsLarger, Larger, SaturatingSub
  <2>4. Serves(cursor', tip', m)
    BY <1>1, <2>1
  <2>. QED BY <1>0, <2>1, <2>2, <2>3, <2>4 DEF LInv, Runs
<1>5. CASE RestartStages
  <2>1. /\ tip' = dbTip /\ cursor' = IntersectOptions(dbTip) /\ floor' = Larger(floor, gc)
        /\ dbTip' = dbTip /\ gc' = gc /\ status' = status
    BY <1>5 DEF RestartStages
  <2>. DEFINE k == gc + MaxRollback
  <2>2. k \in Nat /\ dbTip <= k
    BY <1>0
  <2>3. IsLarger(k, gc' + MaxRollback, tip')
    BY <1>0, <2>1 DEF IsLarger
  <2>. HIDE DEF k
  <2>4. IntersectOptions(dbTip) \subseteq Nat /\ Serves(IntersectOptions(dbTip), dbTip, k)
    BY <1>0, <2>2, OptionsServe
  <2>5. cursor' \subseteq Nat /\ Serves(cursor', tip', k)
    BY <2>1, <2>4
  <2>6. floor' \in Nat /\ floor' <= gc'
    BY <1>0, <2>1 DEF Larger
  <2>7. 0 \in cursor'
    BY <2>1 DEF IntersectOptions
  <2>. QED BY <1>0, <2>1, <2>2, <2>3, <2>5, <2>6, <2>7 DEF LInv, Runs
<1>6. ASSUME NEW fork \in 0..MaxHeight, NEW n \in 1..BlockPageSize, Reorg(fork, n) PROVE LInv'
  <2>1. fork \in Nat /\ n \in Nat \ {0}
    BY <1>0
  <2>. QED BY <1>6, <2>1, ReorgInv
<1>7. ASSUME NEW fork \in 0..MaxHeight, NEW n \in 1..BlockPageSize, ReorgPanics(fork, n) PROVE LInv'
  <2>1. fork \in Nat /\ n \in Nat
    BY <1>0
  <2>. QED BY <1>7, <2>1, PanicInv
<1>. QED BY <1>2, <1>3, <1>4, <1>5, <1>6, <1>7 DEF LocatorNext

\* For every max_rollback, only a reorg beyond its reach ends the index stage,
\* whatever reorgs, pages and restarts came before: up to there the
\* sparse points of the cursor lead to a rollback point that is still in the
\* buffer (fetch_chain_actions, intersect_options, rollback_to_point).  With the code's 50 points and no lag
\* that is 13 blocks of the default 16, and 23 of the documented 32.
THEOREM ReorgsAreHandled ==
  ASSUME WithinReach(Reach, MaxRollback, CursorLen, MaxLag)
  PROVE  LocatorSpec => []ReorgHandled
<1>. InReach
  BY DEF InReach
<1>1. LocatorInit => LInv
  BY LInvInit
<1>2. LInv /\ [LocatorNext]_locatorVars => LInv'
  BY LInvNext
<1>3. LInv => ReorgHandled
  BY DEF LInv, ReorgHandled
<1>. QED BY <1>1, <1>2, <1>3, PTL DEF LocatorSpec

(***************************************************************************)
(* Sequences of messages, and those of one type.                           *)
(***************************************************************************)

\* f is the computation of OfType(s, t).
Selects(f, s, t, S) ==
  /\ f \in [0..Len(s) -> Seq(S)]
  /\ f[0] = <<>>
  /\ \A n \in 1..Len(s) : f[n] = IF s[n].type = t THEN Append(f[n - 1], s[n]) ELSE f[n - 1]

\* OfType is the end of such a computation.
LEMMA SelectionExists ==
  ASSUME NEW S, NEW s \in Seq(S), NEW t
  PROVE  \E f : Selects(f, s, t, S) /\ OfType(s, t) = f[Len(s)]
<1>. DEFINE N == Len(s)
            Q == Seq(S)
            Body(e) == [n \in 0..N |-> IF n = 0 THEN <<>>
                          ELSE IF s[n].type = t THEN Append(e[n - 1], s[n]) ELSE e[n - 1]]
            g == [n \in 1..N |-> [q \in Q |-> IF s[n].type = t THEN Append(q, s[n]) ELSE q]]
            kept == CHOOSE e : e = Body(e)
<1>1. OfType(s, t) = kept[N]
  BY Zenon DEF OfType
<1>2. N \in Nat /\ <<>> \in Q /\ \A n \in 1..N : s[n] \in S
  OBVIOUS
<1>3. \A q \in Q, x \in S : Append(q, x) \in Q
  OBVIOUS
<1>. HIDE DEF N, Q
<1>4. g \in [1..N -> [Q -> Q]]
  BY <1>2, <1>3
<1>5. PICK f \in [0..N -> Q] : Computed(f, N, <<>>, g)
  <2>. HIDE DEF g
  <2>. QED BY <1>2, <1>4, RecursionExists
<1>6. ASSUME NEW n \in 0..N
      PROVE  f[n] = IF n = 0 THEN <<>>
                    ELSE IF s[n].type = t THEN Append(f[n - 1], s[n]) ELSE f[n - 1]
  <2>1. f[n] = IF n = 0 THEN <<>> ELSE g[n][f[n - 1]]
    <3>. HIDE DEF g
    <3>. QED BY <1>5 DEF Computed
  <2>2. n # 0 => n \in 1..N /\ n - 1 \in 0..N /\ f[n - 1] \in Q
    BY <1>2
  <2>. QED BY <2>1, <2>2
<1>7. f = Body(f)
  <2>1. f = [n \in 0..N |-> f[n]]
    OBVIOUS
  <2>. QED BY <1>6, <2>1
<1>8. kept = Body(kept)
  <2>. HIDE DEF Body
  <2>. QED BY <1>7, Zenon
<1>. HIDE DEF kept
<1>9. kept \in [0..N -> Q]
  <2>. DEFINE P == {n \in 0..N : kept[n] = f[n]}
  <2>1. ASSUME NEW n \in 0..N
        PROVE  kept[n] = IF n = 0 THEN <<>>
                         ELSE IF s[n].type = t THEN Append(kept[n - 1], s[n]) ELSE kept[n - 1]
    BY <1>8
  <2>2. 0 \in P
    BY <1>2, <1>6, <2>1
  <2>3. ASSUME NEW n \in 1..N, n - 1 \in P PROVE n \in P
    <3>1. n \in 0..N /\ n # 0
      BY <1>2
    <3>. QED BY <1>6, <2>1, <2>3, <3>1
  <2>. HIDE DEF P
  <2>4. \A n \in 0..N : n \in P
    BY <1>2, <2>2, <2>3, UpTo
  <2>5. \A n \in 0..N : kept[n] = f[n]
    BY <2>4 DEF P
  <2>6. kept = [n \in 0..N |-> kept[n]]
    BY <1>8
  <2>. QED BY <2>5, <2>6
<1>10. kept[0] = <<>> /\ \A n \in 1..N : kept[n] = IF s[n].type = t THEN Append(kept[n - 1], s[n]) ELSE kept[n - 1]
  <2>1. ASSUME NEW n \in 0..N
        PROVE  kept[n] = IF n = 0 THEN <<>>
                         ELSE IF s[n].type = t THEN Append(kept[n - 1], s[n]) ELSE kept[n - 1]
    BY <1>8
  <2>2. 0 \in 0..N /\ \A n \in 1..N : n \in 0..N /\ n # 0
    BY <1>2
  <2>. QED BY <2>1, <2>2
<1>. QED BY <1>1, <1>9, <1>10 DEF Selects, N, Q

\* What is selected is of the type, and from the sequence.
LEMMA SelectedAre ==
  ASSUME NEW S, NEW s \in Seq(S), NEW t
  PROVE  /\ OfType(s, t) \in Seq(S)
         /\ \A i \in 1..Len(OfType(s, t)) : OfType(s, t)[i].type = t
         /\ \A i \in 1..Len(OfType(s, t)) : \E j \in 1..Len(s) : OfType(s, t)[i] = s[j]
<1>1. PICK f : Selects(f, s, t, S) /\ OfType(s, t) = f[Len(s)]
  BY SelectionExists
<1>. DEFINE N == Len(s)
            Good(q) == \A i \in 1..Len(q) : q[i].type = t /\ \E j \in 1..N : q[i] = s[j]
            P == {n \in 0..N : Good(f[n])}
<1>2. N \in Nat /\ \A n \in 0..N : f[n] \in Seq(S)
  BY SMTT(30), <1>1 DEF Selects
<1>3. 0 \in P
  BY <1>1, <1>2 DEF Selects
<1>4. ASSUME NEW n \in 1..N, n - 1 \in P PROVE n \in P
  <2>. DEFINE q == f[n - 1]
  <2>1. q \in Seq(S) /\ s[n] \in S /\ n \in 0..N /\ Good(q)
    BY <1>2, <1>4
  <2>2. f[n] = IF s[n].type = t THEN Append(q, s[n]) ELSE q
    BY <1>1 DEF Selects
  <2>. HIDE DEF q
  <2>3. s[n].type = t => Good(Append(q, s[n]))
    BY <2>1
  <2>. HIDE DEF Good
  <2>4. Good(f[n])
    BY <2>1, <2>2, <2>3
  <2>. QED BY <2>1, <2>4
<1>. HIDE DEF P
<1>5. \A n \in 0..N : n \in P
  BY <1>2, <1>3, <1>4, UpTo
<1>6. N \in P
  BY <1>2, <1>5
<1>7. Good(f[N])
  BY <1>6 DEF P
<1>. DEFINE o == OfType(s, t)
<1>8. o = f[N] /\ o \in Seq(S)
  BY <1>1, <1>2
<1>. HIDE DEF o
<1>9. Good(o)
  <2>. HIDE DEF Good
  <2>. QED BY <1>7, <1>8
<1>. HIDE DEF N
<1>10. o \in Seq(S) /\ \A i \in 1..Len(o) : o[i].type = t /\ \E j \in 1..N : o[i] = s[j]
  BY <1>8, <1>9
<1>. QED BY <1>10 DEF o, N

\* A message at the end of the second part is at the end of the whole.
AppendsLast(a, b, m) == Append(a \o b, m) = a \o Append(b, m)

\* Appending to the second of two sequences.
LEMMA AppendConcat ==
  ASSUME NEW S, NEW a \in Seq(S), NEW b \in Seq(S), NEW m \in S
  PROVE  AppendsLast(a, b, m)
BY DEF AppendsLast

Distributes(a, b, t) == OfType(a \o b, t) = OfType(a, t) \o OfType(b, t)

\* The selection from a concatenation.
LEMMA SelectConcat ==
  ASSUME NEW S, NEW a \in Seq(S), NEW b \in Seq(S), NEW t
  PROVE  Distributes(a, b, t)
<1>. DEFINE c == a \o b
            A == Len(a)
            B == Len(b)
<1>1. /\ c \in Seq(S) /\ Len(c) = A + B /\ A \in Nat /\ B \in Nat
      /\ \A i \in 1..A : c[i] = a[i]
      /\ \A i \in 1..B : c[A + i] = b[i]
  OBVIOUS
<1>2. PICK f : Selects(f, c, t, S) /\ OfType(c, t) = f[Len(c)]
  BY <1>1, SelectionExists
<1>3. PICK g : Selects(g, a, t, S) /\ OfType(a, t) = g[A]
  BY SelectionExists
<1>4. PICK h : Selects(h, b, t, S) /\ OfType(b, t) = h[B]
  BY SelectionExists
<1>. HIDE DEF c, A, B
<1>. DEFINE P == {n \in 0..A : f[n] = g[n]}
            R == {n \in 0..B : f[A + n] = g[A] \o h[n]}
<1>0. ASSUME NEW k \in 1..Len(c)
      PROVE  f[k] = IF c[k].type = t THEN Append(f[k - 1], c[k]) ELSE f[k - 1]
  BY <1>2 DEF Selects
<1>5. \A n \in 0..A : n \in P
  <2>1. 0 \in P
    BY <1>1, <1>2, <1>3 DEF Selects, A
  <2>2. ASSUME NEW n \in 1..A, n - 1 \in P PROVE n \in P
    <3>1. n \in 1..Len(c) /\ n \in 0..A /\ c[n] = a[n] /\ f[n - 1] = g[n - 1]
      BY <1>1, <2>2
    <3>2. f[n] = IF c[n].type = t THEN Append(f[n - 1], c[n]) ELSE f[n - 1]
      BY <1>2, <3>1 DEF Selects
    <3>3. g[n] = IF a[n].type = t THEN Append(g[n - 1], a[n]) ELSE g[n - 1]
      BY <1>3 DEF Selects, A
    <3>. QED BY <3>1, <3>2, <3>3
  <2>. HIDE DEF P
  <2>. QED BY <1>1, <2>1, <2>2, UpTo
<1>6. f[A] = g[A] /\ g[A] \in Seq(S)
  BY <1>1, <1>3, <1>5 DEF Selects, A
<1>7. \A n \in 0..B : n \in R
  <2>1. 0 \in R
    <3>1. h[0] = <<>>
      BY <1>4 DEF Selects
    <3>2. g[A] \o <<>> = g[A]
      BY <1>6
    <3>3. A + 0 = A /\ 0 \in 0..B
      BY <1>1
    <3>. QED BY <1>6, <3>1, <3>2, <3>3
  <2>2. ASSUME NEW n \in 1..B, n - 1 \in R PROVE n \in R
    <3>. DEFINE k == A + n
    <3>1. k \in 1..Len(c) /\ n \in 0..B /\ c[k] = b[n] /\ k - 1 = A + (n - 1) /\ b[n] \in S
      BY <1>1 DEF B
    <3>5. f[k - 1] = g[A] \o h[n - 1]
      BY <2>2, <3>1
    <3>. HIDE DEF k
    <3>2. f[k] = IF b[n].type = t THEN Append(f[k - 1], b[n]) ELSE f[k - 1]
      BY <1>0, <3>1
    <3>3. h[n] = IF b[n].type = t THEN Append(h[n - 1], b[n]) ELSE h[n - 1]
      BY <1>4 DEF Selects, B
    <3>4. h[n - 1] \in Seq(S)
      <4>1. n - 1 \in 0..B
        BY <1>1
      <4>2. h \in [0..B -> Seq(S)]
        BY <1>4 DEF Selects, B
      <4>. QED BY <4>1, <4>2
    <3>6. Append(g[A] \o h[n - 1], b[n]) = g[A] \o Append(h[n - 1], b[n])
      <4>. DEFINE q == g[A]
                  r == h[n - 1]
                  x == b[n]
      <4>1. q \in Seq(S) /\ r \in Seq(S) /\ x \in S
        BY <1>6, <3>1, <3>4
      <4>. HIDE DEF q, r, x
      <4>2. AppendsLast(q, r, x)
        BY <4>1, AppendConcat
      <4>. QED BY <4>2 DEF q, r, x, AppendsLast
    <3>7. f[k] = g[A] \o h[n]
      <4>1. CASE b[n].type = t
        BY <4>1, <3>2, <3>3, <3>5, <3>6, Zenon
      <4>2. CASE b[n].type # t
        BY <4>2, <3>2, <3>3, <3>5, Zenon
      <4>. QED BY <4>1, <4>2
    <3>. QED BY <3>1, <3>7 DEF k
  <2>. HIDE DEF R
  <2>. QED BY <1>1, <2>1, <2>2, UpTo
<1>8. f[A + B] = g[A] \o h[B]
  <2>1. B \in R
    <3>. HIDE DEF R
    <3>. QED BY <1>1, <1>7
  <2>. QED BY <2>1
<1>9. OfType(a \o b, t) = OfType(a, t) \o OfType(b, t)
  BY <1>1, <1>2, <1>3, <1>4, <1>8 DEF c
<1>. QED BY <1>9 DEF Distributes

\* The selection from no message and from one.
LEMMA SelectOne ==
  ASSUME NEW S, NEW m \in S, NEW t
  PROVE  /\ OfType(<<>>, t) = <<>>
         /\ OfType(<<m>>, t) = IF m.type = t THEN <<m>> ELSE <<>>
<1>1. <<>> \in Seq(S) /\ <<m>> \in Seq(S) /\ Len(<<m>>) = 1 /\ <<m>>[1] = m
  OBVIOUS
<1>2. PICK f : Selects(f, <<m>>, t, S) /\ OfType(<<m>>, t) = f[Len(<<m>>)]
  BY <1>1, SelectionExists
<1>3. PICK g : Selects(g, <<>>, t, S) /\ OfType(<<>>, t) = g[Len(<<>>)]
  BY <1>1, SelectionExists
<1>4. OfType(<<>>, t) = <<>>
  BY <1>3 DEF Selects
<1>5. f[1] = IF m.type = t THEN Append(<<>>, m) ELSE <<>>
  BY <1>1, <1>2 DEF Selects
<1>. QED BY <1>1, <1>2, <1>4, <1>5

(***************************************************************************)
(* The types of messages, tasks and channels.                              *)
(***************************************************************************)

Request == [type : {"getheaders"}, from : Nat] \cup [type : {"getdata"}, list : Seq(Nat) \ {<<>>}]
Relay == [type : {"headers"}, from : Nat, to : Nat] \cup [type : {"block"}, height : Nat]
FromNode == [type : {"version", "verack", "inv", "ping", "unused"}] \cup Relay
ToNode == [type : {"version", "verack", "pong"}] \cup Request
Message == FromNode \cup ToNode

ClientOK ==
  /\ client \in [pc : {"boot", "handshake", "init", "syncing", "ask", "headers", "fetch", "blocks",
                       "idle"},
                 known : Nat, want : Seq(Nat), got : Seq(Nat), reached : BOOLEAN, told : Nat]
  /\ client.pc \in {"fetch", "blocks"} => client.want # <<>>

HandlerOK ==
  /\ handler \in [pc : {"ended", "start", "tick", "send"}, msg : {Nothing} \cup Relay \cup ToNode]
  /\ handler.pc = "send" <=> handler.msg # Nothing

TasksOK ==
  /\ HandlerOK
  /\ ingress \in [pc : {"run", "ended"}, msg : {Nothing} \cup FromNode]
  /\ ingress.pc = "ended" => ingress.msg = Nothing
  /\ egress \in [pc : {"run", "ended"}, msg : {Nothing} \cup ToNode]
  /\ egress.pc = "ended" => egress.msg = Nothing

\* A channel of one.
Single(c, S) == c = <<>> \/ \E m \in S : c = <<m>>

ChannelsOK ==
  /\ Single(requests, Request) /\ Single(received, FromNode) /\ Single(toSend, ToNode)
  /\ headers \in Seq([type : {"headers"}, from : Nat, to : Nat]) /\ blocks \in Seq(Nat)
  /\ toNode \in Seq(ToNode) /\ fromNode \in Seq(FromNode)

NodeOK == node \in [tip : Nat, ready : BOOLEAN]

\* What an ended task and a lost connection leave.
LinksOK ==
  /\ ~connected => toNode = <<>>
  /\ handler.pc = "ended" =>
       /\ ingress.pc = "ended" /\ egress.pc = "ended"
       /\ requests = <<>> /\ received = <<>> /\ toSend = <<>>
  /\ egress.pc = "ended" => ~connected \/ handler.pc = "ended"
  /\ requests # <<>> => client.pc \notin {"boot", "handshake"}

TypesOK == ClientOK /\ TasksOK /\ ChannelsOK /\ LinksOK /\ NodeOK

\* Messages are not Nothing, and are told apart by their type.
LEMMA MessageFacts ==
  /\ Nothing \notin Message
  /\ \A m \in Relay : m.type \in {"headers", "block"} /\ m \in Message
  /\ \A m \in ToNode : m.type \notin {"headers", "block", "inv"} /\ m \in Message
  /\ \A m \in FromNode : m.type \notin {"getheaders", "getdata"} /\ m \in Message
  /\ \A m \in Request : m \in ToNode
BY DEF Nothing, Message, Relay, ToNode, FromNode, Request

\* A new session, and the end of one.
LEMMA SessionTypes ==
  ASSUME TypesOK
  PROVE  (Connect => TypesOK') /\ (Restart => TypesOK')
<1>1. ASSUME Connect PROVE TypesOK'
  <2>1. ClientOK'
    BY <1>1 DEF TypesOK, ClientOK, Connect
  <2>2. TasksOK'
    BY <1>1 DEF Connect, Task, TasksOK, HandlerOK
  <2>3. ChannelsOK'
    BY <1>1 DEF TypesOK, ChannelsOK, Connect, Fresh, Single
  <2>4. LinksOK'
    BY <1>1 DEF Connect, Fresh, LinksOK, Task
  <2>5. NodeOK'
    BY <1>1 DEF TypesOK, NodeOK, Connect, Fresh
  <2>. QED BY <2>1, <2>2, <2>3, <2>4, <2>5 DEF TypesOK
<1>2. ASSUME Restart PROVE TypesOK'
  <2>1. ClientOK'
    BY <1>2 DEF TypesOK, ClientOK, Restart, Worker
  <2>2. TasksOK'
    BY <1>2 DEF Restart, Task, TasksOK, HandlerOK
  <2>3. ChannelsOK'
    BY <1>2 DEF TypesOK, ChannelsOK, Restart, Fresh, Single
  <2>4. LinksOK'
    BY <1>2 DEF Restart, Fresh, LinksOK, Task
  <2>5. NodeOK'
    BY <1>2 DEF TypesOK, NodeOK, Restart, Fresh
  <2>. QED BY <2>1, <2>2, <2>3, <2>4, <2>5 DEF TypesOK
<1>. QED BY <1>1, <1>2

\* The steps of the worker within a session.
WorkerMoves ==
  \/ Connected \/ TakeSyncing \/ TakeHeaders \/ TakeBlock \/ CheckBlocks \/ Wake
  \/ AskSyncing \/ AskHeaders \/ AskBlocks

\* What they leave alone.
LEMMA WorkerLeaves ==
  ASSUME TypesOK, WorkerMoves, ~Restart
  PROVE  /\ handler' = handler /\ ingress' = ingress /\ egress' = egress
         /\ received' = received /\ toSend' = toSend /\ toNode' = toNode /\ fromNode' = fromNode
         /\ connected' = connected /\ node' = node
BY DEF WorkerMoves, Connected, TakeSyncing, TakeHeaders, TakeBlock, CheckBlocks, Wake,
       AskSyncing, AskHeaders, AskBlocks, Ask, Others, tasks, wires

\* A page of headers is a sequence of heights.
LEMMA PageTyped ==
  ASSUME NEW h \in Nat, NEW t \in Nat
  PROVE  Page(h, t) \in Seq(Nat)
<1>1. PageSize \in Nat
  BY SessionAssumption
<1>. DEFINE n == IF t - h < PageSize THEN t - h ELSE PageSize
<1>2. n \in Int /\ \A i \in 1..n : h + i \in Nat
  BY <1>1
<1>3. CASE n >= 0
  BY <1>2, <1>3 DEF Page
<1>4. CASE n < 0
  <2>1. 1..n = 1..0
    BY <1>2, <1>4
  <2>2. Page(h, t) = [i \in 1..0 |-> h + i]
    BY <2>1, Zenon DEF Page
  <2>. QED BY <2>2
<1>. QED BY <1>2, <1>3, <1>4

\* A step of the worker keeps the types.
LEMMA WorkerTypes ==
  ASSUME TypesOK, WorkerMoves, ~Restart
  PROVE  TypesOK'
<1>. USE DEF TypesOK
<1>1. TasksOK' /\ NodeOK'
  BY WorkerLeaves DEF TasksOK, HandlerOK, NodeOK
<1>2. CASE Connected
  <2>1. ClientOK'
    BY <1>2 DEF ClientOK, Connected
  <2>2. ChannelsOK' /\ LinksOK'
    BY <1>2, WorkerLeaves DEF Connected, ChannelsOK, LinksOK, results, Single
  <2>. QED BY <1>1, <2>1, <2>2
<1>3. CASE TakeSyncing
  <2>1. ClientOK' /\ client'.pc \in {"init", "ask"}
    BY <1>3 DEF ClientOK, TakeSyncing
  <2>a. headers # <<>> /\ headers' = Tail(headers) /\ UNCHANGED <<requests, blocks>>
    BY <1>3 DEF TakeSyncing
  <2>b. headers' \in Seq([type : {"headers"}, from : Nat, to : Nat])
    BY <2>a, HeadTailProperties DEF ChannelsOK
  <2>2. ChannelsOK' /\ LinksOK'
    BY <2>1, <2>a, <2>b, WorkerLeaves DEF ChannelsOK, LinksOK, Single
  <2>. QED BY <1>1, <2>1, <2>2
<1>4. CASE TakeHeaders
  <2>1. /\ headers # <<>> /\ Head(headers).from \in Nat /\ Head(headers).to \in Nat
        /\ Tail(headers) \in Seq([type : {"headers"}, from : Nat, to : Nat])
    <3>1. headers # <<>>
      BY <1>4 DEF TakeHeaders
    <3>2. /\ Head(headers) \in [type : {"headers"}, from : Nat, to : Nat]
          /\ Tail(headers) \in Seq([type : {"headers"}, from : Nat, to : Nat])
      BY <3>1, HeadTailProperties DEF ChannelsOK
    <3>. QED BY <3>1, <3>2
  <2>. DEFINE page == Page(Head(headers).from, Head(headers).to)
  <2>2. page \in Seq(Nat)
    BY <2>1, PageTyped
  <2>3. client' = [client EXCEPT !.pc = IF page = <<>> THEN "idle" ELSE "fetch",
                                 !.want = page, !.reached = @ \/ page = <<>>, !.told = Head(headers).to]
        /\ headers' = Tail(headers) /\ UNCHANGED <<requests, blocks, permits>>
    BY <1>4 DEF TakeHeaders
  <2>. HIDE DEF page
  <2>4. ClientOK'
    BY <2>1, <2>2, <2>3 DEF ClientOK
  <2>5. ChannelsOK' /\ LinksOK'
    BY SMTT(30), <1>4, <2>1, <2>3, WorkerLeaves DEF TakeHeaders, ChannelsOK, LinksOK, permits, Single, ClientOK
  <2>. QED BY <1>1, <2>4, <2>5
<1>5. CASE TakeBlock
  <2>1. blocks # <<>> /\ Head(blocks) \in Nat /\ Tail(blocks) \in Seq(Nat)
    BY <1>5 DEF TakeBlock, ChannelsOK
  <2>a. client' = [client EXCEPT !.got = Append(@, Head(blocks))]
    BY <1>5 DEF TakeBlock
  <2>b. Append(client.got, Head(blocks)) \in Seq(Nat)
    BY <2>1 DEF ClientOK
  <2>2. ClientOK'
    BY <2>a, <2>b DEF ClientOK
  <2>3. ChannelsOK' /\ LinksOK'
    <3>1. blocks' = Tail(blocks) /\ UNCHANGED <<requests, headers>>
      BY <1>5 DEF TakeBlock
    <3>2. client'.pc = client.pc
      BY <2>a DEF ClientOK
    <3>. QED BY <2>1, <3>1, <3>2, WorkerLeaves DEF ChannelsOK, LinksOK, Single
  <2>. QED BY <1>1, <2>2, <2>3
<1>6. CASE CheckBlocks
  <2>1. client.want \in Seq(Nat) /\ client.want # <<>>
    BY <1>6 DEF CheckBlocks, ClientOK
  <2>2. client.want[Len(client.want)] \in Nat
    BY <2>1
  <2>a. client' = [client EXCEPT !.pc = IF client.reached THEN "idle" ELSE "ask",
                                 !.known = client.want[Len(client.want)],
                                 !.want = <<>>, !.got = <<>>]
    BY <1>6 DEF CheckBlocks
  <2>b. (IF client.reached THEN "idle" ELSE "ask") \in {"idle", "ask"} /\ <<>> \in Seq(Nat)
    OBVIOUS
  <2>3. ClientOK' /\ client'.pc \in {"idle", "ask"}
    BY <2>2, <2>a, <2>b DEF ClientOK
  <2>4. ChannelsOK' /\ LinksOK'
    <3>1. UNCHANGED <<requests, headers, blocks>>
      BY <1>6 DEF CheckBlocks, results
    <3>. QED BY <2>3, <3>1, WorkerLeaves DEF ChannelsOK, LinksOK, Single
  <2>. QED BY <1>1, <2>3, <2>4
<1>7. CASE Wake
  <2>1. ClientOK'
    BY <1>7 DEF ClientOK, Wake
  <2>2. ChannelsOK' /\ LinksOK'
    BY <1>7, WorkerLeaves DEF Wake, ChannelsOK, LinksOK, results, Single, ClientOK
  <2>. QED BY <1>1, <2>1, <2>2
<1>8. CASE AskSyncing \/ AskHeaders \/ AskBlocks
  <2>1. PICK r \in Request, to \in {"syncing", "headers", "blocks"} :
          /\ client.pc \in {"init", "ask", "fetch"} /\ (to = "blocks" => client.pc = "fetch")
          /\ requests' = <<r>> /\ client' = [client EXCEPT !.pc = to]
          /\ ~Ended /\ UNCHANGED <<results, permits>>
    <3>1. GetHeaders(0) \in Request /\ GetHeaders(client.known) \in Request
      BY DEF GetHeaders, Request, ClientOK
    <3>2. client.pc = "fetch" => GetData(client.want) \in Request
      BY DEF GetData, Request, ClientOK
    <3>. QED BY <1>8, <3>1, <3>2 DEF AskSyncing, AskHeaders, AskBlocks, Ask
  <2>2. ClientOK'
    BY <2>1 DEF ClientOK
  <2>3. ChannelsOK' /\ LinksOK'
    BY SMTT(30), <2>1, WorkerLeaves DEF ChannelsOK, LinksOK, results, permits, Single, ClientOK, Ended
  <2>. QED BY <1>1, <2>2, <2>3
<1>. QED BY <1>2, <1>3, <1>4, <1>5, <1>6, <1>7, <1>8 DEF WorkerMoves

\* The steps of the handler.
LEMMA HandlerTypes ==
  ASSUME TypesOK, HandlerStep
  PROVE  TypesOK'
<1>. USE DEF TypesOK
<1>1. UNCHANGED <<client, toNode, fromNode, connected, node>>
  BY DEF HandlerStep, HandlerStart, OnRequest, OnMessage, OnClosed, SendOn, HandlerLeaves, wires
<1>2. ClientOK' /\ NodeOK'
  BY <1>1 DEF ClientOK, NodeOK
<1>3. ASSUME HandlerEnds PROVE TasksOK' /\ ChannelsOK' /\ LinksOK'
  <2>1. TasksOK'
    BY <1>3 DEF HandlerEnds, TasksOK, HandlerOK, Task
  <2>2. ChannelsOK'
    BY <1>1, <1>3 DEF HandlerEnds, ChannelsOK, results, Single
  <2>3. LinksOK'
    BY <1>1, <1>3 DEF HandlerEnds, LinksOK, Task
  <2>. QED BY <2>1, <2>2, <2>3
<1>4. CASE HandlerStart
  <2>1. UNCHANGED <<requests, headers, blocks, received, toSend, ingress, egress>>
    BY <1>4 DEF HandlerStart, channels, results
  <2>2. handler' = [pc |-> "send", msg |-> Plain("version")] /\ handler.pc = "start"
    BY <1>4 DEF HandlerStart, Sending
  <2>3. HandlerOK'
    BY <2>2 DEF HandlerOK, Plain, Nothing, ToNode
  <2>4. TasksOK' /\ ChannelsOK' /\ LinksOK'
    BY <1>1, <2>1, <2>2, <2>3 DEF TasksOK, ChannelsOK, LinksOK, Single
  <2>. QED BY <1>2, <2>4
<1>5. CASE OnRequest
  <2>1. UNCHANGED <<headers, blocks, received, toSend, ingress, egress>> /\ requests' = <<>>
    BY <1>5 DEF OnRequest, results
  <2>2. PICK r \in Request : requests = <<r>>
    BY <1>5 DEF OnRequest, ChannelsOK, Single
  <2>3. handler' = [pc |-> "send", msg |-> r] /\ handler.pc = "tick"
    BY <1>5, <2>2 DEF OnRequest, Sending
  <2>4. HandlerOK'
    BY <2>2, <2>3, MessageFacts DEF HandlerOK
  <2>5. TasksOK' /\ ChannelsOK' /\ LinksOK'
    BY <1>1, <2>1, <2>3, <2>4 DEF TasksOK, ChannelsOK, LinksOK, Single
  <2>. QED BY <1>2, <2>5
<1>6. CASE OnMessage
  <2>1. UNCHANGED <<requests, headers, blocks, toSend, ingress, egress>> /\ received' = <<>>
    BY <1>6 DEF OnMessage, results
  <2>2. PICK r \in FromNode : received = <<r>>
    BY <1>6 DEF OnMessage, ChannelsOK, Single
  <2>3. /\ handler' = [pc |-> IF Reaction(r) = Nothing THEN "tick" ELSE "send", msg |-> Reaction(r)]
        /\ handler.pc = "tick"
    BY <1>6, <2>2 DEF OnMessage
  <2>4. Reaction(r) \in {Nothing} \cup Relay \cup ToNode
    BY <2>2 DEF Reaction, Plain, FromNode, ToNode, Relay, Nothing
  <2>5. HandlerOK' /\ handler'.pc # "ended"
    BY <2>3, <2>4 DEF HandlerOK
  <2>6. TasksOK' /\ ChannelsOK' /\ LinksOK'
    BY <1>1, <2>1, <2>3, <2>5 DEF TasksOK, ChannelsOK, LinksOK, Single
  <2>. QED BY <1>2, <2>6
<1>7. CASE OnClosed
  BY <1>2, <1>3, <1>7 DEF OnClosed
<1>8. CASE SendOn
  <2>. DEFINE m == handler.msg
  <2>1. handler.pc = "send" /\ m \in Relay \cup ToNode
    BY <1>8 DEF SendOn, TasksOK, HandlerOK
  <2>2. ASSUME handler' = Task("tick"), UNCHANGED <<ingress, egress>>
        PROVE  TasksOK' /\ handler'.pc = "tick"
    BY <2>2 DEF TasksOK, HandlerOK, Task
  <2>3. CASE m.type = "headers" /\ headers' = Append(headers, m) /\ handler' = Task("tick")
             /\ UNCHANGED <<requests, blocks, received, toSend, ingress, egress>>
    <3>1. m \in [type : {"headers"}, from : Nat, to : Nat]
      BY <2>1, <2>3 DEF Relay, ToNode, Request
    <3>2. headers' \in Seq([type : {"headers"}, from : Nat, to : Nat])
      BY <2>3, <3>1 DEF ChannelsOK
    <3>3. ChannelsOK' /\ LinksOK'
      BY <1>1, <2>1, <2>2, <2>3, <3>2 DEF ChannelsOK, LinksOK, Single
    <3>. QED BY <1>2, <2>2, <2>3, <3>3
  <2>4. CASE m.type = "block" /\ blocks' = Append(blocks, m.height) /\ handler' = Task("tick")
             /\ UNCHANGED <<requests, headers, received, toSend, ingress, egress>>
    <3>1. m.height \in Nat
      BY <2>1, <2>4 DEF Relay, ToNode, Request
    <3>2. blocks' \in Seq(Nat)
      BY <2>4, <3>1 DEF ChannelsOK
    <3>3. ChannelsOK' /\ LinksOK'
      BY <1>1, <2>1, <2>2, <2>4, <3>2 DEF ChannelsOK, LinksOK, Single
    <3>. QED BY <1>2, <2>2, <2>4, <3>3
  <2>5. CASE m.type \notin {"headers", "block"} /\ egress.pc = "run" /\ toSend' = <<m>>
             /\ handler' = Task("tick")
             /\ UNCHANGED <<requests, headers, blocks, received, ingress, egress>>
    <3>1. m \in ToNode
      BY <2>1, <2>5, MessageFacts
    <3>2. ChannelsOK' /\ LinksOK'
      BY <1>1, <2>1, <2>2, <2>5, <3>1 DEF ChannelsOK, LinksOK, Single
    <3>. QED BY <1>2, <2>2, <2>5, <3>2
  <2>6. CASE HandlerEnds
    BY <1>2, <1>3, <2>6
  <2>. QED BY <1>8, <2>3, <2>4, <2>5, <2>6 DEF SendOn, results
<1>. QED BY <1>4, <1>5, <1>6, <1>7, <1>8 DEF HandlerStep

\* The steps of the other tasks, of the node and of the connection.
WireStep == IngressStep \/ DecodeFails \/ EgressStep \/ NodeStep \/ NewBlock \/ Chat \/ Lose

\* A step on the wire leaves the worker and the handler alone.
LEMMA WireLeaves ==
  ASSUME WireStep
  PROVE  UNCHANGED <<client, requests, headers, blocks, announced, ready, handler>>
BY DEF WireStep, IngressStep, Read, Deliver, ReadFails, DecodeFails, EgressStep, TakeMessage, Write,
       NodeStep, Answer, AnswerBlock, NewBlock, Chat, Lose, IngressLeaves, EgressLeaves, NodeLeaves,
       results, permits, channels, tasks

\* A step on the wire keeps the types.
LEMMA WireTypes ==
  ASSUME TypesOK, WireStep
  PROVE  TypesOK'
<1>. USE DEF TypesOK
<1>1. ClientOK' /\ HandlerOK'
  BY WireLeaves DEF ClientOK, TasksOK, HandlerOK
<1>2. CASE Read
  <2>1. /\ UNCHANGED <<received, toSend, egress, toNode, connected, node>> /\ ingress.pc = "run"
        /\ ingress' = [ingress EXCEPT !.msg = Head(fromNode)] /\ fromNode' = Tail(fromNode)
        /\ fromNode # <<>>
    BY <1>2 DEF Read, IngressLeaves, Task
  <2>2. Head(fromNode) \in FromNode /\ fromNode' \in Seq(FromNode)
    BY <2>1, HeadTailProperties DEF ChannelsOK
  <2>3. TasksOK' /\ ingress'.pc = "run"
    BY <1>1, <2>1, <2>2 DEF TasksOK
  <2>4. ChannelsOK' /\ LinksOK' /\ NodeOK'
    BY <2>1, <2>2, <2>3, WireLeaves DEF ChannelsOK, LinksOK, NodeOK, Single
  <2>. QED BY <1>1, <2>3, <2>4
<1>3. CASE Deliver
  <2>1. /\ UNCHANGED <<toSend, egress, toNode, fromNode, connected, node>>
        /\ ingress.msg # Nothing /\ received' = <<ingress.msg>> /\ ingress' = Task("run")
    BY <1>3 DEF Deliver, IngressLeaves
  <2>2. ingress.pc = "run" /\ ingress.msg \in FromNode
    BY <2>1 DEF TasksOK
  <2>3. TasksOK' /\ ingress'.pc = "run"
    BY <1>1, <2>1 DEF TasksOK, Task
  <2>4. ChannelsOK' /\ LinksOK' /\ NodeOK'
    BY <2>1, <2>2, <2>3, WireLeaves DEF ChannelsOK, LinksOK, NodeOK, Single
  <2>. QED BY <1>1, <2>3, <2>4
<1>4. CASE ReadFails \/ DecodeFails
  <2>1. /\ UNCHANGED <<received, toSend, egress, toNode, fromNode, connected, node>>
        /\ ingress' = Task("ended")
    BY <1>4 DEF ReadFails, DecodeFails, IngressLeaves
  <2>2. TasksOK' /\ ingress'.pc = "ended"
    BY <1>1, <2>1 DEF TasksOK, Task
  <2>3. ChannelsOK' /\ LinksOK' /\ NodeOK'
    BY <2>1, <2>2, WireLeaves DEF ChannelsOK, LinksOK, NodeOK, Single
  <2>. QED BY <1>1, <2>2, <2>3
<1>5. CASE TakeMessage
  <2>1. /\ UNCHANGED <<received, ingress, toNode, fromNode, connected, node>>
        /\ egress = Task("run") /\ egress' = [egress EXCEPT !.msg = Head(toSend)]
        /\ toSend # <<>> /\ toSend' = <<>>
    BY <1>5 DEF TakeMessage, EgressLeaves
  <2>2. Head(toSend) \in ToNode
    BY <2>1 DEF ChannelsOK, Single
  <2>3. TasksOK' /\ egress'.pc = "run"
    BY <1>1, <2>1, <2>2 DEF TasksOK, Task
  <2>4. ChannelsOK' /\ LinksOK' /\ NodeOK'
    BY <2>1, <2>3, WireLeaves DEF ChannelsOK, LinksOK, NodeOK, Single
  <2>. QED BY <1>1, <2>3, <2>4
<1>6. CASE Write
  <2>1. UNCHANGED <<received, ingress, toSend, fromNode, connected, node>> /\ egress.msg # Nothing
    BY <1>6 DEF Write, EgressLeaves
  <2>2. egress.msg \in ToNode /\ egress.pc = "run"
    BY <2>1 DEF TasksOK
  <2>3. CASE connected /\ toNode' = Append(toNode, egress.msg) /\ egress' = Task("run")
    <3>1. TasksOK' /\ egress'.pc = "run"
      BY <1>1, <2>1, <2>3 DEF TasksOK, Task
    <3>2. toNode' \in Seq(ToNode)
      BY <2>2, <2>3 DEF ChannelsOK
    <3>3. ChannelsOK' /\ LinksOK' /\ NodeOK'
      BY <2>1, <2>2, <2>3, <3>1, <3>2, WireLeaves DEF ChannelsOK, LinksOK, NodeOK, Single
    <3>. QED BY <1>1, <3>1, <3>3
  <2>4. CASE ~connected /\ egress' = Task("ended") /\ UNCHANGED toNode
    <3>1. TasksOK' /\ egress'.pc = "ended"
      BY <1>1, <2>1, <2>4 DEF TasksOK, Task
    <3>2. ChannelsOK' /\ LinksOK' /\ NodeOK'
      BY <2>1, <2>2, <2>4, <3>1, WireLeaves DEF ChannelsOK, LinksOK, NodeOK, Single
    <3>. QED BY <1>1, <3>1, <3>2
  <2>. QED BY <1>6, <2>3, <2>4 DEF Write
<1>7. CASE Answer
  <2>1. /\ UNCHANGED <<received, toSend, ingress, egress, connected>> /\ connected
        /\ toNode # <<>> /\ toNode' = Tail(toNode) /\ fromNode' = fromNode \o Answers(Head(toNode))
        /\ node' = [node EXCEPT !.ready = @ \/ Head(toNode).type = "verack"]
    BY <1>7 DEF Answer, NodeLeaves, channels, tasks
  <2>2. Head(toNode) \in ToNode /\ toNode' \in Seq(ToNode)
    BY <2>1, HeadTailProperties DEF ChannelsOK
  <2>3. Answers(Head(toNode)) \in Seq(FromNode)
    <3>. DEFINE m == Head(toNode)
    <3>1. Plain("version") \in FromNode /\ Plain("verack") \in FromNode
      BY DEF Plain, FromNode
    <3>2. m.type = "getheaders" => Headers(m.from, node.tip) \in FromNode
      BY <2>2 DEF ToNode, Request, Headers, FromNode, Relay, NodeOK
    <3>3. <<Plain("version"), Plain("verack")>> \in Seq(FromNode) /\ <<>> \in Seq(FromNode)
      BY <3>1
    <3>4. m.type = "getheaders" => <<Headers(m.from, node.tip)>> \in Seq(FromNode)
      BY <3>2
    <3>. HIDE DEF m
    <3>. QED BY <3>3, <3>4 DEF Answers, m
  <2>4. fromNode' \in Seq(FromNode)
    BY <2>1, <2>3 DEF ChannelsOK
  <2>5. NodeOK'
    BY <2>1 DEF NodeOK
  <2>6. TasksOK'
    BY <1>1, <2>1 DEF TasksOK
  <2>7. ChannelsOK' /\ LinksOK'
    BY <2>1, <2>2, <2>4, WireLeaves DEF ChannelsOK, LinksOK, Single
  <2>. QED BY <1>1, <2>5, <2>6, <2>7
<1>8. CASE AnswerBlock
  <2>1. /\ UNCHANGED <<received, toSend, ingress, egress, connected, node>> /\ connected
        /\ toNode # <<>> /\ toNode' = Rest(Head(toNode)) \o Tail(toNode) /\ Head(toNode).type = "getdata"
    BY <1>8 DEF AnswerBlock, NodeLeaves, channels, tasks
  <2>2. Head(toNode) \in ToNode /\ Tail(toNode) \in Seq(ToNode)
    BY <2>1, HeadTailProperties DEF ChannelsOK
  <2>3. Head(toNode).list \in Seq(Nat) /\ Head(toNode).list # <<>>
    BY <2>1, <2>2 DEF ToNode, Request
  <2>4. Rest(Head(toNode)) \in Seq(ToNode) /\ Head(Head(toNode).list) \in Nat
    <3>. DEFINE l == Head(toNode).list
    <3>1. l \in Seq(Nat) /\ l # <<>>
      BY <2>3
    <3>. HIDE DEF l
    <3>2. Len(l) # 1 => Tail(l) \in Seq(Nat) \ {<<>>}
      <4>1. Tail(l) \in Seq(Nat) /\ Len(Tail(l)) = Len(l) - 1 /\ Len(l) \in Nat
        BY <3>1, HeadTailProperties, EmptySeq
      <4>2. Len(l) # 0
        BY <3>1, EmptySeq
      <4>3. Len(l) # 1 => Len(Tail(l)) # 0
        BY <4>1, <4>2
      <4>4. Len(<<>>) = 0
        OBVIOUS
      <4>5. Len(Tail(l)) # 0 => Tail(l) # <<>>
        BY <4>4, Zenon
      <4>. QED BY <4>1, <4>3, <4>5, Zenon
    <3>3. Len(l) # 1 => GetData(Tail(l)) \in ToNode
      BY <3>2 DEF GetData, ToNode, Request
    <3>4. Len(l) # 1 => <<GetData(Tail(l))>> \in Seq(ToNode)
      BY <3>3
    <3>5. Head(l) \in Nat
      BY <3>1
    <3>. QED BY <3>4, <3>5 DEF Rest, l
  <2>5. PICK h \in Nat : fromNode' = Append(fromNode, BlockMsg(h))
    BY <1>8, <2>4 DEF AnswerBlock
  <2>6. BlockMsg(h) \in FromNode
    BY DEF BlockMsg, FromNode, Relay
  <2>7. fromNode' \in Seq(FromNode) /\ toNode' \in Seq(ToNode)
    BY <2>1, <2>2, <2>4, <2>5, <2>6 DEF ChannelsOK
  <2>8. TasksOK' /\ NodeOK'
    BY <1>1, <2>1 DEF TasksOK, NodeOK
  <2>9. ChannelsOK' /\ LinksOK'
    BY <2>1, <2>7, WireLeaves DEF ChannelsOK, LinksOK, Single
  <2>. QED BY <1>1, <2>8, <2>9
<1>9. CASE NewBlock \/ Chat
  <2>1. UNCHANGED <<received, toSend, ingress, egress, toNode, connected>>
    BY <1>9 DEF NewBlock, Chat, NodeLeaves, channels, tasks
  <2>2. Plain("inv") \in FromNode /\ Plain("ping") \in FromNode /\ Plain("unused") \in FromNode
    BY DEF Plain, FromNode
  <2>3. fromNode' \in Seq(FromNode)
    <3>1. \/ fromNode' = fromNode \/ fromNode' = Append(fromNode, Plain("inv"))
          \/ \E t \in {"ping", "unused"} : fromNode' = Append(fromNode, Plain(t))
      BY <1>9, Zenon DEF NewBlock, Chat
    <3>2. \A m \in FromNode : Append(fromNode, m) \in Seq(FromNode)
      BY DEF ChannelsOK
    <3>. QED BY <2>2, <3>1, <3>2 DEF ChannelsOK
  <2>4. NodeOK'
    BY <1>9 DEF NodeOK, NewBlock, Chat
  <2>5. TasksOK'
    BY <1>1, <2>1 DEF TasksOK
  <2>6. ChannelsOK' /\ LinksOK'
    BY <2>1, <2>3, WireLeaves DEF ChannelsOK, LinksOK, Single
  <2>. QED BY <1>1, <2>4, <2>5, <2>6
<1>10. CASE Lose
  <2>1. UNCHANGED <<received, toSend, ingress, egress, node>> /\ ~connected' /\ toNode' = <<>>
    BY <1>10 DEF Lose, channels, tasks
  <2>2. PICK n \in 0..Len(fromNode) : fromNode' = SubSeq(fromNode, 1, n)
    BY <1>10 DEF Lose
  <2>3. fromNode' \in Seq(FromNode)
    BY <2>2 DEF ChannelsOK
  <2>4. TasksOK' /\ NodeOK'
    BY <1>1, <2>1 DEF TasksOK, NodeOK
  <2>5. ChannelsOK' /\ LinksOK'
    BY <2>1, <2>3, WireLeaves DEF ChannelsOK, LinksOK, Single
  <2>. QED BY <1>1, <2>4, <2>5
<1>. QED BY <1>2, <1>3, <1>4, <1>5, <1>6, <1>7, <1>8, <1>9, <1>10
         DEF WireStep, IngressStep, EgressStep, NodeStep

(***************************************************************************)
(* The two belts: from the node to the worker, and from the worker to the  *)
(* node.                                                                   *)
(***************************************************************************)

Line == ToWorker \o Arriving
Unread == IF ingress.pc = "run" THEN Held(ingress) \o fromNode ELSE <<>>

\* What a channel of one holds.
LEMMA SingleTyped ==
  ASSUME NEW S, NEW c, Single(c, S)
  PROVE  c \in Seq(S)
<1>1. CASE c = <<>>
  BY <1>1
<1>2. CASE c # <<>>
  <2>1. PICK m \in S : c = <<m>>
    BY <1>2 DEF Single
  <2>2. <<m>> \in Seq(S)
    OBVIOUS
  <2>. QED BY <2>1, <2>2
<1>. QED BY <1>1, <1>2

\* The parts of the belts are sequences of messages.
LEMMA PartsTyped ==
  ASSUME TypesOK
  PROVE  /\ ToWorker \in Seq(FromNode) /\ received \in Seq(FromNode) /\ Unread \in Seq(FromNode)
         /\ Held(ingress) \in Seq(FromNode) /\ fromNode \in Seq(FromNode)
         /\ toNode \in Seq(ToNode) /\ Held(egress) \in Seq(ToNode) /\ toSend \in Seq(ToNode)
         /\ ToEgress \in Seq(ToNode) /\ requests \in Seq(ToNode)
<1>. USE DEF TypesOK
<1>1. received \in Seq(FromNode) /\ toSend \in Seq(ToNode) /\ requests \in Seq(ToNode)
  <2>1. Single(requests, ToNode)
    BY MessageFacts DEF ChannelsOK, Single
  <2>. QED BY <2>1, SingleTyped DEF ChannelsOK
<1>2. fromNode \in Seq(FromNode) /\ toNode \in Seq(ToNode)
  BY DEF ChannelsOK
<1>3. Held(ingress) \in Seq(FromNode) /\ Held(egress) \in Seq(ToNode)
  BY DEF TasksOK, Held
<1>4. Unread \in Seq(FromNode)
  BY <1>2, <1>3 DEF Unread
<1>5. handler.msg = Nothing \/ handler.msg \in Relay \/ handler.msg \in ToNode
  BY DEF TasksOK, HandlerOK
<1>6. Relay \subseteq FromNode /\ Nothing.type = "nothing"
  BY DEF FromNode, Nothing
<1>7. ToWorker \in Seq(FromNode)
  <2>1. CASE handler.msg.type \in {"headers", "block"}
    <3>1. handler.msg \in Relay
      BY <1>5, <1>6, <2>1, MessageFacts
    <3>2. handler.msg \in FromNode
      BY <1>6, <3>1
    <3>3. ToWorker = <<handler.msg>>
      BY <2>1 DEF ToWorker
    <3>. QED BY <3>2, <3>3
  <2>2. CASE handler.msg.type \notin {"headers", "block"}
    BY <2>2 DEF ToWorker
  <2>. QED BY <2>1, <2>2
<1>8. ToEgress \in Seq(ToNode)
  <2>1. CASE handler.msg.type \notin {"headers", "block"} /\ handler.msg # Nothing
    <3>1. handler.msg \in ToNode
      BY <1>5, <2>1, MessageFacts
    <3>. QED BY <2>1, <3>1 DEF ToEgress, Held
  <2>2. CASE handler.msg.type \in {"headers", "block"} \/ handler.msg = Nothing
    BY <2>2 DEF ToEgress, Held
  <2>. QED BY <2>1, <2>2
<1>. QED BY <1>1, <1>2, <1>3, <1>4, <1>7, <1>8

\* And so are the belts.
LEMMA BeltsTyped ==
  ASSUME TypesOK
  PROVE  Line \in Seq(FromNode) /\ Leaving \in Seq(ToNode) /\ requests \in Seq(ToNode)
         /\ Leaving \o requests \in Seq(ToNode) /\ Line = ToWorker \o (received \o Unread)
<1>1. Line = ToWorker \o (received \o Unread)
  BY DEF Line, Arriving, Unread
<1>. QED BY <1>1, PartsTyped DEF Leaving

\* A sequence is its beginning followed by something.
LEMMA SplitAt ==
  ASSUME NEW S, NEW s \in Seq(S), NEW n \in 0..Len(s)
  PROVE  SubSeq(s, 1, n) \in Seq(S) /\ \E x \in Seq(S) : s = SubSeq(s, 1, n) \o x
<1>. DEFINE N == Len(s)
            a == SubSeq(s, 1, n)
            x == [i \in 1..(N - n) |-> s[n + i]]
<1>1. N \in Nat /\ n \in Nat /\ n <= N /\ \A i \in 1..N : s[i] \in S
  OBVIOUS
<1>2. a \in Seq(S) /\ Len(a) = n /\ \A i \in 1..n : a[i] = s[i]
  OBVIOUS
<1>3. N - n \in Nat /\ \A i \in 1..(N - n) : s[n + i] \in S
  BY <1>1
<1>4. x \in Seq(S) /\ Len(x) = N - n /\ \A i \in 1..(N - n) : x[i] = s[n + i]
  BY <1>3
<1>. HIDE DEF a, x
<1>5. (a \o x) \in Seq(S) /\ Len(a \o x) = N /\ \A i \in 1..N : (a \o x)[i] = IF i <= n THEN a[i] ELSE x[i - n]
  BY <1>1, <1>2, <1>4
<1>6. ASSUME NEW i \in 1..N PROVE (a \o x)[i] = s[i]
  <2>1. CASE i <= n
    BY <1>1, <1>2, <1>5, <2>1
  <2>2. CASE ~(i <= n)
    <3>1. i - n \in 1..(N - n) /\ n + (i - n) = i
      BY <1>1, <2>2
    <3>2. x[i - n] = s[n + (i - n)]
      BY <1>4, <3>1
    <3>. QED BY <1>5, <2>2, <3>1, <3>2
  <2>. QED BY <2>1, <2>2
<1>7. s = a \o x
  BY <1>5, <1>6, SeqEqual
<1>. QED BY <1>2, <1>4, <1>7 DEF a

\* The same four parts in another grouping.
Regroups(w, r, i, f, x) == w \o (r \o (i \o (f \o x))) = (w \o (r \o (i \o f))) \o x

\* The belt to the worker with something behind it.
LEMMA Regroup ==
  ASSUME NEW S, NEW w \in Seq(S), NEW r \in Seq(S), NEW i \in Seq(S), NEW f \in Seq(S), NEW x \in Seq(S)
  PROVE  Regroups(w, r, i, f, x)
<1>1. i \o (f \o x) = (i \o f) \o x
  BY SMTT(30)
<1>2. r \o ((i \o f) \o x) = (r \o (i \o f)) \o x
  BY SMTT(30)
<1>3. w \o ((r \o (i \o f)) \o x) = (w \o (r \o (i \o f))) \o x
  BY SMTT(30)
<1>. QED BY <1>1, <1>2, <1>3, Zenon DEF Regroups

\* What the node sends is at the end of the line, if it is read at all.
LEMMA LineGrows ==
  ASSUME TypesOK, handler' = handler, received' = received, ingress' = ingress,
         NEW x \in Seq(FromNode), fromNode' = fromNode \o x
  PROVE  Line' = IF ingress.pc = "run" THEN Line \o x ELSE Line
<1>1. ToWorker' = ToWorker /\ Held(ingress)' = Held(ingress)
  BY DEF ToWorker, Held
<1>2. CASE ingress.pc = "run"
  <2>1. Line = ToWorker \o (received \o (Held(ingress) \o fromNode))
    BY <1>2 DEF Line, Arriving
  <2>2. Line' = ToWorker \o (received \o (Held(ingress) \o (fromNode \o x)))
    BY <1>1, <1>2 DEF Line, Arriving
  <2>3. Regroups(ToWorker, received, Held(ingress), fromNode, x)
    BY PartsTyped, Regroup
  <2>. QED BY <1>2, <2>1, <2>2, <2>3, Zenon DEF Regroups
<1>3. CASE ingress.pc # "run"
  BY <1>1, <1>3 DEF Line, Arriving
<1>. QED BY <1>2, <1>3

\* Reading and delivering move a message along the line.
LEMMA LineMoves ==
  ASSUME TypesOK, Read \/ Deliver \/ ReadFails
  PROVE  Line' = Line
<1>1. ToWorker' = ToWorker
  BY DEF Read, Deliver, ReadFails, IngressLeaves, ToWorker
<1>2. CASE Read
  <2>1. /\ ingress = Task("run") /\ fromNode # <<>> /\ received' = received
        /\ ingress' = [ingress EXCEPT !.msg = Head(fromNode)] /\ fromNode' = Tail(fromNode)
    BY <1>2 DEF Read
  <2>2. fromNode \in Seq(FromNode) /\ Head(fromNode) \in FromNode
    BY <2>1, PartsTyped
  <2>3. Head(fromNode) # Nothing
    BY <2>2, MessageFacts
  <2>4. Held(ingress) = <<>> /\ Held(ingress)' = <<Head(fromNode)>> /\ ingress.pc = "run" /\ ingress'.pc = "run"
    BY <2>1, <2>3 DEF Held, Task
  <2>5. <<Head(fromNode)>> \o Tail(fromNode) = fromNode /\ <<>> \o fromNode = fromNode
    BY <2>1, <2>2
  <2>6. Unread' = Unread
    BY <2>1, <2>4, <2>5, Zenon DEF Unread
  <2>. QED BY <1>1, <2>1, <2>6, Zenon DEF Line, Arriving, Unread
<1>3. CASE Deliver
  <2>1. /\ ingress.msg # Nothing /\ received = <<>> /\ received' = <<ingress.msg>>
        /\ ingress' = Task("run") /\ fromNode' = fromNode
    BY <1>3 DEF Deliver
  <2>2. ingress.pc = "run" /\ ingress'.pc = "run"
    BY <2>1 DEF TypesOK, TasksOK, Task
  <2>3. Held(ingress) = <<ingress.msg>> /\ Held(ingress)' = <<>>
    BY <2>1 DEF Held, Task
  <2>4. <<ingress.msg>> \in Seq(FromNode) /\ fromNode \in Seq(FromNode)
    BY <2>3, PartsTyped
  <2>. DEFINE f == fromNode
              m == <<ingress.msg>>
  <2>5. m \o (<<>> \o f) = <<>> \o (m \o f)
    <3>. HIDE DEF f, m
    <3>1. f \in Seq(FromNode) /\ m \in Seq(FromNode)
      BY <2>4 DEF f, m
    <3>. QED BY <3>1
  <2>6. Arriving = <<>> \o (m \o f) /\ Arriving' = m \o (<<>> \o f)
    BY <2>1, <2>2, <2>3, Zenon DEF Arriving
  <2>. QED BY <1>1, <2>5, <2>6, Zenon DEF Line
<1>4. CASE ReadFails
  <2>1. /\ ingress = Task("run") /\ fromNode = <<>> /\ ingress' = Task("ended")
        /\ received' = received
    BY <1>4 DEF ReadFails
  <2>2. Unread = <<>> /\ Unread' = <<>>
    BY <2>1 DEF Unread, Task, Held
  <2>. QED BY <1>1, <2>1, <2>2, Zenon DEF Line, Arriving, Unread
<1>. QED BY <1>2, <1>3, <1>4

\* A cut takes away the end of the line.
LEMMA LineCut ==
  ASSUME TypesOK, DecodeFails \/ Lose
  PROVE  \E x \in Seq(FromNode) : Line = Line' \o x
<1>1. ToWorker' = ToWorker /\ received' = received
  BY DEF DecodeFails, Lose, IngressLeaves, ToWorker, tasks, channels
<1>2. CASE DecodeFails
  <2>1. ingress' = Task("ended")
    BY <1>2 DEF DecodeFails
  <2>2. Unread' = <<>>
    BY <2>1 DEF Unread, Task
  <2>. DEFINE w == ToWorker
              r == received
              u == Unread
  <2>3. Line = w \o (r \o u) /\ Line' = w \o (r \o <<>>)
    BY <1>1, <2>2, Zenon DEF Line, Arriving, Unread
  <2>4. w \in Seq(FromNode) /\ r \in Seq(FromNode) /\ u \in Seq(FromNode)
    BY PartsTyped
  <2>. HIDE DEF w, r, u
  <2>5. w \o (r \o u) = (w \o (r \o <<>>)) \o u
    BY <2>4
  <2>. QED BY <2>3, <2>4, <2>5
<1>3. CASE Lose
  <2>1. ingress' = ingress
    BY <1>3 DEF Lose, tasks
  <2>2. PICK n \in 0..Len(fromNode) : fromNode' = SubSeq(fromNode, 1, n)
    BY <1>3 DEF Lose
  <2>3. PICK x \in Seq(FromNode) : fromNode' \in Seq(FromNode) /\ fromNode = fromNode' \o x
    <3>1. fromNode \in Seq(FromNode)
      BY PartsTyped
    <3>2. SubSeq(fromNode, 1, n) \in Seq(FromNode)
          /\ \E x \in Seq(FromNode) : fromNode = SubSeq(fromNode, 1, n) \o x
      BY <3>1, SplitAt
    <3>. QED BY <2>2, <3>2
  <2>4. CASE ingress.pc = "run"
    <3>. DEFINE w == ToWorker
                r == received
                i == Held(ingress)
                f == fromNode'
    <3>1. f \in Seq(FromNode) /\ fromNode = f \o x
      BY <2>3
    <3>2. Line = w \o (r \o (i \o (f \o x))) /\ Line' = w \o (r \o (i \o f))
      BY <1>1, <2>1, <2>4, <3>1, Zenon DEF Line, Arriving, Held
    <3>3. w \in Seq(FromNode) /\ r \in Seq(FromNode) /\ i \in Seq(FromNode)
      BY PartsTyped
    <3>. HIDE DEF w, r, i, f
    <3>4. Regroups(w, r, i, f, x)
      BY <3>1, <3>3, Regroup
    <3>. QED BY <3>1, <3>2, <3>4 DEF Regroups
  <2>5. CASE ingress.pc # "run"
    <3>1. Line' = Line
      BY <1>1, <2>1, <2>5 DEF Line, Arriving
    <3>2. Line = Line \o <<>> /\ <<>> \in Seq(FromNode)
      BY BeltsTyped
    <3>. QED BY <3>1, <3>2
  <2>. QED BY <2>4, <2>5
<1>. QED BY <1>2, <1>3

\* What the message in the handler's hand adds to each belt.
WorkerPart(m) == IF m.type \in {"headers", "block"} THEN <<m>> ELSE <<>>
EgressPart(m) == IF m.type \in {"headers", "block"} \/ m = Nothing THEN <<>> ELSE <<m>>

\* The handler's message is on the way to the worker or to the node, by its type.
LEMMA HandParts ==
  /\ ToWorker = WorkerPart(handler.msg) /\ ToEgress = EgressPart(handler.msg)
  /\ ToWorker' = WorkerPart(handler'.msg) /\ ToEgress' = EgressPart(handler'.msg)
  /\ WorkerPart(Nothing) = <<>> /\ EgressPart(Nothing) = <<>>
  /\ \A m \in Relay : WorkerPart(m) = <<m>> /\ EgressPart(m) = <<>>
  /\ \A m \in ToNode : WorkerPart(m) = <<>> /\ EgressPart(m) = <<m>>
<1>1. /\ ToWorker = WorkerPart(handler.msg) /\ ToEgress = EgressPart(handler.msg)
      /\ ToWorker' = WorkerPart(handler'.msg) /\ ToEgress' = EgressPart(handler'.msg)
  BY DEF ToWorker, ToEgress, WorkerPart, EgressPart, Held
<1>2. WorkerPart(Nothing) = <<>> /\ EgressPart(Nothing) = <<>>
  BY DEF WorkerPart, EgressPart, Nothing
<1>3. \A m \in Relay : WorkerPart(m) = <<m>> /\ EgressPart(m) = <<>>
  BY MessageFacts DEF WorkerPart, EgressPart
<1>4. \A m \in ToNode : WorkerPart(m) = <<>> /\ EgressPart(m) = <<m>>
  <2>1. \A m \in ToNode : m.type \notin {"headers", "block"} /\ m # Nothing
    BY MessageFacts
  <2>. QED BY <2>1 DEF WorkerPart, EgressPart
<1>. QED BY <1>1, <1>2, <1>3, <1>4

\* The handler ends: nothing arrives any more, and only what was written leaves.
LEMMA EndsBelts ==
  ASSUME TypesOK, HandlerEnds, toNode' = toNode
  PROVE  Line' = <<>> /\ Leaving' = toNode /\ requests' = <<>> /\ ingress'.pc = "ended"
         /\ \E x \in Seq(ToNode) : Leaving = toNode \o x
<1>1. /\ handler'.msg = Nothing /\ ingress'.pc = "ended" /\ egress'.msg = Nothing
      /\ requests' = <<>> /\ received' = <<>> /\ toSend' = <<>>
  BY DEF HandlerEnds, Task
<1>2. ToWorker' = <<>> /\ ToEgress' = <<>> /\ Held(egress)' = <<>>
  BY <1>1, HandParts DEF Held
<1>3. Line' = <<>>
  BY <1>1, <1>2 DEF Line, Arriving
<1>4. Leaving' = toNode
  <2>1. Leaving' = ((toNode \o <<>>) \o <<>>) \o <<>>
    BY <1>1, <1>2 DEF Leaving
  <2>2. toNode \in Seq(ToNode)
    BY PartsTyped
  <2>. QED BY <2>1, <2>2
<1>5. \E x \in Seq(ToNode) : Leaving = toNode \o x
  <2>. DEFINE a == toNode
              b == Held(egress)
              c == toSend
              d == ToEgress
  <2>1. a \in Seq(ToNode) /\ b \in Seq(ToNode) /\ c \in Seq(ToNode) /\ d \in Seq(ToNode)
    BY PartsTyped
  <2>2. Leaving = ((a \o b) \o c) \o d
    BY DEF Leaving
  <2>. HIDE DEF a, b, c, d
  <2>3. ((a \o b) \o c) \o d = a \o ((b \o c) \o d) /\ (b \o c) \o d \in Seq(ToNode)
    BY SMTT(30), <2>1
  <2>. QED BY <2>2, <2>3 DEF a
<1>. QED BY <1>1, <1>3, <1>4, <1>5

\* HandlerStart and OnRequest give the egress something.
LEMMA SendingBelts ==
  ASSUME TypesOK
  PROVE  /\ HandlerStart => Line' = Line /\ Leaving' = Leaving \o <<Plain("version")>> /\ requests' = requests
         /\ OnRequest => \E r \in Request : /\ requests = <<r>> /\ requests' = <<>>
                                            /\ Line' = Line /\ Leaving' = Leaving \o <<r>>
<1>1. ASSUME NEW m \in ToNode, handler.msg = Nothing, handler'.msg = m,
             UNCHANGED <<received, ingress, fromNode, toNode, egress, toSend>>
      PROVE  Line' = Line /\ Leaving' = Leaving \o <<m>>
  <2>1. ToWorker = <<>> /\ ToEgress = <<>> /\ ToWorker' = <<>> /\ ToEgress' = <<m>>
    BY <1>1, HandParts
  <2>2. Line' = Line
    BY <1>1, <2>1 DEF Line, Arriving, Held
  <2>3. Held(egress)' = Held(egress)
    BY <1>1 DEF Held
  <2>. DEFINE s == (toNode \o Held(egress)) \o toSend
  <2>4. s \in Seq(ToNode)
    BY PartsTyped
  <2>5. Leaving = s \o <<>> /\ Leaving' = s \o <<m>>
    BY <1>1, <2>1, <2>3, Zenon DEF Leaving
  <2>. HIDE DEF s
  <2>6. s \o <<>> = s
    BY <2>4
  <2>. QED BY <2>2, <2>5, <2>6, Zenon
<1>2. ASSUME HandlerStart
      PROVE  Line' = Line /\ Leaving' = Leaving \o <<Plain("version")>> /\ requests' = requests
  <2>1. /\ UNCHANGED <<received, ingress, fromNode, toNode, egress, toSend, requests>>
        /\ handler.pc = "start" /\ handler'.msg = Plain("version")
    BY <1>2 DEF HandlerStart, HandlerLeaves, Sending, channels, wires
  <2>2. handler.msg = Nothing
    BY <2>1 DEF TypesOK, TasksOK, HandlerOK
  <2>3. Plain("version") \in ToNode
    BY DEF Plain, ToNode
  <2>. QED BY <1>1, <2>1, <2>2, <2>3
<1>3. ASSUME OnRequest
      PROVE  \E r \in Request : /\ requests = <<r>> /\ requests' = <<>>
                                /\ Line' = Line /\ Leaving' = Leaving \o <<r>>
  <2>1. /\ UNCHANGED <<received, ingress, fromNode, toNode, egress, toSend>> /\ requests' = <<>>
        /\ handler.pc = "tick" /\ requests # <<>> /\ handler'.msg = Head(requests)
    BY <1>3 DEF OnRequest, HandlerLeaves, Sending, wires
  <2>2. PICK r \in Request : requests = <<r>>
    BY <2>1 DEF TypesOK, ChannelsOK, Single
  <2>3. handler.msg = Nothing /\ handler'.msg = r /\ r \in ToNode
    BY <2>1, <2>2, MessageFacts DEF TypesOK, TasksOK, HandlerOK
  <2>. QED BY <1>1, <2>1, <2>2, <2>3
<1>. QED BY <1>2, <1>3

\* What the handler sends the node for message r.
Response(r) ==
  IF r.type = "version" THEN <<Plain("verack")>>
  ELSE IF r.type = "ping" THEN <<Plain("pong")>> ELSE <<>>

\* OnMessage passes a message on to the worker, or takes it off the line.
LEMMA MessageBelts ==
  ASSUME TypesOK, OnMessage
  PROVE  \E r \in FromNode :
           /\ Notified(r)
           /\ r.type \in {"headers", "block"} => Line' = Line
           /\ r.type \notin {"headers", "block"} => Line = <<r>> \o Line'
           /\ Leaving' = Leaving \o Response(r)
<1>1. /\ UNCHANGED <<requests, ingress, fromNode, toNode, egress, toSend>> /\ received' = <<>>
      /\ handler.pc = "tick" /\ received # <<>> /\ handler'.msg = Reaction(Head(received))
      /\ Notified(Head(received))
  BY DEF OnMessage, HandlerLeaves, wires
<1>2. PICK r \in FromNode : received = <<r>>
  BY <1>1 DEF TypesOK, ChannelsOK, Single
<1>3. handler.msg = Nothing /\ handler'.msg = Reaction(r) /\ Notified(r)
  BY <1>1, <1>2 DEF TypesOK, TasksOK, HandlerOK
<1>4. ToWorker = <<>> /\ ToEgress = <<>>
  BY <1>3, HandParts
<1>5. Held(egress)' = Held(egress) /\ Held(ingress)' = Held(ingress) /\ Unread' = Unread
  BY <1>1 DEF Held, Unread
<1>6. ToEgress' = Response(r) /\ ToWorker' = IF r.type \in {"headers", "block"} THEN <<r>> ELSE <<>>
  <2>1. CASE r.type = "version"
    <3>1. Reaction(r) = Plain("verack") /\ Plain("verack") \in ToNode
      BY <2>1 DEF Reaction, Plain, ToNode
    <3>. QED BY <1>3, <2>1, <3>1, HandParts DEF Response
  <2>2. CASE r.type = "ping"
    <3>1. Reaction(r) = Plain("pong") /\ Plain("pong") \in ToNode
      BY <2>2 DEF Reaction, Plain, ToNode
    <3>. QED BY <1>3, <2>2, <3>1, HandParts DEF Response
  <2>3. CASE r.type \in {"headers", "block"}
    <3>1. Reaction(r) = r /\ r \in Relay
      BY <1>2, <2>3 DEF Reaction, FromNode
    <3>. QED BY <1>3, <2>3, <3>1, HandParts DEF Response
  <2>4. CASE r.type \notin {"version", "ping", "headers", "block"}
    <3>1. Reaction(r) = Nothing
      BY <2>4 DEF Reaction
    <3>. QED BY <1>3, <2>4, <3>1, HandParts DEF Response
  <2>. QED BY <2>1, <2>2, <2>3, <2>4
<1>7. Line = <<r>> \o Unread
  <2>1. Line = <<>> \o (<<r>> \o Unread) /\ Unread \in Seq(FromNode)
    BY <1>2, <1>4, BeltsTyped, PartsTyped
  <2>. QED BY <2>1
<1>8. Unread \in Seq(FromNode)
  BY PartsTyped
<1>9. Line' = (IF r.type \in {"headers", "block"} THEN <<r>> ELSE <<>>) \o (<<>> \o Unread)
  BY <1>1, <1>5, <1>6, Zenon DEF Line, Arriving, Unread
<1>10. <<>> \o Unread = Unread
  BY <1>8
<1>11. Leaving' = Leaving \o Response(r)
  <2>. DEFINE s == (toNode \o Held(egress)) \o toSend
  <2>1. s \in Seq(ToNode)
    BY PartsTyped
  <2>2. Leaving = s \o <<>> /\ Leaving' = s \o Response(r)
    BY <1>1, <1>4, <1>5, <1>6, Zenon DEF Leaving
  <2>. HIDE DEF s
  <2>3. s \o <<>> = s
    BY <2>1
  <2>. QED BY <2>2, <2>3, Zenon
<1>12. CASE r.type \in {"headers", "block"}
  BY <1>2, <1>3, <1>7, <1>9, <1>10, <1>11, <1>12, Zenon
<1>13. CASE r.type \notin {"headers", "block"}
  BY <1>2, <1>3, <1>7, <1>9, <1>10, <1>11, <1>13, Zenon
<1>. QED BY <1>12, <1>13

\* SendOn takes a message for the worker off the line, and moves one for the
\* node; the belts do not change otherwise.
LEMMA SendOnBelts ==
  ASSUME TypesOK, SendOn
  PROVE  LET m == handler.msg IN
         /\ toNode' = toNode
         /\ \/ /\ m \in [type : {"headers"}, from : Nat, to : Nat]
               /\ headers' = Append(headers, m) /\ blocks' = blocks
               /\ Line = <<m>> \o Line' /\ Leaving' = Leaving
               /\ UNCHANGED <<requests, ingress, egress, toSend, permits>>
            \/ /\ m \in [type : {"block"}, height : Nat]
               /\ blocks' = Append(blocks, m.height) /\ headers' = headers
               /\ Line = <<m>> \o Line' /\ Leaving' = Leaving
               /\ UNCHANGED <<requests, ingress, egress, toSend, permits>>
            \/ /\ Line' = Line /\ Leaving' = Leaving
               /\ UNCHANGED <<requests, results, ingress, egress, permits>>
            \/ HandlerEnds
<1>. DEFINE m == handler.msg
<1>1. toNode' = toNode /\ fromNode' = fromNode
  BY DEF SendOn, HandlerLeaves, wires
<1>2. handler.pc = "send" /\ m \in Relay \cup ToNode
  BY DEF SendOn, TypesOK, TasksOK, HandlerOK
<1>3. ASSUME handler' = Task("tick")
      PROVE  ToWorker' = <<>> /\ ToEgress' = <<>>
  <2>1. handler'.msg = Nothing
    BY <1>3 DEF Task
  <2>. QED BY <2>1, HandParts
<1>4. ASSUME handler' = Task("tick"), m.type \in {"headers", "block"},
             UNCHANGED <<received, toSend, ingress, egress>>
      PROVE  m \in Relay /\ Line = <<m>> \o Line' /\ Leaving' = Leaving
  <2>1. m \in Relay
    BY <1>2, <1>4, MessageFacts
  <2>2. ToWorker = <<m>> /\ ToEgress = <<>>
    BY <2>1, HandParts
  <2>3. Leaving' = Leaving
    BY <1>1, <1>3, <1>4, <2>2 DEF Leaving, Held
  <2>4. received' = received /\ Unread' = Unread
    BY <1>1, <1>4 DEF Unread, Held
  <2>5. Line = <<m>> \o (received \o Unread) /\ Line' = <<>> \o (received \o Unread)
    BY <1>3, <1>4, <2>2, <2>4, Zenon DEF Line, Arriving, Unread
  <2>. DEFINE s == received \o Unread
  <2>6. s \in Seq(FromNode)
    BY PartsTyped
  <2>. HIDE DEF s
  <2>7. <<>> \o s = s
    BY <2>6
  <2>8. Line = <<m>> \o Line'
    BY <2>5, <2>7, Zenon DEF s
  <2>. QED BY <2>1, <2>3, <2>8
<1>5. CASE /\ m.type = "headers" /\ headers' = Append(headers, m) /\ handler' = Task("tick")
           /\ UNCHANGED <<requests, blocks, received, toSend, ingress, egress, permits>>
  <2>1. m \in Relay /\ Line = <<m>> \o Line' /\ Leaving' = Leaving
    BY <1>4, <1>5
  <2>2. m \in [type : {"headers"}, from : Nat, to : Nat]
    BY <1>5, <2>1 DEF Relay
  <2>. QED BY <1>1, <1>5, <2>1, <2>2
<1>6. CASE /\ m.type = "block" /\ blocks' = Append(blocks, m.height) /\ handler' = Task("tick")
           /\ UNCHANGED <<requests, headers, received, toSend, ingress, egress, permits>>
  <2>1. m \in Relay /\ Line = <<m>> \o Line' /\ Leaving' = Leaving
    BY <1>4, <1>6
  <2>2. m \in [type : {"block"}, height : Nat]
    BY <1>6, <2>1 DEF Relay
  <2>. QED BY <1>1, <1>6, <2>1, <2>2
<1>7. CASE /\ m.type \notin {"headers", "block"} /\ toSend = <<>> /\ toSend' = <<m>>
           /\ handler' = Task("tick")
           /\ UNCHANGED <<requests, results, received, ingress, egress, permits>>
  <2>1. m \in ToNode
    BY <1>2, <1>7, MessageFacts
  <2>2. ToWorker = <<>> /\ ToEgress = <<m>>
    BY <2>1, HandParts
  <2>3. Line' = Line
    BY <1>1, <1>3, <1>7, <2>2 DEF Line, Arriving, Held
  <2>. DEFINE s == toNode \o Held(egress)
  <2>4. Leaving = (s \o <<>>) \o <<m>> /\ Leaving' = (s \o <<m>>) \o <<>>
    BY <1>1, <1>3, <1>7, <2>2 DEF Leaving, Held
  <2>5. s \in Seq(ToNode) /\ m \in ToNode
    BY <2>1, PartsTyped
  <2>. HIDE DEF s, m
  <2>6. (s \o <<>>) \o <<m>> = (s \o <<m>>) \o <<>>
    BY <2>5
  <2>7. Leaving' = Leaving
    BY <2>4, <2>6, Zenon
  <2>. QED BY <1>1, <1>7, <2>3, <2>7 DEF m
<1>8. CASE HandlerEnds
  BY <1>1, <1>8
<1>. QED BY <1>5, <1>6, <1>7, <1>8 DEF SendOn

\* The egress moves messages along, until the connection is lost.
LEMMA EgressBelts ==
  ASSUME TypesOK
  PROVE  /\ TakeMessage => Line' = Line /\ Leaving' = Leaving /\ toNode' = toNode
         /\ Write => /\ Line' = Line
                     /\ \/ connected /\ Leaving' = Leaving
                        \/ ~connected /\ toNode = <<>> /\ toNode' = <<>> /\ Leaving = Held(egress) \o Leaving'
<1>1. ASSUME UNCHANGED <<received, handler, ingress, fromNode>>
      PROVE  Line' = Line
  BY <1>1 DEF Line, Arriving, Held, ToWorker
<1>2. ASSUME TakeMessage PROVE Line' = Line /\ Leaving' = Leaving /\ toNode' = toNode
  <2>1. /\ UNCHANGED <<received, handler, ingress, fromNode, toNode>> /\ egress = Task("run")
        /\ toSend # <<>> /\ toSend' = <<>> /\ egress' = [egress EXCEPT !.msg = Head(toSend)]
    BY <1>2 DEF TakeMessage, EgressLeaves
  <2>2. PICK m \in ToNode : toSend = <<m>>
    BY <2>1 DEF TypesOK, ChannelsOK, Single
  <2>3. m # Nothing
    BY MessageFacts
  <2>4. Held(egress) = <<>> /\ Held(egress)' = <<m>>
    BY <2>1, <2>2, <2>3 DEF Held, Task
  <2>5. ToEgress' = ToEgress
    BY <2>1 DEF ToEgress, Held
  <2>6. Leaving = ((toNode \o <<>>) \o <<m>>) \o ToEgress /\ Leaving' = ((toNode \o <<m>>) \o <<>>) \o ToEgress
    BY <2>1, <2>2, <2>4, <2>5 DEF Leaving
  <2>. DEFINE s == toNode
              t == ToEgress
  <2>7. s \in Seq(ToNode) /\ t \in Seq(ToNode)
    BY PartsTyped
  <2>. HIDE DEF s, t
  <2>8. ((s \o <<>>) \o <<m>>) \o t = ((s \o <<m>>) \o <<>>) \o t
    BY <2>7
  <2>9. Leaving' = Leaving
    BY <2>6, <2>8, Zenon DEF s, t
  <2>. QED BY <1>1, <2>1, <2>9
<1>3. ASSUME Write
      PROVE  /\ Line' = Line
             /\ \/ connected /\ Leaving' = Leaving
                \/ ~connected /\ toNode = <<>> /\ toNode' = <<>> /\ Leaving = Held(egress) \o Leaving'
  <2>1. UNCHANGED <<received, handler, ingress, fromNode, toSend>> /\ egress.msg # Nothing
    BY <1>3 DEF Write, EgressLeaves
  <2>2. Line' = Line /\ ToEgress' = ToEgress
    BY <1>1, <2>1 DEF ToEgress, Held
  <2>. DEFINE m == egress.msg
              s == toNode
              t == toSend
              u == ToEgress
  <2>3. Held(egress) = <<m>>
    BY <2>1 DEF Held
  <2>4. m \in ToNode /\ s \in Seq(ToNode) /\ t \in Seq(ToNode) /\ u \in Seq(ToNode)
    <3>1. m \in ToNode
      BY <2>1 DEF TypesOK, TasksOK
    <3>. QED BY <3>1, PartsTyped
  <2>5. CASE connected /\ toNode' = Append(toNode, egress.msg) /\ egress' = Task("run")
    <3>1. Held(egress)' = <<>>
      BY <2>5 DEF Held, Task
    <3>2. Leaving = ((s \o <<m>>) \o t) \o u /\ Leaving' = ((Append(s, m) \o <<>>) \o t) \o u
      BY <2>1, <2>2, <2>3, <2>5, <3>1, Zenon DEF Leaving
    <3>. HIDE DEF m, s, t, u
    <3>3. ((s \o <<m>>) \o t) \o u = ((Append(s, m) \o <<>>) \o t) \o u
      BY <2>4
    <3>4. Leaving' = Leaving
      BY <3>2, <3>3, Zenon
    <3>. QED BY <2>2, <2>5, <3>4
  <2>6. CASE ~connected /\ egress' = Task("ended") /\ toNode' = toNode
    <3>1. Held(egress)' = <<>>
      BY <2>6 DEF Held, Task
    <3>2. s = <<>>
      BY <2>6 DEF TypesOK, LinksOK
    <3>3. Leaving = ((<<>> \o <<m>>) \o t) \o u /\ Leaving' = ((<<>> \o <<>>) \o t) \o u
      BY <2>1, <2>2, <2>3, <2>6, <3>1, <3>2, Zenon DEF Leaving
    <3>. HIDE DEF m, t, u
    <3>4. ((<<>> \o <<m>>) \o t) \o u = <<m>> \o (((<<>> \o <<>>) \o t) \o u)
      BY <2>4
    <3>5. Leaving = Held(egress) \o Leaving'
      BY <2>3, <3>3, <3>4, Zenon
    <3>. QED BY <2>2, <2>6, <3>2, <3>5
  <2>. QED BY <1>3, <2>5, <2>6 DEF Write
<1>. QED BY <1>2, <1>3

\* The first of five parts.
Leads(r, s, h, t, u) == (((r \o s) \o h) \o t) \o u = r \o (((s \o h) \o t) \o u)

\* The belt to the node with something in front of it.
LEMMA LeadingPart ==
  ASSUME NEW S, NEW r \in Seq(S), NEW s \in Seq(S), NEW h \in Seq(S), NEW t \in Seq(S), NEW u \in Seq(S)
  PROVE  Leads(r, s, h, t, u)
<1>1. (r \o s) \o h = r \o (s \o h)
  OBVIOUS
<1>2. (r \o (s \o h)) \o t = r \o ((s \o h) \o t)
  BY SMTT(30)
<1>3. (r \o ((s \o h) \o t)) \o u = r \o (((s \o h) \o t) \o u)
  BY SMTT(30)
<1>. QED BY <1>1, <1>2, <1>3, Zenon DEF Leads

\* The node takes the first message off the belt that leaves.
LEMMA NodeBelts ==
  ASSUME TypesOK, connected, toNode # <<>>, UNCHANGED <<toSend, egress, handler>>,
         NEW r \in Seq(ToNode), toNode' = r \o Tail(toNode)
  PROVE  \E x \in Seq(ToNode) : Leaving = <<Head(toNode)>> \o x /\ Leaving' = r \o x
<1>1. ToEgress' = ToEgress /\ Held(egress)' = Held(egress)
  BY DEF ToEgress, Held
<1>. DEFINE m == Head(toNode)
            s == Tail(toNode)
            h == Held(egress)
            t == toSend
            u == ToEgress
<1>2. m \in ToNode /\ s \in Seq(ToNode) /\ h \in Seq(ToNode) /\ t \in Seq(ToNode) /\ u \in Seq(ToNode)
  BY PartsTyped, HeadTailProperties
<1>3. toNode = <<m>> \o s
  <2>. DEFINE q == toNode
  <2>1. q \in Seq(ToNode) /\ q # <<>>
    BY PartsTyped
  <2>. HIDE DEF q
  <2>2. <<Head(q)>> \o Tail(q) = q
    BY <2>1
  <2>. QED BY <2>2 DEF q
<1>4. Leaving = (((<<m>> \o s) \o h) \o t) \o u /\ Leaving' = (((r \o s) \o h) \o t) \o u
  <2>1. Leaving = ((toNode \o h) \o t) \o u
    BY DEF Leaving
  <2>2. Leaving' = (((r \o s) \o h) \o t) \o u
    BY <1>1, Zenon DEF Leaving
  <2>. HIDE DEF m, s, h, t, u
  <2>. QED BY <1>3, <2>1, <2>2, Zenon
<1>. HIDE DEF m, s, h, t, u
<1>5. /\ ((s \o h) \o t) \o u \in Seq(ToNode)
      /\ (((<<m>> \o s) \o h) \o t) \o u = <<m>> \o (((s \o h) \o t) \o u)
      /\ (((r \o s) \o h) \o t) \o u = r \o (((s \o h) \o t) \o u)
  <2>1. <<m>> \in Seq(ToNode)
    BY <1>2
  <2>2. Leads(<<m>>, s, h, t, u) /\ Leads(r, s, h, t, u)
    BY <1>2, <2>1, LeadingPart
  <2>3. ((s \o h) \o t) \o u \in Seq(ToNode)
    BY <1>2
  <2>. QED BY <2>2, <2>3, Zenon DEF Leads
<1>. QED BY <1>4, <1>5 DEF m

\* A lost connection takes away what was written and not handled.
LEMMA LoseBelts ==
  ASSUME TypesOK, Lose
  PROVE  Leaving = toNode \o Leaving' /\ requests' = requests /\ toNode' = <<>>
<1>1. UNCHANGED <<toSend, egress, handler, requests>> /\ toNode' = <<>>
  BY DEF Lose, channels, tasks
<1>2. ToEgress' = ToEgress /\ Held(egress)' = Held(egress)
  BY <1>1 DEF ToEgress, Held
<1>. DEFINE s == toNode
            h == Held(egress)
            t == toSend
            u == ToEgress
<1>3. s \in Seq(ToNode) /\ h \in Seq(ToNode) /\ t \in Seq(ToNode) /\ u \in Seq(ToNode)
  BY PartsTyped
<1>4. Leaving = ((s \o h) \o t) \o u /\ Leaving' = ((<<>> \o h) \o t) \o u
  BY <1>1, <1>2, Zenon DEF Leaving
<1>. HIDE DEF s, h, t, u
<1>5. ((s \o h) \o t) \o u = s \o (((<<>> \o h) \o t) \o u)
  BY SMTT(30), <1>3
<1>6. Leaving = s \o Leaving'
  BY <1>4, <1>5, Zenon
<1>. QED BY <1>1, <1>6 DEF s

(***************************************************************************)
(* What is under way of each type.                                         *)
(***************************************************************************)

Hs == OfType(Line, "headers")
Bs == OfType(Line, "block")
Is == OfType(Line, "inv")
Gs == Outbound("getheaders")
Ds == Outbound("getdata")

\* The selection when m is in front of s, or behind it.
InFront(m, s, t) ==
  OfType(<<m>> \o s, t) = IF m.type = t THEN <<m>> \o OfType(s, t) ELSE OfType(s, t)
Behind(m, s, t) ==
  OfType(s \o <<m>>, t) = IF m.type = t THEN OfType(s, t) \o <<m>> ELSE OfType(s, t)

\* The messages of one type, with one more in front.
LEMMA SelectFront ==
  ASSUME NEW S, NEW m \in S, NEW s \in Seq(S), NEW t
  PROVE  InFront(m, s, t)
<1>. DEFINE u == <<m>> \o s
<1>1. <<m>> \in Seq(S) /\ OfType(s, t) \in Seq(S)
  BY SelectedAre
<1>2. OfType(u, t) = OfType(<<m>>, t) \o OfType(s, t)
  <2>. DEFINE v == <<m>>
  <2>1. v \in Seq(S) /\ u = v \o s
    BY <1>1
  <2>. HIDE DEF v
  <2>3. Distributes(v, s, t)
    BY <2>1, SelectConcat
  <2>2. OfType(v \o s, t) = OfType(v, t) \o OfType(s, t)
    BY <2>3 DEF Distributes
  <2>. QED BY <2>1, <2>2 DEF v
<1>3. OfType(<<m>>, t) = IF m.type = t THEN <<m>> ELSE <<>>
  BY SelectOne
<1>4. <<>> \o OfType(s, t) = OfType(s, t)
  <2>. DEFINE q == OfType(s, t)
  <2>1. q \in Seq(S)
    BY <1>1
  <2>. HIDE DEF q
  <2>2. <<>> \o q = q
    BY <2>1
  <2>. QED BY <2>2 DEF q
<1>. QED BY <1>2, <1>3, <1>4, Zenon DEF InFront, Behind

\* The messages of one type, with one more behind.
LEMMA SelectBack ==
  ASSUME NEW S, NEW m \in S, NEW s \in Seq(S), NEW t
  PROVE  Behind(m, s, t)
<1>. DEFINE u == s \o <<m>>
<1>1. <<m>> \in Seq(S) /\ OfType(s, t) \in Seq(S)
  BY SelectedAre
<1>2. OfType(u, t) = OfType(s, t) \o OfType(<<m>>, t)
  <2>. DEFINE v == <<m>>
  <2>1. v \in Seq(S) /\ u = s \o v
    BY <1>1
  <2>. HIDE DEF v
  <2>3. Distributes(s, v, t)
    BY <2>1, SelectConcat
  <2>2. OfType(s \o v, t) = OfType(s, t) \o OfType(v, t)
    BY <2>3 DEF Distributes
  <2>. QED BY <2>1, <2>2 DEF v
<1>3. OfType(<<m>>, t) = IF m.type = t THEN <<m>> ELSE <<>>
  BY SelectOne
<1>4. OfType(s, t) \o <<>> = OfType(s, t)
  <2>. DEFINE q == OfType(s, t)
  <2>1. q \in Seq(S)
    BY <1>1
  <2>. HIDE DEF q
  <2>2. q \o <<>> = q
    BY <2>1
  <2>. QED BY <2>2 DEF q
<1>. QED BY <1>2, <1>3, <1>4, Zenon DEF InFront, Behind

\* The requests under way are those on the belt and the one not yet taken.
LEMMA OutboundParts ==
  ASSUME TypesOK, NEW t
  PROVE  Outbound(t) = OfType(Leaving, t) \o OfType(requests, t)
<1>1. Leaving \in Seq(ToNode) /\ requests \in Seq(ToNode)
  BY BeltsTyped
<1>2. OfType(Leaving \o requests, t) = OfType(Leaving, t) \o OfType(requests, t)
  <2>1. Distributes(Leaving, requests, t)
    BY <1>1, SelectConcat
  <2>. QED BY <2>1 DEF Distributes
<1>. QED BY <1>2, Zenon DEF Outbound

\* Their types.
LEMMA ViewsTyped ==
  ASSUME TypesOK
  PROVE  /\ Hs \in Seq([type : {"headers"}, from : Nat, to : Nat])
         /\ Bs \in Seq([type : {"block"}, height : Nat])
         /\ Gs \in Seq([type : {"getheaders"}, from : Nat])
         /\ Ds \in Seq([type : {"getdata"}, list : Seq(Nat) \ {<<>>}])
<1>1. Line \in Seq(FromNode) /\ Leaving \o requests \in Seq(ToNode)
  BY BeltsTyped
<1>2. ASSUME NEW S, NEW T, NEW q \in Seq(S), \A i \in 1..Len(q) : q[i] \in T
      PROVE  q \in Seq(T)
  <2>1. Len(q) \in Nat /\ q = [i \in 1..Len(q) |-> q[i]]
    OBVIOUS
  <2>. QED BY <1>2, <2>1
<1>3. ASSUME NEW S, NEW T, NEW s \in Seq(S), NEW t, \A m \in S : m.type = t => m \in T
      PROVE  OfType(s, t) \in Seq(T)
  <2>. DEFINE q == OfType(s, t)
  <2>1. q \in Seq(S) /\ \A i \in 1..Len(q) : q[i].type = t
    BY SelectedAre
  <2>. HIDE DEF q
  <2>2. \A i \in 1..Len(q) : q[i] \in S
    BY <2>1
  <2>3. \A i \in 1..Len(q) : q[i] \in T
    BY <1>3, <2>1, <2>2
  <2>4. q \in Seq(T)
    BY <1>2, <2>1, <2>3
  <2>. QED BY <2>4 DEF q
<1>4. /\ \A m \in FromNode : m.type = "headers" => m \in [type : {"headers"}, from : Nat, to : Nat]
      /\ \A m \in FromNode : m.type = "block" => m \in [type : {"block"}, height : Nat]
  BY DEF FromNode, Relay
<1>5. /\ \A m \in ToNode : m.type = "getheaders" => m \in [type : {"getheaders"}, from : Nat]
      /\ \A m \in ToNode : m.type = "getdata" => m \in [type : {"getdata"}, list : Seq(Nat) \ {<<>>}]
  BY DEF ToNode, Request
<1>6. Hs \in Seq([type : {"headers"}, from : Nat, to : Nat])
  BY <1>1, <1>3, <1>4 DEF Hs
<1>7. Bs \in Seq([type : {"block"}, height : Nat])
  BY <1>1, <1>3, <1>4 DEF Bs
<1>8. Gs \in Seq([type : {"getheaders"}, from : Nat])
  BY <1>1, <1>3, <1>5 DEF Gs, Outbound
<1>9. Ds \in Seq([type : {"getdata"}, list : Seq(Nat) \ {<<>>}])
  BY <1>1, <1>3, <1>5 DEF Ds, Outbound
<1>. QED BY <1>6, <1>7, <1>8, <1>9

\* The same of the next state.
LEMMA BeltsTypedNext ==
  TypesOK' => (Line' \in Seq(FromNode) /\ Leaving' \in Seq(ToNode) /\ requests' \in Seq(ToNode))
<1>1. TypesOK => (Line \in Seq(FromNode) /\ Leaving \in Seq(ToNode) /\ requests \in Seq(ToNode))
  BY BeltsTyped
<1>2. TypesOK' => (Line \in Seq(FromNode) /\ Leaving \in Seq(ToNode) /\ requests \in Seq(ToNode))'
  BY <1>1, PTL
<1>. QED BY <1>2

\* The same of the next state.
LEMMA OutboundPartsNext ==
  ASSUME NEW t
  PROVE  TypesOK' => Outbound(t)' = OfType(Leaving', t) \o OfType(requests', t)
<1>1. TypesOK => Outbound(t) = OfType(Leaving, t) \o OfType(requests, t)
  BY OutboundParts
<1>2. TypesOK' => (Outbound(t) = OfType(Leaving, t) \o OfType(requests, t))'
  BY <1>1, PTL
<1>. QED BY <1>2

\* The same of the next state.
LEMMA ViewsTypedNext ==
  TypesOK' => /\ Hs' \in Seq([type : {"headers"}, from : Nat, to : Nat])
              /\ Bs' \in Seq([type : {"block"}, height : Nat])
              /\ Gs' \in Seq([type : {"getheaders"}, from : Nat])
              /\ Ds' \in Seq([type : {"getdata"}, list : Seq(Nat) \ {<<>>}])
<1>1. TypesOK => /\ Hs \in Seq([type : {"headers"}, from : Nat, to : Nat])
                 /\ Bs \in Seq([type : {"block"}, height : Nat])
                 /\ Gs \in Seq([type : {"getheaders"}, from : Nat])
                 /\ Ds \in Seq([type : {"getdata"}, list : Seq(Nat) \ {<<>>}])
  BY ViewsTyped
<1>2. TypesOK' => (/\ Hs \in Seq([type : {"headers"}, from : Nat, to : Nat])
                   /\ Bs \in Seq([type : {"block"}, height : Nat])
                   /\ Gs \in Seq([type : {"getheaders"}, from : Nat])
                   /\ Ds \in Seq([type : {"getdata"}, list : Seq(Nat) \ {<<>>}]))'
  BY <1>1, PTL
<1>. QED BY <1>2

\* The line loses its first message, or gets one more.
LEMMA LineViews ==
  ASSUME TypesOK, TypesOK', NEW m \in FromNode
  PROVE  /\ Line' = Line => Hs' = Hs /\ Bs' = Bs /\ Is' = Is
         /\ Line = <<m>> \o Line' =>
              /\ Hs = IF m.type = "headers" THEN <<m>> \o Hs' ELSE Hs'
              /\ Bs = IF m.type = "block" THEN <<m>> \o Bs' ELSE Bs'
              /\ Is = IF m.type = "inv" THEN <<m>> \o Is' ELSE Is'
         /\ Line' = Line \o <<m>> =>
              /\ Hs' = IF m.type = "headers" THEN Hs \o <<m>> ELSE Hs
              /\ Bs' = IF m.type = "block" THEN Bs \o <<m>> ELSE Bs
              /\ Is' = IF m.type = "inv" THEN Is \o <<m>> ELSE Is
<1>. DEFINE l == Line
            k == Line'
<1>1. l \in Seq(FromNode) /\ k \in Seq(FromNode)
  BY BeltsTyped, BeltsTypedNext
<1>2. /\ Hs = OfType(l, "headers") /\ Bs = OfType(l, "block") /\ Is = OfType(l, "inv")
      /\ Hs' = OfType(k, "headers") /\ Bs' = OfType(k, "block") /\ Is' = OfType(k, "inv")
  BY DEF Hs, Bs, Is
<1>. HIDE DEF l, k
<1>3. ASSUME l = <<m>> \o k, NEW t
      PROVE  OfType(l, t) = IF m.type = t THEN <<m>> \o OfType(k, t) ELSE OfType(k, t)
  <2>1. InFront(m, k, t)
    BY <1>1, SelectFront
  <2>. QED BY <1>3, <2>1, Zenon DEF InFront
<1>4. ASSUME k = l \o <<m>>, NEW t
      PROVE  OfType(k, t) = IF m.type = t THEN OfType(l, t) \o <<m>> ELSE OfType(l, t)
  <2>1. Behind(m, l, t)
    BY <1>1, SelectBack
  <2>. QED BY <1>4, <2>1, Zenon DEF Behind
<1>5. k = l => Hs' = Hs /\ Bs' = Bs /\ Is' = Is
  BY <1>2
<1>6. l = <<m>> \o k =>
              /\ Hs = IF m.type = "headers" THEN <<m>> \o Hs' ELSE Hs'
              /\ Bs = IF m.type = "block" THEN <<m>> \o Bs' ELSE Bs'
              /\ Is = IF m.type = "inv" THEN <<m>> \o Is' ELSE Is'
  BY <1>2, <1>3, Zenon
<1>7. k = l \o <<m>> =>
              /\ Hs' = IF m.type = "headers" THEN Hs \o <<m>> ELSE Hs
              /\ Bs' = IF m.type = "block" THEN Bs \o <<m>> ELSE Bs
              /\ Is' = IF m.type = "inv" THEN Is \o <<m>> ELSE Is
  BY <1>2, <1>4, Zenon
<1>. QED BY <1>5, <1>6, <1>7, Zenon DEF l, k

\* The same of the belt to the node, with one request waiting or none.
LEMMA LeavingViews ==
  ASSUME TypesOK, TypesOK', NEW m \in ToNode, requests' = requests, NEW t
  PROVE  /\ Leaving' = Leaving => Outbound(t)' = Outbound(t)
         /\ Leaving' = Leaving \o <<m>> /\ m.type # t => Outbound(t)' = Outbound(t)
         /\ Leaving = <<m>> \o Leaving' =>
              Outbound(t) = IF m.type = t THEN <<m>> \o Outbound(t)' ELSE Outbound(t)'
<1>. DEFINE l == Leaving
            k == Leaving'
            r == requests
<1>1. l \in Seq(ToNode) /\ k \in Seq(ToNode) /\ r \in Seq(ToNode)
  BY BeltsTyped, BeltsTypedNext
<1>2. Outbound(t) = OfType(l, t) \o OfType(r, t) /\ Outbound(t)' = OfType(k, t) \o OfType(r, t)
  BY OutboundParts, OutboundPartsNext
<1>. HIDE DEF l, k, r
<1>3. k = l => Outbound(t)' = Outbound(t)
  BY <1>2
<1>4. k = l \o <<m>> /\ m.type # t => Outbound(t)' = Outbound(t)
  <2>1. ASSUME k = l \o <<m>>
        PROVE  OfType(k, t) = IF m.type = t THEN OfType(l, t) \o <<m>> ELSE OfType(l, t)
    <3>1. Behind(m, l, t)
      BY <1>1, SelectBack
    <3>. QED BY <2>1, <3>1, Zenon DEF Behind
  <2>. QED BY <1>2, <2>1, Zenon
<1>5. l = <<m>> \o k => Outbound(t) = IF m.type = t THEN <<m>> \o Outbound(t)' ELSE Outbound(t)'
  <2>1. ASSUME l = <<m>> \o k
        PROVE  OfType(l, t) = IF m.type = t THEN <<m>> \o OfType(k, t) ELSE OfType(k, t)
    <3>1. InFront(m, k, t)
      BY <1>1, SelectFront
    <3>. QED BY <2>1, <3>1, Zenon DEF InFront
  <2>. DEFINE a == OfType(k, t)
              b == OfType(r, t)
              c == <<m>>
  <2>2. a \in Seq(ToNode) /\ b \in Seq(ToNode) /\ c \in Seq(ToNode)
    BY <1>1, SelectedAre
  <2>. HIDE DEF a, b, c
  <2>3. (c \o a) \o b = c \o (a \o b)
    BY <2>2
  <2>. QED BY <1>2, <2>1, <2>3, Zenon DEF a, b, c
<1>. QED BY <1>3, <1>4, <1>5, Zenon DEF l, k

\* A request is put into the channel, or taken by the handler.
LEMMA RequestViews ==
  ASSUME TypesOK, TypesOK', NEW r \in Request, NEW t
  PROVE  /\ requests = <<r>> /\ requests' = <<>> /\ Leaving' = Leaving \o <<r>> =>
              Outbound(t)' = Outbound(t)
         /\ requests = <<>> /\ requests' = <<r>> /\ Leaving' = Leaving =>
              Outbound(t)' = IF r.type = t THEN Outbound(t) \o <<r>> ELSE Outbound(t)
<1>. DEFINE l == Leaving
            a == OfType(l, t)
            q == OfType(<<r>>, t)
<1>1. r \in ToNode /\ l \in Seq(ToNode)
  BY MessageFacts, BeltsTyped
<1>2. Outbound(t) = OfType(l, t) \o OfType(requests, t)
      /\ Outbound(t)' = OfType(Leaving', t) \o OfType(requests', t)
  BY OutboundParts, OutboundPartsNext
<1>3. OfType(<<>>, t) = <<>> /\ OfType(<<r>>, t) = IF r.type = t THEN <<r>> ELSE <<>>
  BY <1>1, SelectOne
<1>4. a \in Seq(ToNode) /\ <<>> \in Seq(ToNode)
  BY <1>1, SelectedAre
<1>. HIDE DEF l
<1>5. a \o <<>> = a
  <2>. HIDE DEF a
  <2>. QED BY <1>4
<1>6. ASSUME requests = <<r>>, requests' = <<>>, Leaving' = l \o <<r>>
      PROVE  Outbound(t)' = Outbound(t)
  <2>1. Behind(r, l, t)
    BY <1>1, SelectBack
  <2>2. OfType(l \o <<r>>, t) = IF r.type = t THEN a \o <<r>> ELSE a
    BY <2>1, Zenon DEF Behind
  <2>3. Outbound(t) = a \o q
    BY <1>2, <1>6, Zenon
  <2>4. Outbound(t)' = OfType(l \o <<r>>, t) \o <<>>
    BY <1>2, <1>3, <1>6, Zenon
  <2>5. CASE r.type = t
    <3>1. a \o <<r>> \in Seq(ToNode)
      <4>. HIDE DEF a
      <4>. QED BY <1>1, <1>4
    <3>. DEFINE b == a \o <<r>>
    <3>2. b \o <<>> = b
      <4>1. b \in Seq(ToNode)
        BY <3>1
      <4>. HIDE DEF b
      <4>. QED BY <4>1
    <3>. QED BY <1>3, <2>2, <2>3, <2>4, <2>5, <3>2, Zenon
  <2>6. CASE r.type # t
    BY <1>3, <1>5, <2>2, <2>3, <2>4, <2>6, Zenon
  <2>. QED BY <2>5, <2>6
<1>7. ASSUME requests = <<>>, requests' = <<r>>, Leaving' = l
      PROVE  Outbound(t)' = IF r.type = t THEN Outbound(t) \o <<r>> ELSE Outbound(t)
  <2>1. Outbound(t) = a /\ Outbound(t)' = a \o q
    BY <1>2, <1>3, <1>5, <1>7, Zenon
  <2>. QED BY <1>3, <1>5, <2>1, Zenon
<1>. QED BY <1>6, <1>7, Zenon DEF l

\* What is left after a loss.
Fewer(a, b) == Len(a) <= Len(b) /\ \A i \in 1..Len(a) : \E j \in 1..Len(b) : a[i] = b[j]
PrefixOf(a, b) == Len(a) <= Len(b) /\ \A i \in 1..Len(a) : a[i] = b[i]

\* A part of a sequence has fewer elements, and its front is a prefix.
LEMMA FewerParts ==
  ASSUME NEW S, NEW a \in Seq(S), NEW b \in Seq(S), NEW c \in Seq(S)
  PROVE  Fewer(b \o c, (a \o b) \o c) /\ Fewer(a, (a \o b) \o c) /\ PrefixOf(a, a \o b)
<1>1. Fewer(b \o c, (a \o b) \o c)
  <2>. DEFINE d == b \o c
              e == (a \o b) \o c
              A == Len(a)
  <2>1. /\ d \in Seq(S) /\ e \in Seq(S) /\ A \in Nat /\ Len(e) = A + Len(d)
        /\ \A i \in 1..Len(d) : e[A + i] = d[i]
    OBVIOUS
  <2>. HIDE DEF d, e, A
  <2>2. ASSUME NEW i \in 1..Len(d) PROVE \E j \in 1..Len(e) : d[i] = e[j]
    <3>1. A + i \in 1..Len(e) /\ e[A + i] = d[i]
      BY <2>1
    <3>. QED BY <3>1
  <2>3. Len(d) <= Len(e)
    BY <2>1
  <2>. QED BY <2>2, <2>3 DEF Fewer, d, e
<1>2. Fewer(a, (a \o b) \o c)
  <2>. DEFINE e == (a \o b) \o c
  <2>1. e \in Seq(S) /\ Len(e) >= Len(a) /\ \A i \in 1..Len(a) : e[i] = a[i]
    OBVIOUS
  <2>. HIDE DEF e
  <2>2. \A i \in 1..Len(a) : i \in 1..Len(e)
    BY <2>1
  <2>3. Len(a) <= Len(e)
    BY <2>1
  <2>. QED BY <2>1, <2>2, <2>3 DEF Fewer, e
<1>3. PrefixOf(a, a \o b)
  BY DEF PrefixOf
<1>. QED BY <1>1, <1>2, <1>3

\* Messages at either end of the belt to the node are lost.
LEMMA LossViews ==
  ASSUME TypesOK, TypesOK', NEW x \in Seq(ToNode), NEW t
  PROVE  /\ Leaving = x \o Leaving' /\ requests' = requests => Fewer(Outbound(t)', Outbound(t))
         /\ Leaving = Leaving' \o x /\ requests' = <<>> => Fewer(Outbound(t)', Outbound(t))
<1>. DEFINE k == Leaving'
            a == OfType(k, t)
            b == OfType(x, t)
            c == OfType(requests, t)
<1>1. k \in Seq(ToNode) /\ requests \in Seq(ToNode)
  BY BeltsTyped, BeltsTypedNext
<1>2. a \in Seq(ToNode) /\ b \in Seq(ToNode) /\ c \in Seq(ToNode)
  BY <1>1, SelectedAre
<1>3. Outbound(t) = OfType(Leaving, t) \o c /\ Outbound(t)' = a \o OfType(requests', t)
  BY OutboundParts, OutboundPartsNext
<1>. HIDE DEF k
<1>4. OfType(x \o k, t) = b \o a /\ OfType(k \o x, t) = a \o b
  <2>1. Distributes(x, k, t) /\ Distributes(k, x, t)
    BY <1>1, SelectConcat
  <2>. QED BY <2>1 DEF Distributes
<1>5. ASSUME Leaving = x \o k, requests' = requests PROVE Fewer(Outbound(t)', Outbound(t))
  <2>1. Outbound(t) = (b \o a) \o c /\ Outbound(t)' = a \o c
    BY <1>3, <1>4, <1>5, Zenon
  <2>2. Fewer(a \o c, (b \o a) \o c)
    <3>. HIDE DEF a, b, c
    <3>. QED BY <1>2, FewerParts
  <2>. QED BY <2>1, <2>2, Zenon
<1>6. ASSUME Leaving = k \o x, requests' = <<>> PROVE Fewer(Outbound(t)', Outbound(t))
  <2>1. OfType(<<>>, t) = <<>>
    <3>1. Plain("verack") \in ToNode
      BY DEF Plain, ToNode
    <3>. QED BY <3>1, SelectOne
  <2>2. Outbound(t) = (a \o b) \o c /\ Outbound(t)' = a \o <<>>
    BY <1>3, <1>4, <1>6, <2>1, Zenon
  <2>3. Fewer(a, (a \o b) \o c) /\ a \o <<>> = a
    <3>. HIDE DEF a, b, c
    <3>. QED BY <1>2, FewerParts
  <2>. QED BY <2>2, <2>3, Zenon
<1>. QED BY <1>5, <1>6 DEF k

\* The end of the line is lost.
LEMMA CutViews ==
  ASSUME TypesOK, TypesOK', NEW x \in Seq(FromNode), Line = Line' \o x
  PROVE  PrefixOf(Hs', Hs) /\ PrefixOf(Bs', Bs)
<1>. DEFINE k == Line'
<1>1. k \in Seq(FromNode)
  BY BeltsTypedNext
<1>2. ASSUME NEW t PROVE PrefixOf(OfType(k, t), OfType(Line, t))
  <2>. DEFINE a == OfType(k, t)
              b == OfType(x, t)
  <2>1. a \in Seq(FromNode) /\ b \in Seq(FromNode)
    BY <1>1, SelectedAre
  <2>2. OfType(k \o x, t) = a \o b
    <3>. HIDE DEF k
    <3>1. Distributes(k, x, t)
      BY <1>1, SelectConcat
    <3>. QED BY <3>1 DEF Distributes
  <2>3. PrefixOf(a, a \o b)
    <3>. HIDE DEF a, b
    <3>. QED BY <2>1, FewerParts
  <2>. QED BY <2>2, <2>3
<1>. QED BY <1>2 DEF Hs, Bs

\* The selection from the first of three parts.
Splits(v, x, c, t) == OfType(v \o x, t) \o c = OfType(v, t) \o (OfType(x, t) \o c)

\* The messages of one type on two belts, one behind the other.
LEMMA SplitViews ==
  ASSUME NEW S, NEW v \in Seq(S), NEW x \in Seq(S), NEW c \in Seq(S), NEW t
  PROVE  Splits(v, x, c, t) /\ OfType(x, t) \o c \in Seq(S)
<1>. DEFINE a == OfType(v, t)
            b == OfType(x, t)
<1>1. a \in Seq(S) /\ b \in Seq(S)
  BY SelectedAre
<1>2. OfType(v \o x, t) = a \o b
  <2>1. Distributes(v, x, t)
    BY SelectConcat
  <2>. QED BY <2>1 DEF Distributes
<1>3. (a \o b) \o c = a \o (b \o c) /\ b \o c \in Seq(S)
  <2>. HIDE DEF a, b
  <2>. QED BY <1>1
<1>. QED BY <1>2, <1>3, Zenon DEF Splits

\* The node takes one message off the belt, perhaps with something left in its place.
Starts(v, x, s) == s = v \o x
Exchanged(v, r, t, a, b) == \E y \in Seq(ToNode) : a = OfType(v, t) \o y /\ b = OfType(r, t) \o y

\* When the front of what leaves is exchanged, so is that of each type.
LEMMA AnsweredViews ==
  ASSUME TypesOK, TypesOK', NEW v \in Seq(ToNode), NEW r \in Seq(ToNode), NEW x \in Seq(ToNode),
         Starts(v, x, Leaving), Starts(r, x, Leaving'), requests' = requests, NEW t
  PROVE  Exchanged(v, r, t, Outbound(t), Outbound(t)')
<1>. DEFINE c == OfType(requests, t)
            y == OfType(x, t) \o c
<1>1. c \in Seq(ToNode)
  BY BeltsTyped, SelectedAre
<1>2. Outbound(t) = OfType(Leaving, t) \o c /\ Outbound(t)' = OfType(Leaving', t) \o OfType(requests', t)
  BY OutboundParts, OutboundPartsNext
<1>. HIDE DEF c
<1>3. Splits(v, x, c, t) /\ Splits(r, x, c, t) /\ y \in Seq(ToNode)
  BY <1>1, SplitViews
<1>4. Outbound(t) = OfType(v, t) \o y
  BY <1>2, <1>3, Zenon DEF Splits, Starts
<1>5. Outbound(t)' = OfType(r, t) \o y
  BY <1>2, <1>3, Zenon DEF Splits, Starts, c
<1>. HIDE DEF y
<1>. QED BY <1>3, <1>4, <1>5 DEF Exchanged

\* h is m before k; k is h and then m.
First(m, k, h) == h = <<m>> \o k
Then(h, m, k) == k = h \o <<m>>
Adds(a, m, b) == b = Append(a, m)

(***************************************************************************)
(* Answers to a request for headers: a is what the worker's channel holds, *)
(* h what arrives and g what is asked for.                                 *)
(***************************************************************************)

HeadersMessage == [type : {"headers"}, from : Nat, to : Nat]
HeadersRequest == [type : {"getheaders"}, from : Nat]

Total(a, h, g) == Len(a) + Len(h) + Len(g)
AsMany(a, h, g, b, k, e) == Total(b, k, e) = Total(a, h, g)

OneAnswer(from, a, h, g) ==
  /\ Total(a, h, g) <= 1
  /\ \A i \in 1..Len(a) : a[i].from = from
  /\ \A i \in 1..Len(h) : h[i].from = from
  /\ \A i \in 1..Len(g) : g[i].from = from

\* The answer moves on, comes, is taken, or is lost.
LEMMA AnswerMoves ==
  ASSUME NEW from, NEW a \in Seq(HeadersMessage), NEW m \in HeadersMessage, NEW k \in Seq(HeadersMessage), NEW h,
         NEW b, NEW g \in Seq(HeadersRequest), First(m, k, h), Adds(a, m, b), OneAnswer(from, a, h, g)
  PROVE  OneAnswer(from, b, k, g) /\ AsMany(a, h, g, b, k, g)
<1>1. h \in Seq(HeadersMessage) /\ Len(h) = 1 + Len(k) /\ h[1] = m /\ Len(k) \in Nat /\ Len(a) \in Nat /\ Len(g) \in Nat
  BY DEF First
<1>2. Len(k) = 0 /\ Len(a) = 0 /\ Len(g) = 0 /\ m.from = from
  BY <1>1 DEF OneAnswer, Total
<1>3. Len(Append(a, m)) = 1 /\ Append(a, m)[1] = m
  <2>1. Len(Append(a, m)) = Len(a) + 1 /\ Append(a, m)[Len(a) + 1] = m
    OBVIOUS
  <2>. QED BY <1>2, <2>1
<1>4. Len(b) = 1 /\ b[1] = m
  BY <1>3, Zenon DEF Adds
<1>. QED BY <1>1, <1>2, <1>4 DEF OneAnswer, Total, AsMany

\* A request is answered from where it asks: one answer is still under way.
LEMMA AnswerComes ==
  ASSUME NEW from, NEW a \in Seq(HeadersMessage), NEW h \in Seq(HeadersMessage), NEW k \in HeadersMessage,
         NEW m \in HeadersRequest, NEW e \in Seq(HeadersRequest), NEW g, First(m, e, g), NEW b, Then(h, k, b),
         OneAnswer(from, a, h, g), k.from = m.from
  PROVE  OneAnswer(from, a, b, e) /\ AsMany(a, h, g, a, b, e)
<1>1. g \in Seq(HeadersRequest) /\ Len(g) = 1 + Len(e) /\ g[1] = m /\ Len(e) \in Nat /\ Len(a) \in Nat /\ Len(h) \in Nat
  BY DEF First
<1>2. Len(e) = 0 /\ Len(a) = 0 /\ Len(h) = 0 /\ m.from = from
  BY <1>1 DEF OneAnswer, Total
<1>3. Len(h \o <<k>>) = 1 /\ (h \o <<k>>)[1] = k
  <2>. DEFINE v == h \o <<k>>
  <2>1. Len(v) = Len(h) + 1 /\ v[Len(h) + 1] = k
    OBVIOUS
  <2>2. Len(h) + 1 = 1
    BY <1>2
  <2>. HIDE DEF v
  <2>3. Len(v) = 1 /\ v[1] = k
    BY <2>1, <2>2, Zenon
  <2>. QED BY <2>3 DEF v
<1>4. Len(b) = 1 /\ b[1] = k
  BY <1>3, Zenon DEF Then
<1>. QED BY <1>1, <1>2, <1>4 DEF OneAnswer, Total, AsMany

\* When messages are lost at most one answer is under way.
LEMMA AnswerLost ==
  ASSUME NEW S, NEW T, NEW from, NEW a \in Seq(S), NEW h \in Seq(S), NEW g \in Seq(T),
         NEW k \in Seq(S), NEW e \in Seq(T), PrefixOf(k, h), Fewer(e, g), OneAnswer(from, a, h, g)
  PROVE  OneAnswer(from, a, k, e) /\ Total(a, k, e) <= Total(a, h, g)
<1>1. /\ Len(a) \in Nat /\ Len(h) \in Nat /\ Len(g) \in Nat /\ Len(k) \in Nat /\ Len(e) \in Nat
      /\ Len(k) <= Len(h) /\ Len(e) <= Len(g)
  BY DEF PrefixOf, Fewer
<1>2. \A i \in 1..Len(k) : i \in 1..Len(h) /\ k[i] = h[i]
  BY <1>1 DEF PrefixOf
<1>3. \A i \in 1..Len(e) : e[i].from = from
  BY DEF Fewer, OneAnswer
<1>4. Total(a, k, e) <= Total(a, h, g) /\ Total(a, h, g) <= 1 /\ Total(a, k, e) \in Nat /\ Total(a, h, g) \in Nat
  BY <1>1 DEF Total, OneAnswer
<1>5. Total(a, k, e) <= 1
  BY <1>4
<1>. QED BY <1>2, <1>3, <1>4, <1>5 DEF OneAnswer

\* A sequence is empty when its length is zero.
LEMMA NoneLeft ==
  ASSUME NEW S, NEW T, NEW a \in Seq(S), NEW h \in Seq(S), NEW g \in Seq(T)
  PROVE  /\ Total(a, h, g) \in Nat
         /\ Total(a, h, g) = 0 <=> (a = <<>> /\ h = <<>> /\ g = <<>>)
<1>1. Len(a) \in Nat /\ Len(h) \in Nat /\ Len(g) \in Nat
  OBVIOUS
<1>2. (Len(a) = 0 <=> a = <<>>) /\ (Len(h) = 0 <=> h = <<>>) /\ (Len(g) = 0 <=> g = <<>>)
  OBVIOUS
<1>. QED BY <1>1, <1>2 DEF Total

(***************************************************************************)
(* Answers to a request for the blocks want: g is what the worker has, b   *)
(* what its channel holds, c what arrives and d what is asked for.         *)
(***************************************************************************)

Asked(d) == IF d = <<>> THEN <<>> ELSE d[1].list
Sum(g, b, c, d) == Len(g) + Len(b) + Len(c) + Len(Asked(d))

InPlace(want, g, b, c, d) ==
  /\ Len(d) <= 1
  /\ Sum(g, b, c, d) <= Len(want)
  /\ \A i \in 1..Len(g) : g[i] \in {want[i], 0}
  /\ \A i \in 1..Len(b) : b[i] \in {want[Len(g) + i], 0}
  /\ \A i \in 1..Len(c) : c[i].height \in {want[Len(g) + Len(b) + i], 0}
  /\ \A i \in 1..Len(Asked(d)) : Asked(d)[i] = want[Len(want) - Len(Asked(d)) + i]

BlockMessage == [type : {"block"}, height : Nat]
BlocksRequest == [type : {"getdata"}, list : Seq(Nat) \ {<<>>}]

\* What is asked for.
LEMMA AskedTyped ==
  ASSUME NEW d \in Seq(BlocksRequest)
  PROVE  Asked(d) \in Seq(Nat) /\ (d # <<>> => Len(Asked(d)) # 0)
<1>1. CASE d = <<>>
  BY <1>1 DEF Asked
<1>2. CASE d # <<>>
  <2>1. d[1] \in BlocksRequest
    BY <1>2
  <2>2. Asked(d) = d[1].list /\ Asked(d) \in Seq(Nat) /\ Asked(d) # <<>>
    BY <1>2, <2>1 DEF Asked, BlocksRequest
  <2>. DEFINE q == Asked(d)
  <2>3. q \in Seq(Nat) /\ q # <<>>
    BY <2>2
  <2>. HIDE DEF q
  <2>4. Len(q) # 0
    BY <2>3
  <2>. QED BY <2>3, <2>4 DEF q
<1>. QED BY <1>1, <1>2

\* A block moves on from the line to the channel.
LEMMA BlockMoves ==
  ASSUME NEW want \in Seq(Nat), NEW g \in Seq(Nat), NEW b \in Seq(Nat), NEW m \in BlockMessage,
         NEW k \in Seq(BlockMessage), NEW c, First(m, k, c), NEW d \in Seq(BlocksRequest),
         InPlace(want, g, b, c, d), NEW e, Adds(b, m.height, e)
  PROVE  InPlace(want, g, e, k, d) /\ Sum(g, e, k, d) = Sum(g, b, c, d)
<1>. DEFINE x == m.height
            A == Len(g)
            B == Len(b)
            R == Asked(d)
<1>1. /\ A \in Nat /\ B \in Nat /\ Len(k) \in Nat /\ Len(c) = 1 + Len(k)
      /\ c[1] = m /\ \A i \in 1..Len(k) : c[i + 1] = k[i]
  BY DEF First
<1>2. x \in Nat
  BY DEF BlockMessage
<1>3. Len(e) = B + 1 /\ e[B + 1] = x /\ \A i \in 1..B : e[i] = b[i]
  <2>1. e = Append(b, x)
    BY DEF Adds
  <2>. HIDE DEF x
  <2>. QED BY <1>2, <2>1
<1>4. R \in Seq(Nat) /\ Len(R) \in Nat
  BY AskedTyped
<1>. HIDE DEF x, A, B, R
<1>5. /\ Len(d) <= 1 /\ A + B + Len(c) + Len(R) <= Len(want)
      /\ \A i \in 1..Len(g) : g[i] \in {want[i], 0}
      /\ \A i \in 1..B : b[i] \in {want[A + i], 0}
      /\ \A i \in 1..Len(c) : c[i].height \in {want[A + B + i], 0}
      /\ \A i \in 1..Len(R) : R[i] = want[Len(want) - Len(R) + i]
  BY DEF InPlace, Sum, A, B, R
<1>6. A + Len(e) + Len(k) + Len(R) = A + B + Len(c) + Len(R)
  BY <1>1, <1>3, <1>4
<1>7. ASSUME NEW i \in 1..Len(e) PROVE e[i] \in {want[A + i], 0}
  <2>1. CASE i \in 1..B
    BY <1>3, <1>5, <2>1
  <2>2. CASE i = B + 1
    <3>1. 1 \in 1..Len(c) /\ c[1].height = x /\ A + B + 1 = A + (B + 1)
      BY <1>1 DEF x
    <3>2. c[1].height \in {want[A + B + 1], 0}
      BY <1>5, <3>1
    <3>. QED BY <1>3, <2>2, <3>1, <3>2
  <2>. QED BY <1>1, <1>3, <2>1, <2>2
<1>8. ASSUME NEW i \in 1..Len(k) PROVE k[i].height \in {want[A + Len(e) + i], 0}
  <2>. DEFINE j == i + 1
  <2>0. c[i + 1] = k[i]
    BY <1>1
  <2>1. j \in 1..Len(c) /\ c[j] = k[i] /\ A + B + j = A + Len(e) + i
    <3>1. A + B + (i + 1) = A + (B + 1) + i /\ i + 1 \in 1..(1 + Len(k))
      BY <1>1
    <3>. QED BY <1>1, <1>3, <2>0, <3>1, Zenon
  <2>. HIDE DEF j
  <2>2. c[j].height \in {want[A + B + j], 0}
    BY <1>5, <2>1
  <2>. QED BY <2>1, <2>2
<1>9. InPlace(want, g, e, k, d)
  BY <1>5, <1>6, <1>7, <1>8 DEF InPlace, Sum, A, R
<1>. QED BY <1>6, <1>9 DEF Sum, A, B, R

\* The worker takes a block.
LEMMA BlockTaken ==
  ASSUME NEW want \in Seq(Nat), NEW g \in Seq(Nat), NEW b \in Seq(Nat), b # <<>>,
         NEW c \in Seq(BlockMessage), NEW d \in Seq(BlocksRequest), InPlace(want, g, b, c, d)
  PROVE  /\ InPlace(want, Append(g, Head(b)), Tail(b), c, d)
         /\ Sum(Append(g, Head(b)), Tail(b), c, d) = Sum(g, b, c, d)
<1>. DEFINE x == Head(b)
            f == Append(g, x)
            k == Tail(b)
            A == Len(g)
            R == Asked(d)
<1>1. /\ A \in Nat /\ Len(k) \in Nat /\ Len(b) = 1 + Len(k) /\ Len(c) \in Nat
      /\ b[1] = x /\ x \in Nat /\ k \in Seq(Nat)
  BY HeadTailProperties
<1>2. \A i \in 1..Len(k) : b[i + 1] = k[i]
  BY HeadTailProperties
<1>3. Len(f) = A + 1 /\ f[A + 1] = x /\ \A i \in 1..A : f[i] = g[i]
  BY <1>1
<1>4. R \in Seq(Nat) /\ Len(R) \in Nat
  BY AskedTyped
<1>. HIDE DEF x, f, k, A, R
<1>5. /\ Len(d) <= 1 /\ A + Len(b) + Len(c) + Len(R) <= Len(want)
      /\ \A i \in 1..A : g[i] \in {want[i], 0}
      /\ \A i \in 1..Len(b) : b[i] \in {want[A + i], 0}
      /\ \A i \in 1..Len(c) : c[i].height \in {want[A + Len(b) + i], 0}
      /\ \A i \in 1..Len(R) : R[i] = want[Len(want) - Len(R) + i]
  BY DEF InPlace, Sum, A, R
<1>6. Len(f) + Len(k) + Len(c) + Len(R) = A + Len(b) + Len(c) + Len(R)
      /\ Len(f) + Len(k) = A + Len(b)
  BY <1>1, <1>3, <1>4
<1>7. ASSUME NEW i \in 1..Len(f) PROVE f[i] \in {want[i], 0}
  <2>1. CASE i \in 1..A
    BY <1>3, <1>5, <2>1
  <2>2. CASE i = A + 1
    <3>1. 1 \in 1..Len(b)
      BY <1>1
    <3>2. b[1] \in {want[A + 1], 0}
      BY <1>5, <3>1
    <3>. QED BY <1>1, <1>3, <2>2, <3>2
  <2>. QED BY <1>1, <1>3, <2>1, <2>2
<1>8. ASSUME NEW i \in 1..Len(k) PROVE k[i] \in {want[Len(f) + i], 0}
  <2>. DEFINE j == i + 1
  <2>1. j \in 1..Len(b) /\ b[j] = k[i] /\ A + j = Len(f) + i
    <3>1. i + 1 \in 1..Len(b) /\ A + (i + 1) = Len(f) + i
      BY <1>1, <1>3
    <3>. QED BY <1>2, <3>1, Zenon
  <2>. HIDE DEF j
  <2>2. b[j] \in {want[A + j], 0}
    BY <1>5, <2>1
  <2>. QED BY <2>1, <2>2
<1>9. \A i \in 1..Len(c) : c[i].height \in {want[Len(f) + Len(k) + i], 0}
  BY <1>5, <1>6
<1>10. InPlace(want, f, k, c, d)
  BY <1>5, <1>6, <1>7, <1>8, <1>9 DEF InPlace, Sum, R
<1>. QED BY <1>6, <1>10 DEF Sum, f, x, k, A, R

\* What is left of a request after one block.
LEMMA RestAsked ==
  ASSUME NEW m \in BlocksRequest
  PROVE  /\ Rest(m) \in Seq(BlocksRequest) /\ Len(Rest(m)) <= 1
         /\ m.list \in Seq(Nat) /\ Len(m.list) \in Nat \ {0} /\ m.list[1] = Head(m.list)
         /\ Asked(Rest(m)) \in Seq(Nat) /\ Len(Asked(Rest(m))) = Len(m.list) - 1
         /\ \A i \in 1..Len(Asked(Rest(m))) : Asked(Rest(m))[i] = m.list[i + 1]
<1>. DEFINE l == m.list
<1>1. l \in Seq(Nat) /\ l # <<>>
  BY DEF BlocksRequest
<1>. HIDE DEF l
<1>2. Len(l) \in Nat \ {0} /\ l[1] = Head(l)
  BY <1>1
<1>3. Tail(l) \in Seq(Nat) /\ Len(Tail(l)) = Len(l) - 1 /\ \A i \in 1..Len(Tail(l)) : Tail(l)[i] = l[i + 1]
  BY <1>1, HeadTailProperties
<1>4. CASE Len(l) = 1
  <2>1. Rest(m) = <<>>
    BY <1>4 DEF Rest, l
  <2>2. Asked(Rest(m)) = <<>>
    BY <2>1 DEF Asked
  <2>3. /\ <<>> \in Seq(BlocksRequest) /\ <<>> \in Seq(Nat) /\ Len(<<>>) = 0
        /\ \A i \in 1..Len(<<>>) : <<>>[i] = l[i + 1]
    OBVIOUS
  <2>4. Len(<<>>) <= 1 /\ Len(<<>>) = Len(l) - 1
    BY <1>4, <2>3
  <2>. QED BY <1>1, <1>2, <2>1, <2>2, <2>3, <2>4, Zenon DEF l
<1>5. CASE Len(l) # 1
  <2>. DEFINE t == Tail(l)
              q == GetData(t)
  <2>1. t \in Seq(Nat) /\ Len(t) # 0
    BY <1>2, <1>3, <1>5
  <2>. HIDE DEF t
  <2>2. t # <<>>
    BY <2>1
  <2>3. q \in BlocksRequest /\ q.list = t
    BY <2>1, <2>2 DEF GetData, BlocksRequest
  <2>. HIDE DEF q
  <2>4. Rest(m) = <<q>>
    BY <1>5 DEF Rest, l, q, t
  <2>5. <<q>> \in Seq(BlocksRequest) /\ Len(<<q>>) = 1 /\ <<q>> # <<>> /\ <<q>>[1] = q
    BY <2>3
  <2>6. Asked(Rest(m)) = t
    BY <2>3, <2>4, <2>5, Zenon DEF Asked
  <2>7. t \in Seq(Nat) /\ Len(t) = Len(l) - 1 /\ \A i \in 1..Len(t) : t[i] = l[i + 1]
    BY <1>3 DEF t
  <2>8. Len(<<q>>) <= 1
    BY <2>5
  <2>. QED BY <1>1, <1>2, <2>4, <2>5, <2>6, <2>7, <2>8, Zenon DEF l
<1>. QED BY <1>4, <1>5

\* The request for blocks under way is the only one.
LEMMA OnlyRequest ==
  ASSUME NEW m \in BlocksRequest, NEW y \in Seq(BlocksRequest), NEW d, d = <<m>> \o y, Len(d) <= 1
  PROVE  y = <<>> /\ Asked(d) = m.list
<1>1. d \in Seq(BlocksRequest) /\ Len(d) = 1 + Len(y) /\ d[1] = m /\ Len(y) \in Nat
  OBVIOUS
<1>2. Len(y) = 0
  BY <1>1
<1>3. y = <<>>
  BY <1>2
<1>4. d # <<>>
  BY <1>1
<1>. QED BY <1>1, <1>3, <1>4 DEF Asked

\* The node sends a block.
LEMMA BlockComes ==
  ASSUME NEW want \in Seq(Nat), NEW g \in Seq(Nat), NEW b \in Seq(Nat), NEW c \in Seq(BlockMessage),
         NEW m \in BlocksRequest, NEW d \in Seq(BlocksRequest), Asked(d) = m.list,
         InPlace(want, g, b, c, d), NEW h \in {Head(m.list), 0}, NEW e
  PROVE  /\ InPlace(want, g, b, c, Rest(m))
         /\ (Then(c, BlockMsg(h), e) /\ Sum(g, b, c, d) = Len(want)) =>
              InPlace(want, g, b, e, Rest(m)) /\ Sum(g, b, e, Rest(m)) = Len(want)
<1>. DEFINE A == Len(g)
            B == Len(b)
            l == m.list
            R == Asked(Rest(m))
            x == BlockMsg(h)
            k == c \o <<x>>
            C == Len(c)
            N == Len(want)
<1>1. /\ Len(Rest(m)) <= 1 /\ Len(l) \in Nat \ {0} /\ l[1] = Head(l) /\ R \in Seq(Nat)
      /\ Len(R) = Len(l) - 1 /\ \A i \in 1..Len(R) : R[i] = l[i + 1]
  BY RestAsked
<1>2. A \in Nat /\ B \in Nat /\ C \in Nat /\ N \in Nat /\ h \in Nat
  BY SMTT(30), RestAsked
<1>3. x \in BlockMessage /\ x.height = h
  BY <1>2 DEF BlockMsg, BlockMessage
<1>4. Len(k) = C + 1 /\ k[C + 1] = x /\ \A i \in 1..C : k[i] = c[i]
  <2>. HIDE DEF x
  <2>. QED BY <1>3
<1>. HIDE DEF A, B, l, R, x, k, C, N
<1>5. /\ A + B + C + Len(l) <= N
      /\ \A i \in 1..A : g[i] \in {want[i], 0}
      /\ \A i \in 1..B : b[i] \in {want[A + i], 0}
      /\ \A i \in 1..C : c[i].height \in {want[A + B + i], 0}
      /\ \A i \in 1..Len(l) : l[i] = want[N - Len(l) + i]
  BY DEF InPlace, Sum, A, B, l, C, N
<1>6. ASSUME NEW i \in 1..Len(R) PROVE R[i] = want[N - Len(R) + i]
  <2>. DEFINE j == i + 1
  <2>1. j \in 1..Len(l) /\ R[i] = l[j] /\ N - Len(l) + j = N - Len(R) + i
    BY <1>1, <1>2
  <2>. HIDE DEF j
  <2>2. l[j] = want[N - Len(l) + j]
    BY <1>5, <2>1
  <2>. QED BY <2>1, <2>2
<1>7. A + B + C + Len(R) <= N
  BY <1>1, <1>2, <1>5
<1>8. InPlace(want, g, b, c, Rest(m))
  BY <1>1, <1>5, <1>6, <1>7 DEF InPlace, Sum, A, B, C, N, R
<1>9. ASSUME A + B + C + Len(l) = N
      PROVE  InPlace(want, g, b, k, Rest(m)) /\ A + B + Len(k) + Len(R) = N
  <2>. DEFINE n == Len(l)
  <2>0. n \in Nat /\ n # 0 /\ Len(R) = n - 1 /\ Len(k) = C + 1 /\ A + B + C + n = N
    BY <1>1, <1>4, <1>9
  <2>. HIDE DEF n
  <2>1. A + B + Len(k) + Len(R) = N /\ A + B + Len(k) + Len(R) <= N
    BY <1>2, <2>0
  <2>2. ASSUME NEW i \in 1..Len(k) PROVE k[i].height \in {want[A + B + i], 0}
    <3>1. CASE i \in 1..C
      BY <1>4, <1>5, <3>1
    <3>2. CASE i = C + 1
      <4>0. 1 \in 1..n /\ N - n + 1 = A + B + (C + 1)
        BY <1>2, <2>0
      <4>1. 1 \in 1..Len(l) /\ N - Len(l) + 1 = A + B + (C + 1)
        BY <4>0 DEF n
      <4>2. l[1] = want[A + B + (C + 1)]
        BY <1>5, <4>1
      <4>3. h \in {l[1], 0}
        BY <1>1 DEF l
      <4>4. k[i].height = h
        BY <1>3, <1>4, <3>2
      <4>. QED BY <3>2, <4>2, <4>3, <4>4
    <3>3. i \in 1..C \/ i = C + 1
      BY <1>2, <2>0
    <3>. QED BY <3>1, <3>2, <3>3
  <2>3. InPlace(want, g, b, k, Rest(m))
    BY <1>1, <1>5, <1>6, <2>1, <2>2 DEF InPlace, Sum, A, B, N, R
  <2>. QED BY <2>1, <2>3
<1>10. ASSUME Then(c, BlockMsg(h), e), Sum(g, b, c, d) = Len(want)
       PROVE  InPlace(want, g, b, e, Rest(m)) /\ Sum(g, b, e, Rest(m)) = Len(want)
  <2>1. e = k
    BY <1>10, Zenon DEF Then, k, x
  <2>2. A + B + C + Len(l) = N
    BY <1>10 DEF Sum, A, B, C, N, l
  <2>. QED BY <1>9, <2>1, <2>2 DEF Sum, A, B, N, R
<1>. QED BY <1>8, <1>10

\* Blocks or the request are lost.
LEMMA BlocksLost ==
  ASSUME NEW want \in Seq(Nat), NEW g \in Seq(Nat), NEW b \in Seq(Nat), NEW c \in Seq(BlockMessage),
         NEW d \in Seq(BlocksRequest), NEW k \in Seq(BlockMessage), NEW e \in Seq(BlocksRequest),
         PrefixOf(k, c), Fewer(e, d), InPlace(want, g, b, c, d)
  PROVE  InPlace(want, g, b, k, e)
<1>1. Len(e) <= Len(d) /\ Len(d) <= 1 /\ Len(k) <= Len(c) /\ Len(e) \in Nat /\ Len(d) \in Nat
  BY DEF PrefixOf, Fewer, InPlace
<1>2. Asked(e) = <<>> \/ Asked(e) = Asked(d)
  <2>1. CASE e = <<>>
    BY <2>1 DEF Asked
  <2>2. CASE e # <<>>
    <3>0. Len(e) # 0 /\ Len(<<>>) = 0
      BY <2>2
    <3>a. Len(e) = 1 /\ Len(d) = 1
      <4>. DEFINE p == Len(e)
                  q == Len(d)
      <4>1. p <= q /\ q <= 1 /\ p \in Nat /\ q \in Nat /\ p # 0
        BY <1>1, <3>0, Zenon
      <4>. HIDE DEF p, q
      <4>2. p = 1 /\ q = 1
        BY <4>1
      <4>. QED BY <4>2 DEF p, q
    <3>b. 1 # 0
      OBVIOUS
    <3>1. Len(e) = 1 /\ Len(d) = 1 /\ d # <<>>
      BY <3>0, <3>a, <3>b, Zenon
    <3>2. e[1] = d[1]
      BY <3>1 DEF Fewer
    <3>. QED BY <2>2, <3>1, <3>2 DEF Asked
  <2>. QED BY <2>1, <2>2
<1>3. Len(Asked(d)) \in Nat /\ Len(Asked(e)) \in Nat /\ Len(Asked(e)) <= Len(Asked(d))
  <2>1. Len(Asked(d)) \in Nat
    BY AskedTyped
  <2>2. Len(<<>>) = 0
    OBVIOUS
  <2>. QED BY <1>2, <2>1, <2>2
<1>4. Sum(g, b, k, e) <= Len(want)
  <2>1. Len(g) \in Nat /\ Len(b) \in Nat /\ Len(c) \in Nat /\ Len(k) \in Nat /\ Len(want) \in Nat
    OBVIOUS
  <2>2. Sum(g, b, c, d) <= Len(want)
    BY DEF InPlace
  <2>. QED BY <1>1, <1>3, <2>1, <2>2 DEF Sum
<1>5. \A i \in 1..Len(k) : i \in 1..Len(c) /\ k[i] = c[i]
  BY <1>1 DEF PrefixOf
<1>6. \A i \in 1..Len(k) : k[i].height \in {want[Len(g) + Len(b) + i], 0}
  BY <1>5 DEF InPlace
<1>7. \A i \in 1..Len(Asked(e)) : Asked(e)[i] = want[Len(want) - Len(Asked(e)) + i]
  <2>1. CASE Asked(e) = <<>>
    BY <2>1
  <2>2. CASE Asked(e) = Asked(d)
    BY <2>2 DEF InPlace
  <2>. QED BY <1>2, <2>1, <2>2
<1>8. Len(e) <= 1
  BY <1>1
<1>. QED BY <1>4, <1>6, <1>7, <1>8 DEF InPlace

(***************************************************************************)
(* The invariant.                                                          *)
(***************************************************************************)

Waits == client.pc \in {"syncing", "headers"}
From == IF client.pc = "syncing" THEN 0 ELSE client.known

\* One answer is under way while one is waited for, and none otherwise.
HeadersOK ==
  /\ OneAnswer(From, headers, Hs, Gs)
  /\ ~Waits => Total(headers, Hs, Gs) = 0
  /\ (Waits /\ Intact) => Total(headers, Hs, Gs) = 1

\* So with the blocks, of which one request brings several.
BlocksOK ==
  /\ client.pc # "blocks" => client.got = <<>> /\ blocks = <<>> /\ Bs = <<>> /\ Ds = <<>>
  /\ client.pc = "blocks" => InPlace(client.want, client.got, blocks, Bs, Ds)
  /\ (client.pc = "blocks" /\ Intact) => Sum(client.got, blocks, Bs, Ds) = Len(client.want)

\* A request that is not yet on the wire is whole.
InHands ==
  {egress.msg, handler.msg} \cup {toSend[i] : i \in 1..Len(toSend)}
                            \cup {requests[i] : i \in 1..Len(requests)}
HandsOK == \A m \in InHands : m.type = "getdata" => m.list = client.want

Has(s, t) == \E i \in 1..Len(s) : s[i].type = t
Ahead(s, t, ts) == \A i \in 1..Len(s) : s[i].type \in ts => \E j \in 1..(i - 1) : s[j].type = t

\* The node has, or will have, the verack before any request: the worker sends
\* none before the node's verack, which comes after its version, for which the
\* handler sends its own verack.
VerackSent == node.ready \/ Has(Leaving, "verack")
ShakeOK ==
  Intact =>
    /\ (client.pc \notin {"boot", "handshake"} \/ ready) => VerackSent
    /\ VerackSent \/ Ahead(Line, "version", {"verack"})
    /\ node.ready \/ Ahead(Leaving, "verack", {"getheaders", "getdata"})

\* A tip in an answer is the node's, or a later block is announced.
Told == announced \/ Is # <<>>
Known(h) == node.ready /\ (h < node.tip => Told)
WakeOK ==
  Intact =>
    /\ \A i \in 1..Len(headers) : Known(headers[i].to)
    /\ \A i \in 1..Len(Hs) : Known(Hs[i].to)
    /\ client.pc \in {"idle", "fetch", "blocks"} => Known(client.told)

SInv == TypesOK /\ HeadersOK /\ BlocksOK /\ HandsOK /\ ShakeOK /\ WakeOK

(***************************************************************************)
(* What the steps other than the worker's do to the answers.               *)
(***************************************************************************)

KeepsIntact == Intact' => Intact
SameHeaders == headers' = headers /\ Hs' = Hs /\ Gs' = Gs
SameBlocks == blocks' = blocks /\ Bs' = Bs /\ Ds' = Ds

Quiet == SameHeaders /\ SameBlocks /\ KeepsIntact

HeadersMove ==
  /\ \E m \in [type : {"headers"}, from : Nat, to : Nat] : headers' = Append(headers, m) /\ Hs = <<m>> \o Hs'
  /\ Gs' = Gs /\ SameBlocks /\ KeepsIntact

BlockMove ==
  /\ \E m \in BlockMessage : blocks' = Append(blocks, m.height) /\ Bs = <<m>> \o Bs'
  /\ Ds' = Ds /\ SameHeaders /\ KeepsIntact

Loss ==
  /\ headers' = headers /\ PrefixOf(Hs', Hs) /\ Fewer(Gs', Gs)
  /\ blocks' = blocks /\ PrefixOf(Bs', Bs) /\ Fewer(Ds', Ds)
  /\ ~Intact'

HeadersAnswer ==
  /\ \E m \in [type : {"getheaders"}, from : Nat] :
       /\ Gs = <<m>> \o Gs'
       /\ Hs' = Hs \o <<Headers(m.from, node.tip)>>
  /\ headers' = headers /\ SameBlocks /\ KeepsIntact /\ node'.ready /\ node'.tip = node.tip

BlockAnswer ==
  /\ \E m \in BlocksRequest, y \in Seq(BlocksRequest), h \in Nat :
       /\ h \in {Head(m.list), 0}
       /\ Ds = <<m>> \o y /\ Ds' = Rest(m) \o y
       /\ \/ Bs' = Bs \o <<BlockMsg(h)>> /\ Intact
          \/ Bs' = Bs /\ ~Intact'
  /\ blocks' = blocks /\ SameHeaders /\ KeepsIntact

Effect == Quiet \/ HeadersMove \/ BlockMove \/ Loss \/ HeadersAnswer \/ BlockAnswer

\* Nothing lost is a prefix, and fewer.
LEMMA NothingLost ==
  ASSUME NEW S, NEW a \in Seq(S)
  PROVE  PrefixOf(a, a) /\ Fewer(a, a)
BY DEF PrefixOf, Fewer

\* A handler that ends loses what its session held.
LEMMA EndsEffect ==
  ASSUME TypesOK, TypesOK', HandlerEnds, toNode' = toNode
  PROVE  Loss
<1>1. /\ Line' = <<>> /\ Leaving' = toNode /\ requests' = <<>> /\ ingress'.pc = "ended"
  BY EndsBelts
<1>2. PICK x \in Seq(ToNode) : Leaving = toNode \o x
  BY EndsBelts
<1>3. Fewer(Gs', Gs) /\ Fewer(Ds', Ds)
  <2>1. Leaving = Leaving' \o x
    BY <1>1, <1>2
  <2>. QED BY <1>1, <2>1, LossViews DEF Gs, Ds
<1>4. PrefixOf(Hs', Hs) /\ PrefixOf(Bs', Bs)
  <2>. DEFINE l == Line
  <2>1. l \in Seq(FromNode)
    BY BeltsTyped
  <2>. HIDE DEF l
  <2>2. l = <<>> \o l
    BY <2>1
  <2>3. Line = Line' \o l
    BY <1>1, <2>2, Zenon DEF l
  <2>. QED BY <2>1, <2>3, CutViews
<1>5. headers' = headers /\ blocks' = blocks
  BY DEF HandlerEnds, results
<1>. QED BY <1>1, <1>3, <1>4, <1>5 DEF Loss, Intact

\* The handler's steps.
LEMMA HandlerEffect ==
  ASSUME TypesOK, TypesOK', HandlerStep
  PROVE  client' = client /\ Effect
<1>1. client' = client /\ connected' = connected /\ toNode' = toNode
  BY DEF HandlerStep, HandlerStart, OnRequest, OnMessage, OnClosed, SendOn, HandlerLeaves, wires
<1>2. ASSUME ingress' = ingress PROVE KeepsIntact
  BY <1>1, <1>2 DEF KeepsIntact, Intact
<1>3. Plain("version") \in ToNode /\ Plain("version").type = "version"
  BY DEF Plain, ToNode
<1>4. CASE HandlerStart
  <2>1. /\ Line' = Line /\ Leaving' = Leaving \o <<Plain("version")>> /\ requests' = requests
        /\ ingress' = ingress /\ headers' = headers /\ blocks' = blocks
    BY <1>4, SendingBelts DEF HandlerStart, channels, results
  <2>2. Gs' = Gs /\ Ds' = Ds
    <3>. DEFINE m == Plain("version")
    <3>1. m \in ToNode /\ m.type = "version"
      BY <1>3
    <3>2. Leaving' = Leaving \o <<m>>
      BY <2>1
    <3>. HIDE DEF m
    <3>. QED BY <2>1, <3>1, <3>2, LeavingViews DEF Gs, Ds
  <2>3. Hs' = Hs /\ Bs' = Bs
    BY <2>1 DEF Hs, Bs
  <2>. QED BY <1>1, <1>2, <2>1, <2>2, <2>3 DEF Effect, Quiet, SameHeaders, SameBlocks
<1>5. CASE OnRequest
  <2>1. PICK r \in Request : requests = <<r>> /\ requests' = <<>> /\ Line' = Line /\ Leaving' = Leaving \o <<r>>
    BY <1>5, SendingBelts
  <2>2. ingress' = ingress /\ headers' = headers /\ blocks' = blocks
    BY <1>5 DEF OnRequest, results
  <2>3. Gs' = Gs /\ Ds' = Ds
    BY <2>1, RequestViews DEF Gs, Ds
  <2>4. Hs' = Hs /\ Bs' = Bs
    BY <2>1 DEF Hs, Bs
  <2>. QED BY <1>1, <1>2, <2>2, <2>3, <2>4 DEF Effect, Quiet, SameHeaders, SameBlocks
<1>6. CASE OnMessage
  <2>1. PICK r \in FromNode :
           /\ r.type \in {"headers", "block"} => Line' = Line
           /\ r.type \notin {"headers", "block"} => Line = <<r>> \o Line'
           /\ Leaving' = Leaving \o Response(r)
    BY <1>6, MessageBelts
  <2>2. ingress' = ingress /\ headers' = headers /\ blocks' = blocks /\ requests' = requests
    BY <1>6 DEF OnMessage, results
  <2>3. Hs' = Hs /\ Bs' = Bs
    <3>1. CASE r.type \in {"headers", "block"}
      BY <2>1, <3>1 DEF Hs, Bs
    <3>2. CASE r.type \notin {"headers", "block"}
      <4>1. Line = <<r>> \o Line'
        BY <2>1, <3>2
      <4>2. Hs = (IF r.type = "headers" THEN <<r>> \o Hs' ELSE Hs')
            /\ Bs = (IF r.type = "block" THEN <<r>> \o Bs' ELSE Bs')
        BY <4>1, LineViews
      <4>. QED BY <3>2, <4>2
    <3>. QED BY <3>1, <3>2
  <2>4. Gs' = Gs /\ Ds' = Ds
    <3>1. ASSUME NEW m \in ToNode, m.type \notin {"getheaders", "getdata"}, Leaving' = Leaving \o <<m>>
          PROVE  Gs' = Gs /\ Ds' = Ds
      BY <2>2, <3>1, LeavingViews DEF Gs, Ds
    <3>2. CASE r.type = "version"
      <4>. DEFINE m == Plain("verack")
      <4>1. m \in ToNode /\ m.type = "verack" /\ Response(r) = <<m>>
        BY <3>2 DEF Plain, ToNode, Response
      <4>2. Leaving' = Leaving \o <<m>>
        BY <2>1, <4>1, Zenon
      <4>. HIDE DEF m
      <4>. QED BY <3>1, <4>1, <4>2
    <3>3. CASE r.type = "ping"
      <4>. DEFINE m == Plain("pong")
      <4>1. m \in ToNode /\ m.type = "pong" /\ Response(r) = <<m>>
        BY <3>3 DEF Plain, ToNode, Response
      <4>2. Leaving' = Leaving \o <<m>>
        BY <2>1, <4>1, Zenon
      <4>. HIDE DEF m
      <4>. QED BY <3>1, <4>1, <4>2
    <3>4. CASE r.type \notin {"version", "ping"}
      <4>. DEFINE l == Leaving
      <4>1. Response(r) = <<>> /\ l \in Seq(ToNode)
        BY <3>4, BeltsTyped DEF Response
      <4>. HIDE DEF l
      <4>2. l \o <<>> = l
        BY <4>1
      <4>3. Leaving' = Leaving
        BY <2>1, <4>1, <4>2, Zenon DEF l
      <4>. QED BY <1>3, <2>2, <4>3, LeavingViews DEF Gs, Ds
    <3>. QED BY <3>2, <3>3, <3>4
  <2>. QED BY <1>1, <1>2, <2>2, <2>3, <2>4 DEF Effect, Quiet, SameHeaders, SameBlocks
<1>7. CASE OnClosed
  <2>1. Loss
    BY <1>1, <1>7, EndsEffect DEF OnClosed
  <2>. QED BY <1>1, <2>1 DEF Effect
<1>8. CASE SendOn
  <2>. DEFINE m == handler.msg
  <2>1. CASE /\ m \in [type : {"headers"}, from : Nat, to : Nat]
             /\ headers' = Append(headers, m) /\ blocks' = blocks
             /\ Line = <<m>> \o Line' /\ Leaving' = Leaving
             /\ UNCHANGED <<requests, ingress>>
    <3>1. m \in FromNode /\ m.type = "headers"
      BY <2>1 DEF FromNode, Relay
    <3>2. Hs = <<m>> \o Hs' /\ Bs = Bs'
      <4>. HIDE DEF m
      <4>1. Hs = (IF m.type = "headers" THEN <<m>> \o Hs' ELSE Hs')
            /\ Bs = (IF m.type = "block" THEN <<m>> \o Bs' ELSE Bs')
        BY <2>1, <3>1, LineViews
      <4>. QED BY <3>1, <4>1
    <3>3. Gs' = Gs /\ Ds' = Ds
      BY <1>3, <2>1, LeavingViews DEF Gs, Ds
    <3>4. HeadersMove
      <4>. HIDE DEF m
      <4>. QED BY <1>2, <2>1, <3>2, <3>3 DEF HeadersMove, SameBlocks
    <3>. QED BY <1>1, <3>4 DEF Effect
  <2>2. CASE /\ m \in [type : {"block"}, height : Nat]
             /\ blocks' = Append(blocks, m.height) /\ headers' = headers
             /\ Line = <<m>> \o Line' /\ Leaving' = Leaving
             /\ UNCHANGED <<requests, ingress>>
    <3>1. m \in FromNode /\ m.type = "block" /\ m \in BlockMessage
      BY <2>2 DEF FromNode, Relay, BlockMessage
    <3>2. Hs = Hs' /\ Bs = <<m>> \o Bs'
      <4>. HIDE DEF m
      <4>1. Hs = (IF m.type = "headers" THEN <<m>> \o Hs' ELSE Hs')
            /\ Bs = (IF m.type = "block" THEN <<m>> \o Bs' ELSE Bs')
        BY <2>2, <3>1, LineViews
      <4>. QED BY <3>1, <4>1
    <3>3. Gs' = Gs /\ Ds' = Ds
      BY <1>3, <2>2, LeavingViews DEF Gs, Ds
    <3>4. BlockMove
      <4>. HIDE DEF m
      <4>. QED BY <1>2, <2>2, <3>1, <3>2, <3>3 DEF BlockMove, SameHeaders
    <3>. QED BY <1>1, <3>4 DEF Effect
  <2>3. CASE /\ Line' = Line /\ Leaving' = Leaving
             /\ UNCHANGED <<requests, headers, blocks, ingress>>
    <3>1. Gs' = Gs /\ Ds' = Ds
      BY <1>3, <2>3, LeavingViews DEF Gs, Ds
    <3>2. Hs' = Hs /\ Bs' = Bs
      BY <2>3 DEF Hs, Bs
    <3>. QED BY <1>1, <1>2, <2>3, <3>1, <3>2 DEF Effect, Quiet, SameHeaders, SameBlocks
  <2>4. CASE HandlerEnds
    <3>1. Loss
      BY <1>1, <2>4, EndsEffect
    <3>. QED BY <1>1, <3>1 DEF Effect
  <2>. QED BY <1>8, <2>1, <2>2, <2>3, <2>4, SendOnBelts DEF results
<1>. QED BY <1>4, <1>5, <1>6, <1>7, <1>8 DEF HandlerStep

\* Nothing is selected where nothing is of the type.
LEMMA NothingSelected ==
  ASSUME NEW S, NEW s \in Seq(S), NEW t, \A i \in 1..Len(s) : s[i].type # t
  PROVE  OfType(s, t) = <<>>
<1>. DEFINE q == OfType(s, t)
<1>1. /\ q \in Seq(S) /\ \A i \in 1..Len(q) : q[i].type = t
      /\ \A i \in 1..Len(q) : \E j \in 1..Len(s) : q[i] = s[j]
  BY SelectedAre
<1>. HIDE DEF q
<1>2. ~ 1 \in 1..Len(q)
  BY <1>1
<1>3. q = <<>>
  BY <1>1, <1>2
<1>. QED BY <1>3 DEF q

\* Messages of other types at the end are not selected.
Ignores(l, s, t) == OfType(l \o s, t) = OfType(l, t)

\* Messages of other types behind a sequence are not selected.
LEMMA IgnoredEnd ==
  ASSUME NEW S, NEW l \in Seq(S), NEW s \in Seq(S), NEW t, \A i \in 1..Len(s) : s[i].type # t
  PROVE  Ignores(l, s, t)
<1>. DEFINE q == OfType(l, t)
<1>1. OfType(s, t) = <<>>
  BY NothingSelected
<1>2. q \in Seq(S)
  BY SelectedAre
<1>3. OfType(l \o s, t) = OfType(l, t) \o OfType(s, t)
  <2>1. Distributes(l, s, t)
    BY SelectConcat
  <2>. QED BY <2>1 DEF Distributes
<1>. HIDE DEF q
<1>4. q \o <<>> = q
  BY <1>2
<1>. QED BY <1>1, <1>3, <1>4, Zenon DEF q, Ignores

\* Messages at the end of the line that are neither headers nor blocks.
LEMMA LineQuiet ==
  ASSUME TypesOK, TypesOK', NEW s \in Seq(FromNode), Line' = Line \o s,
         \A i \in 1..Len(s) : s[i].type \notin {"headers", "block"}
  PROVE  Hs' = Hs /\ Bs' = Bs
<1>1. Line \in Seq(FromNode)
  BY BeltsTyped
<1>2. Ignores(Line, s, "headers") /\ Ignores(Line, s, "block")
  BY <1>1, IgnoredEnd
<1>. QED BY <1>2, Zenon DEF Hs, Bs, Ignores

\* The belt to the node as it is.
LEMMA SameLeaving ==
  ASSUME UNCHANGED <<toNode, egress, toSend, handler>>
  PROVE  Leaving' = Leaving
BY DEF Leaving, Held, ToEgress

\* The requests under way depend on the way to the node only.
LEMMA SameOutbound ==
  ASSUME UNCHANGED <<toNode, egress, toSend, handler, requests>>
  PROVE  Gs' = Gs /\ Ds' = Ds
BY SameLeaving DEF Gs, Ds, Outbound

\* Ingress.
LEMMA IngressEffect ==
  ASSUME TypesOK, TypesOK', Read \/ Deliver \/ ReadFails
  PROVE  Quiet
<1>1. Line' = Line
  BY LineMoves
<1>2. /\ UNCHANGED <<toNode, egress, toSend, handler, requests, headers, blocks, connected>>
      /\ Intact' => Intact
  BY DEF Read, Deliver, ReadFails, IngressLeaves, results, Intact, Task, TypesOK, TasksOK
<1>3. Hs' = Hs /\ Bs' = Bs
  BY <1>1 DEF Hs, Bs
<1>. QED BY <1>2, <1>3, SameOutbound DEF Quiet, SameHeaders, SameBlocks, KeepsIntact

\* A bad message, and a lost connection.
LEMMA CutEffect ==
  ASSUME TypesOK, TypesOK', DecodeFails \/ Lose
  PROVE  Loss
<1>1. PICK x \in Seq(FromNode) : Line = Line' \o x
  BY LineCut
<1>2. PrefixOf(Hs', Hs) /\ PrefixOf(Bs', Bs)
  BY <1>1, CutViews
<1>3. headers' = headers /\ blocks' = blocks /\ ~Intact'
  BY DEF DecodeFails, Lose, IngressLeaves, channels, results, Intact, Task
<1>4. Gs \in Seq([type : {"getheaders"}, from : Nat]) /\ Ds \in Seq([type : {"getdata"}, list : Seq(Nat) \ {<<>>}])
  BY ViewsTyped
<1>5. CASE DecodeFails
  <2>1. Gs' = Gs /\ Ds' = Ds
    BY <1>5, SameOutbound DEF DecodeFails, IngressLeaves
  <2>2. Fewer(Gs', Gs) /\ Fewer(Ds', Ds)
    BY <1>4, <2>1, NothingLost
  <2>. QED BY <1>2, <1>3, <2>2 DEF Loss
<1>6. CASE Lose
  <2>1. Leaving = toNode \o Leaving' /\ requests' = requests
    BY <1>6, LoseBelts
  <2>2. toNode \in Seq(ToNode)
    BY PartsTyped
  <2>3. Fewer(Gs', Gs) /\ Fewer(Ds', Ds)
    BY <2>1, <2>2, LossViews DEF Gs, Ds
  <2>. QED BY <1>2, <1>3, <2>3 DEF Loss
<1>. QED BY <1>5, <1>6

\* Egress.
LEMMA EgressEffect ==
  ASSUME TypesOK, TypesOK', EgressStep
  PROVE  Quiet \/ Loss
<1>1. UNCHANGED <<client, requests, headers, blocks, connected, ingress>> /\ KeepsIntact
  BY DEF EgressStep, TakeMessage, Write, EgressLeaves, results, KeepsIntact, Intact
<1>2. Line' = Line
  BY EgressBelts DEF EgressStep
<1>3. Hs' = Hs /\ Bs' = Bs
  BY <1>2 DEF Hs, Bs
<1>4. CASE Leaving' = Leaving
  <2>1. Plain("pong") \in ToNode
    BY DEF Plain, ToNode
  <2>2. Gs' = Gs /\ Ds' = Ds
    BY <1>1, <1>4, <2>1, LeavingViews DEF Gs, Ds
  <2>. QED BY <1>1, <1>3, <2>2 DEF Quiet, SameHeaders, SameBlocks
<1>5. CASE ~connected /\ Leaving = Held(egress) \o Leaving'
  <2>1. Held(egress) \in Seq(ToNode)
    BY PartsTyped
  <2>2. Fewer(Gs', Gs) /\ Fewer(Ds', Ds)
    BY <1>1, <1>5, <2>1, LossViews DEF Gs, Ds
  <2>3. Hs \in Seq([type : {"headers"}, from : Nat, to : Nat]) /\ Bs \in Seq([type : {"block"}, height : Nat])
    BY ViewsTyped
  <2>4. PrefixOf(Hs', Hs) /\ PrefixOf(Bs', Bs)
    BY <1>3, <2>3, NothingLost
  <2>. QED BY <1>1, <1>5, <2>2, <2>4 DEF Loss, Intact
<1>. QED BY <1>4, <1>5, EgressBelts DEF EgressStep

\* What the node sends of itself.
LEMMA NewsEffect ==
  ASSUME TypesOK, TypesOK', NewBlock \/ Chat
  PROVE  Quiet
<1>1. UNCHANGED <<toNode, egress, toSend, handler, requests, headers, blocks, connected, received, ingress>>
  BY DEF NewBlock, Chat, NodeLeaves, channels, results, tasks
<1>2. \E s \in Seq(FromNode) : /\ fromNode' = fromNode \o s
                               /\ \A i \in 1..Len(s) : s[i].type \notin {"headers", "block"}
  <2>1. ASSUME NEW t \in {"inv", "ping", "unused"}, fromNode' = Append(fromNode, Plain(t))
        PROVE  \E s \in Seq(FromNode) : /\ fromNode' = fromNode \o s
                               /\ \A i \in 1..Len(s) : s[i].type \notin {"headers", "block"}
    <3>. DEFINE m == Plain(t)
                s == <<m>>
    <3>1. m \in FromNode /\ m.type = t /\ fromNode \in Seq(FromNode)
      BY DEF Plain, FromNode, TypesOK, ChannelsOK
    <3>2. fromNode' = Append(fromNode, m)
      BY <2>1
    <3>. HIDE DEF m
    <3>3. s \in Seq(FromNode) /\ fromNode' = fromNode \o s /\ \A i \in 1..Len(s) : s[i] = m
      BY <3>1, <3>2
    <3>. HIDE DEF s
    <3>. QED BY <3>1, <3>3
  <2>2. CASE fromNode' = fromNode
    <3>1. <<>> \in Seq(FromNode) /\ fromNode' = fromNode \o <<>> /\ \A i \in 1..Len(<<>>) : <<>>[i].type \notin {"headers", "block"}
      BY <2>2 DEF TypesOK, ChannelsOK
    <3>. QED BY <3>1
  <2>. QED BY <2>1, <2>2 DEF NewBlock, Chat
<1>3. PICK s \in Seq(FromNode) : /\ fromNode' = fromNode \o s
                                 /\ \A i \in 1..Len(s) : s[i].type \notin {"headers", "block"}
  BY <1>2
<1>4. Line' = IF ingress.pc = "run" THEN Line \o s ELSE Line
  BY <1>1, <1>3, LineGrows
<1>5. Hs' = Hs /\ Bs' = Bs
  <2>1. CASE ingress.pc = "run"
    BY <1>3, <1>4, <2>1, LineQuiet
  <2>2. CASE ingress.pc # "run"
    BY <1>4, <2>2 DEF Hs, Bs
  <2>. QED BY <2>1, <2>2
<1>. QED BY <1>1, <1>5, SameOutbound DEF Quiet, SameHeaders, SameBlocks, KeepsIntact, Intact

\* The node answers anything but a request for blocks.
LEMMA AnswerEffect ==
  ASSUME TypesOK, TypesOK', ShakeOK, Answer
  PROVE  Quiet \/ Loss \/ HeadersAnswer
<1>. DEFINE m == Head(toNode)
            s == Answers(m)
<1>1. /\ UNCHANGED <<egress, toSend, handler, requests, headers, blocks, connected, received, ingress>>
      /\ KeepsIntact /\ connected /\ toNode # <<>> /\ m.type # "getdata"
      /\ fromNode' = fromNode \o s /\ toNode' = Tail(toNode)
  BY DEF Answer, NodeLeaves, channels, results, tasks, KeepsIntact, Intact
<1>2. m \in ToNode /\ Tail(toNode) \in Seq(ToNode)
  BY <1>1, HeadTailProperties DEF TypesOK, ChannelsOK
<1>3. /\ m.type = "version" => s = <<Plain("version"), Plain("verack")>>
      /\ (m.type = "getheaders" /\ node.ready) => s = <<Headers(m.from, node.tip)>>
      /\ (m.type # "version" /\ ~(m.type = "getheaders" /\ node.ready)) => s = <<>>
  BY DEF Answers
<1>4. Leaving = <<m>> \o Leaving'
  <2>1. \E x \in Seq(ToNode) : Leaving = <<m>> \o x /\ Leaving' = <<>> \o x
    <3>1. <<>> \in Seq(ToNode) /\ toNode' = <<>> \o Tail(toNode)
      BY <1>1, <1>2
    <3>. QED BY <1>1, <3>1, NodeBelts
  <2>2. PICK x \in Seq(ToNode) : Leaving = <<m>> \o x /\ Leaving' = <<>> \o x
    BY <2>1
  <2>3. <<>> \o x = x
    OBVIOUS
  <2>. QED BY <2>2, <2>3, Zenon
<1>. HIDE DEF m
<1>5. /\ Gs = IF m.type = "getheaders" THEN <<m>> \o Gs' ELSE Gs'
      /\ Ds = Ds'
  <2>1. /\ Outbound("getheaders") = IF m.type = "getheaders" THEN <<m>> \o Outbound("getheaders")' ELSE Outbound("getheaders")'
        /\ Outbound("getdata") = IF m.type = "getdata" THEN <<m>> \o Outbound("getdata")' ELSE Outbound("getdata")'
    BY <1>1, <1>2, <1>4, LeavingViews
  <2>. QED BY <1>1, <2>1 DEF Gs, Ds
<1>6. ASSUME s \in Seq(FromNode)
      PROVE  Line' = IF ingress.pc = "run" THEN Line \o s ELSE Line
  <2>. HIDE DEF s
  <2>. QED BY <1>1, <1>6, LineGrows
<1>7. ASSUME s \in Seq(FromNode), \A i \in 1..Len(s) : s[i].type \notin {"headers", "block"}
      PROVE  Hs' = Hs /\ Bs' = Bs
  <2>. HIDE DEF s
  <2>1. CASE ingress.pc = "run"
    BY <1>6, <1>7, <2>1, LineQuiet
  <2>2. CASE ingress.pc # "run"
    BY <1>6, <1>7, <2>2 DEF Hs, Bs
  <2>. QED BY <2>1, <2>2
<1>8. ASSUME Hs' = Hs, Bs' = Bs, m.type = "getheaders", ~Intact'
      PROVE  Loss
  <2>1. /\ Hs \in Seq([type : {"headers"}, from : Nat, to : Nat]) /\ Bs \in Seq([type : {"block"}, height : Nat])
        /\ Ds \in Seq([type : {"getdata"}, list : Seq(Nat) \ {<<>>}])
    BY ViewsTyped
  <2>2. PrefixOf(Hs', Hs) /\ PrefixOf(Bs', Bs) /\ Fewer(Ds', Ds)
    BY <1>5, <1>8, <2>1, NothingLost
  <2>3. Fewer(Gs', Gs)
    <3>. DEFINE e == Gs'
                g == Gs
    <3>1. e \in Seq([type : {"getheaders"}, from : Nat])
      BY ViewsTypedNext
    <3>2. m \in [type : {"getheaders"}, from : Nat]
      BY <1>2, <1>8 DEF ToNode, Request
    <3>3. g = <<m>> \o e
      BY <1>5, <1>8
    <3>. HIDE DEF e, g
    <3>4. Len(g) = Len(e) + 1 /\ \A i \in 1..Len(e) : i + 1 \in 1..Len(g) /\ g[i + 1] = e[i]
      BY <3>1, <3>2, <3>3
    <3>5. Fewer(e, g)
      BY <3>1, <3>4 DEF Fewer
    <3>. QED BY <3>5 DEF e, g
  <2>. QED BY <1>1, <1>8, <2>2, <2>3 DEF Loss
<1>9. CASE m.type = "version"
  <2>. DEFINE v == Plain("version")
              w == Plain("verack")
  <2>1. v \in FromNode /\ w \in FromNode /\ v.type = "version" /\ w.type = "verack"
    BY DEF Plain, FromNode
  <2>2. s = <<v, w>>
    BY <1>3, <1>9
  <2>. HIDE DEF v, w, s
  <2>3. s \in Seq(FromNode) /\ \A i \in 1..Len(s) : s[i] \in {v, w}
    BY <2>1, <2>2
  <2>4. Hs' = Hs /\ Bs' = Bs
    BY <1>7, <2>1, <2>3
  <2>. QED BY <1>1, <1>5, <1>9, <2>4 DEF Quiet, SameHeaders, SameBlocks
<1>10. CASE m.type = "getheaders" /\ node.ready
  <2>1. m \in [type : {"getheaders"}, from : Nat] /\ node.tip \in Nat
    BY <1>2, <1>10 DEF ToNode, Request, TypesOK, NodeOK
  <2>. DEFINE a == Headers(m.from, node.tip)
  <2>2. a \in FromNode /\ a.type = "headers"
    BY <2>1 DEF Headers, FromNode, Relay
  <2>3. s = <<a>>
    BY <1>3, <1>10
  <2>. HIDE DEF a, s
  <2>4. s \in Seq(FromNode)
    BY <2>2, <2>3
  <2>5. CASE ingress.pc = "run"
    <3>1. Line' = Line \o <<a>>
      BY <1>6, <2>3, <2>4, <2>5
    <3>2. /\ Hs' = IF a.type = "headers" THEN Hs \o <<a>> ELSE Hs
          /\ Bs' = IF a.type = "block" THEN Bs \o <<a>> ELSE Bs
      BY <2>2, <3>1, LineViews
    <3>3. Hs' = Hs \o <<a>> /\ Bs' = Bs
      BY <2>2, <3>2
    <3>4. node'.ready /\ node'.tip = node.tip
      BY <1>10 DEF Answer, TypesOK, NodeOK
    <3>. QED BY <1>1, <1>5, <1>10, <2>1, <3>3, <3>4 DEF HeadersAnswer, SameBlocks, a
  <2>6. CASE ingress.pc # "run"
    <3>1. Hs' = Hs /\ Bs' = Bs /\ ~Intact'
      BY <1>1, <1>6, <2>4, <2>6 DEF Hs, Bs, Intact
    <3>. QED BY <1>8, <1>10, <3>1
  <2>. QED BY <2>5, <2>6
<1>11. CASE m.type # "version" /\ ~(m.type = "getheaders" /\ node.ready)
  <2>0. s = <<>>
    BY <1>3, <1>11
  <2>1. s \in Seq(FromNode) /\ \A i \in 1..Len(s) : s[i].type \notin {"headers", "block"}
    <3>. HIDE DEF s
    <3>. QED BY <2>0
  <2>2. Hs' = Hs /\ Bs' = Bs
    BY <1>7, <2>1
  <2>3. CASE m.type # "getheaders"
    BY <1>1, <1>5, <2>2, <2>3 DEF Quiet, SameHeaders, SameBlocks
  <2>4. CASE m.type = "getheaders"
    <3>1. ~Ahead(Leaving, "verack", {"getheaders", "getdata"})
      <4>. DEFINE l == Leaving
                  k == Leaving'
      <4>1. l = <<m>> \o k /\ k \in Seq(ToNode)
        BY <1>4, BeltsTypedNext
      <4>. HIDE DEF l, k
      <4>2. 1 \in 1..Len(l) /\ l[1] = m
        BY <1>2, <4>1
      <4>3. ~ \E j \in 1..(1 - 1) : TRUE
        OBVIOUS
      <4>. QED BY <2>4, <4>2, <4>3 DEF Ahead, l
    <3>2. ~Intact
      BY <1>11, <2>4, <3>1 DEF ShakeOK
    <3>. QED BY <1>1, <1>8, <2>2, <2>4, <3>2 DEF KeepsIntact
  <2>. QED BY <2>3, <2>4
<1>. QED BY <1>9, <1>10, <1>11

\* The node sends a block.
LEMMA AnswerBlockEffect ==
  ASSUME TypesOK, TypesOK', AnswerBlock
  PROVE  BlockAnswer
<1>. DEFINE m == Head(toNode)
<1>1. /\ UNCHANGED <<egress, toSend, handler, requests, headers, blocks, connected, received, ingress>>
      /\ KeepsIntact /\ connected /\ toNode # <<>> /\ m.type = "getdata"
      /\ toNode' = Rest(m) \o Tail(toNode)
  BY DEF AnswerBlock, NodeLeaves, channels, results, tasks, KeepsIntact, Intact
<1>2. m \in BlocksRequest /\ m \in ToNode
  <2>1. m \in ToNode
    BY <1>1, HeadTailProperties DEF TypesOK, ChannelsOK
  <2>. QED BY <1>1, <2>1 DEF ToNode, Request, BlocksRequest
<1>3. Rest(m) \in Seq(BlocksRequest) /\ Rest(m) \in Seq(ToNode) /\ Head(m.list) \in Nat
  <2>1. /\ Rest(m) \in Seq(BlocksRequest) /\ m.list \in Seq(Nat) /\ Len(m.list) \in Nat \ {0}
    BY <1>2, RestAsked
  <2>2. BlocksRequest \subseteq ToNode
    BY DEF BlocksRequest, ToNode, Request
  <2>. QED BY <2>1, <2>2
<1>4. \E h \in Nat : h \in {Head(m.list), 0} /\ fromNode' = Append(fromNode, BlockMsg(h))
  BY <1>3 DEF AnswerBlock
<1>5. PICK h \in Nat : h \in {Head(m.list), 0} /\ fromNode' = Append(fromNode, BlockMsg(h))
  BY <1>4
<1>6. PICK x \in Seq(ToNode) : Leaving = <<m>> \o x /\ Leaving' = Rest(m) \o x
  BY <1>1, <1>3, NodeBelts
<1>. DEFINE r == Rest(m)
            v == <<m>>
<1>. HIDE DEF m
<1>7. v \in Seq(ToNode) /\ r \in Seq(ToNode) /\ Starts(v, x, Leaving) /\ Starts(r, x, Leaving')
  BY <1>2, <1>3, <1>6 DEF Starts
<1>8. /\ OfType(v, "getdata") = v /\ OfType(v, "getheaders") = <<>>
      /\ OfType(r, "getdata") = r /\ OfType(r, "getheaders") = <<>>
  <2>1. ASSUME NEW k \in BlocksRequest
        PROVE OfType(<<k>>, "getdata") = <<k>> /\ OfType(<<k>>, "getheaders") = <<>> /\ OfType(<<>>, "getdata") = <<>>
              /\ OfType(<<>>, "getheaders") = <<>>
    <3>1. k.type = "getdata"
      BY DEF BlocksRequest
    <3>. QED BY <3>1, SelectOne
  <2>2. r = <<>> \/ \E k \in BlocksRequest : r = <<k>>
    <3>1. r = <<>> \/ r = <<GetData(Tail(m.list))>>
      BY DEF Rest
    <3>. DEFINE k == GetData(Tail(m.list))
    <3>2. CASE r = <<k>>
      <4>1. r[1] = k /\ 1 \in 1..Len(r)
        <5>. HIDE DEF k, r
        <5>. QED BY <3>2
      <4>2. k \in BlocksRequest
        <5>. HIDE DEF k, r
        <5>1. r \in Seq(BlocksRequest)
          BY <1>3 DEF r
        <5>. QED BY <4>1, <5>1
      <4>. QED BY <3>2, <4>2
    <3>. QED BY <3>1, <3>2
  <2>. HIDE DEF r
  <2>. QED BY <1>2, <2>1, <2>2
<1>. HIDE DEF r, v
<1>9. PICK y \in Seq(ToNode) : Ds = OfType(v, "getdata") \o y /\ Ds' = OfType(r, "getdata") \o y
  <2>1. Exchanged(v, r, "getdata", Outbound("getdata"), Outbound("getdata")')
    BY <1>1, <1>7, AnsweredViews
  <2>. QED BY <2>1, Zenon DEF Ds, Exchanged
<1>10. Gs' = Gs
  <2>1. PICK z \in Seq(ToNode) : Gs = OfType(v, "getheaders") \o z /\ Gs' = OfType(r, "getheaders") \o z
    <3>1. Exchanged(v, r, "getheaders", Outbound("getheaders"), Outbound("getheaders")')
      BY <1>1, <1>7, AnsweredViews
    <3>. QED BY <3>1, Zenon DEF Gs, Exchanged
  <2>. QED BY <1>8, <2>1, Zenon
<1>11. Ds = <<m>> \o y /\ Ds' = Rest(m) \o y
  BY <1>8, <1>9, Zenon DEF r, v
<1>12. y \in Seq(BlocksRequest)
  <2>. DEFINE d == Ds
  <2>1. d \in Seq(BlocksRequest) /\ d = <<m>> \o y
    BY <1>11, ViewsTyped DEF BlocksRequest
  <2>. HIDE DEF d
  <2>2. Len(d) = Len(y) + 1 /\ \A i \in 1..Len(y) : i + 1 \in 1..Len(d) /\ d[i + 1] = y[i]
    BY <1>2, <2>1
  <2>3. \A i \in 1..Len(y) : y[i] \in BlocksRequest
    BY <2>1, <2>2
  <2>. QED BY <2>3
<1>. DEFINE b == BlockMsg(h)
<1>13. b \in FromNode /\ b.type = "block" /\ fromNode \in Seq(FromNode)
  BY DEF BlockMsg, FromNode, Relay, TypesOK, ChannelsOK
<1>14. fromNode' = Append(fromNode, b)
  BY <1>5
<1>. HIDE DEF b
<1>15. <<b>> \in Seq(FromNode) /\ fromNode' = fromNode \o <<b>>
  BY <1>13, <1>14
<1>16. Line' = IF ingress.pc = "run" THEN Line \o <<b>> ELSE Line
  BY <1>1, <1>15, LineGrows
<1>17. Hs' = Hs /\ \/ Bs' = Bs \o <<b>> /\ Intact
                   \/ Bs' = Bs /\ ~Intact'
  <2>1. CASE ingress.pc = "run"
    <3>1. Line' = Line \o <<b>>
      BY <1>16, <2>1
    <3>2. /\ Hs' = IF b.type = "headers" THEN Hs \o <<b>> ELSE Hs
          /\ Bs' = IF b.type = "block" THEN Bs \o <<b>> ELSE Bs
      BY <1>13, <3>1, LineViews
    <3>. QED BY <1>1, <1>13, <2>1, <3>2 DEF Intact
  <2>2. CASE ingress.pc # "run"
    BY <1>1, <1>16, <2>2 DEF Hs, Bs, Intact
  <2>. QED BY <2>1, <2>2
<1>18. SameHeaders
  BY <1>1, <1>10, <1>17 DEF SameHeaders
<1>. QED BY <1>1, <1>2, <1>5, <1>11, <1>12, <1>17, <1>18 DEF BlockAnswer, b

\* The steps of the other tasks, the node and the connection.
LEMMA WireEffect ==
  ASSUME TypesOK, TypesOK', ShakeOK, WireStep
  PROVE  client' = client /\ Effect
<1>1. client' = client
  BY WireLeaves
<1>2. CASE IngressStep
  BY <1>1, <1>2, IngressEffect DEF IngressStep, Effect
<1>3. CASE DecodeFails \/ Lose
  BY <1>1, <1>3, CutEffect DEF Effect
<1>4. CASE EgressStep
  BY <1>1, <1>4, EgressEffect DEF Effect
<1>5. CASE NewBlock \/ Chat
  BY <1>1, <1>5, NewsEffect DEF Effect
<1>6. CASE NodeStep
  BY <1>1, <1>6, AnswerEffect, AnswerBlockEffect DEF NodeStep, Effect
<1>. QED BY <1>2, <1>3, <1>4, <1>5, <1>6 DEF WireStep

(***************************************************************************)
(* Each part of the invariant is kept by the steps that are not the        *)
(* worker's.                                                               *)
(***************************************************************************)

\* The steps of the handler and the wire keep HeadersOK.
LEMMA EffectHeaders ==
  ASSUME TypesOK, TypesOK', HeadersOK, client' = client, Effect
  PROVE  HeadersOK'
<1>. DEFINE a == headers
            h == Hs
            g == Gs
            b == headers'
            k == Hs'
            e == Gs'
            from == From
<1>1. /\ a \in Seq(HeadersMessage) /\ h \in Seq(HeadersMessage) /\ g \in Seq(HeadersRequest)
      /\ b \in Seq(HeadersMessage) /\ k \in Seq(HeadersMessage) /\ e \in Seq(HeadersRequest)
  BY ViewsTyped, ViewsTypedNext DEF TypesOK, ChannelsOK, HeadersMessage, HeadersRequest
<1>2. OneAnswer(from, a, h, g) /\ (~Waits => Total(a, h, g) = 0) /\ ((Waits /\ Intact) => Total(a, h, g) = 1)
  BY DEF HeadersOK
<1>3. From' = from /\ Waits' = Waits
  BY DEF From, Waits
<1>4. ASSUME OneAnswer(from, b, k, e), ~Waits => Total(b, k, e) = 0, (Waits /\ Intact') => Total(b, k, e) = 1
      PROVE  HeadersOK'
  BY <1>3, <1>4, Zenon DEF HeadersOK
<1>5. Total(a, h, g) \in Nat /\ Total(b, k, e) \in Nat
  BY <1>1, NoneLeft
<1>. HIDE DEF a, h, g, b, k, e, from
<1>6. CASE SameHeaders /\ KeepsIntact
  <2>1. b = a /\ k = h /\ e = g
    BY <1>6 DEF SameHeaders, a, b, h, k, g, e
  <2>. QED BY <1>2, <1>4, <1>6, <2>1, Zenon DEF KeepsIntact
<1>7. CASE HeadersMove
  <2>1. PICK m \in HeadersMessage : b = Append(a, m) /\ h = <<m>> \o k
    BY <1>7 DEF HeadersMove, HeadersMessage, a, b, h, k
  <2>2. e = g /\ KeepsIntact
    BY <1>7 DEF HeadersMove, e, g
  <2>a. First(m, k, h) /\ Adds(a, m, b)
    BY <2>1 DEF First, Adds
  <2>3. OneAnswer(from, b, k, g) /\ AsMany(a, h, g, b, k, g)
    <3>1. OneAnswer(from, a, h, g) /\ m \in HeadersMessage
      BY <1>2
    <3>. QED BY <1>1, <2>a, <3>1, AnswerMoves
  <2>. QED BY <1>2, <1>4, <2>1, <2>2, <2>3, Zenon DEF KeepsIntact, AsMany
<1>8. CASE Loss
  <2>1. PrefixOf(k, h) /\ Fewer(e, g) /\ b = a /\ ~Intact'
    BY <1>8 DEF Loss, a, b, h, k, g, e
  <2>2. OneAnswer(from, a, k, e) /\ Total(a, k, e) <= Total(a, h, g)
    BY <1>1, <1>2, <2>1, AnswerLost
  <2>3. ~Waits => Total(b, k, e) = 0
    BY <1>2, <1>5, <2>1, <2>2
  <2>. QED BY <1>4, <2>1, <2>2, <2>3
<1>9. CASE HeadersAnswer
  <2>1. PICK m \in HeadersRequest : g = <<m>> \o e /\ k = h \o <<Headers(m.from, node.tip)>>
    BY <1>9 DEF HeadersAnswer, HeadersRequest, g, h, k, e
  <2>2. b = a /\ KeepsIntact
    BY <1>9 DEF HeadersAnswer, a, b
  <2>. DEFINE n == Headers(m.from, node.tip)
  <2>3. n \in HeadersMessage /\ n.from = m.from
    BY DEF Headers, HeadersMessage, HeadersRequest, TypesOK, NodeOK
  <2>4. k = h \o <<n>>
    BY <2>1
  <2>. HIDE DEF n
  <2>a. First(m, e, g) /\ Then(h, n, k)
    BY <2>1, <2>4 DEF First, Then
  <2>5. OneAnswer(from, a, k, e) /\ AsMany(a, h, g, a, k, e)
    <3>1. OneAnswer(from, a, h, g) /\ m \in HeadersRequest
      BY <1>2
    <3>. QED BY <1>1, <2>3, <2>a, <3>1, AnswerComes
  <2>. QED BY <1>2, <1>4, <2>2, <2>4, <2>5, Zenon DEF KeepsIntact, AsMany
<1>. QED BY <1>6, <1>7, <1>8, <1>9 DEF Effect, Quiet, BlockMove, BlockAnswer

\* The steps of the handler and the wire keep BlocksOK.
LEMMA EffectBlocks ==
  ASSUME TypesOK, TypesOK', BlocksOK, client' = client, Effect
  PROVE  BlocksOK'
<1>. DEFINE w == client.want
            g == client.got
            b == blocks
            c == Bs
            d == Ds
            f == blocks'
            k == Bs'
            e == Ds'
            busy == client.pc = "blocks"
<1>1. /\ w \in Seq(Nat) /\ g \in Seq(Nat) /\ b \in Seq(Nat) /\ f \in Seq(Nat)
      /\ c \in Seq(BlockMessage) /\ d \in Seq(BlocksRequest)
      /\ k \in Seq(BlockMessage) /\ e \in Seq(BlocksRequest)
  BY ViewsTyped, ViewsTypedNext DEF TypesOK, ClientOK, ChannelsOK, BlockMessage, BlocksRequest
<1>2. /\ ~busy => g = <<>> /\ b = <<>> /\ c = <<>> /\ d = <<>>
      /\ busy => InPlace(w, g, b, c, d)
      /\ (busy /\ Intact) => Sum(g, b, c, d) = Len(w)
  BY DEF BlocksOK
<1>3. ASSUME /\ ~busy => g = <<>> /\ f = <<>> /\ k = <<>> /\ e = <<>>
             /\ busy => InPlace(w, g, f, k, e)
             /\ (busy /\ Intact') => Sum(g, f, k, e) = Len(w)
      PROVE  BlocksOK'
  BY <1>3, Zenon DEF BlocksOK
<1>. HIDE DEF w, g, b, c, d, f, k, e, busy
<1>4. CASE SameBlocks /\ KeepsIntact
  <2>1. f = b /\ k = c /\ e = d
    BY <1>4 DEF SameBlocks, b, f, c, k, d, e
  <2>. QED BY <1>2, <1>3, <1>4, <2>1, Zenon DEF KeepsIntact
<1>5. CASE BlockMove
  <2>1. PICK m \in BlockMessage : f = Append(b, m.height) /\ c = <<m>> \o k
    BY <1>5 DEF BlockMove, b, f, c, k
  <2>2. e = d /\ KeepsIntact
    BY <1>5 DEF BlockMove, e, d
  <2>3. busy
    <3>1. c # <<>>
      BY <1>1, <2>1
    <3>. QED BY <1>2, <3>1
  <2>a. First(m, k, c) /\ Adds(b, m.height, f)
    BY <2>1 DEF First, Adds
  <2>4. InPlace(w, g, f, k, d) /\ Sum(g, f, k, d) = Sum(g, b, c, d)
    BY <1>1, <1>2, <2>a, <2>3, BlockMoves
  <2>. QED BY <1>2, <1>3, <2>1, <2>2, <2>3, <2>4, Zenon DEF KeepsIntact
<1>6. CASE Loss
  <2>1. PrefixOf(k, c) /\ Fewer(e, d) /\ f = b /\ ~Intact'
    BY <1>6 DEF Loss, b, f, c, k, d, e
  <2>2. CASE busy
    <3>1. InPlace(w, g, b, k, e)
      BY <1>1, <1>2, <2>1, <2>2, BlocksLost
    <3>. QED BY <1>3, <2>1, <2>2, <3>1
  <2>3. CASE ~busy
    <3>1. k = <<>> /\ e = <<>>
      <4>1. Len(k) <= 0 /\ Len(e) <= 0
        BY <1>2, <2>1, <2>3 DEF PrefixOf, Fewer
      <4>. QED BY <1>1, <4>1
    <3>. QED BY <1>2, <1>3, <2>1, <2>3, <3>1
  <2>. QED BY <2>2, <2>3
<1>7. CASE BlockAnswer
  <2>1. PICK m \in BlocksRequest, y \in Seq(BlocksRequest), h \in Nat :
          /\ h \in {Head(m.list), 0}
          /\ d = <<m>> \o y /\ e = Rest(m) \o y
          /\ \/ k = c \o <<BlockMsg(h)>> /\ Intact
             \/ k = c /\ ~Intact'
    BY <1>7 DEF BlockAnswer, c, d, k, e
  <2>2. f = b /\ KeepsIntact
    BY <1>7 DEF BlockAnswer, b, f
  <2>3. busy
    <3>1. d # <<>>
      BY <1>1, <2>1
    <3>. QED BY <1>2, <3>1
  <2>4. y = <<>> /\ Asked(d) = m.list
    <3>1. Len(d) <= 1
      BY <1>2, <2>3 DEF InPlace
    <3>. QED BY <2>1, <3>1, OnlyRequest
  <2>5. e = Rest(m)
    <3>. DEFINE r == Rest(m)
    <3>1. r \in Seq(BlocksRequest)
      BY RestAsked
    <3>. HIDE DEF r
    <3>2. r \o <<>> = r
      BY <3>1
    <3>. QED BY <2>1, <2>4, <3>2, Zenon DEF r
  <2>6. /\ InPlace(w, g, b, c, Rest(m))
        /\ (Then(c, BlockMsg(h), k) /\ Sum(g, b, c, d) = Len(w)) =>
              InPlace(w, g, b, k, Rest(m)) /\ Sum(g, b, k, Rest(m)) = Len(w)
    <3>1. InPlace(w, g, b, c, d) /\ Asked(d) = m.list /\ h \in {Head(m.list), 0}
      BY <1>2, <2>1, <2>3, <2>4
    <3>. QED BY <1>1, <3>1, BlockComes
  <2>. QED BY <1>2, <1>3, <2>1, <2>2, <2>3, <2>5, <2>6, Zenon DEF KeepsIntact, Then
<1>. QED BY <1>4, <1>5, <1>6, <1>7 DEF Effect, Quiet, HeadersMove, HeadersAnswer

(***************************************************************************)
(* What is somewhere on a belt, and in front of something.                 *)
(***************************************************************************)

\* A type is in a concatenation when it is in one of its parts.
LEMMA HasKept ==
  ASSUME NEW S, NEW s \in Seq(S), NEW x \in Seq(S), NEW k, Starts(s, x, k), NEW t
  PROVE  Has(k, t) <=> Has(s, t) \/ Has(x, t)
<1>. DEFINE A == Len(s)
            B == Len(x)
<1>1. /\ A \in Nat /\ B \in Nat /\ Len(k) = A + B
      /\ \A i \in 1..A : k[i] = s[i]
      /\ \A i \in 1..B : k[A + i] = x[i]
  BY DEF Starts
<1>. HIDE DEF A, B
<1>2. ASSUME Has(s, t) PROVE Has(k, t)
  BY <1>1, <1>2 DEF Has, A
<1>3. ASSUME Has(x, t) PROVE Has(k, t)
  <2>1. PICK i \in 1..B : x[i].type = t
    BY <1>3 DEF Has, B
  <2>. DEFINE j == A + i
  <2>2. j \in 1..Len(k) /\ k[j] = x[i]
    BY <1>1
  <2>. HIDE DEF j
  <2>. QED BY <2>1, <2>2 DEF Has
<1>4. ASSUME Has(k, t) PROVE Has(s, t) \/ Has(x, t)
  <2>1. PICK j \in 1..Len(k) : k[j].type = t
    BY <1>4 DEF Has
  <2>2. CASE j \in 1..A
    BY <1>1, <2>1, <2>2 DEF Has, A
  <2>3. CASE j \notin 1..A
    <3>. DEFINE i == j - A
    <3>1. i \in 1..B /\ A + i = j
      BY <1>1, <2>3
    <3>2. x[i] = k[j]
      BY <1>1, <3>1
    <3>. HIDE DEF i
    <3>. QED BY <2>1, <3>1, <3>2 DEF Has, B
  <2>. QED BY <2>2, <2>3
<1>. QED BY <1>2, <1>3, <1>4

\* What comes behind does not come first.
LEMMA AheadKept ==
  ASSUME NEW S, NEW s \in Seq(S), NEW x \in Seq(S), NEW k, Starts(s, x, k), NEW t, NEW ts, Ahead(s, t, ts),
         Has(s, t) \/ \A i \in 1..Len(x) : x[i].type \notin ts
  PROVE  Ahead(k, t, ts)
<1>. DEFINE A == Len(s)
            B == Len(x)
<1>1. /\ A \in Nat /\ B \in Nat /\ Len(k) = A + B
      /\ \A i \in 1..A : k[i] = s[i]
      /\ \A i \in 1..B : k[A + i] = x[i]
  BY DEF Starts
<1>. HIDE DEF A, B
<1>2. ASSUME NEW i \in 1..Len(k), k[i].type \in ts
      PROVE  \E j \in 1..(i - 1) : k[j].type = t
  <2>1. CASE i \in 1..A
    <3>1. PICK j \in 1..(i - 1) : s[j].type = t
      BY <1>1, <1>2, <2>1 DEF Ahead, A
    <3>2. k[j] = s[j]
      BY <1>1, <2>1
    <3>. QED BY <3>1, <3>2
  <2>2. CASE i \notin 1..A
    <3>. DEFINE n == i - A
    <3>1. n \in 1..B /\ A + n = i
      BY <1>1, <2>2
    <3>2. x[n] = k[i]
      BY <1>1, <3>1
    <3>. HIDE DEF n
    <3>3. Has(s, t)
      BY <1>2, <3>1, <3>2 DEF B
    <3>4. PICK j \in 1..A : s[j].type = t
      BY <3>3 DEF Has, A
    <3>5. j \in 1..(i - 1) /\ k[j] = s[j]
      BY <1>1, <2>2
    <3>. QED BY <3>4, <3>5
  <2>. QED BY <2>1, <2>2
<1>. QED BY <1>2 DEF Ahead

\* Taking the first message off a belt.
LEMMA AheadRest ==
  ASSUME NEW S, NEW m \in S, NEW k \in Seq(S), NEW h, First(m, k, h), NEW t, NEW ts
  PROVE  /\ Has(h, t) <=> m.type = t \/ Has(k, t)
         /\ Ahead(h, t, ts) => m.type \notin ts
         /\ (Ahead(h, t, ts) /\ m.type # t) => Ahead(k, t, ts)
<1>. DEFINE B == Len(k)
<1>1. /\ B \in Nat /\ Len(h) = 1 + B /\ h[1] = m
      /\ \A i \in 1..B : h[i + 1] = k[i]
  BY DEF First
<1>. HIDE DEF B
<1>2. ASSUME m.type = t \/ Has(k, t) PROVE Has(h, t)
  <2>1. CASE m.type = t
    BY <1>1, <2>1 DEF Has
  <2>2. CASE Has(k, t)
    <3>1. PICK i \in 1..B : k[i].type = t
      BY <2>2 DEF Has, B
    <3>2. i + 1 \in 1..Len(h) /\ h[i + 1] = k[i]
      BY <1>1
    <3>. QED BY <3>1, <3>2 DEF Has
  <2>. QED BY <1>2, <2>1, <2>2
<1>3. ASSUME Has(h, t), m.type # t PROVE Has(k, t)
  <2>1. PICK j \in 1..Len(h) : h[j].type = t
    BY <1>3 DEF Has
  <2>. DEFINE i == j - 1
  <2>2. i \in 1..B /\ h[i + 1] = k[i] /\ i + 1 = j
    BY <1>1, <1>3, <2>1
  <2>. HIDE DEF i
  <2>. QED BY <2>1, <2>2 DEF Has, B
<1>4. ASSUME Ahead(h, t, ts) PROVE m.type \notin ts
  <2>1. 1 \in 1..Len(h) /\ ~ \E j \in 1..(1 - 1) : TRUE
    BY <1>1
  <2>. QED BY <1>1, <1>4, <2>1 DEF Ahead
<1>5. ASSUME Ahead(h, t, ts), m.type # t, NEW i \in 1..B, k[i].type \in ts
      PROVE  \E j \in 1..(i - 1) : k[j].type = t
  <2>. DEFINE n == i + 1
  <2>1. n \in 1..Len(h) /\ h[n] = k[i] /\ n - 1 = i
    BY <1>1
  <2>. HIDE DEF n
  <2>2. PICK p \in 1..(n - 1) : h[p].type = t
    BY <1>5, <2>1 DEF Ahead
  <2>3. p # 1
    BY <1>1, <1>5, <2>2
  <2>. DEFINE j == p - 1
  <2>4. j \in 1..B /\ j \in 1..(i - 1) /\ j + 1 = p
    BY <1>1, <2>1, <2>2, <2>3
  <2>5. h[j + 1] = k[j]
    BY <1>1, <2>4
  <2>. HIDE DEF j
  <2>. QED BY <2>2, <2>4, <2>5
<1>. QED BY <1>2, <1>3, <1>4, <1>5 DEF Ahead, B

\* A sequence with something of the type has something selected.
LEMMA SomethingSelected ==
  ASSUME NEW S, NEW s \in Seq(S), NEW t
  PROVE  Has(s, t) <=> OfType(s, t) # <<>>
<1>1. PICK f : Selects(f, s, t, S) /\ OfType(s, t) = f[Len(s)]
  BY SelectionExists
<1>. DEFINE N == Len(s)
<1>2. N \in Nat /\ \A n \in 0..N : f[n] \in Seq(S) /\ Len(f[n]) \in Nat
  BY SMTT(30), <1>1 DEF Selects
<1>3. ASSUME Has(s, t) PROVE OfType(s, t) # <<>>
  <2>1. PICK i \in 1..N : s[i].type = t
    BY <1>3 DEF Has
  <2>. DEFINE P == {n \in 0..N : n >= i => Len(f[n]) > 0}
  <2>2. 0 \in P
    BY <1>2
  <2>3. ASSUME NEW n \in 1..N, n - 1 \in P PROVE n \in P
    <3>. DEFINE q == f[n - 1]
    <3>1. q \in Seq(S) /\ s[n] \in S /\ n \in 0..N /\ n - 1 \in 0..N /\ (n - 1 >= i => Len(q) > 0)
      BY <1>2, <2>3
    <3>2. f[n] = IF s[n].type = t THEN Append(q, s[n]) ELSE q
      BY <1>1 DEF Selects
    <3>. HIDE DEF q
    <3>3. Len(Append(q, s[n])) = Len(q) + 1 /\ Len(q) \in Nat
      BY <3>1
    <3>4. CASE n = i
      <4>1. Len(f[n]) > 0
        BY <2>1, <3>2, <3>3, <3>4
      <4>. QED BY <3>1, <4>1
    <3>5. CASE n # i
      <4>1. n >= i => Len(q) > 0
        BY <3>1, <3>5
      <4>2. n >= i => Len(f[n]) > 0
        BY <3>2, <3>3, <4>1
      <4>. QED BY <3>1, <4>2
    <3>. QED BY <3>4, <3>5
  <2>. HIDE DEF P
  <2>4. \A n \in 0..N : n \in P
    BY <1>2, <2>2, <2>3, UpTo
  <2>5. Len(f[N]) > 0
    BY <1>2, <2>4 DEF P
  <2>. QED BY <1>1, <2>5
<1>4. ASSUME ~Has(s, t) PROVE OfType(s, t) = <<>>
  <2>1. \A i \in 1..Len(s) : s[i].type # t
    BY <1>4 DEF Has
  <2>. QED BY <2>1, NothingSelected
<1>. QED BY <1>3, <1>4

(***************************************************************************)
(* The handshake: p, the worker is past it or may go on; n, the node's is  *)
(* complete; l is on its way to the node and v to the worker.              *)
(***************************************************************************)

Requests == {"getheaders", "getdata"}

Shake(p, n, l, v) ==
  /\ p => n \/ Has(l, "verack")
  /\ n \/ Has(l, "verack") \/ Ahead(v, "version", {"verack"})
  /\ n \/ Ahead(l, "verack", Requests)

\* Messages come in behind those on their way to the worker.
LEMMA ShakeArrives ==
  ASSUME NEW p \in BOOLEAN, NEW n \in BOOLEAN, NEW l, NEW v \in Seq(FromNode), NEW x \in Seq(FromNode),
         NEW w, Starts(v, x, w), Shake(p, n, l, v),
         Has(v, "version") \/ \A i \in 1..Len(x) : x[i].type \notin {"verack"}
  PROVE  Shake(p, n, l, w)
<1>1. ASSUME Ahead(v, "version", {"verack"}) PROVE Ahead(w, "version", {"verack"})
  BY <1>1, AheadKept
<1>. QED BY <1>1 DEF Shake

\* A message other than version is taken by the worker.
LEMMA ShakeTaken ==
  ASSUME NEW p \in BOOLEAN, NEW n \in BOOLEAN, NEW l, NEW m \in FromNode, NEW w \in Seq(FromNode), NEW v,
         First(m, w, v), Shake(p, n, l, v), m.type # "version"
  PROVE  Shake(p, n, l, w) /\ (m.type = "verack" => Shake(TRUE, n, l, w))
<1>1. ASSUME Ahead(v, "version", {"verack"})
      PROVE  Ahead(w, "version", {"verack"}) /\ m.type \notin {"verack"}
  BY <1>1, AheadRest
<1>. QED BY <1>1 DEF Shake

\* A message goes out to the node: a request only when the worker is past the handshake.
LEMMA ShakeSends ==
  ASSUME NEW p \in BOOLEAN, NEW n \in BOOLEAN, NEW l \in Seq(ToNode), NEW m \in ToNode, NEW k,
         Then(l, m, k), NEW v, Shake(p, n, l, v), p \/ m.type \notin Requests
  PROVE  Shake(p, n, k, v) /\ \A w : m.type = "verack" => Shake(p, n, k, w)
<1>1. <<m>> \in Seq(ToNode) /\ Len(<<m>>) = 1 /\ <<m>>[1] = m
  OBVIOUS
<1>. DEFINE x == <<m>>
<1>2. x \in Seq(ToNode) /\ Starts(l, x, k) /\ \A i \in 1..Len(x) : x[i] = m
  BY <1>1 DEF Then, Starts
<1>3. m.type = "verack" => Has(x, "verack")
  BY <1>1 DEF Has
<1>. HIDE DEF x
<1>4. (Has(l, "verack") \/ Has(x, "verack")) => Has(k, "verack")
  BY <1>2, HasKept
<1>5. ASSUME Ahead(l, "verack", Requests), ~n PROVE Ahead(k, "verack", Requests)
  <2>1. CASE p
    <3>1. Has(l, "verack")
      BY <1>5, <2>1 DEF Shake
    <3>. QED BY <1>2, <1>5, <3>1, AheadKept
  <2>2. CASE ~p
    <3>1. \A i \in 1..Len(x) : x[i].type \notin Requests
      BY <1>2, <2>2
    <3>. QED BY <1>2, <1>5, <3>1, AheadKept
  <2>. QED BY <2>1, <2>2
<1>. QED BY <1>3, <1>4, <1>5 DEF Shake

\* The node takes a message: a request finds its handshake complete.
LEMMA ShakeHandled ==
  ASSUME NEW p \in BOOLEAN, NEW n \in BOOLEAN, NEW m \in ToNode, NEW k \in Seq(ToNode), NEW l,
         First(m, k, l), NEW v, Shake(p, n, l, v)
  PROVE  Shake(p, n \/ m.type = "verack", k, v) /\ (m.type \in Requests => n)
<1>1. Has(l, "verack") <=> m.type = "verack" \/ Has(k, "verack")
  BY AheadRest
<1>2. ASSUME Ahead(l, "verack", Requests)
      PROVE  m.type \notin Requests /\ (m.type # "verack" => Ahead(k, "verack", Requests))
  BY <1>2, AheadRest
<1>. QED BY <1>1, <1>2 DEF Shake

\* What ShakeOK says of a session that is intact.
Waking == client.pc \notin {"boot", "handshake"} \/ ready

\* ShakeOK in terms of Shake.
LEMMA ShakeMeans ==
  ASSUME TypesOK
  PROVE  /\ ShakeOK <=> (Intact => Shake(Waking, node.ready, Leaving, Line))
         /\ node.ready \in BOOLEAN
BY DEF ShakeOK, Shake, Waking, VerackSent, Requests, TypesOK, NodeOK

\* The same of the next state.
LEMMA ShakeMeansNext ==
  TypesOK' => /\ ShakeOK' <=> (Intact' => Shake(Waking', node'.ready, Leaving', Line'))
              /\ node'.ready \in BOOLEAN
BY DEF ShakeOK, Shake, Waking, VerackSent, Requests, TypesOK, NodeOK

\* The handler's steps keep the order of the handshake.
LEMMA HandlerShake ==
  ASSUME TypesOK, TypesOK', ShakeOK, HandlerStep
  PROVE  ShakeOK'
<1>. DEFINE p == Waking
            n == node.ready
            l == Leaving
            v == Line
            k == Leaving'
            w == Line'
<1>1. p \in BOOLEAN /\ n \in BOOLEAN /\ l \in Seq(ToNode) /\ v \in Seq(FromNode) /\ k \in Seq(ToNode) /\ w \in Seq(FromNode)
  BY BeltsTyped, BeltsTypedNext DEF Waking, TypesOK, NodeOK
<1>2. client' = client /\ connected' = connected /\ toNode' = toNode /\ node' = node
  BY DEF HandlerStep, HandlerStart, OnRequest, OnMessage, OnClosed, SendOn, HandlerLeaves, wires
<1>3. CASE ~Intact'
  BY <1>3 DEF ShakeOK
<1>4. CASE Intact'
  <2>1. ~HandlerEnds
    BY <1>4 DEF Intact, HandlerEnds, Task
  <2>2. ingress' = ingress
    <3>1. CASE SendOn
      BY <2>1, <3>1 DEF SendOn
    <3>. QED BY <2>1, <3>1 DEF HandlerStep, HandlerStart, OnRequest, OnMessage, OnClosed
  <2>3. Shake(p, n, l, v)
    BY <1>2, <1>4, <2>2, ShakeMeans DEF Intact
  <2>4. ASSUME Shake(Waking', n, k, w) PROVE ShakeOK'
    BY <1>2, <2>4, ShakeMeansNext
  <2>5. ready' = ready => Waking' = p
    BY <1>2 DEF Waking
  <2>. HIDE DEF p, n, l, v, k, w
  <2>6. CASE HandlerStart
    <3>. DEFINE m == Plain("version")
    <3>1. m \in ToNode /\ m.type \notin Requests
      BY DEF Plain, ToNode, Requests
    <3>2. Line' = Line /\ Leaving' = Leaving \o <<m>> /\ ready' = ready
      BY <2>6, SendingBelts DEF HandlerStart, permits
    <3>. HIDE DEF m
    <3>3. w = v /\ Then(l, m, k)
      BY <3>2, Zenon DEF Then, v, w, l, k
    <3>4. Shake(p, n, k, v)
      BY <1>1, <2>3, <3>1, <3>3, ShakeSends
    <3>. QED BY <2>4, <2>5, <3>2, <3>3, <3>4
  <2>7. CASE OnRequest
    <3>1. PICK r \in Request : requests = <<r>> /\ Line' = Line /\ Leaving' = Leaving \o <<r>>
      BY <2>7, SendingBelts
    <3>2. ready' = ready
      BY <2>7 DEF OnRequest, permits
    <3>3. w = v /\ Then(l, r, k) /\ r \in ToNode
      BY <3>1, MessageFacts DEF Then, v, w, l, k
    <3>4. p
      <4>1. requests # <<>>
        BY <2>7 DEF OnRequest
      <4>. QED BY <4>1 DEF p, Waking, TypesOK, LinksOK
    <3>5. Shake(p, n, k, v)
      BY <1>1, <2>3, <3>3, <3>4, ShakeSends
    <3>. QED BY <2>4, <2>5, <3>2, <3>3, <3>5
  <2>8. CASE OnMessage
    <3>1. PICK r \in FromNode :
             /\ Notified(r)
             /\ r.type \in {"headers", "block"} => Line' = Line
             /\ r.type \notin {"headers", "block"} => Line = <<r>> \o Line'
             /\ Leaving' = Leaving \o Response(r)
      BY <2>8, MessageBelts
    <3>2. ready' = (ready \/ r.type = "verack")
      BY <3>1 DEF Notified
    <3>3. ASSUME Response(r) = <<>> PROVE k = l
      <4>1. l \o <<>> = l
        BY <1>1
      <4>. QED BY <3>1, <3>3, <4>1, Zenon DEF k, l
    <3>4. r.type \notin {"headers", "block"} => First(r, w, v)
      BY <3>1 DEF First, v, w
    <3>5. CASE r.type \in {"headers", "block"}
      <4>1. w = v /\ Response(r) = <<>>
        BY <3>1, <3>5 DEF v, w, Response
      <4>2. Waking' = p
        BY <1>2, <3>2, <3>5 DEF Waking, p
      <4>. QED BY <2>3, <2>4, <3>3, <4>1, <4>2
    <3>6. CASE r.type = "version"
      <4>. DEFINE m == Plain("verack")
      <4>1. m \in ToNode /\ m.type = "verack" /\ m.type \notin Requests /\ Response(r) = <<m>>
        BY <3>6 DEF Plain, ToNode, Requests, Response
      <4>. HIDE DEF m
      <4>2. Then(l, m, k)
        BY <3>1, <4>1, Zenon DEF Then, l, k
      <4>3. \A z : m.type = "verack" => Shake(p, n, k, z)
        BY <1>1, <2>3, <4>1, <4>2, ShakeSends
      <4>4. Waking' = p
        BY <1>2, <3>2, <3>6 DEF Waking, p
      <4>. QED BY <2>4, <4>1, <4>3, <4>4
    <3>7. CASE r.type = "verack"
      <4>1. k = l
        BY <3>3, <3>7 DEF Response
      <4>2. Shake(TRUE, n, l, w)
        BY <1>1, <2>3, <3>4, <3>7, ShakeTaken
      <4>3. Waking' = TRUE
        BY <3>2, <3>7 DEF Waking
      <4>. QED BY <2>4, <4>1, <4>2, <4>3
    <3>8. CASE r.type \in {"inv", "ping", "unused"}
      <4>1. Shake(p, n, l, w)
        BY <1>1, <2>3, <3>4, <3>8, ShakeTaken
      <4>2. Waking' = p
        BY <1>2, <3>2, <3>8 DEF Waking, p
      <4>3. CASE r.type = "ping"
        <5>. DEFINE m == Plain("pong")
        <5>1. m \in ToNode /\ m.type \notin Requests /\ Response(r) = <<m>>
          BY <4>3 DEF Plain, ToNode, Requests, Response
        <5>. HIDE DEF m
        <5>2. Then(l, m, k)
          BY <3>1, <5>1, Zenon DEF Then, l, k
        <5>3. Shake(p, n, k, w)
          BY <1>1, <4>1, <5>1, <5>2, ShakeSends
        <5>. QED BY <2>4, <4>2, <5>3
      <4>4. CASE r.type # "ping"
        <5>1. k = l
          BY <3>3, <3>8, <4>4 DEF Response
        <5>. QED BY <2>4, <4>1, <4>2, <5>1
      <4>. QED BY <4>3, <4>4
    <3>9. r.type \in {"version", "verack", "inv", "ping", "unused", "headers", "block"}
      BY DEF FromNode, Relay
    <3>. QED BY <3>5, <3>6, <3>7, <3>8, <3>9
  <2>9. CASE OnClosed
    BY <2>1, <2>9 DEF OnClosed
  <2>10. CASE SendOn
    <3>. DEFINE m == handler.msg
    <3>1. \/ m \in Relay /\ Line = <<m>> \o Line' /\ Leaving' = Leaving /\ permits' = permits
          \/ Line' = Line /\ Leaving' = Leaving /\ permits' = permits
      BY <2>1, <2>10, SendOnBelts DEF Relay
    <3>. HIDE DEF m
    <3>2. k = l /\ Waking' = p
      BY <2>5, <3>1 DEF k, l, permits
    <3>3. Shake(p, n, l, w)
      <4>1. CASE m \in Relay /\ Line = <<m>> \o Line'
        <5>1. First(m, w, v) /\ m \in FromNode /\ m.type # "version"
          BY <4>1 DEF First, w, v, FromNode, Relay
        <5>. QED BY <1>1, <2>3, <5>1, ShakeTaken
      <4>2. CASE Line' = Line
        BY <2>3, <4>2 DEF w, v
      <4>. QED BY <3>1, <4>1, <4>2
    <3>. QED BY <2>4, <3>2, <3>3
  <2>. QED BY <2>6, <2>7, <2>8, <2>9, <2>10 DEF HandlerStep
<1>. QED BY <1>3, <1>4

\* Two messages come one after the other.
InTwo(v, a, b) == v \o <<a, b>> = (v \o <<a>>) \o <<b>>

\* Two messages appended at once are two appended one by one.
LEMMA OneByOne ==
  ASSUME NEW S, NEW v \in Seq(S), NEW a \in S, NEW b \in S
  PROVE  InTwo(v, a, b)
<1>. DEFINE x == <<a>>
            y == <<b>>
            z == <<a, b>>
<1>0. /\ x \in Seq(S) /\ y \in Seq(S) /\ z \in Seq(S) /\ Len(x) = 1 /\ Len(y) = 1 /\ Len(z) = 2
      /\ x[1] = a /\ y[1] = b /\ z[1] = a /\ z[2] = b
  OBVIOUS
<1>1. x \in Seq(S) /\ y \in Seq(S) /\ z = x \o y
  <2>. HIDE DEF x, y, z
  <2>. DEFINE c == x \o y
  <2>1. c \in Seq(S) /\ Len(c) = 2 /\ c[1] = a /\ c[2] = b
    <3>1. /\ c \in Seq(S) /\ Len(c) = Len(x) + Len(y)
          /\ \A i \in 1..Len(x) : c[i] = x[i]
          /\ \A i \in 1..Len(y) : c[Len(x) + i] = y[i]
      <4>1. x \in Seq(S) /\ y \in Seq(S)
        BY <1>0
      <4>. QED BY <4>1
    <3>. HIDE DEF c
    <3>2. Len(x) + Len(y) = 2 /\ 1 \in 1..Len(x) /\ 1 \in 1..Len(y) /\ Len(x) + 1 = 2
      BY <1>0
    <3>. QED BY <1>0, <3>1, <3>2
  <2>. HIDE DEF c
  <2>2. \A i \in 1..2 : z[i] = c[i]
    BY <1>0, <2>1
  <2>3. z = c
    BY <1>0, <2>1, <2>2
  <2>. QED BY <1>0, <2>3 DEF c
<1>. HIDE DEF x, y
<1>2. v \o (x \o y) = (v \o x) \o y
  BY <1>1
<1>. QED BY <1>1, <1>2, Zenon DEF InTwo, x, y, z

\* What the node says in answer, at the end of the line if that is read.
LEMMA AnswerBelts ==
  ASSUME TypesOK, Answer
  PROVE  LET m == Head(toNode)
             s == Answers(m)
         IN  /\ m \in ToNode /\ m.type # "getdata" /\ First(m, Leaving', Leaving)
             /\ s \in Seq(FromNode) /\ (ingress.pc = "run" => Starts(Line, s, Line'))
             /\ s = IF m.type = "version" THEN <<Plain("version"), Plain("verack")>>
                    ELSE IF m.type = "getheaders" /\ node.ready THEN <<Headers(m.from, node.tip)>> ELSE <<>>
             /\ node' = [node EXCEPT !.ready = @ \/ m.type = "verack"]
<1>. DEFINE m == Head(toNode)
            s == Answers(m)
<1>1. /\ UNCHANGED <<egress, toSend, handler, requests, headers, blocks, connected, received, ingress>>
      /\ connected /\ toNode # <<>> /\ m.type # "getdata"
      /\ fromNode' = fromNode \o s /\ toNode' = Tail(toNode)
      /\ node' = [node EXCEPT !.ready = @ \/ m.type = "verack"]
  BY DEF Answer, NodeLeaves, channels, results, tasks
<1>2. m \in ToNode /\ Tail(toNode) \in Seq(ToNode)
  BY <1>1, HeadTailProperties DEF TypesOK, ChannelsOK
<1>3. s = IF m.type = "version" THEN <<Plain("version"), Plain("verack")>>
          ELSE IF m.type = "getheaders" /\ node.ready THEN <<Headers(m.from, node.tip)>> ELSE <<>>
  BY DEF Answers
<1>4. First(m, Leaving', Leaving)
  <2>1. \E x \in Seq(ToNode) : Leaving = <<m>> \o x /\ Leaving' = <<>> \o x
    <3>1. <<>> \in Seq(ToNode) /\ toNode' = <<>> \o Tail(toNode)
      BY <1>1, <1>2
    <3>. QED BY <1>1, <3>1, NodeBelts
  <2>2. PICK x \in Seq(ToNode) : Leaving = <<m>> \o x /\ Leaving' = <<>> \o x
    BY <2>1
  <2>3. <<>> \o x = x
    OBVIOUS
  <2>. QED BY <2>2, <2>3, Zenon DEF First
<1>5. s \in Seq(FromNode)
  <2>1. CASE m.type = "version"
    <3>1. Plain("version") \in FromNode /\ Plain("verack") \in FromNode
      BY DEF Plain, FromNode
    <3>2. s = <<Plain("version"), Plain("verack")>>
      BY <1>3, <2>1
    <3>. HIDE DEF s
    <3>. QED BY <3>1, <3>2
  <2>2. CASE m.type = "getheaders" /\ node.ready
    <3>1. Headers(m.from, node.tip) \in FromNode
      BY <1>2, <2>2 DEF ToNode, Request, TypesOK, NodeOK, Headers, FromNode, Relay
    <3>2. s = <<Headers(m.from, node.tip)>>
      BY <1>3, <2>2
    <3>. HIDE DEF s
    <3>. QED BY <3>1, <3>2
  <2>3. CASE s = <<>>
    <3>. HIDE DEF s
    <3>. QED BY <2>3
  <2>. QED BY <1>3, <2>1, <2>2, <2>3
<1>6. ingress.pc = "run" => Starts(Line, s, Line')
  <2>. HIDE DEF s
  <2>1. Line' = IF ingress.pc = "run" THEN Line \o s ELSE Line
    BY <1>1, <1>5, LineGrows
  <2>. QED BY <2>1 DEF Starts
<1>. HIDE DEF m
<1>. QED BY <1>1, <1>2, <1>3, <1>4, <1>5, <1>6 DEF m

\* The other steps keep it too.
LEMMA WireShake ==
  ASSUME TypesOK, TypesOK', ShakeOK, WireStep
  PROVE  ShakeOK'
<1>. DEFINE p == Waking
            n == node.ready
            l == Leaving
            v == Line
            k == Leaving'
            w == Line'
<1>1. p \in BOOLEAN /\ n \in BOOLEAN /\ l \in Seq(ToNode) /\ v \in Seq(FromNode) /\ k \in Seq(ToNode) /\ w \in Seq(FromNode)
  BY BeltsTyped, BeltsTypedNext DEF Waking, TypesOK, NodeOK
<1>2. UNCHANGED <<client, ready>> /\ Waking' = p
  BY WireLeaves DEF Waking
<1>3. CASE ~Intact'
  BY <1>3 DEF ShakeOK
<1>4. CASE Intact'
  <2>1. ~DecodeFails /\ ~Lose /\ connected' /\ ingress'.pc = "run"
    BY <1>4 DEF Intact, DecodeFails, Lose, Task
  <2>2. Intact
    BY <1>4 DEF WireStep, IngressStep, DecodeFails, EgressStep, NodeStep, Read, Deliver, ReadFails, TakeMessage,
                Write, Answer, AnswerBlock, NewBlock, Chat, Lose, IngressLeaves, EgressLeaves, NodeLeaves, tasks,
                Intact, Task, TypesOK, TasksOK
  <2>3. Shake(p, n, l, v)
    BY <2>2, ShakeMeans
  <2>4. ASSUME Shake(p, node'.ready, k, w) PROVE ShakeOK'
    BY <1>2, <2>4, ShakeMeansNext
  <2>. HIDE DEF p, n, l, v, k, w
  <2>5. CASE IngressStep
    <3>1. Line' = Line
      BY <2>5, LineMoves DEF IngressStep
    <3>2. Leaving' = Leaving /\ node' = node
      BY <2>5, SameLeaving DEF IngressStep, Read, Deliver, ReadFails, IngressLeaves
    <3>. QED BY <2>3, <2>4, <3>1, <3>2 DEF l, k, v, w, n
  <2>6. CASE EgressStep
    <3>1. connected
      BY <2>2 DEF Intact
    <3>2. Line' = Line /\ Leaving' = Leaving /\ node' = node
      BY <2>6, <3>1, EgressBelts DEF EgressStep, TakeMessage, Write, EgressLeaves
    <3>. QED BY <2>3, <2>4, <3>2 DEF l, k, v, w, n
  <2>7. CASE NewBlock \/ Chat
    <3>1. UNCHANGED <<toNode, egress, toSend, handler, received, ingress>> /\ node'.ready = n
      BY <2>7 DEF NewBlock, Chat, NodeLeaves, channels, tasks, n, TypesOK, NodeOK
    <3>2. k = l
      BY <3>1, SameLeaving DEF k, l
    <3>3. CASE fromNode' = fromNode
      <4>1. w = v
        BY <3>1, <3>3 DEF Line, ToWorker, Arriving, Held, w, v
      <4>. QED BY <2>3, <2>4, <3>1, <3>2, <4>1
    <3>4. ASSUME NEW t \in {"inv", "ping", "unused"}, fromNode' = Append(fromNode, Plain(t))
          PROVE  ShakeOK'
      <4>. DEFINE m == Plain(t)
                  x == <<m>>
      <4>1. m \in FromNode /\ m.type # "verack" /\ fromNode \in Seq(FromNode)
        BY DEF Plain, FromNode, TypesOK, ChannelsOK
      <4>2. fromNode' = Append(fromNode, m)
        BY <3>4
      <4>. HIDE DEF m
      <4>3. x \in Seq(FromNode) /\ fromNode' = fromNode \o x /\ \A i \in 1..Len(x) : x[i] = m
        BY <4>1, <4>2
      <4>. HIDE DEF x
      <4>4. Line' = IF ingress.pc = "run" THEN Line \o x ELSE Line
        BY <3>1, <4>3, LineGrows
      <4>5. Starts(v, x, w)
        BY <2>2, <4>4 DEF Intact, Starts, v, w
      <4>6. \A i \in 1..Len(x) : x[i].type \notin {"verack"}
        BY <4>1, <4>3
      <4>7. Shake(p, n, l, w)
        BY <1>1, <2>3, <4>3, <4>5, <4>6, ShakeArrives
      <4>. QED BY <2>4, <3>1, <3>2, <4>7
    <3>. QED BY <2>7, <3>3, <3>4 DEF NewBlock, Chat
  <2>8. CASE Answer
    <3>. DEFINE m == Head(toNode)
                s == Answers(m)
    <3>1. /\ m \in ToNode /\ First(m, k, l)
          /\ s \in Seq(FromNode) /\ (ingress.pc = "run" => Starts(v, s, w))
          /\ s = IF m.type = "version" THEN <<Plain("version"), Plain("verack")>>
                 ELSE IF m.type = "getheaders" /\ node.ready THEN <<Headers(m.from, node.tip)>> ELSE <<>>
          /\ node' = [node EXCEPT !.ready = @ \/ m.type = "verack"]
      BY <2>8, AnswerBelts DEF k, l, v, w
    <3>2. node'.ready = (n \/ m.type = "verack") /\ Starts(v, s, w)
      BY <2>2, <3>1 DEF Intact, n, TypesOK, NodeOK
    <3>3. Shake(p, n, l, w)
      <4>1. CASE m.type = "version"
        <5>. DEFINE a == Plain("version")
                    b == Plain("verack")
        <5>1. a \in FromNode /\ b \in FromNode /\ a.type = "version" /\ b.type = "verack"
          BY DEF Plain, FromNode
        <5>2. s = <<a, b>>
          BY <3>1, <4>1
        <5>. HIDE DEF a, b, s
        <5>. DEFINE x == <<a>>
                    y == <<b>>
                    u == v \o x
        <5>3. /\ x \in Seq(FromNode) /\ y \in Seq(FromNode) /\ u \in Seq(FromNode)
              /\ \A i \in 1..Len(x) : x[i] = a
              /\ Len(x) = 1 /\ x[1] = a
          BY <1>1, <5>1
        <5>4. v \o s = u \o y
          <6>1. InTwo(v, a, b)
            BY <1>1, <5>1, OneByOne
          <6>. QED BY <5>2, <6>1, Zenon DEF InTwo
        <5>5. Starts(v, x, u) /\ Starts(u, y, w)
          BY <3>2, <5>4, Zenon DEF Starts
        <5>6. Has(x, "version")
          BY <5>1, <5>3 DEF Has
        <5>. HIDE DEF x, y, u
        <5>7. \A i \in 1..Len(x) : x[i].type \notin {"verack"}
          BY <5>1, <5>3
        <5>8. Shake(p, n, l, u)
          BY <1>1, <2>3, <5>3, <5>5, <5>7, ShakeArrives
        <5>9. Has(u, "version")
          BY <1>1, <5>3, <5>5, <5>6, HasKept
        <5>. QED BY <1>1, <5>3, <5>5, <5>8, <5>9, ShakeArrives
      <4>2. CASE m.type = "getheaders" /\ node.ready
        <5>. DEFINE a == Headers(m.from, node.tip)
        <5>1. a.type # "verack"
          BY DEF Headers
        <5>2. s = <<a>>
          BY <3>1, <4>2
        <5>. HIDE DEF a, s
        <5>3. \A i \in 1..Len(s) : s[i].type \notin {"verack"}
          BY <5>1, <5>2
        <5>. QED BY <1>1, <2>3, <3>1, <3>2, <5>3, ShakeArrives
      <4>3. CASE s = <<>>
        <5>. HIDE DEF s
        <5>1. \A i \in 1..Len(s) : s[i].type \notin {"verack"}
          BY <4>3
        <5>. QED BY <1>1, <2>3, <3>1, <3>2, <5>1, ShakeArrives
      <4>. QED BY <3>1, <4>1, <4>2, <4>3
    <3>. HIDE DEF m, s
    <3>4. Shake(p, n \/ m.type = "verack", k, w)
      BY <1>1, <3>1, <3>3, ShakeHandled
    <3>. QED BY <2>4, <3>2, <3>4
  <2>9. CASE AnswerBlock
    <3>. DEFINE m == Head(toNode)
    <3>1. /\ UNCHANGED <<egress, toSend, handler>> /\ connected /\ toNode # <<>> /\ m.type = "getdata"
          /\ toNode' = Rest(m) \o Tail(toNode) /\ node' = node
      BY <2>9 DEF AnswerBlock, NodeLeaves, channels, tasks
    <3>2. m \in ToNode /\ m \in BlocksRequest
      <4>1. m \in ToNode
        BY <3>1, HeadTailProperties DEF TypesOK, ChannelsOK
      <4>. QED BY <3>1, <4>1 DEF ToNode, Request, BlocksRequest
    <3>3. Rest(m) \in Seq(ToNode)
      <4>1. Rest(m) \in Seq(BlocksRequest) /\ BlocksRequest \subseteq ToNode
        BY <3>2, RestAsked DEF BlocksRequest, ToNode, Request
      <4>. QED BY <4>1
    <3>4. PICK x \in Seq(ToNode) : Leaving = <<m>> \o x
      BY <3>1, <3>3, NodeBelts
    <3>. HIDE DEF m
    <3>5. First(m, x, l)
      BY <3>4 DEF First, l
    <3>6. m.type \in Requests => n
      BY <1>1, <2>3, <3>2, <3>5, ShakeHandled
    <3>7. n /\ node'.ready
      BY <3>1, <3>6 DEF Requests, n
    <3>. QED BY <2>4, <3>7 DEF Shake
  <2>. QED BY <2>1, <2>5, <2>6, <2>7, <2>8, <2>9 DEF WireStep, NodeStep
<1>. QED BY <1>3, <1>4

(***************************************************************************)
(* The tips in the answers, and the announcement of later blocks.          *)
(***************************************************************************)

Tips ==
  {headers[i].to : i \in 1..Len(headers)} \cup {Hs[i].to : i \in 1..Len(Hs)}
    \cup {x \in {client.told} : client.pc \in {"idle", "fetch", "blocks"}}

\* WakeOK is about one set of heights.
LEMMA WakeMeans ==
  /\ WakeOK <=> (Intact => \A x \in Tips : Known(x))
  /\ WakeOK' <=> (Intact' => \A x \in Tips' : Known(x)')
BY DEF WakeOK, Tips

\* A step that is not the worker's brings no tip but the node's.
LEMMA EffectTips ==
  ASSUME TypesOK, TypesOK', client' = client, Effect, Intact'
  PROVE  \A x \in Tips' : x \in Tips \/ (x = node'.tip /\ node'.ready)
<1>. DEFINE a == headers
            h == Hs
            b == headers'
            k == Hs'
            T(s) == {s[i].to : i \in 1..Len(s)}
            C == {x \in {client.told} : client.pc \in {"idle", "fetch", "blocks"}}
<1>1. /\ a \in Seq(HeadersMessage) /\ h \in Seq(HeadersMessage)
      /\ b \in Seq(HeadersMessage) /\ k \in Seq(HeadersMessage)
  BY ViewsTyped, ViewsTypedNext DEF TypesOK, ChannelsOK, HeadersMessage
<1>2. Tips = T(a) \cup T(h) \cup C /\ Tips' = T(b) \cup T(k) \cup C
  BY DEF Tips
<1>. HIDE DEF a, h, b, k, C
<1>3. CASE b = a /\ k = h
  <2>1. Tips' = Tips
    BY <1>2, <1>3, Zenon
  <2>. QED BY <2>1
<1>4. CASE HeadersMove
  <2>1. PICK m \in HeadersMessage : b = Append(a, m) /\ h = <<m>> \o k
    BY <1>4 DEF HeadersMove, HeadersMessage, a, b, h, k
  <2>2. T(b) \subseteq T(a) \cup {m.to}
    <3>1. Len(b) = Len(a) + 1 /\ Len(a) \in Nat /\ b[Len(a) + 1] = m /\ \A i \in 1..Len(a) : b[i] = a[i]
      BY <1>1, <2>1
    <3>2. ASSUME NEW i \in 1..Len(b) PROVE b[i].to \in T(a) \cup {m.to}
      <4>1. i \in 1..Len(a) \/ i = Len(a) + 1
        BY <3>1
      <4>. QED BY <3>1, <4>1
    <3>. QED BY <3>2
  <2>3. T(k) \subseteq T(h) /\ m.to \in T(h)
    <3>1. Len(h) = 1 + Len(k) /\ Len(k) \in Nat /\ h[1] = m /\ \A i \in 1..Len(k) : h[i + 1] = k[i]
      BY <1>1, <2>1
    <3>2. ASSUME NEW i \in 1..Len(k) PROVE k[i].to \in T(h)
      <4>1. i + 1 \in 1..Len(h) /\ h[i + 1] = k[i]
        BY <3>1
      <4>. QED BY <4>1
    <3>3. 1 \in 1..Len(h)
      BY <3>1
    <3>. QED BY <3>1, <3>2, <3>3
  <2>. HIDE DEF T
  <2>. QED BY <1>2, <2>2, <2>3
<1>5. CASE HeadersAnswer
  <2>1. PICK m \in HeadersRequest : k = h \o <<Headers(m.from, node.tip)>>
    BY <1>5 DEF HeadersAnswer, HeadersRequest, h, k
  <2>2. b = a /\ node'.ready /\ node'.tip = node.tip
    BY <1>5 DEF HeadersAnswer, a, b
  <2>. DEFINE n == Headers(m.from, node.tip)
  <2>3. n \in HeadersMessage /\ n.to = node.tip
    BY DEF Headers, HeadersMessage, HeadersRequest, TypesOK, NodeOK
  <2>4. k = h \o <<n>>
    BY <2>1
  <2>. HIDE DEF n
  <2>5. T(k) \subseteq T(h) \cup {node.tip}
    <3>1. Len(k) = Len(h) + 1 /\ Len(h) \in Nat /\ k[Len(h) + 1] = n /\ \A i \in 1..Len(h) : k[i] = h[i]
      BY <1>1, <2>3, <2>4
    <3>2. ASSUME NEW i \in 1..Len(k) PROVE k[i].to \in T(h) \cup {node.tip}
      <4>1. i \in 1..Len(h) \/ i = Len(h) + 1
        BY <3>1
      <4>. QED BY <2>3, <3>1, <4>1
    <3>. QED BY <3>2
  <2>. HIDE DEF T
  <2>. QED BY <1>2, <2>2, <2>5
<1>. QED BY <1>3, <1>4, <1>5 DEF Effect, Quiet, BlockMove, BlockAnswer, SameHeaders, Loss, a, b, h, k

\* The node has announced something the worker has not been told of yet.
LEMMA ToldMeans ==
  /\ TypesOK => (Told <=> announced \/ Has(Line, "inv"))
  /\ TypesOK' => (Told' <=> announced' \/ Has(Line', "inv"))
<1>1. ASSUME TypesOK PROVE Told <=> announced \/ Has(Line, "inv")
  <2>1. Has(Line, "inv") <=> Is # <<>>
    BY <1>1, BeltsTyped, SomethingSelected DEF Is
  <2>. QED BY <2>1 DEF Told
<1>2. ASSUME TypesOK' PROVE Told' <=> announced' \/ Has(Line', "inv")
  <2>1. Has(Line', "inv") <=> Is' # <<>>
    BY <1>2, BeltsTypedNext, SomethingSelected DEF Is
  <2>. QED BY <2>1 DEF Told
<1>. QED BY <1>1, <1>2

\* The handler loses no announcement.
LEMMA HandlerTold ==
  ASSUME TypesOK, TypesOK', HandlerStep, Intact', Told
  PROVE  Told'
<1>1. ~HandlerEnds
  BY DEF Intact, HandlerEnds, Task
<1>2. announced \/ Has(Line, "inv")
  BY ToldMeans
<1>3. Line \in Seq(FromNode) /\ Line' \in Seq(FromNode)
  BY BeltsTyped, BeltsTypedNext
<1>4. ASSUME announced' = announced, Line' = Line PROVE Told'
  BY <1>2, <1>4, ToldMeans
<1>5. CASE HandlerStart
  BY <1>4, <1>5, SendingBelts DEF HandlerStart, permits
<1>6. CASE OnRequest
  <2>1. Line' = Line
    BY <1>6, SendingBelts
  <2>. QED BY <1>4, <1>6, <2>1 DEF OnRequest, permits
<1>7. CASE OnMessage
  <2>1. PICK r \in FromNode :
           /\ Notified(r)
           /\ r.type \in {"headers", "block"} => Line' = Line
           /\ r.type \notin {"headers", "block"} => Line = <<r>> \o Line'
    BY <1>7, MessageBelts
  <2>2. announced' = (announced \/ r.type = "inv")
    BY <2>1 DEF Notified
  <2>3. CASE r.type \in {"headers", "block"}
    BY <1>2, <2>1, <2>2, <2>3, ToldMeans
  <2>4. CASE r.type \notin {"headers", "block"}
    <3>1. First(r, Line', Line)
      BY <2>1, <2>4 DEF First
    <3>2. Has(Line, "inv") <=> r.type = "inv" \/ Has(Line', "inv")
      BY <1>3, <3>1, AheadRest
    <3>. QED BY <1>2, <2>2, <3>2, ToldMeans
  <2>. QED BY <2>3, <2>4
<1>8. CASE OnClosed
  BY <1>1, <1>8 DEF OnClosed
<1>9. CASE SendOn
  <2>. DEFINE m == handler.msg
  <2>1. \/ m \in Relay /\ Line = <<m>> \o Line' /\ permits' = permits
        \/ Line' = Line /\ permits' = permits
    BY <1>1, <1>9, SendOnBelts DEF Relay
  <2>. HIDE DEF m
  <2>2. announced' = announced
    BY <2>1 DEF permits
  <2>3. CASE m \in Relay /\ Line = <<m>> \o Line'
    <3>1. First(m, Line', Line) /\ m \in FromNode /\ m.type # "inv"
      BY <2>3 DEF First, FromNode, Relay
    <3>2. Has(Line, "inv") <=> m.type = "inv" \/ Has(Line', "inv")
      BY <1>3, <3>1, AheadRest
    <3>. QED BY <1>2, <2>2, <3>1, <3>2, ToldMeans
  <2>. QED BY <1>4, <2>1, <2>2, <2>3
<1>. QED BY <1>5, <1>6, <1>7, <1>8, <1>9 DEF HandlerStep

\* Nor do the other steps; and a new block is announced.
LEMMA WireTold ==
  ASSUME TypesOK, TypesOK', WireStep, Intact'
  PROVE  /\ Told => Told'
         /\ node.ready => node'.ready
         /\ node'.tip = node.tip \/ (node.ready => Told')
<1>1. announced' = announced
  BY WireLeaves
<1>2. Line \in Seq(FromNode) /\ Line' \in Seq(FromNode) /\ node \in [tip : Nat, ready : BOOLEAN]
  BY BeltsTyped, BeltsTypedNext DEF TypesOK, NodeOK
<1>3. ASSUME NEW x \in Seq(FromNode), Starts(Line, x, Line')
      PROVE  (Told => Told') /\ (Has(x, "inv") => Told')
  <2>1. Has(Line', "inv") <=> Has(Line, "inv") \/ Has(x, "inv")
    BY <1>2, <1>3, HasKept
  <2>. QED BY <1>1, <2>1, ToldMeans
<1>4. ASSUME Line' = Line PROVE Told => Told'
  BY <1>1, <1>4, ToldMeans
<1>5. ~DecodeFails /\ ~Lose
  BY DEF Intact, DecodeFails, Lose, Task
<1>6. CASE IngressStep
  <2>1. Line' = Line /\ node' = node
    BY <1>6, LineMoves DEF IngressStep, Read, Deliver, ReadFails, IngressLeaves
  <2>. QED BY <1>4, <2>1
<1>7. CASE EgressStep
  <2>1. Line' = Line /\ node' = node
    BY <1>7, EgressBelts DEF EgressStep, TakeMessage, Write, EgressLeaves
  <2>. QED BY <1>4, <2>1
<1>8. CASE Answer
  <2>1. ingress.pc = "run"
    BY <1>8 DEF Answer, NodeLeaves, tasks, Intact
  <2>. DEFINE m == Head(toNode)
              s == Answers(m)
  <2>2. s \in Seq(FromNode) /\ Starts(Line, s, Line') /\ node' = [node EXCEPT !.ready = @ \/ m.type = "verack"]
    BY <1>8, <2>1, AnswerBelts
  <2>. HIDE DEF m, s
  <2>3. node'.tip = node.tip /\ (node.ready => node'.ready)
    BY <1>2, <2>2
  <2>. QED BY <1>3, <2>2, <2>3
<1>9. ASSUME NEW m \in FromNode, fromNode' = Append(fromNode, m), UNCHANGED <<handler, received, ingress>>
      PROVE  (Told => Told') /\ (m.type = "inv" => Told')
  <2>. DEFINE x == <<m>>
  <2>1. x \in Seq(FromNode) /\ fromNode' = fromNode \o x /\ Len(x) = 1 /\ x[1] = m
    <3>1. fromNode \in Seq(FromNode)
      BY DEF TypesOK, ChannelsOK
    <3>. QED BY <1>9, <3>1
  <2>. HIDE DEF x
  <2>2. Line' = IF ingress.pc = "run" THEN Line \o x ELSE Line
    BY <1>9, <2>1, LineGrows
  <2>3. Starts(Line, x, Line')
    BY <1>9, <2>2 DEF Intact, Starts
  <2>4. m.type = "inv" => Has(x, "inv")
    BY <2>1 DEF Has
  <2>. QED BY <1>3, <2>1, <2>3, <2>4
<1>10. CASE AnswerBlock
  <2>1. UNCHANGED <<handler, received, ingress>> /\ node' = node
    BY <1>10 DEF AnswerBlock, NodeLeaves, channels, tasks
  <2>2. \E h \in Nat : fromNode' = Append(fromNode, BlockMsg(h))
    <3>1. toNode # <<>> /\ Head(toNode).type = "getdata"
      BY <1>10 DEF AnswerBlock
    <3>2. Head(toNode) \in ToNode
      BY <3>1, HeadTailProperties DEF TypesOK, ChannelsOK
    <3>3. Head(toNode) \in BlocksRequest
      BY <3>1, <3>2 DEF ToNode, Request, BlocksRequest
    <3>4. Head(Head(toNode).list) \in Nat
      <4>. DEFINE r == Head(toNode)
      <4>1. r.list \in Seq(Nat) /\ Len(r.list) \in Nat \ {0}
        BY <3>3, RestAsked
      <4>. QED BY <4>1
    <3>. QED BY <1>10, <3>4 DEF AnswerBlock
  <2>3. PICK h \in Nat : fromNode' = Append(fromNode, BlockMsg(h))
    BY <2>2
  <2>4. BlockMsg(h) \in FromNode
    BY DEF BlockMsg, FromNode, Relay
  <2>. QED BY <1>9, <2>1, <2>3, <2>4
<1>11. CASE NewBlock
  <2>1. UNCHANGED <<handler, received, ingress, connected>> /\ node'.ready = node.ready
    BY <1>2, <1>11 DEF NewBlock, NodeLeaves, channels, tasks
  <2>2. CASE connected /\ node.ready
    <3>1. fromNode' = Append(fromNode, Plain("inv")) /\ Plain("inv") \in FromNode /\ Plain("inv").type = "inv"
      BY <1>11, <2>2 DEF NewBlock, Plain, FromNode
    <3>. QED BY <1>9, <2>1, <3>1
  <2>3. CASE ~(connected /\ node.ready)
    <3>1. fromNode' = fromNode /\ ~node.ready
      BY <1>11, <2>1, <2>3 DEF NewBlock, Intact
    <3>2. Line' = Line
      BY <2>1, <3>1 DEF Line, ToWorker, Arriving, Held
    <3>. QED BY <1>4, <2>1, <3>1, <3>2
  <2>. QED BY <2>2, <2>3
<1>12. CASE Chat
  <2>1. UNCHANGED <<handler, received, ingress, node>>
    BY <1>12 DEF Chat, NodeLeaves, channels, tasks
  <2>2. PICK t \in {"ping", "unused"} : fromNode' = Append(fromNode, Plain(t))
    BY <1>12 DEF Chat
  <2>3. Plain(t) \in FromNode
    BY DEF Plain, FromNode
  <2>. QED BY <1>9, <2>1, <2>2, <2>3
<1>. QED BY <1>5, <1>6, <1>7, <1>8, <1>10, <1>11, <1>12 DEF WireStep, NodeStep

\* So what is known stays known.
LEMMA EffectWake ==
  ASSUME TypesOK, TypesOK', ShakeOK, WakeOK, HandlerStep \/ WireStep, client' = client, Effect
  PROVE  WakeOK'
<1>1. CASE ~Intact'
  BY <1>1 DEF WakeOK
<1>2. CASE Intact'
  <2>1. Intact
    BY <1>2 DEF Effect, Quiet, HeadersMove, BlockMove, Loss, HeadersAnswer, BlockAnswer, KeepsIntact
  <2>2. \A x \in Tips : Known(x)
    BY <2>1, WakeMeans
  <2>3. \A x \in Tips' : x \in Tips \/ (x = node'.tip /\ node'.ready)
    BY <1>2, EffectTips
  <2>4. /\ Told => Told'
        /\ node.ready => node'.ready
        /\ node'.tip = node.tip \/ (node.ready => Told')
    <3>1. CASE HandlerStep
      <4>1. node' = node
        BY <3>1 DEF HandlerStep, HandlerStart, OnRequest, OnMessage, OnClosed, SendOn, HandlerLeaves
      <4>. QED BY <1>2, <3>1, <4>1, HandlerTold
    <3>. QED BY <1>2, <3>1, WireTold
  <2>5. node'.tip \in Nat
    BY DEF TypesOK, NodeOK
  <2>6. ASSUME NEW x \in Tips' PROVE Known(x)'
    <3>1. CASE x \in Tips
      <4>1. node.ready /\ (x < node.tip => Told)
        BY <2>2, <3>1 DEF Known
      <4>2. node'.ready /\ (x < node'.tip => Told')
        BY <2>4, <4>1
      <4>. QED BY <4>2 DEF Known
    <3>2. CASE x = node'.tip /\ node'.ready
      BY <2>5, <3>2 DEF Known
    <3>. QED BY <2>3, <3>1, <3>2
  <2>. QED BY <2>6, WakeMeans
<1>. QED BY <1>1, <1>2

(***************************************************************************)
(* Requests that are not yet on the wire.                                  *)
(***************************************************************************)

Members(s) == {s[i] : i \in 1..Len(s)}

\* The members of a concatenation are those of its parts.
LEMMA MembersOfBoth ==
  ASSUME NEW S, NEW a \in Seq(S), NEW b \in Seq(S), NEW c, Starts(a, b, c)
  PROVE  Members(c) = Members(a) \cup Members(b)
<1>. DEFINE A == Len(a)
            B == Len(b)
<1>1. /\ A \in Nat /\ B \in Nat /\ Len(c) = A + B
      /\ \A i \in 1..A : c[i] = a[i]
      /\ \A i \in 1..B : c[A + i] = b[i]
  BY DEF Starts
<1>. HIDE DEF A, B
<1>2. ASSUME NEW j \in 1..Len(c) PROVE c[j] \in Members(a) \cup Members(b)
  <2>1. CASE j \in 1..A
    BY <1>1, <2>1 DEF Members, A
  <2>2. CASE j \notin 1..A
    <3>. DEFINE i == j - A
    <3>1. i \in 1..B /\ A + i = j
      BY <1>1, <2>2
    <3>2. b[i] = c[j]
      BY <1>1, <3>1
    <3>. HIDE DEF i
    <3>. QED BY <3>1, <3>2 DEF Members, B
  <2>. QED BY <2>1, <2>2
<1>3. ASSUME NEW i \in 1..A PROVE a[i] \in Members(c)
  <2>1. i \in 1..Len(c) /\ c[i] = a[i]
    BY <1>1
  <2>. QED BY <2>1 DEF Members
<1>4. ASSUME NEW i \in 1..B PROVE b[i] \in Members(c)
  <2>. DEFINE j == A + i
  <2>1. j \in 1..Len(c) /\ c[j] = b[i]
    BY <1>1
  <2>. HIDE DEF j
  <2>. QED BY <2>1 DEF Members
<1>5. Members(c) \subseteq Members(a) \cup Members(b)
  <2>1. ASSUME NEW y \in Members(c) PROVE y \in Members(a) \cup Members(b)
    <3>1. PICK j \in 1..Len(c) : y = c[j]
      BY <2>1 DEF Members
    <3>. QED BY <1>2, <3>1
  <2>. QED BY <2>1
<1>6. Members(a) \subseteq Members(c) /\ Members(b) \subseteq Members(c)
  BY <1>3, <1>4 DEF Members, A, B
<1>. QED BY <1>5, <1>6

\* They are what leaves, or is about to, and is not written.
LEMMA HandsOnBelt ==
  ASSUME TypesOK, NEW m, m.type = "getdata"
  PROVE  m \in Members(Leaving \o requests) <=> m \in Members(toNode) \cup InHands
<1>. DEFINE a == toNode
            b == Held(egress)
            c == toSend
            d == ToEgress
            e == requests
            ab == a \o b
            abc == ab \o c
            abcd == abc \o d
            all == abcd \o e
<1>1. a \in Seq(ToNode) /\ b \in Seq(ToNode) /\ c \in Seq(ToNode) /\ d \in Seq(ToNode) /\ e \in Seq(ToNode)
  BY PartsTyped
<1>2. Leaving \o requests = all
  BY DEF Leaving
<1>3. InHands = {egress.msg, handler.msg} \cup Members(c) \cup Members(e)
  BY DEF InHands, Members
<1>4. m \in Members(b) <=> m = egress.msg
  <2>0. m # Nothing
    BY DEF Nothing
  <2>1. CASE egress.msg = Nothing
    <3>1. b = <<>>
      BY <2>1 DEF Held
    <3>2. Members(b) = {}
      BY <3>1 DEF Members
    <3>. QED BY <2>0, <2>1, <3>2
  <2>2. CASE egress.msg # Nothing
    <3>. DEFINE x == egress.msg
    <3>1. b = <<x>>
      BY <2>2 DEF Held
    <3>. HIDE DEF x, b
    <3>2. Members(b) = {x}
      BY <3>1 DEF Members
    <3>. QED BY <3>2 DEF x
  <2>. QED BY <2>1, <2>2
<1>5. m \in Members(d) <=> m = handler.msg
  <2>. DEFINE x == handler.msg
  <2>0. d = EgressPart(x)
    BY HandParts
  <2>1. CASE x.type \in {"headers", "block"} \/ x = Nothing
    <3>1. d = <<>>
      BY <2>0, <2>1 DEF EgressPart
    <3>2. Members(d) = {}
      BY <3>1 DEF Members
    <3>3. m # x
      BY <2>1 DEF Nothing
    <3>. QED BY <3>2, <3>3
  <2>2. CASE ~(x.type \in {"headers", "block"} \/ x = Nothing)
    <3>1. d = <<x>>
      BY <2>0, <2>2 DEF EgressPart
    <3>. HIDE DEF x, d
    <3>2. Members(d) = {x}
      BY <3>1 DEF Members
    <3>. QED BY <3>2 DEF x
  <2>. QED BY <2>1, <2>2
<1>. HIDE DEF a, b, c, d, e
<1>6. ab \in Seq(ToNode) /\ Starts(a, b, ab)
  BY <1>1 DEF Starts
<1>. HIDE DEF ab
<1>7. abc \in Seq(ToNode) /\ Starts(ab, c, abc)
  BY <1>1, <1>6 DEF Starts
<1>. HIDE DEF abc
<1>8. abcd \in Seq(ToNode) /\ Starts(abc, d, abcd)
  BY <1>1, <1>7 DEF Starts
<1>. HIDE DEF abcd
<1>9. all \in Seq(ToNode) /\ Starts(abcd, e, all)
  BY <1>1, <1>8 DEF Starts
<1>. HIDE DEF all
<1>10. Members(all) = (((Members(a) \cup Members(b)) \cup Members(c)) \cup Members(d)) \cup Members(e)
  <2>1. Members(ab) = Members(a) \cup Members(b)
    BY <1>1, <1>6, MembersOfBoth
  <2>2. Members(abc) = Members(ab) \cup Members(c)
    BY <1>1, <1>6, <1>7, MembersOfBoth
  <2>3. Members(abcd) = Members(abc) \cup Members(d)
    BY <1>1, <1>7, <1>8, MembersOfBoth
  <2>4. Members(all) = Members(abcd) \cup Members(e)
    BY <1>1, <1>8, <1>9, MembersOfBoth
  <2>. QED BY <2>1, <2>2, <2>3, <2>4, Zenon
<1>11. m \in Members(all) <=> m \in Members(a) \cup InHands
  BY <1>3, <1>4, <1>5, <1>10
<1>. QED BY <1>2, <1>11 DEF a

\* Without a request for blocks under way there is none in hand; and with one
\* that is not on the wire it is one in hand.
LEMMA HandsAsk ==
  ASSUME TypesOK
  PROVE  /\ Ds = <<>> => \A m \in InHands : m.type # "getdata"
         /\ (Ds # <<>> /\ toNode = <<>>) => Ds[1] \in InHands /\ Ds[1].type = "getdata"
<1>. DEFINE s == Leaving \o requests
<1>1. s \in Seq(ToNode) /\ Ds = OfType(s, "getdata")
  BY BeltsTyped DEF Ds, Outbound
<1>. HIDE DEF s
<1>2. ASSUME Ds = <<>>, NEW m \in InHands, m.type = "getdata" PROVE FALSE
  <2>1. m \in Members(s)
    BY <1>2, HandsOnBelt DEF s
  <2>2. Has(s, "getdata")
    BY <1>2, <2>1 DEF Members, Has
  <2>. QED BY <1>1, <1>2, <2>2, SomethingSelected
<1>3. ASSUME Ds # <<>>, toNode = <<>> PROVE Ds[1] \in InHands /\ Ds[1].type = "getdata"
  <2>. DEFINE q == Ds
  <2>1. /\ q \in Seq(ToNode) /\ \A i \in 1..Len(q) : q[i].type = "getdata"
        /\ \A i \in 1..Len(q) : \E j \in 1..Len(s) : q[i] = s[j]
    BY SMTT(30), <1>1, SelectedAre
  <2>. HIDE DEF q
  <2>2. 1 \in 1..Len(q)
    BY <1>3, <2>1 DEF q
  <2>3. q[1] \in Members(s) /\ q[1].type = "getdata"
    BY <2>1, <2>2 DEF Members
  <2>4. q[1] \in Members(toNode) \cup InHands
    BY <2>3, HandsOnBelt DEF s
  <2>5. Members(toNode) = {}
    BY <1>3 DEF Members
  <2>. QED BY <2>3, <2>4, <2>5 DEF q
<1>. QED BY <1>2, <1>3

NoneInHand == \A m \in InHands : m.type # "getdata"

\* The same of the next state.
LEMMA HandsAskNext ==
  (TypesOK' /\ Ds' = <<>>) => NoneInHand'
<1>. DEFINE NoneUnderWay == Ds = <<>>
<1>1. (TypesOK /\ NoneUnderWay) => NoneInHand
  BY HandsAsk DEF NoneInHand
<1>. HIDE DEF NoneUnderWay
<1>2. (TypesOK' /\ NoneUnderWay') => NoneInHand'
  BY <1>1, PTL
<1>. QED BY <1>2 DEF NoneUnderWay

\* A step that is not the worker's puts no request for blocks into a hand.
LEMMA EffectHands ==
  ASSUME TypesOK, TypesOK', HandsOK, HandlerStep \/ WireStep, client' = client
  PROVE  HandsOK'
<1>. DEFINE Old(m) == m.type = "getdata" => m \in InHands
<1>0. InHands' = {egress'.msg, handler'.msg} \cup Members(toSend') \cup Members(requests')
      /\ InHands = {egress.msg, handler.msg} \cup Members(toSend) \cup Members(requests)
  BY DEF InHands, Members
<1>1. Members(<<>>) = {} /\ \A x : Members(<<x>>) = {x}
  <2>1. Members(<<>>) = {}
    BY DEF Members
  <2>2. ASSUME NEW x PROVE Members(<<x>>) = {x}
    BY DEF Members
  <2>. QED BY <2>1, <2>2
<1>2. ASSUME NEW S, NEW c, Single(c, S), c # <<>> PROVE Head(c) \in Members(c)
  <2>1. PICK y \in S : c = <<y>>
    BY <1>2 DEF Single
  <2>2. Head(c) = y /\ Members(c) = {y}
    BY <1>1, <2>1
  <2>. QED BY <2>2
<1>3. Single(requests, Request) /\ Single(toSend, ToNode)
  BY DEF TypesOK, ChannelsOK
<1>4. Nothing.type # "getdata" /\ Plain("version").type # "getdata"
  BY DEF Nothing, Plain
<1>5. ASSUME Old(egress'.msg), Old(handler'.msg), \A m \in Members(toSend') : Old(m),
             \A m \in Members(requests') : Old(m)
      PROVE  HandsOK'
  BY <1>0, <1>5 DEF HandsOK
<1>6. Old(egress.msg) /\ Old(handler.msg) /\ (\A m \in Members(toSend) : Old(m)) /\ (\A m \in Members(requests) : Old(m))
  BY <1>0
<1>7. CASE HandlerStart
  BY <1>4, <1>5, <1>6, <1>7 DEF HandlerStart, Sending, channels
<1>8. CASE OnRequest
  <2>1. requests # <<>> /\ requests' = <<>> /\ handler'.msg = Head(requests) /\ UNCHANGED <<toSend, egress>>
    BY <1>8 DEF OnRequest, Sending
  <2>2. Head(requests) \in InHands
    BY <1>0, <1>2, <1>3, <2>1
  <2>. QED BY <1>1, <1>5, <1>6, <2>1, <2>2
<1>9. CASE OnMessage
  <2>1. UNCHANGED <<requests, toSend, egress>> /\ handler'.msg = Reaction(Head(received))
    BY <1>9 DEF OnMessage
  <2>2. Reaction(Head(received)).type # "getdata"
    BY DEF Reaction, Plain, Nothing
  <2>. QED BY <1>5, <1>6, <2>1, <2>2
<1>10. ASSUME HandlerEnds PROVE HandsOK'
  <2>1. /\ handler'.msg = Nothing /\ egress'.msg = Nothing /\ requests' = <<>> /\ toSend' = <<>>
    BY <1>10 DEF HandlerEnds, Task
  <2>. QED BY <1>1, <1>4, <1>5, <2>1
<1>11. CASE OnClosed
  BY <1>10, <1>11 DEF OnClosed
<1>12. CASE SendOn
  <2>1. CASE HandlerEnds
    BY <1>10, <2>1
  <2>2. CASE ~HandlerEnds
    <3>1. /\ handler' = Task("tick") /\ requests' = requests /\ egress' = egress
          /\ toSend' = toSend \/ toSend' = <<handler.msg>>
      BY <1>12, <2>2 DEF SendOn, results
    <3>2. handler'.msg = Nothing
      BY <3>1 DEF Task
    <3>3. \A m \in Members(toSend') : Old(m)
      BY <1>1, <1>6, <3>1
    <3>. QED BY <1>4, <1>5, <1>6, <3>1, <3>2, <3>3
  <2>. QED BY <2>1, <2>2
<1>13. CASE TakeMessage
  <2>1. UNCHANGED <<requests, handler>> /\ toSend # <<>> /\ toSend' = <<>> /\ egress'.msg = Head(toSend)
    BY <1>13 DEF TakeMessage, EgressLeaves, TypesOK, TasksOK
  <2>2. Head(toSend) \in InHands
    BY <1>0, <1>2, <1>3, <2>1
  <2>. QED BY <1>1, <1>5, <1>6, <2>1, <2>2
<1>14. CASE Write
  <2>1. UNCHANGED <<requests, handler, toSend>> /\ egress'.msg = Nothing
    BY <1>14 DEF Write, EgressLeaves, Task
  <2>. QED BY <1>4, <1>5, <1>6, <2>1
<1>15. CASE UNCHANGED <<requests, handler, toSend, egress>>
  BY <1>5, <1>6, <1>15
<1>. QED BY <1>7, <1>8, <1>9, <1>11, <1>12, <1>13, <1>14, <1>15
     DEF HandlerStep, WireStep, IngressStep, EgressStep, NodeStep, Read, Deliver, ReadFails, DecodeFails, Answer,
         AnswerBlock, NewBlock, Chat, Lose, IngressLeaves, NodeLeaves, channels, tasks

(***************************************************************************)
(* The worker's steps.                                                     *)
(***************************************************************************)

\* Before the handshake nothing is under way.
FreshState ==
  /\ requests = <<>> /\ headers = <<>> /\ blocks = <<>> /\ received = <<>> /\ toSend = <<>>
  /\ toNode = <<>> /\ fromNode = <<>> /\ ready = FALSE
  /\ handler.msg = Nothing /\ ingress.msg = Nothing /\ egress.msg = Nothing
  /\ client.pc \in {"boot", "handshake"} /\ client.got = <<>>

\* A session without messages satisfies the invariant.
LEMMA FreshHolds == (TypesOK /\ FreshState) => SInv
<1>. SUFFICES ASSUME TypesOK, FreshState PROVE SInv
  OBVIOUS
<1>1. Held(ingress) = <<>> /\ Held(egress) = <<>> /\ ToWorker = <<>> /\ ToEgress = <<>>
  BY DEF FreshState, Held, ToWorker, ToEgress, Nothing
<1>2. Line = <<>> /\ Leaving = <<>> /\ Leaving \o requests = <<>>
  <2>1. <<>> \o <<>> = <<>>
    OBVIOUS
  <2>2. Arriving = <<>>
    BY <1>1, <2>1 DEF Arriving, FreshState
  <2>3. Leaving = <<>>
    BY <1>1, <2>1 DEF Leaving, FreshState
  <2>. QED BY <1>1, <2>1, <2>2, <2>3 DEF Line, FreshState
<1>3. ASSUME NEW t PROVE OfType(<<>>, t) = <<>>
  <2>. DEFINE s == <<>>
  <2>1. s \in Seq(Nat) /\ \A i \in 1..Len(s) : s[i].type # t
    OBVIOUS
  <2>. HIDE DEF s
  <2>2. OfType(s, t) = <<>>
    BY <2>1, NothingSelected
  <2>. QED BY <2>2 DEF s
<1>4. Hs = <<>> /\ Bs = <<>> /\ Gs = <<>> /\ Ds = <<>>
  BY <1>2, <1>3 DEF Hs, Bs, Gs, Ds, Outbound
<1>5. HeadersOK
  BY <1>4 DEF HeadersOK, OneAnswer, Total, Waits, FreshState
<1>6. BlocksOK
  BY <1>4 DEF BlocksOK, FreshState
<1>7. HandsOK
  BY <1>4, HandsAsk DEF HandsOK
<1>8. ShakeOK
  BY <1>2 DEF ShakeOK, FreshState, Ahead
<1>9. WakeOK
  BY <1>4 DEF WakeOK, FreshState
<1>. QED BY <1>5, <1>6, <1>7, <1>8, <1>9 DEF SInv

\* The same of the next state.
LEMMA FreshHoldsNext == (TypesOK' /\ FreshState') => SInv'
BY FreshHolds, PTL

\* A connection, and the end of a session.
LEMMA SessionHolds ==
  ASSUME SInv, Connect \/ Restart
  PROVE  SInv'
<1>1. TypesOK'
  BY SessionTypes DEF SInv
<1>2. FreshState'
  <2>1. CASE Connect
    <3>1. client.got = <<>>
      BY <2>1 DEF SInv, BlocksOK, Connect
    <3>. QED BY <2>1, <3>1 DEF Connect, Fresh, FreshState, Task, SInv, TypesOK, ClientOK
  <2>2. CASE Restart
    BY <2>2 DEF Restart, Fresh, FreshState, Task, Worker
  <2>. QED BY <2>1, <2>2
<1>. QED BY <1>1, <1>2, FreshHoldsNext

\* What the worker's steps leave as it is.
LEMMA WorkerBelts ==
  ASSUME TypesOK, WorkerMoves, ~Restart
  PROVE  /\ Line' = Line /\ Leaving' = Leaving /\ Hs' = Hs /\ Bs' = Bs /\ Is' = Is
         /\ Intact' = Intact /\ node' = node /\ toNode' = toNode
<1>1. /\ handler' = handler /\ ingress' = ingress /\ egress' = egress
      /\ received' = received /\ toSend' = toSend /\ toNode' = toNode /\ fromNode' = fromNode
      /\ connected' = connected /\ node' = node
  BY WorkerLeaves
<1>2. Line' = Line /\ Leaving' = Leaving
  BY <1>1 DEF Line, Leaving, ToWorker, ToEgress, Arriving, Held
<1>. QED BY <1>1, <1>2 DEF Hs, Bs, Is, Intact

\* And the requests, when it asks for nothing.
LEMMA WorkerSilent ==
  ASSUME TypesOK, WorkerMoves, ~Restart, requests' = requests
  PROVE  Gs' = Gs /\ Ds' = Ds
BY WorkerBelts DEF Gs, Ds, Outbound

\* A step of the worker keeps ShakeOK.
LEMMA WorkerShake ==
  ASSUME TypesOK, TypesOK', ShakeOK, WorkerMoves, ~Restart
  PROVE  ShakeOK'
<1>1. Waking' => Waking
  BY DEF WorkerMoves, Connected, TakeSyncing, TakeHeaders, TakeBlock, CheckBlocks, Wake,
         AskSyncing, AskHeaders, AskBlocks, Ask, Waking, permits, TypesOK, ClientOK
<1>2. Line' = Line /\ Leaving' = Leaving /\ Intact' = Intact /\ node' = node
  BY WorkerBelts
<1>3. Intact => Shake(Waking, node.ready, Leaving, Line)
  BY ShakeMeans
<1>4. Intact' => Shake(Waking', node'.ready, Leaving', Line')
  BY <1>1, <1>2, <1>3 DEF Shake
<1>. QED BY <1>4, ShakeMeansNext

\* A request is the only one under way.
LEMMA AskViews ==
  ASSUME TypesOK, TypesOK', WorkerMoves, ~Restart, NEW r \in Request, requests = <<>>, requests' = <<r>>
  PROVE  /\ Gs' = IF r.type = "getheaders" THEN Gs \o <<r>> ELSE Gs
         /\ Ds' = IF r.type = "getdata" THEN Ds \o <<r>> ELSE Ds
<1>1. Leaving' = Leaving
  BY WorkerBelts
<1>2. ASSUME NEW t
      PROVE  Outbound(t)' = IF r.type = t THEN Outbound(t) \o <<r>> ELSE Outbound(t)
  BY <1>1, RequestViews
<1>3. Outbound("getheaders")' = IF r.type = "getheaders" THEN Outbound("getheaders") \o <<r>> ELSE Outbound("getheaders")
  BY <1>2
<1>4. Outbound("getdata")' = IF r.type = "getdata" THEN Outbound("getdata") \o <<r>> ELSE Outbound("getdata")
  BY <1>2
<1>. QED BY <1>3, <1>4 DEF Gs, Ds

\* The answer is taken, and is the only one.
LEMMA AnswerTaken ==
  ASSUME NEW from, NEW a \in Seq(HeadersMessage), NEW h \in Seq(HeadersMessage), NEW g \in Seq(HeadersRequest),
         OneAnswer(from, a, h, g), a # <<>>
  PROVE  Tail(a) = <<>> /\ h = <<>> /\ g = <<>> /\ Len(a) = 1 /\ Head(a) = a[1]
<1>1. Len(a) \in Nat /\ Len(a) # 0 /\ Len(h) \in Nat /\ Len(g) \in Nat
  OBVIOUS
<1>2. Len(a) = 1 /\ Len(h) = 0 /\ Len(g) = 0
  BY <1>1 DEF OneAnswer, Total
<1>3. h = <<>> /\ g = <<>>
  BY <1>2
<1>4. Len(Tail(a)) = 0 /\ Tail(a) \in Seq(HeadersMessage)
  BY <1>2
<1>5. Tail(a) = <<>>
  <2>. DEFINE b == Tail(a)
  <2>1. Len(b) = 0 /\ b \in Seq(HeadersMessage)
    BY <1>4
  <2>. HIDE DEF b
  <2>2. b = <<>>
    BY <2>1
  <2>. QED BY <2>2 DEF b
<1>. QED BY <1>2, <1>3, <1>5

\* The only request.
LEMMA AnswerAsked ==
  ASSUME NEW r, r.type = "getheaders", NEW g, Then(<<>>, r, g)
  PROVE  OneAnswer(r.from, <<>>, <<>>, g) /\ Total(<<>>, <<>>, g) = 1
<1>1. g = <<r>>
  <2>1. <<>> \o <<r>> = <<r>>
    OBVIOUS
  <2>. QED BY <2>1, Zenon DEF Then
<1>2. Len(g) = 1 /\ g[1] = r
  BY <1>1
<1>. QED BY <1>2 DEF OneAnswer, Total

\* A step of the worker keeps HeadersOK.
LEMMA WorkerHeaders ==
  ASSUME TypesOK, TypesOK', HeadersOK, WorkerMoves, ~Restart
  PROVE  HeadersOK'
<1>1. Hs' = Hs /\ Intact' = Intact /\ node' = node
  BY WorkerBelts
<1>2. headers \in Seq(HeadersMessage) /\ Hs \in Seq(HeadersMessage) /\ Gs \in Seq(HeadersRequest)
  BY ViewsTyped DEF TypesOK, ChannelsOK, HeadersMessage, HeadersRequest
<1>3. ~Waits => headers = <<>> /\ Hs = <<>> /\ Gs = <<>>
  BY <1>2, NoneLeft DEF HeadersOK
<1>4. ASSUME headers' = <<>>, Hs' = <<>>, Gs' = <<>>, ~Waits' PROVE HeadersOK'
  <2>1. OneAnswer(From', <<>>, <<>>, <<>>) /\ Total(<<>>, <<>>, <<>>) = 0
    BY DEF OneAnswer, Total
  <2>. QED BY <1>4, <2>1, Zenon DEF HeadersOK
<1>5. client.pc \in {"boot", "handshake", "init", "syncing", "ask", "headers", "fetch", "blocks", "idle"}
      /\ client \in [pc : {"boot", "handshake", "init", "syncing", "ask", "headers", "fetch", "blocks", "idle"},
                 known : Nat, want : Seq(Nat), got : Seq(Nat), reached : BOOLEAN, told : Nat]
  BY DEF TypesOK, ClientOK
<1>6. ASSUME NEW h \in Nat, requests = <<>>, requests' = <<GetHeaders(h)>>, headers' = headers, ~Waits,
             Waits', From' = h
      PROVE  HeadersOK'
  <2>. DEFINE r == GetHeaders(h)
  <2>1. r \in Request /\ r.type = "getheaders" /\ r.from = h
    BY DEF GetHeaders, Request
  <2>2. requests' = <<r>>
    BY <1>6
  <2>. HIDE DEF r
  <2>3. Gs' = Gs \o <<r>>
    BY <1>6, <2>1, <2>2, AskViews
  <2>4. Then(<<>>, r, Gs')
    BY <1>3, <1>6, <2>3, Zenon DEF Then
  <2>5. OneAnswer(r.from, <<>>, <<>>, Gs') /\ Total(<<>>, <<>>, Gs') = 1
    BY <2>1, <2>4, AnswerAsked
  <2>6. headers' = <<>> /\ Hs' = <<>> /\ From' = r.from
    BY <1>1, <1>3, <1>6, <2>1
  <2>7. OneAnswer(From', headers', Hs', Gs') /\ Total(headers', Hs', Gs') = 1
    BY <2>5, <2>6, Zenon
  <2>. QED BY <1>6, <2>7 DEF HeadersOK
<1>7. CASE AskSyncing
  <2>1. client.pc = "init" /\ client' = [client EXCEPT !.pc = "syncing"] /\ requests = <<>>
        /\ requests' = <<GetHeaders(0)>> /\ headers' = headers
    BY <1>7 DEF AskSyncing, Ask, results
  <2>2. From' = 0 /\ ~Waits /\ Waits'
    BY <1>5, <2>1 DEF From, Waits
  <2>. QED BY <1>6, <2>1, <2>2
<1>8. CASE AskHeaders
  <2>1. client.pc = "ask" /\ client' = [client EXCEPT !.pc = "headers"] /\ requests = <<>>
        /\ requests' = <<GetHeaders(client.known)>> /\ headers' = headers
    BY <1>8 DEF AskHeaders, Ask, results
  <2>2. From' = client.known /\ ~Waits /\ Waits' /\ client.known \in Nat
    BY <1>5, <2>1 DEF From, Waits
  <2>. QED BY <1>6, <2>1, <2>2
<1>9. CASE TakeSyncing \/ TakeHeaders
  <2>1. headers # <<>> /\ headers' = Tail(headers) /\ requests' = requests /\ ~Waits'
    BY <1>5, <1>9 DEF TakeSyncing, TakeHeaders, Waits
  <2>2. Tail(headers) = <<>> /\ Hs = <<>> /\ Gs = <<>>
    BY <1>2, <2>1, AnswerTaken DEF HeadersOK
  <2>3. Gs' = Gs
    BY <2>1, WorkerSilent
  <2>. QED BY <1>1, <1>4, <2>1, <2>2, <2>3
<1>10. CASE Connected \/ TakeBlock \/ CheckBlocks \/ Wake
  <2>1. ~Waits /\ ~Waits' /\ headers' = headers /\ requests' = requests
    BY <1>5, <1>10 DEF Connected, TakeBlock, CheckBlocks, Wake, Waits, results
  <2>. QED BY <1>1, <1>3, <1>4, <2>1, WorkerSilent
<1>11. CASE AskBlocks
  <2>1. client.pc = "fetch" /\ client' = [client EXCEPT !.pc = "blocks"] /\ requests = <<>>
        /\ requests' = <<GetData(client.want)>> /\ headers' = headers
    BY <1>11 DEF AskBlocks, Ask, results
  <2>. DEFINE r == GetData(client.want)
  <2>2. r \in Request /\ r.type = "getdata"
    BY <1>5, <2>1 DEF GetData, Request, TypesOK, ClientOK
  <2>3. requests' = <<r>>
    BY <2>1
  <2>. HIDE DEF r
  <2>4. Gs' = Gs
    BY <2>1, <2>2, <2>3, AskViews
  <2>5. ~Waits /\ ~Waits'
    BY <1>5, <2>1 DEF Waits
  <2>. QED BY <1>1, <1>3, <1>4, <2>1, <2>4, <2>5
<1>. QED BY <1>7, <1>8, <1>9, <1>10, <1>11 DEF WorkerMoves

\* All blocks are asked for.
LEMMA AllAsked ==
  ASSUME NEW w \in Seq(Nat), NEW d, Then(<<>>, GetData(w), d)
  PROVE  InPlace(w, <<>>, <<>>, <<>>, d) /\ Sum(<<>>, <<>>, <<>>, d) = Len(w)
<1>. DEFINE r == GetData(w)
<1>1. d = <<r>>
  <2>1. <<>> \o <<r>> = <<r>>
    <3>. HIDE DEF r
    <3>. QED OBVIOUS
  <2>. QED BY <2>1, Zenon DEF Then
<1>2. r.list = w
  BY DEF GetData
<1>. HIDE DEF r
<1>3. Len(d) = 1 /\ d[1] = r /\ d # <<>>
  BY <1>1
<1>4. Asked(d) = w
  BY <1>2, <1>3 DEF Asked
<1>5. Len(w) \in Nat /\ \A i \in 1..Len(w) : Len(w) - Len(w) + i = i
  OBVIOUS
<1>6. Sum(<<>>, <<>>, <<>>, d) = Len(w)
  BY <1>4, <1>5 DEF Sum
<1>. QED BY <1>3, <1>4, <1>5, <1>6 DEF InPlace

\* All blocks are there: none is under way.
LEMMA AllThere ==
  ASSUME NEW w \in Seq(Nat), NEW g \in Seq(Nat), NEW b \in Seq(Nat), NEW c \in Seq(BlockMessage),
         NEW d \in Seq(BlocksRequest), InPlace(w, g, b, c, d), Len(g) = Len(w)
  PROVE  b = <<>> /\ c = <<>> /\ d = <<>>
<1>1. Asked(d) \in Seq(Nat) /\ (d # <<>> => Len(Asked(d)) # 0)
  BY AskedTyped
<1>2. Len(g) \in Nat /\ Len(b) \in Nat /\ Len(c) \in Nat /\ Len(Asked(d)) \in Nat
  BY <1>1
<1>3. Len(g) + Len(b) + Len(c) + Len(Asked(d)) <= Len(g)
  BY DEF InPlace, Sum
<1>4. Len(b) = 0 /\ Len(c) = 0 /\ Len(Asked(d)) = 0
  BY <1>2, <1>3
<1>. QED BY <1>1, <1>4

\* A step of the worker keeps BlocksOK.
LEMMA WorkerBlocks ==
  ASSUME TypesOK, TypesOK', BlocksOK, WorkerMoves, ~Restart
  PROVE  BlocksOK'
<1>1. Bs' = Bs /\ Intact' = Intact
  BY WorkerBelts
<1>2. /\ client.want \in Seq(Nat) /\ client.got \in Seq(Nat) /\ blocks \in Seq(Nat)
      /\ Bs \in Seq(BlockMessage) /\ Ds \in Seq(BlocksRequest)
      /\ client.pc \in {"fetch", "blocks"} => client.want # <<>>
      /\ client \in [pc : {"boot", "handshake", "init", "syncing", "ask", "headers", "fetch", "blocks", "idle"},
                 known : Nat, want : Seq(Nat), got : Seq(Nat), reached : BOOLEAN, told : Nat]
  BY ViewsTyped DEF TypesOK, ClientOK, ChannelsOK, BlockMessage, BlocksRequest
<1>3. CASE Connected \/ TakeSyncing \/ TakeHeaders \/ Wake
  <2>1. /\ client.pc # "blocks" /\ client'.pc # "blocks" /\ client'.got = client.got
        /\ blocks' = blocks /\ requests' = requests
    BY <1>2, <1>3 DEF Connected, TakeSyncing, TakeHeaders, Wake, results
  <2>2. Ds' = Ds
    BY <2>1, WorkerSilent
  <2>. QED BY <1>1, <2>1, <2>2 DEF BlocksOK
<1>4. ASSUME NEW h \in Nat, requests = <<>>, requests' = <<GetHeaders(h)>>, blocks' = blocks,
             client.pc # "blocks", client'.pc # "blocks", client'.got = client.got
      PROVE  BlocksOK'
  <2>. DEFINE r == GetHeaders(h)
  <2>1. r \in Request /\ r.type = "getheaders"
    BY DEF GetHeaders, Request
  <2>2. requests' = <<r>>
    BY <1>4
  <2>. HIDE DEF r
  <2>3. Ds' = Ds
    BY <1>4, <2>1, <2>2, AskViews
  <2>. QED BY <1>1, <1>4, <2>3 DEF BlocksOK
<1>5. CASE AskSyncing
  BY <1>2, <1>4, <1>5 DEF AskSyncing, Ask, results
<1>6. CASE AskHeaders
  <2>1. client.known \in Nat
    BY <1>2
  <2>. QED BY <1>2, <1>4, <1>6, <2>1 DEF AskHeaders, Ask, results
<1>7. CASE AskBlocks
  <2>1. client.pc = "fetch" /\ client' = [client EXCEPT !.pc = "blocks"] /\ requests = <<>>
        /\ requests' = <<GetData(client.want)>> /\ blocks' = blocks
    BY <1>7 DEF AskBlocks, Ask, results
  <2>. DEFINE r == GetData(client.want)
              w == client.want
  <2>2. r \in Request /\ r.type = "getdata"
    BY <1>2, <2>1 DEF GetData, Request
  <2>3. requests' = <<r>>
    BY <2>1
  <2>4. Ds' = Ds \o <<r>>
    <3>. HIDE DEF r
    <3>. QED BY <2>1, <2>2, <2>3, AskViews
  <2>5. client.got = <<>> /\ blocks = <<>> /\ Bs = <<>> /\ Ds = <<>>
    BY <2>1 DEF BlocksOK
  <2>6. Then(<<>>, GetData(w), Ds')
    BY <2>4, <2>5, Zenon DEF Then
  <2>7. w \in Seq(Nat)
    BY <1>2
  <2>8. client'.pc = "blocks" /\ client'.want = w /\ client'.got = <<>>
    BY <1>2, <2>1, <2>5
  <2>. HIDE DEF w
  <2>9. InPlace(w, <<>>, <<>>, <<>>, Ds') /\ Sum(<<>>, <<>>, <<>>, Ds') = Len(w)
    BY <2>6, <2>7, AllAsked
  <2>10. blocks' = <<>> /\ Bs' = <<>>
    BY <1>1, <2>1, <2>5
  <2>. QED BY <2>8, <2>9, <2>10, Zenon DEF BlocksOK
<1>8. CASE TakeBlock
  <2>1. /\ client.pc = "blocks" /\ blocks # <<>> /\ blocks' = Tail(blocks) /\ requests' = requests
        /\ client' = [client EXCEPT !.got = Append(@, Head(blocks))]
    BY <1>8 DEF TakeBlock
  <2>2. Ds' = Ds
    BY <2>1, WorkerSilent
  <2>. DEFINE w == client.want
              g == client.got
              b == blocks
              c == Bs
              d == Ds
  <2>3. InPlace(w, g, b, c, d) /\ (Intact => Sum(g, b, c, d) = Len(w))
    BY <2>1 DEF BlocksOK
  <2>4. client'.pc = "blocks" /\ client'.want = w /\ client'.got = Append(g, Head(b)) /\ blocks' = Tail(b)
    BY <1>2, <2>1
  <2>5. w \in Seq(Nat) /\ g \in Seq(Nat) /\ b \in Seq(Nat) /\ b # <<>> /\ c \in Seq(BlockMessage) /\ d \in Seq(BlocksRequest)
    BY <1>2, <2>1
  <2>6. Bs' = c /\ Ds' = d
    BY <1>1, <2>2
  <2>. HIDE DEF w, g, b, c, d
  <2>7. /\ InPlace(w, Append(g, Head(b)), Tail(b), c, d)
        /\ Sum(Append(g, Head(b)), Tail(b), c, d) = Sum(g, b, c, d)
    BY <2>3, <2>5, BlockTaken
  <2>8. InPlace(client'.want, client'.got, blocks', Bs', Ds')
        /\ (Intact' => Sum(client'.got, blocks', Bs', Ds') = Len(client'.want))
    BY <1>1, <2>3, <2>4, <2>6, <2>7, Zenon
  <2>. QED BY <2>4, <2>8, Zenon DEF BlocksOK
<1>9. CASE CheckBlocks
  <2>1. /\ client.pc = "blocks" /\ Len(client.got) = Len(client.want) /\ blocks' = blocks /\ requests' = requests
        /\ client' = [client EXCEPT !.pc = IF client.reached THEN "idle" ELSE "ask",
                                    !.known = client.want[Len(client.want)], !.want = <<>>, !.got = <<>>]
    BY <1>9 DEF CheckBlocks, results
  <2>2. Ds' = Ds
    BY <2>1, WorkerSilent
  <2>3. InPlace(client.want, client.got, blocks, Bs, Ds)
    BY <2>1 DEF BlocksOK
  <2>4. blocks = <<>> /\ Bs = <<>> /\ Ds = <<>>
    BY <1>2, <2>1, <2>3, AllThere
  <2>5. client'.pc # "blocks" /\ client'.got = <<>>
    BY <1>2, <2>1
  <2>. QED BY <1>1, <2>1, <2>2, <2>4, <2>5 DEF BlocksOK
<1>. QED BY <1>3, <1>5, <1>6, <1>7, <1>8, <1>9 DEF WorkerMoves

\* A step of the worker keeps HandsOK.
LEMMA WorkerHands ==
  ASSUME TypesOK, TypesOK', BlocksOK, BlocksOK', HandsOK, WorkerMoves, ~Restart
  PROVE  HandsOK'
<1>1. /\ client \in [pc : {"boot", "handshake", "init", "syncing", "ask", "headers", "fetch", "blocks", "idle"},
                 known : Nat, want : Seq(Nat), got : Seq(Nat), reached : BOOLEAN, told : Nat]
  BY DEF TypesOK, ClientOK
<1>2. handler' = handler /\ egress' = egress /\ toSend' = toSend
  BY WorkerLeaves
<1>3. CASE client'.pc # "blocks"
  <2>1. Ds' = <<>>
    BY <1>3 DEF BlocksOK
  <2>2. NoneInHand'
    BY <2>1, HandsAskNext
  <2>. QED BY <2>2 DEF NoneInHand, HandsOK
<1>4. CASE AskBlocks
  <2>1. client.pc = "fetch" /\ client' = [client EXCEPT !.pc = "blocks"] /\ requests = <<>>
        /\ requests' = <<GetData(client.want)>>
    BY <1>4 DEF AskBlocks, Ask
  <2>2. Ds = <<>>
    BY <2>1 DEF BlocksOK
  <2>3. \A m \in InHands : m.type # "getdata"
    BY <2>2, HandsAsk
  <2>. DEFINE r == GetData(client.want)
  <2>4. r.list = client.want
    BY DEF GetData
  <2>5. requests' = <<r>>
    BY <2>1
  <2>. HIDE DEF r
  <2>6. \A i \in 1..Len(requests') : requests'[i] = r
    BY <2>5
  <2>7. ASSUME NEW m \in InHands' PROVE m \in InHands \/ m = r
    BY <1>2, <2>6 DEF InHands
  <2>8. client'.want = client.want
    BY <1>1, <2>1
  <2>. QED BY <2>3, <2>4, <2>7, <2>8 DEF HandsOK
<1>5. CASE TakeBlock
  <2>1. requests' = requests /\ client' = [client EXCEPT !.got = Append(@, Head(blocks))]
    BY <1>5 DEF TakeBlock
  <2>2. client'.want = client.want
    BY <1>1, <2>1
  <2>3. InHands' = InHands
    BY <1>2, <2>1 DEF InHands
  <2>. QED BY <2>2, <2>3 DEF HandsOK
<1>6. CASE ~AskBlocks /\ ~TakeBlock
  <2>1. client'.pc # "blocks"
    <3>1. CASE Connected \/ TakeSyncing \/ Wake
      BY <1>1, <3>1 DEF Connected, TakeSyncing, Wake
    <3>2. CASE AskSyncing \/ AskHeaders
      BY <1>1, <3>2 DEF AskSyncing, AskHeaders, Ask
    <3>3. CASE TakeHeaders
      BY <1>1, <3>3 DEF TakeHeaders
    <3>4. CASE CheckBlocks
      <4>1. client' = [client EXCEPT !.pc = IF client.reached THEN "idle" ELSE "ask",
                                     !.known = client.want[Len(client.want)], !.want = <<>>, !.got = <<>>]
        BY <3>4 DEF CheckBlocks
      <4>. QED BY <1>1, <4>1
    <3>. QED BY <1>6, <3>1, <3>2, <3>3, <3>4 DEF WorkerMoves
  <2>. QED BY <1>3, <2>1
<1>. QED BY <1>4, <1>5, <1>6

\* A step of the worker keeps WakeOK.
LEMMA WorkerWake ==
  ASSUME TypesOK, TypesOK', HeadersOK, WakeOK, WorkerMoves, ~Restart
  PROVE  WakeOK'
<1>1. Hs' = Hs /\ Is' = Is /\ Intact' = Intact /\ node' = node
  BY WorkerBelts
<1>2. headers \in Seq(HeadersMessage) /\ Hs \in Seq(HeadersMessage) /\ Gs \in Seq(HeadersRequest)
  BY ViewsTyped DEF TypesOK, ChannelsOK, HeadersMessage, HeadersRequest
<1>3. /\ client \in [pc : {"boot", "handshake", "init", "syncing", "ask", "headers", "fetch", "blocks", "idle"},
                 known : Nat, want : Seq(Nat), got : Seq(Nat), reached : BOOLEAN, told : Nat]
  BY DEF TypesOK, ClientOK
<1>. DEFINE Settled(c) == c.pc \in {"idle", "fetch", "blocks"}
<1>4. ASSUME announced' = announced, Tips' \subseteq Tips PROVE WakeOK'
  <2>1. Told' = Told
    BY <1>1, <1>4 DEF Told
  <2>2. \A x : Known(x)' <=> Known(x)
    BY <1>1, <2>1 DEF Known
  <2>. QED BY <1>1, <1>4, <2>2, WakeMeans
<1>5. ASSUME headers' = headers, Settled(client') => Settled(client) /\ client'.told = client.told
      PROVE  Tips' \subseteq Tips
  BY <1>1, <1>5 DEF Tips
<1>6. CASE TakeSyncing \/ TakeHeaders
  <2>1. headers # <<>> /\ headers' = Tail(headers) /\ announced' = announced
    BY <1>6 DEF TakeSyncing, TakeHeaders, permits
  <2>2. Tail(headers) = <<>> /\ Hs = <<>> /\ Len(headers) = 1 /\ Head(headers) = headers[1]
    BY <1>2, <2>1, AnswerTaken DEF HeadersOK
  <2>3. Settled(client') => client'.told = headers[1].to
    BY <1>3, <1>6, <2>2 DEF TakeSyncing, TakeHeaders
  <2>4. headers' = <<>> /\ Hs' = <<>> /\ 1 \in 1..Len(headers)
    BY <1>1, <2>1, <2>2
  <2>5. headers[1].to \in Tips
    BY <2>4 DEF Tips
  <2>6. Tips' \subseteq {headers[1].to}
    <3>1. \A i \in 1..Len(headers') : FALSE
      BY <2>4
    <3>2. \A i \in 1..Len(Hs') : FALSE
      BY <2>4
    <3>3. Tips' = {x \in {client'.told} : client'.pc \in {"idle", "fetch", "blocks"}}
      BY <3>1, <3>2 DEF Tips
    <3>. QED BY <2>3, <3>3
  <2>. QED BY <1>4, <2>1, <2>5, <2>6
<1>7. CASE Wake
  <2>1. client.pc = "idle" /\ client'.pc = "ask" /\ headers' = headers
    BY <1>3, <1>7 DEF Wake, results
  <2>2. headers = <<>> /\ Hs = <<>>
    BY <1>2, <2>1, NoneLeft DEF HeadersOK, Waits
  <2>3. headers' = <<>> /\ Hs' = <<>>
    BY <1>1, <2>1, <2>2
  <2>. QED BY <2>1, <2>3 DEF WakeOK
<1>8. CASE Connected \/ TakeBlock \/ CheckBlocks \/ AskSyncing \/ AskHeaders \/ AskBlocks
  <2>1. headers' = headers /\ announced' = announced
    BY <1>8 DEF Connected, TakeBlock, CheckBlocks, AskSyncing, AskHeaders, AskBlocks, Ask, results, permits
  <2>2. Settled(client') => Settled(client) /\ client'.told = client.told
    BY <1>3, <1>8 DEF Connected, TakeBlock, CheckBlocks, AskSyncing, AskHeaders, AskBlocks, Ask
  <2>. QED BY <1>4, <1>5, <2>1, <2>2
<1>. QED BY <1>6, <1>7, <1>8 DEF WorkerMoves

\* A step of the worker keeps the invariant.
LEMMA WorkerHolds ==
  ASSUME SInv, WorkerMoves, ~Restart
  PROVE  SInv'
<1>. USE DEF SInv
<1>1. TypesOK'
  BY WorkerTypes
<1>2. HeadersOK' /\ ShakeOK'
  BY <1>1, WorkerHeaders, WorkerShake
<1>3. BlocksOK'
  BY <1>1, WorkerBlocks
<1>4. HandsOK' /\ WakeOK'
  BY <1>1, <1>3, WorkerHands, WorkerWake
<1>. QED BY <1>1, <1>2, <1>3, <1>4

\* A step of the handler or on the wire keeps the invariant.
LEMMA OtherHolds ==
  ASSUME SInv, HandlerStep \/ WireStep
  PROVE  SInv'
<1>. USE DEF SInv
<1>1. TypesOK'
  BY HandlerTypes, WireTypes
<1>2. client' = client /\ Effect
  BY <1>1, HandlerEffect, WireEffect
<1>3. ShakeOK'
  BY <1>1, HandlerShake, WireShake
<1>4. HeadersOK' /\ BlocksOK'
  BY <1>1, <1>2, EffectHeaders, EffectBlocks
<1>5. HandsOK' /\ WakeOK'
  BY <1>1, <1>2, EffectHands, EffectWake
<1>. QED BY <1>1, <1>3, <1>4, <1>5

\* The messages of the session are in order in every reachable state: SInv holds
\* at first and is kept by every step of the worker, the tasks and the node.
THEOREM SessionInvariant == Spec => []SInv
<1>1. Init => SInv
  <2>1. ASSUME Init PROVE TypesOK /\ FreshState
    <3>1. ClientOK
      BY <2>1 DEF Init, Worker, ClientOK
    <3>2. TasksOK
      BY <2>1 DEF Init, Task, TasksOK, HandlerOK
    <3>3. ChannelsOK /\ NodeOK
      BY <2>1 DEF Init, ChannelsOK, Single, NodeOK
    <3>4. LinksOK
      BY <2>1 DEF Init, LinksOK, Task
    <3>5. FreshState
      BY <2>1 DEF Init, FreshState, Task, Worker
    <3>. QED BY <3>1, <3>2, <3>3, <3>4, <3>5 DEF TypesOK
  <2>. QED BY <2>1, FreshHolds
<1>2. ASSUME SInv, [Next]_vars PROVE SInv'
  <2>1. CASE Connect \/ Restart
    BY <1>2, <2>1, SessionHolds
  <2>2. CASE WorkerMoves /\ ~Restart
    BY <1>2, <2>2, WorkerHolds
  <2>3. CASE HandlerStep \/ WireStep
    BY <1>2, <2>3, OtherHolds
  <2>4. CASE UNCHANGED vars
    <3>1. /\ UNCHANGED <<client, requests, headers, blocks, received, toSend, announced, ready>>
          /\ UNCHANGED <<handler, ingress, egress, toNode, fromNode, connected, node, bounds>>
      BY <2>4 DEF vars, channels, results, permits, tasks, wires
    <3>2. UNCHANGED <<Line, Leaving, InHands, Intact>>
      BY <3>1 DEF Line, Leaving, ToWorker, ToEgress, Arriving, Held, InHands, Intact
    <3>3. UNCHANGED <<Hs, Bs, Is, Gs, Ds>>
      BY <3>1, <3>2 DEF Hs, Bs, Is, Gs, Ds, Outbound
    <3>4. TypesOK'
      BY <1>2, <3>1 DEF SInv, TypesOK, ClientOK, TasksOK, HandlerOK, ChannelsOK, Single, LinksOK, NodeOK
    <3>5. HeadersOK' /\ BlocksOK' /\ HandsOK'
      BY <1>2, <3>1, <3>2, <3>3 DEF SInv, HeadersOK, BlocksOK, HandsOK, Waits, From
    <3>6. ShakeOK' /\ WakeOK'
      BY <1>2, <3>1, <3>2, <3>3 DEF SInv, ShakeOK, VerackSent, WakeOK, Known, Told
    <3>. QED BY <3>4, <3>5, <3>6 DEF SInv
  <2>. QED BY <1>2, <2>1, <2>2, <2>3, <2>4 DEF Next, ClientStep, WorkerMoves, WireStep
<1>. QED BY <1>1, <1>2, PTL DEF Spec

(***************************************************************************)
(* What the invariant means.                                               *)
(***************************************************************************)

\* Where the elements of a concatenation are.
Joins(u, v, s) == /\ Len(s) = Len(u) + Len(v)
                  /\ \A i \in 1..Len(u) : s[i] = u[i]
                  /\ \A i \in 1..Len(v) : s[Len(u) + i] = v[i]

\* A concatenation has the elements of the first sequence, then those of the second.
LEMMA JoinedPlaces ==
  ASSUME NEW S, NEW u \in Seq(S), NEW v \in Seq(S), NEW s, Starts(u, v, s)
  PROVE  s \in Seq(S) /\ Joins(u, v, s)
BY DEF Starts, Joins

\* The answer under way, as one sequence.
LEMMA AnswerInLine ==
  ASSUME NEW a \in Seq(HeadersMessage), NEW h \in Seq(HeadersMessage), NEW g \in Seq(HeadersRequest),
         NEW from, OneAnswer(from, a, h, g)
  PROVE  /\ Len((a \o h) \o g) = Total(a, h, g)
         /\ \A i \in 1..Len((a \o h) \o g) : ((a \o h) \o g)[i].from = from
<1>. DEFINE S == HeadersMessage \cup HeadersRequest
            b == a \o h
            c == b \o g
            A == Len(a)
            B == Len(h)
            C == Len(g)
<1>1. a \in Seq(S) /\ h \in Seq(S) /\ g \in Seq(S) /\ A \in Nat /\ B \in Nat /\ C \in Nat
  OBVIOUS
<1>. HIDE DEF S
<1>2. b \in Seq(S) /\ Len(b) = A + B /\ \A i \in 1..Len(b) : b[i].from = from
  <2>1. Starts(a, h, b) /\ b \in Seq(S) /\ Len(b) = A + B
    BY <1>1 DEF Starts
  <2>. HIDE DEF b
  <2>2. Members(b) = Members(a) \cup Members(h)
    BY <1>1, <2>1, MembersOfBoth
  <2>3. \A m \in Members(b) : m.from = from
    BY <2>2 DEF OneAnswer, Members
  <2>. QED BY <2>1, <2>3 DEF Members
<1>. HIDE DEF b
<1>3. Starts(b, g, c) /\ c \in Seq(S) /\ Len(c) = Len(b) + C
  <2>1. b \in Seq(S) /\ g \in Seq(S)
    BY <1>1, <1>2
  <2>2. Starts(b, g, c)
    BY Zenon DEF Starts
  <2>. HIDE DEF c
  <2>3. c \in Seq(S) /\ Joins(b, g, c)
    BY <2>1, <2>2, JoinedPlaces
  <2>. QED BY <2>2, <2>3 DEF Joins
<1>. HIDE DEF c
<1>4. Members(c) = Members(b) \cup Members(g)
  BY <1>1, <1>2, <1>3, MembersOfBoth
<1>5. \A m \in Members(c) : m.from = from
  BY <1>2, <1>4 DEF OneAnswer, Members
<1>6. \A i \in 1..Len(c) : c[i].from = from
  BY <1>5 DEF Members
<1>7. Len(c) = A + B + C
  BY <1>1, <1>2, <1>3
<1>. QED BY <1>6, <1>7 DEF b, c, Total

\* The blocks got, in the channel and arriving, and what is still asked for, as
\* one sequence.
Heights(c) == [i \in 1..Len(c) |-> c[i].height]
InOrder(g, b, c, x) == ((g \o b) \o Heights(c)) \o x

\* They are the wanted blocks, in order, but for those that came as something else.
LEMMA BlocksInLine ==
  ASSUME NEW w \in Seq(Nat), NEW g \in Seq(Nat), NEW b \in Seq(Nat), NEW c \in Seq(BlockMessage),
         NEW d \in Seq(BlocksRequest), InPlace(w, g, b, c, d), NEW x \in Seq(Nat),
         \A i \in 1..Len(x) : x[i] = w[Len(g) + Len(b) + Len(c) + i]
  PROVE  /\ Len(InOrder(g, b, c, x)) = Len(g) + Len(b) + Len(c) + Len(x)
         /\ \A i \in 1..Len(InOrder(g, b, c, x)) : InOrder(g, b, c, x)[i] \in {w[i], 0}
<1>. DEFINE e == Heights(c)
            A == Len(g)
            B == Len(b)
            C == Len(c)
            X == Len(x)
            p == g \o b
            q == p \o e
            r == q \o x
            Good(s) == \A i \in 1..Len(s) : s[i] \in {w[i], 0}
<1>1. A \in Nat /\ B \in Nat /\ C \in Nat /\ X \in Nat
  OBVIOUS
<1>2. e \in Seq(Nat) /\ Len(e) = C /\ \A i \in 1..C : e[i] = c[i].height
  <2>1. \A i \in 1..C : c[i].height \in Nat
    <3>1. ASSUME NEW i \in 1..C PROVE c[i].height \in Nat
      <4>1. c[i] \in BlockMessage
        OBVIOUS
      <4>. QED BY <4>1 DEF BlockMessage
    <3>. QED BY <3>1
  <2>. QED BY <2>1, <1>1 DEF Heights
<1>3. /\ \A i \in 1..A : g[i] \in {w[i], 0}
      /\ \A i \in 1..B : b[i] \in {w[A + i], 0}
      /\ \A i \in 1..C : c[i].height \in {w[A + B + i], 0}
  BY DEF InPlace
<1>4. \A i \in 1..X : x[i] = w[A + B + C + i]
  OBVIOUS
<1>. HIDE DEF e, A, B, C, X
<1>5. /\ p \in Seq(Nat) /\ Len(p) = A + B
      /\ \A i \in 1..A : p[i] = g[i]
      /\ \A i \in 1..B : p[A + i] = b[i]
  BY DEF A, B
<1>6. Good(p)
  <2>. HIDE DEF p
  <2>1. ASSUME NEW i \in 1..(A + B) PROVE p[i] \in {w[i], 0}
    <3>1. CASE i \in 1..A
      BY <1>3, <1>5, <3>1
    <3>2. CASE i \notin 1..A
      <4>. DEFINE j == i - A
      <4>1. j \in 1..B /\ A + j = i
        BY <1>1, <3>2
      <4>. HIDE DEF j
      <4>2. p[A + j] = b[j] /\ b[j] \in {w[A + j], 0}
        BY <1>3, <1>5, <4>1
      <4>. QED BY <4>1, <4>2
    <3>. QED BY <3>1, <3>2
  <2>. QED BY <1>5, <2>1
<1>. HIDE DEF p
<1>. DEFINE P == Len(p)
<1>7. /\ q \in Seq(Nat) /\ Len(q) = P + Len(e)
      /\ \A i \in 1..P : q[i] = p[i]
      /\ \A i \in 1..Len(e) : q[P + i] = e[i]
  <2>1. p \in Seq(Nat) /\ e \in Seq(Nat)
    BY <1>2, <1>5
  <2>2. Starts(p, e, q)
    BY Zenon DEF Starts
  <2>. HIDE DEF q
  <2>3. q \in Seq(Nat) /\ Joins(p, e, q)
    BY <2>1, <2>2, JoinedPlaces
  <2>. QED BY <2>3 DEF Joins
<1>a. P = A + B /\ P \in Nat
  BY <1>1, <1>5
<1>. HIDE DEF P
<1>8. Good(q) /\ Len(q) = A + B + C
  <2>. HIDE DEF q
  <2>1. ASSUME NEW i \in 1..(P + C) PROVE q[i] \in {w[i], 0}
    <3>1. CASE i \in 1..P
      BY <1>6, <1>7, <3>1 DEF P
    <3>2. CASE i \notin 1..P
      <4>. DEFINE j == i - P
      <4>1. j \in 1..C /\ P + j = i
        BY <1>1, <1>a, <3>2
      <4>. HIDE DEF j
      <4>2. q[P + j] = e[j] /\ e[j] = c[j].height
        BY <1>2, <1>7, <4>1
      <4>3. c[j].height \in {w[P + j], 0}
        BY <1>3, <1>a, <4>1
      <4>. QED BY <4>1, <4>2, <4>3
    <3>. QED BY <3>1, <3>2
  <2>. QED BY <1>2, <1>7, <1>a, <2>1
<1>. HIDE DEF q
<1>. DEFINE Q == Len(q)
<1>9. /\ r \in Seq(Nat) /\ Len(r) = Q + X
      /\ \A i \in 1..Q : r[i] = q[i]
      /\ \A i \in 1..X : r[Q + i] = x[i]
  <2>1. q \in Seq(Nat)
    BY <1>7
  <2>2. Starts(q, x, r)
    BY Zenon DEF Starts
  <2>. HIDE DEF r
  <2>3. r \in Seq(Nat) /\ Joins(q, x, r)
    BY <2>1, <2>2, JoinedPlaces
  <2>. QED BY <2>3 DEF Joins, X
<1>b. Q = A + B + C /\ Q \in Nat
  BY <1>1, <1>8
<1>. HIDE DEF Q
<1>10. Good(r)
  <2>. HIDE DEF r
  <2>1. ASSUME NEW i \in 1..(Q + X) PROVE r[i] \in {w[i], 0}
    <3>1. CASE i \in 1..Q
      BY <1>8, <1>9, <3>1 DEF Q
    <3>2. CASE i \notin 1..Q
      <4>. DEFINE j == i - Q
      <4>1. j \in 1..X /\ Q + j = i
        BY <1>1, <1>b, <3>2
      <4>. HIDE DEF j
      <4>2. r[Q + j] = x[j] /\ x[j] = w[Q + j]
        BY <1>4, <1>9, <1>b, <4>1
      <4>. QED BY <4>1, <4>2
    <3>. QED BY <3>1, <3>2
  <2>. QED BY <1>9, <2>1
<1>11. r = InOrder(g, b, c, x)
  BY Zenon DEF InOrder, q, p, e
<1>. HIDE DEF r
<1>12. Len(r) = A + B + C + X
  BY <1>9, <1>b
<1>. QED BY <1>10, <1>11, <1>12 DEF A, B, C, X

\* One answer, or the rest of the blocks.
LEMMA InvariantMatches == SInv => AnswersMatch
<1>. SUFFICES ASSUME SInv PROVE AnswersMatch
  OBVIOUS
<1>. DEFINE hs == headers \o Inbound("headers")
            asked == hs \o Outbound("getheaders")
            waits == client.pc \in {"syncing", "headers"}
            left == Outbound("getdata")
            x == IF left = <<>> \/ ingress.pc # "run" THEN <<>> ELSE left[1].list
<1>0. TypesOK /\ HeadersOK /\ BlocksOK /\ HandsOK
  BY DEF SInv
<1>1. /\ headers \in Seq(HeadersMessage) /\ Hs \in Seq(HeadersMessage) /\ Gs \in Seq(HeadersRequest)
      /\ client.want \in Seq(Nat) /\ client.got \in Seq(Nat) /\ blocks \in Seq(Nat)
      /\ Bs \in Seq(BlockMessage) /\ Ds \in Seq(BlocksRequest)
  BY <1>0, ViewsTyped DEF TypesOK, ClientOK, ChannelsOK, HeadersMessage, HeadersRequest, BlockMessage, BlocksRequest
<1>2. Inbound("headers") = Hs /\ Inbound("block") = Bs /\ Outbound("getheaders") = Gs /\ left = Ds
  BY DEF Inbound, Hs, Bs, Gs, Ds, Line
<1>3. /\ \A i \in 1..Len(asked) : asked[i].from = IF client.pc = "syncing" THEN 0 ELSE client.known
      /\ Len(asked) <= IF waits THEN 1 ELSE 0
      /\ (waits /\ Intact) => Len(asked) = 1
  <2>. DEFINE a == (headers \o Hs) \o Gs
  <2>1. asked = a
    BY <1>2, Zenon
  <2>2. OneAnswer(From, headers, Hs, Gs)
    BY <1>0 DEF HeadersOK
  <2>3. Len(a) = Total(headers, Hs, Gs) /\ \A i \in 1..Len(a) : a[i].from = From
    BY <1>1, <2>2, AnswerInLine
  <2>. HIDE DEF a, asked
  <2>4. Total(headers, Hs, Gs) <= 1 /\ (~waits => Total(headers, Hs, Gs) = 0)
        /\ ((waits /\ Intact) => Total(headers, Hs, Gs) = 1)
    BY <1>0 DEF HeadersOK, OneAnswer, Waits
  <2>. QED BY <2>1, <2>3, <2>4 DEF From
<1>4. AllBlocks = InOrder(client.got, blocks, Bs, x)
  BY <1>2, Zenon DEF AllBlocks, InOrder, Heights
<1>5. x \in Seq(Nat) /\ x = IF ingress.pc = "run" THEN Asked(Ds) ELSE <<>>
  <2>1. Asked(Ds) \in Seq(Nat)
    BY <1>1, AskedTyped
  <2>2. x = IF ingress.pc = "run" THEN Asked(Ds) ELSE <<>>
    BY <1>2 DEF Asked
  <2>. HIDE DEF x
  <2>. QED BY <2>1, <2>2
<1>. HIDE DEF x
<1>6. ASSUME client.pc # "blocks" PROVE AllBlocks = <<>>
  <2>1. client.got = <<>> /\ blocks = <<>> /\ Bs = <<>> /\ Ds = <<>>
    BY <1>0, <1>6 DEF BlocksOK
  <2>2. x = <<>>
    BY <1>5, <2>1 DEF Asked
  <2>3. Heights(<<>>) = <<>> /\ <<>> \o <<>> = <<>>
    BY DEF Heights
  <2>. QED BY <1>4, <2>1, <2>2, <2>3, Zenon DEF InOrder
<1>7. ASSUME client.pc = "blocks"
      PROVE  /\ Len(AllBlocks) <= Len(client.want)
             /\ Intact => Len(AllBlocks) = Len(client.want)
             /\ \A i \in 1..Len(AllBlocks) : AllBlocks[i] \in {client.want[i], 0}
  <2>. DEFINE w == client.want
              g == client.got
              A == Len(g)
              B == Len(blocks)
              C == Len(Bs)
              R == Asked(Ds)
              N == Len(w)
  <2>1. InPlace(w, g, blocks, Bs, Ds) /\ (Intact => Sum(g, blocks, Bs, Ds) = N)
    BY <1>0, <1>7 DEF BlocksOK
  <2>2. /\ A \in Nat /\ B \in Nat /\ C \in Nat /\ N \in Nat /\ R \in Seq(Nat) /\ Len(R) \in Nat
        /\ Ds # <<>> => Len(R) # 0
    BY <1>1, AskedTyped
  <2>3. /\ A + B + C + Len(R) <= N /\ (Intact => A + B + C + Len(R) = N)
        /\ \A i \in 1..Len(R) : R[i] = w[N - Len(R) + i]
    BY <2>1 DEF InPlace, Sum
  <2>4. x = <<>> \/ x = R
    BY <1>5
  <2>5. Intact => x = R
    BY <1>5 DEF Intact
  <2>6. ASSUME x = R, R # <<>>, ~Intact PROVE R = w /\ A = 0 /\ B = 0 /\ C = 0
    <3>1. Ds # <<>> /\ Asked(Ds) = Ds[1].list
      BY <2>6 DEF Asked
    <3>2. ingress.pc = "run"
      BY <1>5, <2>6
    <3>3. toNode = <<>>
      BY <1>0, <2>6, <3>2 DEF Intact, TypesOK, LinksOK
    <3>4. Ds[1].list = w
      BY <1>0, <3>1, <3>3, HandsAsk DEF HandsOK
    <3>5. R = w /\ Len(R) = N
      BY <3>1, <3>4
    <3>. HIDE DEF w, g, A, B, C, R, N
    <3>. QED BY <2>2, <2>3, <3>5
  <2>. HIDE DEF A, B, C, R, N
  <2>7. \A i \in 1..Len(x) : x[i] = w[A + B + C + i]
    <3>1. CASE x = <<>>
      BY <3>1
    <3>2. CASE x = R /\ Intact
      <4>1. ASSUME NEW i \in 1..Len(R) PROVE R[i] = w[A + B + C + i]
        <5>1. N - Len(R) + i = A + B + C + i
          <6>. DEFINE n == Len(R)
          <6>1. n \in Nat /\ A + B + C + n = N /\ i \in 1..n
            BY <2>2, <2>3, <3>2
          <6>. HIDE DEF n
          <6>2. N - n + i = A + B + C + i
            BY <2>2, <6>1
          <6>. QED BY <6>2 DEF n
        <5>2. R[i] = w[N - Len(R) + i]
          BY <2>3
        <5>. QED BY <5>1, <5>2
      <4>. QED BY <3>2, <4>1
    <3>3. CASE x = R /\ R # <<>> /\ ~Intact
      <4>1. R = w /\ A = 0 /\ B = 0 /\ C = 0
        BY <2>6, <3>3
      <4>2. \A i \in 1..Len(x) : A + B + C + i = i
        BY <4>1
      <4>. QED BY <3>3, <4>1, <4>2
    <3>. QED BY <2>4, <3>1, <3>2, <3>3
  <2>8. A + B + C + Len(x) <= N /\ (Intact => A + B + C + Len(x) = N)
    <3>1. CASE x = R
      BY <2>3, <3>1
    <3>2. CASE x = <<>> /\ ~Intact
      BY <2>2, <2>3, <3>2
    <3>. QED BY <2>4, <2>5, <3>1, <3>2
  <2>. DEFINE o == InOrder(g, blocks, Bs, x)
  <2>9. Len(o) = A + B + C + Len(x) /\ \A i \in 1..Len(o) : o[i] \in {w[i], 0}
    <3>1. w \in Seq(Nat) /\ g \in Seq(Nat)
      BY <1>1
    <3>2. InPlace(w, g, blocks, Bs, Ds) /\ x \in Seq(Nat)
      BY <1>5, <2>1
    <3>3. \A i \in 1..Len(x) : x[i] = w[Len(g) + Len(blocks) + Len(Bs) + i]
      BY <2>7 DEF A, B, C
    <3>. HIDE DEF w, g, o
    <3>4. /\ Len(InOrder(g, blocks, Bs, x)) = Len(g) + Len(blocks) + Len(Bs) + Len(x)
          /\ \A i \in 1..Len(InOrder(g, blocks, Bs, x)) : InOrder(g, blocks, Bs, x)[i] \in {w[i], 0}
      BY <1>1, <3>1, <3>2, <3>3, BlocksInLine
    <3>. QED BY <3>4 DEF A, B, C, o
  <2>10. AllBlocks = o
    BY <1>4
  <2>. HIDE DEF o, w
  <2>. QED BY <2>8, <2>9, <2>10 DEF N, w
<1>. QED BY <1>3, <1>6, <1>7, Zenon DEF AnswersMatch

\* A later block is announced.
LEMMA InvariantWakes == SInv => NoLostWakeup
<1>. SUFFICES ASSUME SInv, client.pc = "idle", Intact, client.told < node.tip
              PROVE  announced \/ Inbound("inv") # <<>>
  BY DEF NoLostWakeup
<1>1. Known(client.told)
  BY DEF SInv, WakeOK
<1>2. Told
  BY <1>1 DEF Known
<1>. QED BY <1>2 DEF Told, Is, Inbound, Line

\* At every moment the answers in the channels, in the tasks' hands and on the
\* wire, and the requests still to be answered, are those of the request the
\* worker waits for (peer.rs fetch_headers, fetch_blocks).
THEOREM AnswersAlwaysMatch == Spec => []AnswersMatch
BY SessionInvariant, InvariantMatches, PTL

\* A worker that sleeps over the node's newer block has been notified, or the
\* announcement is still on its way to it (pull/stage.rs, block_notify).
THEOREM WakeupsAreKept == Spec => []NoLostWakeup
BY SessionInvariant, InvariantWakes, PTL
=============================================================================
