------------------------------ MODULE Locator ------------------------------
(***************************************************************************)
(* Where a reorg makes the pipeline roll back to: the pull stage keeps a   *)
(* cursor of points (sync/stages/pull/stage.rs), sparse below its first    *)
(* ones (HashByHeightKV::intersect_options), the node answers with the     *)
(* headers after the newest point of it that is on the node's chain, and   *)
(* the index stage must hold that point in its rollback buffer.            *)
(*                                                                         *)
(* Points are heights on the chain the index stage follows: a reorg is     *)
(* fetched when the index stage has drained its queue, and undone before   *)
(* the next page is fetched (Pipeline has the cursor over a fork that is   *)
(* being undone).  Up to MaxLag blocks may be queued when a cursor is      *)
(* built.                                                                  *)
(***************************************************************************)
EXTENDS Naturals, Intersection

CONSTANTS
  MaxRollback,  \* config.max_rollback
  Reach,        \* the depth of reorgs that are claimed to be handled
  BlockPageSize, \* config.block_page_size
  Start,        \* the height of a database with a full rollback buffer
  CursorLen,    \* 50, the headers of a page taken as cursor
  MaxLag,       \* blocks queued between the stages
  MaxHeight     \* bound: height of the chain

ASSUME LocatorAssumption ==
  /\ MaxRollback \in Nat /\ Reach \in 0..MaxRollback /\ MaxLag \in Nat /\ MaxHeight \in Nat
  /\ BlockPageSize \in Nat \ {0} /\ CursorLen \in Nat \ {0}
  /\ Start \in Nat /\ Start > MaxRollback

VARIABLES
  tip,     \* the newest height sent to the index stage
  dbTip,   \* the newest height in HashByHeightKV
  cursor,  \* heights of Worker.cursor
  floor,   \* the oldest height in the rollback buffer
  gc,      \* the oldest height in its persistent copy
  status,  \* of the index stage: "running" or "panicked"
  lost     \* history: the depth of the reorg that ended it

locatorVars == <<tip, dbTip, cursor, floor, gc, status, lost>>

SaturatingSub(a, b) == IF a >= b THEN a - b ELSE 0
Larger(a, b) == IF a >= b THEN a ELSE b
Smaller(a, b) == IF a <= b THEN a ELSE b

----------------------------------------------------------------------------
\* Both stages have started on the database.
LocatorInit ==
  /\ tip = Start
  /\ dbTip = Start
  /\ cursor = IntersectOptions(Start)
  /\ floor = Start - MaxRollback
  /\ gc = Start - MaxRollback
  /\ status = "running"
  /\ lost = 0

\* A faulty form: a short page is not completed from the table.
NextCursorPage(from, n, d) == (from + n + 1 - Smaller(n, CursorLen))..(from + n) \cup {0}

\* fetch_chain_actions: the cursor after a page of headers at from+1..from+n,
\* while the table's last height is d.
NextCursor(from, n, d) ==
  LET first == from + n + 1 - Smaller(n, CursorLen)
      page == first..(from + n)
  IN  page \cup {0} \cup
        (IF n < CursorLen THEN {o \in IntersectOptions(d) : o < first} ELSE {})

\* New headers on the tip the cursor begins with.
Fetch(n) ==
  /\ status = "running"
  /\ tip - dbTip <= MaxLag
  /\ tip + n <= MaxHeight
  /\ tip' = tip + n
  /\ cursor' = NextCursor(tip, n, dbTip)
  /\ UNCHANGED <<dbTip, floor, gc, status, lost>>

\* The index stage commits a block: the buffer holds MaxRollback + 2 entries,
\* its persistent copy the heights from MaxRollback below.
Index ==
  /\ status = "running"
  /\ dbTip < tip
  /\ dbTip' = dbTip + 1
  /\ floor' = Larger(floor, SaturatingSub(dbTip + 1, MaxRollback + 1))
  /\ gc' = Larger(gc, SaturatingSub(dbTip + 1, MaxRollback))
  /\ UNCHANGED <<tip, cursor, status, lost>>

\* The process restarts: the queue is lost, the buffer and the cursor are
\* read from the database.
RestartStages ==
  /\ status = "running"
  /\ tip' = dbTip
  /\ cursor' = IntersectOptions(dbTip)
  /\ floor' = Larger(floor, gc)
  /\ UNCHANGED <<dbTip, gc, status, lost>>

\* The node answers from the newest cursor point on its chain, which shares
\* ours up to fork.
Intersect(fork) == CHOOSE h \in cursor : h <= fork /\ \A o \in cursor : o <= fork => o <= h

\* How far a fork point is below the newest block indexed so far, which is
\* MaxRollback above gc.
Depth(fork) == (gc + MaxRollback) - fork

\* A reorg of at most MaxRollback blocks, to a branch n blocks longer than the
\* part of ours it replaces, when the queue is drained: the page fetched.
FetchReorg(fork, n) ==
  LET p == Intersect(fork)
  IN  /\ status = "running"
      /\ dbTip = tip
      /\ fork < tip /\ Depth(fork) <= MaxRollback
      /\ tip + n <= MaxHeight
      /\ cursor' = NextCursor(p, Smaller(tip + n - p, BlockPageSize), dbTip)
      /\ UNCHANGED <<floor, gc>>

\* The index stage holds the point the page begins at, and rolls back to it.
Reorg(fork, n) ==
  LET p == Intersect(fork)
  IN  /\ FetchReorg(fork, n)
      /\ p >= floor
      /\ tip' = p + Smaller(tip + n - p, BlockPageSize)
      /\ dbTip' = p
      /\ UNCHANGED <<status, lost>>

\* It does not: "rollback point not found".
ReorgPanics(fork, n) ==
  /\ FetchReorg(fork, n)
  /\ Intersect(fork) < floor
  /\ status' = "panicked"
  /\ lost' = Depth(fork)
  /\ UNCHANGED <<tip, dbTip>>

LocatorNext ==
  \/ \E n \in 1..BlockPageSize : Fetch(n)
  \/ Index
  \/ RestartStages
  \/ \E fork \in 0..MaxHeight, n \in 1..BlockPageSize : Reorg(fork, n)
  \/ \E fork \in 0..MaxHeight, n \in 1..BlockPageSize : ReorgPanics(fork, n)

LocatorSpec == LocatorInit /\ [][LocatorNext]_locatorVars

----------------------------------------------------------------------------
(* Properties.                                                             *)

\* Reorgs of depth d fit a rollback buffer of r blocks, with a page of len points
\* taken as cursor and up to lag blocks queued: they are below the tip by less
\* than len and than r less the lag, and every gap between two points offered that
\* begins above d leads to a point above r.
WithinReach(d, r, len, lag) ==
  /\ d < len /\ d + lag <= r /\ d <= Walk[MaxPushes]
  /\ \A n \in 1..MaxPushes : Walk[n - 1] < d => d + Step(n) <= r + 1

\* No point is offered between d and r blocks below the tip.
Missed(d, r) == \E n \in 1..MaxPushes : Walk[n - 1] < d /\ Walk[n] > r

\* The default max_rollback, the documented one and the largest of the examples,
\* with the code's page of 50 points and no lag: the depths within reach, and
\* those that are lost right after a restart.
ASSUME ReachExamples ==
  LET reach == [r \in {16, 32, 256} |-> CASE r = 16 -> 13 [] r = 32 -> 23 [] r = 256 -> 49]
      least == [r \in {16, 32, 256} |-> CASE r = 16 -> 16 [] r = 32 -> 24 [] r = 256 -> 136]
  IN  \A r \in {16, 32, 256} : \A d \in 0..r :
        /\ WithinReach(d, r, 50, 0) <=> d <= reach[r]
        /\ Missed(d, r) <=> d >= least[r]

\* What holds of "Number of rollbacked blocks from tip that can be handled"
\* (README.md, of max_rollback): a reorg ends the index stage only if it is
\* deeper than Reach; up to there the point it is rolled back to, which is the
\* newest one of the cursor and may be far below the fork, is in the rollback
\* buffer.
ReorgHandled == status = "panicked" => lost > Reach
=============================================================================
