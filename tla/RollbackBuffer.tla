--------------------------- MODULE RollbackBuffer ---------------------------
(***************************************************************************)
(* The rollback buffer (sync/stages/index/rollback/buffer.rs): a deque of  *)
(* points with the original values of the keys each point's task modified, *)
(* newest first, and what undoing a prefix of it does to a store.          *)
(* An entry is a record [point, kvs]; kvs is a function on the keys.       *)
(***************************************************************************)
EXTENDS Naturals, Sequences

InBuffer(b, p) == \E i \in 1..Len(b) : b[i].point = p

Position(b, p) == CHOOSE i \in 1..Len(b) : /\ b[i].point = p
                                           /\ \A j \in 1..(i-1) : b[j].point # p

\* points_since: how many entries are newer than p.
PointsSince(b, p) == Position(b, p) - 1

\* A faulty variant of Kept: the rollback point is drained too.
KeptOneLess(b, n) == SubSeq(b, n + 2, Len(b))

\* rollback_to_point drains the n newest entries.
Kept(b, n) == SubSeq(b, n + 1, Len(b))

\* Faulty variants of AddBlock: no truncation, and one entry too early.
AddBlockUncapped(b, p, kvs, size) == <<[point |-> p, kvs |-> kvs]>> \o b
AddBlockShort(b, p, kvs, size) ==
  <<[point |-> p, kvs |-> kvs]>> \o
    SubSeq(b, 1, IF Len(b) > size - 2 THEN size - 2 ELSE Len(b))

\* add_block: push to the front, drop the oldest beyond size.
AddBlock(b, p, kvs, size) ==
  LET all == <<[point |-> p, kvs |-> kvs]>> \o b
  IN  SubSeq(all, 1, IF Len(all) > size THEN size ELSE Len(all))

Touching(b, n, k) == {i \in 1..n : k \in DOMAIN b[i].kvs}

\* A faulty variant of Oldest: the newest original wins.
Newest(S) == CHOOSE i \in S : \A j \in S : i <= j

Oldest(S) == CHOOSE i \in S : \A j \in S : j <= i

\* A faulty variant of Undone: the batch is not written.
UndoneNothing(d, b, n) == d

\* The write batch of Stage::rollback_to_point lists the undone blocks newest
\* first, so for each key the original of the oldest undone block is kept.
Undone(d, b, n) ==
  [k \in DOMAIN d |-> IF Touching(b, n, k) = {} THEN d[k]
                      ELSE b[Oldest(Touching(b, n, k))].kvs[k]]

\* A faulty variant of UndoneRows: the rows are left behind.
UndoneRowsLeft(table, b, n) == table

\* The same batch deletes the rows of the undone entries.
UndoneRows(table, b, n) ==
  {r \in table : \A i \in 1..n :
                   r.point = b[i].point => r.key \notin DOMAIN b[i].kvs}
=============================================================================
