----------------------------- MODULE ChainStore -----------------------------
(***************************************************************************)
(* What the index stage promises to those who read the store: at every     *)
(* moment it holds the state of one chain, or that state with one mempool  *)
(* snapshot over it, and it moves from chain to chain only by a block on   *)
(* the tip or back to an ancestor.                                         *)
(***************************************************************************)
CONSTANTS
  Block, Genesis, Prev,
  Ancestors,       \* Ancestors[b]: the blocks of the chain from genesis to b
  Snapshot,
  Confirmed(_),    \* Confirmed(b): the store of the chain from genesis to b
  Overlaid(_, _)   \* Overlaid(s, b): the same with snapshot s over it

VARIABLES
  tip,    \* the chain the store is about
  store   \* what a reader sees

svars == <<tip, store>>

Init == tip = Genesis /\ store = Confirmed(Genesis)

Extend(b) ==
  /\ Prev[b] = tip
  /\ tip' = b
  /\ store' = Confirmed(b)

\* Back to an ancestor, or to the tip itself when a snapshot is withdrawn.
Retreat(b) ==
  /\ b \in Ancestors[tip]
  /\ tip' = b
  /\ store' = Confirmed(b)

Preview(s) ==
  /\ store' = Overlaid(s, tip)
  /\ UNCHANGED tip

Next ==
  \/ \E b \in Block : Extend(b) \/ Retreat(b)
  \/ \E s \in Snapshot : Preview(s)

Spec == Init /\ [][Next]_svars
=============================================================================
