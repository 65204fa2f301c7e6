---------------------------- MODULE Intersection ----------------------------
(***************************************************************************)
(* HashByHeightKV::intersect_options: the heights offered to the node as   *)
(* candidates for the last common block, every height for the first ten,   *)
(* then ever farther apart.                                                *)
(***************************************************************************)
EXTENDS Naturals

\* The loop's step after n pushes: it doubles from the tenth on.
Step(n) == IF n >= 10 THEN 2^(n - 9) ELSE 1

\* A bound on the pushes: 29 of them cover any height below 2^20.
MaxPushes == 29

\* Powers of two are naturals.
ASSUME StepAssumption == \A n \in 1..MaxPushes : Step(n) \in Nat

\* The loop's distance from the tip after n pushes.
Walk[n \in 0..MaxPushes] == IF n = 0 THEN 0 ELSE Walk[n - 1] + Step(n)

\* The pushes for a table whose last height is h, numbered from 0.
Pushes(h) == {n \in 0..MaxPushes : Walk[n] < h}

\* The heights pushed, and genesis.
IntersectOptions(h) == {0, h} \cup {h - Walk[n] : n \in Pushes(h)}
=============================================================================
