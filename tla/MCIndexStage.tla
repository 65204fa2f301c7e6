---------------------------- MODULE MCIndexStage ----------------------------
(* A fork tree and small indexers for IndexStage: g-a1-a2-a3-a4-a5 with a   *)
(* fork a1-b2-b3.  Key u is an output (created, spent, created again), c a       *)
(* counter every block but one increments.                                  *)
EXTENDS IndexStage

CONSTANTS g, a1, a2, a3, a4, a5, b2, b3, zero, u, c, v1, v2, v3, s1, s2

MCBlock == {g, a1, a2, a3, a4, a5, b2, b3}
MCPrev == [b \in MCBlock |->
  CASE b = g -> zero [] b = a1 -> g [] b = a2 -> a1 [] b = a3 -> a2
    [] b = a4 -> a3 [] b = a5 -> a4 [] b = b2 -> a1 [] b = b3 -> b2]
MCHeight == [b \in MCBlock |->
  CASE b = g -> 0 [] b = a1 -> 1 [] b \in {a2, b2} -> 2 [] b \in {a3, b3} -> 3
    [] b = a4 -> 4 [] b = a5 -> 5]

Bump(x) == CASE x = Absent -> v1 [] x = v1 -> v2 [] x = v2 -> v3 [] x = v3 -> v1

Wr(k, x) == [y \in {k} |-> x]
Both(x, y) == [k \in {u, c} |-> IF k = u THEN x ELSE y]

MCIndexed(b, v) ==
  CASE b \in {a1, a3, b3} -> Both(v1, Bump(v[c]))
    [] b = a2 -> Both(Absent, Bump(v[c]))
    [] b = b2 -> Wr(u, v2)
    [] OTHER -> Wr(c, Bump(v[c]))

MCMempoolIndexed(s, v) ==
  IF s = s1 THEN Wr(u, Absent) ELSE Wr(c, Bump(v[c]))
=============================================================================
