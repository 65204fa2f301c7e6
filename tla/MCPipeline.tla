----------------------------- MODULE MCPipeline -----------------------------
(* A chain and a longer fork of it: g-a1-a2-a3, a2-b3-b4.  Every block      *)
(* changes key u.                                                           *)
EXTENDS Pipeline

CONSTANTS g, a1, a2, a3, b3, b4, zero, u, v1, v2, s1

MCBlock == {g, a1, a2, a3, b3, b4}
MCPrev == [b \in MCBlock |->
  CASE b = g -> zero [] b = a1 -> g [] b = a2 -> a1 [] b \in {a3, b3} -> a2
    [] b = b4 -> b3]
MCHeight == [b \in MCBlock |->
  CASE b = g -> 0 [] b = a1 -> 1 [] b = a2 -> 2 [] b \in {a3, b3} -> 3
    [] b = b4 -> 4]

MCIndexed(b, v) == [k \in {u} |-> IF v[u] = v1 THEN v2 ELSE v1]
MCMempoolIndexed(s, v) == [k \in {u} |-> Absent]
=============================================================================
