------------------------------ MODULE MCUtxos ------------------------------
(* Transactions: k pays k1, t spends k1 into o (and an OP_RETURN output x), *)
(* u spends o into p, w spends p.  They confirm in different blocks, heights *)
(* and groupings on three forks of a1, and wait in the mempool.             *)
EXTENDS Utxos

CONSTANTS g, a1, a2, a3, a4, b2, b3, e2, e3, e4, k1, o, x, p, q,
          mt, mtu, mu, mw

MCBlock == {g, a1, a2, a3, a4, b2, b3, e2, e3, e4}
MCPrev == [b \in MCBlock |->
  CASE b \in {g, a1} -> g [] b \in {a2, b2, e2} -> a1 [] b = a3 -> a2
    [] b = a4 -> a3 [] b = b3 -> b2 [] b = e3 -> e2 [] b = e4 -> e3]
MCHeight == [b \in MCBlock |->
  CASE b = g -> 0 [] b = a1 -> 1 [] b \in {a2, b2, e2} -> 2
    [] b \in {a3, b3, e3} -> 3 [] b \in {a4, e4} -> 4]

k == [ins |-> {}, outs |-> {k1}]
t == [ins |-> {k1}, outs |-> {o, x}]
u == [ins |-> {o}, outs |-> {p}]
w == [ins |-> {p}, outs |-> {q}]

MCTxs(b) ==
  CASE b = a1 -> <<k>>    [] b = a2 -> <<t>>      [] b = a3 -> <<u>>
    [] b = a4 -> <<w>>    [] b = b2 -> <<t, u>>   [] b = b3 -> <<w>>
    [] b = e2 -> <<>>     [] b = e3 -> <<t>>      [] b = e4 -> <<u, w>>
    [] b = mt -> <<t>>    [] b = mtu -> <<t, u>>  [] b = mu -> <<u>>
    [] b = mw -> <<w>>    [] OTHER -> <<>>

MCSnapshotTip == [s \in {mt, mtu, mu, mw} |->
  CASE s = mt -> e2 [] s = mtu -> a1 [] s = mu -> a2 [] s = mw -> b2]
=============================================================================
