------------------------ MODULE AddressTablesProofs ------------------------
(* Theorems about AddressTables and CharmRoutes, for every set of scripts,  *)
(* transaction shapes and start height.                                     *)
EXTENDS CharmRoutes, FiniteSetTheorems, TLAPS

Tx == [ins : SUBSET (Nat \X Nat), outs : Seq(Script), spell : Spell \cup {None}, height : Nat]

\* The outputs made and not spent, OP_RETURN ones too: those stay forever.
Live == {r \in AllRefs : r \notin SpentRefs}

TypeInv ==
  /\ chain \in Seq(Tx)
  /\ height \in Nat
  /\ txCount \in [Script -> Nat]

\* A transaction spends outputs of earlier ones that are not OP_RETURN; heights
\* do not decrease.
OrderInv ==
  \A i \in 1..Len(chain) :
    /\ chain[i].height <= height
    /\ \A r \in chain[i].ins : r \in AllRefs /\ r[1] < i /\ OutputOf(r) \notin OpReturn

\* The table of outputs is the outputs that can be spent, with the script, the
\* height and the charms that UtxosByAddress and Charms look rows up with.
UtxoInv ==
  /\ DOMAIN utxos = Unspent
  /\ \A r \in Unspent : /\ utxos[r].script = OutputOf(r)
                        /\ utxos[r].height = MadeAt(r)
                        /\ utxos[r].marked = Marks(r)
                        /\ utxos[r].charms = Gives(r)

\* The row of an output, the live outputs a spell marked, the outputs with a row
\* by script, and the rows of an output by app.
RowOf(r) == Row(OutputOf(r), MadeAt(r), r)
Holding == {q \in Live : Marks(q)}
Shown == {q \in AllRefs : Marks(q) /\ (q \in Live \/ Gives(q) = {})}
AppRows(r) == {Row(a, MadeAt(r), r) : a \in Gives(r)}

RowsInv == byAddress = {RowOf(r) : r \in Live}

CharmInv ==
  /\ charmsByScript = {RowOf(r) : r \in Shown}
  /\ charmsByApp = UNION {AppRows(r) : r \in Holding}

IInv == TypeInv /\ OrderInv /\ UtxoInv /\ RowsInv /\ CharmInv /\ TxCountExact

----------------------------------------------------------------------------
(* What appending a transaction does to the references.                    *)

\* The references to the outputs of the transaction at i, if its outputs are outs.
RefsOf(i, outs) == {<<i, o>> : o \in 1..Len(outs)}

\* A reference names a transaction and one of its outputs.
LEMMA RefShape ==
  ASSUME TypeInv
  PROVE  /\ \A r : r \in AllRefs <=> \E i \in 1..Len(chain) : r \in RefsOf(i, chain[i].outs)
         /\ \A i \in 1..Len(chain) : \A r : r \in RefsOf(i, chain[i].outs) =>
              r[1] = i /\ r[2] \in 1..Len(chain[i].outs) /\ r = <<r[1], r[2]>>
<1>1. DOMAIN chain = 1..Len(chain)
  BY DEF TypeInv
<1>2. ASSUME NEW i \in 1..Len(chain)
      PROVE  DOMAIN chain[i].outs = 1..Len(chain[i].outs)
  <2>1. chain[i] \in Tx
    BY DEF TypeInv
  <2>2. chain[i].outs \in Seq(Script)
    BY <2>1 DEF Tx
  <2>. QED BY <2>2
<1>. QED BY <1>1, <1>2 DEF AllRefs, RefsOf

\* Appended(tx) is what ProcessTx does to the chain.
Appended(tx) ==
  /\ chain' = Append(chain, tx)
  /\ tx \in Tx
  /\ tx.ins \subseteq Unspent
  /\ tx.height = height

\* The earlier transactions stay as they are.
LEMMA AppendChain ==
  ASSUME TypeInv, NEW tx, Appended(tx)
  PROVE  /\ chain' \in Seq(Tx)
         /\ Len(chain) \in Nat
         /\ Len(chain') = Len(chain) + 1
         /\ \A i \in 1..Len(chain) : chain'[i] = chain[i]
         /\ chain'[Len(chain) + 1] = tx
BY DEF TypeInv, Appended

\* What the chain says of an output does not change.
LEMMA AppendKeeps ==
  ASSUME TypeInv, NEW tx, Appended(tx), NEW r \in AllRefs
  PROVE  /\ r[1] \in 1..Len(chain)
         /\ OutputOf(r)' = OutputOf(r)
         /\ MadeAt(r)' = MadeAt(r)
         /\ Marks(r)' = Marks(r)
         /\ Gives(r)' = Gives(r)
<1>1. r[1] \in 1..Len(chain)
  BY RefShape
<1>2. chain'[r[1]] = chain[r[1]]
  BY <1>1, AppendChain
<1>3. Marks(r)' = Marks(r)
  BY <1>1, <1>2 DEF MadeAt, Marks
<1>. QED BY <1>1, <1>2, <1>3 DEF OutputOf, MadeAt, Gives

\* What it says of the new outputs: the charms are those the indexer attaches.
LEMMA AppendNew ==
  ASSUME TypeInv, NEW tx, Appended(tx), NEW n, n = Len(chain) + 1, NEW o
  PROVE  /\ OutputOf(<<n, o>>)' = tx.outs[o]
         /\ MadeAt(<<n, o>>)' = height
         /\ Marks(<<n, o>>)' = Marked(tx, o)
         /\ Gives(<<n, o>>)' = Attached(tx, o)
<1>1. chain'[Len(chain) + 1] = tx /\ tx \in Tx /\ tx.height = height
  BY AppendChain DEF Appended
<1>2. <<n, o>>[1] = n /\ <<n, o>>[2] = o
  OBVIOUS
<1>3. OutputOf(<<n, o>>)' = tx.outs[o] /\ MadeAt(<<n, o>>)' = height
  BY <1>1, <1>2 DEF OutputOf, MadeAt
<1>4. chain'[<<n, o>>[1]].spell = tx.spell
  BY <1>1, <1>2
<1>5. Marks(<<n, o>>)' = Marked(tx, o)
  BY <1>2, <1>3, <1>4 DEF Marks, Marked
<1>6. Gives(<<n, o>>)' = Attached(tx, o)
  BY <1>2, <1>4, <1>5 DEF Gives, Attached
<1>. QED BY <1>3, <1>5, <1>6

\* The references, the spent ones and the live ones, after a transaction.
LEMMA AppendRefs ==
  ASSUME TypeInv, OrderInv, NEW tx, Appended(tx), NEW n, n = Len(chain) + 1
  PROVE  /\ AllRefs' = AllRefs \cup RefsOf(n, tx.outs)
         /\ AllRefs \cap RefsOf(n, tx.outs) = {}
         /\ SpentRefs' = SpentRefs \cup tx.ins
         /\ SpentRefs' \subseteq AllRefs
         /\ Live' = (Live \ tx.ins) \cup RefsOf(n, tx.outs)
         /\ Unspent' = (Unspent \ tx.ins) \cup
                         {r \in RefsOf(n, tx.outs) : tx.outs[r[2]] \notin OpReturn}
<1>1. /\ Len(chain) \in Nat /\ Len(chain') = n
      /\ \A i \in 1..Len(chain) : chain'[i] = chain[i]
      /\ chain'[n] = tx
      /\ DOMAIN chain = 1..Len(chain) /\ DOMAIN chain' = 1..n
      /\ 1..n = 1..Len(chain) \cup {n} /\ n \notin 1..Len(chain)
  BY AppendChain DEF TypeInv
<1>2. tx.outs \in Seq(Script)
  BY DEF Appended, Tx
<1>3. DOMAIN tx.outs = 1..Len(tx.outs)
  BY <1>2
<1>4. \A r \in RefsOf(n, tx.outs) : r[1] = n /\ r[2] \in 1..Len(tx.outs) /\ r = <<n, r[2]>>
  BY DEF RefsOf
<1>5. AllRefs' = AllRefs \cup RefsOf(n, tx.outs)
  <2>1. AllRefs' = UNION {{<<i, o>> : o \in DOMAIN chain'[i].outs} : i \in 1..n}
    BY <1>1 DEF AllRefs
  <2>2. AllRefs = UNION {{<<i, o>> : o \in DOMAIN chain[i].outs} : i \in 1..Len(chain)}
    BY <1>1 DEF AllRefs
  <2>3. RefsOf(n, tx.outs) = {<<n, o>> : o \in DOMAIN chain'[n].outs}
    BY <1>1, <1>3 DEF RefsOf
  <2>. QED BY <1>1, <2>1, <2>2, <2>3
<1>6. \A r \in AllRefs : r[1] \in 1..Len(chain)
  BY RefShape
<1>7. AllRefs \cap RefsOf(n, tx.outs) = {}
  BY <1>1, <1>4, <1>6
<1>8. SpentRefs' = SpentRefs \cup tx.ins
  <2>1. SpentRefs' = UNION {chain'[i].ins : i \in 1..n}
    BY <1>1 DEF SpentRefs
  <2>2. SpentRefs = UNION {chain[i].ins : i \in 1..Len(chain)}
    BY <1>1 DEF SpentRefs
  <2>. QED BY <1>1, <2>1, <2>2
<1>9. SpentRefs \subseteq AllRefs /\ tx.ins \subseteq AllRefs
  BY <1>1 DEF SpentRefs, OrderInv, Appended, Unspent
<1>10. Live' = (Live \ tx.ins) \cup RefsOf(n, tx.outs)
  BY <1>5, <1>7, <1>8, <1>9 DEF Live
<1>11. /\ \A r \in AllRefs : OutputOf(r)' = OutputOf(r)
       /\ \A r \in RefsOf(n, tx.outs) : OutputOf(r)' = tx.outs[r[2]]
  BY <1>4, AppendKeeps, AppendNew
<1>12. Unspent' = (Unspent \ tx.ins) \cup
                    {r \in RefsOf(n, tx.outs) : tx.outs[r[2]] \notin OpReturn}
  <2> SUFFICES ASSUME NEW r
               PROVE  r \in Unspent' <=>
                        \/ r \in Unspent /\ r \notin tx.ins
                        \/ r \in RefsOf(n, tx.outs) /\ tx.outs[r[2]] \notin OpReturn
    OBVIOUS
  <2>1. r \in Unspent' <=> r \in AllRefs' /\ r \notin SpentRefs' /\ OutputOf(r)' \notin OpReturn
    BY DEF Unspent
  <2>2. r \in Unspent <=> r \in AllRefs /\ r \notin SpentRefs /\ OutputOf(r) \notin OpReturn
    BY DEF Unspent
  <2>. QED BY <1>5, <1>7, <1>8, <1>9, <1>11, <2>1, <2>2
<1>. QED BY <1>5, <1>7, <1>8, <1>9, <1>10, <1>12

----------------------------------------------------------------------------
(* One transaction, indexer by indexer.                                    *)

\* Inputs are found in the table of outputs as the chain made them.
LEMMA InputsKnown ==
  ASSUME IInv, NEW tx, Appended(tx), NEW r \in tx.ins
  PROVE  /\ r \in Unspent /\ r \in Live /\ r \in AllRefs
         /\ utxos[r].script = OutputOf(r)
         /\ utxos[r].height = MadeAt(r)
         /\ utxos[r].marked = Marks(r)
         /\ utxos[r].charms = Gives(r)
BY DEF IInv, UtxoInv, Appended, Unspent, Live

\* update_utxo_set keeps the table of outputs exact.
LEMMA UtxoStep ==
  ASSUME IInv, NEW tx, Appended(tx), UpdateUtxoSet(tx)
  PROVE  UtxoInv'
<1>1. PICK n : n = Len(chain) + 1
  OBVIOUS
<1>. DEFINE new == {r \in RefsOf(n, tx.outs) : tx.outs[r[2]] \notin OpReturn}
<1>2. tx.outs \in Seq(Script) /\ DOMAIN tx.outs = 1..Len(tx.outs)
  BY DEF Appended, Tx
<1>3. new = {Ref(o) : o \in {q \in DOMAIN tx.outs : tx.outs[q] \notin OpReturn}}
  BY <1>1, <1>2 DEF RefsOf, Ref
<1>4. utxos' = [r \in (DOMAIN utxos \ tx.ins) \cup new |->
                  IF r \notin new THEN utxos[r]
                  ELSE [script |-> tx.outs[r[2]], height |-> height,
                        marked |-> Marked(tx, r[2]), charms |-> Attached(tx, r[2])]]
  BY <1>3 DEF UpdateUtxoSet
<1>5. /\ Unspent' = (Unspent \ tx.ins) \cup new
      /\ AllRefs \cap RefsOf(n, tx.outs) = {}
  BY <1>1, AppendRefs DEF IInv
<1>6. ASSUME NEW r \in Unspent \ tx.ins
      PROVE  /\ utxos'[r].script = OutputOf(r)'
             /\ utxos'[r].height = MadeAt(r)'
             /\ utxos'[r].marked = Marks(r)'
             /\ utxos'[r].charms = Gives(r)'
  <2>1. r \in AllRefs /\ r \notin new /\ r \in DOMAIN utxos
    BY <1>5, <1>6 DEF Unspent, IInv, UtxoInv
  <2> HIDE DEF new
  <2>2. utxos'[r] = utxos[r]
    BY <1>4, <1>6, <2>1
  <2>3. /\ utxos[r].script = OutputOf(r)
        /\ utxos[r].height = MadeAt(r)
        /\ utxos[r].marked = Marks(r)
        /\ utxos[r].charms = Gives(r)
    BY <1>6 DEF IInv, UtxoInv
  <2>. QED BY <2>1, <2>2, <2>3, AppendKeeps DEF IInv
<1>7. ASSUME NEW r \in new
      PROVE  /\ utxos'[r].script = OutputOf(r)'
             /\ utxos'[r].height = MadeAt(r)'
             /\ utxos'[r].marked = Marks(r)'
             /\ utxos'[r].charms = Gives(r)'
  <2>1. r = <<n, r[2]>> /\ r[2] \in 1..Len(tx.outs)
    BY <1>7 DEF RefsOf
  <2> HIDE DEF new
  <2>2. utxos'[r] = [script |-> tx.outs[r[2]], height |-> height,
                     marked |-> Marked(tx, r[2]), charms |-> Attached(tx, r[2])]
    BY <1>4, <1>7
  <2>3. /\ OutputOf(<<n, r[2]>>)' = tx.outs[r[2]]
        /\ MadeAt(<<n, r[2]>>)' = height
        /\ Marks(<<n, r[2]>>)' = Marked(tx, r[2])
        /\ Gives(<<n, r[2]>>)' = Attached(tx, r[2])
    BY <1>1, <2>1, AppendNew DEF IInv
  <2>4. /\ OutputOf(r)' = tx.outs[r[2]]
        /\ MadeAt(r)' = height
        /\ Marks(r)' = Marked(tx, r[2])
        /\ Gives(r)' = Attached(tx, r[2])
    BY <2>1, <2>3
  <2>. QED BY <2>2, <2>4
<1>8. DOMAIN utxos' = Unspent'
  <2> HIDE DEF new
  <2>1. DOMAIN utxos' = (DOMAIN utxos \ tx.ins) \cup new
    BY <1>4
  <2>. QED BY <1>5, <2>1 DEF IInv, UtxoInv
<1> HIDE DEF new
<1>9. \A r \in Unspent' : /\ utxos'[r].script = OutputOf(r)'
                          /\ utxos'[r].height = MadeAt(r)'
                          /\ utxos'[r].marked = Marks(r)'
                          /\ utxos'[r].charms = Gives(r)'
  BY <1>5, <1>6, <1>7
<1>. QED BY <1>8, <1>9 DEF UtxoInv

\* Rows are told apart by their references.
LEMMA RowFacts ==
  ASSUME NEW x, NEW h, NEW r
  PROVE  Row(x, h, r).ref = r /\ Row(x, h, r).of = x /\ Row(x, h, r).height = h
BY DEF Row

\* The rows a transaction finds are those of its inputs, and the rows it adds
\* are those the new chain gives its outputs.
LEMMA RowsOfTx ==
  ASSUME IInv, NEW tx, Appended(tx), NEW n, n = Len(chain) + 1
  PROVE  /\ \A I \in SUBSET tx.ins : Spent(I) = {RowOf(r) : r \in I}
         /\ \A r \in AllRefs : RowOf(r)' = RowOf(r)
         /\ \A o \in 1..Len(tx.outs) :
              Row(tx.outs[o], height, Ref(o)) = RowOf(<<n, o>>)'
<1>1. ASSUME NEW I \in SUBSET tx.ins PROVE Spent(I) = {RowOf(r) : r \in I}
  BY InputsKnown DEF Spent, RowOf
<1>2. ASSUME NEW r \in AllRefs PROVE RowOf(r)' = RowOf(r)
  BY AppendKeeps DEF RowOf, IInv
<1>3. ASSUME NEW o \in 1..Len(tx.outs)
      PROVE  Row(tx.outs[o], height, Ref(o)) = RowOf(<<n, o>>)'
  <2>1. OutputOf(<<n, o>>)' = tx.outs[o] /\ MadeAt(<<n, o>>)' = height
    BY AppendNew DEF IInv
  <2>. QED BY <2>1 DEF RowOf, Ref
<1>. QED BY <1>1, <1>2, <1>3

\* UtxosByAddress keeps a row for every live output.
LEMMA AddressStep ==
  ASSUME IInv, NEW tx, Appended(tx), UtxosByAddress(tx)
  PROVE  RowsInv'
<1>1. PICK n : n = Len(chain) + 1
  OBVIOUS
<1>. DEFINE new == RefsOf(n, tx.outs)
<1>2. tx.outs \in Seq(Script) /\ DOMAIN tx.outs = 1..Len(tx.outs)
  BY DEF Appended, Tx
<1>3. byAddress = {RowOf(r) : r \in Live}
  BY DEF IInv, RowsInv
<1>4. \A r, q : RowOf(r) = RowOf(q) => r = q
  BY RowFacts DEF RowOf
<1>5. Spent(tx.ins) = {RowOf(r) : r \in tx.ins}
  BY <1>1, RowsOfTx
<1>6. byAddress \ Spent(tx.ins) = {RowOf(r) : r \in Live \ tx.ins}
  BY <1>3, <1>4, <1>5
<1>7. {RowOf(r) : r \in Live \ tx.ins} = {RowOf(r)' : r \in Live \ tx.ins}
  BY <1>1, RowsOfTx DEF Live
<1>8. {Row(tx.outs[o], height, Ref(o)) : o \in DOMAIN tx.outs} = {RowOf(r)' : r \in new}
  <2>1. \A o \in 1..Len(tx.outs) : Row(tx.outs[o], height, Ref(o)) = RowOf(<<n, o>>)'
    BY <1>1, RowsOfTx
  <2>2. \A o \in 1..Len(tx.outs) : <<n, o>> \in new
    BY DEF RefsOf
  <2>3. \A r \in new : \E o \in 1..Len(tx.outs) : r = <<n, o>>
    BY DEF RefsOf
  <2> HIDE DEF new
  <2>4. \A r \in new : \E o \in 1..Len(tx.outs) :
          RowOf(r)' = Row(tx.outs[o], height, Ref(o))
    BY <2>1, <2>3
  <2>. QED BY <1>2, <2>1, <2>2, <2>4
<1>9. Live' = (Live \ tx.ins) \cup new
  BY <1>1, AppendRefs DEF IInv
<1> HIDE DEF new
<1>10. byAddress' = {RowOf(r)' : r \in Live'}
  BY <1>6, <1>7, <1>8, <1>9 DEF UtxosByAddress
<1>. QED BY <1>10 DEF RowsInv

\* The live marked outputs and the outputs with a row by script, after a
\* transaction: an input stays in the latter when it was given no app.  Below the
\* start height nothing is marked, which is why nothing is cleaned up.
LEMMA HoldingStep ==
  ASSUME IInv, NEW tx, Appended(tx), NEW n, n = Len(chain) + 1
  PROVE  /\ Holding' = (Holding \ tx.ins) \cup {<<n, o>> : o \in Given(tx)}
         /\ Shown' = (Shown \ Cleaned(tx)) \cup {<<n, o>> : o \in Given(tx)}
         /\ Cleaned(tx) = {r \in tx.ins : Gives(r) # {}}
         /\ height < StartHeight => Holding \cap tx.ins = {} /\ Given(tx) = {}
<1>1. tx.outs \in Seq(Script) /\ DOMAIN tx.outs = 1..Len(tx.outs)
  BY DEF Appended, Tx
<1>2. /\ AllRefs' = AllRefs \cup RefsOf(n, tx.outs)
      /\ AllRefs \cap RefsOf(n, tx.outs) = {}
      /\ Live' = (Live \ tx.ins) \cup RefsOf(n, tx.outs)
      /\ Live \subseteq AllRefs /\ tx.ins \subseteq Live
      /\ \A r \in AllRefs : Marks(r)' = Marks(r) /\ Gives(r)' = Gives(r)
  BY AppendRefs, AppendKeeps, InputsKnown DEF IInv, Live
<1>3. ASSUME NEW r
      PROVE  r \in RefsOf(n, tx.outs) /\ Marks(r)' <=> \E o \in Given(tx) : r = <<n, o>>
  <2>1. \A o \in 1..Len(tx.outs) : Marks(<<n, o>>)' = Marked(tx, o)
    BY AppendNew DEF IInv
  <2>2. r \in RefsOf(n, tx.outs) <=> \E o \in 1..Len(tx.outs) : r = <<n, o>>
    BY DEF RefsOf
  <2>3. \A o : o \in Given(tx) <=> o \in 1..Len(tx.outs) /\ Marked(tx, o)
    BY <1>1 DEF Given
  <2>. QED BY <2>1, <2>2, <2>3
<1>4. ASSUME NEW r
      PROVE  /\ r \in Holding <=> r \in Live /\ Marks(r)
             /\ r \in Holding' <=> r \in Live' /\ Marks(r)'
             /\ r \in Shown <=> r \in AllRefs /\ Marks(r) /\ (r \in Live \/ Gives(r) = {})
             /\ r \in Shown' <=> r \in AllRefs' /\ Marks(r)' /\ (r \in Live' \/ Gives(r)' = {})
  BY DEF Holding, Shown
<1>5. Holding' = (Holding \ tx.ins) \cup {<<n, o>> : o \in Given(tx)}
  <2> SUFFICES ASSUME NEW r
               PROVE  r \in Holding' <=> \/ r \in Holding /\ r \notin tx.ins
                                         \/ \E o \in Given(tx) : r = <<n, o>>
    OBVIOUS
  <2>. QED BY <1>2, <1>3, <1>4
<1>6. Cleaned(tx) = {r \in tx.ins : Gives(r) # {}}
  BY InputsKnown DEF Cleaned
<1>7. Shown' = (Shown \ Cleaned(tx)) \cup {<<n, o>> : o \in Given(tx)}
  <2> SUFFICES ASSUME NEW r
               PROVE  r \in Shown' <=> \/ r \in Shown /\ r \notin Cleaned(tx)
                                       \/ \E o \in Given(tx) : r = <<n, o>>
    OBVIOUS
  <2>1. r \in Cleaned(tx) <=> r \in tx.ins /\ Gives(r) # {}
    BY <1>6
  <2>. QED BY <1>2, <1>3, <1>4, <2>1
<1>8. ASSUME height < StartHeight
      PROVE  Holding \cap tx.ins = {} /\ Given(tx) = {}
  <2>1. Given(tx) = {}
    <3>1. ~(height >= StartHeight)
      BY <1>8, HeightAssumption DEF IInv, TypeInv
    <3>. QED BY <3>1 DEF Given, Marked
  <2>2. ASSUME NEW r \in tx.ins PROVE ~Marks(r)
    <3>1. r[1] \in 1..Len(chain)
      BY InputsKnown, AppendKeeps DEF IInv
    <3>2. chain[r[1]].height <= height /\ chain[r[1]] \in Tx /\ height \in Nat
      BY <3>1 DEF IInv, OrderInv, TypeInv
    <3>3. chain[r[1]].height \in Nat
      BY <3>2 DEF Tx
    <3>4. ~(chain[r[1]].height >= StartHeight)
      BY <1>8, <3>2, <3>3, HeightAssumption
    <3>. QED BY <3>4 DEF Marks, MadeAt
  <2>. QED BY <2>1, <2>2 DEF Holding
<1>. QED BY <1>5, <1>6, <1>7, <1>8

\* Charms keeps the rows of the outputs shown by script, and of the live marked
\* outputs by app.
LEMMA CharmsStep ==
  ASSUME IInv, NEW tx, Appended(tx), Charms(tx)
  PROVE  CharmInv'
<1>1. PICK n : n = Len(chain) + 1
  OBVIOUS
<1>. DEFINE new == {<<n, o>> : o \in Given(tx)}
            gone == Cleaned(tx)
<1>2. /\ Holding' = (Holding \ tx.ins) \cup new
      /\ Shown' = (Shown \ gone) \cup new
      /\ gone = {r \in tx.ins : Gives(r) # {}}
      /\ height < StartHeight => Holding \cap tx.ins = {} /\ new = {}
  BY <1>1, HoldingStep
<1>3. \A o \in Given(tx) : o \in 1..Len(tx.outs)
  BY DEF Given, Appended, Tx
<1>4. /\ charmsByScript = {RowOf(r) : r \in Shown}
      /\ charmsByApp = UNION {AppRows(r) : r \in Holding}
  BY DEF IInv, CharmInv
<1>5. /\ Holding \subseteq AllRefs /\ Shown \subseteq AllRefs
      /\ \A r \in AllRefs : /\ RowOf(r)' = RowOf(r)
                            /\ AppRows(r)' = AppRows(r)
  BY <1>1, RowsOfTx, AppendKeeps DEF Holding, Shown, Live, AppRows, IInv
<1>6. \A r, q : /\ RowOf(r) = RowOf(q) => r = q
                /\ AppRows(r) \cap AppRows(q) # {} => r = q
  BY RowFacts DEF RowOf, AppRows
<1>7. ASSUME height >= StartHeight
      PROVE  /\ charmsByScript' = (charmsByScript \ {RowOf(r) : r \in gone})
                                    \cup {RowOf(r)' : r \in new}
             /\ charmsByApp' = (charmsByApp \ UNION {AppRows(r) : r \in gone})
                                 \cup UNION {AppRows(r)' : r \in new}
  <2>1. ~(height < StartHeight)
    BY <1>7, HeightAssumption DEF IInv, TypeInv
  <2>2. {Row(tx.outs[o], height, Ref(o)) : o \in Given(tx)} = {RowOf(r)' : r \in new}
    <3>1. \A o \in Given(tx) : Row(tx.outs[o], height, Ref(o)) = RowOf(<<n, o>>)'
      BY <1>1, <1>3, RowsOfTx
    <3>2. \A o \in Given(tx) : <<n, o>> \in new
      OBVIOUS
    <3>3. \A r \in new : \E o \in Given(tx) : r = <<n, o>>
      OBVIOUS
    <3> HIDE DEF new
    <3>4. \A r \in new : \E o \in Given(tx) : RowOf(r)' = Row(tx.outs[o], height, Ref(o))
      BY <3>1, <3>3
    <3>. QED BY <3>1, <3>2, <3>4
  <2>3. UNION {{Row(a, height, Ref(o)) : a \in Attached(tx, o)} : o \in Given(tx)}
          = UNION {AppRows(r)' : r \in new}
    <3>1. \A o \in Given(tx) : {Row(a, height, Ref(o)) : a \in Attached(tx, o)} = AppRows(<<n, o>>)'
      BY <1>1, <1>3, AppendNew DEF AppRows, IInv, Ref
    <3>2. \A o \in Given(tx) : <<n, o>> \in new
      OBVIOUS
    <3>3. \A r \in new : \E o \in Given(tx) : r = <<n, o>>
      OBVIOUS
    <3> HIDE DEF new
    <3>4. \A r \in new : \E o \in Given(tx) :
            AppRows(r)' = {Row(a, height, Ref(o)) : a \in Attached(tx, o)}
      BY <3>1, <3>3
    <3>. QED BY <3>1, <3>2, <3>4
  <2>4. Spent(gone) = {RowOf(r) : r \in gone}
    <3>1. gone \in SUBSET tx.ins
      BY <1>2
    <3> HIDE DEF gone
    <3>. QED BY <1>1, <3>1, RowsOfTx
  <2>5. UNION {{Row(a, utxos[r].height, r) : a \in utxos[r].charms} : r \in gone}
          = UNION {AppRows(r) : r \in gone}
    <3>1. \A r \in gone : {Row(a, utxos[r].height, r) : a \in utxos[r].charms} = AppRows(r)
      BY <1>2, InputsKnown DEF AppRows
    <3> HIDE DEF gone
    <3>. QED BY <3>1
  <2>. QED BY <2>1, <2>2, <2>3, <2>4, <2>5 DEF Charms
<1> HIDE DEF new, gone
<1>8. ASSUME NEW w
      PROVE  /\ w \in charmsByScript' <=> \/ \E r \in Shown \ gone : w = RowOf(r)
                                          \/ \E r \in new : w = RowOf(r)'
             /\ w \in charmsByApp' <=> \/ \E r \in Holding \ tx.ins : w \in AppRows(r)
                                       \/ \E r \in new : w \in AppRows(r)'
  <2>1. /\ w \in charmsByScript <=> \E r \in Shown : w = RowOf(r)
        /\ w \in charmsByApp <=> \E r \in Holding : w \in AppRows(r)
    BY <1>4
  <2>2. \A r \in tx.ins : w \in AppRows(r) => r \in gone
    BY <1>2 DEF AppRows
  <2>3. gone \subseteq tx.ins
    BY <1>2
  <2>4. CASE height < StartHeight
    <3>1. UNCHANGED <<charmsByScript, charmsByApp>>
      BY <2>4, HeightAssumption DEF Charms, IInv, TypeInv
    <3>2. Holding \ tx.ins = Holding /\ new = {}
      BY <1>2, <2>4
    <3>3. gone = {}
      <4>1. \A r \in tx.ins : r \in Live /\ (Gives(r) # {} => Marks(r))
        BY InputsKnown DEF Gives
      <4>2. \A r \in gone : r \in Holding \cap tx.ins
        BY <1>2, <4>1 DEF Holding
      <4>. QED BY <1>2, <2>4, <4>2
    <3>. QED BY <2>1, <3>1, <3>2, <3>3
  <2>5. CASE height >= StartHeight
    <3>1. /\ w \in charmsByScript' <=> \/ /\ w \in charmsByScript
                                          /\ ~\E r \in gone : w = RowOf(r)
                                       \/ \E r \in new : w = RowOf(r)'
          /\ w \in charmsByApp' <=> \/ /\ w \in charmsByApp
                                       /\ ~\E r \in gone : w \in AppRows(r)
                                    \/ \E r \in new : w \in AppRows(r)'
      BY <1>7, <2>5
    <3>2. \A r, q : /\ w = RowOf(r) /\ w = RowOf(q) => r = q
                    /\ w \in AppRows(r) /\ w \in AppRows(q) => r = q
      BY <1>6
    <3>. QED BY <2>1, <2>2, <2>3, <3>1, <3>2
  <2>. QED BY <2>4, <2>5, HeightAssumption DEF IInv, TypeInv
<1>9. /\ \A r \in Shown \ gone : RowOf(r)' = RowOf(r)
      /\ \A r \in Holding \ tx.ins : AppRows(r)' = AppRows(r)
  BY <1>5
<1>10. ASSUME NEW w
       PROVE  /\ w \in charmsByScript' <=> \E r \in Shown' : w = RowOf(r)'
              /\ w \in charmsByApp' <=> \E r \in Holding' : w \in AppRows(r)'
  <2>1. \A r : /\ r \in Holding' <=> r \in Holding \ tx.ins \/ r \in new
               /\ r \in Shown' <=> r \in Shown \ gone \/ r \in new
    BY <1>2
  <2>. QED BY <1>8, <1>9, <2>1
<1>11. charmsByScript' = {RowOf(r)' : r \in Shown'}
  BY <1>10
<1>12. charmsByApp' = UNION {AppRows(r)' : r \in Holding'}
  BY <1>10
<1>. QED BY <1>11, <1>12 DEF CharmInv

\* The transactions a script is part of, which TxCountExact counts.
PartOf(s) == {i \in DOMAIN chain :
                s \in ToSet(chain[i].outs) \cup {OutputOf(r) : r \in chain[i].ins}}

\* A transaction is counted once for each script it pays or spends from.
LEMMA CountStep ==
  ASSUME IInv, NEW tx, Appended(tx), TxCountByAddress(tx)
  PROVE  TxCountExact' /\ txCount' \in [Script -> Nat]
<1>1. PICK n : n = Len(chain) + 1
  OBVIOUS
<1>2. /\ Len(chain) \in Nat /\ Len(chain') = n
      /\ \A i \in 1..Len(chain) : chain'[i] = chain[i]
      /\ chain'[n] = tx
      /\ DOMAIN chain = 1..Len(chain) /\ DOMAIN chain' = 1..n
      /\ 1..n = 1..Len(chain) \cup {n} /\ n \notin 1..Len(chain)
  BY <1>1, AppendChain DEF IInv, TypeInv
<1>3. ASSUME NEW s \in Script
      PROVE  /\ s \in SeenScripts(tx) => PartOf(s)' = PartOf(s) \cup {n}
             /\ s \notin SeenScripts(tx) => PartOf(s)' = PartOf(s)
  <2>1. \A r \in AllRefs : OutputOf(r)' = OutputOf(r)
    BY AppendKeeps DEF IInv
  <2>2. ASSUME NEW i \in 1..Len(chain) PROVE i \in PartOf(s)' <=> i \in PartOf(s)
    <3>1. chain'[i] = chain[i] /\ chain[i].ins \subseteq AllRefs
      BY <1>2, <2>2 DEF IInv, OrderInv
    <3>2. {OutputOf(r)' : r \in chain[i].ins} = {OutputOf(r) : r \in chain[i].ins}
      BY <2>1, <3>1
    <3>. QED BY <1>2, <2>2, <3>1, <3>2 DEF PartOf
  <2>3. n \in PartOf(s)' <=> s \in SeenScripts(tx)
    <3>1. \A r \in tx.ins : utxos[r].script = OutputOf(r)'
      BY <2>1, InputsKnown
    <3>2. {OutputOf(r)' : r \in tx.ins} = {utxos[r].script : r \in tx.ins}
      BY <3>1
    <3>. QED BY <1>2, <3>2 DEF PartOf, SeenScripts
  <2>4. PartOf(s) \subseteq 1..Len(chain) /\ PartOf(s)' \subseteq 1..n
    BY <1>2 DEF PartOf
  <2>5. \A i : i \in PartOf(s)' <=> i \in PartOf(s) \/ (i = n /\ s \in SeenScripts(tx))
    BY <1>2, <2>2, <2>3, <2>4
  <2>. QED BY <2>5
<1>4. ASSUME NEW s \in Script
      PROVE  txCount'[s] = Cardinality(PartOf(s)') /\ txCount'[s] \in Nat
  <2>1. txCount[s] = Cardinality(PartOf(s)) /\ txCount[s] \in Nat
    BY DEF IInv, TxCountExact, PartOf, TypeInv
  <2>2. IsFiniteSet(PartOf(s)) /\ n \notin PartOf(s)
    <3>1. PartOf(s) \in SUBSET (1..Len(chain))
      BY <1>2 DEF PartOf
    <3>2. IsFiniteSet(1..Len(chain))
      BY <1>2, FS_Interval
    <3>. QED BY <1>2, <3>1, <3>2, FS_Subset
  <2>3. Cardinality(PartOf(s) \cup {n}) = Cardinality(PartOf(s)) + 1
    BY <2>2, FS_AddElement
  <2>4. txCount'[s] = IF s \in SeenScripts(tx) THEN txCount[s] + 1 ELSE txCount[s]
    BY DEF TxCountByAddress
  <2>5. CASE s \in SeenScripts(tx)
    <3>1. PartOf(s)' = PartOf(s) \cup {n}
      BY <1>3, <2>5
    <3>. QED BY <2>1, <2>3, <2>4, <2>5, <3>1
  <2>6. CASE s \notin SeenScripts(tx)
    <3>1. PartOf(s)' = PartOf(s)
      BY <1>3, <2>6
    <3>. QED BY <2>1, <2>4, <2>6, <3>1
  <2>. QED BY <2>5, <2>6
<1>5. txCount' = [s \in Script |-> txCount'[s]]
  BY DEF TxCountByAddress
<1>. QED BY <1>4, <1>5 DEF TxCountExact, PartOf

\* One transaction through all the indexers and update_utxo_set.
LEMMA ProcessTxStep ==
  ASSUME IInv, NEW tx \in Tx, tx.ins \subseteq DOMAIN utxos, tx.height = height, ProcessTx(tx)
  PROVE  IInv'
<1>1. Appended(tx) /\ height' = height
  BY DEF Appended, ProcessTx, IInv, UtxoInv
<1>2. TxCountExact' /\ txCount' \in [Script -> Nat]
  BY <1>1, CountStep DEF ProcessTx
<1>3. TypeInv'
  BY <1>1, <1>2, AppendChain DEF TypeInv, IInv
<1>4. PICK n : n = Len(chain) + 1
  OBVIOUS
<1>5. OrderInv'
  <2>1. /\ Len(chain) \in Nat /\ Len(chain') = n
        /\ \A i \in 1..Len(chain) : chain'[i] = chain[i]
        /\ chain'[n] = tx
        /\ 1..n = 1..Len(chain) \cup {n}
    BY <1>1, <1>4, AppendChain DEF IInv
  <2>2. AllRefs \subseteq AllRefs'
    BY <1>1, <1>4, AppendRefs DEF IInv
  <2>3. \A r \in AllRefs : OutputOf(r)' = OutputOf(r)
    BY <1>1, AppendKeeps DEF IInv
  <2>4. ASSUME NEW i \in 1..Len(chain)
        PROVE  /\ chain'[i].height <= height'
               /\ \A r \in chain'[i].ins : /\ r \in AllRefs' /\ r[1] < i
                                            /\ OutputOf(r)' \notin OpReturn
    BY <1>1, <2>1, <2>2, <2>3, <2>4 DEF IInv, OrderInv
  <2>5. /\ chain'[n].height <= height'
        /\ \A r \in chain'[n].ins : /\ r \in AllRefs' /\ r[1] < n
                                     /\ OutputOf(r)' \notin OpReturn
    <3>1. \A r \in tx.ins : /\ r \in AllRefs /\ r[1] \in 1..Len(chain)
                            /\ OutputOf(r) \notin OpReturn
      BY <1>1, InputsKnown, AppendKeeps DEF IInv, Unspent
    <3>2. height \in Nat
      BY DEF IInv, TypeInv
    <3>. QED BY <1>1, <1>4, <2>1, <2>2, <2>3, <3>1, <3>2
  <2>. QED BY <2>1, <2>4, <2>5 DEF OrderInv
<1>6. UtxoInv' /\ RowsInv' /\ CharmInv'
  BY <1>1, UtxoStep, AddressStep, CharmsStep DEF ProcessTx
<1>. QED BY <1>2, <1>3, <1>5, <1>6 DEF IInv

----------------------------------------------------------------------------
(* The theorems.                                                           *)

\* The empty tables satisfy the invariant.
LEMMA InitIInv == Init => IInv
<1> SUFFICES ASSUME Init PROVE IInv
  OBVIOUS
<1>1. chain = <<>> /\ DOMAIN chain = {} /\ Len(chain) = 0
  BY DEF Init
<1>2. AllRefs = {} /\ SpentRefs = {}
  BY <1>1 DEF AllRefs, SpentRefs
<1>3. Live = {} /\ Unspent = {} /\ Holding = {} /\ Shown = {}
  BY <1>2 DEF Live, Unspent, Holding, Shown
<1>4. TypeInv /\ OrderInv
  BY <1>1 DEF Init, TypeInv, OrderInv
<1>5. UtxoInv /\ RowsInv /\ CharmInv
  BY <1>3 DEF Init, UtxoInv, RowsInv, CharmInv
<1>6. TxCountExact
  <2> SUFFICES ASSUME NEW s \in Script PROVE txCount[s] = Cardinality(PartOf(s))
    BY DEF TxCountExact, PartOf
  <2>1. PartOf(s) = {}
    BY <1>1 DEF PartOf
  <2>. QED BY <2>1, FS_EmptySet DEF Init
<1>. QED BY <1>4, <1>5, <1>6 DEF IInv

\* A new block changes the height only.
LEMMA SameChain ==
  ASSUME IInv, height' \in Nat, height' >= height,
         UNCHANGED <<chain, utxos, byAddress, txCount, charmsByScript, charmsByApp>>
  PROVE  IInv'
<1>1. /\ AllRefs' = AllRefs /\ SpentRefs' = SpentRefs /\ Unspent' = Unspent /\ Live' = Live
      /\ \A r : /\ OutputOf(r)' = OutputOf(r) /\ MadeAt(r)' = MadeAt(r)
                /\ Marks(r)' = Marks(r) /\ Gives(r)' = Gives(r)
  BY DEF AllRefs, SpentRefs, Unspent, Live, OutputOf, MadeAt, Marks, Gives
<1>2. /\ Holding' = Holding /\ Shown' = Shown
      /\ \A r : RowOf(r)' = RowOf(r) /\ AppRows(r)' = AppRows(r)
  BY <1>1 DEF Holding, Shown, RowOf, AppRows
<1>3. TypeInv'
  BY DEF IInv, TypeInv
<1>4. OrderInv'
  <2>1. \A i \in 1..Len(chain) : chain[i].height \in Nat
    <3>1. \A i \in 1..Len(chain) : chain[i] \in Tx
      BY DEF IInv, TypeInv
    <3>. QED BY <3>1 DEF Tx
  <2>. QED BY <1>1, <2>1 DEF IInv, TypeInv, OrderInv
<1>5. UtxoInv' /\ RowsInv' /\ CharmInv'
  BY <1>1, <1>2 DEF IInv, UtxoInv, RowsInv, CharmInv
<1>6. TxCountExact'
  BY <1>1 DEF IInv, TxCountExact
<1>. QED BY <1>3, <1>4, <1>5, <1>6 DEF IInv

\* Every step keeps the invariant.
LEMMA NextIInv == IInv /\ [Next]_vars => IInv'
<1> SUFFICES ASSUME IInv, [Next]_vars PROVE IInv'
  OBVIOUS
<1>1. ASSUME NEW shape \in Template, NEW ins \in SUBSET DOMAIN utxos, IndexTx(shape, ins)
      PROVE  IInv'
  <2>. DEFINE tx == [ins |-> ins, outs |-> shape.outs, spell |-> shape.spell, height |-> height]
  <2>1. ProcessTx(tx)
    BY <1>1 DEF IndexTx
  <2>2. ins \subseteq Nat \X Nat
    <3>1. ins \subseteq AllRefs
      BY DEF IInv, UtxoInv, Unspent
    <3>2. \A r \in AllRefs : r \in Nat \X Nat
      <4>1. Len(chain) \in Nat /\ \A i \in 1..Len(chain) : Len(chain[i].outs) \in Nat
        <5>1. \A i \in 1..Len(chain) : chain[i] \in Tx
          BY DEF IInv, TypeInv
        <5>2. \A i \in 1..Len(chain) : chain[i].outs \in Seq(Script)
          BY <5>1 DEF Tx
        <5>. QED BY <5>2 DEF IInv, TypeInv
      <4>. QED BY <4>1, RefShape DEF RefsOf, IInv
    <3>. QED BY <3>1, <3>2
  <2>3. tx \in Tx
    BY <2>2, TemplateAssumption DEF Tx, IInv, TypeInv
  <2>4. tx.ins \subseteq DOMAIN utxos /\ tx.height = height
    OBVIOUS
  <2> HIDE DEF tx
  <2>. QED BY <2>1, <2>3, <2>4, ProcessTxStep
<1>2. CASE NextBlock
  <2>1. /\ height' = height + 1 /\ height \in Nat
        /\ UNCHANGED <<chain, utxos, byAddress, txCount, charmsByScript, charmsByApp>>
    BY <1>2 DEF NextBlock, IInv, TypeInv
  <2>2. height' \in Nat /\ height' >= height
    BY <2>1
  <2>. QED BY <2>1, <2>2, SameChain
<1>3. CASE UNCHANGED vars
  <2>1. /\ height' = height /\ height \in Nat
        /\ UNCHANGED <<chain, utxos, byAddress, txCount, charmsByScript, charmsByApp>>
    BY <1>3 DEF vars, IInv, TypeInv
  <2>2. height' \in Nat /\ height' >= height
    BY <2>1
  <2>. QED BY <2>1, <2>2, SameChain
<1>. QED BY <1>1, <1>2, <1>3 DEF Next

\* The invariant holds.
LEMMA Invariance == Spec => []IInv
BY InitIInv, NextIInv, PTL DEF Spec

\* A script's rows are its unspent outputs at the height they were made: every
\* row is found again when its output is spent (UtxosByAddressIndexer).
THEOREM AddressRows == Spec => []AddressRowsExact
<1>1. IInv => AddressRowsExact
  <2> SUFFICES ASSUME IInv PROVE AddressRowsExact
    OBVIOUS
  <2>1. byAddress = {RowOf(r) : r \in Live}
    BY DEF IInv, RowsInv
  <2>2. \A r : RowOf(r).ref = r
    BY RowFacts DEF RowOf
  <2>3. Listed(byAddress) = {RowOf(r) : r \in Unspent}
    BY <2>1, <2>2 DEF Listed, Live, Unspent
  <2>. QED BY <2>3 DEF AddressRowsExact, RowOf, MadeAt
<1>. QED BY <1>1, Invariance, PTL

\* The count of a script is the number of transactions that pay it or spend an
\* output of it, each counted once (TxCountByAddressIndexer).
THEOREM TxCounts == Spec => []TxCountExact
<1>1. IInv => TxCountExact
  BY DEF IInv
<1>. QED BY <1>1, Invariance, PTL

\* What was spent was made, and is not an OP_RETURN output.
LEMMA SpentKnown ==
  ASSUME IInv, NEW r \in SpentRefs
  PROVE  r \in AllRefs /\ OutputOf(r) \notin OpReturn /\ r \notin Live /\ r \notin Unspent
BY DEF IInv, TypeInv, OrderInv, SpentRefs, Live, Unspent

\* The rows by script are those of live marked outputs and of left-over ones.
LEMMA ShownSplit ==
  ASSUME IInv
  PROVE  Shown = Holding \cup LeftOver
<1> SUFFICES ASSUME NEW r PROVE r \in Shown <=> r \in Holding \/ r \in LeftOver
  OBVIOUS
<1>1. r \in SpentRefs => r \in AllRefs /\ r \notin Live
  BY SpentKnown
<1>2. r \in Live <=> r \in AllRefs /\ r \notin SpentRefs
  BY DEF Live
<1>. QED BY <1>1, <1>2 DEF Shown, Holding, LeftOver

\* The charms tables list the unspent outputs a spell marked, and no other but
\* the rows by script of spent outputs marked with no known app, from any start
\* height and for any spell (CharmsIndexer).
THEOREM CharmsTables == Spec => []CharmsTablesAgree
<1>1. IInv => CharmsTablesAgree
  <2> SUFFICES ASSUME IInv PROVE CharmsTablesAgree
    OBVIOUS
  <2>. DEFINE marked == {r \in Unspent : Marks(r)}
  <2>1. /\ marked = {r \in Holding : OutputOf(r) \notin OpReturn}
        /\ LeftOver = {r \in LeftOver : OutputOf(r) \notin OpReturn}
    BY SpentKnown DEF Holding, Live, Unspent, LeftOver
  <2>2. /\ charmsByScript = {RowOf(r) : r \in Holding \cup LeftOver}
        /\ charmsByApp = UNION {AppRows(r) : r \in Holding}
    BY ShownSplit DEF IInv, CharmInv
  <2>3. \A r : RowOf(r).ref = r /\ \A w \in AppRows(r) : w.ref = r
    BY RowFacts DEF RowOf, AppRows
  <2> HIDE DEF marked
  <2>4. Listed(charmsByScript) = {RowOf(r) : r \in marked \cup LeftOver}
    BY <2>1, <2>2, <2>3 DEF Listed
  <2>5. Listed(charmsByApp) = UNION {AppRows(r) : r \in marked}
    BY <2>1, <2>2, <2>3 DEF Listed
  <2>. QED BY <2>4, <2>5 DEF CharmsTablesAgree, RowOf, AppRows, marked
<1>. QED BY <1>1, Invariance, PTL

----------------------------------------------------------------------------
(* The routes.                                                             *)

\* The outputs of payable scripts can be spent, and the table has their charms.
LEMMA PayableKnown ==
  ASSUME IInv, NEW r \in Live, OutputOf(r) \notin OpReturn
  PROVE  /\ r \in DOMAIN utxos /\ r \in Unspent
         /\ OutputOf(r) \in Payable
         /\ utxos[r].marked = Marks(r) /\ utxos[r].charms = Gives(r)
         /\ r[1] \in DOMAIN chain /\ OutputOf(r) \in ToSet(chain[r[1]].outs)
<1>1. r \in Unspent
  BY DEF Live, Unspent
<1>2. r[1] \in 1..Len(chain) /\ r[2] \in 1..Len(chain[r[1]].outs)
  BY RefShape DEF Live, IInv
<1>3. chain[r[1]] \in Tx
  BY <1>2 DEF IInv, TypeInv
<1>4. chain[r[1]].outs \in Seq(Script)
  BY <1>3 DEF Tx
<1>5. /\ OutputOf(r) \in Script
      /\ OutputOf(r) \in ToSet(chain[r[1]].outs)
  BY <1>2, <1>4 DEF OutputOf, ToSet
<1>6. DOMAIN chain = 1..Len(chain)
  BY DEF IInv, TypeInv
<1>. QED BY <1>1, <1>2, <1>5, <1>6 DEF IInv, UtxoInv, Payable

\* What a request about the charms of a payable script finds: its live marked
\* outputs, unless one of its rows is left over, and then it is an error.
LEMMA CharmUtxosListed ==
  ASSUME IInv, NEW script \in Payable
  PROVE  /\ (\E r \in LeftOver : OutputOf(r) = script) => AllCharmUtxos(script) = Internal
         /\ ~(\E r \in LeftOver : OutputOf(r) = script) =>
              AllCharmUtxos(script) =
                Answer({CharmsAt(r) : r \in {q \in Holding : OutputOf(q) = script}})
<1>. DEFINE found == RowsOf(charmsByScript, script)
            mine == {q \in Holding : OutputOf(q) = script}
            left == {q \in LeftOver : OutputOf(q) = script}
<1>1. \A r : RowOf(r).ref = r /\ RowOf(r).of = OutputOf(r) /\ RowOf(r).height = MadeAt(r)
  BY RowFacts DEF RowOf
<1>2. found = {RowOf(r) : r \in mine \cup left}
  BY <1>1, ShownSplit DEF RowsOf, IInv, CharmInv
<1>3. \A r \in mine : r \in DOMAIN utxos /\ utxos[r].marked /\ utxos[r].charms = Gives(r)
  BY PayableKnown DEF Holding, Payable
<1>4. \A r \in left : r \notin DOMAIN utxos
  BY SpentKnown DEF LeftOver, IInv, UtxoInv
<1>5. \A r \in mine : CharmUtxo(RowOf(r)) = CharmsAt(r)
  BY <1>1, <1>3 DEF CharmUtxo, CharmsAt
<1> HIDE DEF found, mine, left
<1>6. WithCharms(found) <=> left = {}
  BY <1>1, <1>2, <1>3, <1>4 DEF WithCharms
<1>7. left = {} => {CharmUtxo(w) : w \in found} = {CharmsAt(r) : r \in mine}
  BY <1>2, <1>5
<1>8. AllCharmUtxos(script) =
        IF WithCharms(found) THEN Answer({CharmUtxo(w) : w \in found}) ELSE Internal
  BY DEF AllCharmUtxos, found
<1>9. left = {} <=> ~(\E r \in LeftOver : OutputOf(r) = script)
  BY DEF left
<1>. QED BY <1>6, <1>7, <1>8, <1>9 DEF mine

\* A charm is found at the unspent outputs a spell gave it.
LEMMA HoldersKnown ==
  ASSUME IInv, NEW app
  PROVE  Holders(app) = {r \in Unspent : app \in Gives(r)}
<1>1. \A r : CharmValueAtUtxo(app, r).status = 200 <=>
               r \in DOMAIN utxos /\ utxos[r].marked /\ app \in utxos[r].charms
  BY DEF CharmValueAtUtxo, Answer, NotFound
<1>2. \A r : app \in Gives(r) => Marks(r)
  BY DEF Gives
<1>. QED BY <1>1, <1>2 DEF Holders, IInv, UtxoInv, Unspent

\* The rows of an app are those of the outputs where it is found and of the
\* OP_RETURN outputs it was given to; only the former are in the table of outputs.
LEMMA AppRowsKnown ==
  ASSUME IInv, NEW app
  PROVE  /\ RowsOf(charmsByApp, app) =
              {Row(app, MadeAt(r), r) : r \in Holders(app) \cup Sealed(app)}
         /\ \A r \in Sealed(app) : r \notin DOMAIN utxos
         /\ \A r \in Holders(app) : /\ r \in DOMAIN utxos /\ utxos[r].marked
                                     /\ utxos[r].charms = Gives(r)
<1>. DEFINE given == Holders(app) \cup Sealed(app)
            found == RowsOf(charmsByApp, app)
<1>1. Holders(app) = {r \in Unspent : app \in Gives(r)}
  BY HoldersKnown
<1>2. ASSUME NEW r PROVE r \in given <=> r \in Live /\ app \in Gives(r)
  <2>1. r \in Sealed(app) <=> r \in AllRefs /\ OutputOf(r) \in OpReturn /\ app \in Gives(r)
    BY DEF Sealed
  <2>2. r \in SpentRefs => OutputOf(r) \notin OpReturn
    BY SpentKnown
  <2>. QED BY <1>1, <2>1, <2>2 DEF Live, Unspent
<1>3. \A r : app \in Gives(r) => Marks(r)
  BY DEF Gives
<1> HIDE DEF given
<1>4. ASSUME NEW w \in found
      PROVE  \E r \in given : w = Row(app, MadeAt(r), r)
  <2>1. PICK r \in Holding : w \in AppRows(r)
    BY <1>4 DEF RowsOf, IInv, CharmInv
  <2>2. PICK a \in Gives(r) : w = Row(a, MadeAt(r), r)
    BY <2>1 DEF AppRows
  <2>3. a = app
    BY <1>4, <2>2, RowFacts DEF RowsOf
  <2>. QED BY <1>2, <2>1, <2>2, <2>3 DEF Holding
<1>5. ASSUME NEW r \in given PROVE Row(app, MadeAt(r), r) \in found
  <2>1. r \in Holding /\ Row(app, MadeAt(r), r) \in AppRows(r)
    BY <1>2, <1>3, <1>5 DEF Holding, AppRows
  <2>2. Row(app, MadeAt(r), r) \in charmsByApp
    BY <2>1 DEF IInv, CharmInv
  <2>. QED BY <2>2, RowFacts DEF RowsOf
<1> HIDE DEF found
<1>6. found = {Row(app, MadeAt(r), r) : r \in given}
  BY <1>4, <1>5
<1>7. \A r \in Sealed(app) : r \notin DOMAIN utxos
  BY DEF Sealed, IInv, UtxoInv, Unspent
<1>8. \A r \in Holders(app) : r \in DOMAIN utxos /\ utxos[r].marked /\ utxos[r].charms = Gives(r)
  BY <1>1, <1>3 DEF IInv, UtxoInv
<1>. QED BY <1>6, <1>7, <1>8 DEF found, given

\* charm_latest answers with the newest of those outputs, an error if that is an
\* OP_RETURN output, or finds none.
LEMMA LatestListed ==
  ASSUME IInv, NEW app, NEW given, given = Holders(app) \cup Sealed(app)
  PROVE  CharmLatest(app) =
           IF given = {} THEN {NotFound}
           ELSE {IF r \in Sealed(app) THEN Internal ELSE Answer(CharmsAt(r)) : r \in Newest(given)}
<1>. DEFINE found == RowsOf(charmsByApp, app)
            said(w) == IF WithCharms({w}) THEN Answer(CharmUtxo(w)) ELSE Internal
            told(r) == IF r \in Sealed(app) THEN Internal ELSE Answer(CharmsAt(r))
            row(r) == Row(app, MadeAt(r), r)
<1>1. found = {row(r) : r \in given}
  BY AppRowsKnown
<1>2. \A r : row(r).ref = r /\ row(r).height = MadeAt(r)
  BY RowFacts
<1>3. ASSUME NEW r \in given PROVE said(row(r)) = told(r)
  <2>1. CASE r \in Sealed(app)
    BY <1>2, <2>1, AppRowsKnown DEF WithCharms
  <2>2. CASE r \notin Sealed(app)
    <3>1. r \in DOMAIN utxos /\ utxos[r].marked /\ utxos[r].charms = Gives(r)
      BY <1>3, <2>2, AppRowsKnown
    <3>2. WithCharms({row(r)}) /\ CharmUtxo(row(r)) = CharmsAt(r)
      BY <1>2, <3>1 DEF WithCharms, CharmUtxo, CharmsAt
    <3>. QED BY <2>2, <3>2
  <2>. QED BY <2>1, <2>2
<1>4. CharmLatest(app) = IF found = {} THEN {NotFound} ELSE {said(w) : w \in Latest(found)}
  BY DEF CharmLatest
<1> HIDE DEF found, said, told, row
<1>5. Latest(found) = {row(r) : r \in Newest(given)}
  BY <1>1, <1>2 DEF Latest, Newest
<1>6. {said(w) : w \in Latest(found)} = {told(r) : r \in Newest(given)}
  BY <1>3, <1>5 DEF Newest
<1>7. found = {} <=> given = {}
  BY <1>1
<1>. QED BY <1>4, <1>6, <1>7 DEF told

\* The routes tell one story (charm_latest, charm_value_at_utxo,
\* addresses_all_charm_utxos, addresses_specific_charm_utxos,
\* addresses_utxos_by_address, addresses_tx_count_by_address), for every chain
\* and every spell, the requests that end in an error included.
THEOREM CharmRoutesAgree == Spec => []RoutesAgree
<1>1. IInv => RoutesAgree
  <2> SUFFICES ASSUME IInv PROVE RoutesAgree
    OBVIOUS
  <2>. DEFINE All(script) == UtxosByAddressRoute(script).data
              Left(script) == \E r \in LeftOver : OutputOf(r) = script
              Mine(script, app) == {q \in Holders(app) : OutputOf(q) = script}
  <2>1. \A app \in App :
          LET given == Holders(app) \cup Sealed(app)
          IN  CharmLatest(app) =
                IF given = {} THEN {NotFound}
                ELSE {IF r \in Sealed(app) THEN Internal ELSE Answer(CharmsAt(r)) : r \in Newest(given)}
    BY LatestListed
  <2>2. ASSUME NEW script \in Payable, NEW app
        PROVE  /\ Left(script) => SpecificCharmUtxos(script, app) = Internal
               /\ ~Left(script) => SpecificCharmUtxos(script, app) =
                                     Answer({CharmsAt(r) : r \in Mine(script, app)})
    <3>1. CASE Left(script)
      <4>1. AllCharmUtxos(script) = Internal
        BY <2>2, <3>1, CharmUtxosListed
      <4>2. Internal.status # 200
        BY DEF Internal
      <4>3. SpecificCharmUtxos(script, app) = Internal
        BY <4>1, <4>2 DEF SpecificCharmUtxos
      <4>. QED BY <3>1, <4>3
    <3>2. CASE ~Left(script)
      <4>. DEFINE shown == {CharmsAt(r) : r \in {q \in Holding : OutputOf(q) = script}}
      <4>1. AllCharmUtxos(script) = Answer(shown)
        BY <2>2, <3>2, CharmUtxosListed
      <4>2. SpecificCharmUtxos(script, app) = Answer({u \in shown : app \in u.charms})
        BY <4>1 DEF SpecificCharmUtxos, Answer
      <4>3. \A r : CharmsAt(r).charms = Gives(r)
        BY DEF CharmsAt
      <4>4. ASSUME NEW q
            PROVE  q \in Mine(script, app) <=>
                     q \in Holding /\ OutputOf(q) = script /\ app \in Gives(q)
        BY HoldersKnown DEF Holding, Live, Unspent, Payable, Gives
      <4>5. {u \in shown : app \in u.charms} = {CharmsAt(r) : r \in Mine(script, app)}
        BY <4>3, <4>4
      <4>. QED BY <3>2, <4>2, <4>5
    <3>. QED BY <3>1, <3>2
  <2>3. ASSUME NEW script \in Payable
        PROVE  LET all == All(script) IN
               /\ Cardinality({u.ref[1] : u \in all}) <= TxCountRoute(script).data
               /\ ~Left(script) =>
                    {[ref |-> u.ref, height |-> u.height] : u \in AllCharmUtxos(script).data}
                      \subseteq all
    <3>. DEFINE mine == {q \in Live : OutputOf(q) = script}
                found == RowsOf(byAddress, script)
                all == All(script)
                at(r) == [ref |-> r, height |-> MadeAt(r)]
    <3>1. \A r : RowOf(r).ref = r /\ RowOf(r).of = OutputOf(r) /\ RowOf(r).height = MadeAt(r)
      BY RowFacts DEF RowOf
    <3>2. found = {RowOf(r) : r \in mine}
      BY <3>1 DEF RowsOf, IInv, RowsInv
    <3>3. \A r \in mine : /\ r \in DOMAIN utxos
                          /\ r[1] \in DOMAIN chain
                          /\ script \in ToSet(chain[r[1]].outs)
      BY PayableKnown DEF Payable
    <3>4. \A w \in found : w.ref \in DOMAIN utxos
      BY <3>1, <3>2, <3>3
    <3>5. all = {[ref |-> w.ref, height |-> w.height] : w \in found}
      BY <2>3, <3>4 DEF UtxosByAddressRoute, Answer
    <3>6. all = {at(r) : r \in mine}
      <4> HIDE DEF mine, found
      <4>. QED BY <3>1, <3>2, <3>5
    <3>7. ASSUME ~Left(script)
          PROVE  {[ref |-> u.ref, height |-> u.height] : u \in AllCharmUtxos(script).data}
                   \subseteq all
      <4>1. AllCharmUtxos(script).data = {CharmsAt(r) : r \in {q \in Holding : OutputOf(q) = script}}
        BY <3>7, CharmUtxosListed DEF Answer
      <4>2. \A r : CharmsAt(r).ref = r /\ CharmsAt(r).height = MadeAt(r)
        BY DEF CharmsAt
      <4>. QED BY <3>6, <4>1, <4>2 DEF Holding
    <3>8. {u.ref[1] : u \in all} \in SUBSET PartOf(script)
      BY <3>3, <3>6 DEF PartOf
    <3>9. IsFiniteSet(PartOf(script))
      <4>1. Len(chain) \in Nat /\ PartOf(script) \in SUBSET (1..Len(chain))
        BY DEF PartOf, IInv, TypeInv
      <4>2. IsFiniteSet(1..Len(chain))
        BY <4>1, FS_Interval
      <4>. QED BY <4>1, <4>2, FS_Subset
    <3>10. TxCountRoute(script).data = Cardinality(PartOf(script))
      BY DEF TxCountRoute, Answer, IInv, TxCountExact, PartOf, Payable
    <3>11. Cardinality({u.ref[1] : u \in all}) <= Cardinality(PartOf(script))
      BY <3>8, <3>9, FS_Subset
    <3> HIDE DEF all
    <3>12. /\ Cardinality({u.ref[1] : u \in all}) <= TxCountRoute(script).data
           /\ ~Left(script) =>
                {[ref |-> u.ref, height |-> u.height] : u \in AllCharmUtxos(script).data}
                  \subseteq all
      BY <3>7, <3>10, <3>11
    <3>. QED BY <3>12, Zenon DEF all
  <2>4. ASSUME NEW script \in Payable, Left(script), NEW app \in App
        PROVE  {AllCharmUtxos(script), SpecificCharmUtxos(script, app)} = {Internal}
    <3>1. AllCharmUtxos(script) = Internal
      BY <2>4, CharmUtxosListed
    <3>. QED BY <2>2, <2>4, <3>1
  <2>5. ASSUME NEW script \in Payable
        PROVE  LET all == All(script) IN
               /\ Cardinality({u.ref[1] : u \in all}) <= TxCountRoute(script).data
               /\ IF Left(script)
                  THEN \A app \in App :
                         {AllCharmUtxos(script), SpecificCharmUtxos(script, app)} = {Internal}
                  ELSE /\ {[ref |-> u.ref, height |-> u.height] : u \in AllCharmUtxos(script).data}
                            \subseteq all
                       /\ \A app \in App : SpecificCharmUtxos(script, app) =
                            Answer({CharmsAt(r) : r \in Mine(script, app)})
    <3> HIDE DEF Left, Mine, All
    <3>1. CASE Left(script)
      BY <2>3, <2>4, <3>1, Zenon
    <3>2. CASE ~Left(script)
      BY <2>2, <2>3, <3>2, Zenon
    <3>. QED BY <3>1, <3>2
  <2>. QED BY <2>1, <2>5, Zenon DEF RoutesAgree
<1>. QED BY <1>1, Invariance, PTL
=============================================================================
