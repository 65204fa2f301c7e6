---------------------------- MODULE UtxosProofs ----------------------------
(***************************************************************************)
(* Theorems about Utxos: the table is the set of unspent outputs, the      *)
(* cache never disagrees with it, and every input is resolved, for any     *)
(* tree of valid blocks and snapshots.                                     *)
(***************************************************************************)
EXTENDS Utxos, NatOrder

\* What a table, the cache and the resolver hold of an output.
Value == [height : Nat, data : Block \cup Snapshot] \cup {Absent}

\* Functions on some of the outputs.
Part == UNION {[D -> Value] : D \in SUBSET Ref}

TaskState == [seen : Part, resolver : Part, writes : Part, cache : Part]

Transaction == [ins : SUBSET Ref, outs : SUBSET Ref]
Transactions == Seq(Transaction)

----------------------------------------------------------------------------
(* Partial functions.                                                      *)

\* A partial function, by its domain and values.
LEMMA PartFacts ==
  ASSUME NEW f \in Part
  PROVE  /\ DOMAIN f \subseteq Ref
         /\ \A r \in DOMAIN f : f[r] \in Value
         /\ f = [r \in DOMAIN f |-> f[r]]
<1>1. PICK D \in SUBSET Ref : f \in [D -> Value]
  BY DEF Part
<1>. QED BY <1>1

\* A function with values on some outputs is one.
LEMMA PartMade ==
  ASSUME NEW D, D \subseteq Ref, NEW f \in [D -> Value]
  PROVE  f \in Part
BY DEF Part

\* With and Without keep them so.
LEMMA PartClosed ==
  ASSUME NEW f \in Part, NEW g \in Part, NEW S
  PROVE  /\ With(f, g) \in Part
         /\ Without(f, S) \in Part
<1>1. /\ DOMAIN f \subseteq Ref /\ \A r \in DOMAIN f : f[r] \in Value
      /\ DOMAIN g \subseteq Ref /\ \A r \in DOMAIN g : g[r] \in Value
  BY PartFacts
<1>2. With(f, g) \in [DOMAIN f \cup DOMAIN g -> Value]
  BY <1>1 DEF With
<1>3. Without(f, S) \in [DOMAIN f \ S -> Value]
  BY <1>1 DEF Without
<1>. QED BY <1>1, <1>2, <1>3, PartMade

----------------------------------------------------------------------------
(* The reference definitions satisfy their own equations.                  *)

\* The blocks form a tree.
LEMMA ChainIsTree == Tree(Block, Genesis, Prev, Height)
BY ChainAssumption DEF Tree

\* The inputs and outputs of typed transactions are outputs.
LEMMA TxsTyped ==
  ASSUME NEW txs \in Transactions
  PROVE  /\ Inputs(txs) \subseteq Ref /\ Produced(txs) \subseteq Ref
         /\ Len(txs) \in Nat
         /\ \A i \in 1..Len(txs) : /\ txs[i].ins \subseteq Ref /\ txs[i].outs \subseteq Ref
                                   /\ txs[i].ins \subseteq Inputs(txs)
                                   /\ txs[i].outs \subseteq Produced(txs)
         /\ \A r \in Inputs(txs) : \E i \in 1..Len(txs) : r \in txs[i].ins
         /\ \A r \in Produced(txs) : \E i \in 1..Len(txs) : r \in txs[i].outs
<1>1. /\ Len(txs) \in Nat
      /\ \A i \in 1..Len(txs) : txs[i] \in Transaction
  BY DEF Transactions
<1>2. \A i \in 1..Len(txs) : txs[i].ins \subseteq Ref /\ txs[i].outs \subseteq Ref
  BY <1>1 DEF Transaction
<1>3. \A r : r \in Inputs(txs) <=> \E i \in 1..Len(txs) : r \in txs[i].ins
  BY DEF Inputs
<1>4. \A r : r \in Produced(txs) <=> \E i \in 1..Len(txs) : r \in txs[i].outs
  BY DEF Produced
<1>. QED BY <1>1, <1>2, <1>3, <1>4

\* One step of UtxoSet: what block b leaves of the outputs f.
AfterBlock(b, f) ==
  [r \in Ref |->
     IF r \in Inputs(Txs(b)) \cup Unspendable THEN Absent
     ELSE IF r \in Produced(Txs(b)) THEN [height |-> Height[b], data |-> b]
     ELSE f[r]]

NoUtxo == [r \in Ref |-> Absent]

\* UtxoSet satisfies its own equation.
LEMMA UtxoSetSteps ==
  /\ UtxoSet \in [Block -> [Ref -> Value]]
  /\ UtxoSet[Genesis] = NoUtxo
  /\ \A b \in Block \ {Genesis} : UtxoSet[b] = AfterBlock(b, UtxoSet[Prev[b]])
<1>. DEFINE S == [Ref -> Value]
            g == [b \in Block |-> [f \in S |-> AfterBlock(b, f)]]
            Body(e) == [b \in Block |-> IF b = Genesis THEN NoUtxo ELSE AfterBlock(b, e[Prev[b]])]
<1>1. NoUtxo \in S
  BY DEF NoUtxo, Value
<1>2. ASSUME NEW b \in Block, NEW f \in S PROVE AfterBlock(b, f) \in S
  <2>1. [height |-> Height[b], data |-> b] \in Value
    BY ChainAssumption DEF Value
  <2>2. Absent \in Value
    BY DEF Value
  <2>. QED BY <2>1, <2>2 DEF AfterBlock
<1>. HIDE DEF S
<1>3. g \in [Block -> [S -> S]]
  BY <1>2
<1>4. PICK f : Recursion(f, Block, Genesis, Prev, S, NoUtxo, g)
  <2>. HIDE DEF g
  <2>. QED BY <1>1, <1>3, ChainIsTree, TreeRecursion
<1>5. f = Body(f)
  <2>1. ASSUME NEW b \in Block PROVE f[b] = Body(f)[b]
    <3>1. b # Genesis => f[Prev[b]] \in S
      BY <1>4, ChainAssumption DEF Recursion
    <3>. QED BY <1>4, <3>1 DEF Recursion
  <2>2. f = [b \in Block |-> f[b]] /\ Body(f) = [b \in Block |-> Body(f)[b]]
    BY <1>4 DEF Recursion
  <2>. HIDE DEF Body
  <2>. QED BY <2>1, <2>2
<1>6. UtxoSet = CHOOSE e : e = Body(e)
  BY Zenon DEF UtxoSet, AfterBlock, NoUtxo
<1>7. UtxoSet = Body(UtxoSet)
  <2>. HIDE DEF Body
  <2>. QED BY <1>5, <1>6, Zenon
<1>8. \A b \in Block : UtxoSet[b] = IF b = Genesis THEN NoUtxo ELSE AfterBlock(b, UtxoSet[Prev[b]])
  BY <1>7
<1>9. DOMAIN UtxoSet = Block
  BY <1>7
<1>10. \A b \in Block : UtxoSet[b] \in S
  <2>. DEFINE P == {b \in Block : UtxoSet[b] \in S}
  <2>1. Genesis \in P
    BY <1>1, <1>8, ChainAssumption
  <2>2. \A b \in Block \ {Genesis} : Prev[b] \in P => b \in P
    BY <1>2, <1>8
  <2>. HIDE DEF P
  <2>3. \A b \in Block : b \in P
    BY <2>1, <2>2, ChainIsTree, TreeInduction
  <2>. QED BY <2>3 DEF P
<1>11. UtxoSet \in [Block -> S]
  <2>1. UtxoSet = [b \in Block |-> UtxoSet[b]]
    <3>. HIDE DEF Body
    <3>1. Body(UtxoSet) = [b \in Block |-> Body(UtxoSet)[b]]
      BY DEF Body
    <3>. QED BY <1>7, <3>1
  <2>. QED BY <1>10, <2>1
<1>. QED BY <1>8, <1>11, ChainAssumption DEF S

\* EverProduced satisfies its own equation, and no output is unspent that was
\* never produced.
LEMMA EverProducedSteps ==
  /\ EverProduced[Genesis] = {}
  /\ \A b \in Block \ {Genesis} :
       EverProduced[b] = EverProduced[Prev[b]] \cup Produced(Txs(b))
  /\ \A b \in Block : \A r \in Ref : UtxoSet[b][r] # Absent => r \in EverProduced[b]
<1>. DEFINE S == SUBSET Ref
            Step(b, f) == f \cup Produced(Txs(b))
            g == [b \in Block |-> [f \in S |-> IF b = Genesis THEN {} ELSE Step(b, f)]]
            Body(e) == [b \in Block |-> IF b = Genesis THEN {} ELSE Step(b, e[Prev[b]])]
<1>1. {} \in S
  OBVIOUS
<1>2. ASSUME NEW b \in Block, b # Genesis, NEW f \in S PROVE Step(b, f) \in S
  <2>1. Txs(b) \in Transactions
    BY <1>2, ValidAssumption DEF Valid, Transactions, Transaction
  <2>. QED BY <2>1, TxsTyped
<1>. HIDE DEF S, Step
<1>3. g \in [Block -> [S -> S]]
  BY <1>1, <1>2
<1>4. PICK f : Recursion(f, Block, Genesis, Prev, S, {}, g)
  <2>. HIDE DEF g
  <2>. QED BY <1>1, <1>3, ChainIsTree, TreeRecursion
<1>5. f = Body(f)
  <2>1. ASSUME NEW b \in Block PROVE f[b] = Body(f)[b]
    <3>1. b # Genesis => f[Prev[b]] \in S
      BY <1>4, ChainAssumption DEF Recursion
    <3>. QED BY <1>4, <3>1 DEF Recursion
  <2>2. f = [b \in Block |-> f[b]] /\ Body(f) = [b \in Block |-> Body(f)[b]]
    BY <1>4 DEF Recursion
  <2>. HIDE DEF Body
  <2>. QED BY <2>1, <2>2
<1>6. EverProduced = CHOOSE e : e = Body(e)
  BY Zenon DEF EverProduced, Step
<1>7. EverProduced = Body(EverProduced)
  <2>. HIDE DEF Body
  <2>. QED BY <1>5, <1>6, Zenon
<1>8. \A b \in Block :
        EverProduced[b] = IF b = Genesis THEN {} ELSE Step(b, EverProduced[Prev[b]])
  BY <1>7
<1>9. \A b \in Block : \A r \in Ref : UtxoSet[b][r] # Absent => r \in EverProduced[b]
  <2>. DEFINE P == {b \in Block : \A r \in Ref : UtxoSet[b][r] # Absent => r \in EverProduced[b]}
  <2>1. Genesis \in P
    BY UtxoSetSteps, ChainAssumption DEF NoUtxo
  <2>2. ASSUME NEW b \in Block \ {Genesis}, Prev[b] \in P PROVE b \in P
    <3>. SUFFICES ASSUME NEW r \in Ref, UtxoSet[b][r] # Absent PROVE r \in EverProduced[b]
      OBVIOUS
    <3>1. EverProduced[b] = Step(b, EverProduced[Prev[b]])
      BY <1>8
    <3>2. UtxoSet[b] = AfterBlock(b, UtxoSet[Prev[b]])
      BY UtxoSetSteps
    <3>3. r \in Produced(Txs(b)) \/ UtxoSet[Prev[b]][r] # Absent
      BY <3>2 DEF AfterBlock
    <3>. QED BY <2>2, <3>1, <3>3 DEF Step
  <2>3. \A b \in Block \ {Genesis} : Prev[b] \in P => b \in P
    BY <2>2
  <2>. HIDE DEF P
  <2>4. \A b \in Block : b \in P
    BY <2>1, <2>3, ChainIsTree, TreeInduction
  <2>. QED BY <2>4 DEF P
<1>. QED BY <1>8, <1>9, ChainAssumption DEF Step

----------------------------------------------------------------------------
(* The task, transaction after transaction.                                *)

\* What a task works on.
TaskInput(txs, t, c, value, mempool) ==
  /\ txs \in Transactions /\ t \in [Ref -> Value] /\ c \in Part
  /\ value \in Value /\ mempool \in BOOLEAN

\* The state of a task before its first transaction.
Started(txs, t, c) ==
  [seen |-> Empty, resolver |-> Resolver(txs, t, c),
   writes |-> Empty, cache |-> CacheAfterResolve(txs, c)]

\* A task starts in a state of the right type.
LEMMA StartedTyped ==
  ASSUME NEW txs, NEW t, NEW c, NEW value, NEW mempool, TaskInput(txs, t, c, value, mempool)
  PROVE  Started(txs, t, c) \in TaskState
<1>1. Empty \in Part
  <2>1. Empty \in [{} -> Value]
    BY DEF Empty
  <2>. QED BY <2>1, PartMade
<1>2. Resolver(txs, t, c) \in Part
  <2>1. Required(txs) \subseteq Ref
    BY TxsTyped DEF TaskInput, Required
  <2>2. \A r \in DOMAIN c : c[r] \in Value
    BY PartFacts DEF TaskInput
  <2>3. Resolver(txs, t, c) \in [Required(txs) -> Value]
    BY <2>1, <2>2 DEF Resolver, TaskInput
  <2>. QED BY <2>1, <2>3, PartMade
<1>3. CacheAfterResolve(txs, c) \in Part
  BY PartClosed DEF CacheAfterResolve, TaskInput
<1>. QED BY <1>1, <1>2, <1>3 DEF Started, TaskState

\* A transaction leads from a state of the right type to another.
LEMMA ProcessedTyped ==
  ASSUME NEW st \in TaskState, NEW tx \in Transaction,
         NEW chained, NEW value \in Value, NEW mempool \in BOOLEAN
  PROVE  Processed(st, tx, chained, value, mempool) \in TaskState
<1>. DEFINE out(S) == [r \in S |-> value]
            spendable == Spendable(tx)
            looked == [r \in tx.ins |-> IF r \in DOMAIN st.resolver THEN st.resolver[r] ELSE Absent]
            gone == [r \in tx.ins |-> Absent]
<1>0. /\ st.seen \in Part /\ st.resolver \in Part /\ st.writes \in Part /\ st.cache \in Part
      /\ tx.ins \subseteq Ref /\ spendable \subseteq Ref /\ Absent \in Value
  BY DEF TaskState, Value, Spendable, Transaction
<1>1. out(spendable \cap chained) \in Part /\ out(spendable \ chained) \in Part
  <2>1. /\ out(spendable \cap chained) \in [spendable \cap chained -> Value]
        /\ out(spendable \ chained) \in [spendable \ chained -> Value]
    OBVIOUS
  <2>. QED BY <1>0, <2>1, PartMade
<1>2. looked \in Part
  <2>1. \A r \in DOMAIN st.resolver : st.resolver[r] \in Value
    BY <1>0, PartFacts
  <2>2. looked \in [tx.ins -> Value]
    BY <1>0, <2>1
  <2>. QED BY <1>0, <2>2, PartMade
<1>3. gone \in Part
  <2>1. gone \in [tx.ins -> Value]
    BY <1>0
  <2>. QED BY <1>0, <2>1, PartMade
<1>4. Processed(st, tx, chained, value, mempool) =
        [seen     |-> With(st.seen, looked),
         resolver |-> With(IF mempool THEN st.resolver ELSE Without(st.resolver, tx.ins),
                           out(spendable \cap chained)),
         writes   |-> With(With(st.writes, gone), out(spendable \ chained)),
         cache    |-> IF mempool THEN st.cache ELSE With(st.cache, out(spendable \ chained))]
  BY DEF Processed, Inserted
<1>. HIDE DEF out, spendable, looked, gone
<1>5. Without(st.resolver, tx.ins) \in Part
  BY <1>0, PartClosed
<1>6. /\ With(st.seen, looked) \in Part
      /\ With(st.resolver, out(spendable \cap chained)) \in Part
      /\ With(Without(st.resolver, tx.ins), out(spendable \cap chained)) \in Part
      /\ With(st.writes, gone) \in Part
      /\ With(st.cache, out(spendable \ chained)) \in Part
  BY <1>0, <1>1, <1>2, <1>3, <1>5, PartClosed
<1>7. With(With(st.writes, gone), out(spendable \ chained)) \in Part
  BY <1>1, <1>6, PartClosed
<1>. QED BY <1>0, <1>4, <1>6, <1>7 DEF TaskState

\* A task satisfies the equation of its own definition.
LEMMA TaskSteps ==
  ASSUME NEW txs, NEW t, NEW c, NEW value, NEW mempool, TaskInput(txs, t, c, value, mempool)
  PROVE  /\ Task(txs, t, c, value, mempool, 0) = Started(txs, t, c)
         /\ \A i \in 1..Len(txs) :
              Task(txs, t, c, value, mempool, i) =
                Processed(Task(txs, t, c, value, mempool, i - 1), txs[i],
                          ChainedTxos(txs), value, mempool)
         /\ \A i \in 0..Len(txs) : Task(txs, t, c, value, mempool, i) \in TaskState
<1>. DEFINE n == Len(txs)
            s == Started(txs, t, c)
            Step(i, st) == Processed(st, txs[i], ChainedTxos(txs), value, mempool)
            g == [i \in 1..n |-> [st \in TaskState |-> Step(i, st)]]
            Body(e) == [i \in 0..n |-> IF i = 0 THEN s ELSE Step(i, e[i - 1])]
            T(i) == Task(txs, t, c, value, mempool, i)
<1>1. s \in TaskState
  BY StartedTyped
<1>2. n \in Nat /\ \A i \in 1..n : txs[i] \in Transaction
  BY DEF TaskInput, Transactions
<1>3. ASSUME NEW i \in 1..n, NEW st \in TaskState PROVE Step(i, st) \in TaskState
  BY <1>2, ProcessedTyped DEF TaskInput
<1>. HIDE DEF n, Step, s
<1>4. g \in [1..n -> [TaskState -> TaskState]]
  BY <1>3
<1>5. PICK f \in [0..n -> TaskState] : Computed(f, n, s, g)
  <2>. HIDE DEF g
  <2>. QED BY <1>1, <1>2, <1>4, RecursionExists
<1>6. f = Body(f)
  <2>0. \A i \in 1..n : i - 1 \in 0..n
    BY <1>2
  <2>1. \A i \in 1..n : f[i - 1] \in TaskState /\ g[i][f[i - 1]] = Step(i, f[i - 1])
    BY <2>0
  <2>2. \A i \in 0..n : i # 0 => i \in 1..n
    BY <1>2
  <2>3. f = [i \in 0..n |-> IF i = 0 THEN s ELSE g[i][f[i - 1]]]
    BY <1>5 DEF Computed
  <2>4. \A i \in 0..n : f[i] = IF i = 0 THEN s ELSE g[i][f[i - 1]]
    BY <2>3
  <2>5. \A i \in 0..n : f[i] = IF i = 0 THEN s ELSE Step(i, f[i - 1])
    <3>. HIDE DEF g
    <3>. QED BY <2>1, <2>2, <2>4
  <2>. QED BY <2>5
<1>7. \E e : e = Body(e)
  BY <1>6
<1>. DEFINE F == CHOOSE e : e = Body(e)
<1>8. F = Body(F)
  <2>. HIDE DEF Body
  <2>. QED BY <1>7, Zenon
<1>9. ASSUME NEW i PROVE T(i) = F[i]
  BY Zenon DEF Task, Step, Started, s, n
<1>. HIDE DEF F, T
<1>10. \A i \in 0..n : F[i] = IF i = 0 THEN s ELSE Step(i, F[i - 1])
  BY <1>8
<1>11. \A i \in 1..n : T(i) = Step(i, T(i - 1))
  <2>1. \A i \in 1..n : i \in 0..n /\ i # 0
    BY <1>2
  <2>. QED BY <1>9, <1>10, <2>1
<1>12. T(0) = s
  BY <1>2, <1>9, <1>10
<1>13. \A i \in 0..n : T(i) \in TaskState
  <2>. DEFINE P == {i \in 0..n : T(i) \in TaskState}
  <2>1. 0 \in P
    BY <1>1, <1>2, <1>12
  <2>2. \A i \in 1..n : i - 1 \in P => i \in P
    BY <1>3, <1>2, <1>11
  <2>. HIDE DEF P
  <2>3. \A i \in 0..n : i \in P
    BY <1>2, <2>1, <2>2, UpTo
  <2>. QED BY <2>3 DEF P
<1>. QED BY <1>11, <1>12, <1>13 DEF n, s, Step, T

\* The inputs and the outputs of the first n transactions, and those of the
\* outputs that are written.
InsTo(txs, n) == UNION {txs[i].ins : i \in 1..n}
OutsTo(txs, n) == UNION {txs[i].outs : i \in 1..n}
WrittenTo(txs, n) == (OutsTo(txs, n) \ Unspendable) \ ChainedTxos(txs)

\* What Valid says of the transactions themselves.
WellFormed(txs) ==
  /\ txs \in Transactions
  /\ \A i \in 1..Len(txs) : \A r \in txs[i].ins \cap Produced(txs) :
       r \notin Unspendable /\ \E j \in 1..(i - 1) : r \in txs[j].outs
  /\ \A i, j \in 1..Len(txs) : i # j => txs[i].ins \cap txs[j].ins = {}

\* A task after n transactions: the inputs seen, the inputs it can still
\* resolve, and what it has to write.
Did(st, txs, t, c, value, n) ==
  /\ DOMAIN st.seen = InsTo(txs, n)
  /\ \A r \in InsTo(txs, n) :
       st.seen[r] = IF r \in Produced(txs) THEN value ELSE Resolver(txs, t, c)[r]
  /\ \A r \in Required(txs) \ InsTo(txs, n) :
       r \in DOMAIN st.resolver /\ st.resolver[r] = Resolver(txs, t, c)[r]
  /\ \A r \in (ChainedTxos(txs) \cap OutsTo(txs, n)) \ InsTo(txs, n) :
       r \in DOMAIN st.resolver /\ st.resolver[r] = value
  /\ DOMAIN st.writes = InsTo(txs, n) \cup WrittenTo(txs, n)
  /\ \A r \in InsTo(txs, n) : st.writes[r] = Absent
  /\ \A r \in WrittenTo(txs, n) : st.writes[r] = value

\* The cache after n transactions.
Caches(st, txs, c, value, mempool, n) ==
  /\ mempool => st.cache = CacheAfterResolve(txs, c)
  /\ ~mempool => /\ DOMAIN st.cache = (DOMAIN c \ Required(txs)) \cup WrittenTo(txs, n)
                 /\ \A r \in WrittenTo(txs, n) : st.cache[r] = value
                 /\ \A r \in (DOMAIN c \ Required(txs)) \ WrittenTo(txs, n) : st.cache[r] = c[r]

\* The first transactions of a list, one at a time.
LEMMA PrefixSteps ==
  ASSUME NEW txs \in Transactions
  PROVE  /\ InsTo(txs, 0) = {} /\ OutsTo(txs, 0) = {}
         /\ \A i \in 1..Len(txs) : /\ InsTo(txs, i) = InsTo(txs, i - 1) \cup txs[i].ins
                                   /\ OutsTo(txs, i) = OutsTo(txs, i - 1) \cup txs[i].outs
         /\ InsTo(txs, Len(txs)) = Inputs(txs) /\ OutsTo(txs, Len(txs)) = Produced(txs)
         /\ \A i \in 0..Len(txs) : /\ InsTo(txs, i) \subseteq Inputs(txs)
                                   /\ OutsTo(txs, i) \subseteq Produced(txs)
         /\ \A i \in 0..Len(txs) : \A r : /\ r \in InsTo(txs, i) <=> \E j \in 1..i : r \in txs[j].ins
                                          /\ r \in OutsTo(txs, i) <=> \E j \in 1..i : r \in txs[j].outs
<1>0. Len(txs) \in Nat
  BY DEF Transactions
<1>1. /\ \A i, r : r \in InsTo(txs, i) <=> \E j \in 1..i : r \in txs[j].ins
      /\ \A i, r : r \in OutsTo(txs, i) <=> \E j \in 1..i : r \in txs[j].outs
  BY DEF InsTo, OutsTo
<1>2. ASSUME NEW i \in 1..Len(txs)
      PROVE  /\ InsTo(txs, i) = InsTo(txs, i - 1) \cup txs[i].ins
             /\ OutsTo(txs, i) = OutsTo(txs, i - 1) \cup txs[i].outs
  <2>1. \A j : j \in 1..i <=> j \in 1..(i - 1) \/ j = i
    BY <1>0
  <2>. QED BY <1>1, <2>1
<1>3. 1..0 = {}
  OBVIOUS
<1>4. InsTo(txs, 0) = {} /\ OutsTo(txs, 0) = {}
  BY <1>1, <1>3
<1>5. InsTo(txs, Len(txs)) = Inputs(txs) /\ OutsTo(txs, Len(txs)) = Produced(txs)
  BY DEF InsTo, OutsTo, Inputs, Produced
<1>6. ASSUME NEW i \in 0..Len(txs)
      PROVE  InsTo(txs, i) \subseteq Inputs(txs) /\ OutsTo(txs, i) \subseteq Produced(txs)
  <2>1. \A j : j \in 1..i => j \in 1..Len(txs)
    BY <1>0
  <2>. QED BY <1>1, <1>5, <2>1
<1>. QED BY <1>1, <1>2, <1>4, <1>5, <1>6

\* One transaction of a well-formed list.
LEMMA DoesOne ==
  ASSUME NEW txs, WellFormed(txs), NEW t, NEW c, NEW value, NEW mempool \in BOOLEAN,
         NEW n \in 1..Len(txs), NEW st, Did(st, txs, t, c, value, n - 1)
  PROVE  Did(Processed(st, txs[n], ChainedTxos(txs), value, mempool), txs, t, c, value, n)
<1>. DEFINE tx == txs[n]
            ch == ChainedTxos(txs)
            new == Processed(st, tx, ch, value, mempool)
            I == InsTo(txs, n - 1)
            O == OutsTo(txs, n - 1)
            W == WrittenTo(txs, n - 1)
            sp == tx.outs \ Unspendable
            looked == [r \in tx.ins |-> IF r \in DOMAIN st.resolver THEN st.resolver[r] ELSE Absent]
            base == IF mempool THEN st.resolver ELSE Without(st.resolver, tx.ins)
<1>0. txs \in Transactions /\ n - 1 \in 0..Len(txs) /\ n \in 0..Len(txs)
  BY DEF WellFormed, Transactions
<1>1. /\ InsTo(txs, n) = I \cup tx.ins /\ OutsTo(txs, n) = O \cup tx.outs
      /\ WrittenTo(txs, n) = W \cup (sp \ ch)
      /\ I \subseteq Inputs(txs) /\ tx.ins \subseteq Inputs(txs)
      /\ O \subseteq Produced(txs) /\ tx.outs \subseteq Produced(txs)
  BY <1>0, PrefixSteps, TxsTyped DEF WrittenTo
<1>2. /\ new.seen = With(st.seen, looked)
      /\ new.resolver = With(base, [r \in sp \cap ch |-> value])
      /\ new.writes = With(With(st.writes, [r \in tx.ins |-> Absent]), [r \in sp \ ch |-> value])
  BY DEF Processed, Spendable
<1>3. I \cap tx.ins = {}
  <2>. SUFFICES ASSUME NEW r \in I, r \in tx.ins PROVE FALSE
    OBVIOUS
  <2>1. PICK j \in 1..(n - 1) : r \in txs[j].ins
    BY <1>0, PrefixSteps
  <2>2. j \in 1..Len(txs) /\ j # n
    BY <1>0
  <2>. QED BY <2>1, <2>2 DEF WellFormed
<1>4. \A r \in tx.ins \cap Produced(txs) : r \in ch /\ r \in O
  <2>. SUFFICES ASSUME NEW r \in tx.ins \cap Produced(txs) PROVE r \in ch /\ r \in O
    OBVIOUS
  <2>1. PICK j \in 1..(n - 1) : r \in txs[j].outs
    BY DEF WellFormed
  <2>2. r \in O
    BY <1>0, <2>1, PrefixSteps
  <2>. QED BY <1>1, <2>2 DEF ChainedTxos
<1>5. \A r \in ch : r \notin Unspendable /\ r \in Inputs(txs) /\ r \in Produced(txs)
  <2>. SUFFICES ASSUME NEW r \in ch PROVE r \notin Unspendable
    BY DEF ChainedTxos
  <2>1. PICK i \in 1..Len(txs) : r \in txs[i].ins
    BY <1>0, TxsTyped DEF ChainedTxos
  <2>. QED BY <2>1 DEF ChainedTxos, WellFormed
<1>6. \A r : r \in Required(txs) <=> r \in Inputs(txs) /\ r \notin Produced(txs)
  BY DEF Required, ChainedTxos
<1>7. /\ DOMAIN new.seen = I \cup tx.ins
      /\ \A r \in tx.ins : new.seen[r] = looked[r]
      /\ \A r \in I : new.seen[r] = st.seen[r]
  BY <1>2, <1>3 DEF With, Did
<1>8. ASSUME NEW r \in tx.ins
      PROVE  looked[r] = IF r \in Produced(txs) THEN value ELSE Resolver(txs, t, c)[r]
  <2>1. CASE r \in Produced(txs)
    <3>1. r \in (ch \cap O) \ I
      BY <1>3, <1>4, <2>1
    <3>. QED BY <2>1, <3>1 DEF Did
  <2>2. CASE r \notin Produced(txs)
    <3>1. r \in Required(txs) \ I
      BY <1>1, <1>3, <1>6, <2>2
    <3>. QED BY <2>2, <3>1 DEF Did
  <2>. QED BY <2>1, <2>2
<1>9. ASSUME NEW r, r \notin tx.ins, r \in DOMAIN st.resolver
      PROVE  r \in DOMAIN base /\ base[r] = st.resolver[r]
  BY <1>9 DEF Without
<1>10. /\ DOMAIN new.resolver = DOMAIN base \cup (sp \cap ch)
       /\ \A r \in sp \cap ch : new.resolver[r] = value
       /\ \A r \in DOMAIN base \ (sp \cap ch) : new.resolver[r] = base[r]
  BY <1>2 DEF With
<1>. HIDE DEF new, base, looked
<1>11. ASSUME NEW r \in Required(txs) \ InsTo(txs, n)
       PROVE  r \in DOMAIN new.resolver /\ new.resolver[r] = Resolver(txs, t, c)[r]
  <2>1. r \in Required(txs) \ I /\ r \notin tx.ins /\ r \notin ch
    BY <1>1, <1>6 DEF Required
  <2>2. r \in DOMAIN st.resolver /\ st.resolver[r] = Resolver(txs, t, c)[r]
    BY <2>1 DEF Did
  <2>. QED BY <1>9, <1>10, <2>1, <2>2
<1>12. ASSUME NEW r \in (ch \cap OutsTo(txs, n)) \ InsTo(txs, n)
       PROVE  r \in DOMAIN new.resolver /\ new.resolver[r] = value
  <2>1. r \in ch /\ r \notin I /\ r \notin tx.ins /\ r \notin Unspendable
    BY <1>1, <1>5
  <2>2. CASE r \in tx.outs
    BY <1>10, <2>1, <2>2
  <2>3. CASE r \in O
    <3>1. r \in DOMAIN st.resolver /\ st.resolver[r] = value
      BY <2>1, <2>3 DEF Did
    <3>. QED BY <1>9, <1>10, <2>1, <3>1
  <2>. QED BY <1>1, <2>2, <2>3
<1>13. /\ DOMAIN new.writes = (DOMAIN st.writes \cup tx.ins) \cup (sp \ ch)
       /\ \A r \in sp \ ch : new.writes[r] = value
       /\ \A r \in tx.ins \ (sp \ ch) : new.writes[r] = Absent
       /\ \A r \in DOMAIN st.writes \ (tx.ins \cup (sp \ ch)) : new.writes[r] = st.writes[r]
  BY <1>2 DEF With
<1>14. (I \cup tx.ins) \cap (W \cup (sp \ ch)) = {}
  BY <1>1 DEF WrittenTo, ChainedTxos
<1>15. /\ DOMAIN st.writes = I \cup W
       /\ \A r \in I : st.writes[r] = Absent
       /\ \A r \in W : st.writes[r] = value
  BY DEF Did
<1>. HIDE DEF I, O, W, sp, ch, tx
<1>16. /\ DOMAIN new.writes = (I \cup tx.ins) \cup (W \cup (sp \ ch))
       /\ \A r \in I \cup tx.ins : new.writes[r] = Absent
       /\ \A r \in W \cup (sp \ ch) : new.writes[r] = value
  BY <1>13, <1>14, <1>15
<1>17. \A r \in I \cup tx.ins :
         new.seen[r] = IF r \in Produced(txs) THEN value ELSE Resolver(txs, t, c)[r]
  <2>1. \A r \in I : st.seen[r] = IF r \in Produced(txs) THEN value ELSE Resolver(txs, t, c)[r]
    BY DEF Did, I
  <2>. QED BY <1>7, <1>8, <2>1
<1>18. Did(new, txs, t, c, value, n)
  BY <1>1, <1>7, <1>11, <1>12, <1>16, <1>17 DEF Did, ch
<1>. QED BY <1>18 DEF new, tx, ch

\* What one transaction does to the cache.
LEMMA CachesOne ==
  ASSUME NEW txs \in Transactions, NEW c, NEW value, NEW mempool \in BOOLEAN,
         NEW n \in 1..Len(txs), NEW st, Caches(st, txs, c, value, mempool, n - 1)
  PROVE  Caches(Processed(st, txs[n], ChainedTxos(txs), value, mempool),
                txs, c, value, mempool, n)
<1>. DEFINE new == Processed(st, txs[n], ChainedTxos(txs), value, mempool)
            W == WrittenTo(txs, n - 1)
            add == (txs[n].outs \ Unspendable) \ ChainedTxos(txs)
<1>1. WrittenTo(txs, n) = W \cup add
  BY PrefixSteps DEF WrittenTo
<1>2. new.cache = IF mempool THEN st.cache ELSE With(st.cache, [r \in add |-> value])
  BY DEF Processed, Inserted, Spendable
<1>. HIDE DEF new, W, add
<1>3. CASE mempool
  BY <1>2, <1>3 DEF Caches, new
<1>4. CASE ~mempool
  <2>1. /\ DOMAIN new.cache = DOMAIN st.cache \cup add
        /\ \A r \in add : new.cache[r] = value
        /\ \A r \in DOMAIN st.cache \ add : new.cache[r] = st.cache[r]
    BY <1>2, <1>4 DEF With
  <2>2. /\ DOMAIN st.cache = (DOMAIN c \ Required(txs)) \cup W
        /\ \A r \in W : st.cache[r] = value
        /\ \A r \in (DOMAIN c \ Required(txs)) \ W : st.cache[r] = c[r]
    BY <1>4 DEF Caches, W
  <2>3. Caches(new, txs, c, value, mempool, n)
    BY <1>1, <1>4, <2>1, <2>2 DEF Caches
  <2>. QED BY <2>3 DEF new
<1>. QED BY <1>3, <1>4

\* A task over a well-formed list, after each of its transactions.
LEMMA TaskDoes ==
  ASSUME NEW txs, NEW t, NEW c, NEW value, NEW mempool,
         WellFormed(txs), TaskInput(txs, t, c, value, mempool)
  PROVE  \A n \in 0..Len(txs) :
           /\ Did(Task(txs, t, c, value, mempool, n), txs, t, c, value, n)
           /\ Caches(Task(txs, t, c, value, mempool, n), txs, c, value, mempool, n)
           /\ Task(txs, t, c, value, mempool, n).cache \in Part
<1>. DEFINE T(n) == Task(txs, t, c, value, mempool, n)
            N == Len(txs)
            P == {n \in 0..N : /\ Did(T(n), txs, t, c, value, n)
                               /\ Caches(T(n), txs, c, value, mempool, n)}
<1>0. /\ txs \in Transactions /\ mempool \in BOOLEAN /\ N \in Nat
      /\ InsTo(txs, 0) = {} /\ OutsTo(txs, 0) = {}
  BY PrefixSteps DEF TaskInput, Transactions
<1>1. 0 \in P
  <2>1. T(0) = Started(txs, t, c)
    BY TaskSteps
  <2>2. Did(T(0), txs, t, c, value, 0)
    <3>1. /\ T(0).seen = Empty /\ T(0).writes = Empty /\ DOMAIN Empty = {}
          /\ T(0).resolver = Resolver(txs, t, c) /\ DOMAIN Resolver(txs, t, c) = Required(txs)
      BY <2>1 DEF Started, Empty, Resolver
    <3>2. WrittenTo(txs, 0) = {}
      BY <1>0 DEF WrittenTo
    <3>. HIDE DEF T
    <3>. QED BY <1>0, <3>1, <3>2 DEF Did
  <2>3. Caches(T(0), txs, c, value, mempool, 0)
    BY <1>0, <2>1 DEF Caches, Started, CacheAfterResolve, Without, WrittenTo
  <2>. QED BY <1>0, <2>2, <2>3
<1>2. ASSUME NEW n \in 1..N, n - 1 \in P PROVE n \in P
  <2>1. T(n) = Processed(T(n - 1), txs[n], ChainedTxos(txs), value, mempool)
    BY TaskSteps
  <2>2. /\ Did(T(n - 1), txs, t, c, value, n - 1)
        /\ Caches(T(n - 1), txs, c, value, mempool, n - 1)
    BY <1>2
  <2>. HIDE DEF T
  <2>3. Did(T(n), txs, t, c, value, n)
    BY <1>0, <2>1, <2>2, DoesOne
  <2>4. Caches(T(n), txs, c, value, mempool, n)
    BY <1>0, <2>1, <2>2, CachesOne
  <2>. QED BY <1>0, <2>3, <2>4
<1>3. \A n \in 1..N : n - 1 \in P => n \in P
  BY <1>2
<1>4. \A n \in 0..N : n \in P
  <2>. HIDE DEF P
  <2>. QED BY <1>0, <1>1, <1>3, UpTo
<1>5. \A n \in 0..N : T(n) \in TaskState
  BY TaskSteps
<1>. QED BY <1>4, <1>5 DEF TaskState

----------------------------------------------------------------------------
(* The invariant.                                                          *)

UndoEntry == {Entry(b, UtxoSet[b]) : b \in Block}

\* The cache c agrees with what is unspent at block b.
Coherent(c, b) == \A r \in DOMAIN c : UtxoSet[b][r] # Absent => c[r] = UtxoSet[b][r]

\* The points kept lie on one chain up to tp, and the cache agrees with every
\* block a rollback can lead to: it is not told of rollbacks.
Good(tp, conf, c) ==
  /\ tp \in Block /\ conf \in Seq(UndoEntry) /\ c \in Part
  /\ \A i, j \in 1..Len(conf) :
       i <= j => EverProduced[conf[i].block] \subseteq EverProduced[conf[j].block]
  /\ \A i \in 1..Len(conf) : EverProduced[conf[i].block] \subseteq EverProduced[tp]
  /\ \A i \in 1..Len(conf) : Coherent(c, conf[i].block)
  /\ Coherent(c, tp)

\* The snapshot's entry is on top of the confirmed ones.
UndoInv ==
  /\ snap \in BOOLEAN /\ undo \in Seq(UndoEntry)
  /\ snap => undo # <<>>

SeenInv ==
  \A r \in DOMAIN seen.resolved :
    LET of == seen.of
        below == IF of \in Snapshot THEN SnapshotTip[of] ELSE Prev[of]
    IN  seen.resolved[r] =
          IF r \in Produced(Txs(of))
          THEN [height |-> Height[below] + 1, data |-> of]
          ELSE UtxoSet[below][r]

IInv ==
  /\ UndoInv
  /\ Good(tip, Confirmed, cache)
  /\ Base = UtxoSet[tip]
  /\ SeenInv
  /\ status = "running"

\* An entry is a block and what was unspent at it.
LEMMA EntryFacts ==
  ASSUME NEW conf \in Seq(UndoEntry), NEW i \in 1..Len(conf)
  PROVE  conf[i].block \in Block /\ conf[i].table = UtxoSet[conf[i].block]
<1>1. conf[i] \in UndoEntry
  OBVIOUS
<1>. QED BY <1>1 DEF UndoEntry, Entry

\* The confirmed entries are entries.
LEMMA ConfirmedTyped ==
  ASSUME UndoInv
  PROVE  Confirmed \in Seq(UndoEntry)
<1>1. CASE snap
  <2>1. Len(undo) \in Nat \ {0}
    BY <1>1 DEF UndoInv
  <2>2. SubSeq(undo, 1, Len(undo) - 1) \in Seq(UndoEntry)
    BY <2>1 DEF UndoInv
  <2>. QED BY <1>1, <2>2 DEF Confirmed
<1>2. CASE ~snap
  BY <1>2 DEF UndoInv, Confirmed
<1>. QED BY <1>1, <1>2 DEF UndoInv

\* A smaller cache agrees too.
LEMMA GoodLess ==
  ASSUME NEW tp, NEW conf, NEW c, Good(tp, conf, c), NEW S
  PROVE  Good(tp, conf, Without(c, S))
<1>1. Without(c, S) \in Part
  BY PartClosed DEF Good
<1>2. \A b : Coherent(c, b) => Coherent(Without(c, S), b)
  BY DEF Coherent, Without
<1>. QED BY <1>1, <1>2 DEF Good

\* So do the blocks a rollback leads to.
LEMMA GoodBack ==
  ASSUME NEW tp, NEW conf, NEW c, Good(tp, conf, c), NEW n \in 1..Len(conf)
  PROVE  Good(conf[n].block, SubSeq(conf, 1, n - 1), c)
<1>. DEFINE k == SubSeq(conf, 1, n - 1)
<1>1. conf \in Seq(UndoEntry) /\ Len(conf) \in Nat /\ n \in Nat
  BY DEF Good
<1>2. k \in Seq(UndoEntry) /\ Len(k) = n - 1 /\ \A i \in 1..(n - 1) : k[i] = conf[i]
  BY <1>1
<1>3. conf[n].block \in Block
  BY <1>1, EntryFacts
<1>4. \A i \in 1..(n - 1) : i \in 1..Len(conf) /\ i <= n
  BY <1>1
<1>. HIDE DEF k
<1>5. Good(conf[n].block, k, c)
  BY <1>2, <1>3, <1>4 DEF Good
<1>. QED BY <1>5 DEF k

\* Valid in the terms of the lemmas about tasks.
LEMMA ValidFacts ==
  ASSUME NEW txs, NEW b \in Block, Valid(txs, b)
  PROVE  /\ WellFormed(txs) /\ txs \in Transactions
         /\ \A r \in Required(txs) : UtxoSet[b][r] # Absent
         /\ Produced(txs) \cap EverProduced[b] = {}
BY DEF Valid, WellFormed, Transactions, Transaction

\* A task for a valid list on top of tp agrees with tp and with everything a
\* rollback can lead to, even when it is abandoned half-way.
LEMMA GoodTask ==
  ASSUME NEW tp, NEW conf, NEW c, Good(tp, conf, c), NEW txs, Valid(txs, tp),
         NEW value, NEW mempool \in BOOLEAN, NEW n \in 0..Len(txs), NEW st,
         Caches(st, txs, c, value, mempool, n), st.cache \in Part
  PROVE  Good(tp, conf, st.cache)
<1>0. tp \in Block /\ conf \in Seq(UndoEntry) /\ c \in Part /\ txs \in Transactions
  BY ValidFacts DEF Good
<1>1. CASE mempool
  <2>1. st.cache = Without(c, Required(txs))
    BY <1>1 DEF Caches, CacheAfterResolve
  <2>. QED BY <2>1, GoodLess
<1>2. CASE ~mempool
  <2>1. WrittenTo(txs, n) \subseteq Produced(txs)
    BY <1>0, PrefixSteps DEF WrittenTo
  <2>2. WrittenTo(txs, n) \cap EverProduced[tp] = {}
    BY <1>0, <2>1, ValidFacts
  <2>3. ASSUME NEW b \in Block, Coherent(c, b), EverProduced[b] \subseteq EverProduced[tp]
        PROVE  Coherent(st.cache, b)
    <3>. SUFFICES ASSUME NEW r \in DOMAIN st.cache, UtxoSet[b][r] # Absent
                  PROVE  st.cache[r] = UtxoSet[b][r]
      BY DEF Coherent
    <3>1. r \in Ref
      BY PartFacts
    <3>2. r \in EverProduced[b]
      BY <3>1, EverProducedSteps
    <3>3. r \notin WrittenTo(txs, n)
      BY <2>2, <2>3, <3>2
    <3>4. r \in DOMAIN c /\ st.cache[r] = c[r]
      BY <1>2, <3>3 DEF Caches
    <3>. QED BY <2>3, <3>4 DEF Coherent
  <2>4. \A i \in 1..Len(conf) : conf[i].block \in Block
    BY <1>0, EntryFacts
  <2>. QED BY <1>0, <2>3, <2>4 DEF Good
<1>. QED BY <1>1, <1>2

\* The block indexed joins the chain.
LEMMA GoodForward ==
  ASSUME NEW b \in Block \ {Genesis}, NEW conf, NEW c, Good(Prev[b], conf, c), NEW st,
         Caches(st, Txs(b), c, [height |-> Height[b], data |-> b], FALSE, Len(Txs(b))),
         st.cache \in Part
  PROVE  Good(b, Append(conf, Entry(Prev[b], UtxoSet[Prev[b]])), st.cache)
<1>. DEFINE tp == Prev[b]
            txs == Txs(b)
            value == [height |-> Height[b], data |-> b]
            e == Entry(tp, UtxoSet[tp])
            new == Append(conf, e)
<1>0. tp \in Block /\ conf \in Seq(UndoEntry) /\ c \in Part
      /\ Valid(txs, tp) /\ txs \in Transactions /\ Len(conf) \in Nat
  BY ValidAssumption, ChainAssumption, ValidFacts DEF Good
<1>1. Good(tp, conf, st.cache)
  <2>1. Len(txs) \in 0..Len(txs)
    BY <1>0 DEF Transactions
  <2>. QED BY <1>0, <2>1, GoodTask
<1>2. e \in UndoEntry /\ e.block = tp
  BY <1>0 DEF UndoEntry, Entry
<1>. HIDE DEF e
<1>3. /\ new \in Seq(UndoEntry) /\ Len(new) = Len(conf) + 1
      /\ \A i \in 1..Len(conf) : new[i] = conf[i]
      /\ new[Len(conf) + 1] = e
  BY <1>0, <1>2
<1>4. EverProduced[tp] \subseteq EverProduced[b]
  BY EverProducedSteps
<1>5. \A i \in 1..Len(new) : i \in 1..Len(conf) \/ i = Len(conf) + 1
  BY <1>0, <1>3
<1>6. Coherent(st.cache, b)
  <2>. SUFFICES ASSUME NEW r \in DOMAIN st.cache, UtxoSet[b][r] # Absent
                PROVE  st.cache[r] = UtxoSet[b][r]
    BY DEF Coherent
  <2>1. r \in Ref
    BY PartFacts
  <2>2. UtxoSet[b] = AfterBlock(b, UtxoSet[tp])
    BY UtxoSetSteps
  <2>3. r \notin Inputs(txs) /\ r \notin Unspendable
    BY <2>1, <2>2 DEF AfterBlock
  <2>4. CASE r \in Produced(txs)
    <3>1. r \in WrittenTo(txs, Len(txs))
      BY <1>0, <2>3, <2>4, PrefixSteps DEF WrittenTo, ChainedTxos
    <3>2. st.cache[r] = value
      BY <3>1 DEF Caches
    <3>. QED BY <2>1, <2>2, <2>3, <2>4, <3>2 DEF AfterBlock
  <2>5. CASE r \notin Produced(txs)
    <3>1. UtxoSet[b][r] = UtxoSet[tp][r]
      BY <2>1, <2>2, <2>3, <2>5 DEF AfterBlock
    <3>. QED BY <1>1, <3>1 DEF Good, Coherent
  <2>. QED BY <2>4, <2>5
<1>. HIDE DEF new, tp, txs, value
<1>7. /\ \A i, j \in 1..Len(conf) :
           i <= j => EverProduced[conf[i].block] \subseteq EverProduced[conf[j].block]
      /\ \A i \in 1..Len(conf) : EverProduced[conf[i].block] \subseteq EverProduced[tp]
      /\ \A i \in 1..Len(conf) : Coherent(st.cache, conf[i].block)
      /\ Coherent(st.cache, tp)
  BY <1>1 DEF Good
<1>8. \A i \in 1..Len(new) : /\ EverProduced[new[i].block] \subseteq EverProduced[tp]
                             /\ Coherent(st.cache, new[i].block)
  BY <1>2, <1>3, <1>5, <1>7
<1>9. ASSUME NEW i \in 1..Len(new), NEW j \in 1..Len(new), i <= j
      PROVE  EverProduced[new[i].block] \subseteq EverProduced[new[j].block]
  <2>1. CASE j = Len(conf) + 1
    BY <1>2, <1>3, <1>8, <2>1
  <2>2. CASE j \in 1..Len(conf)
    <3>1. i \in 1..Len(conf)
      BY <1>0, <1>5, <1>9, <2>2
    <3>. QED BY <1>3, <1>7, <1>9, <2>2, <3>1
  <2>. QED BY <1>5, <2>1, <2>2
<1>10. Good(b, new, st.cache)
  BY <1>1, <1>3, <1>4, <1>6, <1>8, <1>9 DEF Good
<1>. QED BY <1>10 DEF new, e, tp

\* Outputs that cannot be spent are never in the set.
LEMMA UnspendableAbsent ==
  \A b \in Block : \A r \in Unspendable : UtxoSet[b][r] = Absent
<1>1. \A r \in Unspendable : UtxoSet[Genesis][r] = Absent
  BY UtxoSetSteps, ChainAssumption DEF NoUtxo
<1>2. \A b \in Block \ {Genesis} : \A r \in Unspendable : UtxoSet[b][r] = Absent
  BY UtxoSetSteps, ChainAssumption DEF AfterBlock
<1>. QED BY <1>1, <1>2

\* What is in the tables when a snapshot is undone, or an event skipped.
LEMMA UndoKeeps ==
  ASSUME IInv, UndoSnapshot
  PROVE  /\ UndoInv' /\ Confirmed' = Confirmed /\ Base' = Base
<1>1. snap' = FALSE /\ undo' = Confirmed /\ table' = Base
  BY DEF UndoSnapshot
<1>2. Confirmed \in Seq(UndoEntry)
  BY ConfirmedTyped DEF IInv
<1>. QED BY <1>1, <1>2 DEF UndoInv, Confirmed, Base

\* What a task is run for: the next block, or a snapshot on the tip.
TaskFor(of, mempool, value) ==
  \/ /\ mempool = FALSE /\ of \in Block \ {Genesis} /\ Prev[of] = tip
     /\ value = [height |-> Height[of], data |-> of]
  \/ /\ mempool = TRUE /\ of \in Snapshot /\ SnapshotTip[of] = tip
     /\ value = [height |-> Height[tip] + 1, data |-> of]

\* Every input of such a task is found, and found as the chain left it.
LEMMA TaskFinds ==
  ASSUME IInv, NEW of, NEW mempool, NEW value, TaskFor(of, mempool, value)
  PROVE  /\ mempool \in BOOLEAN /\ Valid(Txs(of), tip) /\ WellFormed(Txs(of))
         /\ TaskInput(Txs(of), Base, cache, value, mempool)
         /\ Missing(Txs(of), Base, cache) = {}
         /\ \A r \in Required(Txs(of)) : Resolver(Txs(of), Base, cache)[r] = UtxoSet[tip][r]
<1>. DEFINE txs == Txs(of)
<1>0. tip \in Block /\ cache \in Part /\ Coherent(cache, tip) /\ Base = UtxoSet[tip]
  BY DEF IInv, Good
<1>1. mempool \in BOOLEAN /\ Valid(txs, tip) /\ value \in Value
  <2>1. CASE /\ mempool = FALSE /\ of \in Block \ {Genesis} /\ Prev[of] = tip
             /\ value = [height |-> Height[of], data |-> of]
    <3>1. Height[of] \in Nat
      BY <2>1, ChainAssumption
    <3>. QED BY <2>1, <3>1, ValidAssumption DEF Value
  <2>2. CASE /\ mempool = TRUE /\ of \in Snapshot /\ SnapshotTip[of] = tip
             /\ value = [height |-> Height[tip] + 1, data |-> of]
    <3>1. Height[tip] + 1 \in Nat
      BY <1>0, ChainAssumption
    <3>. QED BY <2>2, <3>1, ValidAssumption DEF Value
  <2>. QED BY <2>1, <2>2 DEF TaskFor
<1>2. /\ WellFormed(txs) /\ txs \in Transactions
      /\ \A r \in Required(txs) : UtxoSet[tip][r] # Absent
  BY <1>0, <1>1, ValidFacts
<1>3. Base \in [Ref -> Value]
  BY <1>0, UtxoSetSteps
<1>4. TaskInput(txs, Base, cache, value, mempool)
  BY <1>0, <1>1, <1>2, <1>3 DEF TaskInput
<1>5. Missing(txs, Base, cache) = {}
  BY <1>0, <1>2 DEF Missing
<1>6. \A r \in Required(txs) : Resolver(txs, Base, cache)[r] = UtxoSet[tip][r]
  BY <1>0, <1>2 DEF Resolver, Coherent
<1>. QED BY <1>1, <1>2, <1>4, <1>5, <1>6

\* The table once a block is written.
LEMMA TableAfter ==
  ASSUME NEW b \in Block \ {Genesis}, NEW st, NEW t, NEW c, NEW value,
         t = UtxoSet[Prev[b]], value = [height |-> Height[b], data |-> b],
         Txs(b) \in Transactions, Did(st, Txs(b), t, c, value, Len(Txs(b)))
  PROVE  With(t, st.writes) = UtxoSet[b]
<1>. DEFINE txs == Txs(b)
            W == WrittenTo(txs, Len(txs))
            new == With(t, st.writes)
<1>1. InsTo(txs, Len(txs)) = Inputs(txs) /\ OutsTo(txs, Len(txs)) = Produced(txs)
  BY PrefixSteps
<1>2. Inputs(txs) \subseteq Ref /\ Produced(txs) \subseteq Ref
  BY TxsTyped
<1>3. W = (Produced(txs) \ Unspendable) \ Inputs(txs)
  BY <1>1 DEF WrittenTo, ChainedTxos
<1>4. /\ DOMAIN st.writes = Inputs(txs) \cup W
      /\ \A r \in Inputs(txs) : st.writes[r] = Absent
      /\ \A r \in W : st.writes[r] = value
  BY <1>1 DEF Did
<1>5. UtxoSet[b] = AfterBlock(b, t) /\ t \in [Ref -> Value]
  BY UtxoSetSteps, ChainAssumption
<1>6. new = [r \in Ref |-> IF r \in DOMAIN st.writes THEN st.writes[r] ELSE t[r]]
  <2>1. DOMAIN t \cup DOMAIN st.writes = Ref
    BY <1>2, <1>3, <1>4, <1>5
  <2>. QED BY <2>1 DEF With
<1>7. ASSUME NEW r \in Ref
      PROVE  (IF r \in DOMAIN st.writes THEN st.writes[r] ELSE t[r]) = AfterBlock(b, t)[r]
  <2>1. AfterBlock(b, t)[r] = IF r \in Inputs(txs) \cup Unspendable THEN Absent
                              ELSE IF r \in Produced(txs) THEN value ELSE t[r]
    BY DEF AfterBlock
  <2>2. CASE r \in Inputs(txs)
    BY <1>4, <2>1, <2>2
  <2>3. CASE r \notin Inputs(txs) /\ r \notin Unspendable /\ r \in Produced(txs)
    BY <1>3, <1>4, <2>1, <2>3
  <2>4. CASE r \notin Inputs(txs) /\ r \notin Unspendable /\ r \notin Produced(txs)
    BY <1>3, <1>4, <2>1, <2>4
  <2>5. CASE r \notin Inputs(txs) /\ r \in Unspendable
    <3>1. t[r] = Absent
      BY <2>5, UnspendableAbsent, ChainAssumption
    <3>. QED BY <1>3, <1>4, <2>1, <2>5, <3>1
  <2>. QED BY <2>2, <2>3, <2>4, <2>5
<1>8. AfterBlock(b, t) = [r \in Ref |-> AfterBlock(b, t)[r]]
  BY DEF AfterBlock
<1>. QED BY <1>5, <1>6, <1>7, <1>8

\* A task preserves the invariant, whether it is written or fails half-way; it
\* never meets a missing input.
LEMMA RunKeeps ==
  ASSUME IInv, NEW of, NEW mempool, NEW value, TaskFor(of, mempool, value),
         Run(of, mempool, value)
  PROVE  IInv'
<1>. DEFINE txs == Txs(of)
            T(n) == Task(txs, Base, cache, value, mempool, n)
            done == T(Len(txs))
<1>0. /\ mempool \in BOOLEAN /\ Valid(txs, tip) /\ WellFormed(txs) /\ txs \in Transactions
      /\ TaskInput(txs, Base, cache, value, mempool)
      /\ Missing(txs, Base, cache) = {}
      /\ \A r \in Required(txs) : Resolver(txs, Base, cache)[r] = UtxoSet[tip][r]
      /\ Len(txs) \in 0..Len(txs)
  BY TaskFinds DEF TaskInput, Transactions
<1>1. \A n \in 0..Len(txs) : /\ Did(T(n), txs, Base, cache, value, n)
                             /\ Caches(T(n), txs, cache, value, mempool, n)
                             /\ T(n).cache \in Part
  BY <1>0, TaskDoes
<1>2. /\ Good(tip, Confirmed, cache) /\ Base = UtxoSet[tip] /\ SeenInv /\ status = "running"
      /\ Confirmed \in Seq(UndoEntry) /\ tip \in Block
  BY DEF IInv, Good
<1>3. \A n \in 0..Len(txs) : Good(tip, Confirmed, T(n).cache)
  <2>. HIDE DEF T
  <2>. QED BY <1>0, <1>1, <1>2, GoodTask
<1>4. CASE /\ \E n \in 0..Len(txs) : cache' = T(n).cache
           /\ UndoSnapshot
           /\ UNCHANGED <<tip, seen, status>>
  <2>1. UndoInv' /\ Confirmed' = Confirmed /\ Base' = Base
    BY <1>4, UndoKeeps
  <2>2. Good(tip, Confirmed, cache')
    <3>. HIDE DEF T
    <3>. QED BY <1>3, <1>4
  <2>3. SeenInv'
    BY <1>2, <1>4 DEF SeenInv
  <2>. QED BY <1>2, <1>4, <2>1, <2>2, <2>3 DEF IInv
<1>5. CASE /\ table' = With(Base, done.writes)
           /\ undo' = Append(Confirmed, Entry(tip, Base))
           /\ cache' = done.cache
           /\ seen' = [of |-> of, resolved |-> done.seen]
           /\ snap' = mempool
           /\ tip' = IF mempool THEN tip ELSE of
           /\ UNCHANGED status
  <2>. HIDE DEF T
  <2>0. /\ Did(done, txs, Base, cache, value, Len(txs))
        /\ Caches(done, txs, cache, value, mempool, Len(txs))
        /\ done.cache \in Part /\ Good(tip, Confirmed, done.cache)
    BY <1>0, <1>1, <1>3
  <2>. DEFINE e == Entry(tip, Base)
  <2>1. e \in UndoEntry /\ e.table = Base
    BY <1>2 DEF UndoEntry, Entry
  <2>. HIDE DEF e
  <2>2. /\ undo' \in Seq(UndoEntry) /\ Len(undo') = Len(Confirmed) + 1 /\ undo' # <<>>
        /\ Len(Confirmed) \in Nat
        /\ undo'[Len(undo')] = e
        /\ SubSeq(undo', 1, Len(undo') - 1) = Confirmed
    BY <1>2, <1>5, <2>1 DEF e
  <2>3. UndoInv'
    BY <1>0, <1>5, <2>2 DEF UndoInv
  <2>4. SeenInv'
    <3>1. InsTo(txs, Len(txs)) = Inputs(txs)
      BY <1>0, PrefixSteps
    <3>2. \/ of \in Snapshot /\ SnapshotTip[of] = tip
          \/ of \notin Snapshot /\ Prev[of] = tip
      <4>1. of \in Block => of \notin Snapshot
        BY ChainAssumption
      <4>2. \/ of \in Block /\ Prev[of] = tip
            \/ of \in Snapshot /\ SnapshotTip[of] = tip
        BY DEF TaskFor
      <4>. QED BY <4>1, <4>2, Zenon
    <3>3. value = [height |-> Height[tip] + 1, data |-> of]
      BY ChainAssumption DEF TaskFor
    <3>4. ASSUME NEW r \in DOMAIN done.seen
          PROVE  done.seen[r] = IF r \in Produced(txs) THEN value ELSE UtxoSet[tip][r]
      <4>1. r \in Inputs(txs)
        BY <2>0, <3>1 DEF Did
      <4>2. done.seen[r] = IF r \in Produced(txs) THEN value ELSE Resolver(txs, Base, cache)[r]
        BY <2>0, <3>1, <4>1 DEF Did
      <4>3. r \notin Produced(txs) => r \in Required(txs)
        BY <4>1 DEF Required, ChainedTxos
      <4>. QED BY <1>0, <4>2, <4>3
    <3>5. seen'.of = of /\ seen'.resolved = done.seen
      BY <1>5
    <3>. QED BY <3>2, <3>3, <3>4, <3>5 DEF SeenInv
  <2>5. CASE mempool
    <3>1. Confirmed' = Confirmed /\ Base' = Base /\ tip' = tip
      BY <1>5, <2>1, <2>2, <2>5 DEF Confirmed, Base
    <3>. QED BY <1>2, <1>5, <2>0, <2>3, <2>4, <3>1 DEF IInv
  <2>6. CASE ~mempool
    <3>1. /\ of \in Block \ {Genesis} /\ Prev[of] = tip /\ tip' = of
          /\ value = [height |-> Height[of], data |-> of]
      BY <1>5, <2>6 DEF TaskFor
    <3>2. Confirmed' = undo' /\ Base' = table'
      BY <1>5, <2>6 DEF Confirmed, Base
    <3>3. With(Base, done.writes) = UtxoSet[of]
      BY <1>0, <1>2, <2>0, <3>1, TableAfter
    <3>4. Good(of, Append(Confirmed, Entry(Prev[of], UtxoSet[Prev[of]])), done.cache)
      <4>1. mempool = FALSE
        BY <1>0, <2>6
      <4>2. /\ Good(Prev[of], Confirmed, cache)
            /\ Caches(done, Txs(of), cache, [height |-> Height[of], data |-> of], FALSE,
                      Len(Txs(of)))
        BY <1>2, <2>0, <3>1, <4>1
      <4>. HIDE DEF done
      <4>. QED BY <2>0, <3>1, <4>2, GoodForward
    <3>5. Good(tip', Confirmed', cache')
      BY <1>2, <1>5, <3>1, <3>2, <3>4
    <3>. QED BY <1>2, <1>5, <2>3, <2>4, <3>1, <3>2, <3>3, <3>5 DEF IInv
  <2>. QED BY <1>0, <2>5, <2>6
<1>. QED BY <1>0, <1>4, <1>5 DEF Run

\* The invariant is inductive.
LEMMA IInvNext ==
  ASSUME IInv, [Next]_vars
  PROVE  IInv'
<1>0. /\ UndoInv /\ Good(tip, Confirmed, cache) /\ Base = UtxoSet[tip] /\ SeenInv
      /\ status = "running" /\ tip \in Block
  BY DEF IInv, Good
<1>1. ASSUME Skip PROVE IInv'
  <2>1. UndoInv' /\ Confirmed' = Confirmed /\ Base' = Base
    BY <1>1, UndoKeeps DEF Skip
  <2>. QED BY <1>0, <1>1, <2>1 DEF Skip, IInv, SeenInv
<1>2. ASSUME NEW b \in Block, RollForward(b) PROVE IInv'
  <2>1. CASE b # Genesis /\ Prev[b] = tip /\ Run(b, FALSE, [height |-> Height[b], data |-> b])
    <3>1. TaskFor(b, FALSE, [height |-> Height[b], data |-> b])
      BY <2>1 DEF TaskFor
    <3>. QED BY <2>1, <3>1, RunKeeps
  <2>. QED BY <1>1, <1>2, <2>1 DEF RollForward
<1>3. ASSUME NEW s \in Snapshot, MempoolBlocks(s) PROVE IInv'
  <2>1. CASE SnapshotTip[s] = tip /\ Run(s, TRUE, [height |-> PseudoHeight, data |-> s])
    <3>1. TaskFor(s, TRUE, [height |-> PseudoHeight, data |-> s])
      BY <2>1 DEF TaskFor, PseudoHeight
    <3>. QED BY <2>1, <3>1, RunKeeps
  <2>. QED BY <1>1, <1>3, <2>1 DEF MempoolBlocks
<1>4. ASSUME NEW n \in 1..Len(Confirmed), RollBack(n) PROVE IInv'
  <2>1. Confirmed \in Seq(UndoEntry) /\ Len(Confirmed) \in Nat
    BY <1>0 DEF Good
  <2>2. Confirmed[n].block \in Block /\ Confirmed[n].table = UtxoSet[Confirmed[n].block]
    BY <2>1, EntryFacts
  <2>3. Good(Confirmed[n].block, SubSeq(Confirmed, 1, n - 1), cache)
    BY <1>0, GoodBack
  <2>4. SubSeq(Confirmed, 1, n - 1) \in Seq(UndoEntry)
    BY <2>3 DEF Good
  <2>5. Confirmed' = SubSeq(Confirmed, 1, n - 1) /\ Base' = table' /\ snap' = FALSE
    BY <1>4 DEF RollBack, Confirmed, Base
  <2>6. UndoInv'
    BY <1>4, <2>4 DEF RollBack, UndoInv
  <2>7. SeenInv'
    BY <1>0, <1>4 DEF RollBack, SeenInv
  <2>8. tip' = Confirmed[n].block /\ table' = Confirmed[n].table /\ cache' = cache
        /\ status' = "running"
    BY <1>0, <1>4 DEF RollBack
  <2>. QED BY <2>2, <2>3, <2>5, <2>6, <2>7, <2>8 DEF IInv
<1>5. ASSUME NEW r \in DOMAIN cache, Evict({r}) PROVE IInv'
  <2>1. Good(tip, Confirmed, Without(cache, {r}))
    BY <1>0, GoodLess
  <2>2. Confirmed' = Confirmed /\ Base' = Base /\ UndoInv' /\ SeenInv'
    BY <1>0, <1>5 DEF Evict, Confirmed, Base, UndoInv, SeenInv
  <2>. QED BY <1>0, <1>5, <2>1, <2>2 DEF Evict, IInv
<1>6. CASE UNCHANGED vars
  BY <1>0, <1>6 DEF vars, IInv, Confirmed, Base, UndoInv, SeenInv
<1>. QED BY <1>2, <1>3, <1>4, <1>5, <1>6 DEF Next

\* It holds at the start, over an empty database.
LEMMA IInvInit ==
  ASSUME Init
  PROVE  IInv
<1>1. /\ snap = FALSE /\ undo = <<>> /\ Confirmed = <<>> /\ tip = Genesis
      /\ Base = [r \in Ref |-> Absent] /\ cache = Empty /\ DOMAIN cache = {}
      /\ DOMAIN seen.resolved = {} /\ status = "running"
  BY DEF Init, Confirmed, Base, Empty
<1>2. cache \in Part
  <2>1. cache \in [{} -> Value]
    BY <1>1 DEF Empty
  <2>. QED BY <2>1, PartMade
<1>3. Good(tip, Confirmed, cache)
  BY <1>1, <1>2, ChainAssumption DEF Good, Coherent
<1>4. Base = UtxoSet[tip]
  BY <1>1, UtxoSetSteps DEF NoUtxo
<1>5. UndoInv
  <2>1. undo \in Seq(UndoEntry)
    BY <1>1
  <2>2. snap \in BOOLEAN /\ ~snap
    BY <1>1, Zenon
  <2>. QED BY <2>1, <2>2, Zenon DEF UndoInv
<1>6. SeenInv
  BY <1>1 DEF SeenInv
<1>. QED BY <1>1, <1>3, <1>4, <1>5, <1>6 DEF IInv

\* Both together.
LEMMA Invariant == Spec => []IInv
<1>1. Init => IInv
  BY IInvInit
<1>2. IInv /\ [Next]_vars => IInv'
  BY IInvNext
<1>. QED BY <1>1, <1>2, PTL DEF Spec

----------------------------------------------------------------------------
\* UtxoByTxoRefKV is the set of unspent outputs of the chain to last_processed,
\* for any tree of valid blocks, with rollbacks, snapshots and failed batches in
\* any order (update_utxo_set).
THEOREM TableIsExact == Spec => []TableIsUtxoSet
<1>1. IInv => TableIsUtxoSet
  BY DEF IInv, TableIsUtxoSet
<1>. QED BY <1>1, Invariant, PTL

\* The cache, which nothing tells of a rollback or of a failed task, never holds
\* another value for an unspent output than the table (UtxoCache).
THEOREM CacheIsCoherent == Spec => []CacheCoherent
<1>1. IInv => CacheCoherent
  BY DEF IInv, Good, Coherent, CacheCoherent
<1>. QED BY <1>1, Invariant, PTL

\* No task over valid transactions meets a missing input, and every input an
\* indexer resolves is the output as the chain, or an earlier transaction of the
\* same list, left it (resolve_inputs, IndexingContext::resolve_input).
THEOREM InputsAreResolved == Spec => []InputsResolved
<1>1. IInv => InputsResolved
  BY DEF IInv, SeenInv, InputsResolved
<1>. QED BY <1>1, Invariant, PTL
=============================================================================
