------------------------- MODULE WriteBufferProofs -------------------------
(* Proofs about WriteBuffer.                                               *)
EXTENDS WriteBuffer, NatOrder

\* The value after an operation on a value is again a value.
LEMMA ApplyMergeType ==
  ASSUME NEW o \in Operation, NEW n \in Number
  PROVE  ApplyMerge(o, n) \in Number
<1>1. MaxValue \in Nat
  BY WriteBufferAssumption
<1>2. o.delta \in 0..MaxValue /\ n \in 0..MaxValue
  BY DEF Operation, Number
<1>. QED BY <1>1, <1>2 DEF ApplyMerge, SaturatingAdd, SaturatingSub, Number

\* The operands applied one after the other: FullMerge is the last value of a
\* function that starts with the base and applies one operand at a time.
LEMMA FullMergeSteps ==
  ASSUME NEW base \in Number \cup {Absent}, NEW operands \in Seq(Operation)
  PROVE  \E f \in [0..Len(operands) -> Number] :
           /\ f[0] = OrZero(base)
           /\ \A i \in 1..Len(operands) : f[i] = ApplyMerge(operands[i], f[i - 1])
           /\ FullMerge(base, operands) = f[Len(operands)]
<1>. DEFINE current[i \in 0..Len(operands)] ==
        IF i = 0 THEN OrZero(base) ELSE ApplyMerge(operands[i], current[i - 1])
<1>. DEFINE n == Len(operands)
            g == [i \in 1..n |-> [x \in Number |-> ApplyMerge(operands[i], x)]]
<1>1. n \in Nat /\ \A i \in 1..n : operands[i] \in Operation
  OBVIOUS
<1>2. OrZero(base) \in Number
  BY WriteBufferAssumption DEF OrZero, Number
<1>3. g \in [1..n -> [Number -> Number]]
  BY <1>1, ApplyMergeType
<1>4. PICK f \in [0..n -> Number] : Computed(f, n, OrZero(base), g)
  <2>. HIDE DEF g, n
  <2>. QED BY <1>1, <1>2, <1>3, RecursionExists
<1>5. f = [i \in 0..Len(operands) |->
             IF i = 0 THEN OrZero(base) ELSE ApplyMerge(operands[i], f[i - 1])]
  <2>. DEFINE h == [i \in 0..n |-> IF i = 0 THEN OrZero(base) ELSE ApplyMerge(operands[i], f[i - 1])]
  <2>1. ASSUME NEW i \in 0..n PROVE f[i] = h[i]
    <3>1. f[i] = IF i = 0 THEN OrZero(base) ELSE g[i][f[i - 1]]
      <4>. HIDE DEF g
      <4>. QED BY <1>4 DEF Computed
    <3>2. i # 0 => i \in 1..n /\ i - 1 \in 0..n
      BY <1>1
    <3>3. i # 0 => f[i - 1] \in Number
      BY <3>2
    <3>. QED BY <3>1, <3>2, <3>3
  <2>2. f = [i \in 0..n |-> f[i]] /\ h = [i \in 0..n |-> h[i]]
    OBVIOUS
  <2>3. f = h
    <3>. HIDE DEF h
    <3>. QED BY <2>1, <2>2
  <2>. QED BY <2>3
<1>6. current = [i \in 0..Len(operands) |->
                   IF i = 0 THEN OrZero(base) ELSE ApplyMerge(operands[i], current[i - 1])]
  BY <1>5
<1>7. FullMerge(base, operands) = current[n]
  BY DEF FullMerge
<1>. HIDE DEF current, g
<1>8. current[0] = OrZero(base) /\ \A i \in 1..n : current[i] = ApplyMerge(operands[i], current[i - 1])
  BY <1>1, <1>6
<1>9. current \in [0..n -> Number]
  <2>. DEFINE P == {i \in 0..n : current[i] \in Number}
  <2>1. 0 \in P
    BY <1>1, <1>2, <1>8
  <2>2. ASSUME NEW i \in 1..n, i - 1 \in P PROVE i \in P
    <3>1. current[i - 1] \in Number /\ operands[i] \in Operation /\ i \in 0..n
      BY <1>1, <2>2
    <3>2. ApplyMerge(operands[i], current[i - 1]) \in Number
      BY <3>1, ApplyMergeType
    <3>. QED BY <1>8, <3>1, <3>2
  <2>3. \A i \in 1..n : i - 1 \in P => i \in P
    BY <2>2
  <2>4. \A i \in 0..n : i \in P
    <3>. HIDE DEF P, n
    <3>. QED BY <1>1, <2>1, <2>3, UpTo, Zenon
  <2>5. \A i \in 0..n : current[i] \in Number
    BY <2>4
  <2>. QED BY <1>6, <2>5
<1>. QED BY <1>7, <1>8, <1>9

\* The total of one kind of operand, step by step.
LEMMA TotalSteps ==
  ASSUME NEW kind, NEW operands \in Seq(Operation)
  PROVE  \E f \in [0..Len(operands) -> Number] :
           /\ f[0] = 0
           /\ \A i \in 1..Len(operands) :
                f[i] = IF operands[i].op = kind
                       THEN SaturatingAdd(f[i - 1], operands[i].delta) ELSE f[i - 1]
           /\ Total(kind, operands) = f[Len(operands)]
<1>. DEFINE Sum(i, x) == IF operands[i].op = kind THEN SaturatingAdd(x, operands[i].delta) ELSE x
            total[i \in 0..Len(operands)] ==
               IF i = 0 THEN 0
               ELSE IF operands[i].op = kind
                    THEN SaturatingAdd(total[i - 1], operands[i].delta)
                    ELSE total[i - 1]
            n == Len(operands)
            g == [i \in 1..n |-> [x \in Number |-> Sum(i, x)]]
<1>0. \A i \in 1..n : operands[i] \in Operation
  OBVIOUS
<1>1. n \in Nat /\ (\A i \in 1..n : operands[i].delta \in Number) /\ 0 \in Number
  BY <1>0, WriteBufferAssumption DEF Operation, Number
<1>2. ASSUME NEW i \in 1..n, NEW x \in Number PROVE Sum(i, x) \in Number
  BY <1>1, WriteBufferAssumption DEF SaturatingAdd, Number
<1>3. g \in [1..n -> [Number -> Number]]
  BY <1>2
<1>4. PICK f \in [0..n -> Number] : Computed(f, n, 0, g)
  <2>. HIDE DEF g, n, Sum
  <2>. QED BY <1>1, <1>3, RecursionExists
<1>5. f = [i \in 0..n |-> IF i = 0 THEN 0 ELSE Sum(i, f[i - 1])]
  <2>. DEFINE h == [i \in 0..n |-> IF i = 0 THEN 0 ELSE Sum(i, f[i - 1])]
  <2>1. ASSUME NEW i \in 0..n PROVE f[i] = h[i]
    <3>1. f[i] = IF i = 0 THEN 0 ELSE g[i][f[i - 1]]
      <4>. HIDE DEF g
      <4>. QED BY <1>4 DEF Computed
    <3>2. i # 0 => i \in 1..n /\ i - 1 \in 0..n
      BY <1>1
    <3>3. i # 0 => f[i - 1] \in Number
      BY <3>2
    <3>. HIDE DEF Sum
    <3>. QED BY <3>1, <3>2, <3>3
  <2>2. f = [i \in 0..n |-> f[i]] /\ h = [i \in 0..n |-> h[i]]
    OBVIOUS
  <2>3. f = h
    <3>. HIDE DEF h
    <3>. QED BY <2>1, <2>2
  <2>. QED BY <2>3
<1>6. total = [i \in 0..n |-> IF i = 0 THEN 0 ELSE Sum(i, total[i - 1])]
  BY <1>5
<1>7. Total(kind, operands) = total[n]
  BY DEF Total
<1>. HIDE DEF total, g
<1>8. total[0] = 0 /\ \A i \in 1..n : total[i] = Sum(i, total[i - 1])
  <2>. HIDE DEF Sum
  <2>. QED BY <1>1, <1>6
<1>9. total \in [0..n -> Number]
  <2>. DEFINE P == {i \in 0..n : total[i] \in Number}
  <2>1. 0 \in P
    BY <1>1, <1>8
  <2>2. ASSUME NEW i \in 1..n, i - 1 \in P PROVE i \in P
    <3>. HIDE DEF Sum
    <3>. QED BY <1>2, <1>8, <2>2
  <2>3. \A i \in 1..n : i - 1 \in P => i \in P
    BY <2>2
  <2>4. \A i \in 0..n : i \in P
    <3>. HIDE DEF P, n
    <3>. QED BY <1>1, <2>1, <2>3, UpTo, Zenon
  <2>5. \A i \in 0..n : total[i] \in Number
    BY <2>4
  <2>. QED BY <1>6, <2>5
<1>. QED BY <1>7, <1>8, <1>9

----------------------------------------------------------------------------
(* Operations that do not saturate.                                        *)

\* b is a after operation o, exactly.
Exact(a, o, b) == IF o.op = "increment" THEN b = a + o.delta ELSE a = b + o.delta

\* An exact operation is what apply_merge_to_value computes.
LEMMA ExactApplies ==
  ASSUME NEW a \in Number, NEW b \in Number, NEW o \in Operation, Exact(a, o, b)
  PROVE  ApplyMerge(o, a) = b
<1>1. MaxValue \in Nat /\ o.delta \in 0..MaxValue /\ a \in 0..MaxValue /\ b \in 0..MaxValue
  BY WriteBufferAssumption DEF Operation, Number
<1>. QED BY <1>1 DEF Exact, ApplyMerge, SaturatingAdd, SaturatingSub

\* Two exact operations in turn are the combined one, which is exact too.
LEMMA ExactCombines ==
  ASSUME NEW a \in Number, NEW b \in Number, NEW c \in Number,
         NEW o \in Operation, NEW p \in Operation, Exact(a, o, b), Exact(b, p, c)
  PROVE  /\ CombineMergeOperations(o, p) \in Operation
         /\ Exact(a, CombineMergeOperations(o, p), c)
<1>1. /\ MaxValue \in Nat /\ a \in 0..MaxValue /\ b \in 0..MaxValue /\ c \in 0..MaxValue
      /\ o.delta \in 0..MaxValue /\ p.delta \in 0..MaxValue
      /\ o.op \in {"increment", "decrement"} /\ p.op \in {"increment", "decrement"}
  BY WriteBufferAssumption DEF Operation, Number
<1>2. \A d \in 0..MaxValue : /\ [o EXCEPT !.delta = d] = [op |-> o.op, delta |-> d]
                             /\ [p EXCEPT !.delta = d] = [op |-> p.op, delta |-> d]
  BY DEF Operation
<1>3. CASE o.op = p.op
  <2>1. SaturatingAdd(o.delta, p.delta) = o.delta + p.delta /\ o.delta + p.delta \in 0..MaxValue
    BY <1>1, <1>3 DEF Exact, SaturatingAdd
  <2>2. CombineMergeOperations(o, p) = [op |-> o.op, delta |-> o.delta + p.delta]
    BY <1>2, <1>3, <2>1 DEF CombineMergeOperations
  <2>. QED BY <1>1, <1>3, <2>1, <2>2 DEF Exact, Operation, Number
<1>4. CASE o.op # p.op /\ p.delta <= o.delta
  <2>1. o.delta - p.delta \in 0..MaxValue
    BY <1>1, <1>4
  <2>2. CombineMergeOperations(o, p) = [op |-> o.op, delta |-> o.delta - p.delta]
    BY <1>2, <1>4, <2>1 DEF CombineMergeOperations
  <2>. QED BY <1>1, <1>4, <2>1, <2>2 DEF Exact, Operation, Number
<1>5. CASE o.op # p.op /\ p.delta > o.delta
  <2>1. p.delta - o.delta \in 0..MaxValue /\ ~(p.delta <= o.delta)
    BY <1>1, <1>5
  <2>2. CombineMergeOperations(o, p) = [op |-> p.op, delta |-> p.delta - o.delta]
    BY <1>2, <1>5, <2>1 DEF CombineMergeOperations
  <2>. QED BY <1>1, <1>5, <2>1, <2>2 DEF Exact, Operation, Number
<1>. QED BY <1>1, <1>3, <1>4, <1>5

\* The values a counter takes while the operands are applied to base, none of
\* them cut at 0 or MaxValue.
Counted(base, operands, v) ==
  /\ v \in [0..Len(operands) -> Number]
  /\ v[0] = OrZero(base)
  /\ \A i \in 1..Len(operands) : Exact(v[i - 1], operands[i], v[i])

\* What create_merge_operator computes for them.
LEMMA FullMergeIsExact ==
  ASSUME NEW base \in Number \cup {Absent}, NEW operands \in Seq(Operation),
         NEW v, Counted(base, operands, v)
  PROVE  FullMerge(base, operands) = v[Len(operands)]
<1>. DEFINE n == Len(operands)
<1>1. n \in Nat /\ \A i \in 1..n : operands[i] \in Operation
  OBVIOUS
<1>2. PICK f \in [0..n -> Number] :
           /\ f[0] = OrZero(base)
           /\ \A i \in 1..n : f[i] = ApplyMerge(operands[i], f[i - 1])
           /\ FullMerge(base, operands) = f[n]
  BY FullMergeSteps
<1>. DEFINE P == {i \in 0..n : f[i] = v[i]}
<1>3. 0 \in P
  BY <1>1, <1>2 DEF Counted
<1>4. ASSUME NEW i \in 1..n, i - 1 \in P PROVE i \in P
  <2>1. v[i - 1] \in Number /\ v[i] \in Number /\ Exact(v[i - 1], operands[i], v[i])
    BY <1>1 DEF Counted
  <2>2. ApplyMerge(operands[i], v[i - 1]) = v[i]
    BY <1>1, <2>1, ExactApplies
  <2>. QED BY <1>1, <1>2, <1>4, <2>2
<1>5. \A i \in 1..n : i - 1 \in P => i \in P
  BY <1>4
<1>6. \A i \in 0..n : i \in P
  <2>. HIDE DEF P, n
  <2>. QED BY <1>1, <1>3, <1>5, UpTo, Zenon
<1>. QED BY <1>1, <1>2, <1>6

\* A total that is below MaxValue at the end was never cut.
LEMMA TotalIsExact ==
  ASSUME NEW kind, NEW operands \in Seq(Operation), Total(kind, operands) < MaxValue
  PROVE  \E f \in [0..Len(operands) -> Number] :
           /\ f[0] = 0
           /\ \A i \in 1..Len(operands) :
                f[i] = IF operands[i].op = kind THEN f[i - 1] + operands[i].delta ELSE f[i - 1]
           /\ Total(kind, operands) = f[Len(operands)]
<1>. DEFINE n == Len(operands)
<1>0. \A i \in 1..n : operands[i] \in Operation
  OBVIOUS
<1>1. n \in Nat /\ MaxValue \in Nat /\ \A i \in 1..n : operands[i].delta \in 0..MaxValue
  BY <1>0, WriteBufferAssumption DEF Operation, Number
<1>2. PICK f \in [0..n -> Number] :
           /\ f[0] = 0
           /\ \A i \in 1..n :
                f[i] = IF operands[i].op = kind
                       THEN SaturatingAdd(f[i - 1], operands[i].delta) ELSE f[i - 1]
           /\ Total(kind, operands) = f[n]
  BY TotalSteps
<1>3. \A i \in 0..n : f[i] \in 0..MaxValue
  BY DEF Number
<1>. DEFINE P == {i \in 0..n : f[n - i] < MaxValue}
<1>4. 0 \in P
  BY <1>1, <1>2
<1>5. ASSUME NEW i \in 1..n, i - 1 \in P PROVE i \in P
  <2>1. /\ n - i \in 0..n /\ n - i + 1 \in 1..n /\ i \in 0..n
        /\ (n - i + 1) - 1 = n - i /\ n - (i - 1) = n - i + 1
    BY <1>1
  <2>2. f[n - i + 1] < MaxValue
    BY <1>5, <2>1
  <2>3. f[n - i + 1] = IF operands[n - i + 1].op = kind
                       THEN SaturatingAdd(f[n - i], operands[n - i + 1].delta) ELSE f[n - i]
    BY <1>2, <2>1
  <2>4. f[n - i] \in 0..MaxValue /\ operands[n - i + 1].delta \in 0..MaxValue
    BY <1>1, <1>3, <2>1
  <2>5. f[n - i] < MaxValue
    BY <1>1, <2>2, <2>3, <2>4 DEF SaturatingAdd
  <2>. QED BY <2>1, <2>5
<1>6. \A i \in 1..n : i - 1 \in P => i \in P
  BY <1>5
<1>7. \A i \in 0..n : i \in P
  <2>. HIDE DEF P, n
  <2>. QED BY <1>1, <1>4, <1>6, UpTo, Zenon
<1>8. ASSUME NEW i \in 1..n
      PROVE  f[i] = IF operands[i].op = kind THEN f[i - 1] + operands[i].delta ELSE f[i - 1]
  <2>1. n - i \in P /\ n - (n - i) = i
    BY SMTT(30), <1>1, <1>7
  <2>2. f[i] < MaxValue
    BY <2>1
  <2>3. f[i - 1] \in 0..MaxValue /\ operands[i].delta \in 0..MaxValue
    BY <1>1, <1>3
  <2>. QED BY <1>1, <1>2, <2>2, <2>3 DEF SaturatingAdd
<1>. QED BY <1>2, <1>8

\* A value a reached from z by additions that sum to u and subtractions that
\* sum to d.
Balanced(a, d, z, u) == a + d = z + u

\* One more addition or subtraction.
LEMMA BalanceMoves ==
  ASSUME NEW a \in Nat, NEW d \in Nat, NEW z \in Nat, NEW u \in Nat, NEW x \in Nat, NEW b \in Nat,
         Balanced(a, d, z, u)
  PROVE  /\ b = a + x => Balanced(b, d, z, u + x)
         /\ a = b + x => Balanced(b, d + x, z, u)
BY DEF Balanced

\* The net change leads from the first value to the last.
LEMMA NetIsExact ==
  ASSUME NEW a \in Number, NEW d \in Number, NEW z \in Number, NEW u \in Number,
         Balanced(a, d, z, u), d < MaxValue, u < MaxValue
  PROVE  Net(u, d) \in Operation /\ Exact(z, Net(u, d), a) /\ Net(u, d).delta < MaxValue
<1>. DEFINE m == Net(u, d)
<1>1. MaxValue \in Nat /\ a \in 0..MaxValue /\ d \in 0..MaxValue /\ z \in 0..MaxValue /\ u \in 0..MaxValue
  BY WriteBufferAssumption DEF Number
<1>2. CASE u >= d
  <2>. DEFINE e == u - d
  <2>1. e \in 0..MaxValue /\ e < MaxValue /\ a = z + e
    BY <1>1, <1>2 DEF Balanced
  <2>2. m = [op |-> "increment", delta |-> e]
    BY <1>2 DEF Net
  <2>. HIDE DEF e, m
  <2>3. m.op = "increment" /\ m.delta = e /\ m \in Operation
    BY <2>1, <2>2 DEF Operation, Number
  <2>4. Exact(z, m, a)
    BY <2>1, <2>3 DEF Exact
  <2>. QED BY <2>1, <2>3, <2>4 DEF m
<1>3. CASE ~(u >= d)
  <2>. DEFINE e == d - u
  <2>1. e \in 0..MaxValue /\ e < MaxValue /\ z = a + e
    BY <1>1, <1>3 DEF Balanced
  <2>2. m = [op |-> "decrement", delta |-> e]
    BY <1>3 DEF Net
  <2>. HIDE DEF e, m
  <2>3. m.op = "decrement" /\ m.delta = e /\ m \in Operation
    BY <2>1, <2>2 DEF Operation, Number
  <2>4. Exact(z, m, a)
    BY <2>1, <2>3 DEF Exact
  <2>. QED BY <2>1, <2>3, <2>4 DEF m
<1>. QED BY <1>2, <1>3

\* create_partial_merge_operator: operands none of which saturates are one
\* exact operation from the value before them to the value after.
LEMMA PartialMergeIsExact ==
  ASSUME NEW base \in Number \cup {Absent}, NEW operands \in Seq(Operation),
         NEW v, Counted(base, operands, v),
         Total("increment", operands) < MaxValue, Total("decrement", operands) < MaxValue
  PROVE  /\ PartialMerge(operands) \in Operation
         /\ Exact(v[0], PartialMerge(operands), v[Len(operands)])
         /\ PartialMerge(operands).delta < MaxValue
<1>. DEFINE n == Len(operands)
<1>0. \A i \in 1..n : operands[i] \in Operation
  OBVIOUS
<1>1. /\ n \in Nat /\ Number \subseteq Nat
      /\ \A i \in 1..n : /\ operands[i].delta \in Nat
                         /\ operands[i].op \in {"increment", "decrement"}
  BY <1>0, WriteBufferAssumption DEF Operation, Number
<1>2. PICK up \in [0..n -> Number] :
           /\ up[0] = 0
           /\ \A i \in 1..n : up[i] = IF operands[i].op = "increment"
                                      THEN up[i - 1] + operands[i].delta ELSE up[i - 1]
           /\ Total("increment", operands) = up[n]
  BY TotalIsExact
<1>3. PICK down \in [0..n -> Number] :
           /\ down[0] = 0
           /\ \A i \in 1..n : down[i] = IF operands[i].op = "decrement"
                                        THEN down[i - 1] + operands[i].delta ELSE down[i - 1]
           /\ Total("decrement", operands) = down[n]
  BY TotalIsExact
<1>4. /\ \A i \in 1..n : Exact(v[i - 1], operands[i], v[i])
      /\ \A i \in 0..n : v[i] \in Number /\ up[i] \in Number /\ down[i] \in Number
  BY DEF Counted
<1>4a. \A i \in 0..n : v[i] \in Nat /\ up[i] \in Nat /\ down[i] \in Nat
  BY <1>4, WriteBufferAssumption DEF Number
<1>4b. 0 \in 0..n /\ \A i \in 1..n : i \in 0..n /\ i - 1 \in 0..n
  BY <1>1
<1>. DEFINE P == {i \in 0..n : Balanced(v[i], down[i], v[0], up[i])}
<1>5. 0 \in P
  <2>1. v[0] \in Nat
    BY <1>4a, <1>4b
  <2>. QED BY <1>2, <1>3, <1>4b, <2>1 DEF Balanced
<1>6. ASSUME NEW i \in 1..n, i - 1 \in P PROVE i \in P
  <2>1. Balanced(v[i - 1], down[i - 1], v[0], up[i - 1])
    BY <1>6
  <2>2. /\ i \in 0..n /\ i - 1 \in 0..n /\ 0 \in 0..n
        /\ v[i - 1] \in Nat /\ up[i - 1] \in Nat /\ down[i - 1] \in Nat
        /\ v[i] \in Nat /\ v[0] \in Nat /\ operands[i].delta \in Nat
    BY <1>1, <1>4a, <1>4b
  <2>3. ASSUME operands[i].op = "increment" PROVE Balanced(v[i], down[i], v[0], up[i])
    <3>1. v[i] = v[i - 1] + operands[i].delta
      BY <1>4, <2>3 DEF Exact
    <3>2. up[i] = up[i - 1] + operands[i].delta
      BY <1>2, <2>3
    <3>3. down[i] = down[i - 1]
      BY <1>3, <2>3
    <3>4. Balanced(v[i], down[i - 1], v[0], up[i - 1] + operands[i].delta)
      BY <2>1, <2>2, <3>1, BalanceMoves, Zenon
    <3>. QED BY <3>2, <3>3, <3>4
  <2>4. ASSUME operands[i].op = "decrement" PROVE Balanced(v[i], down[i], v[0], up[i])
    <3>1. v[i - 1] = v[i] + operands[i].delta
      BY <1>4, <2>4 DEF Exact
    <3>2. up[i] = up[i - 1]
      BY <1>2, <2>4
    <3>3. down[i] = down[i - 1] + operands[i].delta
      BY <1>3, <2>4
    <3>4. Balanced(v[i], down[i - 1] + operands[i].delta, v[0], up[i - 1])
      BY <2>1, <2>2, <3>1, BalanceMoves, Zenon
    <3>. QED BY <3>2, <3>3, <3>4
  <2>. QED BY <1>1, <2>2, <2>3, <2>4
<1>7. \A i \in 1..n : i - 1 \in P => i \in P
  BY <1>6
<1>8. \A i \in 0..n : i \in P
  <2>. HIDE DEF P, n
  <2>. QED BY <1>1, <1>5, <1>7, UpTo, Zenon
<1>9. Balanced(v[n], down[n], v[0], up[n])
  BY <1>1, <1>8
<1>10. PartialMerge(operands) = Net(up[n], down[n])
  BY <1>2, <1>3 DEF PartialMerge
<1>11. v[n] \in Number /\ down[n] \in Number /\ v[0] \in Number /\ up[n] \in Number
  BY <1>1, <1>4
<1>12. up[n] < MaxValue /\ down[n] < MaxValue
  BY <1>2, <1>3
<1>. QED BY <1>9, <1>10, <1>11, <1>12, NetIsExact

\* The totals of a single operand.
LEMMA TotalOfOne ==
  ASSUME NEW kind, NEW o \in Operation, o.delta < MaxValue
  PROVE  Total(kind, <<o>>) < MaxValue
<1>. DEFINE operands == <<o>>
<1>1. operands \in Seq(Operation) /\ Len(operands) = 1 /\ operands[1] = o
  OBVIOUS
<1>2. MaxValue \in Nat /\ o.delta \in 0..MaxValue
  BY WriteBufferAssumption DEF Operation, Number
<1>. HIDE DEF operands
<1>3. PICK f \in [0..Len(operands) -> Number] :
           /\ f[0] = 0
           /\ \A i \in 1..Len(operands) :
                f[i] = IF operands[i].op = kind
                       THEN SaturatingAdd(f[i - 1], operands[i].delta) ELSE f[i - 1]
           /\ Total(kind, operands) = f[Len(operands)]
  BY <1>1, TotalSteps
<1>4. f[1] = IF o.op = kind THEN SaturatingAdd(0, o.delta) ELSE 0
  <2>1. 1 \in 1..Len(operands) /\ 1 - 1 = 0
    BY <1>1
  <2>. QED BY <1>1, <1>3, <2>1
<1>5. f[1] < MaxValue
  BY <1>2, <1>4 DEF SaturatingAdd
<1>. QED BY <1>1, <1>3, <1>5 DEF operands

----------------------------------------------------------------------------
(* What RocksDB holds for a key.                                           *)

Row == [base : Number \cup {Absent}, operands : Seq(Operation)]

\* Row holds value x: as its base, or through operands that lead to it without
\* saturating and have totals a partial merge computes.
Holds(row, x) ==
  /\ row \in Row
  /\ row.operands = <<>> => x = row.base
  /\ row.operands # <<>> =>
       /\ Total("increment", row.operands) < MaxValue
       /\ Total("decrement", row.operands) < MaxValue
       /\ \E v : Counted(row.base, row.operands, v) /\ x = v[Len(row.operands)]

\* A read of RocksDB returns it.
LEMMA HoldsStored ==
  ASSUME NEW k, NEW x, Holds(store[k], x)
  PROVE  Stored(k) = x /\ x \in Number \cup {Absent}
<1>1. store[k].base \in Number \cup {Absent} /\ store[k].operands \in Seq(Operation)
  BY DEF Holds, Row
<1>2. CASE store[k].operands = <<>>
  BY <1>1, <1>2 DEF Holds, Stored
<1>3. CASE store[k].operands # <<>>
  <2>1. PICK v : Counted(store[k].base, store[k].operands, v) /\ x = v[Len(store[k].operands)]
    BY <1>3 DEF Holds
  <2>2. Stored(k) = x
    BY <1>1, <1>3, <2>1, FullMergeIsExact DEF Stored
  <2>3. Len(store[k].operands) \in 0..Len(store[k].operands)
    BY <1>1
  <2>4. x \in Number
    BY <2>1, <2>3 DEF Counted
  <2>. QED BY <2>2, <2>4
<1>. QED BY <1>2, <1>3

\* A put or a delete.
LEMMA HoldsBase ==
  ASSUME NEW x \in Number \cup {Absent}
  PROVE  Holds([base |-> x, operands |-> <<>>], x)
BY DEF Holds, Row

\* One more operand.
LEMMA HoldsAppend ==
  ASSUME NEW row, NEW x, Holds(row, x), NEW o \in Operation, NEW y \in Number,
         Exact(OrZero(x), o, y),
         Total("increment", Append(row.operands, o)) < MaxValue,
         Total("decrement", Append(row.operands, o)) < MaxValue
  PROVE  Holds([row EXCEPT !.operands = Append(@, o)], y)
<1>. DEFINE r == [row EXCEPT !.operands = Append(@, o)]
            n == Len(row.operands)
<1>1. row \in Row /\ row.base \in Number \cup {Absent} /\ row.operands \in Seq(Operation)
  BY DEF Holds, Row
<1>2. /\ r.base = row.base /\ r.operands = Append(row.operands, o) /\ r \in Row
      /\ Len(r.operands) = n + 1 /\ r.operands # <<>> /\ n \in Nat
      /\ r.operands[n + 1] = o /\ \A i \in 1..n : r.operands[i] = row.operands[i]
  BY <1>1 DEF Row
<1>3. PICK v : Counted(row.base, row.operands, v) /\ v[n] = OrZero(x)
  <2>1. CASE row.operands = <<>>
    <3>. DEFINE v == [i \in 0..0 |-> OrZero(row.base)]
    <3>1. OrZero(row.base) \in Number
      BY <1>1, WriteBufferAssumption DEF OrZero, Number
    <3>2. Len(row.operands) = 0 /\ x = row.base
      BY <2>1 DEF Holds
    <3>3. Counted(row.base, row.operands, v) /\ v[n] = OrZero(x)
      BY <3>1, <3>2 DEF Counted
    <3>. QED BY <3>3
  <2>2. CASE row.operands # <<>>
    <3>1. PICK v : Counted(row.base, row.operands, v) /\ x = v[n]
      BY <2>2 DEF Holds
    <3>2. x \in Number
      BY <1>2, <3>1 DEF Counted
    <3>3. OrZero(x) = x
      BY <3>2, AbsentAssumption DEF OrZero
    <3>. QED BY <3>1, <3>3
  <2>. QED BY <2>1, <2>2
<1>. DEFINE w == [i \in 0..(n + 1) |-> IF i = n + 1 THEN y ELSE v[i]]
<1>4. \A i \in 0..n : v[i] \in Number
  BY <1>3 DEF Counted
<1>5. w \in [0..(n + 1) -> Number]
  BY <1>2, <1>4
<1>6. /\ w[0] = v[0] /\ w[n] = v[n] /\ w[n + 1] = y
      /\ \A i \in 1..n : w[i] = v[i] /\ w[i - 1] = v[i - 1]
  BY <1>2
<1>. HIDE DEF w, r
<1>7. ASSUME NEW i \in 1..(n + 1) PROVE Exact(w[i - 1], r.operands[i], w[i])
  <2>1. CASE i = n + 1
    <3>1. i - 1 = n
      BY <1>2, <2>1
    <3>. QED BY <1>2, <1>3, <1>6, <2>1, <3>1
  <2>2. CASE i # n + 1
    <3>1. i \in 1..n
      BY <1>2, <2>2
    <3>2. Exact(v[i - 1], row.operands[i], v[i])
      BY <1>3, <3>1 DEF Counted
    <3>. QED BY <1>2, <1>6, <3>1, <3>2
  <2>. QED BY <2>1, <2>2
<1>8. Counted(r.base, r.operands, w)
  BY <1>2, <1>3, <1>5, <1>6, <1>7 DEF Counted
<1>. QED BY <1>2, <1>6, <1>8 DEF Holds, r

\* Compaction of several operands into one.
LEMMA HoldsPartial ==
  ASSUME NEW row, NEW x, Holds(row, x), row.operands # <<>>
  PROVE  Holds([row EXCEPT !.operands = <<PartialMerge(row.operands)>>], x)
<1>. DEFINE o == PartialMerge(row.operands)
            r == [row EXCEPT !.operands = <<o>>]
            n == Len(row.operands)
<1>1. row \in Row /\ row.base \in Number \cup {Absent} /\ row.operands \in Seq(Operation)
  BY DEF Holds, Row
<1>2. PICK v : Counted(row.base, row.operands, v) /\ x = v[n]
  BY DEF Holds
<1>3. o \in Operation /\ Exact(v[0], o, x) /\ o.delta < MaxValue
  BY <1>1, <1>2, PartialMergeIsExact DEF Holds
<1>4. v[0] \in Number /\ x \in Number /\ v[0] = OrZero(row.base)
  BY <1>1, <1>2 DEF Counted
<1>. HIDE DEF o
<1>5. /\ r.base = row.base /\ r.operands = <<o>> /\ r \in Row
      /\ Len(r.operands) = 1 /\ r.operands # <<>> /\ r.operands[1] = o
  <2>1. <<o>> \in Seq(Operation) /\ Len(<<o>>) = 1 /\ <<o>> # <<>> /\ <<o>>[1] = o
    BY <1>3
  <2>. DEFINE s == <<o>>
  <2>2. [row EXCEPT !.operands = s] = [base |-> row.base, operands |-> s]
    BY <1>1 DEF Row
  <2>. HIDE DEF s
  <2>3. /\ [row EXCEPT !.operands = s].base = row.base
        /\ [row EXCEPT !.operands = s].operands = s
    BY <2>2
  <2>4. s \in Seq(Operation) => [row EXCEPT !.operands = s] \in Row
    BY <1>1, <2>2 DEF Row
  <2>. QED BY <2>1, <2>3, <2>4 DEF s
<1>. DEFINE w == [i \in 0..1 |-> IF i = 0 THEN v[0] ELSE x]
<1>6. w \in [0..1 -> Number] /\ w[0] = v[0] /\ w[1] = x
  BY <1>4
<1>. HIDE DEF w, r
<1>7. ASSUME NEW i \in 1..1 PROVE Exact(w[i - 1], r.operands[i], w[i])
  <2>1. i = 1 /\ i - 1 = 0
    OBVIOUS
  <2>. QED BY <1>3, <1>5, <1>6, <2>1
<1>8. Counted(r.base, r.operands, w)
  BY <1>4, <1>5, <1>6, <1>7 DEF Counted
<1>9. Total("increment", r.operands) < MaxValue /\ Total("decrement", r.operands) < MaxValue
  BY <1>3, <1>5, TotalOfOne
<1>10. Holds(r, x)
  BY <1>5, <1>6, <1>8, <1>9 DEF Holds
<1>. QED BY <1>10 DEF r, o

----------------------------------------------------------------------------
(* The inductive invariant.                                                *)

\* Callers keep their counts between 0 and MaxValue, and no table that is
\* counted in has its keys deleted: an increment after a delete in the same
\* task replaces the delete (merge_op).
CountersInRange == ~Saturating /\ Deletable \cap Mergeable = {}

Values == [Key -> Number \cup {Absent}]

\* What the buffer of task t says of key k leads from its value b when the
\* task began to r.
Buffered(t, k, b, r) ==
  /\ k \notin DOMAIN t.buffer => r = b
  /\ k \in DOMAIN t.buffer =>
       LET a == t.buffer[k] IN
       \/ a.action = "set" /\ a.value \in Number /\ r = a.value
       \/ a.action = "delete" /\ a.value = Absent /\ r = Absent /\ k \notin Mergeable
       \/ a.action = "merge" /\ a.value \in Operation /\ r \in Number /\ Exact(OrZero(b), a.value, r)

\* A task that records originals has those of exactly the keys it changes.
Original(t, k, b) ==
  t.mutable => /\ k \in DOMAIN t.originals <=> k \in DOMAIN t.buffer
               /\ k \in DOMAIN t.originals => t.originals[k] = b

Types == store \in [Key -> Row] /\ ref \in Values /\ back \in Values
Idle == task = Absent => \A k \in Key : Holds(store[k], ref[k])
Busy == task # Absent =>
          /\ task \in IndexingTask /\ undo = Absent
          /\ \A k \in Key : /\ Holds(store[k], back[k])
                            /\ Buffered(task, k, back[k], ref[k])
                            /\ Original(task, k, back[k])
Undoable == undo # Absent =>
              \A k \in Key : /\ k \in DOMAIN undo => undo[k] = back[k]
                             /\ k \notin DOMAIN undo => ref[k] = back[k]

WInv == Types /\ Idle /\ Busy /\ Undoable

\* e is f with the value v at k.
Extends(e, f, k, v) ==
  /\ DOMAIN e = DOMAIN f \cup {k}
  /\ e[k] = v
  /\ \A i \in DOMAIN f : i # k => e[i] = f[i]

\* A function extended at one more key.
LEMMA ExtendedPartial ==
  ASSUME NEW S, NEW f \in Partial(S), NEW k \in Key, NEW v \in S
  PROVE  Extended(f, k, v) \in Partial(S) /\ Extends(Extended(f, k, v), f, k, v)
<1>1. PICK keys \in SUBSET Key : f \in [keys -> S]
  BY DEF Partial
<1>2. keys \cup {k} \in SUBSET Key /\ Extended(f, k, v) \in [keys \cup {k} -> S]
  BY <1>1 DEF Extended
<1>3. Extended(f, k, v) \in Partial(S)
  BY <1>2 DEF Partial
<1>4. \A i \in DOMAIN f \cup {k} : Extended(f, k, v)[i] = IF i = k THEN v ELSE f[i]
  BY DEF Extended
<1>. QED BY <1>3, <1>4 DEF Extended, Extends

\* maybe_store_original_kv and the insertion into the buffer, for a key whose
\* value in RocksDB is b.
LEMMA BufferStep ==
  ASSUME WInv, task # Absent, NEW k \in Key,
         NEW action \in {"set", "delete", "merge"},
         NEW value \in Number \cup {Absent} \cup Operation,
         Buffer(k, action, value)
  PROVE  /\ task' \in IndexingTask /\ task' # Absent
         /\ k \in DOMAIN task'.buffer
         /\ task'.buffer[k] = [action |-> action, value |-> value]
         /\ Original(task', k, back[k])
         /\ \A i \in Key : i # k =>
              /\ i \in DOMAIN task'.buffer <=> i \in DOMAIN task.buffer
              /\ i \in DOMAIN task.buffer => task'.buffer[i] = task.buffer[i]
              /\ Original(task', i, back[i])
<1>. DEFINE a == [action |-> action, value |-> value]
            b == Extended(task.buffer, k, a)
            o == MaybeStoreOriginal(k)
<1>1. /\ task \in IndexingTask
      /\ task.buffer \in Partial(StorageAction) /\ task.originals \in Partial(Number \cup {Absent})
      /\ \A i \in Key : Holds(store[i], back[i]) /\ Original(task, i, back[i])
  BY DEF WInv, Busy, IndexingTask
<1>2. Stored(k) = back[k] /\ Stored(k) \in Number \cup {Absent}
  BY <1>1, HoldsStored
<1>3. a \in StorageAction
  BY DEF StorageAction
<1>4. /\ b \in Partial(StorageAction) /\ DOMAIN b = DOMAIN task.buffer \cup {k} /\ b[k] = a
      /\ \A i \in DOMAIN task.buffer : i # k => b[i] = task.buffer[i]
  <2>1. b \in Partial(StorageAction) /\ Extends(b, task.buffer, k, a)
    <3>. HIDE DEF a
    <3>. QED BY <1>1, <1>3, ExtendedPartial
  <2>. QED BY <2>1 DEF Extends
<1>5. /\ o \in Partial(Number \cup {Absent})
      /\ task.mutable => DOMAIN o = DOMAIN task.originals \cup {k}
      /\ task.mutable => \A i \in DOMAIN o : IF i \in DOMAIN task.originals THEN o[i] = task.originals[i]
                                             ELSE i = k /\ o[i] = back[k]
  <2>1. CASE task.mutable /\ k \notin DOMAIN task.originals
    <3>1. o = Extended(task.originals, k, Stored(k))
      BY <2>1 DEF MaybeStoreOriginal
    <3>. HIDE DEF o
    <3>2. /\ o \in Partial(Number \cup {Absent})
          /\ DOMAIN o = DOMAIN task.originals \cup {k}
          /\ o[k] = Stored(k)
          /\ \A i \in DOMAIN task.originals : i # k => o[i] = task.originals[i]
      <4>. DEFINE e == Extended(task.originals, k, Stored(k))
      <4>1. e \in Partial(Number \cup {Absent}) /\ Extends(e, task.originals, k, Stored(k))
        BY <1>1, <1>2, ExtendedPartial
      <4>. QED BY <3>1, <4>1 DEF Extends
    <3>. QED BY <1>2, <2>1, <3>2
  <2>2. CASE ~(task.mutable /\ k \notin DOMAIN task.originals)
    <3>1. o = task.originals
      BY <2>2 DEF MaybeStoreOriginal
    <3>. QED BY <1>1, <2>2, <3>1
  <2>. QED BY <2>1, <2>2
<1>. HIDE DEF a, b, o
<1>6. /\ task' = [buffer |-> b, originals |-> o, mutable |-> task.mutable]
      /\ task.mutable \in BOOLEAN
  BY <1>1 DEF Buffer, IndexingTask, a, b, o
<1>7. task'.buffer = b /\ task'.originals = o /\ task'.mutable = task.mutable
  BY <1>6
<1>8. task' \in IndexingTask
  BY <1>4, <1>5, <1>6 DEF IndexingTask
<1>9. task' # Absent
  BY <1>8, AbsentAssumption
<1>10. \A i \in Key : Original(task', i, back[i])
  <2>. SUFFICES ASSUME NEW i \in Key, task.mutable
                PROVE  /\ i \in DOMAIN o <=> i \in DOMAIN b
                       /\ i \in DOMAIN o => o[i] = back[i]
    BY <1>7 DEF Original
  <2>1. /\ i \in DOMAIN task.originals <=> i \in DOMAIN task.buffer
        /\ i \in DOMAIN task.originals => task.originals[i] = back[i]
    BY <1>1 DEF Original
  <2>. QED BY <1>4, <1>5, <2>1
<1>. QED BY <1>4, <1>7, <1>8, <1>9, <1>10 DEF a

\* An operation of a task on key k that leads to value r.
LEMMA TaskStep ==
  ASSUME WInv, task # Absent, NEW k \in Key,
         NEW action \in {"set", "delete", "merge"},
         NEW value \in Number \cup {Absent} \cup Operation,
         Buffer(k, action, value),
         NEW r \in Number \cup {Absent}, ref' = [ref EXCEPT ![k] = r],
         UNCHANGED <<store, undo, back>>,
         \/ action = "set" /\ value \in Number /\ r = value
         \/ action = "delete" /\ value = Absent /\ r = Absent /\ k \notin Mergeable
         \/ action = "merge" /\ value \in Operation /\ r \in Number /\ Exact(OrZero(back[k]), value, r)
  PROVE  WInv'
<1>1. /\ task' \in IndexingTask /\ task' # Absent
      /\ k \in DOMAIN task'.buffer
      /\ task'.buffer[k] = [action |-> action, value |-> value]
      /\ Original(task', k, back[k])
      /\ \A i \in Key : i # k =>
           /\ i \in DOMAIN task'.buffer <=> i \in DOMAIN task.buffer
           /\ i \in DOMAIN task.buffer => task'.buffer[i] = task.buffer[i]
           /\ Original(task', i, back[i])
  BY BufferStep
<1>2. /\ ref \in Values /\ undo = Absent /\ store \in [Key -> Row] /\ back \in Values
      /\ \A i \in Key : Holds(store[i], back[i]) /\ Buffered(task, i, back[i], ref[i])
  BY DEF WInv, Busy, Types
<1>3. ref' \in Values /\ ref'[k] = r /\ \A i \in Key : i # k => ref'[i] = ref[i]
  BY <1>2 DEF Values
<1>4. Types' /\ Idle' /\ Undoable'
  BY <1>1, <1>2, <1>3 DEF Types, Idle, Undoable
<1>5. task'.buffer[k].action = action /\ task'.buffer[k].value = value
  BY <1>1
<1>6. Buffered(task', k, back[k], r)
  BY <1>1, <1>5 DEF Buffered
<1>7. ASSUME NEW i \in Key, i # k PROVE Buffered(task', i, back[i], ref'[i])
  <2>1. Buffered(task, i, back[i], ref[i]) /\ ref'[i] = ref[i]
    BY <1>2, <1>3, <1>7
  <2>. QED BY <1>1, <1>7, <2>1 DEF Buffered
<1>8. ASSUME NEW i \in Key
      PROVE  /\ Holds(store'[i], back'[i])
             /\ Buffered(task', i, back'[i], ref'[i])
             /\ Original(task', i, back'[i])
  <2>1. store'[i] = store[i] /\ back'[i] = back[i]
    OBVIOUS
  <2>2. Holds(store[i], back[i]) /\ Original(task', i, back[i])
    BY <1>1, <1>2
  <2>3. Buffered(task', i, back[i], ref'[i])
    BY <1>3, <1>6, <1>7
  <2>. QED BY <2>1, <2>2, <2>3
<1>9. Busy'
  BY <1>1, <1>2, <1>8 DEF Busy
<1>. QED BY <1>4, <1>9 DEF WInv

\* begin_indexing_task
LEMMA BeginInv ==
  ASSUME WInv, NEW mutable \in BOOLEAN, Begin(mutable)
  PROVE  WInv'
<1>1. /\ task' = [buffer |-> NoFunction, originals |-> NoFunction, mutable |-> mutable]
      /\ task = Absent /\ back' = ref /\ undo' = Absent /\ store' = store /\ ref' = ref
  BY DEF Begin
<1>2. task'.buffer = NoFunction /\ task'.originals = NoFunction
  BY <1>1
<1>3. \A S : NoFunction \in Partial(S)
  <2>. SUFFICES ASSUME NEW S PROVE NoFunction \in Partial(S)
    OBVIOUS
  <2>1. NoFunction \in [{} -> S] /\ {} \in SUBSET Key
    BY DEF NoFunction
  <2>. QED BY <2>1 DEF Partial
<1>4. task' \in IndexingTask
  BY <1>1, <1>3 DEF IndexingTask
<1>5. DOMAIN NoFunction = {}
  BY DEF NoFunction
<1>6. task' # Absent
  BY <1>4, AbsentAssumption
<1>7. ASSUME NEW k \in Key
      PROVE  /\ Holds(store'[k], back'[k])
             /\ Buffered(task', k, back'[k], ref'[k])
             /\ Original(task', k, back'[k])
  <2>1. Holds(store[k], ref[k])
    BY <1>1 DEF WInv, Idle
  <2>. QED BY <1>1, <1>2, <1>5, <2>1 DEF Buffered, Original
<1>8. Types' /\ Idle' /\ Undoable'
  BY <1>1, <1>6 DEF WInv, Types, Idle, Undoable
<1>9. Busy'
  BY <1>1, <1>4, <1>7 DEF Busy
<1>. QED BY <1>8, <1>9 DEF WInv

\* set
LEMMA SetInv ==
  ASSUME WInv, NEW k \in Key, NEW v \in Number, Set(k, v)
  PROVE  WInv'
<1>1. v \in Number \cup {Absent} \cup Operation /\ v \in Number \cup {Absent}
  OBVIOUS
<1>2. /\ task # Absent /\ Buffer(k, "set", v) /\ ref' = [ref EXCEPT ![k] = v]
      /\ UNCHANGED <<store, undo, back>>
  BY DEF Set
<1>. QED BY <1>1, <1>2, TaskStep

\* delete
LEMMA DeleteInv ==
  ASSUME WInv, NEW k \in Key, k \notin Mergeable, Delete(k)
  PROVE  WInv'
<1>1. Absent \in Number \cup {Absent} \cup Operation /\ Absent \in Number \cup {Absent}
  OBVIOUS
<1>2. /\ task # Absent /\ Buffer(k, "delete", Absent) /\ ref' = [ref EXCEPT ![k] = Absent]
      /\ UNCHANGED <<store, undo, back>>
  BY DEF Delete
<1>. QED BY <1>1, <1>2, TaskStep

\* increment and decrement, through merge_op: in range they are exact, on a
\* value the task set, on an operation it has buffered, or on the database's.
LEMMA MergeOpInv ==
  ASSUME WInv, CountersInRange, NEW k \in Key, k \in Mergeable, NEW o \in Operation, MergeOp(k, o)
  PROVE  WInv'
<1>. DEFINE r == ApplyMerge(o, OrZero(ref[k]))
            a == task.buffer[k]
<1>1. /\ task # Absent /\ InRange(k, o) /\ ref' = [ref EXCEPT ![k] = r]
      /\ UNCHANGED <<store, undo, back>>
      /\ IF k \in DOMAIN task.buffer /\ a.action = "set"
         THEN Buffer(k, "set", ApplyMerge(o, a.value))
         ELSE IF k \in DOMAIN task.buffer /\ a.action = "merge"
         THEN Buffer(k, "merge", CombineMergeOperations(a.value, o))
         ELSE Buffer(k, "merge", o)
  <2>1. InRange(k, o)
    BY DEF MergeOp, CountersInRange
  <2>. QED BY <2>1 DEF MergeOp
<1>2. /\ ref[k] \in Number \cup {Absent} /\ back[k] \in Number \cup {Absent}
      /\ Buffered(task, k, back[k], ref[k])
  BY <1>1 DEF WInv, Types, Busy, Values
<1>3. OrZero(ref[k]) \in Number /\ OrZero(back[k]) \in Number
  BY <1>2, WriteBufferAssumption DEF OrZero, Number
<1>4. Exact(OrZero(ref[k]), o, r) /\ r \in Number
  <2>1. MaxValue \in Nat /\ OrZero(ref[k]) \in 0..MaxValue /\ o.delta \in 0..MaxValue
    BY <1>3, WriteBufferAssumption DEF Number, Operation
  <2>2. r \in Number
    BY <1>3, ApplyMergeType
  <2>3. Exact(OrZero(ref[k]), o, r)
    BY <1>1, <2>1 DEF InRange, Exact, ApplyMerge, SaturatingAdd, SaturatingSub
  <2>. QED BY <2>2, <2>3
<1>5. r \in Number \cup {Absent} /\ r \in Number \cup {Absent} \cup Operation
  BY <1>4
<1>. HIDE DEF r
<1>6. CASE k \in DOMAIN task.buffer /\ a.action = "set"
  <2>1. a.value \in Number /\ ref[k] = a.value
    BY <1>2, <1>6 DEF Buffered
  <2>2. OrZero(ref[k]) = a.value
    BY <2>1, AbsentAssumption DEF OrZero
  <2>3. Buffer(k, "set", r)
    BY <1>1, <1>6, <2>2 DEF r
  <2>. QED BY <1>1, <1>4, <1>5, <2>3, TaskStep
<1>7. CASE k \in DOMAIN task.buffer /\ a.action = "merge"
  <2>1. a.value \in Operation /\ ref[k] \in Number /\ Exact(OrZero(back[k]), a.value, ref[k])
    BY <1>2, <1>7 DEF Buffered
  <2>2. OrZero(ref[k]) = ref[k]
    BY <2>1, AbsentAssumption DEF OrZero
  <2>. DEFINE c == CombineMergeOperations(a.value, o)
  <2>3. c \in Operation /\ Exact(OrZero(back[k]), c, r)
    BY <1>3, <1>4, <2>1, <2>2, ExactCombines
  <2>4. Buffer(k, "merge", c)
    BY <1>1, <1>7
  <2>5. c \in Number \cup {Absent} \cup Operation
    BY <2>3
  <2>. HIDE DEF c
  <2>. QED BY <1>1, <1>4, <1>5, <2>3, <2>4, <2>5, TaskStep
<1>8. CASE k \notin DOMAIN task.buffer
  <2>1. ref[k] = back[k] /\ Buffer(k, "merge", o)
    BY <1>1, <1>2, <1>8 DEF Buffered
  <2>2. o \in Number \cup {Absent} \cup Operation
    OBVIOUS
  <2>. QED BY <1>1, <1>4, <1>5, <2>1, <2>2, TaskStep
<1>9. k \in DOMAIN task.buffer => a.action = "set" \/ a.action = "merge"
  BY <1>2 DEF Buffered
<1>. QED BY <1>6, <1>7, <1>8, <1>9

\* apply_indexing_task: each key of the batch gets its value, or one operand
\* more that leads to it.
LEMMA CommitInv ==
  ASSUME WInv, CountersInRange, Commit
  PROVE  WInv'
<1>1. /\ task # Absent /\ task' = Absent /\ ref' = ref /\ back' = back
      /\ store' = [k \in Key |-> IF k \in DOMAIN task.buffer
                                 THEN Written(store[k], task.buffer[k]) ELSE store[k]]
      /\ \A k \in Key : Room(store'[k].operands)
      /\ undo' = IF task.mutable THEN task.originals ELSE Absent
  BY DEF Commit
<1>2. /\ task \in IndexingTask /\ ref \in Values /\ back \in Values
      /\ \A k \in Key : /\ Holds(store[k], back[k])
                        /\ Buffered(task, k, back[k], ref[k])
                        /\ Original(task, k, back[k])
  BY <1>1 DEF WInv, Busy, Types
<1>3. ASSUME NEW k \in Key PROVE Holds(store'[k], ref[k])
  <2>1. Holds(store[k], back[k]) /\ Buffered(task, k, back[k], ref[k])
    BY <1>2
  <2>2. CASE k \notin DOMAIN task.buffer
    <3>1. store'[k] = store[k] /\ ref[k] = back[k]
      BY <1>1, <2>1, <2>2 DEF Buffered
    <3>. QED BY <2>1, <3>1
  <2>3. CASE k \in DOMAIN task.buffer
    <3>. DEFINE a == task.buffer[k]
    <3>1. store'[k] = Written(store[k], a)
      BY <1>1, <2>3
    <3>2. CASE a.action = "merge"
      <4>1. a.value \in Operation /\ ref[k] \in Number /\ Exact(OrZero(back[k]), a.value, ref[k])
        BY <2>1, <2>3, <3>2 DEF Buffered
      <4>2. store'[k] = [store[k] EXCEPT !.operands = Append(@, a.value)]
        BY <3>1, <3>2 DEF Written
      <4>3. store'[k].operands = Append(store[k].operands, a.value)
        BY <2>1, <4>2 DEF Holds, Row
      <4>4. /\ Total("increment", Append(store[k].operands, a.value)) < MaxValue
            /\ Total("decrement", Append(store[k].operands, a.value)) < MaxValue
        BY <1>1, <4>3 DEF Room, CountersInRange
      <4>. HIDE DEF a
      <4>. QED BY <2>1, <4>1, <4>2, <4>4, HoldsAppend
    <3>3. CASE a.action # "merge"
      <4>1. a.value = ref[k] /\ ref[k] \in Number \cup {Absent}
        BY <2>1, <2>3, <3>3 DEF Buffered
      <4>2. store'[k] = [base |-> ref[k], operands |-> <<>>]
        BY <3>1, <3>3, <4>1 DEF Written
      <4>. QED BY <4>1, <4>2, HoldsBase
    <3>. QED BY <3>2, <3>3
  <2>. QED BY <2>2, <2>3
<1>4. store' \in [Key -> Row]
  <2>1. \A k \in Key : store'[k] \in Row
    BY <1>3 DEF Holds
  <2>2. store' = [k \in Key |-> store'[k]]
    BY <1>1
  <2>. QED BY <2>1, <2>2
<1>5. Types' /\ Idle' /\ Busy'
  BY <1>1, <1>2, <1>3, <1>4 DEF Types, Idle, Busy
<1>6. Undoable'
  <2>. SUFFICES ASSUME undo' # Absent, NEW k \in Key
                PROVE  /\ k \in DOMAIN undo' => undo'[k] = back[k]
                       /\ k \notin DOMAIN undo' => ref[k] = back[k]
    BY <1>1 DEF Undoable
  <2>1. task.mutable /\ undo' = task.originals
    BY <1>1
  <2>2. Original(task, k, back[k]) /\ Buffered(task, k, back[k], ref[k])
    BY <1>2
  <2>. QED BY <2>1, <2>2 DEF Original, Buffered
<1>. QED BY <1>5, <1>6 DEF WInv

\* A task dropped.
LEMMA AbortInv ==
  ASSUME WInv, Abort
  PROVE  WInv'
<1>1. /\ task # Absent /\ task' = Absent /\ ref' = back /\ store' = store
      /\ undo' = undo /\ back' = back /\ undo = Absent
      /\ \A k \in Key : Holds(store[k], back[k])
  BY DEF Abort, WInv, Busy
<1>. QED BY <1>1 DEF WInv, Types, Idle, Busy, Undoable

\* Stage::rollback_to_point
LEMMA RollbackInv ==
  ASSUME WInv, Rollback
  PROVE  WInv'
<1>1. /\ task = Absent /\ undo # Absent /\ ref' = back /\ undo' = Absent /\ task' = task
      /\ back' = back
      /\ store' = [k \in Key |-> IF k \in DOMAIN undo
                                 THEN [base |-> undo[k], operands |-> <<>>] ELSE store[k]]
  BY DEF Rollback
<1>2. ASSUME NEW k \in Key PROVE Holds(store'[k], back[k])
  <2>1. /\ Holds(store[k], ref[k]) /\ back[k] \in Number \cup {Absent}
        /\ k \in DOMAIN undo => undo[k] = back[k]
        /\ k \notin DOMAIN undo => ref[k] = back[k]
    BY <1>1 DEF WInv, Types, Idle, Undoable, Values
  <2>2. CASE k \in DOMAIN undo
    <3>1. store'[k] = [base |-> back[k], operands |-> <<>>]
      BY <1>1, <2>1, <2>2
    <3>. QED BY <2>1, <3>1, HoldsBase
  <2>3. CASE k \notin DOMAIN undo
    <3>1. store'[k] = store[k]
      BY <1>1, <2>3
    <3>. QED BY <2>1, <2>3, <3>1
  <2>. QED BY <2>2, <2>3
<1>3. store' \in [Key -> Row]
  <2>1. \A k \in Key : store'[k] \in Row
    BY <1>2 DEF Holds
  <2>2. store' = [k \in Key |-> store'[k]]
    BY <1>1
  <2>. QED BY <2>1, <2>2
<1>. QED BY <1>1, <1>2, <1>3 DEF WInv, Types, Idle, Busy, Undoable

\* Compaction changes how a key's value is held, not the value.
LEMMA CompactInv ==
  ASSUME WInv, NEW k \in Key, Compact(k)
  PROVE  WInv'
<1>1. UNCHANGED <<task, undo, ref, back>>
  BY DEF Compact
<1>2. store \in [Key -> Row] /\ ref \in Values /\ back \in Values
  BY DEF WInv, Types
<1>3. store[k].operands \in Seq(Operation) /\ store[k].base \in Number \cup {Absent}
  BY <1>2 DEF Row
<1>4. /\ \A i \in Key : i # k => store'[i] = store[i]
      /\ DOMAIN store' = Key /\ store' = [i \in Key |-> store'[i]]
      /\ \/ /\ store[k].operands # <<>>
            /\ store'[k] = [store[k] EXCEPT !.operands = <<PartialMerge(store[k].operands)>>]
         \/ store'[k] = [base |-> Stored(k), operands |-> <<>>]
  BY <1>2, <1>3 DEF Compact
<1>5. ASSUME NEW x, Holds(store[k], x) PROVE Holds(store'[k], x)
  <2>1. Stored(k) = x /\ x \in Number \cup {Absent}
    BY <1>5, HoldsStored
  <2>2. Holds([base |-> x, operands |-> <<>>], x)
    BY <2>1, HoldsBase
  <2>3. ASSUME store[k].operands # <<>>
        PROVE  Holds([store[k] EXCEPT !.operands = <<PartialMerge(store[k].operands)>>], x)
    BY <1>5, <2>3, HoldsPartial
  <2>. QED BY <1>4, <2>1, <2>2, <2>3
<1>6. ASSUME NEW i \in Key, NEW x, Holds(store[i], x) PROVE Holds(store'[i], x)
  BY <1>4, <1>5, <1>6
<1>7. PICK x : Holds(store[k], x)
  BY DEF WInv, Idle, Busy
<1>8. store' \in [Key -> Row]
  <2>1. store'[k] \in Row
    BY <1>5, <1>7 DEF Holds
  <2>2. \A i \in Key : store'[i] \in Row
    BY <1>2, <1>4, <2>1
  <2>. QED BY <1>4, <2>2
<1>9. Types' /\ Undoable'
  BY <1>1, <1>2, <1>8 DEF WInv, Types, Undoable
<1>10. Idle'
  BY <1>1, <1>6 DEF WInv, Idle
<1>11. Busy'
  <2>. SUFFICES ASSUME task # Absent
                PROVE  /\ task \in IndexingTask /\ undo = Absent
                       /\ \A i \in Key : /\ Holds(store'[i], back[i])
                                         /\ Buffered(task, i, back[i], ref[i])
                                         /\ Original(task, i, back[i])
    BY <1>1 DEF Busy
  <2>. QED BY <1>6 DEF WInv, Busy
<1>. QED BY <1>9, <1>10, <1>11 DEF WInv

\* The empty database.
LEMMA WInvInit ==
  ASSUME Init
  PROVE  WInv
<1>1. /\ store = [k \in Key |-> [base |-> Absent, operands |-> <<>>]]
      /\ task = Absent /\ undo = Absent /\ ref = [k \in Key |-> Absent] /\ back = ref
  BY DEF Init
<1>2. [base |-> Absent, operands |-> <<>>] \in Row
  BY DEF Row
<1>3. \A k \in Key : Holds(store[k], ref[k])
  <2>1. Holds([base |-> Absent, operands |-> <<>>], Absent)
    BY HoldsBase
  <2>. QED BY <1>1, <2>1
<1>. QED BY <1>1, <1>2, <1>3 DEF WInv, Types, Idle, Busy, Undoable, Values

\* Every step keeps the invariant.
LEMMA WInvNext ==
  ASSUME WInv, CountersInRange, [Next]_vars
  PROVE  WInv'
<1>0. Settable \subseteq Key /\ Deletable \subseteq Key /\ Mergeable \subseteq Key /\ Amount \subseteq Number
  BY WriteBufferAssumption DEF Number
<1>1. CASE UNCHANGED vars
  BY <1>1 DEF vars, WInv, Types, Idle, Busy, Undoable
<1>2. ASSUME NEW mutable \in BOOLEAN, Begin(mutable) PROVE WInv'
  BY <1>2, BeginInv
<1>3. ASSUME NEW k \in Settable, NEW v \in Number, Set(k, v) PROVE WInv'
  BY <1>0, <1>3, SetInv
<1>4. ASSUME NEW k \in Deletable, Delete(k) PROVE WInv'
  <2>1. k \in Key /\ k \notin Mergeable
    BY <1>0 DEF CountersInRange
  <2>. QED BY <1>4, <2>1, DeleteInv
<1>5. ASSUME NEW k \in Mergeable, NEW d \in Amount, NEW op \in {"increment", "decrement"},
             MergeOp(k, [op |-> op, delta |-> d])
      PROVE  WInv'
  <2>1. k \in Key /\ [op |-> op, delta |-> d] \in Operation
    BY <1>0 DEF Operation
  <2>. QED BY <1>5, <2>1, MergeOpInv
<1>6. CASE Commit
  BY <1>6, CommitInv
<1>7. CASE Abort
  BY <1>7, AbortInv
<1>8. CASE Rollback
  BY <1>8, RollbackInv
<1>9. ASSUME NEW k \in Key, Compact(k) PROVE WInv'
  BY <1>9, CompactInv
<1>. QED BY <1>1, <1>2, <1>3, <1>4, <1>5, <1>6, <1>7, <1>8, <1>9 DEF Next

----------------------------------------------------------------------------
(* The theorems.                                                           *)

\* Between tasks the store is what the committed operations give one by one,
\* for any number of keys, tasks, operands and compactions: buffering,
\* combining, partial merges and restored originals change nothing
\* (apply_indexing_task, create_merge_operator, rollback_to_point).
THEOREM CountersAreSequential ==
  ASSUME CountersInRange
  PROVE  Spec => []StoreIsSequential
<1>1. Init => WInv
  BY WInvInit
<1>2. WInv /\ [Next]_vars => WInv'
  BY WInvNext
<1>3. WInv => StoreIsSequential
  <2>. SUFFICES ASSUME WInv, task = Absent, NEW k \in Key PROVE Stored(k) = ref[k]
    BY DEF StoreIsSequential
  <2>1. Holds(store[k], ref[k])
    BY DEF WInv, Idle
  <2>. QED BY <2>1, HoldsStored
<1>. QED BY <1>1, <1>2, <1>3, PTL DEF Spec

\* Inside a task every read returns what the task's own operations have made
\* of the value, whatever mixture of puts, deletes and counts (get, get_inner).
THEOREM TasksReadTheirWrites ==
  ASSUME CountersInRange
  PROVE  Spec => []ReadsOwnWrites
<1>1. Init => WInv
  BY WInvInit
<1>2. WInv /\ [Next]_vars => WInv'
  BY WInvNext
<1>3. WInv => ReadsOwnWrites
  <2>. SUFFICES ASSUME WInv, task # Absent, NEW k \in Key PROVE Get(k) = ref[k]
    BY DEF ReadsOwnWrites
  <2>1. /\ Holds(store[k], back[k]) /\ Buffered(task, k, back[k], ref[k])
        /\ back[k] \in Number \cup {Absent}
    BY DEF WInv, Busy, Types, Values
  <2>2. Stored(k) = back[k]
    BY <2>1, HoldsStored
  <2>3. CASE k \notin DOMAIN task.buffer
    BY <2>1, <2>2, <2>3 DEF Get, Buffered
  <2>4. CASE k \in DOMAIN task.buffer
    <3>. DEFINE a == task.buffer[k]
    <3>1. \/ a.action = "set" /\ a.value \in Number /\ ref[k] = a.value
          \/ a.action = "delete" /\ a.value = Absent /\ ref[k] = Absent
          \/ a.action = "merge" /\ a.value \in Operation /\ ref[k] \in Number
             /\ Exact(OrZero(back[k]), a.value, ref[k])
      BY <2>1, <2>4 DEF Buffered
    <3>2. CASE a.action = "set"
      BY <2>4, <3>1, <3>2 DEF Get
    <3>3. CASE a.action = "delete"
      BY <2>4, <3>1, <3>3 DEF Get
    <3>4. CASE a.action = "merge"
      <4>1. OrZero(back[k]) \in Number
        BY <2>1, WriteBufferAssumption DEF OrZero, Number
      <4>2. ApplyMerge(a.value, OrZero(back[k])) = ref[k]
        BY <3>1, <3>4, <4>1, ExactApplies
      <4>3. Get(k) = GetInner(k, a.value)
        BY <2>4, <3>4 DEF Get
      <4>. QED BY <2>2, <4>2, <4>3 DEF GetInner
    <3>. QED BY <3>1, <3>2, <3>3, <3>4
  <2>. QED BY <2>3, <2>4
<1>. QED BY <1>1, <1>2, <1>3, PTL DEF Spec
=============================================================================
