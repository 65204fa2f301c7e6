------------------------------ MODULE NatOrder ------------------------------
(* Least and greatest elements of sets of naturals, for the proof modules.  *)
EXTENDS Naturals, TLAPS, WellFoundedInduction

\* A non-empty set of naturals has a least element.
LEMMA LeastNat ==
  ASSUME NEW T, T \subseteq Nat, T # {}
  PROVE  \E x \in T : \A y \in T : x <= y
<1>1. PICK x \in T : \A y \in T : ~ (<<y, x>> \in OpToRel(<, Nat))
  BY NatLessThanWellFounded, WFMin, Zenon
<1>2. \A y \in T : <<y, x>> \in Nat \X Nat
  OBVIOUS
<1>3. ASSUME NEW y \in T PROVE ~ (<<y, x>>[1] < <<y, x>>[2])
  BY <1>1, <1>2, Zenon DEF OpToRel
<1>4. \A y \in T : ~ (y < x)
  BY <1>3
<1>. QED BY <1>4

\* A non-empty set of naturals with an upper bound has a greatest element.
LEMMA GreatestNat ==
  ASSUME NEW n \in Nat, NEW T, T \subseteq 0..n, T # {}
  PROVE  \E x \in T : \A y \in T : y <= x
<1>. DEFINE U == {n - i : i \in T}
<1>1. \A i \in T : n - i \in Nat
  OBVIOUS
<1>2. U \subseteq Nat
  BY <1>1
<1>3. U # {}
  <2>1. PICK i \in T : TRUE
    OBVIOUS
  <2>2. n - i \in U
    BY <2>1
  <2>. QED BY <2>2
<1>4. PICK x \in U : \A y \in U : x <= y
  <2> HIDE DEF U
  <2>. QED BY <1>2, <1>3, LeastNat
<1>5. PICK i \in T : x = n - i
  BY <1>4
<1>6. \A j \in T : n - i <= n - j
  BY <1>4, <1>5
<1>7. \A j \in T : j <= i
  BY <1>6
<1>. QED BY <1>7

\* A strictly increasing function on 1..n into 1..n is the identity: the least
\* argument it would lower and the greatest it would raise do not exist.
LEMMA IncreasingIsIdentity ==
  ASSUME NEW n \in Nat, NEW f \in [1..n -> 1..n],
         \A i, j \in 1..n : i < j => f[i] < f[j]
  PROVE  \A i \in 1..n : f[i] = i
<1>. DEFINE L == {i \in 1..n : f[i] < i}
            G == {i \in 1..n : f[i] > i}
<1>0. \A i \in 1..n : f[i] \in 1..n
  OBVIOUS
<1>1. L = {}
  <2>. SUFFICES ASSUME L # {} PROVE FALSE
    OBVIOUS
  <2>1. L \subseteq Nat
    OBVIOUS
  <2>2. PICK i \in L : \A j \in L : i <= j
    BY <2>1, LeastNat
  <2>3. i \in 1..n /\ f[i] < i
    BY <2>2
  <2>4. f[i] \in 1..n /\ f[f[i]] < f[i]
    BY <1>0, <2>3
  <2>5. f[i] \in L
    BY <2>4
  <2>6. i <= f[i]
    <3>. HIDE DEF L
    <3>. QED BY <2>2, <2>5
  <2>. QED BY <2>3, <2>4, <2>6
<1>2. G = {}
  <2>. SUFFICES ASSUME G # {} PROVE FALSE
    OBVIOUS
  <2>1. G \subseteq 0..n
    OBVIOUS
  <2>2. PICK i \in G : \A j \in G : j <= i
    BY <2>1, GreatestNat
  <2>3. i \in 1..n /\ f[i] > i
    BY <2>2
  <2>4. f[i] \in 1..n /\ f[f[i]] > f[i]
    BY <1>0, <2>3
  <2>5. f[i] \in G
    BY <2>4
  <2>6. f[i] <= i
    <3>. HIDE DEF G
    <3>. QED BY <2>2, <2>5
  <2>. QED BY <2>3, <2>4, <2>6
<1>. QED BY <1>0, <1>1, <1>2

\* Induction up to n, for a property given as the set P of the numbers that
\* have it.
LEMMA UpTo ==
  ASSUME NEW n \in Nat, NEW P, 0 \in P, \A i \in 1..n : i - 1 \in P => i \in P
  PROVE  \A i \in 0..n : i \in P
<1>. DEFINE T == {i \in 0..n : i \notin P}
<1>. SUFFICES ASSUME T # {} PROVE FALSE
  OBVIOUS
<1>1. T \subseteq Nat
  OBVIOUS
<1>2. PICK x \in T : \A y \in T : x <= y
  BY <1>1, LeastNat
<1>3. x \in 1..n /\ x \notin P
  BY <1>2
<1>4. x - 1 \notin T
  BY <1>2, <1>3
<1>5. x - 1 \in P
  BY <1>3, <1>4
<1>. QED BY <1>3, <1>5

\* What it takes for f to be computed from s by the steps g[1], ..., g[n].
Computed(f, n, s, g) == f = [i \in 0..n |-> IF i = 0 THEN s ELSE g[i][f[i - 1]]]

\* A function computed step by step exists: a recursive definition over 0..n
\* has a solution.
LEMMA RecursionExists ==
  ASSUME NEW n \in Nat, NEW S, NEW s \in S, NEW g \in [1..n -> [S -> S]]
  PROVE  \E f \in [0..n -> S] : Computed(f, n, s, g)
<1>. DEFINE P == {m \in 0..n : \E f \in [0..m -> S] : Computed(f, m, s, g)}
<1>1. 0 \in P
  <2>. DEFINE f == [i \in 0..0 |-> s]
  <2>1. f \in [0..0 -> S] /\ Computed(f, 0, s, g)
    BY DEF Computed
  <2>. QED BY <2>1
<1>2. ASSUME NEW m \in 1..n, m - 1 \in P PROVE m \in P
  <2>1. PICK e \in [0..(m - 1) -> S] : Computed(e, m - 1, s, g)
    BY <1>2
  <2>. DEFINE f == [i \in 0..m |-> IF i = m THEN g[m][e[m - 1]] ELSE e[i]]
  <2>2. e[m - 1] \in S /\ g[m] \in [S -> S]
    OBVIOUS
  <2>3. f \in [0..m -> S]
    BY <2>2
  <2>4. \A i \in 0..(m - 1) : e[i] = IF i = 0 THEN s ELSE g[i][e[i - 1]]
    BY <2>1 DEF Computed
  <2>5. ASSUME NEW i \in 0..m PROVE f[i] = IF i = 0 THEN s ELSE g[i][f[i - 1]]
    <3>1. CASE i = m
      BY <3>1
    <3>2. CASE i # m
      <4>1. i \in 0..(m - 1) /\ f[i] = e[i]
        BY <3>2
      <4>2. i # 0 => i - 1 \in 0..(m - 1) /\ f[i - 1] = e[i - 1]
        BY <4>1
      <4>. QED BY <2>4, <4>1, <4>2
    <3>. QED BY <3>1, <3>2
  <2>6. Computed(f, m, s, g)
    <3>. DEFINE h == [i \in 0..m |-> IF i = 0 THEN s ELSE g[i][f[i - 1]]]
    <3>1. f \in [0..m -> S] /\ \A i \in 0..m : f[i] = h[i]
      <4>. HIDE DEF f
      <4>. QED BY <2>3, <2>5
    <3>2. DOMAIN f = 0..m /\ DOMAIN h = 0..m
      OBVIOUS
    <3>3. f = h
      <4>1. f = [i \in 0..m |-> f[i]] /\ h = [i \in 0..m |-> h[i]]
        OBVIOUS
      <4>. HIDE DEF f, h
      <4>. QED BY <3>1, <4>1
    <3>. QED BY <3>3 DEF Computed
  <2>. QED BY <2>3, <2>6
<1>3. n \in P
  <2>1. \A m \in 1..n : m - 1 \in P => m \in P
    BY <1>2
  <2>. HIDE DEF P
  <2>2. \A m \in 0..n : m \in P
    BY <1>1, <2>1, UpTo, Zenon
  <2>. QED BY <2>2
<1>. QED BY <1>3

----------------------------------------------------------------------------
(* Recursion along a tree: every node but the root has a parent one level  *)
(* below.                                                                  *)

Tree(B, root, prev, H) ==
  /\ root \in B /\ H \in [B -> Nat] /\ H[root] = 0
  /\ \A b \in B \ {root} : prev[b] \in B /\ H[b] = H[prev[b]] + 1

\* f is the recursion from s by the steps g, up to level n.
Solves(f, n, B, root, prev, H, S, s, g) ==
  /\ f \in [{b \in B : H[b] <= n} -> S]
  /\ \A b \in B : H[b] <= n => f[b] = IF b = root THEN s ELSE g[b][f[prev[b]]]

\* It exists up to every level.
LEMMA LevelExists ==
  ASSUME NEW B, NEW root, NEW prev, NEW H, Tree(B, root, prev, H),
         NEW S, NEW s \in S, NEW g \in [B -> [S -> S]], NEW n \in Nat
  PROVE  \E f : Solves(f, n, B, root, prev, H, S, s, g)
<1>. DEFINE Sol(f, m) == Solves(f, m, B, root, prev, H, S, s, g)
            P == {m \in 0..n : \E f : Sol(f, m)}
<1>0. /\ root \in B /\ H[root] = 0 /\ \A b \in B : H[b] \in Nat
      /\ \A b \in B \ {root} : prev[b] \in B /\ H[b] = H[prev[b]] + 1
  BY DEF Tree
<1>1. 0 \in P
  <2>. DEFINE L == {b \in B : H[b] <= 0}
              f == [b \in L |-> s]
  <2>1. \A b \in B : H[b] <= 0 => b = root
    BY <1>0
  <2>2. Sol(f, 0)
    BY <1>0, <2>1 DEF Solves
  <2>. QED BY <2>2
<1>2. ASSUME NEW m \in 1..n, m - 1 \in P PROVE m \in P
  <2>1. PICK e : Sol(e, m - 1)
    BY <1>2
  <2>. DEFINE L == {b \in B : H[b] <= m}
              K == {b \in B : H[b] <= m - 1}
              f == [b \in L |-> IF H[b] <= m - 1 THEN e[b] ELSE g[b][e[prev[b]]]]
  <2>2. /\ e \in [K -> S]
        /\ \A b \in B : H[b] <= m - 1 => e[b] = IF b = root THEN s ELSE g[b][e[prev[b]]]
    BY <2>1 DEF Solves
  <2>3. ASSUME NEW b \in L, b # root PROVE prev[b] \in K /\ prev[b] \in L
    BY <1>0, <2>3
  <2>4. ASSUME NEW b \in L, ~(H[b] <= m - 1) PROVE b # root
    BY <1>0, <2>4
  <2>5. ASSUME NEW b \in L PROVE f[b] \in S
    <3>1. CASE H[b] <= m - 1
      <4>1. b \in K
        BY <3>1
      <4>. QED BY <2>2, <3>1, <4>1
    <3>2. CASE ~(H[b] <= m - 1)
      <4>1. prev[b] \in K
        BY <2>3, <2>4, <3>2
      <4>2. e[prev[b]] \in S
        BY <2>2, <4>1
      <4>. QED BY <3>2, <4>2
    <3>. QED BY <3>1, <3>2
  <2>6. ASSUME NEW b \in L PROVE f[b] = IF b = root THEN s ELSE g[b][f[prev[b]]]
    <3>1. b # root => f[prev[b]] = e[prev[b]]
      BY <2>3
    <3>2. CASE H[b] <= m - 1
      BY <2>2, <3>1, <3>2
    <3>3. CASE ~(H[b] <= m - 1)
      BY <2>4, <3>1, <3>3
    <3>. QED BY <3>2, <3>3
  <2>7. Sol(f, m)
    <3>1. f \in [L -> S]
      BY <2>5
    <3>2. \A b \in B : H[b] <= m => b \in L
      OBVIOUS
    <3>. HIDE DEF f
    <3>. QED BY <2>6, <3>1, <3>2 DEF Solves
  <2>. HIDE DEF Sol
  <2>. QED BY <2>7
<1>3. \A m \in 1..n : m - 1 \in P => m \in P
  BY <1>2
<1>4. n \in P
  <2>. HIDE DEF P
  <2>1. \A m \in 0..n : m \in P
    BY <1>1, <1>3, UpTo, Zenon
  <2>. QED BY <2>1
<1>. QED BY <1>4

\* Two solutions agree where both are defined: there is no lowest node at which
\* they differ.
LEMMA LevelsAgree ==
  ASSUME NEW B, NEW root, NEW prev, NEW H, Tree(B, root, prev, H),
         NEW S, NEW s, NEW g, NEW n \in Nat, NEW m \in Nat, NEW e, NEW f,
         Solves(e, m, B, root, prev, H, S, s, g), Solves(f, n, B, root, prev, H, S, s, g),
         NEW a \in B, H[a] <= m, H[a] <= n
  PROVE  e[a] = f[a]
<1>. SUFFICES ASSUME e[a] # f[a] PROVE FALSE
  OBVIOUS
<1>0. /\ root \in B /\ H[root] = 0 /\ \A b \in B : H[b] \in Nat
      /\ \A b \in B \ {root} : prev[b] \in B /\ H[b] = H[prev[b]] + 1
  BY DEF Tree
<1>. DEFINE D == {b \in B : H[b] <= m /\ H[b] <= n /\ e[b] # f[b]}
            T == {H[b] : b \in D}
<1>1. T \subseteq Nat /\ T # {}
  BY <1>0
<1>2. PICK h \in T : \A y \in T : h <= y
  <2>. HIDE DEF T
  <2>. QED BY <1>1, LeastNat
<1>3. PICK b \in D : H[b] = h
  BY <1>2
<1>4. \A c \in D : H[b] <= H[c]
  BY <1>2, <1>3
<1>5. /\ e[b] = IF b = root THEN s ELSE g[b][e[prev[b]]]
      /\ f[b] = IF b = root THEN s ELSE g[b][f[prev[b]]]
  BY <1>3 DEF Solves
<1>6. b # root
  BY <1>3, <1>5
<1>7. prev[b] \in B /\ H[b] = H[prev[b]] + 1 /\ H[b] \in Nat /\ H[prev[b]] \in Nat
  BY <1>0, <1>3, <1>6
<1>8. prev[b] \notin D
  BY <1>4, <1>7
<1>9. e[prev[b]] = f[prev[b]]
  BY <1>3, <1>7, <1>8
<1>. QED BY <1>3, <1>5, <1>6, <1>9

\* f is the recursion on the whole tree.
Recursion(f, B, root, prev, S, s, g) ==
  /\ f \in [B -> S]
  /\ \A b \in B : f[b] = IF b = root THEN s ELSE g[b][f[prev[b]]]

\* A recursive definition along the tree has a solution.
LEMMA TreeRecursion ==
  ASSUME NEW B, NEW root, NEW prev, NEW H, Tree(B, root, prev, H),
         NEW S, NEW s \in S, NEW g \in [B -> [S -> S]]
  PROVE  \E f : Recursion(f, B, root, prev, S, s, g)
<1>. DEFINE Sol(f, m) == Solves(f, m, B, root, prev, H, S, s, g)
            F == [n \in Nat |-> CHOOSE f : Sol(f, n)]
            f == [b \in B |-> F[H[b]][b]]
<1>0. /\ root \in B /\ H[root] = 0 /\ \A b \in B : H[b] \in Nat
      /\ \A b \in B \ {root} : prev[b] \in B /\ H[b] = H[prev[b]] + 1
  BY DEF Tree
<1>1. ASSUME NEW n \in Nat PROVE Sol(F[n], n)
  <2>1. \E e : Sol(e, n)
    BY LevelExists
  <2>. HIDE DEF Sol
  <2>. QED BY <2>1
<1>. HIDE DEF F
<1>2. ASSUME NEW b \in B
      PROVE  f[b] \in S /\ f[b] = IF b = root THEN s ELSE g[b][f[prev[b]]]
  <2>. DEFINE e == F[H[b]]
  <2>1. H[b] \in Nat /\ H[b] <= H[b] /\ Sol(e, H[b])
    BY <1>0, <1>1
  <2>. HIDE DEF e
  <2>2. e[b] \in S /\ e[b] = IF b = root THEN s ELSE g[b][e[prev[b]]]
    BY <2>1 DEF Solves
  <2>3. ASSUME b # root PROVE e[prev[b]] = f[prev[b]]
    <3>1. prev[b] \in B /\ H[prev[b]] \in Nat /\ H[prev[b]] <= H[b] /\ H[prev[b]] <= H[prev[b]]
      BY <1>0, <2>3
    <3>2. Sol(F[H[prev[b]]], H[prev[b]])
      BY <1>1, <3>1
    <3>3. e[prev[b]] = F[H[prev[b]]][prev[b]]
      <4>. DEFINE c == prev[b]
                  d == F[H[c]]
                  m == H[b]
                  n == H[c]
      <4>1. /\ c \in B /\ m \in Nat /\ n \in Nat /\ H[c] <= m /\ H[c] <= n
            /\ Solves(e, m, B, root, prev, H, S, s, g) /\ Solves(d, n, B, root, prev, H, S, s, g)
        BY <2>1, <3>1, <3>2
      <4>2. e[c] = d[c]
        <5>. HIDE DEF c, d, m, n
        <5>. QED BY SMTT(30), <4>1, LevelsAgree
      <4>. QED BY <4>2
    <3>. QED BY <3>1, <3>3
  <2>4. f[b] = e[b]
    BY DEF e
  <2>. HIDE DEF f
  <2>. QED BY <2>2, <2>3, <2>4
<1>3. f \in [B -> S]
  BY <1>2
<1>. HIDE DEF f
<1>. QED BY <1>2, <1>3 DEF Recursion

\* Induction along the tree, for a property given as the set P of the nodes that
\* have it.
LEMMA TreeInduction ==
  ASSUME NEW B, NEW root, NEW prev, NEW H, Tree(B, root, prev, H), NEW P,
         root \in P, \A b \in B \ {root} : prev[b] \in P => b \in P
  PROVE  \A b \in B : b \in P
<1>. DEFINE D == {b \in B : b \notin P}
            T == {H[b] : b \in D}
<1>. SUFFICES ASSUME D # {} PROVE FALSE
  OBVIOUS
<1>0. /\ \A b \in B : H[b] \in Nat
      /\ \A b \in B \ {root} : prev[b] \in B /\ H[b] = H[prev[b]] + 1
  BY DEF Tree
<1>1. T \subseteq Nat /\ T # {}
  BY <1>0
<1>2. PICK h \in T : \A y \in T : h <= y
  <2>. HIDE DEF T
  <2>. QED BY <1>1, LeastNat
<1>3. PICK b \in D : H[b] = h
  BY <1>2
<1>4. \A c \in D : H[b] <= H[c]
  BY <1>2, <1>3
<1>5. b \in B \ {root}
  BY <1>3
<1>6. prev[b] \in B /\ H[b] = H[prev[b]] + 1 /\ H[b] \in Nat /\ H[prev[b]] \in Nat
  BY <1>0, <1>5
<1>7. prev[b] \notin D
  BY <1>4, <1>6
<1>. QED BY <1>3, <1>5, <1>6, <1>7
=============================================================================
