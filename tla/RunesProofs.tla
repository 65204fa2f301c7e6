---------------------------- MODULE RunesProofs ----------------------------
(***************************************************************************)
(* Theorems about Runes and RuneRoutes, for every sequence of blocks and   *)
(* transactions, in four parts: sums over finite sets; what an allocation  *)
(* keeps; the tables; the routes.                                          *)
(***************************************************************************)
EXTENDS RuneRoutes, NatOrder, TLAPS, FiniteSetTheorems

(***************************************************************************)
(* Part 1. Sums over finite sets.                                          *)
(***************************************************************************)

\* The element a fold takes next.
Pick(s) == CHOOSE x \in s : TRUE

\* e has the sums of f over the subsets of S.
Sums(e, f, S) ==
  /\ e \in [SUBSET S -> Int]
  /\ \A s \in SUBSET S : e[s] = IF s = {} THEN 0 ELSE f[Pick(s)] + e[s \ {Pick(s)}]

\* f is a function to the integers on S.
Weights(f, S) == \A x \in S : f[x] \in Int

\* The subsets of a finite set, each with an element removed by a fold.
LEMMA SubsetTree ==
  ASSUME NEW S, IsFiniteSet(S)
  PROVE  Tree(SUBSET S, {}, [s \in SUBSET S |-> s \ {Pick(s)}], [s \in SUBSET S |-> Cardinality(s)])
<1>. DEFINE B == SUBSET S
            prev == [s \in B |-> s \ {Pick(s)}]
            H == [s \in B |-> Cardinality(s)]
<1>1. ASSUME NEW s \in B PROVE IsFiniteSet(s) /\ Cardinality(s) \in Nat
  BY FS_Subset, FS_CardinalityType
<1>2. Cardinality({}) = 0
  BY FS_EmptySet
<1>3. ASSUME NEW s \in B \ {{}} PROVE Pick(s) \in s /\ Cardinality(s) = Cardinality(s \ {Pick(s)}) + 1
  <2>1. Pick(s) \in s
    BY Zenon DEF Pick
  <2>2. IsFiniteSet(s) /\ Cardinality(s) \in Nat /\ s \ {Pick(s)} \in B
    BY <1>1, <2>1
  <2>3. Cardinality(s \ {Pick(s)}) = Cardinality(s) - 1
    BY <2>1, <2>2, FS_RemoveElement
  <2>. QED BY <2>1, <2>2, <2>3
<1>. QED BY <1>1, <1>2, <1>3 DEF Tree

\* A fold computes such sums.
LEMMA SumIs ==
  ASSUME NEW S, IsFiniteSet(S), NEW f, Weights(f, S)
  PROVE  \E e : Sums(e, f, S) /\ SumFunctionOnSet(f, S) = e[S]
<1>. DEFINE B == SUBSET S
            prev == [s \in B |-> s \ {Pick(s)}]
            H == [s \in B |-> Cardinality(s)]
            g == [s \in B |-> [v \in Int |-> IF s = {} THEN 0 ELSE f[Pick(s)] + v]]
            Body(e) == [s \in B |-> IF s = {} THEN 0 ELSE f[Pick(s)] + e[s \ {Pick(s)}]]
<1>1. g \in [B -> [Int -> Int]]
  <2>1. ASSUME NEW s \in B, s # {} PROVE f[Pick(s)] \in Int
    <3>1. Pick(s) \in s
      BY <2>1, Zenon DEF Pick
    <3>. QED BY <3>1 DEF Weights
  <2>. QED BY <2>1
<1>2. Tree(B, {}, prev, H)
  BY SubsetTree
<1>3. PICK e : Recursion(e, B, {}, prev, Int, 0, g)
  <2>. HIDE DEF B, prev, H, g
  <2>1. 0 \in Int
    OBVIOUS
  <2>. QED BY <1>1, <1>2, <2>1, TreeRecursion
<1>4. Sums(e, f, S)
  <2>1. e \in [B -> Int]
    BY <1>3 DEF Recursion
  <2>2. ASSUME NEW s \in B PROVE e[s] = IF s = {} THEN 0 ELSE f[Pick(s)] + e[s \ {Pick(s)}]
    <3>1. e[s] = IF s = {} THEN 0 ELSE g[s][e[prev[s]]]
      <4>. HIDE DEF g, prev
      <4>. QED BY <1>3 DEF Recursion
    <3>2. prev[s] = s \ {Pick(s)} /\ prev[s] \in B /\ e[prev[s]] \in Int
      BY <2>1
    <3>. QED BY <3>1, <3>2
  <2>. QED BY <2>1, <2>2 DEF Sums
<1>5. e = Body(e)
  <2>1. e = [s \in B |-> e[s]]
    BY <1>4 DEF Sums
  <2>. QED BY <1>4, <2>1 DEF Sums
<1>6. SumFunctionOnSet(f, S) = (CHOOSE d : d = Body(d))[S]
  BY Zenon DEF SumFunctionOnSet, FoldFunctionOnSet, MapThenFoldSet, Pick
<1>7. ASSUME NEW d, d = Body(d) PROVE d = e
  <2>. DEFINE P == {s \in B : d[s] = e[s]}
  <2>1. {} \in P
    <3>1. {} \in B /\ d[{}] = Body(d)[{}] /\ e[{}] = 0
      BY <1>4, <1>7 DEF Sums
    <3>. QED BY <3>1
  <2>2. ASSUME NEW s \in B \ {{}}, prev[s] \in P PROVE s \in P
    <3>1. d[s] = Body(d)[s]
      BY <1>7
    <3>2. d[s] = f[Pick(s)] + d[s \ {Pick(s)}] /\ e[s] = f[Pick(s)] + e[s \ {Pick(s)}]
      BY <1>4, <3>1 DEF Sums
    <3>3. d[s \ {Pick(s)}] = e[s \ {Pick(s)}]
      BY <2>2
    <3>. QED BY <3>2, <3>3
  <2>3. \A s \in B : s \in P
    <3>. DEFINE root == {}
    <3>1. root \in P /\ Tree(B, root, prev, H) /\ \A s \in B \ {root} : prev[s] \in P => s \in P
      BY <1>2, <2>1, <2>2
    <3>. HIDE DEF B, prev, H, P, root
    <3>. QED BY <3>1, TreeInduction
  <2>4. d = [s \in B |-> d[s]] /\ e = [s \in B |-> e[s]]
    BY <1>4, <1>7 DEF Sums
  <2>. QED BY <2>3, <2>4
<1>8. (CHOOSE d : d = Body(d)) = e
  <2>. HIDE DEF Body
  <2>. QED BY <1>5, <1>7, Zenon
<1>. QED BY <1>4, <1>6, <1>8

\* It does not matter which element is taken first.
LEMMA AnyFirst ==
  ASSUME NEW S, IsFiniteSet(S), NEW f, Weights(f, S), NEW e, Sums(e, f, S),
         NEW s \in SUBSET S, NEW y \in s
  PROVE  e[s] = f[y] + e[s \ {y}]
<1>. DEFINE Good(t) == \A z \in t : e[t] = f[z] + e[t \ {z}]
            D == {t \in SUBSET S : ~Good(t)}
            T == {Cardinality(t) : t \in D}
<1>. SUFFICES ASSUME D # {} PROVE FALSE
  OBVIOUS
<1>1. ASSUME NEW t \in SUBSET S PROVE IsFiniteSet(t) /\ Cardinality(t) \in Nat
  BY FS_Subset, FS_CardinalityType
<1>2. T \subseteq Nat /\ T # {}
  BY <1>1
<1>3. PICK n \in T : \A m \in T : n <= m
  <2>. HIDE DEF T
  <2>. QED BY <1>2, LeastNat
<1>4. PICK t \in D : Cardinality(t) = n
  BY <1>3
<1>5. PICK z \in t : e[t] # f[z] + e[t \ {z}]
  BY <1>4
<1>6. ASSUME NEW x \in t PROVE Good(t \ {x}) /\ t \ {x} \in SUBSET S
  <2>1. t \ {x} \in SUBSET S /\ Cardinality(t \ {x}) = Cardinality(t) - 1 /\ Cardinality(t) \in Nat
    BY <1>1, <1>4, FS_RemoveElement
  <2>2. ~(n <= Cardinality(t \ {x}))
    BY <1>4, <2>1
  <2>. HIDE DEF Good
  <2>. QED BY <1>3, <2>1, <2>2
<1>. DEFINE x == Pick(t)
<1>7. t # {} /\ x \in t /\ t \in SUBSET S
  <2>1. t # {} /\ t \in SUBSET S
    BY <1>4, <1>5
  <2>. QED BY <2>1, Zenon DEF Pick
<1>8. e[t] = f[x] + e[t \ {x}]
  BY <1>7 DEF Sums
<1>9. x # z
  BY <1>5, <1>8
<1>10. e[t \ {x}] = f[z] + e[(t \ {x}) \ {z}]
  <2>1. z \in t \ {x}
    BY <1>5, <1>9
  <2>. QED BY <1>6, <1>7, <2>1
<1>11. e[t \ {z}] = f[x] + e[(t \ {z}) \ {x}]
  <2>1. x \in t \ {z}
    BY <1>7, <1>9
  <2>. QED BY <1>5, <1>6, <2>1
<1>12. (t \ {x}) \ {z} = (t \ {z}) \ {x} /\ (t \ {x}) \ {z} \in SUBSET S
  BY <1>7
<1>13. f[x] \in Int /\ f[z] \in Int /\ e[(t \ {x}) \ {z}] \in Int
  BY <1>5, <1>7, <1>12 DEF Weights, Sums
<1>14. ASSUME NEW a \in Int, NEW b \in Int, NEW c \in Int PROVE a + (b + c) = b + (a + c)
  OBVIOUS
<1>15. f[x] + (f[z] + e[(t \ {x}) \ {z}]) = f[z] + (f[x] + e[(t \ {x}) \ {z}])
  <2>. HIDE DEF x
  <2>. QED BY <1>13, <1>14
<1>. QED BY <1>5, <1>8, <1>10, <1>11, <1>12, <1>15, Zenon

\* A sum over the set without y, and y's own value.
LEMMA SumStep ==
  ASSUME NEW S, IsFiniteSet(S), NEW f, Weights(f, S)
  PROVE  /\ SumFunctionOnSet(f, S) \in Int
         /\ \A y \in S : SumFunctionOnSet(f, S) = f[y] + SumFunctionOnSet(f, S \ {y})
<1>1. PICK e : Sums(e, f, S) /\ SumFunctionOnSet(f, S) = e[S]
  BY SumIs
<1>2. S \in SUBSET S /\ e[S] \in Int
  BY <1>1 DEF Sums
<1>3. ASSUME NEW y \in S PROVE SumFunctionOnSet(f, S) = f[y] + SumFunctionOnSet(f, S \ {y})
  <2>. DEFINE R == S \ {y}
              B == SUBSET R
              prev == [s \in B |-> s \ {Pick(s)}]
              H == [s \in B |-> Cardinality(s)]
  <2>1. IsFiniteSet(R) /\ Weights(f, R) /\ R \in SUBSET S
    BY FS_Subset DEF Weights
  <2>2. PICK d : Sums(d, f, R) /\ SumFunctionOnSet(f, R) = d[R]
    <3>. HIDE DEF R
    <3>. QED BY <2>1, SumIs
  <2>3. Tree(B, {}, prev, H)
    BY <2>1, SubsetTree
  <2>. DEFINE P == {s \in B : d[s] = e[s]}
  <2>. HIDE DEF R
  <2>4. {} \in P
    BY <1>1, <2>2 DEF Sums
  <2>5. ASSUME NEW s \in B \ {{}}, prev[s] \in P PROVE s \in P
    <3>1. s \in SUBSET R /\ s \in SUBSET S
      BY <2>1
    <3>2. d[s] = f[Pick(s)] + d[s \ {Pick(s)}] /\ e[s] = f[Pick(s)] + e[s \ {Pick(s)}]
      BY <1>1, <2>2, <3>1 DEF Sums
    <3>. QED BY <2>5, <3>2
  <2>6. \A s \in B : s \in P
    <3>. DEFINE root == {}
    <3>1. root \in P /\ Tree(B, root, prev, H) /\ \A s \in B \ {root} : prev[s] \in P => s \in P
      BY <2>3, <2>4, <2>5
    <3>. HIDE DEF B, prev, H, P, root
    <3>. QED BY <3>1, TreeInduction
  <2>7. d[R] = e[R]
    BY <2>6
  <2>8. e[S] = f[y] + e[R]
    BY <1>1, <1>2, AnyFirst DEF R
  <2>. QED BY <1>1, <2>2, <2>7, <2>8 DEF R
<1>. QED BY <1>1, <1>2, <1>3

\* A sum over nothing.
LEMMA SumEmpty ==
  ASSUME NEW f
  PROVE  SumFunctionOnSet(f, {}) = 0
<1>1. IsFiniteSet({}) /\ Weights(f, {})
  BY FS_EmptySet DEF Weights
<1>2. PICK e : Sums(e, f, {}) /\ SumFunctionOnSet(f, {}) = e[{}]
  BY <1>1, SumIs
<1>. QED BY <1>2 DEF Sums

\* Induction on a finite set, for a property given as the set P of the subsets
\* that have it.
LEMMA FiniteInduction ==
  ASSUME NEW S, IsFiniteSet(S), NEW P, {} \in P,
         \A s \in SUBSET S : \A x \in s : s \ {x} \in P => s \in P
  PROVE  S \in P
<1>. DEFINE B == SUBSET S
            prev == [s \in B |-> s \ {Pick(s)}]
            H == [s \in B |-> Cardinality(s)]
<1>1. Tree(B, {}, prev, H)
  BY SubsetTree
<1>2. ASSUME NEW s \in B \ {{}}, prev[s] \in P PROVE s \in P
  <2>1. Pick(s) \in s
    BY Zenon DEF Pick
  <2>. QED BY <1>2, <2>1
<1>3. \A s \in B : s \in P
  <2>. DEFINE root == {}
  <2>1. root \in P /\ Tree(B, root, prev, H) /\ \A s \in B \ {root} : prev[s] \in P => s \in P
    BY <1>1, <1>2
  <2>. HIDE DEF B, prev, H, root
  <2>. QED BY <2>1, TreeInduction
<1>. QED BY <1>3

\* Equal functions have equal sums.
LEMMA SumSame ==
  ASSUME NEW S, IsFiniteSet(S), NEW f, Weights(f, S), NEW g, \A x \in S : g[x] = f[x]
  PROVE  SumFunctionOnSet(g, S) = SumFunctionOnSet(f, S)
<1>. DEFINE P == {s \in SUBSET S : SumFunctionOnSet(g, s) = SumFunctionOnSet(f, s)}
<1>1. {} \in P
  BY SumEmpty
<1>2. ASSUME NEW s \in SUBSET S, NEW x \in s, s \ {x} \in P PROVE s \in P
  <2>1. IsFiniteSet(s) /\ Weights(f, s) /\ Weights(g, s) /\ g[x] = f[x]
    BY FS_Subset DEF Weights
  <2>2. SumFunctionOnSet(f, s) = f[x] + SumFunctionOnSet(f, s \ {x})
    BY <2>1, SumStep
  <2>3. SumFunctionOnSet(g, s) = g[x] + SumFunctionOnSet(g, s \ {x})
    BY <2>1, SumStep
  <2>. QED BY <1>2, <2>1, <2>2, <2>3
<1>3. S \in P
  <2>. HIDE DEF P
  <2>. QED BY <1>1, <1>2, FiniteInduction
<1>. QED BY <1>3

\* The sum over two disjoint sets.
LEMMA SumUnion ==
  ASSUME NEW A, IsFiniteSet(A), NEW B, IsFiniteSet(B), A \cap B = {},
         NEW f, Weights(f, A \cup B)
  PROVE  SumFunctionOnSet(f, A \cup B) = SumFunctionOnSet(f, A) + SumFunctionOnSet(f, B)
<1>. DEFINE P == {s \in SUBSET A :
              SumFunctionOnSet(f, s \cup B) = SumFunctionOnSet(f, s) + SumFunctionOnSet(f, B)}
<1>1. {} \in P
  <2>1. {} \cup B = B /\ Weights(f, B)
    BY DEF Weights
  <2>2. SumFunctionOnSet(f, B) \in Int
    BY <2>1, SumStep
  <2>. QED BY <2>1, <2>2, SumEmpty
<1>2. ASSUME NEW s \in SUBSET A, NEW x \in s, s \ {x} \in P PROVE s \in P
  <2>. DEFINE u == s \cup B
  <2>1. /\ IsFiniteSet(s) /\ IsFiniteSet(u) /\ Weights(f, s) /\ Weights(f, u) /\ Weights(f, B)
        /\ f[x] \in Int /\ x \in u /\ u \ {x} = (s \ {x}) \cup B
        /\ IsFiniteSet(s \ {x}) /\ Weights(f, s \ {x})
    <3>1. IsFiniteSet(s) /\ IsFiniteSet(s \ {x})
      BY FS_Subset
    <3>. QED BY <3>1, FS_Union DEF Weights
  <2>2. SumFunctionOnSet(f, s) = f[x] + SumFunctionOnSet(f, s \ {x})
    BY <2>1, SumStep
  <2>3. SumFunctionOnSet(f, u) = f[x] + SumFunctionOnSet(f, u \ {x})
    <3>. HIDE DEF u
    <3>. QED BY <2>1, SumStep
  <2>4. SumFunctionOnSet(f, B) \in Int /\ SumFunctionOnSet(f, s \ {x}) \in Int
    BY <2>1, SumStep
  <2>5. SumFunctionOnSet(f, (s \ {x}) \cup B) = SumFunctionOnSet(f, s \ {x}) + SumFunctionOnSet(f, B)
    BY <1>2
  <2>6. SumFunctionOnSet(f, u) = f[x] + (SumFunctionOnSet(f, s \ {x}) + SumFunctionOnSet(f, B))
    BY <2>1, <2>3, <2>5, Zenon
  <2>7. SumFunctionOnSet(f, u) = SumFunctionOnSet(f, s) + SumFunctionOnSet(f, B)
    <3>. HIDE DEF u
    <3>. QED BY <2>1, <2>2, <2>4, <2>6
  <2>. QED BY <2>7
<1>3. A \in P
  <2>. HIDE DEF P
  <2>. QED BY <1>1, <1>2, FiniteInduction
<1>. QED BY <1>3

\* m maps S to other indices, no two to the same.
OneToOne(m, S) == \A x, y \in S : m[x] = m[y] => x = y
Image(m, S) == {m[x] : x \in S}

\* The sum over renamed indices.
LEMMA SumImage ==
  ASSUME NEW S, IsFiniteSet(S), NEW f, Weights(f, S), NEW m, OneToOne(m, S),
         NEW g, \A x \in S : g[m[x]] = f[x]
  PROVE  /\ IsFiniteSet(Image(m, S)) /\ Weights(g, Image(m, S))
         /\ SumFunctionOnSet(g, Image(m, S)) = SumFunctionOnSet(f, S)
<1>. DEFINE P == {s \in SUBSET S : /\ IsFiniteSet(Image(m, s))
                                   /\ SumFunctionOnSet(g, Image(m, s)) = SumFunctionOnSet(f, s)}
<1>1. {} \in P
  <2>1. Image(m, {}) = {}
    BY DEF Image
  <2>. QED BY <2>1, SumEmpty, FS_EmptySet
<1>2. ASSUME NEW s \in SUBSET S, NEW x \in s, s \ {x} \in P PROVE s \in P
  <2>. DEFINE t == Image(m, s)
              r == Image(m, s \ {x})
  <2>1. m[x] \in t /\ t \ {m[x]} = r /\ t = r \cup {m[x]}
    BY DEF Image, OneToOne
  <2>2. IsFiniteSet(t) /\ Weights(g, t) /\ IsFiniteSet(s) /\ Weights(f, s)
    <3>1. IsFiniteSet(r)
      BY <1>2
    <3>2. IsFiniteSet(r \cup {m[x]})
      <4>. HIDE DEF r
      <4>. QED BY <3>1, FS_AddElement
    <3>3. Weights(g, t)
      BY DEF Weights, Image
    <3>. QED BY <2>1, <3>2, <3>3, FS_Subset DEF Weights
  <2>3. SumFunctionOnSet(f, s) = f[x] + SumFunctionOnSet(f, s \ {x})
    BY <2>2, SumStep
  <2>4. SumFunctionOnSet(g, t) = g[m[x]] + SumFunctionOnSet(g, t \ {m[x]})
    <3>. HIDE DEF t
    <3>. QED BY <2>1, <2>2, SumStep
  <2>5. SumFunctionOnSet(g, r) = SumFunctionOnSet(f, s \ {x})
    BY <1>2
  <2>. QED BY <2>1, <2>2, <2>3, <2>4, <2>5
<1>3. S \in P
  <2>. HIDE DEF P
  <2>. QED BY <1>1, <1>2, FiniteInduction
<1>4. Weights(g, Image(m, S))
  BY DEF Weights, Image
<1>. QED BY <1>3, <1>4

\* The sum of naturals is a natural, and no less than any of them.
LEMMA SumNat ==
  ASSUME NEW S, IsFiniteSet(S), NEW f, \A x \in S : f[x] \in Nat
  PROVE  /\ Weights(f, S) /\ SumFunctionOnSet(f, S) \in Nat
         /\ \A x \in S : f[x] <= SumFunctionOnSet(f, S)
<1>0. Weights(f, S)
  BY DEF Weights
<1>. DEFINE P == {s \in SUBSET S : SumFunctionOnSet(f, s) \in Nat}
<1>1. {} \in P
  BY SumEmpty
<1>2. ASSUME NEW s \in SUBSET S, NEW x \in s, s \ {x} \in P PROVE s \in P
  <2>1. IsFiniteSet(s) /\ Weights(f, s) /\ f[x] \in Nat
    BY FS_Subset DEF Weights
  <2>2. SumFunctionOnSet(f, s) = f[x] + SumFunctionOnSet(f, s \ {x})
    BY <2>1, SumStep
  <2>. QED BY <1>2, <2>1, <2>2
<1>3. \A T \in SUBSET S : T \in P
  <2>1. ASSUME NEW T \in SUBSET S PROVE T \in P
    <3>1. IsFiniteSet(T) /\ \A s \in SUBSET T : \A x \in s : s \ {x} \in P => s \in P
      BY <1>2, FS_Subset
    <3>. HIDE DEF P
    <3>. QED BY <1>1, <3>1, FiniteInduction
  <2>. QED BY <2>1
<1>4. ASSUME NEW x \in S PROVE f[x] <= SumFunctionOnSet(f, S)
  <2>1. S \ {x} \in P /\ f[x] \in Nat
    BY <1>3
  <2>2. SumFunctionOnSet(f, S) = f[x] + SumFunctionOnSet(f, S \ {x})
    BY <1>0, SumStep
  <2>. QED BY <2>1, <2>2
<1>. QED BY <1>0, <1>3, <1>4

\* A sum of zeros.
LEMMA SumZero ==
  ASSUME NEW S, IsFiniteSet(S), NEW f, \A x \in S : f[x] = 0
  PROVE  SumFunctionOnSet(f, S) = 0
<1>. DEFINE P == {s \in SUBSET S : SumFunctionOnSet(f, s) = 0}
<1>1. {} \in P
  BY SumEmpty
<1>2. ASSUME NEW s \in SUBSET S, NEW x \in s, s \ {x} \in P PROVE s \in P
  <2>1. IsFiniteSet(s) /\ Weights(f, s) /\ f[x] = 0
    BY FS_Subset DEF Weights
  <2>2. SumFunctionOnSet(f, s) = f[x] + SumFunctionOnSet(f, s \ {x})
    BY <2>1, SumStep
  <2>. QED BY <1>2, <2>1, <2>2
<1>3. S \in P
  <2>. HIDE DEF P
  <2>. QED BY <1>1, <1>2, FiniteInduction
<1>. QED BY <1>3

\* Indices without weight do not count.
LEMMA SumPart ==
  ASSUME NEW S, IsFiniteSet(S), NEW f, Weights(f, S), NEW T \in SUBSET S,
         \A x \in S \ T : f[x] = 0
  PROVE  SumFunctionOnSet(f, S) = SumFunctionOnSet(f, T)
<1>. DEFINE R == S \ T
<1>1. IsFiniteSet(T) /\ IsFiniteSet(R) /\ T \cup R = S /\ T \cap R = {} /\ Weights(f, T)
  <2>1. R \in SUBSET S
    OBVIOUS
  <2>. QED BY <2>1, FS_Subset DEF Weights
<1>2. SumFunctionOnSet(f, R) = 0
  BY <1>1, SumZero
<1>. HIDE DEF R
<1>3. SumFunctionOnSet(f, T \cup R) = SumFunctionOnSet(f, T) + SumFunctionOnSet(f, R)
  BY <1>1, SumUnion
<1>4. SumFunctionOnSet(f, T) \in Int
  BY <1>1, SumStep
<1>5. SumFunctionOnSet(f, S) = SumFunctionOnSet(f, T) + 0
  BY <1>1, <1>2, <1>3, Zenon
<1>. QED BY <1>4, <1>5

\* One index gets a more.
LEMMA SumChange ==
  ASSUME NEW S, IsFiniteSet(S), NEW f, Weights(f, S), NEW o \in S, NEW a \in Int,
         NEW g, g[o] = f[o] + a, \A x \in S \ {o} : g[x] = f[x]
  PROVE  SumFunctionOnSet(g, S) = SumFunctionOnSet(f, S) + a
<1>. DEFINE R == S \ {o}
<1>1. IsFiniteSet(R) /\ Weights(f, R) /\ Weights(g, S) /\ f[o] \in Int
  BY FS_Subset DEF Weights
<1>2. SumFunctionOnSet(g, R) = SumFunctionOnSet(f, R) /\ SumFunctionOnSet(f, R) \in Int
  <2>1. \A x \in R : g[x] = f[x]
    OBVIOUS
  <2>. HIDE DEF R
  <2>. QED BY <1>1, <2>1, SumSame, SumStep
<1>3. SumFunctionOnSet(f, S) = f[o] + SumFunctionOnSet(f, R) /\ SumFunctionOnSet(g, S) = g[o] + SumFunctionOnSet(g, R)
  BY <1>1, SumStep
<1>. HIDE DEF R
<1>. QED BY <1>1, <1>2, <1>3

\* The sum of two functions.
LEMMA SumPlus ==
  ASSUME NEW S, IsFiniteSet(S), NEW f, Weights(f, S), NEW g, Weights(g, S),
         NEW h, \A x \in S : h[x] = f[x] + g[x]
  PROVE  SumFunctionOnSet(h, S) = SumFunctionOnSet(f, S) + SumFunctionOnSet(g, S)
<1>. DEFINE P == {s \in SUBSET S :
              SumFunctionOnSet(h, s) = SumFunctionOnSet(f, s) + SumFunctionOnSet(g, s)}
<1>1. {} \in P
  BY SumEmpty
<1>2. ASSUME NEW s \in SUBSET S, NEW x \in s, s \ {x} \in P PROVE s \in P
  <2>1. /\ IsFiniteSet(s) /\ IsFiniteSet(s \ {x})
        /\ Weights(f, s) /\ Weights(g, s) /\ Weights(h, s)
        /\ Weights(f, s \ {x}) /\ Weights(g, s \ {x})
        /\ f[x] \in Int /\ g[x] \in Int /\ h[x] = f[x] + g[x]
    BY FS_Subset DEF Weights
  <2>2. SumFunctionOnSet(f, s) = f[x] + SumFunctionOnSet(f, s \ {x})
    BY <2>1, SumStep
  <2>3. SumFunctionOnSet(g, s) = g[x] + SumFunctionOnSet(g, s \ {x})
    BY <2>1, SumStep
  <2>4. SumFunctionOnSet(h, s) = h[x] + SumFunctionOnSet(h, s \ {x})
    BY <2>1, SumStep
  <2>5. SumFunctionOnSet(f, s \ {x}) \in Int /\ SumFunctionOnSet(g, s \ {x}) \in Int
    BY <2>1, SumStep
  <2>. QED BY <1>2, <2>1, <2>2, <2>3, <2>4, <2>5
<1>3. S \in P
  <2>. HIDE DEF P
  <2>. QED BY <1>1, <1>2, FiniteInduction
<1>. QED BY <1>3

-----------------------------------------------------------------------------
(***************************************************************************)
(* Part 2. What an allocation keeps: the balance left and what the outputs *)
(* were given add up to K, what there was to give away.                    *)
(***************************************************************************)

Balance == [Id -> Nat]

\* The states of an allocation, negative amounts included, and those without.
IntState(outs) == [balance : [Id -> Int], alloc : [DOMAIN outs -> [Id -> Int]]]
State(outs) == [balance : Balance, alloc : [DOMAIN outs -> Balance]]

\* What the outputs were given of a rune.
GivenOf(st, outs, id) == [o \in DOMAIN outs |-> st.alloc[o][id]]
Given(st, outs, id) == SumFunctionOnSet(GivenOf(st, outs, id), DOMAIN outs)

AddsUp(st, outs, K) == \A id \in Id : st.balance[id] + Given(st, outs, id) = K[id]

\* n is st with an amount moved from the balance to output o.
MovedTo(n, st, outs, id, amount, o) ==
  /\ n \in IntState(outs)
  /\ n.balance[id] = st.balance[id] - amount
  /\ n.alloc[o][id] = st.alloc[o][id] + amount
  /\ \A j \in Id \ {id} : n.balance[j] = st.balance[j] /\ n.alloc[o][j] = st.alloc[o][j]
  /\ \A p \in DOMAIN outs \ {o} : n.alloc[p] = st.alloc[p]

\* The closure allocate of process_tx moves an amount.
LEMMA AllocateMoves ==
  ASSUME NEW outs, NEW st \in IntState(outs), NEW id \in Id, NEW amount \in Int,
         NEW o \in DOMAIN outs
  PROVE  MovedTo(Allocate(st, id, amount, o), st, outs, id, amount, o)
<1>. DEFINE b == [st.balance EXCEPT ![id] = @ - amount]
            row == [st.alloc[o] EXCEPT ![id] = @ + amount]
            a == [st.alloc EXCEPT ![o] = row]
            n == [balance |-> b, alloc |-> a]
<1>1. st.balance \in [Id -> Int] /\ st.alloc \in [DOMAIN outs -> [Id -> Int]]
      /\ st = [balance |-> st.balance, alloc |-> st.alloc]
  BY DEF IntState
<1>2. st.alloc[o] \in [Id -> Int] /\ st.balance[id] \in Int /\ st.alloc[o][id] \in Int
  BY <1>1
<1>3. b \in [Id -> Int] /\ row \in [Id -> Int]
  BY <1>1, <1>2
<1>4. a \in [DOMAIN outs -> [Id -> Int]]
  BY <1>1, <1>3
<1>5. Allocate(st, id, amount, o) = n
  BY <1>1 DEF Allocate
<1>6. n \in IntState(outs)
  BY <1>3, <1>4 DEF IntState
<1>7. /\ b[id] = st.balance[id] - amount /\ \A j \in Id \ {id} : b[j] = st.balance[j]
      /\ row[id] = st.alloc[o][id] + amount /\ \A j \in Id \ {id} : row[j] = st.alloc[o][j]
      /\ a[o] = row /\ \A p \in DOMAIN outs \ {o} : a[p] = st.alloc[p]
  BY <1>1, <1>2
<1>. HIDE DEF b, row, a
<1>. QED BY <1>5, <1>6, <1>7 DEF MovedTo

\* Nothing is made or lost by it.
LEMMA MoveAddsUp ==
  ASSUME NEW outs, IsFiniteSet(DOMAIN outs), NEW st \in IntState(outs), NEW id \in Id,
         NEW amount \in Int, NEW o \in DOMAIN outs, NEW n,
         MovedTo(n, st, outs, id, amount, o), NEW K, AddsUp(st, outs, K)
  PROVE  AddsUp(n, outs, K)
<1>. SUFFICES ASSUME NEW j \in Id PROVE n.balance[j] + Given(n, outs, j) = K[j]
  BY DEF AddsUp
<1>. DEFINE S == DOMAIN outs
            f == GivenOf(st, outs, j)
            g == GivenOf(n, outs, j)
<1>1. /\ n \in IntState(outs)
      /\ \A p \in S : f[p] = st.alloc[p][j] /\ g[p] = n.alloc[p][j]
      /\ \A p \in S : st.alloc[p][j] \in Int /\ n.alloc[p][j] \in Int
      /\ st.balance[j] \in Int
  BY DEF MovedTo, IntState, GivenOf
<1>2. Weights(f, S) /\ IsFiniteSet(S)
  BY <1>1 DEF Weights
<1>3. st.balance[j] + SumFunctionOnSet(f, S) = K[j]
  BY DEF AddsUp, Given
<1>4. SumFunctionOnSet(f, S) \in Int
  <2>. HIDE DEF f, S
  <2>. QED BY <1>2, SumStep
<1>5. CASE j = id
  <2>1. g[o] = f[o] + amount /\ \A p \in S \ {o} : g[p] = f[p]
    BY <1>1, <1>5 DEF MovedTo
  <2>2. SumFunctionOnSet(g, S) = SumFunctionOnSet(f, S) + amount
    <3>1. o \in S
      OBVIOUS
    <3>. HIDE DEF f, g, S
    <3>. QED BY <1>2, <2>1, <3>1, SumChange
  <2>3. n.balance[j] = st.balance[j] - amount
    BY <1>5 DEF MovedTo
  <2>4. n.balance[j] + SumFunctionOnSet(g, S) = K[j]
    <3>. HIDE DEF f, g, S
    <3>. QED BY <1>1, <1>3, <1>4, <2>2, <2>3
  <2>. QED BY <2>4 DEF Given
<1>6. CASE j # id
  <2>1. \A p \in S : g[p] = f[p]
    BY <1>1, <1>6 DEF MovedTo
  <2>2. SumFunctionOnSet(g, S) = SumFunctionOnSet(f, S)
    <3>. HIDE DEF f, g, S
    <3>. QED BY <1>2, <2>1, SumSame
  <2>3. n.balance[j] = st.balance[j]
    BY <1>6 DEF MovedTo
  <2>. QED BY <1>3, <2>2, <2>3 DEF Given
<1>. QED BY <1>5, <1>6

\* A state without negative amounts stays one if the balance has the amount.
LEMMA MovePositive ==
  ASSUME NEW outs, NEW st \in State(outs), NEW id \in Id, NEW amount \in Nat,
         amount <= st.balance[id], NEW o \in DOMAIN outs, NEW n,
         MovedTo(n, st, outs, id, amount, o)
  PROVE  n \in State(outs)
<1>1. n = [balance |-> n.balance, alloc |-> n.alloc] /\ n.balance \in [Id -> Int]
      /\ n.alloc \in [DOMAIN outs -> [Id -> Int]]
  BY DEF MovedTo, IntState
<1>2. st.balance \in [Id -> Nat] /\ st.alloc \in [DOMAIN outs -> [Id -> Nat]]
  BY DEF State, Balance
<1>3. ASSUME NEW j \in Id PROVE n.balance[j] \in Nat
  BY <1>2 DEF MovedTo
<1>4. ASSUME NEW p \in DOMAIN outs PROVE n.alloc[p] \in [Id -> Nat]
  <2>1. CASE p # o
    BY <1>2, <2>1 DEF MovedTo
  <2>2. CASE p = o
    <3>1. st.alloc[o] \in [Id -> Nat] /\ n.alloc[o] \in [Id -> Int]
      BY <1>1, <1>2
    <3>2. ASSUME NEW j \in Id PROVE n.alloc[o][j] \in Nat
      BY <3>1 DEF MovedTo
    <3>. QED BY <2>2, <3>1, <3>2
  <2>. QED BY <2>1, <2>2
<1>5. n.balance \in Balance
  BY <1>1, <1>3 DEF Balance
<1>6. n.alloc \in [DOMAIN outs -> Balance]
  BY <1>1, <1>4 DEF Balance
<1>. QED BY <1>1, <1>5, <1>6 DEF State

\* A state without negative amounts is a state.
LEMMA StateIsInt ==
  ASSUME NEW outs, NEW st \in State(outs)
  PROVE  st \in IntState(outs)
<1>1. st.balance \in [Id -> Int] /\ st.alloc \in [DOMAIN outs -> [Id -> Int]]
      /\ st = [balance |-> st.balance, alloc |-> st.alloc]
  BY DEF State, Balance
<1>. QED BY <1>1 DEF IntState

\* Arithmetic of equal parts.
LEMMA Multiples ==
  ASSUME NEW a \in Nat, NEW b \in Nat, NEW c \in Nat
  PROVE  /\ a * c \in Nat
         /\ (a + 1) * c = a * c + c
         /\ a <= b => a * c <= b * c
<1>1. a * c \in Nat /\ (a + 1) * c = a * c + c
  OBVIOUS
<1>2. ASSUME a <= b PROVE a * c <= b * c
  <2>1. PICK d \in Nat : b = a + d
    <3>1. b - a \in Nat /\ b = a + (b - a)
      BY <1>2
    <3>. QED BY <3>1
  <2>2. (a + d) * c = a * c + d * c /\ d * c \in Nat
    OBVIOUS
  <2>. QED BY <1>1, <2>1, <2>2
<1>. QED BY <1>1, <1>2

\* The quotient and the remainder of a balance.
LEMMA Division ==
  ASSUME NEW b \in Nat, NEW n \in Nat \ {0}
  PROVE  b \div n \in Nat /\ b % n \in 0..(n - 1) /\ b = n * (b \div n) + (b % n)
OBVIOUS

\* The smaller of two numbers.
LEMMA MinFacts ==
  ASSUME NEW a \in Int, NEW b \in Int
  PROVE  Min({a, b}) \in {a, b} /\ Min({a, b}) <= a /\ Min({a, b}) <= b
<1>1. \E x \in {a, b} : \A y \in {a, b} : x =< y
  BY DEF Min
<1>2. Min({a, b}) \in {a, b} /\ \A y \in {a, b} : Min({a, b}) =< y
  BY <1>1, Zenon DEF Min
<1>. QED BY <1>2

\* An amount, or what is left of the balance.
LEMMA MinAmount ==
  ASSUME NEW a \in Nat, NEW b \in Int
  PROVE  Min({a, b}) \in Int /\ Min({a, b}) <= b /\ (b \in Nat => Min({a, b}) \in Nat)
<1>1. Min({a, b}) \in {a, b} /\ Min({a, b}) <= b
  BY MinFacts
<1>. QED BY <1>1

\* The outputs of a transaction.
LEMMA OutputsFacts ==
  ASSUME NEW outs \in Seq(Script)
  PROVE  /\ DOMAIN outs = 1..Len(outs) /\ Len(outs) \in Nat
         /\ IsFiniteSet(DOMAIN outs) /\ Spendable(outs) \subseteq DOMAIN outs
         /\ IsFiniteSet(Spendable(outs)) /\ Cardinality(Spendable(outs)) \in Nat
         /\ (Cardinality(Spendable(outs)) = 0 <=> Spendable(outs) = {})
<1>1. DOMAIN outs = 1..Len(outs) /\ Len(outs) \in Nat /\ Spendable(outs) \subseteq DOMAIN outs
  BY DEF Spendable
<1>2. IsFiniteSet(DOMAIN outs)
  BY <1>1, FS_Interval
<1>3. IsFiniteSet(Spendable(outs))
  BY <1>1, <1>2, FS_Subset
<1>. QED BY <1>1, <1>2, <1>3, FS_CardinalityType, FS_EmptySet

\* The place of an output is one more than that of the spendable one before it.
LEMMA RankFacts ==
  ASSUME NEW outs \in Seq(Script)
  PROVE  /\ Rank(outs, 0) = 0 /\ Rank(outs, Len(outs)) = Cardinality(Spendable(outs))
         /\ \A o \in 0..Len(outs) : Rank(outs, o) \in Nat /\ Rank(outs, o) <= Cardinality(Spendable(outs))
         /\ \A o \in 1..Len(outs) :
              Rank(outs, o) = IF o \in Spendable(outs) THEN Rank(outs, o - 1) + 1
                              ELSE Rank(outs, o - 1)
<1>. DEFINE Sp == Spendable(outs)
            N == Len(outs)
            To(o) == {p \in Sp : p <= o}
<1>1. Sp \subseteq 1..N /\ N \in Nat /\ IsFiniteSet(Sp)
  BY OutputsFacts
<1>2. \A o : Rank(outs, o) = Cardinality(To(o))
  BY DEF Rank
<1>. HIDE DEF Sp
<1>0. \A p \in Sp : p \in Int /\ 1 <= p /\ p <= N
  <2>. HIDE DEF N
  <2>. QED BY <1>1
<1>3. To(0) = {} /\ To(N) = Sp
  <2>1. \A p \in Sp : ~(p <= 0)
    BY <1>0
  <2>2. \A p \in Sp : p <= N
    BY <1>0
  <2>. QED BY <2>1, <2>2, Zenon
<1>4. ASSUME NEW o \in 0..N
      PROVE  IsFiniteSet(To(o)) /\ Cardinality(To(o)) \in Nat /\ Cardinality(To(o)) <= Cardinality(Sp)
  <2>1. To(o) \in SUBSET Sp
    OBVIOUS
  <2>. HIDE DEF To
  <2>. QED BY <1>1, <2>1, FS_Subset, FS_CardinalityType
<1>5. ASSUME NEW o \in 1..N
      PROVE  Cardinality(To(o)) = IF o \in Sp THEN Cardinality(To(o - 1)) + 1
                                  ELSE Cardinality(To(o - 1))
  <2>1. o - 1 \in 0..N
    BY <1>1
  <2>2. CASE o \in Sp
    <3>1. To(o) = To(o - 1) \cup {o} /\ o \notin To(o - 1)
      <4>1. \A p \in Sp : p <= o <=> p <= o - 1 \/ p = o
        BY <1>0, <1>1
      <4>2. ~(o <= o - 1)
        BY <1>1
      <4>3. \A p : p \in To(o) <=> p \in To(o - 1) \cup {o}
        BY <2>2, <4>1, Zenon
      <4>. QED BY <4>2, <4>3, Zenon
    <3>2. IsFiniteSet(To(o - 1))
      BY <1>4, <2>1
    <3>. HIDE DEF To
    <3>. QED BY <2>2, <3>1, <3>2, FS_AddElement
  <2>3. CASE o \notin Sp
    <3>1. To(o) = To(o - 1)
      <4>1. \A p \in Sp : p <= o <=> p <= o - 1
        BY <1>0, <1>1, <2>3
      <4>. QED BY <4>1
    <3>. QED BY <2>3, <3>1
  <2>. QED BY <2>2, <2>3
<1>6. Cardinality(To(0)) = 0
  BY <1>3, FS_EmptySet
<1>. HIDE DEF To
<1>. QED BY <1>2, <1>3, <1>4, <1>5, <1>6 DEF Sp

\* What the first k of n equal parts add up to, with a remainder.
Parts(k, part, remainder) == k * part + (IF k <= remainder THEN k ELSE remainder)

\* The next part fits into what is left.
LEMMA PartFits ==
  ASSUME NEW n \in Nat \ {0}, NEW part \in Nat, NEW remainder \in 0..(n - 1), NEW k \in 1..n
  PROVE  LET a == IF k <= remainder THEN part + 1 ELSE part
         IN  /\ a \in Nat
             /\ Parts(k, part, remainder) = Parts(k - 1, part, remainder) + a
             /\ Parts(k, part, remainder) <= n * part + remainder
             /\ Parts(k, part, remainder) \in Nat /\ Parts(k - 1, part, remainder) \in Nat
<1>. DEFINE j == k - 1
<1>1. j \in Nat /\ k = j + 1 /\ k \in Nat /\ k <= n
  OBVIOUS
<1>2. j * part \in Nat /\ (j + 1) * part = j * part + part
  BY <1>1, Multiples
<1>3. k * part \in Nat /\ k * part <= n * part /\ n * part \in Nat
  BY <1>1, Multiples
<1>4. k * part = j * part + part
  BY <1>1, <1>2
<1>. DEFINE x == j * part
            y == k * part
            z == n * part
<1>5. x \in Nat /\ y \in Nat /\ z \in Nat /\ y = x + part /\ y <= z
  BY <1>2, <1>3, <1>4
<1>6. /\ Parts(k, part, remainder) = y + (IF k <= remainder THEN k ELSE remainder)
      /\ Parts(k - 1, part, remainder) = x + (IF j <= remainder THEN j ELSE remainder)
  BY DEF Parts
<1>. HIDE DEF x, y, z, j
<1>7. z + remainder = n * part + remainder
  BY DEF z
<1>. QED BY <1>1, <1>5, <1>6, <1>7

\* One step of an allocation to all outputs: output o is given a(t).
LEMMA AllocateStep ==
  ASSUME NEW outs \in Seq(Script), NEW t \in IntState(outs), NEW id \in Id, NEW amount \in Int,
         NEW o \in 1..Len(outs)
  PROVE  Allocate(t, id, amount, o) \in IntState(outs)
<1>1. o \in DOMAIN outs
  BY OutputsFacts
<1>. QED BY <1>1, AllocateMoves DEF MovedTo

\* A state without negative amounts whose amounts add up.
Kept(st, outs, K) == st \in State(outs) /\ AddsUp(st, outs, K)

\* Moving what the balance has keeps them.
LEMMA AllocateKeeps ==
  ASSUME NEW outs \in Seq(Script), NEW K, NEW st, Kept(st, outs, K), NEW id \in Id,
         NEW amount \in Nat, amount <= st.balance[id], NEW o \in DOMAIN outs
  PROVE  /\ Kept(Allocate(st, id, amount, o), outs, K)
         /\ Allocate(st, id, amount, o).balance[id] = st.balance[id] - amount
<1>. DEFINE n == Allocate(st, id, amount, o)
<1>1. st \in IntState(outs) /\ st \in State(outs) /\ AddsUp(st, outs, K)
  BY StateIsInt DEF Kept
<1>2. MovedTo(n, st, outs, id, amount, o)
  BY <1>1, AllocateMoves
<1>. HIDE DEF n
<1>3. n \in State(outs)
  BY <1>1, <1>2, MovePositive
<1>4. IsFiniteSet(DOMAIN outs) /\ amount \in Int
  BY OutputsFacts
<1>5. AddsUp(n, outs, K)
  BY <1>1, <1>2, <1>4, MoveAddsUp
<1>6. n.balance[id] = st.balance[id] - amount
  BY <1>2 DEF MovedTo
<1>. QED BY <1>3, <1>5, <1>6 DEF Kept, n

\* Equal parts of the whole balance (edict with amount 0 to all outputs).
LEMMA SplitKeeps ==
  ASSUME NEW outs \in Seq(Script), NEW K, NEW st, Kept(st, outs, K), NEW id \in Id
  PROVE  Kept(Split(st, id, outs), outs, K)
<1>. DEFINE N == Len(outs)
            Sp == Spendable(outs)
            n == Cardinality(Sp)
            part == st.balance[id] \div n
            remainder == st.balance[id] % n
            Amount(o) == IF Rank(outs, o) <= remainder THEN part + 1 ELSE part
            Body(e) == [o \in 0..N |-> IF o = 0 THEN st
                                       ELSE IF o \notin Sp THEN e[o - 1]
                                       ELSE Allocate(e[o - 1], id, Amount(o), o)]
            g == [o \in 1..N |-> [t \in IntState(outs) |->
                     IF o \notin Sp THEN t ELSE Allocate(t, id, Amount(o), o)]]
            after == CHOOSE e : e = Body(e)
<1>1. Split(st, id, outs) = IF n = 0 THEN st ELSE after[N]
  BY Zenon DEF Split
<1>2. CASE n = 0
  BY <1>1, <1>2
<1>3. CASE n # 0
  <2>1. N \in Nat /\ n \in Nat \ {0} /\ Sp \subseteq 1..N /\ DOMAIN outs = 1..N
    BY <1>3, OutputsFacts
  <2>2. st \in State(outs) /\ st \in IntState(outs) /\ st.balance[id] \in Nat
    BY StateIsInt DEF Kept, State, Balance
  <2>3. part \in Nat /\ remainder \in 0..(n - 1) /\ st.balance[id] = n * part + remainder
    <3>. DEFINE b == st.balance[id]
    <3>1. b \in Nat /\ n \in Nat \ {0}
      BY <2>1, <2>2
    <3>. HIDE DEF b, n
    <3>2. b \div n \in Nat /\ b % n \in 0..(n - 1) /\ b = n * (b \div n) + (b % n)
      BY <3>1, Division
    <3>. QED BY <3>2 DEF b
  <2>. HIDE DEF N, Sp, n, part, remainder
  <2>4. ASSUME NEW o \in 1..N PROVE Amount(o) \in Int
    BY <2>3
  <2>5. g \in [1..N -> [IntState(outs) -> IntState(outs)]]
    <3>1. ASSUME NEW o \in 1..N, NEW t \in IntState(outs) PROVE Allocate(t, id, Amount(o), o) \in IntState(outs)
      <4>. HIDE DEF Amount
      <4>. QED BY <2>4, AllocateStep DEF N
    <3>. HIDE DEF Amount
    <3>. QED BY <3>1
  <2>6. PICK f \in [0..N -> IntState(outs)] : Computed(f, N, st, g)
    <3>. HIDE DEF g
    <3>. QED BY <2>1, <2>2, <2>5, RecursionExists
  <2>. HIDE DEF Amount
  <2>7. f = Body(f)
    <3>1. ASSUME NEW o \in 0..N
          PROVE  f[o] = IF o = 0 THEN st ELSE IF o \notin Sp THEN f[o - 1]
                        ELSE Allocate(f[o - 1], id, Amount(o), o)
      <4>1. f[o] = IF o = 0 THEN st ELSE g[o][f[o - 1]]
        <5>. HIDE DEF g
        <5>. QED BY <2>6 DEF Computed
      <4>2. o # 0 => o \in 1..N /\ o - 1 \in 0..N /\ f[o - 1] \in IntState(outs)
        BY <2>1
      <4>. QED BY <4>1, <4>2
    <3>2. f = [o \in 0..N |-> f[o]]
      OBVIOUS
    <3>. QED BY <3>1, <3>2
  <2>8. after = Body(after)
    <3>. HIDE DEF Body
    <3>. QED BY <2>7, Zenon
  <2>. HIDE DEF after
  <2>9. /\ after[0] = st
        /\ \A o \in 1..N : after[o] = IF o \notin Sp THEN after[o - 1]
                                      ELSE Allocate(after[o - 1], id, Amount(o), o)
    <3>1. ASSUME NEW o \in 0..N
          PROVE  after[o] = IF o = 0 THEN st ELSE IF o \notin Sp THEN after[o - 1]
                            ELSE Allocate(after[o - 1], id, Amount(o), o)
      BY <2>8
    <3>2. 0 \in 0..N /\ \A o \in 1..N : o \in 0..N /\ o # 0
      BY <2>1
    <3>. QED BY <3>1, <3>2
  <2>. DEFINE Left(o) == st.balance[id] - Parts(Rank(outs, o), part, remainder)
              P == {o \in 0..N : Kept(after[o], outs, K) /\ after[o].balance[id] = Left(o)}
  <2>10. 0 \in P
    <3>1. Rank(outs, 0) = 0
      BY RankFacts
    <3>2. Parts(0, part, remainder) = 0
      BY <2>3 DEF Parts
    <3>. QED BY <2>1, <2>2, <2>9, <3>1, <3>2
  <2>11. ASSUME NEW o \in 1..N, o - 1 \in P PROVE o \in P
    <3>. DEFINE r == Rank(outs, o)
    <3>1. Kept(after[o - 1], outs, K) /\ after[o - 1].balance[id] = Left(o - 1) /\ o \in 0..N
      BY <2>1, <2>11
    <3>2. CASE o \notin Sp
      <4>1. Rank(outs, o) = Rank(outs, o - 1)
        BY <3>2, RankFacts DEF Sp, N
      <4>. QED BY <2>9, <3>1, <3>2, <4>1
    <3>3. CASE o \in Sp
      <4>1. r = Rank(outs, o - 1) + 1 /\ Rank(outs, o - 1) \in Nat /\ r <= n
        <5>1. o - 1 \in 0..N /\ o \in 0..N
          BY <2>1
        <5>. QED BY <3>3, <5>1, RankFacts DEF Sp, N, n
      <4>2. r \in 1..n /\ Rank(outs, o - 1) = r - 1
        BY <2>1, <4>1
      <4>. HIDE DEF r
      <4>3. /\ Amount(o) \in Nat
            /\ Parts(r, part, remainder) = Parts(r - 1, part, remainder) + Amount(o)
            /\ Parts(r, part, remainder) <= st.balance[id]
            /\ Parts(r, part, remainder) \in Nat /\ Parts(r - 1, part, remainder) \in Nat
        <5>1. Amount(o) = IF r <= remainder THEN part + 1 ELSE part
          BY DEF Amount, r
        <5>2. LET a == IF r <= remainder THEN part + 1 ELSE part
              IN  /\ a \in Nat
                  /\ Parts(r, part, remainder) = Parts(r - 1, part, remainder) + a
                  /\ Parts(r, part, remainder) <= n * part + remainder
                  /\ Parts(r, part, remainder) \in Nat /\ Parts(r - 1, part, remainder) \in Nat
          BY <2>1, <2>3, <4>2, PartFits, Zenon
        <5>. QED BY <2>3, <5>1, <5>2
      <4>4. Left(o - 1) = st.balance[id] - Parts(r - 1, part, remainder)
            /\ Left(o) = st.balance[id] - Parts(r, part, remainder)
        BY <4>2 DEF r
      <4>5. Amount(o) <= after[o - 1].balance[id] /\ Left(o) = Left(o - 1) - Amount(o)
        BY <2>2, <3>1, <4>3, <4>4
      <4>6. o \in DOMAIN outs
        BY <2>1
      <4>. DEFINE t == after[o - 1]
      <4>7. /\ Kept(Allocate(t, id, Amount(o), o), outs, K)
            /\ Allocate(t, id, Amount(o), o).balance[id] = t.balance[id] - Amount(o)
        <5>1. Kept(t, outs, K) /\ Amount(o) <= t.balance[id]
          BY <3>1, <4>5
        <5>. HIDE DEF t
        <5>. QED BY <4>3, <4>6, <5>1, AllocateKeeps
      <4>8. after[o] = Allocate(t, id, Amount(o), o)
        BY <2>9, <3>3
      <4>. HIDE DEF Left
      <4>. QED BY <3>1, <4>5, <4>7, <4>8
    <3>. QED BY <3>2, <3>3
  <2>12. N \in P
    <3>1. \A o \in 0..N : o \in P
      <4>. HIDE DEF P
      <4>. QED BY <2>1, <2>10, <2>11, UpTo
    <3>2. N \in 0..N
      BY <2>1
    <3>. QED BY <3>1, <3>2
  <2>. QED BY <1>1, <1>3, <2>12 DEF n
<1>. QED BY <1>2, <1>3

\* The same amount for each output, while the balance lasts.
LEMMA DistributeKeeps ==
  ASSUME NEW outs \in Seq(Script), NEW K, NEW st, Kept(st, outs, K), NEW id \in Id, NEW amount \in Nat
  PROVE  Kept(Distribute(st, id, amount, outs), outs, K)
<1>. DEFINE N == Len(outs)
            Sp == Spendable(outs)
            Body(e) == [o \in 0..N |-> IF o = 0 THEN st
                          ELSE IF o \notin Sp THEN e[o - 1]
                          ELSE Allocate(e[o - 1], id, Min({amount, e[o - 1].balance[id]}), o)]
            g == [o \in 1..N |-> [t \in IntState(outs) |->
                     IF o \notin Sp THEN t ELSE Allocate(t, id, Min({amount, t.balance[id]}), o)]]
            after == CHOOSE e : e = Body(e)
<1>1. Distribute(st, id, amount, outs) = after[N]
  BY Zenon DEF Distribute
<1>2. N \in Nat /\ Sp \subseteq 1..N /\ DOMAIN outs = 1..N
  BY OutputsFacts
<1>3. st \in IntState(outs)
  BY StateIsInt DEF Kept
<1>. HIDE DEF N, Sp
<1>4. g \in [1..N -> [IntState(outs) -> IntState(outs)]]
  <2>1. ASSUME NEW o \in 1..N, NEW t \in IntState(outs)
        PROVE  Allocate(t, id, Min({amount, t.balance[id]}), o) \in IntState(outs)
    <3>1. t.balance[id] \in Int
      BY DEF IntState
    <3>2. Min({amount, t.balance[id]}) \in Int
      BY <3>1, MinAmount, Zenon
    <3>. QED BY <3>2, AllocateStep DEF N
  <2>. QED BY <2>1
<1>5. PICK f \in [0..N -> IntState(outs)] : Computed(f, N, st, g)
  <2>. HIDE DEF g
  <2>. QED BY <1>2, <1>3, <1>4, RecursionExists
<1>6. f = Body(f)
  <2>1. ASSUME NEW o \in 0..N
        PROVE  f[o] = IF o = 0 THEN st ELSE IF o \notin Sp THEN f[o - 1]
                      ELSE Allocate(f[o - 1], id, Min({amount, f[o - 1].balance[id]}), o)
    <3>1. f[o] = IF o = 0 THEN st ELSE g[o][f[o - 1]]
      <4>. HIDE DEF g
      <4>. QED BY <1>5 DEF Computed
    <3>2. o # 0 => o \in 1..N /\ o - 1 \in 0..N /\ f[o - 1] \in IntState(outs)
      BY <1>2
    <3>. QED BY <3>1, <3>2
  <2>2. f = [o \in 0..N |-> f[o]]
    OBVIOUS
  <2>. QED BY <2>1, <2>2
<1>7. after = Body(after)
  <2>. HIDE DEF Body
  <2>. QED BY <1>6, Zenon
<1>. HIDE DEF after
<1>8. /\ after[0] = st
      /\ \A o \in 1..N : after[o] = IF o \notin Sp THEN after[o - 1]
                           ELSE Allocate(after[o - 1], id, Min({amount, after[o - 1].balance[id]}), o)
  <2>1. ASSUME NEW o \in 0..N
        PROVE  after[o] = IF o = 0 THEN st ELSE IF o \notin Sp THEN after[o - 1]
                          ELSE Allocate(after[o - 1], id, Min({amount, after[o - 1].balance[id]}), o)
    BY <1>7
  <2>2. 0 \in 0..N /\ \A o \in 1..N : o \in 0..N /\ o # 0
    BY <1>2
  <2>. QED BY <2>1, <2>2
<1>. DEFINE P == {o \in 0..N : Kept(after[o], outs, K)}
<1>9. 0 \in P
  BY <1>2, <1>8
<1>10. ASSUME NEW o \in 1..N, o - 1 \in P PROVE o \in P
  <2>. DEFINE t == after[o - 1]
              a == Min({amount, t.balance[id]})
  <2>1. Kept(t, outs, K) /\ o \in 0..N /\ o \in DOMAIN outs
    BY <1>2, <1>10
  <2>2. after[o] = IF o \notin Sp THEN t ELSE Allocate(t, id, a, o)
    BY <1>8
  <2>. HIDE DEF t
  <2>3. t.balance[id] \in Nat
    BY <2>1 DEF Kept, State, Balance
  <2>4. a \in Nat /\ a <= t.balance[id]
    <3>1. t.balance[id] \in Int
      BY <2>3
    <3>. QED BY <2>3, <3>1, MinAmount, Zenon
  <2>. HIDE DEF a
  <2>5. Kept(Allocate(t, id, a, o), outs, K)
    BY <2>1, <2>4, AllocateKeeps
  <2>. QED BY <2>1, <2>2, <2>5
<1>11. N \in P
  <2>1. \A o \in 0..N : o \in P
    <3>. HIDE DEF P
    <3>. QED BY <1>2, <1>9, <1>10, UpTo
  <2>2. N \in 0..N
    BY <1>2
  <2>. QED BY <2>1, <2>2
<1>. QED BY <1>1, <1>11

\* What one edict needs.
EdictOK(edict, outs) == edict.amount \in Nat /\ edict.output \in 1..(Len(outs) + 1)

\* An edict, to one output, to all outputs or to none, moves runes between the
\* unallocated and the outputs and creates none.
LEMMA ApplyEdictKeeps ==
  ASSUME NEW outs \in Seq(Script), NEW K, NEW st, Kept(st, outs, K), NEW edict, EdictOK(edict, outs),
         NEW etched, <<height, index>> \in Id
  PROVE  Kept(ApplyEdict(st, edict, etched, outs), outs, K)
<1>. DEFINE id == IF edict.id = Default THEN <<height, index>> ELSE edict.id
            amount == IF edict.amount = 0 THEN st.balance[id] ELSE Min({edict.amount, st.balance[id]})
            res == ApplyEdict(st, edict, etched, outs)
<1>1. CASE edict.id = Default /\ etched = None
  BY <1>1 DEF ApplyEdict
<1>2. CASE edict.id \notin Id \cup {Default}
  BY <1>2 DEF ApplyEdict
<1>3. CASE ~(edict.id = Default /\ etched = None) /\ edict.id \in Id \cup {Default}
  <2>1. res = IF edict.output = Len(outs) + 1
              THEN IF edict.amount = 0 THEN Split(st, id, outs)
                   ELSE Distribute(st, id, edict.amount, outs)
              ELSE Allocate(st, id, amount, edict.output)
    BY <1>3 DEF ApplyEdict
  <2>2. id \in Id /\ edict.amount \in Nat
    BY <1>3 DEF EdictOK
  <2>. HIDE DEF id
  <2>3. Kept(Split(st, id, outs), outs, K) /\ Kept(Distribute(st, id, edict.amount, outs), outs, K)
    BY <2>2, SplitKeeps, DistributeKeeps
  <2>4. ASSUME edict.output # Len(outs) + 1
        PROVE  Kept(Allocate(st, id, amount, edict.output), outs, K)
    <3>1. edict.output \in DOMAIN outs
      <4>1. DOMAIN outs = 1..Len(outs) /\ Len(outs) \in Nat /\ edict.output \in 1..(Len(outs) + 1)
        BY OutputsFacts DEF EdictOK
      <4>. QED BY <2>4, <4>1
    <3>2. st.balance[id] \in Nat /\ st.balance[id] \in Int
      BY <2>2 DEF Kept, State, Balance
    <3>3. amount \in Nat /\ amount <= st.balance[id]
      <4>1. Min({edict.amount, st.balance[id]}) \in Nat /\ Min({edict.amount, st.balance[id]}) <= st.balance[id]
        BY <2>2, <3>2, MinAmount, Zenon
      <4>. QED BY <3>2, <4>1
    <3>. HIDE DEF amount
    <3>. QED BY <2>2, <3>1, <3>3, AllocateKeeps
  <2>. HIDE DEF res, amount
  <2>5. Kept(res, outs, K)
    BY <2>1, <2>3, <2>4
  <2>. QED BY <2>5 DEF res
<1>. QED BY <1>1, <1>2, <1>3

\* So does any sequence of edicts.
LEMMA ApplyEdictsKeep ==
  ASSUME NEW outs \in Seq(Script), NEW K, NEW st, Kept(st, outs, K), NEW edicts, Len(edicts) \in Nat,
         \A i \in 1..Len(edicts) : EdictOK(edicts[i], outs),
         NEW etched, <<height, index>> \in Id
  PROVE  Kept(ApplyEdicts(st, edicts, etched, outs), outs, K)
<1>. DEFINE N == Len(edicts)
            S == {t \in State(outs) : AddsUp(t, outs, K)}
            Body(e) == [i \in 0..N |-> IF i = 0 THEN st ELSE ApplyEdict(e[i - 1], edicts[i], etched, outs)]
            g == [i \in 1..N |-> [t \in S |-> ApplyEdict(t, edicts[i], etched, outs)]]
            after == CHOOSE e : e = Body(e)
<1>1. ApplyEdicts(st, edicts, etched, outs) = after[N]
  BY Zenon DEF ApplyEdicts
<1>2. \A t : t \in S <=> Kept(t, outs, K)
  BY DEF Kept
<1>3. N \in Nat /\ st \in S
  BY <1>2
<1>. HIDE DEF S, N
<1>4. ASSUME NEW i \in 1..N, NEW t \in S PROVE ApplyEdict(t, edicts[i], etched, outs) \in S
  <2>1. Kept(t, outs, K) /\ EdictOK(edicts[i], outs)
    BY <1>2 DEF N
  <2>. QED BY <1>2, <2>1, ApplyEdictKeeps
<1>5. g \in [1..N -> [S -> S]]
  BY <1>4
<1>6. PICK f \in [0..N -> S] : Computed(f, N, st, g)
  <2>. HIDE DEF g
  <2>. QED BY <1>3, <1>5, RecursionExists
<1>7. f = Body(f)
  <2>1. ASSUME NEW i \in 0..N
        PROVE  f[i] = IF i = 0 THEN st ELSE ApplyEdict(f[i - 1], edicts[i], etched, outs)
    <3>1. f[i] = IF i = 0 THEN st ELSE g[i][f[i - 1]]
      <4>. HIDE DEF g
      <4>. QED BY <1>6 DEF Computed
    <3>2. i # 0 => i \in 1..N /\ i - 1 \in 0..N /\ f[i - 1] \in S
      BY <1>3
    <3>. QED BY <3>1, <3>2
  <2>2. f = [i \in 0..N |-> f[i]]
    OBVIOUS
  <2>. QED BY <2>1, <2>2
<1>8. after = Body(after)
  <2>. HIDE DEF Body
  <2>. QED BY <1>7, Zenon
<1>. HIDE DEF after
<1>9. /\ after[0] = st
      /\ \A i \in 1..N : after[i] = ApplyEdict(after[i - 1], edicts[i], etched, outs)
  <2>1. ASSUME NEW i \in 0..N
        PROVE  after[i] = IF i = 0 THEN st ELSE ApplyEdict(after[i - 1], edicts[i], etched, outs)
    BY <1>8
  <2>2. 0 \in 0..N /\ \A i \in 1..N : i \in 0..N /\ i # 0
    BY <1>3
  <2>. QED BY <2>1, <2>2
<1>. DEFINE P == {i \in 0..N : after[i] \in S}
<1>10. 0 \in P
  BY <1>3, <1>9
<1>11. ASSUME NEW i \in 1..N, i - 1 \in P PROVE i \in P
  <2>1. after[i - 1] \in S /\ i \in 0..N
    BY <1>3, <1>11
  <2>. QED BY <1>4, <1>9, <2>1
<1>12. \A i \in 0..N : i \in P
  <2>. HIDE DEF P
  <2>. QED BY <1>3, <1>10, <1>11, UpTo
<1>13. after[N] \in S
  BY <1>3, <1>12
<1>. QED BY <1>1, <1>2, <1>13

\* The rest goes to one output, or stays where it is.
LEMMA RestKeeps ==
  ASSUME NEW outs \in Seq(Script), NEW K, NEW st, Kept(st, outs, K), NEW art,
         art.pointer # None => art.pointer \in 1..Len(outs)
  PROVE  Kept(Rest(st, art, outs), outs, K)
<1>. DEFINE o == DefaultOutput(art, outs)
            S == DOMAIN outs
            a == [st.alloc EXCEPT ![o] = Add(st.alloc[o], st.balance)]
            n == [balance |-> Zero, alloc |-> a]
<1>1. CASE art.cenotaph \/ o = None
  BY <1>1 DEF Rest
<1>2. CASE ~(art.cenotaph \/ o = None)
  <2>1. Rest(st, art, outs) = n
    BY <1>2 DEF Rest
  <2>2. o \in S
    <3>1. S = 1..Len(outs) /\ Len(outs) \in Nat /\ Spendable(outs) \subseteq S
      BY OutputsFacts
    <3>2. CASE art.pointer # None
      BY <3>1, <3>2 DEF DefaultOutput
    <3>3. CASE art.pointer = None
      <4>1. Spendable(outs) # {} /\ o = Min(Spendable(outs))
        BY <1>2, <3>3 DEF DefaultOutput
      <4>2. \E x \in Spendable(outs) : \A y \in Spendable(outs) : x <= y
        <5>1. Spendable(outs) \subseteq Nat
          BY <3>1
        <5>. QED BY <4>1, <5>1, LeastNat
      <4>3. Min(Spendable(outs)) \in Spendable(outs)
        BY <4>2, Zenon DEF Min
      <4>. QED BY <3>1, <4>1, <4>3
    <3>. QED BY <3>2, <3>3
  <2>. HIDE DEF o
  <2>3. st \in State(outs) /\ st.balance \in [Id -> Nat] /\ st.alloc \in [S -> [Id -> Nat]]
    BY DEF Kept, State, Balance
  <2>4. Add(st.alloc[o], st.balance) \in [Id -> Nat]
    BY <2>2, <2>3 DEF Add
  <2>5. a \in [S -> [Id -> Nat]] /\ Zero \in [Id -> Nat]
    <3>1. Zero \in [Id -> Nat]
      BY DEF Zero
    <3>. QED BY <2>3, <2>4, <3>1
  <2>6. n \in State(outs)
    BY <2>5 DEF State, Balance
  <2>7. ASSUME NEW id \in Id PROVE n.balance[id] + Given(n, outs, id) = K[id]
    <3>. DEFINE f == GivenOf(st, outs, id)
                h == GivenOf(n, outs, id)
                b == st.balance[id]
    <3>1. /\ IsFiniteSet(S) /\ Weights(f, S) /\ b \in Int
          /\ h[o] = f[o] + b /\ \A p \in S \ {o} : h[p] = f[p]
      <4>1. IsFiniteSet(S)
        BY OutputsFacts
      <4>2. Weights(f, S) /\ b \in Int
        BY <2>3 DEF Weights, GivenOf
      <4>3. h[o] = f[o] + b
        <5>1. h[o] = a[o][id] /\ f[o] = st.alloc[o][id]
          BY <2>2 DEF GivenOf
        <5>2. a[o] = Add(st.alloc[o], st.balance)
          BY <2>2, <2>3
        <5>. QED BY <5>1, <5>2 DEF Add
      <4>4. ASSUME NEW p \in S \ {o} PROVE h[p] = f[p]
        BY <2>2, <2>3 DEF GivenOf
      <4>. QED BY <4>1, <4>2, <4>3, <4>4
    <3>2. b + SumFunctionOnSet(f, S) = K[id]
      BY DEF Kept, AddsUp, Given
    <3>3. n.balance[id] = 0 /\ Given(n, outs, id) = SumFunctionOnSet(h, S)
      BY DEF Zero, Given
    <3>. HIDE DEF f, h, b, S, n
    <3>4. SumFunctionOnSet(h, S) = SumFunctionOnSet(f, S) + b
      BY <2>2, <3>1, SumChange
    <3>5. SumFunctionOnSet(f, S) \in Int
      BY <3>1, SumStep
    <3>. QED BY <3>1, <3>2, <3>3, <3>4, <3>5
  <2>8. AddsUp(n, outs, K)
    BY <2>7 DEF AddsUp
  <2>. QED BY <2>1, <2>6, <2>8 DEF Kept
<1>. QED BY <1>1, <1>2

\* What a transaction mints and premines.
Minted(art) ==
  IF art.mint # None /\ CanMint(art.mint)
  THEN [Zero EXCEPT ![art.mint] = infos[art.mint].terms.amount] ELSE Zero
Premined(art, etched) ==
  IF etched # None /\ ~art.cenotaph
  THEN [Zero EXCEPT ![<<height, index>>] = art.etching.premine] ELSE Zero
Gift(tx, etched) == Add(Unallocated(tx.ins), Add(Minted(tx.artifact), Premined(tx.artifact, etched)))

\* The whole allocation of a transaction, the remainder to the pointer or to
\* burned included, shares out exactly what its inputs, its mint and its premine
\* give it.
LEMMA AllocationKeeps ==
  ASSUME NEW tx, tx.outs \in Seq(Script), Artifact(tx.artifact, Len(tx.outs)),
         NEW etched, Gift(tx, etched) \in Balance, <<height, index>> \in Id
  PROVE  Kept(Allocation(tx, etched), tx.outs, Gift(tx, etched))
<1>. DEFINE outs == tx.outs
            art == tx.artifact
            K == Gift(tx, etched)
            start == [balance |-> K, alloc |-> [o \in DOMAIN outs |-> Zero]]
<1>1. Allocation(tx, etched) = Rest(ApplyEdicts(start, art.edicts, etched, outs), art, outs)
  BY DEF Allocation, Gift, Minted, Premined
<1>2. Kept(start, outs, K)
  <2>1. Zero \in Balance
    BY DEF Zero, Balance
  <2>2. start \in State(outs)
    BY <2>1 DEF State
  <2>3. ASSUME NEW id \in Id PROVE start.balance[id] + Given(start, outs, id) = K[id]
    <3>. DEFINE f == GivenOf(start, outs, id)
                S == DOMAIN outs
    <3>1. IsFiniteSet(S)
      BY OutputsFacts
    <3>2. \A o \in S : f[o] = 0
      BY DEF GivenOf, Zero
    <3>3. SumFunctionOnSet(f, S) = 0
      <4>. HIDE DEF f, S
      <4>. QED BY <3>1, <3>2, SumZero
    <3>4. start.balance[id] = K[id] /\ K[id] \in Nat
      BY DEF Balance
    <3>. HIDE DEF K
    <3>. QED BY <3>3, <3>4 DEF Given
  <2>. HIDE DEF start
  <2>. QED BY <2>2, <2>3 DEF Kept, AddsUp
<1>3. Len(art.edicts) \in Nat /\ \A i \in 1..Len(art.edicts) : EdictOK(art.edicts[i], outs)
  <2>. DEFINE E == [id : Nat \X Nat, amount : Nat, output : 1..(Len(outs) + 1)]
  <2>1. art.edicts \in Seq(E)
    BY DEF Artifact
  <2>2. \A e \in E : EdictOK(e, outs)
    BY DEF EdictOK
  <2>. HIDE DEF E
  <2>. QED BY <2>1, <2>2
<1>4. art.pointer # None => art.pointer \in 1..Len(outs)
  BY DEF Artifact
<1>. HIDE DEF outs, art, K, start
<1>5. outs \in Seq(Script)
  BY DEF outs
<1>6. Kept(ApplyEdicts(start, art.edicts, etched, outs), outs, K)
  BY <1>2, <1>3, <1>5, ApplyEdictsKeep
<1>7. Kept(Rest(ApplyEdicts(start, art.edicts, etched, outs), art, outs), outs, K)
  BY <1>4, <1>5, <1>6, RestKeeps
<1>. QED BY <1>1, <1>7 DEF K, outs

-----------------------------------------------------------------------------
(***************************************************************************)
(* Part 3. The tables.  The invariant says where the indexer is and of     *)
(* what type the tables are; everything recorded names an earlier          *)
(* transaction, so that what the next one records is new.                  *)
(***************************************************************************)

\* The transaction at position p is before the next one.
Past(p) ==
  /\ p[1] \in Nat /\ p[2] \in Nat
  /\ p[1] < height \/ (p[1] = height /\ p[2] < index)

PlaceOK == height \in 1..Len(BlockSize) /\ index \in 0..BlockSize[height]

UtxosOK ==
  /\ IsFiniteSet(DOMAIN utxos)
  /\ \A r \in DOMAIN utxos : /\ Past(r)
                             /\ utxos[r].script \in Script \ OpReturn
                             /\ utxos[r].runes \in Balance

InfosOK ==
  \A id \in DOMAIN infos :
    /\ id \in Id /\ Past(id)
    /\ infos[id].premine \in Nat
    /\ infos[id].terms # None => infos[id].terms.amount \in Nat /\ infos[id].terms.cap \in Nat

\* A rune is minted no more often than its terms allow, and not before it is
\* etched.
MintsOK ==
  /\ mints \in Balance
  /\ \A id \in Id : mints[id] > 0 =>
       /\ id \in DOMAIN infos
       /\ infos[id].terms # None
       /\ mints[id] <= infos[id].terms.cap

\* Below the start height there are no runes.
NoneBelowStart == height < StartHeight => \A r \in DOMAIN utxos : utxos[r].runes = Zero

TablesOK ==
  PlaceOK /\ UtxosOK /\ InfosOK /\ MintsOK /\ NoneBelowStart /\ burned \in Balance

\* A transaction that can be next.
TxOK(tx) ==
  /\ tx.ins \subseteq DOMAIN utxos
  /\ tx.outs \in Seq(Script)
  /\ Artifact(tx.artifact, Len(tx.outs))

\* Every step processes such a transaction or goes to the next block.
LEMMA NextCases ==
  ASSUME Next
  PROVE  NextBlock \/ \E tx : TxOK(tx) /\ ProcessTx(tx)
<1>1. CASE ProcessCoinbase
  <2>1. PICK shape \in Coinbase : ProcessTx(Tx(shape, {}, {}))
    BY <1>1 DEF ProcessCoinbase
  <2>2. TxOK(Tx(shape, {}, {}))
    BY ShapeAssumption DEF TxOK, Tx
  <2>. QED BY <2>1, <2>2
<1>2. CASE ProcessSpend
  <2>1. PICK shape \in Template, ins \in SUBSET DOMAIN utxos :
          \E commits \in SUBSET ins : ProcessTx(Tx(shape, ins, commits))
    <3>1. kSubset(1, DOMAIN utxos) \cup kSubset(2, DOMAIN utxos) \subseteq SUBSET DOMAIN utxos
      BY DEF kSubset
    <3>. QED BY <1>2, <3>1 DEF ProcessSpend
  <2>2. ASSUME NEW commits PROVE TxOK(Tx(shape, ins, commits))
    BY ShapeAssumption DEF TxOK, Tx
  <2>. QED BY <2>1, <2>2
<1>. QED BY <1>1, <1>2 DEF Next

\* The heights and positions of transactions.
LEMMA PlaceFacts ==
  ASSUME PlaceOK
  PROVE  /\ height \in Nat /\ index \in Nat /\ Len(BlockSize) \in Nat
         /\ \A h \in 1..Len(BlockSize) : BlockSize[h] \in Nat
         /\ index < BlockSize[height] => <<height, index>> \in Id
         /\ ~Past(<<height, index>>)
         /\ \A o : ~Past(Ref(o))
<1>1. BlockSize \in Seq(Nat)
  BY HeightAssumption
<1>2. Len(BlockSize) \in Nat /\ \A h \in 1..Len(BlockSize) : BlockSize[h] \in Nat
  BY <1>1
<1>3. height \in Nat /\ index \in Nat /\ BlockSize[height] \in Nat
  BY <1>2 DEF PlaceOK
<1>4. ASSUME index < BlockSize[height] PROVE <<height, index>> \in Id
  <2>1. index \in 0..(BlockSize[height] - 1)
    BY <1>3, <1>4
  <2>. QED BY <2>1 DEF Id, PlaceOK
<1>5. ~Past(<<height, index>>) /\ \A o : ~Past(Ref(o))
  BY <1>3 DEF Past, Ref
<1>. QED BY <1>2, <1>3, <1>4, <1>5

\* Identifiers are pairs.
LEMMA IdFacts ==
  ASSUME NEW id \in Id
  PROVE  id[1] \in Nat /\ id[2] \in Nat /\ id = <<id[1], id[2]>>
<1>1. PICK h \in 1..Len(BlockSize) : id \in {h} \X (0..(BlockSize[h] - 1))
  BY DEF Id
<1>2. Len(BlockSize) \in Nat /\ BlockSize[h] \in Nat
  BY HeightAssumption
<1>. QED BY <1>1, <1>2

\* What was before stays before.
LEMMA PastStays ==
  ASSUME PlaceOK, NEW p, Past(p),
         \/ height' = height /\ index' = index + 1
         \/ height' = height + 1 /\ index' = 0
  PROVE  Past(p)'
BY PlaceFacts DEF Past

\* v is the table of outputs once a transaction is done.
Becomes(v, ins, outs, alloc) ==
  /\ DOMAIN v = (DOMAIN utxos \ ins) \cup {Ref(o) : o \in Spendable(outs)}
  /\ \A o \in Spendable(outs) :
       /\ Ref(o) \notin DOMAIN utxos
       /\ v[Ref(o)].script = outs[o] /\ v[Ref(o)].height = height /\ v[Ref(o)].runes = alloc[o]
  /\ \A r \in DOMAIN utxos \ ins : v[r] = utxos[r]

\* What UpdateUtxoSet makes of the outputs that carry runes.
LEMMA UpdateBecomes ==
  ASSUME PlaceOK, UtxosOK, NEW ins, NEW outs, NEW alloc, UpdateUtxoSet(ins, outs, alloc)
  PROVE  Becomes(utxos', ins, outs, alloc)
<1>. DEFINE D == (DOMAIN utxos \ ins) \cup {Ref(o) : o \in Spendable(outs)}
<1>1. utxos' = [r \in D |-> IF r \in DOMAIN utxos THEN utxos[r]
                 ELSE [script |-> outs[r[3]], height |-> height, runes |-> alloc[r[3]]]]
  BY DEF UpdateUtxoSet
<1>2. ASSUME NEW o \in Spendable(outs)
      PROVE  Ref(o) \notin DOMAIN utxos /\ Ref(o) \in D /\ Ref(o)[3] = o
  <2>1. ~Past(Ref(o))
    BY PlaceFacts
  <2>. QED BY <2>1 DEF UtxosOK, Ref
<1>3. ASSUME NEW o \in Spendable(outs)
      PROVE  /\ utxos'[Ref(o)].script = outs[o] /\ utxos'[Ref(o)].height = height
             /\ utxos'[Ref(o)].runes = alloc[o]
  <2>1. utxos'[Ref(o)] = [script |-> outs[o], height |-> height, runes |-> alloc[o]]
    BY <1>1, <1>2
  <2>. QED BY <2>1
<1>4. ASSUME NEW r \in DOMAIN utxos \ ins PROVE utxos'[r] = utxos[r]
  BY <1>1
<1>5. DOMAIN utxos' = D
  BY <1>1
<1>. HIDE DEF UpdateUtxoSet
<1>. QED BY <1>2, <1>3, <1>4, <1>5, Zenon DEF Becomes

\* Renaming outputs by their references.
LEMMA RefsFacts ==
  ASSUME NEW S, IsFiniteSet(S)
  PROVE  /\ IsFiniteSet({Ref(o) : o \in S})
         /\ OneToOne([o \in S |-> Ref(o)], S)
         /\ Image([o \in S |-> Ref(o)], S) = {Ref(o) : o \in S}
<1>. DEFINE m == [o \in S |-> Ref(o)]
<1>1. OneToOne(m, S) /\ Image(m, S) = {Ref(o) : o \in S}
  BY DEF OneToOne, Image, Ref
<1>2. IsFiniteSet(Image(m, S))
  <2>. DEFINE z == [o \in S |-> 0]
              y == [r \in Image(m, S) |-> 0]
  <2>1. Weights(z, S) /\ \A o \in S : y[m[o]] = z[o]
    BY DEF Weights, Image
  <2>. HIDE DEF z, y, m
  <2>. QED BY <1>1, <2>1, SumImage DEF m
<1>. QED BY <1>1, <1>2

\* Outputs written by a transaction carry balances and are named after it.
LEMMA UtxosOKStep ==
  ASSUME PlaceOK, UtxosOK, NEW ins, NEW outs \in Seq(Script), NEW alloc \in [DOMAIN outs -> Balance],
         Becomes(utxos', ins, outs, alloc), height' = height, index' = index + 1
  PROVE  UtxosOK'
<1>. DEFINE new == {Ref(o) : o \in Spendable(outs)}
<1>1. IsFiniteSet(DOMAIN utxos')
  <2>1. IsFiniteSet(new)
    BY OutputsFacts, RefsFacts
  <2>2. IsFiniteSet(DOMAIN utxos \ ins)
    BY FS_Subset DEF UtxosOK
  <2>. HIDE DEF new
  <2>3. IsFiniteSet((DOMAIN utxos \ ins) \cup new)
    BY <2>1, <2>2, FS_Union
  <2>. QED BY <2>3 DEF Becomes, new
<1>2. ASSUME NEW r \in DOMAIN utxos \ ins
      PROVE  Past(r)' /\ utxos'[r].script \in Script \ OpReturn /\ utxos'[r].runes \in Balance
  BY PastStays DEF UtxosOK, Becomes
<1>3. ASSUME NEW o \in Spendable(outs)
      PROVE  \A r : r = Ref(o) =>
               Past(r)' /\ utxos'[r].script \in Script \ OpReturn /\ utxos'[r].runes \in Balance
  <2>1. o \in DOMAIN outs /\ outs[o] \in Script \ OpReturn
    BY DEF Spendable
  <2>2. (<<height, index>>[1] = height) /\ height \in Nat /\ index \in Nat
    BY PlaceFacts
  <2>3. ASSUME NEW r, r = Ref(o) PROVE Past(r)'
    BY <2>2, <2>3 DEF Past, Ref
  <2>. QED BY <2>1, <2>3 DEF Becomes
<1>. QED BY <1>1, <1>2, <1>3 DEF UtxosOK, Becomes

\* What a transaction etches, and how it allocates its runes.
EtchedBy(tx) == Etched(tx.artifact, tx.commits)
StateAfter(tx) == Allocation(tx, EtchedBy(tx))

\* A name that is etched is the one reserved for the transaction, or new.
LEMMA EtchedFacts ==
  ASSUME NEW tx, EtchedBy(tx) # None
  PROVE  /\ tx.artifact.etching # None
         /\ \/ EtchedBy(tx) = <<height, index>>
            \/ EtchedBy(tx) \in Name /\ EtchedBy(tx) \notin DOMAIN idByName
<1>1. tx.artifact.etching # None
  BY DEF EtchedBy, Etched
<1>2. CASE tx.artifact.etching.name = None
  BY <1>1, <1>2 DEF EtchedBy, Etched
<1>3. CASE tx.artifact.etching.name # None
  BY <1>1, <1>3 DEF EtchedBy, Etched, Etchable
<1>. QED BY <1>1, <1>2, <1>3

\* The runes of the inputs.
LEMMA UnallocatedFacts ==
  ASSUME UtxosOK, NEW ins \in SUBSET DOMAIN utxos
  PROVE  Unallocated(ins) \in Balance /\ IsFiniteSet(ins)
<1>1. IsFiniteSet(ins)
  BY FS_Subset DEF UtxosOK
<1>2. ASSUME NEW id \in Id PROVE SumFunction([r \in ins |-> utxos[r].runes[id]]) \in Nat
  <2>. DEFINE f == [r \in ins |-> utxos[r].runes[id]]
  <2>1. \A r \in ins : f[r] \in Nat
    BY DEF UtxosOK, Balance
  <2>2. DOMAIN f = ins
    OBVIOUS
  <2>. HIDE DEF f
  <2>3. SumFunctionOnSet(f, ins) \in Nat
    BY <1>1, <2>1, SumNat
  <2>4. SumFunction(f) \in Nat
    BY <2>2, <2>3 DEF SumFunction
  <2>. QED BY <2>4 DEF f
<1>. QED BY <1>1, <1>2 DEF Unallocated, Balance

\* What there is to give away is a balance.
LEMMA GiftFacts ==
  ASSUME TablesOK, NEW tx, TxOK(tx)
  PROVE  /\ Unallocated(tx.ins) \in Balance
         /\ Minted(tx.artifact) \in Balance
         /\ Premined(tx.artifact, EtchedBy(tx)) \in Balance
         /\ Gift(tx, EtchedBy(tx)) \in Balance
<1>. DEFINE art == tx.artifact
            e == EtchedBy(tx)
<1>0. Zero \in [Id -> Nat]
  BY DEF Zero
<1>1. Unallocated(tx.ins) \in [Id -> Nat]
  BY UnallocatedFacts DEF TablesOK, TxOK, Balance
<1>2. Minted(art) \in [Id -> Nat]
  <2>1. CASE art.mint # None /\ CanMint(art.mint)
    <3>. DEFINE v == infos[art.mint].terms.amount
    <3>1. v \in Nat /\ Minted(art) = [Zero EXCEPT ![art.mint] = v]
      BY <2>1 DEF CanMint, TablesOK, InfosOK, Minted
    <3>. HIDE DEF v
    <3>. QED BY <1>0, <3>1
  <2>2. CASE ~(art.mint # None /\ CanMint(art.mint))
    BY <1>0, <2>2 DEF Minted
  <2>. QED BY <2>1, <2>2
<1>3. Premined(art, e) \in [Id -> Nat]
  <2>1. CASE e # None /\ ~art.cenotaph
    <3>. DEFINE v == art.etching.premine
    <3>1. v \in Nat /\ Premined(art, e) = [Zero EXCEPT ![<<height, index>>] = v]
      BY <2>1, EtchedFacts DEF TxOK, Artifact, Premined
    <3>. HIDE DEF v, e
    <3>. QED BY <1>0, <3>1
  <2>2. CASE ~(e # None /\ ~art.cenotaph)
    BY <1>0, <2>2 DEF Premined
  <2>. QED BY <2>1, <2>2
<1>4. Gift(tx, e) \in [Id -> Nat]
  <2>. DEFINE m == Minted(art)
              p == Premined(art, e)
              u == Unallocated(tx.ins)
  <2>1. Gift(tx, e) = [id \in Id |-> u[id] + [i \in Id |-> m[i] + p[i]][id]]
    BY DEF Gift, Add
  <2>2. m \in [Id -> Nat] /\ p \in [Id -> Nat] /\ u \in [Id -> Nat]
    BY <1>1, <1>2, <1>3
  <2>. HIDE DEF m, p, u
  <2>. QED BY <2>1, <2>2
<1>. QED BY <1>1, <1>2, <1>3, <1>4 DEF Balance

\* What a transaction allocates.
LEMMA AfterFacts ==
  ASSUME TablesOK, NEW tx, TxOK(tx), index < BlockSize[height]
  PROVE  /\ Kept(StateAfter(tx), tx.outs, Gift(tx, EtchedBy(tx)))
         /\ StateAfter(tx).alloc \in [DOMAIN tx.outs -> Balance]
         /\ StateAfter(tx).balance \in Balance
         /\ Burnt(StateAfter(tx), tx.outs) \in Balance
<1>. DEFINE st == StateAfter(tx)
            outs == tx.outs
            K == Gift(tx, EtchedBy(tx))
            X == DOMAIN outs \ Spendable(outs)
<1>1. K \in Balance
  BY GiftFacts
<1>2. <<height, index>> \in Id
  BY PlaceFacts DEF TablesOK
<1>3. Kept(st, outs, K)
  BY <1>1, <1>2, AllocationKeeps DEF TxOK, StateAfter
<1>4. st.alloc \in [DOMAIN outs -> Balance] /\ st.balance \in Balance
  BY <1>3 DEF Kept, State
<1>5. IsFiniteSet(X)
  <2>1. IsFiniteSet(DOMAIN outs)
    BY OutputsFacts DEF TxOK
  <2>. QED BY <2>1, FS_Subset
<1>. HIDE DEF st, outs
<1>6. ASSUME NEW id \in Id
      PROVE  st.balance[id] + SumFunction([o \in X |-> st.alloc[o][id]]) \in Nat
  <2>. DEFINE f == [o \in X |-> st.alloc[o][id]]
  <2>1. \A o \in X : f[o] \in Nat
    BY <1>4 DEF Balance
  <2>2. DOMAIN f = X
    OBVIOUS
  <2>3. st.balance[id] \in Nat
    BY <1>4 DEF Balance
  <2>. HIDE DEF f, X
  <2>4. SumFunctionOnSet(f, X) \in Nat
    BY <1>5, <2>1, SumNat
  <2>5. SumFunction(f) \in Nat
    BY <2>2, <2>4 DEF SumFunction
  <2>6. st.balance[id] + SumFunction(f) \in Nat
    BY <2>3, <2>5
  <2>. QED BY <2>6 DEF f
<1>7. Burnt(st, outs) = [id \in Id |-> st.balance[id] + SumFunction([o \in X |-> st.alloc[o][id]])]
  BY DEF Burnt
<1>8. Burnt(st, outs) \in Balance
  <2>. HIDE DEF X
  <2>. QED BY <1>6, <1>7 DEF Balance
<1>. QED BY <1>3, <1>4, <1>8 DEF st, outs

\* IndexTx, in these terms.
LEMMA IndexTxFacts ==
  ASSUME TablesOK, NEW tx, TxOK(tx), index < BlockSize[height], IndexTx(tx)
  PROVE  /\ height >= StartHeight
         /\ mints' = IF tx.artifact.mint # None /\ CanMint(tx.artifact.mint)
                     THEN [mints EXCEPT ![tx.artifact.mint] = @ + 1] ELSE mints
         /\ EtchedBy(tx) = None => infos' = infos /\ idByName' = idByName
         /\ EtchedBy(tx) # None =>
              /\ infos' = Put(infos, <<height, index>>, CreateRuneEntry(tx.artifact, EtchedBy(tx)))
              /\ idByName' = Put(idByName, EtchedBy(tx), <<height, index>>)
         /\ rows' = (rows \ Consumed(tx.ins)) \cup Added(tx.outs, StateAfter(tx).alloc)
         /\ index_activity =>
              activity' = (activity \cup Sent(tx.ins)) \cup Received(tx.outs, StateAfter(tx).alloc)
         /\ burned' = Add(burned, Burnt(StateAfter(tx), tx.outs))
         /\ Becomes(utxos', tx.ins, tx.outs, StateAfter(tx).alloc)
<1>1. UpdateUtxoSet(tx.ins, tx.outs, StateAfter(tx).alloc)
  BY DEF IndexTx, StateAfter, EtchedBy
<1>2. Becomes(utxos', tx.ins, tx.outs, StateAfter(tx).alloc)
  BY <1>1, UpdateBecomes DEF TablesOK
<1>3. index_activity =>
        activity' = (activity \cup Sent(tx.ins)) \cup Received(tx.outs, StateAfter(tx).alloc)
  <2>1. activity' = activity \cup Logged(tx.ins, tx.outs, StateAfter(tx).alloc)
    BY DEF IndexTx, StateAfter, EtchedBy
  <2>. QED BY <2>1 DEF Logged
<1>. QED BY <1>2, <1>3 DEF IndexTx, StateAfter, EtchedBy

\* SkipTx likewise.
LEMMA SkipTxFacts ==
  ASSUME TablesOK, NEW tx, TxOK(tx), SkipTx(tx)
  PROVE  /\ height < StartHeight
         /\ UNCHANGED <<infos, idByName, mints, rows, activity, burned>>
         /\ [o \in DOMAIN tx.outs |-> Zero] \in [DOMAIN tx.outs -> Balance]
         /\ Becomes(utxos', tx.ins, tx.outs, [o \in DOMAIN tx.outs |-> Zero])
<1>1. UpdateUtxoSet(tx.ins, tx.outs, [o \in DOMAIN tx.outs |-> Zero])
  BY DEF SkipTx
<1>2. Becomes(utxos', tx.ins, tx.outs, [o \in DOMAIN tx.outs |-> Zero])
  BY <1>1, UpdateBecomes DEF TablesOK
<1>3. Zero \in Balance
  BY DEF Zero, Balance
<1>. QED BY <1>2, <1>3 DEF SkipTx

\* What is recorded of an etching.
LEMMA EntryFacts ==
  ASSUME NEW tx, TxOK(tx), EtchedBy(tx) # None
  PROVE  LET entry == CreateRuneEntry(tx.artifact, EtchedBy(tx))
         IN  /\ entry.name = EtchedBy(tx)
             /\ entry.premine \in Nat
             /\ entry.premine = IF tx.artifact.cenotaph THEN 0 ELSE tx.artifact.etching.premine
             /\ entry.terms # None => entry.terms.amount \in Nat /\ entry.terms.cap \in Nat
<1>. DEFINE art == tx.artifact
            entry == CreateRuneEntry(art, EtchedBy(tx))
<1>1. art.etching # None
  BY EtchedFacts
<1>2. /\ entry.name = EtchedBy(tx)
      /\ entry.premine = IF art.cenotaph THEN 0 ELSE art.etching.premine
      /\ entry.terms = IF art.cenotaph THEN None ELSE Terms(art.etching.terms)
  BY DEF CreateRuneEntry
<1>3. ~art.cenotaph =>
        /\ art.etching.premine \in Nat
        /\ art.etching.terms # None => art.etching.terms.amount \in Nat /\ art.etching.terms.cap \in Nat
  BY <1>1 DEF TxOK, Artifact
<1>4. ASSUME NEW t, t # None PROVE Terms(t).amount = t.amount /\ Terms(t).cap = t.cap
  BY <1>4 DEF Terms
<1>5. Terms(None) = None
  BY DEF Terms
<1>. HIDE DEF entry
<1>6. entry.terms # None => entry.terms.amount \in Nat /\ entry.terms.cap \in Nat
  BY <1>2, <1>3, <1>4, <1>5
<1>. QED BY <1>2, <1>3, <1>6 DEF entry

\* The table of etchings after a transaction: what was there stays as it was,
\* and the identifier of the transaction is new.
LEMMA InfosAfter ==
  ASSUME TablesOK, NEW tx, TxOK(tx), index < BlockSize[height], IndexTx(tx)
  PROVE  /\ <<height, index>> \notin DOMAIN infos
         /\ DOMAIN infos' = IF EtchedBy(tx) = None THEN DOMAIN infos
                            ELSE DOMAIN infos \cup {<<height, index>>}
         /\ \A id \in DOMAIN infos : infos'[id] = infos[id]
         /\ EtchedBy(tx) # None =>
              infos'[<<height, index>>] = CreateRuneEntry(tx.artifact, EtchedBy(tx))
<1>1. <<height, index>> \notin DOMAIN infos
  BY PlaceFacts DEF TablesOK, InfosOK
<1>2. CASE EtchedBy(tx) = None
  BY <1>1, <1>2, IndexTxFacts
<1>3. CASE EtchedBy(tx) # None
  <2>1. infos' = Put(infos, <<height, index>>, CreateRuneEntry(tx.artifact, EtchedBy(tx)))
    BY <1>3, IndexTxFacts
  <2>. QED BY <1>1, <1>3, <2>1 DEF Put
<1>. QED BY <1>2, <1>3

\* A rune is etched under the place of its transaction, which no earlier rune has.
LEMMA InfosStep ==
  ASSUME TablesOK, NEW tx, TxOK(tx), index < BlockSize[height], IndexTx(tx),
         height' = height, index' = index + 1
  PROVE  InfosOK'
<1>. DEFINE here == <<height, index>>
            entry == CreateRuneEntry(tx.artifact, EtchedBy(tx))
<1>1. ASSUME NEW id \in DOMAIN infos
      PROVE  /\ id \in Id /\ Past(id)' /\ infos'[id].premine \in Nat
             /\ infos'[id].terms # None => infos'[id].terms.amount \in Nat /\ infos'[id].terms.cap \in Nat
  <2>1. infos'[id] = infos[id]
    BY InfosAfter
  <2>2. Past(id)' /\ id \in Id
    BY PastStays DEF TablesOK, InfosOK
  <2>. QED BY <2>1, <2>2 DEF TablesOK, InfosOK
<1>2. ASSUME EtchedBy(tx) # None, NEW id, id = here
      PROVE  /\ id \in Id /\ Past(id)' /\ infos'[id].premine \in Nat
             /\ infos'[id].terms # None => infos'[id].terms.amount \in Nat /\ infos'[id].terms.cap \in Nat
  <2>1. infos'[id] = entry
    BY <1>2, InfosAfter
  <2>2. id \in Id /\ height \in Nat /\ index \in Nat
    BY <1>2, PlaceFacts DEF TablesOK
  <2>3. Past(id)'
    BY <1>2, <2>2 DEF Past
  <2>4. entry.premine \in Nat /\ (entry.terms # None => entry.terms.amount \in Nat /\ entry.terms.cap \in Nat)
    BY <1>2, EntryFacts
  <2>. HIDE DEF entry
  <2>. QED BY <2>1, <2>2, <2>3, <2>4
<1>3. \A id \in DOMAIN infos' : id \in DOMAIN infos \/ (EtchedBy(tx) # None /\ id = here)
  BY InfosAfter
<1>. QED BY <1>1, <1>2, <1>3 DEF InfosOK

\* Mints are counted for etched runes and stay within their cap.
LEMMA MintsStep ==
  ASSUME TablesOK, NEW tx, TxOK(tx), index < BlockSize[height], IndexTx(tx)
  PROVE  MintsOK'
<1>. DEFINE mint == tx.artifact.mint
            m == [mints EXCEPT ![mint] = @ + 1]
<1>1. mints \in [Id -> Nat] /\ \A id \in DOMAIN infos : id \in DOMAIN infos' /\ infos'[id] = infos[id]
  BY InfosAfter DEF TablesOK, MintsOK, Balance
<1>2. CASE mint # None /\ CanMint(mint)
  <2>1. mints' = m
    BY <1>2, IndexTxFacts
  <2>2. /\ mint \in DOMAIN infos /\ mint \in Id /\ infos[mint].terms # None
        /\ mints[mint] < infos[mint].terms.cap /\ infos[mint].terms.cap \in Nat
    BY <1>2 DEF CanMint, BelowCap, TablesOK, InfosOK
  <2>. HIDE DEF mint
  <2>3. m \in [Id -> Nat] /\ m[mint] = mints[mint] + 1 /\ \A id \in Id \ {mint} : m[id] = mints[id]
    BY <1>1, <2>2
  <2>4. ASSUME NEW id \in Id, m[id] > 0
        PROVE  id \in DOMAIN infos /\ infos[id].terms # None /\ m[id] <= infos[id].terms.cap
    <3>1. CASE id = mint
      BY <1>1, <2>2, <2>3, <3>1
    <3>2. CASE id # mint
      BY <2>3, <2>4, <3>2 DEF TablesOK, MintsOK
    <3>. QED BY <3>1, <3>2
  <2>. HIDE DEF m
  <2>. QED BY <1>1, <2>1, <2>3, <2>4 DEF MintsOK, Balance
<1>3. CASE ~(mint # None /\ CanMint(mint))
  <2>1. mints' = mints
    BY <1>3, IndexTxFacts
  <2>. QED BY <1>1, <2>1 DEF TablesOK, MintsOK
<1>. QED BY <1>2, <1>3

\* The place of the next transaction of the block is in range.
LEMMA PlaceStep ==
  ASSUME PlaceOK, index < BlockSize[height], height' = height, index' = index + 1
  PROVE  PlaceOK'
<1>1. BlockSize[height] \in Nat /\ index \in Nat
  BY PlaceFacts DEF PlaceOK
<1>. QED BY <1>1 DEF PlaceOK

\* A transaction from start_height on keeps the tables well formed.
LEMMA IndexTables ==
  ASSUME TablesOK, NEW tx, TxOK(tx), index < BlockSize[height], IndexTx(tx),
         height' = height, index' = index + 1
  PROVE  TablesOK'
<1>1. PlaceOK'
  BY PlaceStep DEF TablesOK
<1>2. UtxosOK'
  BY AfterFacts, IndexTxFacts, UtxosOKStep DEF TablesOK, TxOK
<1>3. InfosOK' /\ MintsOK'
  BY InfosStep, MintsStep
<1>4. NoneBelowStart'
  <2>1. height \in Nat /\ height >= StartHeight /\ StartHeight \in Nat
    BY PlaceFacts, IndexTxFacts, HeightAssumption DEF TablesOK
  <2>. QED BY <2>1 DEF NoneBelowStart
<1>5. burned' \in Balance
  <2>1. burned \in [Id -> Nat] /\ Burnt(StateAfter(tx), tx.outs) \in [Id -> Nat]
        /\ burned' = Add(burned, Burnt(StateAfter(tx), tx.outs))
    BY AfterFacts, IndexTxFacts DEF TablesOK, Balance
  <2>. QED BY <2>1 DEF Add, Balance
<1>. QED BY <1>1, <1>2, <1>3, <1>4, <1>5 DEF TablesOK

\* A transaction below start_height keeps the tables well formed.
LEMMA SkipTables ==
  ASSUME TablesOK, NEW tx, TxOK(tx), index < BlockSize[height], SkipTx(tx),
         height' = height, index' = index + 1
  PROVE  TablesOK'
<1>1. PlaceOK'
  BY PlaceStep DEF TablesOK
<1>2. UtxosOK'
  BY SkipTxFacts, UtxosOKStep DEF TablesOK, TxOK
<1>3. InfosOK' /\ MintsOK' /\ burned' \in Balance
  <2>1. infos' = infos /\ mints' = mints /\ burned' = burned
    BY SkipTxFacts
  <2>2. ASSUME NEW id \in DOMAIN infos PROVE Past(id)'
    BY PastStays DEF TablesOK, InfosOK
  <2>. QED BY <2>1, <2>2 DEF TablesOK, InfosOK, MintsOK
<1>4. NoneBelowStart'
  <2>1. \A r \in DOMAIN utxos' : utxos'[r].runes = Zero
    <3>1. \A r \in DOMAIN utxos : utxos[r].runes = Zero
      BY SkipTxFacts DEF TablesOK, NoneBelowStart
    <3>2. \A o \in Spendable(tx.outs) : o \in DOMAIN tx.outs
      BY DEF Spendable
    <3>. DEFINE a == [o \in DOMAIN tx.outs |-> Zero]
    <3>3. \A o \in Spendable(tx.outs) : a[o] = Zero
      BY <3>2
    <3>4. Becomes(utxos', tx.ins, tx.outs, a)
      BY SkipTxFacts
    <3>. HIDE DEF a
    <3>. QED BY <3>1, <3>3, <3>4 DEF Becomes
  <2>. QED BY <2>1 DEF NoneBelowStart
<1>. QED BY <1>1, <1>2, <1>3, <1>4 DEF TablesOK

\* Moving to the next block keeps the tables well formed.
LEMMA BlockTables ==
  ASSUME TablesOK, NextBlock
  PROVE  TablesOK'
<1>1. /\ height < Len(BlockSize) /\ height' = height + 1 /\ index' = 0
      /\ UNCHANGED <<utxos, infos, mints, burned>>
  BY DEF NextBlock
<1>2. height \in Nat /\ Len(BlockSize) \in Nat /\ \A h \in 1..Len(BlockSize) : BlockSize[h] \in Nat
  BY PlaceFacts DEF TablesOK
<1>3. PlaceOK'
  <2>1. height + 1 \in 1..Len(BlockSize)
    BY <1>1, <1>2
  <2>. QED BY <1>1, <1>2, <2>1 DEF PlaceOK
<1>4. ASSUME NEW p, Past(p) PROVE Past(p)'
  BY <1>1, <1>4, PastStays DEF TablesOK
<1>5. UtxosOK' /\ InfosOK' /\ MintsOK'
  BY <1>1, <1>4 DEF TablesOK, UtxosOK, InfosOK, MintsOK
<1>6. NoneBelowStart'
  <2>1. height' < StartHeight => height < StartHeight
    BY <1>1, <1>2, HeightAssumption
  <2>. QED BY <1>1, <2>1 DEF TablesOK, NoneBelowStart
<1>. QED BY <1>1, <1>3, <1>5, <1>6 DEF TablesOK

\* The empty tables are well formed.
LEMMA InitTables ==
  ASSUME Init
  PROVE  TablesOK
<1>1. PlaceOK
  <2>1. Len(BlockSize) \in Nat /\ Len(BlockSize) # 0 /\ \A h \in 1..Len(BlockSize) : BlockSize[h] \in Nat
    BY HeightAssumption
  <2>2. 1 \in 1..Len(BlockSize)
    BY <2>1
  <2>. QED BY <2>1, <2>2 DEF Init, PlaceOK
<1>2. DOMAIN utxos = {} /\ DOMAIN infos = {}
  BY DEF Init
<1>3. IsFiniteSet(DOMAIN utxos)
  BY <1>2, FS_EmptySet
<1>4. mints \in Balance /\ burned \in Balance /\ \A id \in Id : ~(mints[id] > 0)
  BY DEF Init, Zero, Balance
<1>. QED BY <1>1, <1>2, <1>3, <1>4 DEF TablesOK, UtxosOK, InfosOK, MintsOK, NoneBelowStart

-----------------------------------------------------------------------------
(* Names and rows.                                                         *)

\* A name is etched, or the one reserved for its rune.
NamesOK ==
  /\ \A n \in DOMAIN idByName :
       /\ idByName[n] \in DOMAIN infos /\ infos[idByName[n]].name = n
       /\ n \in Name \/ n = idByName[n]
  /\ \A id \in DOMAIN infos : infos[id].name \in DOMAIN idByName /\ idByName[infos[id].name] = id

\* An etching takes a name that nothing has, under an id that nothing has.
LEMMA IndexNames ==
  ASSUME TablesOK, NamesOK, NEW tx, TxOK(tx), index < BlockSize[height], IndexTx(tx)
  PROVE  NamesOK'
<1>. DEFINE here == <<height, index>>
            e == EtchedBy(tx)
            entry == CreateRuneEntry(tx.artifact, e)
<1>1. CASE e = None
  <2>1. infos' = infos /\ idByName' = idByName
    BY <1>1, IndexTxFacts
  <2>. QED BY <2>1 DEF NamesOK
<1>2. CASE e # None
  <2>1. /\ here \notin DOMAIN infos /\ DOMAIN infos' = DOMAIN infos \cup {here}
        /\ \A id \in DOMAIN infos : infos'[id] = infos[id]
        /\ infos'[here].name = e
    <3>1. infos'[here] = entry /\ entry.name = e
      BY <1>2, InfosAfter, EntryFacts
    <3>. QED BY <1>2, <3>1, InfosAfter
  <2>2. here \in Id /\ \A n \in Name : n # here
    <3>1. here \in Id
      BY PlaceFacts DEF TablesOK
    <3>. QED BY <3>1, NameAssumption
  <2>3. e = here \/ (e \in Name /\ e \notin DOMAIN idByName)
    BY <1>2, EtchedFacts
  <2>4. e \notin DOMAIN idByName
    BY <2>1, <2>2, <2>3 DEF NamesOK
  <2>5. idByName' = Put(idByName, e, here)
    BY <1>2, IndexTxFacts
  <2>. HIDE DEF e, here
  <2>6. /\ DOMAIN idByName' = DOMAIN idByName \cup {e} /\ idByName'[e] = here
        /\ \A n \in DOMAIN idByName : idByName'[n] = idByName[n]
    BY <2>4, <2>5 DEF Put
  <2>. QED BY <2>1, <2>3, <2>4, <2>6 DEF NamesOK
<1>. QED BY <1>1, <1>2

\* The rows that the table of outputs u calls for.
RowsFor(u) == {Row(u[r].script, u[r].height, r) : r \in {q \in DOMAIN u : u[q].runes # Zero}}
PayableRows(w) == {x \in w : x.script \notin OpReturn}

\* The fields of a row of RuneUtxosByScriptKV.
LEMMA RowFacts ==
  ASSUME NEW s, NEW h, NEW r
  PROVE  Row(s, h, r).script = s /\ Row(s, h, r).ref = r /\ Row(s, h, r).height = h
BY DEF Row

\* A transaction deletes the rows of its inputs and adds those of its outputs.
LEMMA IndexRows ==
  ASSUME TablesOK, RowsMatchUtxos, NEW tx, TxOK(tx), index < BlockSize[height], IndexTx(tx)
  PROVE  RowsMatchUtxos'
<1>. DEFINE ins == tx.ins
            outs == tx.outs
            alloc == StateAfter(tx).alloc
<1>1. /\ rows' = (rows \ Consumed(ins)) \cup Added(outs, alloc)
      /\ Becomes(utxos', ins, outs, alloc)
      /\ ins \subseteq DOMAIN utxos
  BY IndexTxFacts DEF TxOK
<1>. HIDE DEF ins, outs, alloc
<1>2. PayableRows(rows) = RowsFor(utxos)
  BY DEF RowsMatchUtxos, PayableRows, RowsFor
<1>3. ASSUME NEW w PROVE w \in PayableRows(rows') <=> w \in RowsFor(utxos')
  <2>1. ASSUME w \in PayableRows(rows'), w \in Added(outs, alloc) PROVE w \in RowsFor(utxos')
    <3>1. PICK o \in DOMAIN outs : alloc[o] # Zero /\ w = Row(outs[o], height, Ref(o))
      BY <2>1 DEF Added
    <3>2. o \in Spendable(outs)
      BY <2>1, <3>1, RowFacts DEF PayableRows, Spendable
    <3>3. Ref(o) \in DOMAIN utxos' /\ utxos'[Ref(o)].runes # Zero
          /\ w = Row(utxos'[Ref(o)].script, utxos'[Ref(o)].height, Ref(o))
      BY <1>1, <3>1, <3>2 DEF Becomes
    <3>. QED BY <3>3 DEF RowsFor
  <2>2. ASSUME w \in PayableRows(rows'), w \notin Added(outs, alloc) PROVE w \in RowsFor(utxos')
    <3>1. w \in PayableRows(rows) /\ w \notin Consumed(ins)
      BY <1>1, <2>2 DEF PayableRows
    <3>2. PICK r \in DOMAIN utxos : utxos[r].runes # Zero /\ w = Row(utxos[r].script, utxos[r].height, r)
      BY <1>2, <3>1 DEF RowsFor
    <3>3. r \notin ins
      BY <3>1, <3>2 DEF Consumed
    <3>4. r \in DOMAIN utxos' /\ utxos'[r] = utxos[r]
      BY <1>1, <3>3 DEF Becomes
    <3>. QED BY <3>2, <3>4 DEF RowsFor
  <2>3. ASSUME w \in RowsFor(utxos') PROVE w \in PayableRows(rows')
    <3>1. PICK r \in DOMAIN utxos' : utxos'[r].runes # Zero /\ w = Row(utxos'[r].script, utxos'[r].height, r)
      BY <2>3 DEF RowsFor
    <3>2. CASE r \in DOMAIN utxos \ ins
      <4>1. utxos'[r] = utxos[r]
        BY <1>1, <3>2 DEF Becomes
      <4>2. w \in RowsFor(utxos) /\ w.ref = r
        BY <3>1, <3>2, <4>1, RowFacts DEF RowsFor
      <4>3. w \notin Consumed(ins)
        <5>1. \A x \in Consumed(ins) : x.ref \in ins
          BY RowFacts DEF Consumed
        <5>. QED BY <3>2, <4>2, <5>1
      <4>. QED BY <1>1, <1>2, <4>2, <4>3 DEF PayableRows
    <3>3. CASE r \notin DOMAIN utxos \ ins
      <4>1. PICK o \in Spendable(outs) : r = Ref(o)
        BY <1>1, <3>1, <3>3 DEF Becomes
      <4>2. o \in DOMAIN outs /\ outs[o] \notin OpReturn
        BY <4>1 DEF Spendable
      <4>3. alloc[o] # Zero /\ w = Row(outs[o], height, Ref(o))
        BY <1>1, <3>1, <4>1 DEF Becomes
      <4>4. w \in Added(outs, alloc) /\ w.script = outs[o]
        BY <4>2, <4>3, RowFacts DEF Added
      <4>. QED BY <1>1, <4>2, <4>4 DEF PayableRows
    <3>. QED BY <3>2, <3>3
  <2>. QED BY <2>1, <2>2, <2>3
<1>4. PayableRows(rows') = RowsFor(utxos')
  BY <1>3
<1>. QED BY <1>4 DEF RowsMatchUtxos, PayableRows, RowsFor

\* Below start_height there is neither a row nor an output with runes.
LEMMA SkipRows ==
  ASSUME TablesOK, RowsMatchUtxos, NEW tx, TxOK(tx), SkipTx(tx), NoneBelowStart', height' = height
  PROVE  RowsMatchUtxos'
<1>1. rows' = rows /\ height' < StartHeight /\ height < StartHeight
  BY SkipTxFacts
<1>2. RowsFor(utxos) = {} /\ RowsFor(utxos') = {}
  BY <1>1 DEF TablesOK, NoneBelowStart, RowsFor
<1>. QED BY <1>1, <1>2 DEF RowsMatchUtxos, RowsFor

-----------------------------------------------------------------------------
(* Supply: what outputs hold of a rune, and what was burned.               *)

\* What the outputs of table u under the scripts C hold of a rune.
Worth(u, id) == [r \in DOMAIN u |-> u[r].runes[id]]
Owned(u, C) == {r \in DOMAIN u : u[r].script \in C}
Held(u, C, id) == SumFunctionOnSet(Worth(u, id), Owned(u, C))

\* What a transaction takes from these scripts and gives to them.
SpentBy(ins, C) == {r \in ins : utxos[r].script \in C}
Spent(ins, C, id) == SumFunctionOnSet(Worth(utxos, id), SpentBy(ins, C))
PaidTo(outs, C) == {o \in Spendable(outs) : outs[o] \in C}
AllocOf(outs, alloc, id) == [o \in DOMAIN outs |-> alloc[o][id]]
Paid(outs, alloc, C, id) == SumFunctionOnSet(AllocOf(outs, alloc, id), PaidTo(outs, C))

\* The runes of one id held by a set of outputs have a sum.
LEMMA WorthFacts ==
  ASSUME UtxosOK, NEW id \in Id, NEW S \in SUBSET DOMAIN utxos
  PROVE  /\ IsFiniteSet(S) /\ Weights(Worth(utxos, id), S)
         /\ \A r \in S : Worth(utxos, id)[r] = utxos[r].runes[id] /\ Worth(utxos, id)[r] \in Nat
         /\ SumFunctionOnSet(Worth(utxos, id), S) \in Nat
<1>1. IsFiniteSet(S)
  BY FS_Subset DEF UtxosOK
<1>2. \A r \in S : Worth(utxos, id)[r] = utxos[r].runes[id] /\ Worth(utxos, id)[r] \in Nat
  BY DEF Worth, UtxosOK, Balance
<1>3. Weights(Worth(utxos, id), S) /\ SumFunctionOnSet(Worth(utxos, id), S) \in Nat
  BY <1>1, <1>2, SumNat
<1>. QED BY <1>1, <1>2, <1>3

\* The runes of one id that an allocation gives a set of outputs have a sum.
LEMMA AllocFacts ==
  ASSUME NEW outs \in Seq(Script), NEW alloc \in [DOMAIN outs -> Balance], NEW id \in Id,
         NEW S \in SUBSET DOMAIN outs
  PROVE  /\ IsFiniteSet(S) /\ Weights(AllocOf(outs, alloc, id), S)
         /\ \A o \in S : AllocOf(outs, alloc, id)[o] = alloc[o][id] /\ AllocOf(outs, alloc, id)[o] \in Nat
         /\ SumFunctionOnSet(AllocOf(outs, alloc, id), S) \in Nat
<1>1. IsFiniteSet(S)
  BY FS_Subset, OutputsFacts
<1>2. \A o \in S : AllocOf(outs, alloc, id)[o] = alloc[o][id] /\ AllocOf(outs, alloc, id)[o] \in Nat
  BY DEF AllocOf, Balance
<1>3. Weights(AllocOf(outs, alloc, id), S) /\ SumFunctionOnSet(AllocOf(outs, alloc, id), S) \in Nat
  BY <1>1, <1>2, SumNat
<1>. QED BY <1>1, <1>2, <1>3

\* What is held changes by what is taken and what is given.
LEMMA HeldMoves ==
  ASSUME UtxosOK, NEW ins \in SUBSET DOMAIN utxos, NEW outs \in Seq(Script),
         NEW alloc \in [DOMAIN outs -> Balance], NEW v, Becomes(v, ins, outs, alloc),
         NEW id \in Id, NEW C
  PROVE  /\ Held(utxos, C, id) \in Nat /\ Spent(ins, C, id) \in Nat /\ Paid(outs, alloc, C, id) \in Nat
         /\ Held(v, C, id) = (Held(utxos, C, id) - Spent(ins, C, id)) + Paid(outs, alloc, C, id)
<1>. DEFINE f == Worth(utxos, id)
            g == Worth(v, id)
            p == AllocOf(outs, alloc, id)
            A == Owned(utxos, C) \ ins
            B == SpentBy(ins, C)
            S == PaidTo(outs, C)
            m == [o \in S |-> Ref(o)]
            R == Image(m, S)
<1>1. Held(utxos, C, id) \in Nat /\ Spent(ins, C, id) \in Nat /\ Paid(outs, alloc, C, id) \in Nat
  <2>1. Owned(utxos, C) \in SUBSET DOMAIN utxos /\ B \in SUBSET DOMAIN utxos
    BY DEF Owned, SpentBy
  <2>2. S \in SUBSET DOMAIN outs
    BY DEF PaidTo, Spendable
  <2>. QED BY <2>1, <2>2, WorthFacts, AllocFacts DEF Held, Spent, Paid
<1>2. A \cup B = Owned(utxos, C) /\ A \cap B = {}
  BY DEF Owned, SpentBy
<1>3. IsFiniteSet(A) /\ IsFiniteSet(B) /\ Weights(f, A) /\ Weights(f, B) /\ Weights(f, A \cup B)
      /\ SumFunctionOnSet(f, A) \in Nat
  <2>1. A \in SUBSET DOMAIN utxos /\ B \in SUBSET DOMAIN utxos /\ A \cup B \in SUBSET DOMAIN utxos
    BY DEF Owned, SpentBy
  <2>. HIDE DEF A, B
  <2>. QED BY <2>1, WorthFacts
<1>4. IsFiniteSet(S) /\ Weights(p, S)
  <2>1. S \in SUBSET DOMAIN outs
    BY DEF PaidTo, Spendable
  <2>. HIDE DEF S
  <2>. QED BY <2>1, AllocFacts
<1>5. OneToOne(m, S) /\ R = {Ref(o) : o \in S}
  <2>. HIDE DEF S
  <2>. QED BY <1>4, RefsFacts
<1>6. Owned(v, C) = A \cup R /\ A \cap R = {}
  <2>1. A \cap R = {}
    BY <1>5 DEF Becomes, Owned, PaidTo
  <2>2. ASSUME NEW r PROVE r \in Owned(v, C) <=> r \in A \cup R
    <3>1. CASE r \in DOMAIN utxos \ ins
      <4>1. r \in DOMAIN v /\ v[r] = utxos[r]
        BY <3>1 DEF Becomes
      <4>2. r \notin R
        BY <1>5, <3>1 DEF Becomes, PaidTo
      <4>. QED BY <3>1, <4>1, <4>2 DEF Owned
    <3>2. CASE r \notin DOMAIN utxos \ ins
      <4>1. r \notin A
        BY <3>2 DEF Owned
      <4>2. ASSUME r \in Owned(v, C) PROVE r \in R
        <5>1. PICK o \in Spendable(outs) : r = Ref(o)
          BY <3>2, <4>2 DEF Owned, Becomes
        <5>. QED BY <1>5, <4>2, <5>1 DEF Owned, Becomes, PaidTo
      <4>3. ASSUME r \in R PROVE r \in Owned(v, C)
        <5>1. PICK o \in S : r = Ref(o)
          BY <1>5, <4>3
        <5>2. o \in Spendable(outs) /\ outs[o] \in C
          BY <5>1 DEF PaidTo
        <5>. QED BY <5>1, <5>2 DEF Owned, Becomes
      <4>. QED BY <4>1, <4>2, <4>3
    <3>. QED BY <3>1, <3>2
  <2>3. Owned(v, C) = A \cup R
    <3>. HIDE DEF A, R
    <3>. QED BY <2>2
  <2>. QED BY <2>1, <2>3
<1>7. \A r \in A : g[r] = f[r]
  BY DEF Becomes, Owned, Worth
<1>8. \A o \in S : g[m[o]] = p[o]
  <2>1. ASSUME NEW o \in S PROVE g[m[o]] = p[o]
    <3>1. o \in Spendable(outs) /\ o \in DOMAIN outs /\ m[o] = Ref(o)
      BY DEF PaidTo, Spendable
    <3>2. Ref(o) \in DOMAIN v /\ v[Ref(o)].runes = alloc[o]
      BY <3>1 DEF Becomes
    <3>. QED BY <3>1, <3>2 DEF Worth, AllocOf
  <2>. QED BY <2>1
<1>9. /\ Held(v, C, id) = SumFunctionOnSet(g, A \cup R)
      /\ Held(utxos, C, id) = SumFunctionOnSet(f, A \cup B)
      /\ Spent(ins, C, id) = SumFunctionOnSet(f, B) /\ Paid(outs, alloc, C, id) = SumFunctionOnSet(p, S)
  BY <1>2, <1>6 DEF Held, Spent, Paid
<1>. HIDE DEF f, g, p, A, B, S, m, R
<1>10. SumFunctionOnSet(f, A \cup B) = SumFunctionOnSet(f, A) + SumFunctionOnSet(f, B)
  BY <1>2, <1>3, SumUnion
<1>11. SumFunctionOnSet(g, A) = SumFunctionOnSet(f, A) /\ Weights(g, A)
  BY <1>3, <1>7, SumSame DEF Weights
<1>12. IsFiniteSet(R) /\ Weights(g, R) /\ SumFunctionOnSet(g, R) = SumFunctionOnSet(p, S)
  BY <1>4, <1>5, <1>8, SumImage DEF R
<1>13. SumFunctionOnSet(g, A \cup R) = SumFunctionOnSet(g, A) + SumFunctionOnSet(g, R)
  <2>1. Weights(g, A \cup R)
    BY <1>11, <1>12 DEF Weights
  <2>. QED BY <1>3, <1>6, <1>12, <2>1, SumUnion
<1>. QED BY <1>1, <1>3, <1>9, <1>10, <1>11, <1>12, <1>13

\* What circulates is what is held under any script.
LEMMA CirculatingIsHeld ==
  ASSUME NEW u, \A r \in DOMAIN u : u[r].script \in Script, NEW id \in Id
  PROVE  SumFunction([r \in DOMAIN u |-> u[r].runes[id]]) = Held(u, Script, id)
<1>1. Owned(u, Script) = DOMAIN u
  BY DEF Owned
<1>2. DOMAIN [r \in DOMAIN u |-> u[r].runes[id]] = DOMAIN u
  OBVIOUS
<1>. QED BY <1>1, <1>2, Zenon DEF SumFunction, Held, Worth

\* What has been issued by the table t of etchings.
IssuedBy(t, id, n) ==
  IF id \notin DOMAIN t THEN 0
  ELSE t[id].premine + (IF t[id].terms = None THEN 0 ELSE n * t[id].terms.amount)

Balanced(u, t, m, b) == \A id \in Id : Held(u, Script, id) + b[id] = IssuedBy(t, id, m[id])

\* Conserved as an equation over the tables given as arguments.
LEMMA ConservedIsBalanced ==
  ASSUME UtxosOK
  PROVE  Conserved <=> Balanced(utxos, infos, mints, burned)
<1>1. \A id \in Id : Circulating(id) = Held(utxos, Script, id)
  BY CirculatingIsHeld DEF UtxosOK, Circulating
<1>. QED BY <1>1 DEF Conserved, Balanced, Issued, IssuedBy

\* The same of the state after a step.
LEMMA ConservedIsBalancedNext ==
  ASSUME UtxosOK'
  PROVE  Conserved' <=> Balanced(utxos', infos', mints', burned')
<1>1. \A id \in Id : Circulating(id)' = Held(utxos', Script, id)
  <2>1. \A r \in DOMAIN utxos' : utxos'[r].script \in Script
    BY DEF UtxosOK
  <2>2. ASSUME NEW id \in Id PROVE Circulating(id)' = Held(utxos', Script, id)
    <3>1. Circulating(id)' = SumFunction([r \in DOMAIN utxos' |-> utxos'[r].runes[id]])
      BY DEF Circulating
    <3>. QED BY <2>1, <3>1, CirculatingIsHeld
  <2>. QED BY <2>2
<1>. QED BY <1>1 DEF Conserved, Balanced, Issued, IssuedBy

\* What a transaction mints and premines is what it adds to the supply issued.
LEMMA IssuedMoves ==
  ASSUME TablesOK, NEW tx, TxOK(tx), index < BlockSize[height], IndexTx(tx), NEW id \in Id
  PROVE  /\ IssuedBy(infos, id, mints[id]) \in Nat
         /\ IssuedBy(infos', id, mints'[id]) =
              IssuedBy(infos, id, mints[id]) + Minted(tx.artifact)[id] + Premined(tx.artifact, EtchedBy(tx))[id]
<1>. DEFINE art == tx.artifact
            mint == art.mint
            e == EtchedBy(tx)
            here == <<height, index>>
            mi == Minted(art)[id]
            pr == Premined(art, e)[id]
<1>1. mints \in [Id -> Nat] /\ InfosOK /\ MintsOK
  BY DEF TablesOK, MintsOK, Balance
<1>2. IssuedBy(infos, id, mints[id]) \in Nat
  <2>1. CASE id \notin DOMAIN infos
    BY <2>1 DEF IssuedBy
  <2>2. CASE id \in DOMAIN infos /\ infos[id].terms = None
    BY <1>1, <2>2 DEF IssuedBy, InfosOK
  <2>3. CASE id \in DOMAIN infos /\ infos[id].terms # None
    <3>1. mints[id] * infos[id].terms.amount \in Nat /\ infos[id].premine \in Nat
      BY <1>1, <2>3, Multiples DEF InfosOK
    <3>. QED BY <2>3, <3>1 DEF IssuedBy
  <2>. QED BY <2>1, <2>2, <2>3
<1>3. CASE id = here /\ e # None
  <2>. DEFINE entry == CreateRuneEntry(art, e)
  <2>1. id \notin DOMAIN infos /\ id \in DOMAIN infos' /\ infos'[id] = entry
    BY <1>3, InfosAfter
  <2>2. mints[id] = 0 /\ mints'[id] = 0 /\ mi = 0
    <3>1. mints[id] = 0
      BY <1>1, <2>1 DEF MintsOK
    <3>2. CASE mint # None /\ CanMint(mint)
      <4>1. mint # id
        BY <2>1, <3>2 DEF CanMint
      <4>2. mints' = [mints EXCEPT ![mint] = @ + 1] /\ Minted(art) = [Zero EXCEPT ![mint] = infos[mint].terms.amount]
        BY <3>2, IndexTxFacts DEF Minted
      <4>3. mints'[id] = mints[id] /\ Minted(art)[id] = Zero[id]
        BY <1>1, <4>1, <4>2 DEF Zero
      <4>. QED BY <3>1, <4>3 DEF Zero
    <3>3. CASE ~(mint # None /\ CanMint(mint))
      BY <3>1, <3>3, IndexTxFacts DEF Minted, Zero
    <3>. QED BY <3>1, <3>2, <3>3
  <2>3. entry.premine = IF art.cenotaph THEN 0 ELSE art.etching.premine
    BY <1>3, EntryFacts
  <2>4. pr = entry.premine
    <3>1. CASE art.cenotaph
      BY <2>3, <3>1 DEF Premined, Zero
    <3>2. CASE ~art.cenotaph
      <4>1. Premined(art, e) = [Zero EXCEPT ![here] = art.etching.premine]
        BY <1>3, <3>2 DEF Premined
      <4>. QED BY <1>3, <2>3, <3>2, <4>1 DEF Zero
    <3>. QED BY <3>1, <3>2
  <2>5. entry.premine \in Nat /\ (entry.terms # None => entry.terms.amount \in Nat)
    BY <1>3, EntryFacts
  <2>. HIDE DEF entry, mi, pr
  <2>6. IssuedBy(infos, id, mints[id]) = 0
    BY <2>1 DEF IssuedBy
  <2>7. IssuedBy(infos', id, mints'[id]) = entry.premine
    BY <2>1, <2>2, <2>5 DEF IssuedBy
  <2>. QED BY <1>2, <2>2, <2>4, <2>5, <2>6, <2>7 DEF mi, pr
<1>4. CASE ~(id = here /\ e # None)
  <2>1. (id \in DOMAIN infos' <=> id \in DOMAIN infos) /\ (id \in DOMAIN infos => infos'[id] = infos[id])
    BY <1>4, InfosAfter
  <2>2. pr = 0
    <3>1. CASE e = None \/ art.cenotaph
      BY <3>1 DEF Premined, Zero
    <3>2. CASE ~(e = None \/ art.cenotaph)
      <4>1. Premined(art, e) = [Zero EXCEPT ![here] = art.etching.premine]
        BY <3>2 DEF Premined
      <4>. QED BY <1>4, <3>2, <4>1 DEF Zero
    <3>. QED BY <3>1, <3>2
  <2>3. CASE mint # None /\ CanMint(mint) /\ mint = id
    <3>. DEFINE a == infos[id].terms.amount
    <3>1. mints'[id] = mints[id] + 1 /\ mi = a
      <4>1. mints' = [mints EXCEPT ![id] = @ + 1] /\ Minted(art) = [Zero EXCEPT ![id] = a]
        BY <2>3, IndexTxFacts DEF Minted
      <4>. QED BY <1>1, <4>1 DEF Zero
    <3>2. id \in DOMAIN infos /\ infos[id].terms # None /\ a \in Nat /\ infos[id].premine \in Nat
      BY <1>1, <2>3 DEF CanMint, InfosOK
    <3>3. mints[id] \in Nat
      BY <1>1
    <3>4. (mints[id] + 1) * a = mints[id] * a + a /\ mints[id] * a \in Nat
      <4>. HIDE DEF a
      <4>. QED BY <3>2, <3>3, Multiples
    <3>5. /\ IssuedBy(infos, id, mints[id]) = infos[id].premine + mints[id] * a
          /\ IssuedBy(infos', id, mints'[id]) = infos[id].premine + (mints[id] + 1) * a
      BY <2>1, <3>1, <3>2 DEF IssuedBy
    <3>. HIDE DEF a, mi, pr
    <3>. QED BY <2>2, <3>1, <3>2, <3>4, <3>5 DEF mi, pr
  <2>4. CASE ~(mint # None /\ CanMint(mint) /\ mint = id)
    <3>1. mints'[id] = mints[id] /\ mi = 0
      <4>1. CASE mint # None /\ CanMint(mint)
        <5>1. mints' = [mints EXCEPT ![mint] = @ + 1] /\ Minted(art) = [Zero EXCEPT ![mint] = infos[mint].terms.amount]
          BY <4>1, IndexTxFacts DEF Minted
        <5>. QED BY <1>1, <2>4, <4>1, <5>1 DEF Zero
      <4>2. CASE ~(mint # None /\ CanMint(mint))
        BY <4>2, IndexTxFacts DEF Minted, Zero
      <4>. QED BY <4>1, <4>2
    <3>2. IssuedBy(infos', id, mints'[id]) = IssuedBy(infos, id, mints[id])
      BY <2>1, <3>1 DEF IssuedBy
    <3>. HIDE DEF mi, pr
    <3>. QED BY <1>2, <2>2, <3>1, <3>2 DEF mi, pr
  <2>. QED BY <2>3, <2>4
<1>. QED BY <1>2, <1>3, <1>4

\* What the outputs of a transaction are given is paid to scripts or burned.
LEMMA GivenIsPaidOrBurnt ==
  ASSUME NEW outs \in Seq(Script), NEW st \in State(outs), NEW id \in Id
  PROVE  /\ Given(st, outs, id) \in Nat
         /\ st.balance[id] + Given(st, outs, id) = Paid(outs, st.alloc, Script, id) + Burnt(st, outs)[id]
<1>. DEFINE p == AllocOf(outs, st.alloc, id)
            S == Spendable(outs)
            X == DOMAIN outs \ S
            q == [o \in X |-> st.alloc[o][id]]
<1>1. st.alloc \in [DOMAIN outs -> Balance] /\ st.balance[id] \in Nat
  BY DEF State, Balance
<1>2. S \subseteq DOMAIN outs /\ PaidTo(outs, Script) = S
  BY DEF Spendable, PaidTo
<1>3. Given(st, outs, id) = SumFunctionOnSet(p, S \cup X)
  <2>1. S \cup X = DOMAIN outs
    BY <1>2
  <2>. QED BY <2>1 DEF Given, GivenOf, AllocOf
<1>4. Burnt(st, outs)[id] = st.balance[id] + SumFunctionOnSet(q, X)
  <2>1. Burnt(st, outs)[id] = st.balance[id] + SumFunction(q)
    BY DEF Burnt
  <2>2. DOMAIN q = X
    OBVIOUS
  <2>. QED BY <2>1, <2>2, Zenon DEF SumFunction
<1>5. Paid(outs, st.alloc, Script, id) = SumFunctionOnSet(p, S)
  BY <1>2 DEF Paid
<1>6. \A o \in X : q[o] = p[o]
  BY DEF AllocOf
<1>7. /\ IsFiniteSet(S) /\ IsFiniteSet(X) /\ S \cap X = {} /\ Weights(p, S \cup X) /\ Weights(p, X)
      /\ SumFunctionOnSet(p, S) \in Nat /\ SumFunctionOnSet(p, X) \in Nat
  <2>1. S \in SUBSET DOMAIN outs /\ X \in SUBSET DOMAIN outs /\ S \cup X \in SUBSET DOMAIN outs /\ S \cap X = {}
    BY <1>2
  <2>. HIDE DEF S, X, p
  <2>2. /\ IsFiniteSet(S) /\ IsFiniteSet(X) /\ Weights(p, S \cup X) /\ Weights(p, X)
        /\ SumFunctionOnSet(p, S) \in Nat /\ SumFunctionOnSet(p, X) \in Nat
    BY <1>1, <2>1, AllocFacts DEF p
  <2>. QED BY <2>1, <2>2
<1>. HIDE DEF p, S, X, q
<1>8. SumFunctionOnSet(p, S \cup X) = SumFunctionOnSet(p, S) + SumFunctionOnSet(p, X)
  BY <1>7, SumUnion
<1>9. SumFunctionOnSet(q, X) = SumFunctionOnSet(p, X)
  BY <1>6, <1>7, SumSame
<1>. QED BY <1>1, <1>3, <1>4, <1>5, <1>7, <1>8, <1>9

\* The runes of the inputs are what is spent.
LEMMA UnallocatedIsSpent ==
  ASSUME UtxosOK, NEW ins \in SUBSET DOMAIN utxos, NEW id \in Id
  PROVE  Unallocated(ins)[id] = Spent(ins, Script, id)
<1>. DEFINE f == Worth(utxos, id)
            g == [r \in ins |-> utxos[r].runes[id]]
<1>1. Unallocated(ins)[id] = SumFunction(g) /\ DOMAIN g = ins
  BY DEF Unallocated
<1>2. SpentBy(ins, Script) = ins
  BY DEF SpentBy, UtxosOK
<1>3. IsFiniteSet(ins) /\ Weights(f, ins) /\ \A r \in ins : g[r] = f[r]
  <2>1. IsFiniteSet(ins) /\ Weights(f, ins) /\ \A r \in ins : f[r] = utxos[r].runes[id]
    BY WorthFacts
  <2>. QED BY <2>1
<1>4. Spent(ins, Script, id) = SumFunctionOnSet(f, ins)
  BY <1>2 DEF Spent
<1>. HIDE DEF f, g
<1>5. SumFunctionOnSet(g, ins) = SumFunctionOnSet(f, ins)
  BY <1>3, SumSame
<1>. QED BY <1>1, <1>4, <1>5 DEF SumFunction

\* A transaction pays out or burns exactly what it takes in, mints and premines.
LEMMA IndexConserved ==
  ASSUME TablesOK, Conserved, NEW tx, TxOK(tx), index < BlockSize[height], IndexTx(tx), UtxosOK'
  PROVE  Conserved'
<1>. DEFINE st == StateAfter(tx)
            outs == tx.outs
            ins == tx.ins
            e == EtchedBy(tx)
<1>1. Balanced(utxos, infos, mints, burned)
  BY ConservedIsBalanced DEF TablesOK
<1>2. /\ st \in State(outs) /\ AddsUp(st, outs, Gift(tx, e)) /\ st.alloc \in [DOMAIN outs -> Balance]
      /\ Burnt(st, outs) \in Balance
  BY AfterFacts DEF Kept
<1>3. /\ Becomes(utxos', ins, outs, st.alloc) /\ burned' = Add(burned, Burnt(st, outs))
      /\ UtxosOK /\ ins \in SUBSET DOMAIN utxos /\ outs \in Seq(Script) /\ burned \in Balance
  BY IndexTxFacts DEF TablesOK, TxOK
<1>4. ASSUME NEW id \in Id
      PROVE  Held(utxos', Script, id) + burned'[id] = IssuedBy(infos', id, mints'[id])
  <2>. DEFINE H == Held(utxos, Script, id)
              U == Spent(ins, Script, id)
              P == Paid(outs, st.alloc, Script, id)
              b == burned[id]
              B == Burnt(st, outs)[id]
              I == IssuedBy(infos, id, mints[id])
              m == Minted(tx.artifact)[id]
              p == Premined(tx.artifact, e)[id]
              K == Gift(tx, e)[id]
  <2>1. H \in Nat /\ U \in Nat /\ P \in Nat /\ Held(utxos', Script, id) = (H - U) + P
    <3>. DEFINE a == st.alloc
    <3>1. /\ UtxosOK /\ ins \in SUBSET DOMAIN utxos /\ outs \in Seq(Script)
          /\ a \in [DOMAIN outs -> Balance] /\ Becomes(utxos', ins, outs, a)
      BY <1>2, <1>3
    <3>2. P = Paid(outs, a, Script, id)
      OBVIOUS
    <3>. HIDE DEF st, outs, ins, a, H, U, P
    <3>. QED BY <3>1, <3>2, HeldMoves DEF H, U
  <2>2. burned'[id] = b + B /\ b \in Nat /\ B \in Nat
    BY <1>2, <1>3 DEF Add, Balance
  <2>3. H + b = I
    BY <1>1 DEF Balanced
  <2>4. I \in Nat /\ IssuedBy(infos', id, mints'[id]) = I + m + p
    BY IssuedMoves
  <2>5. m \in Nat /\ p \in Nat
    BY GiftFacts DEF Balance
  <2>6. K = U + (m + p)
    <3>1. K = Unallocated(ins)[id] + (m + p)
      BY DEF Gift, Add
    <3>2. Unallocated(ins)[id] = U
      BY <1>3, UnallocatedIsSpent
    <3>. QED BY <3>1, <3>2
  <2>7. K = P + B
    <3>1. st.balance[id] + Given(st, outs, id) = K
      BY <1>2 DEF AddsUp
    <3>2. st.balance[id] + Given(st, outs, id) = P + B
      <4>. HIDE DEF st, outs
      <4>. QED BY <1>2, <1>3, GivenIsPaidOrBurnt
    <3>. QED BY <3>1, <3>2
  <2>. HIDE DEF H, U, P, b, B, I, m, p, K
  <2>. QED BY <2>1, <2>2, <2>3, <2>4, <2>5, <2>6, <2>7
<1>5. Balanced(utxos', infos', mints', burned')
  BY <1>4 DEF Balanced
<1>. QED BY <1>5, ConservedIsBalancedNext

\* Where no output has runes, none are held.
LEMMA NothingHeld ==
  ASSUME NEW u, IsFiniteSet(DOMAIN u), \A r \in DOMAIN u : u[r].runes = Zero, NEW id \in Id, NEW C
  PROVE  Held(u, C, id) = 0
<1>. DEFINE f == Worth(u, id)
            S == Owned(u, C)
<1>1. IsFiniteSet(S)
  <2>1. S \in SUBSET DOMAIN u
    BY DEF Owned
  <2>. QED BY <2>1, FS_Subset
<1>2. \A r \in S : f[r] = 0
  BY DEF Owned, Worth, Zero
<1>. HIDE DEF f, S
<1>3. SumFunctionOnSet(f, S) = 0
  BY <1>1, <1>2, SumZero
<1>. QED BY <1>3 DEF Held, f, S

\* Below the start height neither before nor after a transaction.
LEMMA SkipHeld ==
  ASSUME TablesOK, NEW tx, TxOK(tx), SkipTx(tx), TablesOK', height' = height, NEW id \in Id, NEW C
  PROVE  Held(utxos, C, id) = 0 /\ Held(utxos', C, id) = 0
<1>1. height < StartHeight /\ height' < StartHeight
  BY SkipTxFacts
<1>2. IsFiniteSet(DOMAIN utxos) /\ \A r \in DOMAIN utxos : utxos[r].runes = Zero
  BY <1>1 DEF TablesOK, UtxosOK, NoneBelowStart
<1>3. IsFiniteSet(DOMAIN utxos') /\ \A r \in DOMAIN utxos' : utxos'[r].runes = Zero
  BY <1>1 DEF TablesOK, UtxosOK, NoneBelowStart
<1>. QED BY <1>2, <1>3, NothingHeld

\* Below start_height nothing is held, burned or issued.
LEMMA SkipConserved ==
  ASSUME TablesOK, Conserved, NEW tx, TxOK(tx), SkipTx(tx), TablesOK', height' = height
  PROVE  Conserved'
<1>1. Balanced(utxos, infos, mints, burned)
  BY ConservedIsBalanced DEF TablesOK
<1>2. infos' = infos /\ mints' = mints /\ burned' = burned
  BY SkipTxFacts
<1>3. ASSUME NEW id \in Id
      PROVE  Held(utxos', Script, id) + burned'[id] = IssuedBy(infos', id, mints'[id])
  BY <1>1, <1>2, SkipHeld DEF Balanced
<1>4. Balanced(utxos', infos', mints', burned')
  BY <1>3 DEF Balanced
<1>. QED BY <1>4, ConservedIsBalancedNext DEF TablesOK

\* The supply bound follows: no more was minted than the cap, and a burn only
\* takes away.
LEMMA ConservedIsBounded ==
  ASSUME TablesOK, Conserved
  PROVE  SupplyBounded
<1>. SUFFICES ASSUME NEW id \in DOMAIN infos
              PROVE  Circulating(id) <= Issued(id, IF infos[id].terms = None THEN 0 ELSE infos[id].terms.cap)
  BY DEF SupplyBounded
<1>. DEFINE H == Circulating(id)
            b == burned[id]
            n == mints[id]
            a == infos[id].terms.amount
            cap == infos[id].terms.cap
            pre == infos[id].premine
<1>1. id \in Id /\ pre \in Nat /\ n \in Nat /\ b \in Nat
  BY DEF TablesOK, InfosOK, MintsOK, Balance
<1>2. H \in Nat
  <2>1. H = Held(utxos, Script, id)
    BY <1>1, CirculatingIsHeld DEF TablesOK, UtxosOK, Circulating
  <2>2. Owned(utxos, Script) \in SUBSET DOMAIN utxos
    BY DEF Owned
  <2>. QED BY <1>1, <2>1, <2>2, WorthFacts DEF TablesOK, Held
<1>3. H + b = Issued(id, n)
  BY <1>1 DEF Conserved
<1>4. CASE infos[id].terms = None
  <2>1. Issued(id, n) = pre + 0 /\ Issued(id, 0) = pre + 0
    BY <1>4 DEF Issued
  <2>. HIDE DEF H, b, n, pre
  <2>. QED BY <1>1, <1>2, <1>3, <1>4, <2>1 DEF H
<1>5. CASE infos[id].terms # None
  <2>1. Issued(id, n) = pre + n * a /\ Issued(id, cap) = pre + cap * a
    BY <1>5 DEF Issued
  <2>2. a \in Nat /\ cap \in Nat
    BY <1>5 DEF TablesOK, InfosOK
  <2>3. n <= cap
    BY <1>1, <1>5, <2>2 DEF TablesOK, MintsOK
  <2>. HIDE DEF H, b, n, a, cap, pre
  <2>4. n * a \in Nat /\ cap * a \in Nat /\ n * a <= cap * a
    BY <1>1, <2>2, <2>3, Multiples
  <2>5. H <= pre + cap * a
    BY <1>1, <1>2, <1>3, <2>1, <2>4
  <2>. QED BY <1>5, <2>1, <2>5 DEF H, cap
<1>. QED BY <1>4, <1>5

-----------------------------------------------------------------------------
(* Activity records.                                                       *)

Mine(a, s, id) == {c \in a : c.script = s /\ c.id = id}
Receipts(M) == [c \in M |-> c.received]
Payments(M) == [c \in M |-> c.sent]

\* Records name earlier transactions, and a script has finitely many of them.
ActivityOK ==
  /\ \A c \in activity : Past(c.tx) /\ c.sent \in Nat /\ c.received \in Nat
  /\ \A s \in Script, id \in Id : IsFiniteSet(Mine(activity, s, id))

\* The record of an output that was given some of a rune.
ReceiptOf(r, u, id) ==
  [tx |-> <<r[1], r[2]>>, id |-> id, script |-> u[r].script,
   sent |-> 0, received |-> u[r].runes[id], output |-> r[3]]

\* Every output with a rune has one.
Recorded == \A r \in DOMAIN utxos, id \in Id :
              utxos[r].runes[id] > 0 => ReceiptOf(r, utxos, id) \in activity

\* The records a explain what table u holds.
Explains(a, u) ==
  \A s \in Script \ OpReturn, id \in Id :
    SumFunctionOnSet(Receipts(Mine(a, s, id)), Mine(a, s, id)) =
      SumFunctionOnSet(Payments(Mine(a, s, id)), Mine(a, s, id)) + Held(u, {s}, id)

\* What a script holds, as ActivityExplainsBalances sums it.
LEMMA HeldByScript ==
  ASSUME NEW u, IsFiniteSet(DOMAIN u), NEW id \in Id, NEW s,
         \A r \in DOMAIN u : u[r].runes \in Balance
  PROVE  SumFunction([r \in {q \in DOMAIN u : u[q].script = s} |-> u[r].runes[id]]) = Held(u, {s}, id)
<1>. DEFINE S == {q \in DOMAIN u : u[q].script = s}
            f == Worth(u, id)
            g == [r \in S |-> u[r].runes[id]]
<1>1. S = Owned(u, {s}) /\ DOMAIN g = S
  BY DEF Owned
<1>2. IsFiniteSet(S) /\ Weights(f, S) /\ \A r \in S : g[r] = f[r]
  <2>1. IsFiniteSet(S)
    BY FS_Subset
  <2>. QED BY <2>1 DEF Weights, Worth, Balance
<1>. HIDE DEF S, f, g
<1>3. SumFunctionOnSet(g, S) = SumFunctionOnSet(f, S)
  BY <1>2, SumSame
<1>4. SumFunction(g) = Held(u, {s}, id)
  BY <1>1, <1>3 DEF SumFunction, Held, f
<1>. QED BY <1>4 DEF g, S

\* The sums of ActivityExplainsBalances as sums of one function over the records.
LEMMA SumOfRecords ==
  ASSUME NEW M
  PROVE  /\ SumFunction([c \in M |-> c.received]) = SumFunctionOnSet(Receipts(M), M)
         /\ SumFunction([c \in M |-> c.sent]) = SumFunctionOnSet(Payments(M), M)
<1>1. DOMAIN [c \in M |-> c.received] = M /\ DOMAIN [c \in M |-> c.sent] = M
  OBVIOUS
<1>. QED BY <1>1, Zenon DEF SumFunction, Receipts, Payments

\* What the records of a transaction add: M the records there were, Ms those of
\* what is sent and Mr those of what is received.
LEMMA AddRecords ==
  ASSUME NEW M, NEW Ms, NEW Mr, IsFiniteSet(M), IsFiniteSet(Ms), IsFiniteSet(Mr),
         M \cap Ms = {}, M \cap Mr = {}, Ms \cap Mr = {},
         \A c \in M \cup Ms \cup Mr : c.sent \in Nat /\ c.received \in Nat,
         \A c \in Ms : c.received = 0, \A c \in Mr : c.sent = 0
  PROVE  LET N == (M \cup Ms) \cup Mr
         IN  /\ IsFiniteSet(N)
             /\ SumFunctionOnSet(Receipts(N), N) =
                  SumFunctionOnSet(Receipts(M), M) + SumFunctionOnSet(Receipts(Mr), Mr)
             /\ SumFunctionOnSet(Payments(N), N) =
                  SumFunctionOnSet(Payments(M), M) + SumFunctionOnSet(Payments(Ms), Ms)
             /\ SumFunctionOnSet(Receipts(M), M) \in Int /\ SumFunctionOnSet(Receipts(Mr), Mr) \in Int
             /\ SumFunctionOnSet(Payments(M), M) \in Int /\ SumFunctionOnSet(Payments(Ms), Ms) \in Int
<1>. DEFINE Q == M \cup Ms
            N == Q \cup Mr
            g == Receipts(N)
            h == Payments(N)
<1>1. IsFiniteSet(Q) /\ Q \cap Mr = {}
  BY FS_Union
<1>2. IsFiniteSet(N)
  <2>. HIDE DEF Q
  <2>. QED BY <1>1, FS_Union
<1>3. \A c \in N : g[c] = c.received /\ h[c] = c.sent /\ g[c] \in Nat /\ h[c] \in Nat
  BY DEF Receipts, Payments
<1>4. /\ Weights(g, N) /\ Weights(g, Q) /\ Weights(g, M) /\ Weights(g, Ms) /\ Weights(g, Mr)
      /\ Weights(h, N) /\ Weights(h, Q) /\ Weights(h, M) /\ Weights(h, Ms) /\ Weights(h, Mr)
  <2>. HIDE DEF g, h
  <2>. QED BY <1>3 DEF Weights
<1>5. /\ \A c \in M : g[c] = Receipts(M)[c] /\ h[c] = Payments(M)[c]
      /\ \A c \in Ms : h[c] = Payments(Ms)[c] /\ g[c] = 0
      /\ \A c \in Mr : g[c] = Receipts(Mr)[c] /\ h[c] = 0
  BY DEF Receipts, Payments
<1>. HIDE DEF g, h
<1>6. /\ SumFunctionOnSet(g, N) = SumFunctionOnSet(g, Q) + SumFunctionOnSet(g, Mr)
      /\ SumFunctionOnSet(h, N) = SumFunctionOnSet(h, Q) + SumFunctionOnSet(h, Mr)
  <2>. HIDE DEF Q
  <2>. QED BY <1>1, <1>4, SumUnion
<1>7. /\ SumFunctionOnSet(g, Q) = SumFunctionOnSet(g, M) + SumFunctionOnSet(g, Ms)
      /\ SumFunctionOnSet(h, Q) = SumFunctionOnSet(h, M) + SumFunctionOnSet(h, Ms)
  BY <1>4, SumUnion
<1>8. SumFunctionOnSet(g, Ms) = 0 /\ SumFunctionOnSet(h, Mr) = 0
  BY <1>5, SumZero
<1>9. /\ SumFunctionOnSet(g, M) \in Int /\ SumFunctionOnSet(g, Mr) \in Int
      /\ SumFunctionOnSet(h, M) \in Int /\ SumFunctionOnSet(h, Ms) \in Int
  BY <1>4, SumStep
<1>10. SumFunctionOnSet(Receipts(M), M) = SumFunctionOnSet(g, M)
  BY <1>4, <1>5, SumSame
<1>11. SumFunctionOnSet(Payments(M), M) = SumFunctionOnSet(h, M)
  BY <1>4, <1>5, SumSame
<1>12. SumFunctionOnSet(Receipts(Mr), Mr) = SumFunctionOnSet(g, Mr)
  BY <1>4, <1>5, SumSame
<1>13. SumFunctionOnSet(Payments(Ms), Ms) = SumFunctionOnSet(h, Ms)
  BY <1>4, <1>5, SumSame
<1>. HIDE DEF N, Q
<1>14. /\ SumFunctionOnSet(g, N) = SumFunctionOnSet(g, M) + SumFunctionOnSet(g, Mr)
       /\ SumFunctionOnSet(h, N) = SumFunctionOnSet(h, M) + SumFunctionOnSet(h, Ms)
  BY <1>6, <1>7, <1>8, <1>9
<1>15. N = (M \cup Ms) \cup Mr
  BY DEF N, Q
<1>. QED BY <1>2, <1>9, <1>10, <1>11, <1>12, <1>13, <1>14, <1>15 DEF g, h

\* The fields of an activity record.
LEMMA ChangeFacts ==
  ASSUME NEW id, NEW s, NEW x, NEW y, NEW o
  PROVE  /\ Change(id, s, x, y, o).tx = <<height, index>> /\ Change(id, s, x, y, o).id = id
         /\ Change(id, s, x, y, o).script = s /\ Change(id, s, x, y, o).sent = x
         /\ Change(id, s, x, y, o).received = y /\ Change(id, s, x, y, o).output = o
BY DEF Change

\* What a transaction records of a script that spends a rune: one record of the
\* sum, or none (collect_input_totals).
LEMMA SentIs ==
  ASSUME UtxosOK, NEW ins \in SUBSET DOMAIN utxos, NEW s \in Script, NEW id \in Id
  PROVE  /\ Spent(ins, {s}, id) \in Nat
         /\ Mine(Sent(ins), s, id) =
              IF Spent(ins, {s}, id) > 0 THEN {Change(id, s, Spent(ins, {s}, id), 0, None)} ELSE {}
<1>. DEFINE total(t, j) == SumFunction([r \in {q \in ins : utxos[q].script = t} |-> utxos[r].runes[j]])
            all == {Change(j, t, total(t, j), 0, None) : j \in Id, t \in Script}
            T == Spent(ins, {s}, id)
            C == Change(id, s, T, 0, None)
<1>1. Sent(ins) = {c \in all : c.sent > 0}
  BY DEF Sent
<1>2. total(s, id) = T /\ T \in Nat
  <2>. DEFINE S == {q \in ins : utxos[q].script = s}
              f == Worth(utxos, id)
              g == [r \in S |-> utxos[r].runes[id]]
  <2>1. S = SpentBy(ins, {s}) /\ DOMAIN g = S /\ S \in SUBSET DOMAIN utxos
    BY DEF SpentBy
  <2>2. IsFiniteSet(S) /\ Weights(f, S) /\ SumFunctionOnSet(f, S) \in Nat /\ \A r \in S : f[r] = utxos[r].runes[id]
    <3>. HIDE DEF S
    <3>. QED BY <2>1, WorthFacts
  <2>3. \A r \in S : g[r] = f[r]
    BY <2>2
  <2>. HIDE DEF S, f, g
  <2>4. SumFunctionOnSet(g, S) = SumFunctionOnSet(f, S)
    BY <2>2, <2>3, SumSame
  <2>5. SumFunction(g) = T /\ T \in Nat
    BY <2>1, <2>2, <2>4 DEF SumFunction, Spent, f
  <2>. QED BY <2>5 DEF g, S
<1>. HIDE DEF total, T
<1>3. ASSUME NEW c, c \in Mine(Sent(ins), s, id) PROVE T > 0 /\ c = C
  <2>1. c \in all /\ c.sent > 0 /\ c.script = s /\ c.id = id
    BY <1>1, <1>3 DEF Mine
  <2>2. PICK j \in Id, t \in Script : c = Change(j, t, total(t, j), 0, None)
    BY <2>1
  <2>3. j = id /\ t = s
    BY <2>1, <2>2, ChangeFacts
  <2>4. c = C
    BY <1>2, <2>2, <2>3
  <2>. QED BY <2>1, <2>4, ChangeFacts
<1>4. ASSUME T > 0 PROVE C \in Mine(Sent(ins), s, id)
  <2>1. C = Change(id, s, total(s, id), 0, None)
    BY <1>2
  <2>2. C \in all
    BY <2>1
  <2>3. C.sent > 0 /\ C.script = s /\ C.id = id
    BY <1>4, ChangeFacts
  <2>. QED BY <1>1, <2>2, <2>3 DEF Mine
<1>5. Mine(Sent(ins), s, id) = IF T > 0 THEN {C} ELSE {}
  <2>. HIDE DEF C
  <2>. QED BY <1>3, <1>4
<1>. QED BY <1>2, <1>5 DEF T

\* What it records of a script that receives a rune: one record for each output
\* (log_rune_balance_changes).
ReceivesAt(outs, alloc, s, id) == {o \in DOMAIN outs : outs[o] = s /\ alloc[o][id] > 0}
ReceiptAt(outs, alloc, s, id) ==
  [o \in ReceivesAt(outs, alloc, s, id) |-> Change(id, s, 0, alloc[o][id], o)]

\* The records of what a script receives are one for each output that pays it, so
\* their sum is the sum over those outputs.
LEMMA ReceivedIs ==
  ASSUME NEW outs, NEW alloc, NEW s, NEW id \in Id
  PROVE  /\ Mine(Received(outs, alloc), s, id) =
              Image(ReceiptAt(outs, alloc, s, id), ReceivesAt(outs, alloc, s, id))
         /\ OneToOne(ReceiptAt(outs, alloc, s, id), ReceivesAt(outs, alloc, s, id))
<1>. DEFINE Q == ReceivesAt(outs, alloc, s, id)
            m == ReceiptAt(outs, alloc, s, id)
            all == {Change(j, outs[o], 0, alloc[o][j], o) : j \in Id, o \in DOMAIN outs}
<1>1. \A o \in Q : m[o] = Change(id, s, 0, alloc[o][id], o)
  BY DEF ReceiptAt
<1>2. \A o \in Q : o \in DOMAIN outs /\ outs[o] = s /\ alloc[o][id] > 0
  BY DEF ReceivesAt
<1>3. Received(outs, alloc) = {c \in all : c.received > 0}
  BY DEF Received
<1>4. OneToOne(m, Q)
  <2>. HIDE DEF m, Q
  <2>. QED BY <1>1, ChangeFacts DEF OneToOne
<1>5. ASSUME NEW c, c \in Mine(Received(outs, alloc), s, id) PROVE c \in Image(m, Q)
  <2>1. c \in all /\ c.received > 0 /\ c.script = s /\ c.id = id
    BY <1>3, <1>5 DEF Mine
  <2>2. PICK j \in Id, o \in DOMAIN outs : c = Change(j, outs[o], 0, alloc[o][j], o)
    BY <2>1
  <2>3. j = id /\ outs[o] = s /\ alloc[o][id] > 0
    BY <2>1, <2>2, ChangeFacts
  <2>4. o \in Q
    BY <2>3 DEF ReceivesAt
  <2>5. c = m[o]
    BY <1>1, <2>2, <2>3, <2>4
  <2>. QED BY <2>4, <2>5 DEF Image
<1>6. ASSUME NEW c, c \in Image(m, Q) PROVE c \in Mine(Received(outs, alloc), s, id)
  <2>1. PICK o \in Q : c = m[o]
    BY <1>6 DEF Image
  <2>2. c = Change(id, outs[o], 0, alloc[o][id], o) /\ o \in DOMAIN outs
    BY <1>1, <1>2, <2>1
  <2>3. c \in all
    BY <2>2
  <2>4. c.received > 0 /\ c.script = s /\ c.id = id
    BY <1>2, <2>1, <2>2, ChangeFacts
  <2>. QED BY <1>3, <2>3, <2>4 DEF Mine
<1>7. Mine(Received(outs, alloc), s, id) = Image(m, Q)
  <2>. HIDE DEF m, Q
  <2>. QED BY <1>5, <1>6
<1>. QED BY <1>4, <1>7

\* What they add up to, for a script that can be spent from.
LEMMA ReceivedSum ==
  ASSUME NEW outs \in Seq(Script), NEW alloc \in [DOMAIN outs -> Balance], NEW s \in Script, NEW id \in Id
  PROVE  LET Mr == Mine(Received(outs, alloc), s, id)
         IN  /\ IsFiniteSet(Mr)
             /\ \A c \in Mr : c.tx = <<height, index>> /\ c.sent = 0 /\ c.received \in Nat
             /\ s \notin OpReturn => SumFunctionOnSet(Receipts(Mr), Mr) = Paid(outs, alloc, {s}, id)
<1>. DEFINE Q == ReceivesAt(outs, alloc, s, id)
            m == ReceiptAt(outs, alloc, s, id)
            Mr == Mine(Received(outs, alloc), s, id)
            p == AllocOf(outs, alloc, id)
            g == Receipts(Mr)
            S == PaidTo(outs, {s})
<1>1. Mr = Image(m, Q) /\ OneToOne(m, Q)
  BY ReceivedIs
<1>2. \A o \in Q : m[o] = Change(id, s, 0, alloc[o][id], o) /\ m[o] \in Mr
  BY <1>1 DEF ReceiptAt, Image
<1>3. IsFiniteSet(Q) /\ Weights(p, Q) /\ \A o \in Q : p[o] = alloc[o][id] /\ p[o] \in Nat
  <2>1. Q \in SUBSET DOMAIN outs
    BY DEF ReceivesAt
  <2>. HIDE DEF Q, p
  <2>. QED BY <2>1, AllocFacts DEF p
<1>4. \A o \in Q : g[m[o]] = p[o]
  <2>1. ASSUME NEW o \in Q PROVE g[m[o]] = p[o]
    <3>1. g[m[o]] = m[o].received
      BY <1>2 DEF Receipts
    <3>2. m[o].received = alloc[o][id]
      BY <1>2, ChangeFacts
    <3>. QED BY <1>3, <3>1, <3>2
  <2>. QED BY <2>1
<1>5. \A c \in Mr : c.tx = <<height, index>> /\ c.sent = 0 /\ c.received \in Nat
  <2>1. ASSUME NEW c \in Mr PROVE c.tx = <<height, index>> /\ c.sent = 0 /\ c.received \in Nat
    <3>1. PICK o \in Q : c = m[o]
      BY <1>1 DEF Image
    <3>. QED BY <1>2, <1>3, <3>1, ChangeFacts
  <2>. QED BY <2>1
<1>6. ASSUME s \notin OpReturn
      PROVE  SumFunctionOnSet(p, S) = SumFunctionOnSet(p, Q)
  <2>1. Q \in SUBSET S /\ S \in SUBSET DOMAIN outs
    BY <1>6 DEF ReceivesAt, PaidTo, Spendable
  <2>2. IsFiniteSet(S) /\ Weights(p, S)
    <3>. HIDE DEF S
    <3>. QED BY <2>1, AllocFacts
  <2>3. \A o \in S \ Q : p[o] = 0
    <3>1. ASSUME NEW o \in S \ Q PROVE p[o] = 0
      <4>1. o \in DOMAIN outs /\ outs[o] = s /\ ~(alloc[o][id] > 0)
        BY DEF ReceivesAt, PaidTo, Spendable
      <4>2. alloc[o][id] \in Nat /\ p[o] = alloc[o][id]
        BY <4>1 DEF AllocOf, Balance
      <4>. QED BY <4>1, <4>2
    <3>. QED BY <3>1
  <2>. HIDE DEF S, Q, p
  <2>. QED BY <2>1, <2>2, <2>3, SumPart
<1>. HIDE DEF Q, m, p, g, S
<1>7. IsFiniteSet(Image(m, Q)) /\ SumFunctionOnSet(g, Image(m, Q)) = SumFunctionOnSet(p, Q)
  BY <1>1, <1>3, <1>4, SumImage
<1>8. Paid(outs, alloc, {s}, id) = SumFunctionOnSet(p, S)
  BY DEF Paid, p, S
<1>9. IsFiniteSet(Mr) /\ SumFunctionOnSet(g, Mr) = SumFunctionOnSet(p, Q)
  BY <1>1, <1>7
<1>. QED BY <1>5, <1>6, <1>8, <1>9 DEF g

\* One transaction, one script and one rune.
LEMMA MineMoves ==
  ASSUME index_activity, TablesOK, ActivityOK, NEW tx, TxOK(tx), index < BlockSize[height], IndexTx(tx),
         NEW s \in Script, NEW id \in Id
  PROVE  LET M == Mine(activity, s, id)
             N == Mine(activity', s, id)
             T == Spent(tx.ins, {s}, id)
             P == Paid(tx.outs, StateAfter(tx).alloc, {s}, id)
         IN  /\ IsFiniteSet(N)
             /\ SumFunctionOnSet(Receipts(M), M) \in Int /\ SumFunctionOnSet(Payments(M), M) \in Int
             /\ SumFunctionOnSet(Payments(N), N) = SumFunctionOnSet(Payments(M), M) + T
             /\ s \notin OpReturn =>
                  SumFunctionOnSet(Receipts(N), N) = SumFunctionOnSet(Receipts(M), M) + P
<1>. DEFINE ins == tx.ins
            outs == tx.outs
            alloc == StateAfter(tx).alloc
            M == Mine(activity, s, id)
            Ms == Mine(Sent(ins), s, id)
            Mr == Mine(Received(outs, alloc), s, id)
            N == Mine(activity', s, id)
            T == Spent(ins, {s}, id)
            C == Change(id, s, T, 0, None)
            here == <<height, index>>
<1>1. /\ activity' = activity \cup Sent(ins) \cup Received(outs, alloc)
      /\ alloc \in [DOMAIN outs -> Balance] /\ outs \in Seq(Script)
      /\ UtxosOK /\ ins \in SUBSET DOMAIN utxos
  BY AfterFacts, IndexTxFacts DEF TablesOK, TxOK
<1>. HIDE DEF ins, outs, alloc
<1>2. N = (M \cup Ms) \cup Mr
  BY <1>1 DEF Mine
<1>3. /\ T \in Nat /\ Ms = IF T > 0 THEN {C} ELSE {}
  BY <1>1, SentIs
<1>4. C.tx = here /\ C.sent = T /\ C.received = 0
  BY ChangeFacts
<1>5. /\ IsFiniteSet(Mr) /\ \A c \in Mr : c.tx = here /\ c.sent = 0 /\ c.received \in Nat
      /\ s \notin OpReturn => SumFunctionOnSet(Receipts(Mr), Mr) = Paid(outs, alloc, {s}, id)
  BY <1>1, ReceivedSum
<1>6. IsFiniteSet(M) /\ \A c \in M : c.tx # here /\ c.sent \in Nat /\ c.received \in Nat
  <2>1. ~Past(here)
    BY PlaceFacts DEF TablesOK
  <2>. QED BY <2>1 DEF ActivityOK, Mine
<1>. HIDE DEF M, Mr, N, C, here, T
<1>7. \A c \in Ms : c.tx = here /\ c.sent > 0 /\ c.sent \in Nat /\ c.received = 0
  BY <1>3, <1>4
<1>8. IsFiniteSet(Ms) /\ SumFunctionOnSet(Payments(Ms), Ms) = T
  <2>1. CASE ~(T > 0)
    <3>1. Ms = {} /\ T = 0
      BY <1>3, <2>1
    <3>. QED BY <3>1, SumEmpty, FS_EmptySet
  <2>2. CASE T > 0
    <3>. DEFINE f == Payments(Ms)
    <3>1. Ms = {C} /\ C \in Ms
      BY <1>3, <2>2
    <3>2. IsFiniteSet(Ms)
      BY <3>1, FS_Singleton
    <3>3. f[C] = T
      BY <1>4, <3>1 DEF Payments
    <3>4. Weights(f, Ms) /\ Ms \ {C} = {}
      BY <1>3, <3>1, <3>3 DEF Weights
    <3>. HIDE DEF f, Ms
    <3>5. SumFunctionOnSet(f, Ms) = f[C] + SumFunctionOnSet(f, Ms \ {C})
      BY <3>1, <3>2, <3>4, SumStep
    <3>6. SumFunctionOnSet(f, Ms \ {C}) = 0
      BY <3>4, SumEmpty
    <3>7. SumFunctionOnSet(f, Ms) = T
      BY <1>3, <3>3, <3>5, <3>6
    <3>. QED BY <3>2, <3>7 DEF f
  <2>. QED BY <2>1, <2>2
<1>. HIDE DEF Ms
<1>9. M \cap Ms = {} /\ M \cap Mr = {} /\ Ms \cap Mr = {}
  <2>1. Ms \cap Mr = {}
    <3>1. ASSUME NEW c \in Ms \cap Mr PROVE FALSE
      <4>1. c.sent > 0 /\ c.sent = 0
        BY <1>5, <1>7
      <4>. QED BY <4>1
    <3>. QED BY <3>1
  <2>. QED BY <1>5, <1>6, <1>7, <2>1
<1>10. /\ \A c \in M \cup Ms \cup Mr : c.sent \in Nat /\ c.received \in Nat
       /\ \A c \in Ms : c.received = 0
       /\ \A c \in Mr : c.sent = 0
  BY <1>5, <1>6, <1>7
<1>11. LET U == (M \cup Ms) \cup Mr
       IN  /\ IsFiniteSet(U)
           /\ SumFunctionOnSet(Receipts(U), U) =
                SumFunctionOnSet(Receipts(M), M) + SumFunctionOnSet(Receipts(Mr), Mr)
           /\ SumFunctionOnSet(Payments(U), U) =
                SumFunctionOnSet(Payments(M), M) + SumFunctionOnSet(Payments(Ms), Ms)
           /\ SumFunctionOnSet(Receipts(M), M) \in Int /\ SumFunctionOnSet(Receipts(Mr), Mr) \in Int
           /\ SumFunctionOnSet(Payments(M), M) \in Int /\ SumFunctionOnSet(Payments(Ms), Ms) \in Int
  BY <1>5, <1>6, <1>8, <1>9, <1>10, AddRecords
<1>12. /\ IsFiniteSet(N)
       /\ SumFunctionOnSet(Receipts(N), N) =
            SumFunctionOnSet(Receipts(M), M) + SumFunctionOnSet(Receipts(Mr), Mr)
       /\ SumFunctionOnSet(Payments(N), N) = SumFunctionOnSet(Payments(M), M) + T
       /\ SumFunctionOnSet(Receipts(M), M) \in Int /\ SumFunctionOnSet(Payments(M), M) \in Int
  BY <1>2, <1>8, <1>11, Zenon
<1>. QED BY <1>5, <1>12 DEF M, N, T, ins, outs, alloc

\* What a transaction records of a script and a rune, all of it new since earlier
\* records name earlier transactions, is what it changes of the script's balance.
LEMMA IndexActivity ==
  ASSUME index_activity, TablesOK, ActivityOK, Explains(activity, utxos), NEW tx, TxOK(tx),
         index < BlockSize[height], IndexTx(tx), height' = height, index' = index + 1
  PROVE  ActivityOK' /\ Explains(activity', utxos')
<1>. DEFINE ins == tx.ins
            outs == tx.outs
            alloc == StateAfter(tx).alloc
<1>1. /\ activity' = activity \cup Sent(ins) \cup Received(outs, alloc)
      /\ alloc \in [DOMAIN outs -> Balance] /\ outs \in Seq(Script)
      /\ UtxosOK /\ ins \in SUBSET DOMAIN utxos /\ Becomes(utxos', ins, outs, alloc)
  BY AfterFacts, IndexTxFacts DEF TablesOK, TxOK
<1>2. ASSUME NEW c \in activity' PROVE Past(c.tx)' /\ c.sent \in Nat /\ c.received \in Nat
  <2>1. CASE c \in activity
    BY <2>1, PastStays DEF TablesOK, ActivityOK
  <2>2. ASSUME c.tx = <<height, index>> PROVE Past(c.tx)'
    <3>1. height \in Nat /\ index \in Nat
      BY PlaceFacts DEF TablesOK
    <3>. QED BY <2>2, <3>1 DEF Past
  <2>3. CASE c \in Sent(ins)
    <3>. DEFINE s == c.script
                id == c.id
                T == Spent(ins, {s}, id)
    <3>1. s \in Script /\ id \in Id
      <4>. DEFINE total(t, j) == SumFunction([r \in {q \in ins : utxos[q].script = t} |-> utxos[r].runes[j]])
                  all == {Change(j, t, total(t, j), 0, None) : j \in Id, t \in Script}
      <4>1. c \in all
        BY <2>3 DEF Sent
      <4>. HIDE DEF total
      <4>2. PICK j \in Id, t \in Script : c = Change(j, t, total(t, j), 0, None)
        BY <4>1
      <4>. QED BY <4>2, ChangeFacts
    <3>2. c \in Mine(Sent(ins), s, id)
      BY <2>3 DEF Mine
    <3>. HIDE DEF s, id, ins
    <3>3. T \in Nat /\ c = Change(id, s, T, 0, None)
      <4>1. T \in Nat /\ Mine(Sent(ins), s, id) = IF T > 0 THEN {Change(id, s, T, 0, None)} ELSE {}
        BY <1>1, <3>1, SentIs, Zenon
      <4>. HIDE DEF T
      <4>. QED BY <3>2, <4>1
    <3>4. c.tx = <<height, index>> /\ c.sent = T /\ c.received = 0
      BY <3>3, ChangeFacts
    <3>. QED BY <2>2, <3>3, <3>4
  <2>4. CASE c \in Received(outs, alloc)
    <3>. DEFINE s == c.script
                id == c.id
    <3>1. s \in Script /\ id \in Id
      <4>1. PICK j \in Id, o \in DOMAIN outs : c = Change(j, outs[o], 0, alloc[o][j], o)
        BY <2>4 DEF Received
      <4>. QED BY <1>1, <4>1, ChangeFacts
    <3>2. c \in Mine(Received(outs, alloc), s, id)
      BY <2>4 DEF Mine
    <3>. HIDE DEF s, id, outs, alloc
    <3>3. c.tx = <<height, index>> /\ c.sent = 0 /\ c.received \in Nat
      BY <1>1, <3>1, <3>2, ReceivedSum
    <3>. QED BY <2>2, <3>3
  <2>. QED BY <1>1, <2>1, <2>3, <2>4
<1>3. \A s \in Script, id \in Id : IsFiniteSet(Mine(activity', s, id))
  BY MineMoves
<1>4. ASSUME NEW s \in Script \ OpReturn, NEW id \in Id
      PROVE  SumFunctionOnSet(Receipts(Mine(activity', s, id)), Mine(activity', s, id)) =
               SumFunctionOnSet(Payments(Mine(activity', s, id)), Mine(activity', s, id)) + Held(utxos', {s}, id)
  <2>. DEFINE M == Mine(activity, s, id)
              N == Mine(activity', s, id)
              T == Spent(ins, {s}, id)
              P == Paid(outs, alloc, {s}, id)
              R == SumFunctionOnSet(Receipts(M), M)
              S == SumFunctionOnSet(Payments(M), M)
              H == Held(utxos, {s}, id)
  <2>1. /\ R \in Int /\ S \in Int
        /\ SumFunctionOnSet(Payments(N), N) = S + T
        /\ SumFunctionOnSet(Receipts(N), N) = R + P
    BY MineMoves
  <2>2. R = S + H
    BY DEF Explains
  <2>3. H \in Nat /\ T \in Nat /\ P \in Nat /\ Held(utxos', {s}, id) = (H - T) + P
    <3>. HIDE DEF ins, outs, alloc
    <3>. QED BY <1>1, HeldMoves
  <2>. HIDE DEF T, P, R, S, H
  <2>. QED BY <2>1, <2>2, <2>3
<1>. QED BY <1>2, <1>3, <1>4 DEF ActivityOK, Explains

\* Every output with runes has its record of activity.
LEMMA IndexRecorded ==
  ASSUME index_activity, TablesOK, Recorded, NEW tx, TxOK(tx), index < BlockSize[height], IndexTx(tx)
  PROVE  Recorded'
<1>. DEFINE ins == tx.ins
            outs == tx.outs
            alloc == StateAfter(tx).alloc
<1>1. /\ activity' = activity \cup Sent(ins) \cup Received(outs, alloc)
      /\ alloc \in [DOMAIN outs -> Balance]
      /\ Becomes(utxos', ins, outs, alloc)
  BY AfterFacts, IndexTxFacts
<1>. HIDE DEF ins, outs, alloc
<1>2. ASSUME NEW r \in DOMAIN utxos \ ins, NEW id \in Id, utxos'[r].runes[id] > 0
      PROVE  ReceiptOf(r, utxos', id) \in activity'
  <2>1. utxos'[r] = utxos[r]
    BY <1>1 DEF Becomes
  <2>2. ReceiptOf(r, utxos', id) = ReceiptOf(r, utxos, id)
    BY <2>1 DEF ReceiptOf
  <2>. QED BY <1>1, <1>2, <2>1, <2>2 DEF Recorded
<1>3. ASSUME NEW o \in Spendable(outs), NEW id \in Id, NEW r, r = Ref(o), utxos'[r].runes[id] > 0
      PROVE  ReceiptOf(r, utxos', id) \in activity'
  <2>1. o \in DOMAIN outs /\ utxos'[r].script = outs[o] /\ utxos'[r].runes = alloc[o]
    BY <1>1, <1>3 DEF Becomes, Spendable
  <2>2. r[1] = height /\ r[2] = index /\ r[3] = o
    BY <1>3 DEF Ref
  <2>3. ReceiptOf(r, utxos', id) = Change(id, outs[o], 0, alloc[o][id], o)
    BY <2>1, <2>2 DEF ReceiptOf, Change
  <2>4. Change(id, outs[o], 0, alloc[o][id], o).received > 0
    BY <1>3, <2>1, ChangeFacts
  <2>5. Change(id, outs[o], 0, alloc[o][id], o) \in Received(outs, alloc)
    BY <2>1, <2>4 DEF Received
  <2>. QED BY <1>1, <2>3, <2>5
<1>4. \A r \in DOMAIN utxos' : r \in DOMAIN utxos \ ins \/ \E o \in Spendable(outs) : r = Ref(o)
  BY <1>1 DEF Becomes
<1>. QED BY <1>2, <1>3, <1>4 DEF Recorded

\* Below start_height there is neither a record nor a balance.
LEMMA SkipActivity ==
  ASSUME TablesOK, ActivityOK, Explains(activity, utxos), Recorded, NEW tx, TxOK(tx), SkipTx(tx),
         TablesOK', height' = height, index' = index + 1
  PROVE  ActivityOK' /\ Explains(activity', utxos') /\ Recorded'
<1>1. activity' = activity /\ height' < StartHeight
  BY SkipTxFacts
<1>2. ActivityOK'
  <2>1. ASSUME NEW c \in activity PROVE Past(c.tx)'
    BY PastStays DEF TablesOK, ActivityOK
  <2>. QED BY <1>1, <2>1 DEF ActivityOK
<1>3. Explains(activity', utxos')
  <2>1. ASSUME NEW s, NEW id \in Id PROVE Held(utxos, {s}, id) = 0 /\ Held(utxos', {s}, id) = 0
    BY SkipHeld
  <2>2. ASSUME NEW s \in Script \ OpReturn, NEW id \in Id
        PROVE  SumFunctionOnSet(Receipts(Mine(activity, s, id)), Mine(activity, s, id)) =
                 SumFunctionOnSet(Payments(Mine(activity, s, id)), Mine(activity, s, id)) + Held(utxos', {s}, id)
    BY <2>1, ZenonT(40) DEF Explains
  <2>. QED BY <1>1, <2>2, Zenon DEF Explains
<1>4. Recorded'
  BY <1>1 DEF TablesOK, NoneBelowStart, Recorded, Zero
<1>. QED BY <1>2, <1>3, <1>4

-----------------------------------------------------------------------------
(* The invariant.                                                          *)

ActivityInv == index_activity => ActivityOK /\ Explains(activity, utxos) /\ Recorded

RunesInv == TablesOK /\ NamesOK /\ RowsMatchUtxos /\ Conserved /\ ActivityInv

\* RunesInv holds of the empty tables.
LEMMA InitRunes ==
  ASSUME Init
  PROVE  RunesInv
<1>1. TablesOK
  BY InitTables
<1>2. DOMAIN utxos = {} /\ DOMAIN infos = {} /\ DOMAIN idByName = {} /\ rows = {} /\ activity = {}
      /\ burned = Zero
  BY DEF Init
<1>3. NamesOK /\ RowsMatchUtxos /\ Recorded
  BY <1>2 DEF NamesOK, RowsMatchUtxos, Recorded
<1>4. ASSUME NEW id \in Id, NEW C PROVE Held(utxos, C, id) = 0
  <2>1. Owned(utxos, C) = {}
    BY <1>2 DEF Owned
  <2>. QED BY <2>1, SumEmpty DEF Held
<1>5. Conserved
  <2>1. Balanced(utxos, infos, mints, burned)
    BY <1>2, <1>4 DEF Balanced, IssuedBy, Zero
  <2>. QED BY <1>1, <2>1, ConservedIsBalanced DEF TablesOK
<1>6. \A s, id : Mine(activity, s, id) = {}
  BY <1>2 DEF Mine
<1>7. ActivityOK
  <2>1. \A s \in Script, id \in Id : IsFiniteSet(Mine(activity, s, id))
    BY <1>6, FS_EmptySet
  <2>. QED BY <1>2, <2>1 DEF ActivityOK
<1>8. Explains(activity, utxos)
  <2>1. ASSUME NEW f PROVE SumFunctionOnSet(f, {}) = 0
    BY SumEmpty
  <2>2. ASSUME NEW s \in Script \ OpReturn, NEW id \in Id
        PROVE  SumFunctionOnSet(Receipts(Mine(activity, s, id)), Mine(activity, s, id)) =
                 SumFunctionOnSet(Payments(Mine(activity, s, id)), Mine(activity, s, id)) + Held(utxos, {s}, id)
    <3>1. /\ SumFunctionOnSet(Receipts(Mine(activity, s, id)), Mine(activity, s, id)) = 0
          /\ SumFunctionOnSet(Payments(Mine(activity, s, id)), Mine(activity, s, id)) = 0
          /\ Held(utxos, {s}, id) = 0
      BY <1>4, <1>6, <2>1, Zenon
    <3>. QED BY <3>1
  <2>. QED BY <2>2, Zenon DEF Explains
<1>. QED BY <1>1, <1>3, <1>5, <1>7, <1>8 DEF RunesInv, ActivityInv

\* A transaction keeps RunesInv.
LEMMA TxRunes ==
  ASSUME RunesInv, NEW tx, TxOK(tx), ProcessTx(tx)
  PROVE  RunesInv'
<1>1. index < BlockSize[height] /\ height' = height /\ index' = index + 1
  BY DEF ProcessTx
<1>2. CASE IndexTx(tx)
  <2>1. TablesOK'
    BY <1>1, <1>2, IndexTables DEF RunesInv
  <2>2. NamesOK' /\ RowsMatchUtxos'
    BY <1>1, <1>2, IndexNames, IndexRows DEF RunesInv
  <2>3. Conserved'
    BY <1>1, <1>2, <2>1, IndexConserved DEF RunesInv, TablesOK
  <2>4. ASSUME index_activity PROVE (ActivityOK /\ Explains(activity, utxos))'
    BY <1>1, <1>2, <2>4, IndexActivity DEF RunesInv, ActivityInv
  <2>5. ASSUME index_activity PROVE Recorded'
    BY <1>1, <1>2, <2>5, IndexRecorded DEF RunesInv, ActivityInv
  <2>. QED BY <2>1, <2>2, <2>3, <2>4, <2>5 DEF RunesInv, ActivityInv
<1>3. CASE SkipTx(tx)
  <2>1. TablesOK'
    BY <1>1, <1>3, SkipTables DEF RunesInv
  <2>2. NamesOK'
    <3>1. infos' = infos /\ idByName' = idByName
      BY <1>3, SkipTxFacts DEF RunesInv
    <3>. QED BY <3>1 DEF RunesInv, NamesOK
  <2>3. RowsMatchUtxos' /\ Conserved'
    BY <1>1, <1>3, <2>1, SkipRows, SkipConserved DEF RunesInv, TablesOK
  <2>4. ASSUME index_activity PROVE (ActivityOK /\ Explains(activity, utxos) /\ Recorded)'
    BY <1>1, <1>3, <2>1, <2>4, SkipActivity DEF RunesInv, ActivityInv
  <2>. QED BY <2>1, <2>2, <2>3, <2>4 DEF RunesInv, ActivityInv
<1>. QED BY <1>2, <1>3 DEF ProcessTx

\* Moving to the next block keeps RunesInv.
LEMMA BlockRunes ==
  ASSUME RunesInv, NextBlock
  PROVE  RunesInv'
<1>1. TablesOK'
  BY BlockTables DEF RunesInv
<1>2. UNCHANGED <<utxos, infos, idByName, mints, rows, activity, burned>>
      /\ height' = height + 1 /\ index' = 0
  BY DEF NextBlock
<1>3. NamesOK' /\ RowsMatchUtxos'
  BY <1>2 DEF RunesInv, NamesOK, RowsMatchUtxos
<1>4. Conserved'
  BY <1>2 DEF RunesInv, Conserved, Circulating, Issued
<1>5. ASSUME index_activity PROVE (ActivityOK /\ Explains(activity, utxos) /\ Recorded)'
  <2>1. ActivityOK /\ Explains(activity, utxos) /\ Recorded
    BY <1>5 DEF RunesInv, ActivityInv
  <2>2. ASSUME NEW c \in activity PROVE Past(c.tx)'
    BY <1>2, <2>1, PastStays DEF RunesInv, TablesOK, ActivityOK
  <2>3. ActivityOK'
    BY <1>2, <2>1, <2>2 DEF ActivityOK
  <2>4. Recorded'
    BY <1>2, <2>1 DEF Recorded
  <2>. QED BY <1>2, <2>1, <2>3, <2>4
<1>. QED BY <1>1, <1>3, <1>4, <1>5 DEF RunesInv, ActivityInv

\* A stuttering step keeps RunesInv.
LEMMA StutterRunes ==
  ASSUME RunesInv, UNCHANGED vars
  PROVE  RunesInv'
<1>1. UNCHANGED <<height, index, utxos, infos, idByName, mints, rows, activity, burned>>
  BY DEF vars
<1>2. TablesOK'
  BY <1>1 DEF RunesInv, TablesOK, PlaceOK, UtxosOK, InfosOK, MintsOK, NoneBelowStart, Past
<1>3. NamesOK' /\ RowsMatchUtxos'
  BY <1>1 DEF RunesInv, NamesOK, RowsMatchUtxos
<1>4. Conserved'
  BY <1>1 DEF RunesInv, Conserved, Circulating, Issued
<1>5. ASSUME index_activity PROVE (ActivityOK /\ Explains(activity, utxos) /\ Recorded)'
  <2>1. ActivityOK /\ Explains(activity, utxos) /\ Recorded
    BY <1>5 DEF RunesInv, ActivityInv
  <2>. QED BY <1>1, <2>1 DEF ActivityOK, Past, Recorded
<1>. QED BY <1>2, <1>3, <1>4, <1>5 DEF RunesInv, ActivityInv

\* RunesInv is an invariant of the indexer.
LEMMA RunesInvariance == Spec => []RunesInv
<1>1. Init => RunesInv
  BY InitRunes
<1>2. RunesInv /\ [Next]_vars => RunesInv'
  BY NextCases, TxRunes, BlockRunes, StutterRunes
<1>. QED BY <1>1, <1>2, PTL DEF Spec

\* No etching takes over a name or an identifier, whatever is etched, named or
\* not, in whatever order (etched, create_rune_entry).
THEOREM NamesAreOneToOne == Spec => []NamesAgree
<1>1. RunesInv => NamesAgree
  BY DEF RunesInv, NamesOK, NamesAgree
<1>. QED BY <1>1, RunesInvariance, PTL

\* The rows of RuneUtxosByScriptKV are the unspent outputs with runes (process_tx).
THEOREM RowsAreUtxos == Spec => []RowsMatchUtxos
<1>1. RunesInv => RowsMatchUtxos
  BY DEF RunesInv
<1>. QED BY <1>1, RunesInvariance, PTL

\* No allocation makes or loses runes, for any message and any outputs (process_tx).
THEOREM RunesAreConserved == Spec => []Conserved
<1>1. RunesInv => Conserved
  BY DEF RunesInv
<1>. QED BY <1>1, RunesInvariance, PTL

\* No more of a rune circulates than its etching allows (mint).
THEOREM SupplyIsBounded == Spec => []SupplyBounded
<1>1. RunesInv => SupplyBounded
  BY ConservedIsBounded DEF RunesInv
<1>. QED BY <1>1, RunesInvariance, PTL

\* With index_activity, the activity records of a script add up to what it holds,
\* however a rune passed between scripts (collect_input_totals, log_rune_balance_changes).
THEOREM ActivityExplains == Spec => []ActivityExplainsBalances
<1>1. ASSUME RunesInv PROVE ActivityExplainsBalances
  <2>. SUFFICES ASSUME index_activity PROVE ActivityExplainsBalances
    BY Zenon DEF ActivityExplainsBalances
  <2>1. IsFiniteSet(DOMAIN utxos) /\ \A r \in DOMAIN utxos : utxos[r].runes \in Balance
    BY <1>1 DEF RunesInv, TablesOK, UtxosOK
  <2>2. Explains(activity, utxos)
    BY <1>1 DEF RunesInv, ActivityInv
  <2>. SUFFICES ASSUME NEW s \in Script \ OpReturn, NEW id \in Id
                PROVE  LET mine == {c \in activity : c.script = s /\ c.id = id}
                           held == {r \in DOMAIN utxos : utxos[r].script = s}
                       IN  SumFunction([c \in mine |-> c.received]) =
                             SumFunction([c \in mine |-> c.sent]) +
                             SumFunction([r \in held |-> utxos[r].runes[id]])
    BY Zenon DEF ActivityExplainsBalances
  <2>3. SumFunctionOnSet(Receipts(Mine(activity, s, id)), Mine(activity, s, id)) =
          SumFunctionOnSet(Payments(Mine(activity, s, id)), Mine(activity, s, id)) + Held(utxos, {s}, id)
    BY <2>2, Zenon DEF Explains
  <2>4. {c \in activity : c.script = s /\ c.id = id} = Mine(activity, s, id)
    BY DEF Mine
  <2>5. SumFunction([r \in {q \in DOMAIN utxos : utxos[q].script = s} |-> utxos[r].runes[id]]) =
          Held(utxos, {s}, id)
    BY <2>1, HeldByScript
  <2>. QED BY <2>3, <2>4, <2>5, SumOfRecords, Zenon
<1>. QED BY <1>1, RunesInvariance, PTL

-----------------------------------------------------------------------------
(***************************************************************************)
(* Part 4. The routes.                                                     *)
(***************************************************************************)

\* The only element of a set is the one chosen from it.
LEMMA ChooseOnly ==
  ASSUME NEW x
  PROVE  (CHOOSE y \in {x} : TRUE) = x
OBVIOUS

\* What a request by identifier or by name is about.
LEMMA RuneAskedFor ==
  ASSUME NEW answers
  PROVE  /\ \A id : SpecifiedRune(ById(id)) = {id} /\ WithRune(ById(id), answers) = answers[id]
         /\ \A name \in DOMAIN idByName :
              /\ SpecifiedRune(ByName(name)) = {idByName[name]}
              /\ WithRune(ByName(name), answers) = answers[idByName[name]]
         /\ \A name : name \notin DOMAIN idByName => WithRune(ByName(name), answers) = NotFound
         /\ WithRune(Malformed, answers) = BadRequest
<1>1. ASSUME NEW id PROVE SpecifiedRune(ById(id)) = {id} /\ ById(id).by = "Id"
  BY DEF SpecifiedRune, ById
<1>2. ASSUME NEW name PROVE ByName(name).by = "Name" /\ ByName(name).of = name
  BY DEF ByName
<1>3. ASSUME NEW name \in DOMAIN idByName PROVE SpecifiedRune(ByName(name)) = {idByName[name]}
  BY <1>2 DEF SpecifiedRune
<1>4. ASSUME NEW name, name \notin DOMAIN idByName PROVE SpecifiedRune(ByName(name)) = {}
  BY <1>2, <1>4 DEF SpecifiedRune
<1>5. ASSUME NEW rune, NEW id, SpecifiedRune(rune) = {id}, rune.by \in {"Id", "Name"}
      PROVE  WithRune(rune, answers) = answers[id]
  <2>1. (CHOOSE y \in SpecifiedRune(rune) : TRUE) = id
    BY <1>5, ChooseOnly
  <2>. QED BY <1>5, <2>1 DEF WithRune
<1>6. ASSUME NEW rune, SpecifiedRune(rune) = {}, rune.by = "Name"
      PROVE  WithRune(rune, answers) = NotFound
  BY <1>6 DEF WithRune
<1>7. WithRune(Malformed, answers) = BadRequest
  BY DEF WithRune, Malformed
<1>8. ASSUME NEW id PROVE WithRune(ById(id), answers) = answers[id]
  <2>1. SpecifiedRune(ById(id)) = {id} /\ ById(id).by \in {"Id", "Name"}
    BY <1>1
  <2>. QED BY <1>5, <2>1, Zenon
<1>9. ASSUME NEW name \in DOMAIN idByName PROVE WithRune(ByName(name), answers) = answers[idByName[name]]
  <2>1. SpecifiedRune(ByName(name)) = {idByName[name]} /\ ByName(name).by \in {"Id", "Name"}
    BY <1>2, <1>3
  <2>. QED BY <1>5, <2>1, Zenon
<1>10. ASSUME NEW name, name \notin DOMAIN idByName PROVE WithRune(ByName(name), answers) = NotFound
  BY <1>2, <1>4, <1>6, <1>10, Zenon
<1>. QED BY <1>1, <1>3, <1>7, <1>8, <1>9, <1>10, Zenon

\* The rows of a script that can be spent from.
LEMMA RowsOfFacts ==
  ASSUME RunesInv, NEW script \in Payable
  PROVE  /\ \A w \in RowsOf(script) :
              /\ w.ref \in DOMAIN utxos /\ utxos[w.ref].runes # Zero
              /\ utxos[w.ref].script = script
              /\ w = Row(utxos[w.ref].script, utxos[w.ref].height, w.ref)
         /\ Fetchable(script)
         /\ IsFiniteSet(RowsOf(script))
<1>. DEFINE W == RowsOf(script)
            m == [r \in DOMAIN utxos |-> Row(utxos[r].script, utxos[r].height, r)]
            I == Image(m, DOMAIN utxos)
<1>1. ASSUME NEW w \in W
      PROVE  /\ w.ref \in DOMAIN utxos /\ utxos[w.ref].runes # Zero
             /\ utxos[w.ref].script = script
             /\ w = Row(utxos[w.ref].script, utxos[w.ref].height, w.ref)
  <2>1. w \in PayableRows(rows) /\ w.script = script
    BY DEF RowsOf, Payable, PayableRows
  <2>2. w \in RowsFor(utxos)
    BY <2>1 DEF RunesInv, RowsMatchUtxos, PayableRows, RowsFor
  <2>3. PICK r \in DOMAIN utxos : utxos[r].runes # Zero /\ w = Row(utxos[r].script, utxos[r].height, r)
    BY <2>2 DEF RowsFor
  <2>4. w.ref = r /\ w.script = utxos[r].script
    BY <2>3, RowFacts
  <2>. QED BY <2>1, <2>3, <2>4
<1>2. Fetchable(script)
  BY <1>1 DEF Fetchable
<1>3. W \in SUBSET I
  BY <1>1 DEF Image
<1>4. IsFiniteSet(I)
  <2>. DEFINE z == [r \in DOMAIN utxos |-> 0]
              y == [w \in I |-> 0]
  <2>1. IsFiniteSet(DOMAIN utxos)
    BY DEF RunesInv, TablesOK, UtxosOK
  <2>2. Weights(z, DOMAIN utxos) /\ \A r \in DOMAIN utxos : y[m[r]] = z[r]
    BY DEF Weights, Image
  <2>3. OneToOne(m, DOMAIN utxos)
    BY RowFacts DEF OneToOne
  <2>. HIDE DEF z, y, m
  <2>. QED BY <2>1, <2>2, <2>3, SumImage
<1>5. IsFiniteSet(W)
  BY <1>3, <1>4, FS_Subset
<1>. QED BY <1>1, <1>2, <1>5

\* A rune that an output holds has been etched.
LEMMA HeldIsEtched ==
  ASSUME RunesInv, NEW r \in DOMAIN utxos, NEW id \in Id, utxos[r].runes[id] > 0
  PROVE  id \in DOMAIN infos
<1>. DEFINE f == Worth(utxos, id)
            S == Owned(utxos, Script)
            H == SumFunctionOnSet(f, S)
<1>1. UtxosOK /\ burned[id] \in Nat
  BY DEF RunesInv, TablesOK, Balance
<1>2. S \in SUBSET DOMAIN utxos /\ r \in S
  BY <1>1 DEF UtxosOK, Owned
<1>3. IsFiniteSet(S) /\ \A q \in S : f[q] = utxos[q].runes[id] /\ f[q] \in Nat
  <2>. HIDE DEF S
  <2>. QED BY <1>1, <1>2, WorthFacts
<1>4. H + burned[id] = IssuedBy(infos, id, mints[id])
  BY <1>1, ConservedIsBalanced DEF RunesInv, Balanced, Held
<1>5. f[r] <= H /\ H \in Nat
  <2>. HIDE DEF S, f
  <2>. QED BY <1>2, <1>3, SumNat
<1>6. f[r] > 0 /\ f[r] \in Nat
  BY <1>2, <1>3
<1>7. IssuedBy(infos, id, mints[id]) # 0
  <2>. HIDE DEF H, f
  <2>. QED BY <1>1, <1>4, <1>5, <1>6
<1>. QED BY <1>7 DEF IssuedBy

\* What the rows of a script add up to.
RowWorth(script, id) == [w \in RowsOf(script) |-> utxos[w.ref].runes[id]]

\* The balance the routes add up for a script is the sum over its rows, and every
\* rune in it has its information.
LEMMA AddRunesFacts ==
  ASSUME RunesInv, NEW script \in Payable, NEW id \in Id
  PROVE  /\ AddRunes(script)[id] = SumFunctionOnSet(RowWorth(script, id), RowsOf(script))
         /\ \A w \in RowsOf(script) :
              RowWorth(script, id)[w] = utxos[w.ref].runes[id] /\ RowWorth(script, id)[w] \in Nat
         /\ AddRunes(script)[id] > 0 => id \in DOMAIN infos
<1>. DEFINE W == RowsOf(script)
            f == RowWorth(script, id)
<1>1. AddRunes(script)[id] = SumFunctionOnSet(f, W)
  <2>1. AddRunes(script)[id] = SumFunction([w \in W |-> utxos[w.ref].runes[id]])
    BY DEF AddRunes
  <2>2. DOMAIN [w \in W |-> utxos[w.ref].runes[id]] = W
    OBVIOUS
  <2>. QED BY <2>1, <2>2, Zenon DEF SumFunction, RowWorth
<1>2. \A w \in W : f[w] = utxos[w.ref].runes[id] /\ f[w] \in Nat
  BY RowsOfFacts DEF RowWorth, RunesInv, TablesOK, UtxosOK, Balance
<1>3. ASSUME SumFunctionOnSet(f, W) > 0 PROVE id \in DOMAIN infos
  <2>1. PICK w \in W : f[w] # 0
    <3>1. IsFiniteSet(W)
      BY RowsOfFacts
    <3>2. ASSUME \A w \in W : f[w] = 0 PROVE FALSE
      <4>1. SumFunctionOnSet(f, W) = 0
        <5>. HIDE DEF f, W
        <5>. QED BY <3>1, <3>2, SumZero
      <4>. QED BY <1>3, <4>1
    <3>. QED BY <3>2
  <2>2. w.ref \in DOMAIN utxos /\ utxos[w.ref].runes[id] > 0
    BY <1>2, <2>1, RowsOfFacts
  <2>. QED BY <2>2, HeldIsEtched
<1>. QED BY <1>1, <1>2, <1>3

\* The balances of a script are answered: no row leads to a missing output or rune.
LEMMA BalancesAnswered ==
  ASSUME RunesInv, NEW script \in Payable
  PROVE  AllRuneBalances(script) = Answer(AddRunes(script)) /\ AllRuneBalances(script).status = 200
<1>1. AllRuneBalances(script) = Answer(AddRunes(script))
  BY RowsOfFacts, AddRunesFacts DEF AllRuneBalances
<1>. QED BY <1>1 DEF Answer

\* The rows of a script with a rune, and what a route says of them.
RuneRows(script, id) == {w \in RowsOf(script) : utxos[w.ref].runes[id] > 0}
RuneUtxosOf(script, id) == {RuneUtxo(w) : w \in RuneRows(script, id)}

\* The balance of an address is the sum over its outputs.
LEMMA BalanceIsSum ==
  ASSUME RunesInv, NEW script \in Payable, NEW id \in Id,
         NEW at, \A w \in RuneRows(script, id) : at[RuneUtxo(w)] = utxos[w.ref].runes[id]
  PROVE  AddRunes(script)[id] = SumFunctionOnSet(at, RuneUtxosOf(script, id))
<1>. DEFINE W == RowsOf(script)
            V == RuneRows(script, id)
            f == RowWorth(script, id)
            m == [w \in V |-> RuneUtxo(w)]
<1>1. IsFiniteSet(W) /\ \A w \in W : f[w] = utxos[w.ref].runes[id] /\ f[w] \in Nat
  BY RowsOfFacts, AddRunesFacts
<1>2. V \in SUBSET W /\ \A w \in W \ V : f[w] = 0
  BY <1>1 DEF RuneRows
<1>3. IsFiniteSet(V) /\ Weights(f, V) /\ Weights(f, W)
  <2>1. IsFiniteSet(V)
    <3>. HIDE DEF V, W
    <3>. QED BY <1>1, <1>2, FS_Subset
  <2>. QED BY <1>1, <1>2, <2>1 DEF Weights
<1>4. OneToOne(m, V)
  <2>1. ASSUME NEW x \in V, NEW y \in V, RuneUtxo(x) = RuneUtxo(y) PROVE x = y
    <3>1. x \in W /\ y \in W /\ x.ref = y.ref
      BY <2>1 DEF RuneUtxo, RuneRows
    <3>. QED BY <3>1, RowsOfFacts
  <2>. QED BY <2>1 DEF OneToOne
<1>5. Image(m, V) = RuneUtxosOf(script, id)
  BY DEF Image, RuneUtxosOf
<1>6. \A w \in V : at[m[w]] = f[w]
  BY <1>1, <1>2
<1>7. AddRunes(script)[id] = SumFunctionOnSet(f, W)
  BY AddRunesFacts
<1>. HIDE DEF W, V, f, m
<1>8. SumFunctionOnSet(f, W) = SumFunctionOnSet(f, V)
  BY <1>1, <1>2, <1>3, SumPart
<1>9. SumFunctionOnSet(at, Image(m, V)) = SumFunctionOnSet(f, V)
  BY <1>3, <1>4, <1>6, SumImage
<1>. QED BY <1>5, <1>7, <1>8, <1>9

\* The fields of a response.
LEMMA AnswerFacts ==
  ASSUME NEW data
  PROVE  /\ Answer(data).status = 200 /\ Answer(data).data = data
         /\ NotFound.status = 404 /\ BadRequest.status = 400
BY DEF Answer, NotFound, BadRequest

\* What the routes about one rune answer.
LEMMA SpecificAnswers ==
  ASSUME RunesInv, NEW script \in Payable, NEW name \in DOMAIN idByName, NEW id, id = idByName[name]
  PROVE  /\ id \in Id /\ id \in DOMAIN infos
         /\ SpecificRuneUtxos(script, ByName(name)).data = RuneUtxosOf(script, id)
         /\ SpecificRuneBalance(script, ById(id)) = Answer(AddRunes(script)[id])
         /\ AllRuneUtxos(script).data = {RuneUtxo(w) : w \in RowsOf(script)}
<1>1. id \in DOMAIN infos /\ id \in Id
  BY DEF RunesInv, NamesOK, TablesOK, InfosOK
<1>2. Fetchable(script)
  BY RowsOfFacts
<1>3. SpecificRuneUtxos(script, ByName(name)) = Answer(RuneUtxosOf(script, id))
  <2>. DEFINE Rows(i) == {v \in RowsOf(script) : utxos[v.ref].runes[i] > 0}
              a == [i \in Id |-> IF ~Fetchable(script) THEN Internal
                                 ELSE Answer({RuneUtxo(w) : w \in Rows(i)})]
  <2>1. SpecificRuneUtxos(script, ByName(name)) = WithRune(ByName(name), a)
    BY DEF SpecificRuneUtxos
  <2>2. a[id] = Answer(RuneUtxosOf(script, id))
    BY <1>1, <1>2 DEF RuneUtxosOf, RuneRows
  <2>. HIDE DEF a
  <2>. QED BY <2>1, <2>2, RuneAskedFor
<1>4. SpecificRuneBalance(script, ById(id)) = Answer(AddRunes(script)[id])
  <2>. DEFINE a == [i \in Id |-> IF Fetchable(script) THEN Answer(AddRunes(script)[i]) ELSE Internal]
  <2>1. SpecificRuneBalance(script, ById(id)) = WithRune(ById(id), a)
    BY DEF SpecificRuneBalance
  <2>2. a[id] = Answer(AddRunes(script)[id])
    BY <1>1, <1>2
  <2>. HIDE DEF a
  <2>. QED BY <2>1, <2>2, RuneAskedFor
<1>5. AllRuneUtxos(script) = Answer({RuneUtxo(w) : w \in RowsOf(script)})
  BY <1>2 DEF AllRuneUtxos
<1>. QED BY <1>1, <1>3, <1>4, <1>5, AnswerFacts

\* What an output is said to hold, by identifier and by name.
LEMMA AtUtxoAnswers ==
  ASSUME NEW id \in Id, NEW ref \in DOMAIN utxos
  PROVE  /\ RuneBalanceAtUtxo(ById(id), ref).data = utxos[ref].runes[id]
         /\ \A name \in DOMAIN idByName :
              idByName[name] = id => RuneBalanceAtUtxo(ByName(name), ref).data = utxos[ref].runes[id]
<1>. DEFINE a == [i \in Id |-> IF ref \in DOMAIN utxos THEN Answer(utxos[ref].runes[i]) ELSE NotFound]
<1>1. a[id] = Answer(utxos[ref].runes[id])
  OBVIOUS
<1>2. \A rune : RuneBalanceAtUtxo(rune, ref) = WithRune(rune, a)
  BY DEF RuneBalanceAtUtxo
<1>. HIDE DEF a
<1>3. a[id].data = utxos[ref].runes[id]
  BY <1>1, AnswerFacts
<1>. QED BY <1>2, <1>3, RuneAskedFor

\* One address and one rune.
AgreesOn(script, name) ==
  LET rune  == ById(idByName[name])
      utxo  == SpecificRuneUtxos(script, ByName(name)).data
      at(u) == RuneBalanceAtUtxo(rune, u.ref).data
      held  == AllRuneBalances(script).data[rune.of]
  IN  /\ held = SumFunction([u \in utxo |-> at(u)])
      /\ SpecificRuneBalance(script, rune) = Answer(held)
      /\ \A u \in utxo :
           /\ u \in AllRuneUtxos(script).data
           /\ index_activity =>
                [id |-> rune.of, amount |-> at(u), output |-> u.ref[3]] \in
                  RunesByTx(script, <<u.ref[1], u.ref[2]>>).data

\* The routes about one script and one rune agree.
LEMMA AddressAgrees ==
  ASSUME RunesInv, NEW script \in Payable, NEW name \in DOMAIN idByName
  PROVE  AgreesOn(script, name)
<1>. DEFINE id == idByName[name]
            rune == ById(id)
            utxo == SpecificRuneUtxos(script, ByName(name)).data
            U == RuneUtxosOf(script, id)
            at == [u \in utxo |-> RuneBalanceAtUtxo(rune, u.ref).data]
            held == AllRuneBalances(script).data[rune.of]
<1>1. /\ id \in Id /\ utxo = U
      /\ SpecificRuneBalance(script, rune) = Answer(AddRunes(script)[id])
      /\ AllRuneUtxos(script).data = {RuneUtxo(w) : w \in RowsOf(script)}
  BY SpecificAnswers
<1>2. rune.of = id
  BY DEF ById
<1>3. held = AddRunes(script)[id]
  BY <1>2, BalancesAnswered, AnswerFacts
<1>4. ASSUME NEW w \in RuneRows(script, id)
      PROVE  /\ RuneUtxo(w) \in U /\ RuneUtxo(w).ref = w.ref /\ w.ref \in DOMAIN utxos
             /\ w \in RowsOf(script) /\ utxos[w.ref].script = script /\ utxos[w.ref].runes[id] > 0
             /\ RuneBalanceAtUtxo(rune, w.ref).data = utxos[w.ref].runes[id]
  <2>1. RuneUtxo(w) \in U /\ RuneUtxo(w).ref = w.ref /\ w \in RowsOf(script) /\ utxos[w.ref].runes[id] > 0
    BY DEF RuneUtxosOf, RuneUtxo, RuneRows
  <2>2. w.ref \in DOMAIN utxos /\ utxos[w.ref].script = script
    BY <2>1, RowsOfFacts
  <2>3. RuneBalanceAtUtxo(rune, w.ref).data = utxos[w.ref].runes[id]
    <3>. HIDE DEF id
    <3>. QED BY <1>1, <2>2, AtUtxoAnswers
  <2>. QED BY <2>1, <2>2, <2>3
<1>5. held = SumFunction(at)
  <2>1. \A w \in RuneRows(script, id) : at[RuneUtxo(w)] = utxos[w.ref].runes[id]
    BY <1>1, <1>4
  <2>2. DOMAIN at = U
    BY <1>1
  <2>. HIDE DEF at, id, held, utxo, U
  <2>3. AddRunes(script)[id] = SumFunctionOnSet(at, RuneUtxosOf(script, id))
    BY <1>1, <2>1, BalanceIsSum
  <2>. QED BY <1>3, <2>2, <2>3 DEF SumFunction, U
<1>6. ASSUME NEW u \in utxo
      PROVE  /\ u \in AllRuneUtxos(script).data
             /\ index_activity =>
                  [id |-> rune.of, amount |-> RuneBalanceAtUtxo(rune, u.ref).data, output |-> u.ref[3]] \in
                    RunesByTx(script, <<u.ref[1], u.ref[2]>>).data
  <2>1. PICK w \in RuneRows(script, id) : u = RuneUtxo(w)
    BY <1>1 DEF RuneUtxosOf
  <2>. DEFINE r == w.ref
              c == ReceiptOf(r, utxos, id)
              tx == <<r[1], r[2]>>
  <2>2. u.ref = r /\ u \in AllRuneUtxos(script).data
    BY <1>1, <1>4, <2>1
  <2>3. index_activity => c \in activity
    BY <1>1, <1>4 DEF RunesInv, ActivityInv, Recorded
  <2>4. c.tx = tx /\ c.script = script /\ c.id = id /\ c.received = utxos[r].runes[id] /\ c.output = r[3]
    BY <1>4 DEF ReceiptOf
  <2>5. RuneEdict(c) = [id |-> rune.of, amount |-> RuneBalanceAtUtxo(rune, r).data, output |-> r[3]]
    BY <1>2, <1>4, <2>4 DEF RuneEdict
  <2>. DEFINE answer == {RuneEdict(x) : x \in {d \in activity : d.tx = tx /\ d.script = script}}
  <2>6. index_activity => RuneEdict(c) \in answer
    <3>. HIDE DEF c
    <3>. QED BY <2>3, <2>4
  <2>7. RunesByTx(script, tx).data = answer
    BY AnswerFacts DEF RunesByTx
  <2>. HIDE DEF r, c, answer, id, rune
  <2>. QED BY <2>2, <2>5, <2>6, <2>7
<1>. QED BY <1>1, <1>3, <1>5, <1>6, Zenon DEF AgreesOn

\* Every output an address is said to have holds a rune with a name.
LEMMA OutputsAreNamed ==
  ASSUME RunesInv, NEW script \in Payable, NEW u \in AllRuneUtxos(script).data
  PROVE  \E name \in DOMAIN idByName : RuneBalanceAtUtxo(ByName(name), u.ref).data > 0
<1>1. AllRuneUtxos(script).data = {RuneUtxo(w) : w \in RowsOf(script)}
  BY RowsOfFacts, AnswerFacts DEF AllRuneUtxos
<1>2. PICK w \in RowsOf(script) : u = RuneUtxo(w)
  BY <1>1
<1>. DEFINE r == w.ref
<1>3. u.ref = r /\ r \in DOMAIN utxos /\ utxos[r].runes # Zero /\ utxos[r].runes \in [Id -> Nat]
  BY <1>2, RowsOfFacts DEF RuneUtxo, RunesInv, TablesOK, UtxosOK, Balance
<1>. HIDE DEF r
<1>4. PICK id \in Id : utxos[r].runes[id] # 0
  BY <1>3 DEF Zero
<1>5. utxos[r].runes[id] > 0
  BY <1>3, <1>4
<1>. DEFINE name == infos[id].name
<1>6. name \in DOMAIN idByName /\ idByName[name] = id
  BY <1>3, <1>5, HeldIsEtched DEF RunesInv, NamesOK
<1>. HIDE DEF name
<1>7. RuneBalanceAtUtxo(ByName(name), r).data = utxos[r].runes[id]
  BY <1>3, <1>6, AtUtxoAnswers
<1>. QED BY <1>3, <1>5, <1>6, <1>7

\* What is said of a rune on its own.
LEMMA InfoAnswers ==
  ASSUME RunesInv, NEW rune \in Parseable
  PROVE  \/ RuneInfo(rune).status # 200
         \/ \E id \in Id : /\ SpecifiedRune(rune) = {id} /\ id \in DOMAIN infos
                           /\ RuneInfo(rune) = Answer(infos[id])
                           /\ RuneInfo(ById(id)) = Answer(infos[id])
<1>. DEFINE a == [id \in Id |-> IF id \in DOMAIN infos THEN Answer(infos[id]) ELSE NotFound]
<1>1. \A x : RuneInfo(x) = WithRune(x, a)
  BY DEF RuneInfo
<1>2. \A id \in Id : a[id] = IF id \in DOMAIN infos THEN Answer(infos[id]) ELSE NotFound
  OBVIOUS
<1>. HIDE DEF a
<1>3. ASSUME NEW id \in Id PROVE RuneInfo(ById(id)) = a[id] /\ SpecifiedRune(ById(id)) = {id}
  BY <1>1, RuneAskedFor
<1>4. ASSUME NEW id \in Id, rune = ById(id)
      PROVE  \/ RuneInfo(rune) = NotFound
             \/ SpecifiedRune(rune) = {id} /\ id \in DOMAIN infos /\ RuneInfo(rune) = Answer(infos[id])
  BY <1>2, <1>3, <1>4
<1>5. ASSUME NEW name \in Name, rune = ByName(name), name \in DOMAIN idByName
      PROVE  \E id \in Id : /\ SpecifiedRune(rune) = {id} /\ id \in DOMAIN infos
                            /\ RuneInfo(rune) = Answer(infos[id])
                            /\ RuneInfo(ById(id)) = Answer(infos[id])
  <2>. DEFINE id == idByName[name]
  <2>1. id \in DOMAIN infos /\ id \in Id
    BY <1>5 DEF RunesInv, NamesOK, TablesOK, InfosOK
  <2>2. SpecifiedRune(rune) = {id} /\ RuneInfo(rune) = a[id]
    BY <1>1, <1>5, RuneAskedFor
  <2>. HIDE DEF id
  <2>. QED BY <1>2, <1>3, <2>1, <2>2
<1>6. ASSUME NEW name \in Name, rune = ByName(name), name \notin DOMAIN idByName
      PROVE  RuneInfo(rune) = NotFound
  BY <1>1, <1>6, RuneAskedFor
<1>7. ASSUME rune = Malformed PROVE RuneInfo(rune) = BadRequest
  BY <1>1, <1>7, RuneAskedFor
<1>8. NotFound.status # 200 /\ BadRequest.status # 200
  BY AnswerFacts
<1>9. \/ \E id \in Id : rune = ById(id)
      \/ \E name \in Name : rune = ByName(name)
      \/ rune = Malformed
  BY DEF Parseable
<1>. QED BY <1>3, <1>4, <1>5, <1>6, <1>7, <1>8, <1>9

\* A batch finds what the single requests find.
LEMMA BatchAgrees ==
  ASSUME RunesInv
  PROVE  LET batch == RuneInfoBatch(Parseable).data
         IN  \A rune \in Parseable :
               IF RuneInfo(rune).status # 200 THEN batch[rune] = None
               ELSE \E id \in SpecifiedRune(rune) : RuneInfo(rune).data = batch[ById(id)]
<1>. DEFINE found == {rune \in Parseable : RuneInfo(rune).status = 200}
            ids == UNION {SpecifiedRune(rune) : rune \in found}
            keys == {ById(id) : id \in ids} \cup (Parseable \ found)
            batch == RuneInfoBatch(Parseable).data
<1>1. batch = [key \in keys |-> IF key \in Parseable \ found THEN None ELSE infos[key.of]]
  <2>1. NotNumeric \notin Parseable
    <3>1. \A rune \in Parseable : rune.by \in {"Id", "Name", "Malformed"}
      BY DEF Parseable, ById, ByName, Malformed
    <3>2. NotNumeric.by = "NotNumeric"
      BY DEF NotNumeric
    <3>. QED BY <3>1, <3>2
  <2>. DEFINE b == [key \in keys |-> IF key \in Parseable \ found THEN None ELSE infos[key.of]]
  <2>2. RuneInfoBatch(Parseable) = Answer(b)
    BY <2>1 DEF RuneInfoBatch
  <2>. HIDE DEF b
  <2>3. batch = b
    BY <2>2, AnswerFacts
  <2>. QED BY <2>3 DEF b
<1>2. ASSUME NEW rune \in Parseable, RuneInfo(rune).status # 200 PROVE batch[rune] = None
  <2>1. rune \in Parseable \ found
    BY <1>2
  <2>. HIDE DEF found, ids, batch
  <2>. QED BY <1>1, <2>1
<1>3. ASSUME NEW rune \in Parseable, ~(RuneInfo(rune).status # 200)
      PROVE  \E id \in SpecifiedRune(rune) : RuneInfo(rune).data = batch[ById(id)]
  <2>1. PICK id \in Id : /\ SpecifiedRune(rune) = {id} /\ id \in DOMAIN infos
                         /\ RuneInfo(rune) = Answer(infos[id])
                         /\ RuneInfo(ById(id)) = Answer(infos[id])
    BY <1>3, InfoAnswers
  <2>2. rune \in found /\ ById(id) \in found
    BY <2>1, AnswerFacts DEF Parseable
  <2>3. ById(id) \in keys /\ ById(id) \notin Parseable \ found
    BY <2>1, <2>2
  <2>4. ById(id).of = id
    BY DEF ById
  <2>. HIDE DEF found, ids, keys, batch
  <2>5. batch[ById(id)] = infos[id]
    BY <1>1, <2>3, <2>4
  <2>6. RuneInfo(rune).data = infos[id]
    BY <2>1, AnswerFacts
  <2>. QED BY <2>1, <2>5, <2>6
<1>. HIDE DEF found, ids, keys
<1>. QED BY <1>2, <1>3, Zenon

\* At every version of the tables the routes tell one story (serve/routes).
THEOREM RoutesTellOneStory == Spec => []RoutesAgree
<1>1. ASSUME RunesInv PROVE RoutesAgree
  <2>1. \A script \in Payable : AllRuneBalances(script).status = 200
    BY <1>1, BalancesAnswered
  <2>2. \A script \in Payable, name \in DOMAIN idByName : AgreesOn(script, name)
    BY <1>1, AddressAgrees
  <2>3. \A u \in UNION {AllRuneUtxos(script).data : script \in Payable} :
          \E name \in DOMAIN idByName : RuneBalanceAtUtxo(ByName(name), u.ref).data > 0
    BY <1>1, OutputsAreNamed
  <2>4. LET batch == RuneInfoBatch(Parseable).data
        IN  \A rune \in Parseable :
              IF RuneInfo(rune).status # 200 THEN batch[rune] = None
              ELSE \E id \in SpecifiedRune(rune) : RuneInfo(rune).data = batch[ById(id)]
    BY <1>1, BatchAgrees
  <2>. QED BY <2>1, <2>2, <2>3, <2>4, Zenon DEF RoutesAgree, AgreesOn
<1>. QED BY <1>1, RunesInvariance, PTL
=============================================================================
