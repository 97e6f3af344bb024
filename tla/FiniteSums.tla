------------------------------- MODULE FiniteSums -------------------------------
(* Lemmas about finite sets: sums of numbers over one, as SumFunction takes    *)
(* them, and how many elements a few sets have.                               *)
EXTENDS Integers, FiniteSets, FiniteSetsExt, FiniteSetTheorems, TLAPS

(***************************************************************************)
(* Sums.                                                                   *)
(***************************************************************************)

(* A family of subsets of a finite set has a smallest member. *)
LEMMA SmallestSubset ==
  ASSUME NEW S, IsFiniteSet(S), NEW D \in SUBSET SUBSET S, D # {}
  PROVE  \E s \in D : \A t \in D : t \subseteq s => t = s
<1>1. D \subseteq FiniteSubsetsOf(S)
  BY FS_FiniteSubsetsOfFinite
<1>2. PICK s \in D : \A t \in D : ~(<<t, s>> \in StrictSubsetOrdering(S))
  BY <1>1, FS_StrictSubsetOrderingWellFounded, WFMin
<1> QED
  BY <1>2 DEF StrictSubsetOrdering

(* A set of numbers that is not empty has a least one. *)
LEMMA LeastElement ==
  ASSUME NEW T \in SUBSET Nat, T # {}
  PROVE  \E n \in T : \A m \in T : n <= m
<1>1. PICK m \in T : TRUE
  OBVIOUS
<1> DEFINE D == {T \cap (0..k) : k \in T \cap (0..m)}
<1>2. IsFiniteSet(0..m) /\ D \in SUBSET SUBSET (0..m) /\ D # {}
  <2>1. 0 \in Int /\ m \in Int /\ m \in 0..m
    OBVIOUS
  <2>2. T \cap (0..m) \in D
    BY <2>1
  <2>3. ASSUME NEW d \in D, NEW x \in d PROVE x \in 0..m
    <3>1. PICK k \in T \cap (0..m) : d = T \cap (0..k)
      OBVIOUS
    <3> QED
      BY <2>1, <2>3, <3>1
  <2>5. D \in SUBSET SUBSET (0..m) /\ D # {}
    <3> HIDE DEF D
    <3> QED
      BY <2>2, <2>3
  <2> HIDE DEF D
  <2>4. IsFiniteSet(0..m)
    BY <2>1, FS_Interval
  <2> QED
    BY <2>4, <2>5
<1>3. PICK s \in D : \A t \in D : t \subseteq s => t = s
  <2> DEFINE S == 0..m
  <2>1. IsFiniteSet(S) /\ D \in SUBSET SUBSET S /\ D # {}
    BY <1>2
  <2> HIDE DEF D, S
  <2> QED
    BY <2>1, SmallestSubset
<1>4. PICK n \in T \cap (0..m) : s = T \cap (0..n)
  BY <1>3
<1>5. ASSUME NEW k \in T, k < n PROVE FALSE
  <2>1. T \cap (0..k) \in D /\ T \cap (0..k) \subseteq s /\ n \in s /\ n \notin 0..k
    BY <1>4, <1>5
  <2> QED
    BY <1>3, <2>1
<1> QED
  BY <1>4, <1>5

(* The element FoldFunction takes next. *)
Pick(s) == CHOOSE x \in s : TRUE

(* F sums f over the subsets of S in the order Pick gives. *)
SumsUp(F, f, S) ==
    F = [s \in SUBSET S |-> IF s = {} THEN 0 ELSE f[Pick(s)] + F[s \ {Pick(s)}]]

(* It does in any order. *)
SumsAnyOrder(F, f, S) == \A s \in SUBSET S : \A x \in s : F[s] = f[x] + F[s \ {x}]

(* F does so for the subsets of n elements and less. *)
SumsUpto(F, f, S, n) ==
    \A s \in SUBSET S : Cardinality(s) <= n =>
        F[s] = IF s = {} THEN 0 ELSE f[Pick(s)] + F[s \ {Pick(s)}]

LEMMA SumStep ==
  ASSUME NEW S, IsFiniteSet(S), NEW f \in [S -> Int], NEW n \in Nat,
         NEW F \in [SUBSET S -> Int], SumsUpto(F, f, S, n)
  PROVE  \E G \in [SUBSET S -> Int] : SumsUpto(G, f, S, n + 1)
<1> DEFINE G == [s \in SUBSET S |-> IF s = {} THEN 0 ELSE f[Pick(s)] + F[s \ {Pick(s)}]]
<1>0. \A s \in SUBSET S : s # {} => Pick(s) \in s
  BY DEF Pick
<1>1. G \in [SUBSET S -> Int]
  BY <1>0
<1>2. ASSUME NEW s \in SUBSET S, Cardinality(s) <= n + 1, s # {}
      PROVE  G[s] = f[Pick(s)] + G[s \ {Pick(s)}]
  <2> DEFINE t == s \ {Pick(s)}
  <2>1. /\ t \in SUBSET S /\ IsFiniteSet(s) /\ Cardinality(s) \in Nat
        /\ Cardinality(t) = Cardinality(s) - 1
    BY <1>0, <1>2, FS_Subset, FS_CardinalityType, FS_RemoveElement
  <2> HIDE DEF t
  <2>2. F[t] = IF t = {} THEN 0 ELSE f[Pick(t)] + F[t \ {Pick(t)}]
    BY <1>2, <2>1 DEF SumsUpto
  <2>3. F[t] = G[t]
    BY <2>1, <2>2
  <2> USE DEF t
  <2> QED
    BY <1>2, <2>3
<1>3. SumsUpto(G, f, S, n + 1)
  BY <1>2 DEF SumsUpto
<1> QED
  BY <1>1, <1>3

LEMMA SumExists ==
  ASSUME NEW S, IsFiniteSet(S), NEW f \in [S -> Int]
  PROVE  \E F \in [SUBSET S -> Int] : SumsUp(F, f, S)
<1> DEFINE Bad == {n \in Nat : ~\E F \in [SUBSET S -> Int] : SumsUpto(F, f, S, n)}
<1>1. \A s \in SUBSET S : /\ Cardinality(s) \in Nat /\ Cardinality(s) <= Cardinality(S)
                          /\ Cardinality(s) = 0 => s = {}
  BY FS_Subset, FS_CardinalityType, FS_EmptySet
<1>2. 0 \notin Bad
  <2> DEFINE Z == [s \in SUBSET S |-> 0]
  <2>1. Z \in [SUBSET S -> Int] /\ SumsUpto(Z, f, S, 0)
    BY <1>1 DEF SumsUpto
  <2> QED
    BY <2>1
<1>3. ASSUME NEW n \in Nat, n \notin Bad PROVE n + 1 \notin Bad
  BY <1>3, SumStep
<1>4. Bad = {}
  <2> SUFFICES ASSUME Bad # {} PROVE FALSE
    OBVIOUS
  <2>0. Bad \in SUBSET Nat
    OBVIOUS
  <2> HIDE DEF Bad
  <2>1. PICK n \in Bad : \A m \in Bad : n <= m
    BY <2>0, LeastElement
  <2>2. n \in Nat /\ n # 0 /\ n - 1 \in Nat
    BY <1>2, <2>0, <2>1
  <2>3. n - 1 \notin Bad
    BY <2>1, <2>2
  <2>4. n - 1 + 1 \notin Bad
    BY <1>3, <2>2, <2>3
  <2> QED
    BY <2>1, <2>2, <2>4
<1>5. PICK F \in [SUBSET S -> Int] : SumsUpto(F, f, S, Cardinality(S))
  <2>1. Cardinality(S) \in Nat
    BY FS_CardinalityType
  <2> QED
    BY <1>4, <2>1
<1>6. \A s \in SUBSET S : F[s] = IF s = {} THEN 0 ELSE f[Pick(s)] + F[s \ {Pick(s)}]
  BY <1>1, <1>5 DEF SumsUpto
<1> QED
  BY <1>6 DEF SumsUp

(* The sum does not depend on the order. *)
LEMMA SumAnyOrder ==
  ASSUME NEW S, IsFiniteSet(S), NEW f \in [S -> Int],
         NEW F \in [SUBSET S -> Int], SumsUp(F, f, S)
  PROVE  SumsAnyOrder(F, f, S)
<1>0. /\ \A s \in SUBSET S : s # {} => Pick(s) \in s
      /\ \A s \in SUBSET S : s # {} => F[s] = f[Pick(s)] + F[s \ {Pick(s)}]
  BY DEF Pick, SumsUp
<1> DEFINE Bad == {s \in SUBSET S : \E x \in s : F[s] # f[x] + F[s \ {x}]}
<1>1. Bad \in SUBSET SUBSET S
  OBVIOUS
<1>2. SUFFICES ASSUME Bad # {} PROVE FALSE
  BY DEF SumsAnyOrder
<1>3. PICK s \in Bad : \A t \in Bad : t \subseteq s => t = s
  <2> HIDE DEF Bad
  <2> QED
    BY <1>1, <1>2, SmallestSubset
<1>4. PICK x \in s : F[s] # f[x] + F[s \ {x}]
  BY <1>3
<1> DEFINE y == Pick(s)
<1>5. s \in SUBSET S /\ y \in s /\ F[s] = f[y] + F[s \ {y}] /\ x # y
  BY <1>0, <1>3, <1>4
<1>6. s \ {x} \notin Bad /\ s \ {y} \notin Bad
  BY <1>3, <1>5
<1>7. F[s \ {x}] = f[y] + F[(s \ {x}) \ {y}]
  BY <1>5, <1>6
<1>8. F[s \ {y}] = f[x] + F[(s \ {y}) \ {x}]
  BY <1>5, <1>6
<1>9. (s \ {x}) \ {y} = (s \ {y}) \ {x}
  OBVIOUS
<1>10. F[(s \ {y}) \ {x}] \in Int /\ f[x] \in Int /\ f[y] \in Int
  BY <1>5
<1> DEFINE u == F[(s \ {y}) \ {x}]
<1>11. F[s \ {x}] = f[y] + u /\ F[s] = f[y] + (f[x] + u)
  BY <1>5, <1>7, <1>8, <1>9
<1> HIDE DEF y, u
<1> QED
  BY <1>4, <1>10, <1>11 DEF u

(* It depends on the numbers only. *)
LEMMA SumSame ==
  ASSUME NEW S, IsFiniteSet(S), NEW f \in [S -> Int], NEW g \in [S -> Int],
         NEW F, SumsUp(F, f, S), NEW G, SumsUp(G, g, S),
         NEW T \in SUBSET S, \A x \in T : f[x] = g[x]
  PROVE  F[T] = G[T]
<1> DEFINE Bad == {s \in SUBSET T : F[s] # G[s]}
<1>1. Bad \in SUBSET SUBSET S
  OBVIOUS
<1>2. SUFFICES ASSUME Bad # {} PROVE FALSE
  OBVIOUS
<1>3. PICK s \in Bad : \A t \in Bad : t \subseteq s => t = s
  <2> HIDE DEF Bad
  <2> QED
    BY <1>1, <1>2, SmallestSubset
<1>4. s \in SUBSET S /\ s \in SUBSET T
  BY <1>3
<1>5. CASE s = {}
  BY <1>3, <1>5 DEF SumsUp
<1>6. CASE s # {}
  <2> DEFINE y == Pick(s)
  <2>1. y \in s
    BY <1>6 DEF Pick
  <2>2. F[s] = f[y] + F[s \ {y}] /\ G[s] = g[y] + G[s \ {y}]
    BY <1>4, <1>6 DEF SumsUp
  <2>3. F[s \ {y}] = G[s \ {y}]
    BY <1>3, <2>1
  <2>4. f[y] = g[y]
    BY <1>4, <2>1
  <2> QED
    BY <1>3, <2>2, <2>3, <2>4
<1> QED
  BY <1>5, <1>6

LEMMA SumIs ==
  ASSUME NEW S, IsFiniteSet(S), NEW f \in [S -> Int]
  PROVE  \E F \in [SUBSET S -> Int] :
           SumsUp(F, f, S) /\ SumFunction(f) = F[S] /\ SumsAnyOrder(F, f, S)
<1> DEFINE F == CHOOSE g : SumsUp(g, f, S)
<1>1. SumsUp(F, f, S)
  BY SumExists
<1>2. PICK G \in [SUBSET S -> Int] : SumsUp(G, f, S)
  BY SumExists
<1>3. DOMAIN f = S
  OBVIOUS
<1>4. SumFunction(f) = F[S]
  BY <1>3 DEF SumFunction, SumFunctionOnSet, FoldFunctionOnSet, MapThenFoldSet, SumsUp, Pick
<1>5. F[S] = G[S]
  <2> HIDE DEF F
  <2> QED
    BY <1>1, <1>2, SumSame
<1>6. SumsAnyOrder(G, f, S)
  BY <1>2, SumAnyOrder
<1> QED
  BY <1>2, <1>4, <1>5, <1>6

LEMMA SumChange ==
  ASSUME NEW S, IsFiniteSet(S), NEW f \in [S -> Int], NEW g \in [S -> Int],
         NEW x \in S, \A y \in S \ {x} : f[y] = g[y]
  PROVE  /\ SumFunction(f) \in Int
         /\ SumFunction(g) = SumFunction(f) + g[x] - f[x]
<1>1. PICK F \in [SUBSET S -> Int] :
        SumsUp(F, f, S) /\ SumFunction(f) = F[S] /\ SumsAnyOrder(F, f, S)
  BY SumIs
<1>2. PICK G \in [SUBSET S -> Int] :
        SumsUp(G, g, S) /\ SumFunction(g) = G[S] /\ SumsAnyOrder(G, g, S)
  BY SumIs
<1>3. F[S] = f[x] + F[S \ {x}] /\ G[S] = g[x] + G[S \ {x}]
  <2>1. F[S] = f[x] + F[S \ {x}]
    BY <1>1 DEF SumsAnyOrder
  <2>2. G[S] = g[x] + G[S \ {x}]
    BY <1>2 DEF SumsAnyOrder
  <2> QED
    BY <2>1, <2>2
<1>4. F[S \ {x}] = G[S \ {x}]
  BY <1>1, <1>2, SumSame
<1>5. F[S] \in Int /\ F[S \ {x}] \in Int /\ f[x] \in Int /\ g[x] \in Int
  OBVIOUS
<1> DEFINE u == F[S \ {x}]
<1>6. SumFunction(f) = f[x] + u /\ SumFunction(g) = g[x] + u /\ u \in Int /\ SumFunction(f) \in Int
  BY <1>1, <1>2, <1>3, <1>4, <1>5
<1> HIDE DEF u
<1> QED
  BY <1>5, <1>6

LEMMA SumZero ==
  ASSUME NEW S, IsFiniteSet(S), NEW f \in [S -> Int], \A x \in S : f[x] = 0
  PROVE  SumFunction(f) = 0
<1>1. PICK F \in [SUBSET S -> Int] :
        SumsUp(F, f, S) /\ SumFunction(f) = F[S] /\ SumsAnyOrder(F, f, S)
  BY SumIs
<1> DEFINE Z == [s \in SUBSET S |-> 0]
<1>2. SumsUp(Z, f, S)
  BY DEF SumsUp, Pick
<1>3. F[S] = Z[S]
  <2> HIDE DEF Z
  <2> QED
    BY <1>1, <1>2, SumSame
<1> QED
  BY <1>1, <1>3

LEMMA SumNat ==
  ASSUME NEW S, IsFiniteSet(S), NEW f \in [S -> Nat]
  PROVE  /\ SumFunction(f) \in Nat
         /\ \A x \in S : f[x] <= SumFunction(f)
<1>0. f \in [S -> Int]
  OBVIOUS
<1>1. PICK F \in [SUBSET S -> Int] :
        SumsUp(F, f, S) /\ SumFunction(f) = F[S] /\ SumsAnyOrder(F, f, S)
  BY <1>0, SumIs
<1> DEFINE Bad == {s \in SUBSET S : F[s] \notin Nat}
<1>2. Bad = {}
  <2> SUFFICES ASSUME Bad # {} PROVE FALSE
    OBVIOUS
  <2>0. Bad \in SUBSET SUBSET S
    OBVIOUS
  <2>1. PICK s \in Bad : \A t \in Bad : t \subseteq s => t = s
    <3> HIDE DEF Bad
    <3> QED
      BY <2>0, SmallestSubset
  <2>2. CASE s = {}
    BY <1>1, <2>1, <2>2 DEF SumsUp
  <2>3. CASE s # {}
    <3>1. Pick(s) \in s
      BY <2>3 DEF Pick
    <3>2. F[s] = f[Pick(s)] + F[s \ {Pick(s)}]
      BY <1>1, <2>1, <2>3 DEF SumsUp
    <3>3. F[s \ {Pick(s)}] \in Nat
      BY <2>1, <3>1
    <3>4. f[Pick(s)] \in Nat
      BY <2>1, <3>1
    <3> QED
      BY <2>1, <3>2, <3>3, <3>4
  <2> QED
    BY <2>2, <2>3
<1>3. ASSUME NEW x \in S PROVE f[x] <= F[S]
  <2>1. F[S] = f[x] + F[S \ {x}]
    BY <1>1 DEF SumsAnyOrder
  <2>2. F[S \ {x}] \in Nat /\ f[x] \in Nat
    BY <1>2
  <2> QED
    BY <2>1, <2>2
<1> QED
  BY <1>1, <1>2, <1>3

LEMMA SumInt ==
  ASSUME NEW S, IsFiniteSet(S), NEW f \in [S -> Int]
  PROVE  SumFunction(f) \in Int
<1>1. PICK F \in [SUBSET S -> Int] :
        SumsUp(F, f, S) /\ SumFunction(f) = F[S] /\ SumsAnyOrder(F, f, S)
  BY SumIs
<1> QED
  BY <1>1

(* Smaller numbers have a smaller sum. *)
LEMMA SumAtMost ==
  ASSUME NEW S, IsFiniteSet(S), NEW f \in [S -> Int], NEW g \in [S -> Int],
         \A x \in S : f[x] <= g[x]
  PROVE  SumFunction(f) <= SumFunction(g)
<1>1. PICK F \in [SUBSET S -> Int] :
        SumsUp(F, f, S) /\ SumFunction(f) = F[S] /\ SumsAnyOrder(F, f, S)
  BY SumIs
<1>2. PICK G \in [SUBSET S -> Int] :
        SumsUp(G, g, S) /\ SumFunction(g) = G[S] /\ SumsAnyOrder(G, g, S)
  BY SumIs
<1> DEFINE Bad == {s \in SUBSET S : ~(F[s] <= G[s])}
<1>3. Bad = {}
  <2> SUFFICES ASSUME Bad # {} PROVE FALSE
    OBVIOUS
  <2>0. Bad \in SUBSET SUBSET S
    OBVIOUS
  <2>1. PICK s \in Bad : \A t \in Bad : t \subseteq s => t = s
    <3> HIDE DEF Bad
    <3> QED
      BY <2>0, SmallestSubset
  <2>2. CASE s = {}
    BY <1>1, <1>2, <2>1, <2>2 DEF SumsUp
  <2>3. CASE s # {}
    <3> DEFINE y == Pick(s)
    <3>1. y \in s /\ s \in SUBSET S /\ ~(F[s] <= G[s])
      BY <2>1, <2>3 DEF Pick
    <3> HIDE DEF y
    <3>2. F[s] = f[y] + F[s \ {y}] /\ G[s] = g[y] + G[s \ {y}]
      BY <1>1, <1>2, <3>1 DEF SumsAnyOrder
    <3>3. F[s \ {y}] <= G[s \ {y}]
      BY <2>1, <3>1
    <3>4. /\ f[y] <= g[y] /\ f[y] \in Int /\ g[y] \in Int
          /\ F[s \ {y}] \in Int /\ G[s \ {y}] \in Int
      BY <3>1
    <3> QED
      BY <3>1, <3>2, <3>3, <3>4
  <2> QED
    BY <2>2, <2>3
<1> QED
  BY <1>1, <1>2, <1>3

LEMMA SumSingle ==
  ASSUME NEW S, IsFiniteSet(S), NEW f \in [S -> Int], NEW a \in S,
         \A x \in S \ {a} : f[x] = 0
  PROVE  SumFunction(f) = f[a]
<1> DEFINE g == [x \in S |-> 0]
<1>1. g \in [S -> Int] /\ g[a] = 0 /\ \A y \in S \ {a} : g[y] = f[y]
  OBVIOUS
<1>2. SumFunction(g) = 0
  BY SumZero
<1> HIDE DEF g
<1>3. SumFunction(f) = SumFunction(g) + f[a] - g[a]
  BY <1>1, SumChange
<1> QED
  BY <1>1, <1>2, <1>3

LEMMA SumPair ==
  ASSUME NEW a, NEW b, a # b, NEW f \in [{a, b} -> Int]
  PROVE  SumFunction(f) = f[a] + f[b]
<1> DEFINE S == {a, b}
           g == [x \in S |-> IF x = a THEN f[a] ELSE 0]
<1>1. {a, b} = {a} \cup {b}
  OBVIOUS
<1>2. IsFiniteSet({a} \cup {b})
  BY FS_Singleton, FS_AddElement
<1>3. IsFiniteSet(S)
  BY <1>1, <1>2
<1>4. /\ a \in S /\ b \in S /\ f \in [S -> Int] /\ g \in [S -> Int]
      /\ g[a] = f[a] /\ g[b] = 0 /\ (\A y \in S \ {b} : g[y] = f[y])
      /\ \A y \in S \ {a} : g[y] = 0
  OBVIOUS
<1> HIDE DEF S, g
<1>5. SumFunction(g) = f[a]
  BY <1>3, <1>4, SumSingle
<1>6. SumFunction(f) = SumFunction(g) + f[b] - g[b]
  BY <1>3, <1>4, SumChange
<1>7. f[a] \in Int /\ f[b] \in Int
  BY <1>4
<1> QED
  BY <1>4, <1>5, <1>6, <1>7

(***************************************************************************)
(* Counting.                                                               *)
(***************************************************************************)

(* The values of a function on a finite set are no more than its arguments. *)
LEMMA FewValues ==
  ASSUME NEW S, IsFiniteSet(S), NEW f, DOMAIN f = S
  PROVE  /\ IsFiniteSet({f[x] : x \in S}) /\ Cardinality({f[x] : x \in S}) \in Nat
         /\ Cardinality({f[x] : x \in S}) <= Cardinality(S)
<1> DEFINE T == {f[x] : x \in S}
           g == [x \in S |-> f[x]]
<1>1. g \in [S -> T] /\ \A t \in T : \E x \in S : g[x] = t
  OBVIOUS
<1>2. g \in Surjection(S, T)
  <2> HIDE DEF T, g
  <2> QED
    BY <1>1 DEF Surjection
<1>3. IsFiniteSet(T) /\ Cardinality(T) <= Cardinality(S)
  <2> HIDE DEF T, g
  <2> QED
    BY <1>2, FS_Surjection
<1>4. Cardinality(T) \in Nat
  <2> HIDE DEF T, g
  <2> QED
    BY <1>3, FS_CardinalityType
<1> QED
  BY <1>3, <1>4

LEMMA FewFound ==
  ASSUME NEW S, IsFiniteSet(S), NEW T, NEW found \in SUBSET (S \X T),
         \A f, g \in found : f[1] = g[1] => f = g
  PROVE  /\ IsFiniteSet(found) /\ Cardinality(found) \in Nat
         /\ Cardinality(found) <= Cardinality(S)
<1> DEFINE h == [f \in found |-> f[1]]
<1>1. h \in [found -> S] /\ \A f, g \in found : h[f] = h[g] => f = g
  OBVIOUS
<1>2. h \in Injection(found, S)
  <2> HIDE DEF h
  <2> QED
    BY <1>1 DEF Injection, IsInjective
<1>3. IsFiniteSet(found) /\ Cardinality(found) <= Cardinality(S)
  <2> HIDE DEF h
  <2> QED
    BY <1>2, FS_Injection
<1> QED
  BY <1>3, FS_CardinalityType

LEMMA UnionCount ==
  ASSUME NEW S, IsFiniteSet(S), NEW T, IsFiniteSet(T)
  PROVE  /\ IsFiniteSet(S \cup T) /\ Cardinality(S \cup T) \in Nat
         /\ Cardinality(S \cup T) <= Cardinality(S) + Cardinality(T)
<1>1. /\ IsFiniteSet(S \cup T)
      /\ Cardinality(S \cup T) = Cardinality(S) + Cardinality(T) - Cardinality(S \cap T)
  BY FS_Union
<1>2. IsFiniteSet(S \cap T)
  BY FS_Intersection
<1>3. Cardinality(S) \in Nat /\ Cardinality(T) \in Nat /\ Cardinality(S \cap T) \in Nat
  BY <1>2, FS_CardinalityType
<1> DEFINE s == Cardinality(S)
           t == Cardinality(T)
           i == Cardinality(S \cap T)
           u == Cardinality(S \cup T)
<1>4. s \in Nat /\ t \in Nat /\ i \in Nat /\ u = s + t - i /\ IsFiniteSet(S \cup T)
  BY <1>1, <1>3
<1>5. u \in Nat
  BY <1>1, FS_CardinalityType
<1> HIDE DEF s, t, i, u
<1>6. u <= s + t
  BY <1>4, <1>5
<1> QED
  BY <1>4, <1>5, <1>6 DEF s, t, u
================================================================================
