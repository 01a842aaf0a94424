---------------------------- MODULE Tools_proofs ----------------------------
(***************************************************************************)
(* Proofs about the tools, side by side, for all values of the constants.  *)
(*                                                                         *)
(* Each component has an inductive invariant of its own (IInv): Sessions,  *)
(* Memory and Policy are dealt with in modules of their own, the others    *)
(* below.  As only the component in focus takes steps, its invariant is    *)
(* kept by every step of the whole, and the properties of the whole follow.*)
(* Two properties need more than a case analysis, for which facts about    *)
(* ranks and sums come first: the best tasks and the quota.                *)
(***************************************************************************)
EXTENDS Tools, Sequences, FunctionTheorems, FiniteSetTheorems, WellFoundedInduction, TLAPS

-----------------------------------------------------------------------------
(* Facts about finite sets: ranks in an order, and sums.                   *)

(* In a finite set that R orders strictly, exactly n elements have fewer    *)
(* than n before them.                                                      *)
LEMMA FirstOnes ==
  ASSUME NEW S, IsFiniteSet(S), NEW R, NEW n \in Nat, n <= Cardinality(S),
         \A i \in S : <<i, i>> \notin R,
         \A i, j, k \in S : <<i, j>> \in R /\ <<j, k>> \in R => <<i, k>> \in R,
         \A i, j \in S : i = j \/ <<i, j>> \in R \/ <<j, i>> \in R
  PROVE  Cardinality({i \in S : Cardinality({j \in S : <<j, i>> \in R}) < n}) = n
<1> DEFINE Before(i) == {j \in S : <<j, i>> \in R}
           N == Cardinality(S)
           rank == [i \in S |-> Cardinality(Before(i))]
           First == {i \in S : rank[i] < n}
           part == [i \in First |-> rank[i]]
<1>1. N \in Nat
  BY FS_CardinalityType
<1>2. ASSUME NEW i \in S PROVE IsFiniteSet(Before(i)) /\ Cardinality(Before(i)) \in Nat
  BY FS_Subset, FS_CardinalityType
<1>3. ASSUME NEW i \in S PROVE rank[i] \in 0 .. N - 1
  <2>1. Before(i) \subseteq S /\ i \notin Before(i)
    OBVIOUS
  <2>2. Cardinality(Before(i)) <= N /\ Cardinality(Before(i)) # N
    BY <2>1, FS_Subset
  <2> QED
    BY <1>1, <1>2, <2>2
<1>4. ASSUME NEW i \in S, NEW j \in S, <<i, j>> \in R PROVE rank[i] < rank[j]
  <2>1. Before(i) \subseteq Before(j) /\ i \in Before(j) /\ i \notin Before(i)
    BY <1>4
  <2>2. Cardinality(Before(i)) <= Cardinality(Before(j)) /\ Cardinality(Before(i)) # Cardinality(Before(j))
    BY <1>2, <2>1, FS_Subset
  <2> QED
    BY <1>2, <2>2
<1>5. rank \in [S -> 0 .. N - 1] /\ \A i, j \in S : rank[i] = rank[j] => i = j
  <2>1. \A i \in S : rank[i] \in 0 .. N - 1
    BY <1>3
  <2>2. \A i, j \in S : <<i, j>> \in R => rank[i] < rank[j]
    BY <1>4
  <2>3. ASSUME NEW i \in S, NEW j \in S, rank[i] = rank[j] PROVE i = j
    <3>1. rank[i] \in Int /\ ~ (rank[i] < rank[j]) /\ ~ (rank[j] < rank[i])
      BY <2>1, <2>3
    <3> QED
      BY <2>2, <3>1
  <2>4. rank \in [S -> 0 .. N - 1]
    BY <2>1
  <2> QED
    BY <2>3, <2>4
<1>6. IsFiniteSet(0 .. N - 1) /\ Cardinality(0 .. N - 1) = N
  <2>1. 0 \in Int /\ N - 1 \in Int
    BY <1>1
  <2>2. IsFiniteSet(0 .. N - 1) /\ Cardinality(0 .. N - 1) = IF 0 > N - 1 THEN 0 ELSE (N - 1) - 0 + 1
    BY ONLY <2>1, FS_Interval
  <2> QED
    BY <1>1, <2>2
<1> HIDE DEF rank
<1>7. rank \in Injection(S, 0 .. N - 1)
  BY <1>5, Fun_IsInj
<1>8. rank \in Surjection(S, 0 .. N - 1)
  BY <1>6, <1>7, FS_Injection
<1>9. \A r \in 0 .. N - 1 : \E i \in S : rank[i] = r
  BY <1>8 DEF Surjection
<1>10. IsFiniteSet(First)
  BY FS_Subset
<1>11. part \in Bijection(First, 0 .. n - 1)
  <2>1. part \in [First -> 0 .. n - 1]
    BY <1>3, <1>5
  <2>2. \A i, j \in First : part[i] = part[j] => i = j
    BY <1>5
  <2>3. \A r \in 0 .. n - 1 : \E i \in First : part[i] = r
    BY <1>1, <1>9
  <2> QED
    BY <2>1, <2>2, <2>3, Fun_IsBij
<1>12. ExistsBijection(First, 0 .. n - 1)
  BY <1>11 DEF ExistsBijection
<1>13. Cardinality(First) = n
  BY <1>10, <1>12, FS_Bijection, FS_Interval
<1> QED
  BY <1>13 DEF rank

(* Induction: a set of numbers has a least one, so a set with 0 and the    *)
(* successor of each of its numbers has them all.                          *)
Below == {p \in Nat \X Nat : p[1] < p[2]}
LEMMA NatMin == ASSUME NEW T \in SUBSET Nat, T # {} PROVE \E n \in T : \A m \in T : n <= m
<1>1. OpToRel(<, Nat) = Below
  BY DEF OpToRel, Below
<1>2. IsWellFoundedOn(Below, Nat)
  BY <1>1, NatLessThanWellFounded
<1>3. PICK n \in T : \A m \in T : ~ (<<m, n>> \in Below)
  BY <1>2, WFMin
<1>4. ASSUME NEW m \in T, ~ (n <= m) PROVE FALSE
  <2>1. m < n /\ m \in Nat /\ n \in Nat
    BY <1>4
  <2>2. <<m, n>> \in Below
    BY <2>1 DEF Below
  <2> QED
    BY <1>3, <2>2
<1> QED
  BY <1>4

LEMMA Ind == ASSUME NEW S \in SUBSET Nat, 0 \in S, \A n \in S : n + 1 \in S PROVE S = Nat
<1> SUFFICES ASSUME Nat \ S # {} PROVE FALSE
  OBVIOUS
<1>1. PICK n \in Nat \ S : \A m \in Nat \ S : n <= m
  BY NatMin
<1>2. n # 0 /\ n - 1 \in Nat
  BY <1>1
<1>3. n - 1 \in S
  <2>1. ~ (n <= n - 1)
    BY <1>2
  <2> QED
    BY <1>1, <1>2, <2>1
<1>4. (n - 1) + 1 = n
  BY <1>1
<1> QED
  BY <1>3, <1>4

(* The sum of b over S, element by element.                                *)
Pick(s) == CHOOSE x \in s : TRUE
Sums(b, S, g) ==
  g = [s \in SUBSET S |-> IF s = {} THEN 0 ELSE b[Pick(s)] + g[s \ {Pick(s)}]]
Total(b, S) == (CHOOSE g : Sums(b, S, g))[S]

Adds(b, S, g) ==
  \A s \in SUBSET S : g[s] = IF s = {} THEN 0 ELSE b[Pick(s)] + g[s \ {Pick(s)}]

AnyOrder(b, S, g) == \A s \in SUBSET S : \A x \in s : g[s] = b[x] + g[s \ {x}]

UpTo(S, n) == {s \in SUBSET S : Cardinality(s) <= n}

LEMMA Picked ==
  ASSUME NEW S, IsFiniteSet(S), NEW s \in SUBSET S, s # {}
  PROVE  /\ Pick(s) \in s
         /\ IsFiniteSet(s) /\ Cardinality(s) \in Nat /\ s \ {Pick(s)} \in SUBSET S
         /\ Cardinality(s \ {Pick(s)}) = Cardinality(s) - 1
<1>1. Pick(s) \in s
  BY DEF Pick
<1>2. IsFiniteSet(s) /\ Cardinality(s) \in Nat
  BY FS_Subset, FS_CardinalityType
<1> QED
  BY <1>1, <1>2, FS_RemoveElement

LEMMA SumsExist ==
  ASSUME NEW S, IsFiniteSet(S), NEW b \in [S -> Nat]
  PROVE  \E g : Sums(b, S, g)
<1> DEFINE Partial(n, h) ==
             /\ h \in [UpTo(S, n) -> Nat]
             /\ \A s \in UpTo(S, n) : h[s] = IF s = {} THEN 0 ELSE b[Pick(s)] + h[s \ {Pick(s)}]
           N == {n \in Nat : \E h : Partial(n, h)}
<1>1. 0 \in N
  <2> DEFINE h == [s \in UpTo(S, 0) |-> 0]
  <2>1. ASSUME NEW s \in UpTo(S, 0) PROVE s = {}
    <3>1. IsFiniteSet(s) /\ Cardinality(s) \in Nat
      BY FS_Subset, FS_CardinalityType DEF UpTo
    <3>2. Cardinality(s) = 0
      BY <3>1 DEF UpTo
    <3> QED
      BY <3>1, <3>2, FS_EmptySet
  <2>2. Partial(0, h)
    BY <2>1
  <2> QED
    BY <2>2
<1>2. ASSUME NEW n \in N PROVE n + 1 \in N
  <2>1. PICK h : Partial(n, h)
    OBVIOUS
  <2> DEFINE rest(s) == s \ {Pick(s)}
             k == [s \in UpTo(S, n + 1) |-> IF s = {} THEN 0 ELSE b[Pick(s)] + h[rest(s)]]
  <2>2. ASSUME NEW s \in UpTo(S, n + 1), s # {} PROVE /\ Pick(s) \in S
                                                     /\ rest(s) \in UpTo(S, n)
                                                     /\ rest(s) \in UpTo(S, n + 1)
    <3>1. s \in SUBSET S /\ Cardinality(s) <= n + 1 /\ n \in Nat
      BY DEF UpTo
    <3>2. /\ Pick(s) \in s /\ Cardinality(s) \in Nat /\ rest(s) \in SUBSET S
          /\ Cardinality(rest(s)) = Cardinality(s) - 1
      BY <2>2, <3>1, Picked
    <3> QED
      BY <3>1, <3>2 DEF UpTo
  <2>3. ASSUME NEW s \in UpTo(S, n + 1) PROVE k[s] \in Nat
    BY <2>1, <2>2
  <2>4. ASSUME NEW t \in UpTo(S, n), t \in UpTo(S, n + 1) PROVE k[t] = h[t]
    BY <2>1, <2>4
  <2>5. ASSUME NEW s \in UpTo(S, n + 1) PROVE k[s] = IF s = {} THEN 0 ELSE b[Pick(s)] + k[rest(s)]
    BY <2>2, <2>4
  <2>6. Partial(n + 1, k)
    BY <2>3, <2>5
  <2>7. n + 1 \in Nat /\ \E j : Partial(n + 1, j)
    <3> HIDE DEF k, Partial
    <3> QED
      BY <2>6
  <2> QED
    BY <2>7
<1>3. N = Nat
  <2> HIDE DEF N
  <2>1. N \in SUBSET Nat
    BY DEF N
  <2> QED
    BY <1>1, <1>2, <2>1, Ind
<1>4. PICK h : Partial(Cardinality(S), h)
  BY <1>3, FS_CardinalityType
<1>5. UpTo(S, Cardinality(S)) = SUBSET S
  BY FS_Subset DEF UpTo
<1>6. h = [s \in SUBSET S |-> IF s = {} THEN 0 ELSE b[Pick(s)] + h[s \ {Pick(s)}]]
  BY <1>4, <1>5
<1> QED
  BY <1>6 DEF Sums

LEMMA SumsGiven ==
  ASSUME NEW S, IsFiniteSet(S), NEW b \in [S -> Nat]
  PROVE  \E g \in [SUBSET S -> Nat] :
           /\ \A s \in SUBSET S : g[s] = IF s = {} THEN 0 ELSE b[Pick(s)] + g[s \ {Pick(s)}]
           /\ Total(b, S) = g[S]
<1> DEFINE g == CHOOSE g : Sums(b, S, g)
<1>1. Sums(b, S, g)
  BY SumsExist
<1> HIDE DEF g
<1>0. DOMAIN g = SUBSET S /\ g = [s \in SUBSET S |-> g[s]]
  BY <1>1 DEF Sums
<1>2. \A s \in SUBSET S : g[s] = IF s = {} THEN 0 ELSE b[Pick(s)] + g[s \ {Pick(s)}]
  BY <1>1 DEF Sums
<1> DEFINE N == {n \in Nat : \A s \in UpTo(S, n) : g[s] \in Nat}
<1>3. 0 \in N
  <2>1. ASSUME NEW s \in UpTo(S, 0) PROVE g[s] \in Nat
    <3>1. s \in SUBSET S /\ IsFiniteSet(s) /\ Cardinality(s) \in Nat
      BY FS_Subset, FS_CardinalityType DEF UpTo
    <3>2. Cardinality(s) = 0
      BY <3>1 DEF UpTo
    <3>3. s = {}
      BY <3>1, <3>2, FS_EmptySet
    <3> QED
      BY <1>2, <3>1, <3>3
  <2> QED
    BY <2>1
<1>4. ASSUME NEW n \in N PROVE n + 1 \in N
  <2>1. ASSUME NEW s \in UpTo(S, n + 1) PROVE g[s] \in Nat
    <3>1. s \in SUBSET S /\ Cardinality(s) <= n + 1 /\ n \in Nat
      BY DEF UpTo
    <3>2. CASE s = {}
      <4>1. g[s] = 0
        BY ONLY <1>2, <3>1, <3>2
      <4> QED
        BY ONLY <4>1
    <3>3. CASE s # {}
      <4>1. /\ Pick(s) \in S /\ Cardinality(s) \in Nat /\ s \ {Pick(s)} \in SUBSET S
            /\ Cardinality(s \ {Pick(s)}) = Cardinality(s) - 1
        BY <3>1, <3>3, Picked
      <4>2. s \ {Pick(s)} \in UpTo(S, n)
        BY <3>1, <4>1 DEF UpTo
      <4>3. g[s \ {Pick(s)}] \in Nat
        BY <4>2
      <4>4. g[s] = b[Pick(s)] + g[s \ {Pick(s)}] /\ b[Pick(s)] \in Nat
        BY <1>2, <3>1, <3>3, <4>1
      <4> QED
        BY ONLY <4>3, <4>4
    <3> QED
      BY <3>2, <3>3
  <2> QED
    BY <2>1
<1>5. N = Nat
  <2> HIDE DEF N
  <2>1. N \in SUBSET Nat
    BY DEF N
  <2> QED
    BY <1>3, <1>4, <2>1, Ind
<1>6. ASSUME NEW s \in SUBSET S PROVE g[s] \in Nat
  <2>1. Cardinality(s) \in Nat
    BY FS_Subset, FS_CardinalityType
  <2>2. s \in UpTo(S, Cardinality(s))
    BY <2>1 DEF UpTo
  <2> QED
    BY <1>5, <2>1, <2>2
<1>7. g \in [SUBSET S -> Nat]
  BY <1>0, <1>6
<1> QED
  BY <1>2, <1>7 DEF Total, g

(* The order in which the elements are picked does not matter.             *)
LEMMA SumsAny ==
  ASSUME NEW S, IsFiniteSet(S), NEW b \in [S -> Nat], NEW g \in [SUBSET S -> Nat],
         Adds(b, S, g)
  PROVE  AnyOrder(b, S, g)
<1> DEFINE N == {n \in Nat : \A t \in UpTo(S, n) : \A y \in t : g[t] = b[y] + g[t \ {y}]}
<1>1. 0 \in N
  <2>1. ASSUME NEW t \in UpTo(S, 0) PROVE t = {}
    <3>1. t \in SUBSET S /\ IsFiniteSet(t) /\ Cardinality(t) \in Nat
      BY FS_Subset, FS_CardinalityType DEF UpTo
    <3>2. Cardinality(t) = 0
      BY <3>1 DEF UpTo
    <3> QED
      BY <3>1, <3>2, FS_EmptySet
  <2> QED
    BY <2>1
<1>2. ASSUME NEW n \in N PROVE n + 1 \in N
  <2>1. ASSUME NEW t \in UpTo(S, n + 1), NEW y \in t PROVE g[t] = b[y] + g[t \ {y}]
    <3> DEFINE p == Pick(t)
    <3>1. t \in SUBSET S /\ Cardinality(t) <= n + 1 /\ n \in Nat
      BY DEF UpTo
    <3>2. /\ p \in t /\ IsFiniteSet(t) /\ Cardinality(t) \in Nat /\ t \ {p} \in SUBSET S
          /\ Cardinality(t \ {p}) = Cardinality(t) - 1
      BY <3>1, Picked
    <3>3. /\ t \ {y} \in SUBSET S /\ Cardinality(t \ {y}) = Cardinality(t) - 1
      BY <3>1, <3>2, FS_RemoveElement
    <3>4. t \ {p} \in UpTo(S, n) /\ t \ {y} \in UpTo(S, n)
      BY <3>1, <3>2, <3>3 DEF UpTo
    <3>5. g[t] = b[p] + g[t \ {p}]
      BY <3>1 DEF Adds
    <3> HIDE DEF p
    <3>6. CASE p = y
      BY <3>5, <3>6
    <3>7. CASE p # y
      <4>1. g[t \ {p}] = b[y] + g[(t \ {p}) \ {y}]
        BY <3>4, <3>7
      <4>2. g[t \ {y}] = b[p] + g[(t \ {y}) \ {p}]
        BY <3>2, <3>4, <3>7
      <4>3. (t \ {p}) \ {y} = (t \ {y}) \ {p} /\ (t \ {p}) \ {y} \in SUBSET S
        BY <3>1
      <4>4. b[p] \in Nat /\ b[y] \in Nat /\ g[(t \ {p}) \ {y}] \in Nat
        BY <3>1, <3>2, <4>3
      <4>5. g[(t \ {p}) \ {y}] = g[(t \ {y}) \ {p}]
        BY <4>3
      <4> QED
        BY ONLY <3>5, <4>1, <4>2, <4>4, <4>5
    <3> QED
      BY <3>6, <3>7
  <2>2. n + 1 \in Nat
    OBVIOUS
  <2>3. \A t \in UpTo(S, n + 1) : \A y \in t : g[t] = b[y] + g[t \ {y}]
    BY <2>1
  <2> QED
    BY ONLY <2>2, <2>3 DEF N
<1>3. N = Nat
  <2> HIDE DEF N
  <2>1. N \in SUBSET Nat
    BY DEF N
  <2> QED
    BY <1>1, <1>2, <2>1, Ind
<1>4. ASSUME NEW s \in SUBSET S PROVE Cardinality(s) \in Nat /\ s \in UpTo(S, Cardinality(s))
  <2>1. Cardinality(s) \in Nat
    BY FS_Subset, FS_CardinalityType
  <2> QED
    BY <2>1 DEF UpTo
<1>5. \A s \in SUBSET S : \A x \in s : g[s] = b[x] + g[s \ {x}]
  BY <1>3, <1>4
<1> QED
  BY <1>5 DEF AnyOrder

LEMMA TotalIs ==
  ASSUME NEW S, IsFiniteSet(S), NEW b \in [S -> Nat]
  PROVE  \E g \in [SUBSET S -> Nat] :
           /\ g[{}] = 0
           /\ AnyOrder(b, S, g)
           /\ Total(b, S) = g[S]
<1>1. PICK g \in [SUBSET S -> Nat] : Adds(b, S, g) /\ Total(b, S) = g[S]
  BY SumsGiven DEF Adds
<1>2. AnyOrder(b, S, g)
  BY <1>1, SumsAny
<1>3. g[{}] = 0
  BY <1>1 DEF Adds
<1> QED
  BY <1>1, <1>2, <1>3

LEMMA TotalNat ==
  ASSUME NEW S, IsFiniteSet(S), NEW b \in [S -> Nat]
  PROVE  Total(b, S) \in Nat
<1>1. PICK g \in [SUBSET S -> Nat] : Total(b, S) = g[S]
  BY TotalIs
<1> QED
  BY <1>1

LEMMA TotalZero ==
  ASSUME NEW S, IsFiniteSet(S)
  PROVE  Total([x \in S |-> 0], S) = 0
<1> DEFINE b == [x \in S |-> 0]
<1>1. b \in [S -> Nat] /\ \A x \in S : b[x] = 0
  OBVIOUS
<1> HIDE DEF b
<1>2. PICK g \in [SUBSET S -> Nat] : g[{}] = 0 /\ AnyOrder(b, S, g) /\ Total(b, S) = g[S]
  BY <1>1, TotalIs
<1> DEFINE N == {n \in Nat : \A s \in UpTo(S, n) : g[s] = 0}
<1>3. 0 \in N
  <2>1. ASSUME NEW s \in UpTo(S, 0) PROVE g[s] = 0
    <3>1. s \in SUBSET S /\ IsFiniteSet(s) /\ Cardinality(s) \in Nat
      BY FS_Subset, FS_CardinalityType DEF UpTo
    <3>2. Cardinality(s) = 0
      BY <3>1 DEF UpTo
    <3> QED
      BY <1>2, <3>1, <3>2, FS_EmptySet
  <2> QED
    BY <2>1
<1>4. ASSUME NEW n \in N PROVE n + 1 \in N
  <2>1. ASSUME NEW s \in UpTo(S, n + 1), s # {} PROVE g[s] = 0
    <3>1. s \in SUBSET S /\ Cardinality(s) <= n + 1 /\ n \in Nat
      BY DEF UpTo
    <3>2. PICK x \in s : TRUE
      BY <2>1
    <3>3. /\ Cardinality(s) \in Nat /\ s \ {x} \in SUBSET S
          /\ Cardinality(s \ {x}) = Cardinality(s) - 1
      BY <3>1, <3>2, FS_Subset, FS_CardinalityType, FS_RemoveElement
    <3>4. s \ {x} \in UpTo(S, n)
      BY <3>1, <3>3 DEF UpTo
    <3>5. g[s] = b[x] + g[s \ {x}] /\ b[x] = 0 /\ g[s \ {x}] = 0
      BY <1>1, <1>2, <3>1, <3>2, <3>4 DEF AnyOrder
    <3> QED
      BY ONLY <3>5
  <2>2. ASSUME NEW s \in UpTo(S, n + 1) PROVE g[s] = 0
    BY <1>2, <2>1
  <2> QED
    BY <2>2
<1>5. N = Nat
  <2> HIDE DEF N
  <2>1. N \in SUBSET Nat
    BY DEF N
  <2> QED
    BY <1>3, <1>4, <2>1, Ind
<1>6. Cardinality(S) \in Nat
  BY FS_CardinalityType
<1>7. S \in UpTo(S, Cardinality(S))
  BY <1>6 DEF UpTo
<1>8. g[S] = 0
  BY <1>5, <1>6, <1>7
<1> QED
  BY <1>2, <1>8 DEF b

(* Where nothing but x grows, the total grows by no more than x does.      *)
LEMMA TotalChanged ==
  ASSUME NEW S, IsFiniteSet(S), NEW b \in [S -> Nat], NEW c \in [S -> Nat], NEW x \in S,
         \A y \in S \ {x} : c[y] <= b[y]
  PROVE  Total(c, S) - c[x] <= Total(b, S) - b[x]
<1>1. PICK g \in [SUBSET S -> Nat] :
        /\ g[{}] = 0
        /\ AnyOrder(b, S, g)
        /\ Total(b, S) = g[S]
  BY TotalIs
<1>2. PICK h \in [SUBSET S -> Nat] :
        /\ h[{}] = 0
        /\ AnyOrder(c, S, h)
        /\ Total(c, S) = h[S]
  BY TotalIs
<1> DEFINE N == {n \in Nat : \A s \in UpTo(S, n) : x \notin s => h[s] <= g[s]}
<1>3. 0 \in N
  <2>1. ASSUME NEW s \in UpTo(S, 0) PROVE h[s] <= g[s]
    <3>1. s \in SUBSET S /\ IsFiniteSet(s) /\ Cardinality(s) \in Nat
      BY FS_Subset, FS_CardinalityType DEF UpTo
    <3>2. Cardinality(s) = 0
      BY <3>1 DEF UpTo
    <3>3. s = {}
      BY <3>1, <3>2, FS_EmptySet
    <3>4. g[s] = 0 /\ h[s] = 0
      BY <1>1, <1>2, <3>1, <3>3
    <3> QED
      BY ONLY <3>4
  <2> QED
    BY <2>1
<1>4. ASSUME NEW n \in N PROVE n + 1 \in N
  <2>1. ASSUME NEW s \in UpTo(S, n + 1), x \notin s PROVE h[s] <= g[s]
    <3>1. s \in SUBSET S /\ Cardinality(s) <= n + 1 /\ n \in Nat
      BY DEF UpTo
    <3>2. CASE s = {}
      <4>1. g[s] = 0 /\ h[s] = 0
        BY <1>1, <1>2, <3>1, <3>2
      <4> QED
        BY ONLY <4>1
    <3>3. CASE s # {}
      <4>0. PICK p \in s : TRUE
        BY <3>3
      <4>1. /\ p \in s /\ Cardinality(s) \in Nat /\ s \ {p} \in SUBSET S
            /\ Cardinality(s \ {p}) = Cardinality(s) - 1
        BY <3>1, FS_Subset, FS_CardinalityType, FS_RemoveElement
      <4>2. s \ {p} \in UpTo(S, n)
        BY <3>1, <4>1 DEF UpTo
      <4>3. h[s \ {p}] <= g[s \ {p}]
        BY <2>1, <4>2
      <4>4. g[s] = b[p] + g[s \ {p}] /\ h[s] = c[p] + h[s \ {p}]
        BY <1>1, <1>2, <3>1, <4>1 DEF AnyOrder
      <4>5. b[p] \in Nat /\ c[p] \in Nat /\ c[p] <= b[p] /\ g[s \ {p}] \in Nat /\ h[s \ {p}] \in Nat
        BY <2>1, <3>1, <4>1
      <4> QED
        BY ONLY <4>3, <4>4, <4>5
    <3> QED
      BY <3>2, <3>3
  <2> QED
    BY <2>1
<1>5. N = Nat
  <2> HIDE DEF N
  <2>1. N \in SUBSET Nat
    BY DEF N
  <2> QED
    BY <1>3, <1>4, <2>1, Ind
<1>6. h[S \ {x}] <= g[S \ {x}]
  <2>1. S \ {x} \in SUBSET S /\ IsFiniteSet(S \ {x}) /\ Cardinality(S \ {x}) \in Nat
    BY FS_Subset, FS_CardinalityType
  <2>2. S \ {x} \in UpTo(S, Cardinality(S \ {x}))
    BY <2>1 DEF UpTo
  <2> QED
    BY <1>5, <2>1, <2>2
<1>7. g[S] = b[x] + g[S \ {x}]
  BY <1>1 DEF AnyOrder
<1>8. h[S] = c[x] + h[S \ {x}]
  BY <1>2 DEF AnyOrder
<1>9. b[x] \in Nat /\ c[x] \in Nat /\ g[S \ {x}] \in Nat /\ h[S \ {x}] \in Nat
  OBVIOUS
<1> QED
  BY ONLY <1>1, <1>2, <1>6, <1>7, <1>8, <1>9

-----------------------------------------------------------------------------
LEMMA PrintingInit == Printing!Init => Printing!IInv
BY DEF Printing!Init, Printing!IInv, Printing!TypeOK, Printing!Printer, Printing!NoJob, Printing!Answers,
       Printing!NotYetPrinted, Printing!AnswersFit, Printing!DoneAsAsked,
       Printing!PrintedOnce, Printing!JustWorks

LEMMA PrintingStep ==
  ASSUME Printing!IInv, Printing!Next
  PROVE  Printing!IInv'
<1> USE DEF Printing!IInv, Printing!TypeOK, Printing!Answers, Printing!Told,
            Printing!NotYetPrinted, Printing!AnswersFit, Printing!DoneAsAsked,
            Printing!PrintedOnce, Printing!JustWorks
<1>1. CASE Printing!Refuse
  BY <1>1 DEF Printing!Refuse
<1>2. ASSUME NEW f \in Printing!AllFormats, NEW tls \in BOOLEAN, NEW knows \in SUBSET Printing!AllFormats,
             Printing!PrintDocument(f, tls, knows)
      PROVE  Printing!IInv'
  <2>1. v1' \in Printing!Printer /\ v1'.printed = 0
    BY <1>2 DEF Printing!PrintDocument, Printing!Printer
  <2>2. v2' \in Printing!Job /\ v2'.at = "first" /\ v3' = "none"
    BY <1>2 DEF Printing!PrintDocument, Printing!Job
  <2> QED
    BY <2>1, <2>2
<1>3. ASSUME NEW lost \in BOOLEAN, Printing!Handle(lost) PROVE Printing!IInv'
  <2> DEFINE verdict == IF v1.tls /\ ~ v2.tls THEN "426"
                        ELSE IF v2.format \notin v1.knows THEN "0x040A" ELSE "ok"
             printed == IF verdict = "ok" THEN 1 ELSE 0
             faulty == v1.faulty \/ lost
  <2>1. v2' = v2 /\ v2.at # "idle" /\ v3 = "none" /\ v3' = IF lost THEN "lost" ELSE verdict
    BY <1>3 DEF Printing!Handle
  <2>2. v1' = [v1 EXCEPT !.printed = printed, !.faulty = faulty]
    <3>1. v1' = [v1 EXCEPT !.printed = IF verdict = "ok" THEN v1.printed + 1 ELSE v1.printed,
                           !.faulty = faulty]
      BY <1>3 DEF Printing!Handle
    <3>2. v1.printed = 0
      BY <2>1
    <3> HIDE DEF verdict, faulty
    <3> QED
      BY <3>1, <3>2
  <2>3. printed \in 0 .. 3 /\ faulty \in BOOLEAN /\ (v1.faulty => faulty)
    OBVIOUS
  <2> HIDE DEF printed, faulty
  <2>4. /\ v1' \in Printing!Printer /\ v1'.tls = v1.tls /\ v1'.knows = v1.knows
        /\ v1'.printed = printed /\ v1'.faulty = faulty
    BY <2>2, <2>3 DEF Printing!Printer
  <2> QED
    BY <2>1, <2>3, <2>4 DEF printed
<1>4. ASSUME NEW kind \in {"lost", "other"}, Printing!Fault(kind) PROVE Printing!IInv'
  BY <1>4 DEF Printing!Fault, Printing!Printer
<1>5. CASE Printing!Upgrade
  BY <1>5 DEF Printing!Upgrade, Printing!Job
<1>6. CASE Printing!AsOctets
  BY <1>6 DEF Printing!AsOctets, Printing!Again, Printing!Job, Printing!AllFormats
<1>7. CASE Printing!Fail
  BY <1>7 DEF Printing!Fail
<1>8. CASE Printing!Finish
  <2>1. /\ v1' = v1 /\ v3' = "none" /\ v3 \in {"ok", "other", "426", "0x040A"}
        /\ v2' = [at |-> "idle", told |-> IF v3 = "ok" THEN "sent" ELSE "not_accepted"]
    BY <1>8 DEF Printing!Finish, Printing!Accepted
  <2>2. v3 # "ok" => v1.faulty \/ Octet \notin v1.knows
    BY <1>8, <2>1 DEF Printing!Finish, Printing!Job
  <2>3. v1.printed <= 1 /\ (v3 = "ok" => v1.printed = 1)
    OBVIOUS
  <2> QED
    BY <2>1, <2>2, <2>3
<1> QED
  BY <1>1, <1>2, <1>3, <1>4, <1>5, <1>6, <1>7, <1>8 DEF Printing!Next

-----------------------------------------------------------------------------
LEMMA SshInit == Ssh!ConstantsOK /\ Ssh!Init => Ssh!IInv
<1> SUFFICES ASSUME Ssh!ConstantsOK, Ssh!Init PROVE Ssh!IInv
  OBVIOUS
<1>1. v3 \in 0 .. MaxOutput /\ v4 \in 0 .. v3
  <2>1. v3 = 0 /\ v4 = 0
    BY DEF Ssh!Init
  <2> QED
    BY <2>1 DEF Ssh!ConstantsOK
<1> QED
  BY <1>1 DEF Ssh!Init, Ssh!IInv, Ssh!TypeOK

LEMMA SshStep ==
  ASSUME Ssh!ConstantsOK, Ssh!IInv, Ssh!Next
  PROVE  Ssh!IInv'
<1> USE DEF Ssh!IInv, Ssh!TypeOK, Ssh!ConstantsOK, Ssh!Answer
<1>1. ASSUME NEW n \in 0 .. MaxOutput, Ssh!SshRun(n) PROVE Ssh!IInv'
  BY <1>1 DEF Ssh!SshRun
<1>2. CASE Ssh!ConnectFailed
  BY <1>2 DEF Ssh!ConnectFailed
<1>3. CASE Ssh!Connect
  BY <1>3 DEF Ssh!Connect
<1>4. CASE Ssh!WaitForExit
  BY <1>4 DEF Ssh!WaitForExit, Ssh!HasExited
<1>5. CASE Ssh!Read
  BY <1>5 DEF Ssh!Read
<1>6. CASE Ssh!Failed
  BY <1>6 DEF Ssh!Failed
<1>7. CASE Ssh!Write
  BY <1>7 DEF Ssh!Write
<1>8. CASE Ssh!Exit
  BY <1>8 DEF Ssh!Exit
<1>9. CASE Ssh!Break
  BY <1>9 DEF Ssh!Break
<1> QED
  BY <1>1, <1>2, <1>3, <1>4, <1>5, <1>6, <1>7, <1>8, <1>9 DEF Ssh!Next, Ssh!Call, Ssh!Command

-----------------------------------------------------------------------------
LEMMA TasksInit == TaskNext!ConstantsOK /\ TaskNext!Init => TaskNext!TypeOK
BY DEF TaskNext!Init, TaskNext!TypeOK, TaskNext!ConstantsOK

LEMMA TasksStep ==
  ASSUME TaskNext!ConstantsOK, TaskNext!TypeOK, TaskNext!Next
  PROVE  TaskNext!TypeOK'
<1>1. ASSUME NEW needs \in SUBSET Caps, NEW a \in Agents \cup {NoAgent}, TaskNext!TaskAdd(needs, a)
      PROVE  TaskNext!TypeOK'
  <2> DEFINE t == [status |-> "open", needs |-> needs, assigned |-> a]
  <2>1. t \in TaskNext!Task
    BY ONLY needs \in SUBSET Caps, a \in Agents \cup {NoAgent} DEF TaskNext!Task
  <2>2. v1' = Append(v1, t) /\ Len(v1) < MaxTasks
    BY <1>1 DEF TaskNext!TaskAdd
  <2> HIDE DEF t
  <2> QED
    BY <2>1, <2>2 DEF TaskNext!TypeOK, TaskNext!ConstantsOK
<1>2. ASSUME NEW i \in DOMAIN v1, TaskNext!TaskClaim(i) PROVE TaskNext!TypeOK'
  <2> DEFINE t == [v1[i] EXCEPT !.status = "claimed"]
  <2>1. v1 \in Seq(TaskNext!Task) /\ i \in 1 .. Len(v1) /\ Len(v1) <= MaxTasks
    BY DEF TaskNext!TypeOK
  <2>2. v1[i] \in TaskNext!Task
    BY <2>1
  <2>3. t \in TaskNext!Task
    BY <2>2 DEF TaskNext!Task
  <2>4. v1' = [v1 EXCEPT ![i] = t]
    BY <1>2 DEF TaskNext!TaskClaim
  <2> HIDE DEF t
  <2>5. v1' \in Seq(TaskNext!Task) /\ Len(v1') = Len(v1)
    BY <2>1, <2>3, <2>4
  <2> QED
    BY <2>1, <2>5 DEF TaskNext!TypeOK
<1> QED
  BY <1>1, <1>2 DEF TaskNext!Next

(* The count of the module that TaskNext is an instance of.                *)
LEMMA SameCount == ASSUME NEW T PROVE TaskNext!Cardinality(T) = Cardinality(T)
BY DEF TaskNext!Cardinality, Cardinality

(* A task not reserved for another is suitable; a suitable task's score is its class. *)
LEMMA ScoreIsClass ==
  ASSUME TaskNext!ConstantsOK, TaskNext!TypeOK, NEW owner \in Agents, NEW caps, NEW i \in DOMAIN v1
  PROVE  /\ ~ TaskNext!Reserved(v1[i], owner) => TaskNext!Score(v1[i], owner, caps) < 9
         /\ TaskNext!Score(v1[i], owner, caps) \in Nat
         /\ TaskNext!Score(v1[i], owner, caps) < 9 =>
              TaskNext!Score(v1[i], owner, caps) = TaskNext!Class(v1[i], owner, caps)
<1> DEFINE t == v1[i]
<1> HIDE DEF t
<1>1. /\ t.assigned = owner => TaskNext!Score(t, owner, caps) = 0
      /\ t.assigned # owner /\ t.needs \cap caps # {} => TaskNext!Score(t, owner, caps) = 1
      /\ t.assigned # owner /\ t.needs \cap caps = {} /\ t.assigned = NoAgent =>
           TaskNext!Score(t, owner, caps) = IF t.needs = {} THEN 2 ELSE 3
      /\ t.assigned # owner /\ t.needs \cap caps = {} /\ t.assigned # NoAgent =>
           TaskNext!Score(t, owner, caps) = 9
  <2>1. owner # NoAgent
    BY DEF TaskNext!ConstantsOK
  <2>2. CASE t.assigned = owner
    BY <2>1, <2>2 DEF TaskNext!Score
  <2>3. CASE t.assigned # owner /\ t.needs \cap caps # {}
    <3>1. t.needs # {}
      BY <2>3
    <3> QED
      BY <2>3, <3>1 DEF TaskNext!Score
  <2>4. CASE t.assigned # owner /\ t.needs \cap caps = {} /\ t.assigned = NoAgent
    BY <2>4 DEF TaskNext!Score
  <2>5. CASE t.assigned # owner /\ t.needs \cap caps = {} /\ t.assigned # NoAgent
    BY <2>5 DEF TaskNext!Score
  <2> QED
    BY <2>2, <2>3, <2>4, <2>5
<1>2. /\ ~ TaskNext!Reserved(t, owner) => TaskNext!Score(t, owner, caps) < 9
      /\ TaskNext!Score(t, owner, caps) \in Nat
      /\ TaskNext!Score(t, owner, caps) < 9 => TaskNext!Score(t, owner, caps) = TaskNext!Class(t, owner, caps)
  <2>1. CASE t.assigned = owner
    BY <1>1, <2>1 DEF TaskNext!Class
  <2>2. CASE t.assigned # owner /\ t.needs \cap caps # {}
    BY <1>1, <2>2 DEF TaskNext!Class
  <2>3. CASE t.assigned # owner /\ t.needs \cap caps = {} /\ t.assigned = NoAgent
    BY <1>1, <2>3 DEF TaskNext!Class
  <2>4. CASE t.assigned # owner /\ t.needs \cap caps = {} /\ t.assigned # NoAgent
    BY <1>1, <2>4 DEF TaskNext!Class, TaskNext!Reserved
  <2> QED
    BY <2>1, <2>2, <2>3, <2>4
<1> QED
  BY <1>2 DEF t

LEMMA BestFirst ==
  ASSUME TaskNext!ConstantsOK, TaskNext!TypeOK
  PROVE  TaskNext!FirstComeInClass
<1> SUFFICES ASSUME NEW owner \in Agents, NEW caps \in SUBSET Caps, NEW i \in DOMAIN v1,
                    v1[i].status = "open", ~ TaskNext!Reserved(v1[i], owner),
                    i \notin TaskNext!Recommended(owner, caps)
             PROVE  /\ Cardinality(TaskNext!Recommended(owner, caps)) = Shown
                    /\ \A j \in TaskNext!Recommended(owner, caps) :
                         LET ci == TaskNext!Class(v1[i], owner, caps)
                             cj == TaskNext!Class(v1[j], owner, caps)
                         IN  cj < ci \/ (cj = ci /\ j < i)
  BY SameCount DEF TaskNext!FirstComeInClass
<1> DEFINE S == TaskNext!Suitable(owner, caps)
           score(k) == TaskNext!Score(v1[k], owner, caps)
           R == {p \in S \X S : TaskNext!Ahead(p[1], p[2], owner, caps)}
           Before(k) == {j \in S : <<j, k>> \in R}
<1>1. /\ S \subseteq DOMAIN v1 /\ i \in S
      /\ \A k \in S : score(k) \in Nat /\ score(k) = TaskNext!Class(v1[k], owner, caps)
  BY ScoreIsClass DEF TaskNext!Suitable
<1>2. DOMAIN v1 = 1 .. Len(v1) /\ Len(v1) \in Nat
  BY DEF TaskNext!TypeOK
<1>3. IsFiniteSet(S) /\ \A k \in S : k \in Int
  <2>1. IsFiniteSet(1 .. Len(v1))
    BY <1>2, FS_Interval
  <2>2. S \in SUBSET (1 .. Len(v1))
    BY <1>1, <1>2
  <2> QED
    BY <2>1, <2>2, FS_Subset
<1>4. \A j, k \in S : <<j, k>> \in R <=> score(j) < score(k) \/ (score(j) = score(k) /\ j < k)
  BY DEF TaskNext!Ahead
<1> HIDE DEF S, R, score
<1>5. /\ \A k \in S : <<k, k>> \notin R
      /\ \A j, k, l \in S : <<j, k>> \in R /\ <<k, l>> \in R => <<j, l>> \in R
      /\ \A j, k \in S : j = k \/ <<j, k>> \in R \/ <<k, j>> \in R
  BY <1>1, <1>3, <1>4
<1>6. TaskNext!Recommended(owner, caps) = {k \in S : Cardinality(Before(k)) < Shown}
  <2>1. ASSUME NEW k \in S PROVE {j \in S : TaskNext!Ahead(j, k, owner, caps)} = Before(k)
    BY DEF S, R
  <2> QED
    BY <2>1, SameCount DEF TaskNext!Recommended, S
<1>7. ASSUME NEW k \in S PROVE /\ IsFiniteSet(Before(k)) /\ Cardinality(Before(k)) \in Nat
                              /\ Cardinality(Before(k)) <= Cardinality(S)
  BY <1>3, FS_Subset, FS_CardinalityType
<1>8. Shown \in Nat /\ Cardinality(S) \in Nat /\ Shown <= Cardinality(Before(i))
  <2>1. Cardinality(Before(i)) \in Nat /\ ~ (Cardinality(Before(i)) < Shown)
    BY <1>1, <1>6, <1>7
  <2> QED
    BY <1>3, <2>1, FS_CardinalityType DEF TaskNext!ConstantsOK
<1>9. Cardinality(TaskNext!Recommended(owner, caps)) = Shown
  <2>1. Shown <= Cardinality(S)
    BY <1>1, <1>7, <1>8
  <2> QED
    BY <1>3, <1>5, <1>6, <1>8, <2>1, FirstOnes
<1>10. ASSUME NEW j \in TaskNext!Recommended(owner, caps) PROVE <<j, i>> \in R
  <2>1. j \in S /\ Cardinality(Before(j)) < Shown
    BY <1>6
  <2>2. j # i
    BY <1>10
  <2>3. ASSUME <<i, j>> \in R PROVE FALSE
    <3>1. Before(i) \subseteq Before(j)
      BY <1>1, <1>5, <2>1, <2>3
    <3>2. Cardinality(Before(i)) <= Cardinality(Before(j))
      BY <1>7, <2>1, <3>1, FS_Subset
    <3> QED
      BY <1>1, <1>7, <1>8, <2>1, <3>2
  <2> QED
    BY <1>1, <1>5, <2>1, <2>2, <2>3
<1>11. ASSUME NEW j \in TaskNext!Recommended(owner, caps)
       PROVE  LET ci == TaskNext!Class(v1[i], owner, caps)
                  cj == TaskNext!Class(v1[j], owner, caps)
              IN  cj < ci \/ (cj = ci /\ j < i)
  <2>1. j \in S
    BY <1>6
  <2> QED
    BY <1>1, <1>4, <1>10, <2>1
<1> QED
  BY <1>9, <1>11

-----------------------------------------------------------------------------
LEMMA MatchInit == CronMatch!Init => CronMatch!TypeOK
BY DEF CronMatch!Init, CronMatch!TypeOK, CronMatch!Fields, CronMatch!Low, CronMatch!High

LEMMA MatchStep ==
  ASSUME CronMatch!TypeOK, CronMatch!Next
  PROVE  CronMatch!TypeOK'
<1>1. ASSUME NEW f \in CronMatch!Fields, CronMatch!Elapse(f) PROVE CronMatch!TypeOK'
  <2>1. v2' = [v2 EXCEPT ![f] = IF v2[f] = CronMatch!High(f) THEN CronMatch!Low(f) ELSE v2[f] + 1]
        /\ v1' = v1
    BY <1>1 DEF CronMatch!Elapse
  <2>2. ASSUME NEW g \in CronMatch!Fields PROVE v2'[g] \in CronMatch!Low(g) .. CronMatch!High(g)
    BY <2>1 DEF CronMatch!TypeOK, CronMatch!Fields, CronMatch!Low, CronMatch!High
  <2>3. v2' \in [CronMatch!Fields -> 0 .. 59]
    BY <2>1 DEF CronMatch!TypeOK, CronMatch!Fields, CronMatch!Low, CronMatch!High
  <2> QED
    BY <2>1, <2>2, <2>3 DEF CronMatch!TypeOK
<1>2. ASSUME NEW f \in CronMatch!Fields, NEW field \in Written, CronMatch!Edit(f, field)
      PROVE  CronMatch!TypeOK'
  BY <1>2 DEF CronMatch!Edit, CronMatch!TypeOK
<1> QED
  BY <1>1, <1>2 DEF CronMatch!Next

(* 7 in the day-of-week field only as a part of its own, not in a step, nor at *)
(* one end of a range.                                                     *)
SundaysPlain ==
  focus = "match" =>
    \A p \in v1["dow"] : /\ p.step < 7
                         /\ p.kind = "range" => (p.a < 7 /\ p.b < 7) \/ (p.a = 7 /\ p.b = 7)

LEMMA Multiples ==
  /\ \A n \in Nat, s \in Nat \ {0} : n = (n \div s) * s + (n % s) /\ n \div s \in Nat
  /\ \A i \in Nat, s \in Nat \ {0} : (i * s) % s = 0 /\ i <= i * s
OBVIOUS

Reached(v, a, b, s) == \E i \in 0 .. (b - a) : v = a + i * s

LEMMA Strides ==
  ASSUME NEW a \in Nat, NEW b \in Nat, NEW v \in a .. b, NEW s \in Nat \ {0}
  PROVE  (v - a) % s = 0 <=> Reached(v, a, b, s)
<1>1. ASSUME (v - a) % s = 0 PROVE \E i \in 0 .. (b - a) : v = a + i * s
  <2> DEFINE i == (v - a) \div s
  <2>1. v - a \in Nat
    OBVIOUS
  <2>2. i \in Nat /\ v - a = i * s + 0
    BY <1>1, <2>1, Multiples
  <2> HIDE DEF i
  <2>3. i <= i * s /\ i * s \in Nat
    BY <2>2, Multiples
  <2>4. i \in 0 .. (b - a) /\ v = a + i * s
    BY <2>2, <2>3
  <2> QED
    BY <2>4
<1>2. ASSUME NEW i \in 0 .. (b - a), v = a + i * s PROVE (v - a) % s = 0
  <2>1. i \in Nat /\ i * s \in Nat
    OBVIOUS
  <2>2. v - a = i * s
    BY <1>2, <2>1
  <2> QED
    BY <2>1, <2>2, Multiples
<1> QED
  BY <1>1, <1>2 DEF Reached

(* A part matches what it lists.                                           *)
LEMMA PartListed ==
  ASSUME NEW f \in CronMatch!Fields, NEW p \in CronMatch!FieldPart,
         NEW v \in CronMatch!Low(f) .. CronMatch!High(f)
  PROVE  CronMatch!PartMatch(p, v, CronMatch!Low(f), CronMatch!High(f)) <=> v \in CronMatch!Counted(f, p)
<1> DEFINE lo == CronMatch!Low(f)
           hi == CronMatch!High(f)
           start == IF p.kind = "star" THEN lo ELSE p.a
           end == IF p.kind = "star" THEN hi ELSE p.b
           s == CronMatch!AtLeastOne(p.step)
<1>1. lo \in Nat /\ hi \in Nat
  BY DEF CronMatch!Low, CronMatch!High, CronMatch!Fields
<1>2. p.a \in Nat /\ p.b \in Nat /\ p.step \in Nat
  BY DEF CronMatch!FieldPart
<1>3. s \in Nat \ {0} /\ s = IF p.step = 0 THEN 1 ELSE p.step
  BY <1>2 DEF CronMatch!AtLeastOne
<1>4. start \in Nat /\ end \in Nat /\ v \in Nat
  BY <1>1, <1>2
<1>5. CronMatch!PartMatch(p, v, lo, hi) <=> start <= v /\ v <= end /\ (v - start) % s = 0
  BY DEF CronMatch!PartMatch
<1>6. v \in CronMatch!Counted(f, p) <=>
        v \in start .. end /\ \E i \in 0 .. (end - start) : v = start + i * s
  BY <1>3 DEF CronMatch!Counted
<1> HIDE DEF start, end, s
<1>7. CASE start <= v /\ v <= end
  <2>1. v \in start .. end
    BY <1>4, <1>7
  <2>2. (v - start) % s = 0 <=> Reached(v, start, end, s)
    BY ONLY <1>3, <1>4, <2>1, Strides
  <2> QED
    BY <1>5, <1>6, <1>7, <2>1, <2>2 DEF Reached
<1>8. CASE ~ (start <= v /\ v <= end)
  <2>1. v \notin start .. end
    BY <1>4, <1>8
  <2> QED
    BY <1>5, <1>6, <1>8, <2>1
<1> QED
  BY <1>7, <1>8

LEMMA Modulo7 == (\A n \in Nat : n < 7 => n % 7 = n) /\ 7 % 7 = 0
OBVIOUS

LEMMA SundayListed ==
  ASSUME NEW p \in CronMatch!FieldPart, NEW v \in 0 .. 6, p.step < 7,
         p.kind = "range" => (p.a < 7 /\ p.b < 7) \/ (p.a = 7 /\ p.b = 7)
  PROVE  LET r == [p EXCEPT !.a = CronMatch!Zero7(@), !.b = CronMatch!Zero7(@), !.step = CronMatch!Zero7(@)]
         IN  CronMatch!PartMatch(r, v, 0, 6) <=> \E n \in CronMatch!Counted("dow", p) : v = n % 7
<1> DEFINE r == [p EXCEPT !.a = CronMatch!Zero7(@), !.b = CronMatch!Zero7(@), !.step = CronMatch!Zero7(@)]
<1>1. /\ p.kind \in {"star", "range"} /\ p.a \in Nat /\ p.b \in Nat /\ p.step \in Nat
      /\ r.kind = p.kind /\ r.a = CronMatch!Zero7(p.a) /\ r.b = CronMatch!Zero7(p.b)
      /\ r.step = CronMatch!Zero7(p.step)
  BY DEF CronMatch!FieldPart
<1>2. r \in CronMatch!FieldPart
  BY DEF CronMatch!FieldPart, CronMatch!Zero7
<1>3. r.step = p.step /\ (p.a < 7 => r.a = p.a) /\ (p.b < 7 => r.b = p.b)
  BY <1>1 DEF CronMatch!Zero7
<1> HIDE DEF r
<1>4. "dow" \in CronMatch!Fields /\ CronMatch!Low("dow") = 0 /\ CronMatch!High("dow") = 6
  BY DEF CronMatch!Low, CronMatch!High, CronMatch!Fields
<1>5. CronMatch!PartMatch(r, v, 0, 6) <=> v \in CronMatch!Counted("dow", r)
  BY <1>2, <1>4, PartListed
<1>6. ASSUME p.kind = "star" \/ (p.a < 7 /\ p.b < 7)
      PROVE  CronMatch!PartMatch(r, v, 0, 6) <=> \E n \in CronMatch!Counted("dow", p) : v = n % 7
  <2>1. CronMatch!Counted("dow", r) = CronMatch!Counted("dow", p)
    BY <1>1, <1>3, <1>6 DEF CronMatch!Counted
  <2>2. \A n \in CronMatch!Counted("dow", p) : n \in Nat /\ n < 7
    BY <1>1, <1>4, <1>6 DEF CronMatch!Counted
  <2> QED
    BY <1>5, <2>1, <2>2, Modulo7
<1>7. ASSUME p.kind = "range" /\ p.a = 7 /\ p.b = 7
      PROVE  CronMatch!PartMatch(r, v, 0, 6) <=> \E n \in CronMatch!Counted("dow", p) : v = n % 7
  <2>1. CronMatch!Counted("dow", p) = {7}
    BY <1>1, <1>7 DEF CronMatch!Counted
  <2>2. CronMatch!Counted("dow", r) = {0}
    BY <1>1, <1>7 DEF CronMatch!Counted, CronMatch!Zero7
  <2> QED
    BY <1>5, <2>1, <2>2, Modulo7
<1> QED
  BY <1>1, <1>6, <1>7 DEF r

LEMMA Listed ==
  ASSUME CronMatch!ConstantsOK, CronMatch!TypeOK, focus = "match", SundaysPlain
  PROVE  CronMatch!DueAsListed
<1> USE DEF CronMatch!Fields
<1>1. \A f \in CronMatch!Fields : v1[f] \subseteq CronMatch!FieldPart
  BY DEF CronMatch!ConstantsOK, CronMatch!TypeOK, CronMatch!Star, CronMatch!FieldPart
<1>2. \A f \in CronMatch!Fields : v2[f] \in CronMatch!Low(f) .. CronMatch!High(f)
  BY DEF CronMatch!TypeOK
<1>3. ASSUME NEW f \in CronMatch!Fields, f # "dow"
      PROVE  CronMatch!FieldMatch(v1[f], v2[f], CronMatch!Low(f), CronMatch!High(f))
               <=> v2[f] \in CronMatch!Denoted(f)
  <2>1. v2[f] \in CronMatch!Denoted(f) <=> \E p \in v1[f] : v2[f] \in CronMatch!Counted(f, p)
    BY <1>3 DEF CronMatch!Denoted
  <2>2. \A p \in v1[f] :
          CronMatch!PartMatch(p, v2[f], CronMatch!Low(f), CronMatch!High(f))
            <=> v2[f] \in CronMatch!Counted(f, p)
    BY <1>1, <1>2, PartListed
  <2> QED
    BY <2>1, <2>2 DEF CronMatch!FieldMatch
<1>4. CronMatch!FieldMatch(CronMatch!Replaced(v1["dow"]), v2["dow"], CronMatch!Low("dow"), CronMatch!High("dow"))
        <=> v2["dow"] \in CronMatch!Denoted("dow")
  <2>1. CronMatch!Low("dow") = 0 /\ CronMatch!High("dow") = 6
    BY DEF CronMatch!Low, CronMatch!High
  <2>2. v2["dow"] \in CronMatch!Denoted("dow")
          <=> \E p \in v1["dow"] : \E n \in CronMatch!Counted("dow", p) : v2["dow"] = n % 7
    BY DEF CronMatch!Denoted
  <2> DEFINE r(p) == [p EXCEPT !.a = CronMatch!Zero7(@), !.b = CronMatch!Zero7(@), !.step = CronMatch!Zero7(@)]
  <2>3. ASSUME NEW p \in v1["dow"]
        PROVE  CronMatch!PartMatch(r(p), v2["dow"], 0, 6)
                 <=> \E n \in CronMatch!Counted("dow", p) : v2["dow"] = n % 7
    <3>1. /\ p \in CronMatch!FieldPart /\ v2["dow"] \in 0 .. 6 /\ p.step < 7
          /\ p.kind = "range" => (p.a < 7 /\ p.b < 7) \/ (p.a = 7 /\ p.b = 7)
      BY <1>1, <1>2, <2>1 DEF SundaysPlain
    <3> QED
      BY <3>1, SundayListed
  <2>4. CronMatch!FieldMatch(CronMatch!Replaced(v1["dow"]), v2["dow"], 0, 6)
          <=> \E p \in v1["dow"] : CronMatch!PartMatch(r(p), v2["dow"], 0, 6)
    BY DEF CronMatch!FieldMatch, CronMatch!Replaced
  <2> HIDE DEF r
  <2> QED
    BY <2>1, <2>2, <2>3, <2>4
<1> QED
  BY <1>3, <1>4 DEF CronMatch!DueAsListed, CronMatch!IsDue

-----------------------------------------------------------------------------
(* Where nothing but x grows, and x by n at most, the total grows by n at  *)
(* most; where nothing grows the total does not.                           *)
LEMMA TotalGrows ==
  ASSUME NEW S, IsFiniteSet(S), NEW b \in [S -> Nat], NEW c \in [S -> Nat], NEW x \in S,
         NEW n \in Nat, c[x] <= b[x] + n, \A y \in S \ {x} : c[y] <= b[y]
  PROVE  Total(c, S) <= Total(b, S) + n
<1>1. Total(c, S) - c[x] <= Total(b, S) - b[x]
  BY TotalChanged
<1>2. Total(c, S) \in Nat /\ Total(b, S) \in Nat /\ c[x] \in Nat /\ b[x] \in Nat
  BY TotalNat
<1> QED
  BY <1>1, <1>2

LEMMA SameSets == \A T : Workspace!IsFiniteSet(T) <=> IsFiniteSet(T)
<1>1. ASSUME NEW T PROVE Workspace!IsFiniteSet(T) <=> IsFiniteSet(T)
  BY DEF Workspace!IsFiniteSet, IsFiniteSet
<1> QED
  BY <1>1

(* What a file counts for; what of it a write has to know of: what it has  *)
(* passed on its walk, or all of it.                                       *)
Sizes == [f \in Files |-> Workspace!Bytes(f)]
Passed(w) == [f \in Files |-> IF v2[w].at = "walk" /\ f \notin v2[w].seen
                              THEN 0 ELSE Workspace!Bytes(f)]

(* The sum and what came late cover what was passed; with nothing taken    *)
(* off, the same is under the quota once the write is let through.         *)
Covered(w) ==
  v2[w] # Workspace!Idle =>
    /\ v2[w].mode = "replace" => v2[w].existing = 0
    /\ v2[w].at = "walk" => Total(Passed(w), Files) <= v2[w].sum + v2[w].late
    /\ v2[w].at = "put" /\ v2[w].mode = "replace" =>
         Total(Passed(w), Files) + v2[w].nbytes <= QUOTA + v2[w].late

WorkspaceInv == Workspace!TypeOK /\ \A w \in Callers : Covered(w)

LEMMA UsageIs == Workspace!Usage = Total(Sizes, Files)
BY DEF Workspace!Usage, Workspace!BytesIn, Workspace!FoldSet, Workspace!MapThenFoldSet, Total, Sums,
       Pick, Sizes

LEMMA BytesNat ==
  ASSUME Workspace!ConstantsOK, Workspace!TypeOK
  PROVE  /\ Sizes \in [Files -> Nat]
         /\ \A w \in Callers : Passed(w) \in [Files -> Nat]
         /\ \A f \in Files : Workspace!Bytes(f) \in 0 .. MaxSize
BY DEF Workspace!ConstantsOK, Workspace!TypeOK, Sizes, Passed, Workspace!Bytes

LEMMA WriterFields ==
  ASSUME Workspace!ConstantsOK, Workspace!TypeOK, NEW w \in Callers, v2[w] # Workspace!Idle
  PROVE  /\ v2[w] \in Workspace!Asked
         /\ v2[w].at \in {"walk", "put"} /\ v2[w].mode \in Modes /\ v2[w].file \in Files
         /\ v2[w].nbytes \in Nat /\ v2[w].nbytes \in 0 .. MAX_WRITE /\ v2[w].seen \in SUBSET Files
         /\ v2[w].existing \in Nat /\ v2[w].sum \in Nat /\ v2[w].late \in Nat
         /\ MAX_WRITE \in Nat /\ QUOTA \in Nat /\ MaxSize \in Nat /\ MaxLate \in Nat
BY DEF Workspace!ConstantsOK, Workspace!TypeOK, Workspace!Asked

LEMMA WorkspaceInit == Workspace!ConstantsOK /\ Workspace!Init => WorkspaceInv
<1> SUFFICES ASSUME Workspace!ConstantsOK, Workspace!Init PROVE WorkspaceInv
  OBVIOUS
<1>1. Workspace!TypeOK
  BY DEF Workspace!Init, Workspace!TypeOK
<1>2. \A w \in Callers : Covered(w)
  BY DEF Workspace!Init, Covered
<1> QED
  BY <1>1, <1>2 DEF WorkspaceInv

(* n bytes come to x and nowhere else: late makes up for them.             *)
LEMMA Late ==
  ASSUME Workspace!ConstantsOK, Workspace!TypeOK, Workspace!TypeOK', NEW x \in Files, NEW n \in Nat,
         Workspace!Bytes(x)' <= Workspace!Bytes(x) + n,
         \A f \in Files \ {x} : Workspace!Bytes(f)' <= Workspace!Bytes(f),
         NEW w \in Callers, Covered(w), v2[w] # Workspace!Idle, v2'[w] # Workspace!Idle,
         v2'[w].at = v2[w].at, v2'[w].mode = v2[w].mode, v2'[w].nbytes = v2[w].nbytes,
         v2'[w].existing = v2[w].existing, v2'[w].seen = v2[w].seen, v2'[w].sum = v2[w].sum,
         v2'[w].late = v2[w].late + n
  PROVE  Covered(w)'
<1>1. Passed(w) \in [Files -> Nat]
  BY BytesNat
<1>2. \A f \in Files : Workspace!Bytes(f)' \in Nat /\ Workspace!Bytes(f) \in Nat
  BY DEF Workspace!ConstantsOK, Workspace!TypeOK, Workspace!Bytes
<1>3. Passed(w)' \in [Files -> Nat]
  BY <1>2 DEF Passed
<1>4. Passed(w)'[x] <= Passed(w)[x] + n
  BY <1>2 DEF Passed
<1>5. \A f \in Files \ {x} : Passed(w)'[f] <= Passed(w)[f]
  BY <1>2 DEF Passed
<1>6. IsFiniteSet(Files)
  BY SameSets DEF Workspace!ConstantsOK
<1>7. Total(Passed(w)', Files) <= Total(Passed(w), Files) + n
  BY <1>1, <1>3, <1>4, <1>5, <1>6, TotalGrows
<1>8. Total(Passed(w)', Files) \in Nat /\ Total(Passed(w), Files) \in Nat
  BY <1>1, <1>3, <1>6, TotalNat
<1>9. v2[w].sum \in Nat /\ v2[w].late \in Nat /\ v2[w].nbytes \in Nat /\ QUOTA \in Nat
  BY WriterFields
<1>10. v2[w].at = "walk" => Total(Passed(w)', Files) <= v2[w].sum + (v2[w].late + n)
  BY <1>7, <1>8, <1>9 DEF Covered
<1>11. v2[w].at = "put" /\ v2[w].mode = "replace" =>
         Total(Passed(w)', Files) + v2[w].nbytes <= QUOTA + (v2[w].late + n)
  BY <1>7, <1>8, <1>9 DEF Covered
<1> QED
  BY <1>10, <1>11 DEF Covered

(* What a call that brings n bytes to x leaves of the other writers.       *)
LEMMA Others ==
  ASSUME Workspace!ConstantsOK, WorkspaceInv, Workspace!TypeOK', NEW x \in Files, NEW n \in Nat,
         Workspace!Bytes(x)' <= Workspace!Bytes(x) + n,
         \A f \in Files \ {x} : Workspace!Bytes(f)' <= Workspace!Bytes(f),
         NEW w \in Callers, v2'[w] = Workspace!Meanwhile(n)[w]
  PROVE  Covered(w)'
<1>1. CASE v2[w] = Workspace!Idle
  BY <1>1 DEF Workspace!Meanwhile, Covered
<1>2. CASE v2[w] # Workspace!Idle
  <2>1. v2'[w] = [v2[w] EXCEPT !.late = @ + n]
    BY <1>2 DEF Workspace!Meanwhile
  <2>2. v2[w] \in Workspace!Asked
    BY <1>2, WriterFields DEF WorkspaceInv
  <2>3. /\ v2'[w].at = v2[w].at /\ v2'[w].mode = v2[w].mode /\ v2'[w].nbytes = v2[w].nbytes
        /\ v2'[w].existing = v2[w].existing /\ v2'[w].seen = v2[w].seen /\ v2'[w].sum = v2[w].sum
        /\ v2'[w].late = v2[w].late + n
    BY <2>1, <2>2 DEF Workspace!Asked
  <2>4. v2'[w] # Workspace!Idle
    BY <2>2, <2>3 DEF Workspace!Asked, Workspace!Idle
  <2> QED
    BY <1>2, <2>3, <2>4, Late DEF WorkspaceInv
<1> QED
  BY <1>1, <1>2

LEMMA MeanwhileTyped ==
  ASSUME Workspace!ConstantsOK, Workspace!TypeOK, NEW n \in Nat, Workspace!Room(n)
  PROVE  Workspace!Meanwhile(n) \in [Callers -> {Workspace!Idle} \cup Workspace!Asked]
<1>1. ASSUME NEW w \in Callers, v2[w] # Workspace!Idle
      PROVE  [v2[w] EXCEPT !.late = @ + n] \in Workspace!Asked
  <2>1. v2[w] \in Workspace!Asked /\ v2[w].late \in Nat /\ MaxLate \in Nat
    BY <1>1, WriterFields
  <2>2. v2[w].late + n \in 0 .. MaxLate
    BY <1>1, <2>1 DEF Workspace!Room
  <2> QED
    BY <2>1, <2>2 DEF Workspace!Asked
<1> QED
  BY <1>1 DEF Workspace!Meanwhile

LEMMA FsWriteStep ==
  ASSUME Workspace!ConstantsOK, WorkspaceInv, NEW w \in Callers, NEW f \in Files, NEW mode \in Modes,
         NEW n \in 0 .. MAX_WRITE, Workspace!FsWrite(w, f, mode, n)
  PROVE  WorkspaceInv'
<1> DEFINE r == [at |-> "walk", mode |-> mode, file |-> f, nbytes |-> n, seen |-> {}, sum |-> 0,
                 existing |-> IF mode = "append" THEN Workspace!Bytes(f) ELSE 0, late |-> 0]
<1>1. r \in Workspace!Asked /\ r.late = 0 /\ r.sum = 0 /\ r.at = "walk" /\ r.seen = {}
      /\ (r.mode = "replace" => r.existing = 0)
  BY BytesNat DEF Workspace!Asked, Workspace!ConstantsOK, WorkspaceInv
<1>2. v1' = v1 /\ v2' = [v2 EXCEPT ![w] = r]
  BY DEF Workspace!FsWrite
<1> HIDE DEF r
<1>3. v2'[w] = r /\ (\A d \in Callers : d # w => v2'[d] = v2[d])
      /\ v2' \in [Callers -> {Workspace!Idle} \cup Workspace!Asked]
  BY <1>1, <1>2 DEF WorkspaceInv, Workspace!TypeOK
<1>4. Workspace!TypeOK'
  BY <1>2, <1>3 DEF WorkspaceInv, Workspace!TypeOK
<1>5. ASSUME NEW d \in Callers, d # w PROVE Covered(d)'
  BY <1>2, <1>3, <1>5 DEF WorkspaceInv, Covered, Passed, Workspace!Bytes
<1>6. Covered(w)'
  <2>1. Passed(w)' = [x \in Files |-> 0]
    BY <1>1, <1>3 DEF Passed
  <2>2. Total(Passed(w)', Files) = 0
    BY <2>1, TotalZero, SameSets DEF Workspace!ConstantsOK
  <2> QED
    BY <1>1, <1>3, <2>2 DEF Covered
<1> QED
  BY <1>4, <1>5, <1>6 DEF WorkspaceInv

LEMMA WalkStep ==
  ASSUME Workspace!ConstantsOK, WorkspaceInv, NEW w \in Callers, NEW f \in Files, Workspace!Walk(w, f)
  PROVE  WorkspaceInv'
<1> DEFINE r == [v2[w] EXCEPT !.seen = @ \cup {f}, !.sum = @ + Workspace!Bytes(f)]
           n == Workspace!Bytes(f)
<1>1. v2[w].at = "walk" /\ v2[w] # Workspace!Idle /\ f \notin v2[w].seen
  BY DEF Workspace!Walk, Workspace!Idle
<1>2. /\ v2[w] \in Workspace!Asked /\ v2[w].seen \in SUBSET Files /\ v2[w].sum \in Nat
      /\ v2[w].late \in Nat
  BY <1>1, WriterFields DEF WorkspaceInv
<1>3. n \in Nat
  BY BytesNat DEF WorkspaceInv, Workspace!ConstantsOK
<1>4. /\ r \in Workspace!Asked /\ r.at = "walk" /\ r.seen = v2[w].seen \cup {f}
      /\ r.sum = v2[w].sum + n /\ r.late = v2[w].late /\ r.mode = v2[w].mode
      /\ r.existing = v2[w].existing
  <2> DEFINE s == v2[w].sum + n
             S == v2[w].seen \cup {f}
             old == v2[w]
  <2>1. s \in Nat /\ S \in SUBSET Files /\ old \in Workspace!Asked /\ old.at = "walk"
    BY <1>1, <1>2, <1>3
  <2> HIDE DEF s, S, old
  <2>2. /\ [old EXCEPT !.seen = S, !.sum = s] \in Workspace!Asked
        /\ [old EXCEPT !.seen = S, !.sum = s].at = "walk"
        /\ [old EXCEPT !.seen = S, !.sum = s].seen = S
        /\ [old EXCEPT !.seen = S, !.sum = s].sum = s
        /\ [old EXCEPT !.seen = S, !.sum = s].late = old.late
        /\ [old EXCEPT !.seen = S, !.sum = s].mode = old.mode
        /\ [old EXCEPT !.seen = S, !.sum = s].existing = old.existing
    BY ONLY <2>1 DEF Workspace!Asked
  <2>3. r = [old EXCEPT !.seen = S, !.sum = s]
    BY DEF s, S, old
  <2> HIDE DEF r
  <2> QED
    BY ONLY <2>2, <2>3 DEF s, S, old
<1>5. v1' = v1 /\ v2' = [v2 EXCEPT ![w] = r]
  BY DEF Workspace!Walk
<1> HIDE DEF r, n
<1>6. v2'[w] = r /\ (\A d \in Callers : d # w => v2'[d] = v2[d])
      /\ v2' \in [Callers -> {Workspace!Idle} \cup Workspace!Asked]
  BY <1>4, <1>5 DEF WorkspaceInv, Workspace!TypeOK
<1>7. Workspace!TypeOK'
  BY <1>5, <1>6 DEF WorkspaceInv, Workspace!TypeOK
<1>8. ASSUME NEW d \in Callers, d # w PROVE Covered(d)'
  BY <1>5, <1>6, <1>8 DEF WorkspaceInv, Covered, Passed, Workspace!Bytes
<1>9. Covered(w)'
  <2>1. Passed(w) \in [Files -> Nat] /\ Passed(w)' \in [Files -> Nat]
    <3>1. \A x \in Files : Workspace!Bytes(x)' \in Nat
      BY <1>7 DEF Workspace!ConstantsOK, Workspace!TypeOK, Workspace!Bytes
    <3> QED
      BY <3>1, BytesNat DEF WorkspaceInv, Passed
  <2>2. \A x \in Files : Passed(w)'[x] = IF x = f THEN n ELSE Passed(w)[x]
    BY <1>1, <1>4, <1>5, <1>6 DEF Passed, Workspace!Bytes, n
  <2>3. Passed(w)'[f] <= Passed(w)[f] + n
    BY <1>3, <2>1, <2>2
  <2>4. \A x \in Files \ {f} : Passed(w)'[x] <= Passed(w)[x]
    BY <2>1, <2>2
  <2>5. IsFiniteSet(Files)
    BY SameSets DEF Workspace!ConstantsOK
  <2>6. Total(Passed(w)', Files) <= Total(Passed(w), Files) + n
    BY <1>3, <2>1, <2>3, <2>4, <2>5, TotalGrows
  <2>7. Total(Passed(w)', Files) \in Nat /\ Total(Passed(w), Files) \in Nat
    BY <2>1, <2>5, TotalNat
  <2>8. Total(Passed(w), Files) <= v2[w].sum + v2[w].late
    BY <1>1 DEF WorkspaceInv, Covered
  <2>9. Total(Passed(w)', Files) <= r.sum + r.late
    BY <1>2, <1>3, <1>4, <2>6, <2>7, <2>8
  <2>10. r.mode = "replace" => r.existing = 0
    BY <1>1, <1>4 DEF WorkspaceInv, Covered
  <2> QED
    BY <1>4, <1>6, <2>9, <2>10 DEF Covered
<1> QED
  BY <1>7, <1>8, <1>9 DEF WorkspaceInv

(* All has been passed, and the sum fits.                                  *)
LEMMA DecideStep ==
  ASSUME Workspace!ConstantsOK, WorkspaceInv, NEW w \in Callers, Workspace!Decide(w)
  PROVE  WorkspaceInv'
<1> DEFINE through == [v2[w] EXCEPT !.at = "put", !.seen = {}, !.sum = 0, !.existing = 0]
           fits == Workspace!Fits(v2[w])
           r == IF fits THEN through ELSE Workspace!Idle
<1>1. v2[w].at = "walk" /\ v2[w] # Workspace!Idle /\ v2[w].seen = Files
  BY DEF Workspace!Decide, Workspace!Idle
<1>2. /\ v2[w] \in Workspace!Asked /\ v2[w].sum \in Nat /\ v2[w].late \in Nat
      /\ v2[w].nbytes \in Nat /\ QUOTA \in Nat
  BY <1>1, WriterFields DEF WorkspaceInv
<1>3. /\ through \in Workspace!Asked /\ through.at = "put" /\ through.late = v2[w].late
      /\ through.nbytes = v2[w].nbytes /\ through.mode = v2[w].mode /\ through.existing = 0
  <2> DEFINE old == v2[w]
             half == [old EXCEPT !.at = "put", !.seen = {}]
  <2>1. old \in Workspace!Asked /\ 0 \in 0 .. MaxSize
    BY <1>2 DEF Workspace!ConstantsOK
  <2> HIDE DEF old
  <2>2. half \in Workspace!Asked /\ half.at = "put" /\ half.late = old.late
        /\ half.nbytes = old.nbytes /\ half.mode = old.mode
    BY ONLY <2>1 DEF Workspace!Asked, half
  <2>3. through = [half EXCEPT !.sum = 0, !.existing = 0]
    BY DEF old
  <2> HIDE DEF half, through
  <2>4. /\ [half EXCEPT !.sum = 0, !.existing = 0] \in Workspace!Asked
        /\ [half EXCEPT !.sum = 0, !.existing = 0].at = "put"
        /\ [half EXCEPT !.sum = 0, !.existing = 0].existing = 0
        /\ [half EXCEPT !.sum = 0, !.existing = 0].late = half.late
        /\ [half EXCEPT !.sum = 0, !.existing = 0].nbytes = half.nbytes
        /\ [half EXCEPT !.sum = 0, !.existing = 0].mode = half.mode
    BY ONLY <2>1, <2>2 DEF Workspace!Asked
  <2> QED
    BY ONLY <2>2, <2>3, <2>4 DEF old
<1>4. v1' = v1 /\ v2' = [v2 EXCEPT ![w] = r]
  BY DEF Workspace!Decide
<1>5. fits /\ v2[w].mode = "replace" => v2[w].sum + v2[w].nbytes <= QUOTA
  <2>1. v2[w].mode = "replace" => v2[w].existing = 0
    BY <1>1 DEF WorkspaceInv, Covered
  <2> QED
    BY <1>2, <2>1 DEF Workspace!Fits
<1> HIDE DEF through, fits
<1>6. v2'[w] = r /\ (\A d \in Callers : d # w => v2'[d] = v2[d])
      /\ v2' \in [Callers -> {Workspace!Idle} \cup Workspace!Asked]
  BY <1>3, <1>4 DEF WorkspaceInv, Workspace!TypeOK
<1>7. Workspace!TypeOK'
  BY <1>4, <1>6 DEF WorkspaceInv, Workspace!TypeOK
<1>8. ASSUME NEW d \in Callers, d # w PROVE Covered(d)'
  BY <1>4, <1>6, <1>8 DEF WorkspaceInv, Covered, Passed, Workspace!Bytes
<1>9. Covered(w)'
  <2>1. CASE ~ fits
    BY <1>6, <2>1 DEF Covered
  <2>2. CASE fits
    <3>1. v2'[w] = through
      BY <1>6, <2>2
    <3>2. Passed(w)' = Passed(w)
      BY <1>1, <1>3, <1>4, <3>1 DEF Passed, Workspace!Bytes
    <3>3. Total(Passed(w), Files) <= v2[w].sum + v2[w].late
      BY <1>1 DEF WorkspaceInv, Covered
    <3>4. Total(Passed(w), Files) \in Nat
      BY BytesNat, SameSets, TotalNat DEF WorkspaceInv, Workspace!ConstantsOK
    <3>5. v2[w].mode = "replace" =>
            Total(Passed(w), Files) + v2[w].nbytes <= QUOTA + v2[w].late
      BY <1>2, <1>5, <2>2, <3>3, <3>4
    <3> QED
      BY <1>3, <3>1, <3>2, <3>5 DEF Covered
  <2> QED
    BY <2>1, <2>2
<1> QED
  BY <1>7, <1>8, <1>9 DEF WorkspaceInv

LEMMA PutStep ==
  ASSUME Workspace!ConstantsOK, WorkspaceInv, NEW w \in Callers, NEW n \in 0 .. MAX_WRITE,
         Workspace!Put(w, n)
  PROVE  WorkspaceInv'
<1>1. v2[w] # Workspace!Idle
  BY DEF Workspace!Put, Workspace!Idle
<1>f. PICK f \in Files : f = v2[w].file
  BY <1>1, WriterFields DEF WorkspaceInv
<1>2. f \in Files /\ n \in Nat /\ Workspace!Bytes(f) \in Nat
  BY BytesNat DEF WorkspaceInv, Workspace!ConstantsOK
<1>n. PICK new \in Nat : new = n + (IF v2[w].mode = "append" THEN Workspace!Bytes(f) ELSE 0)
  BY <1>2
<1>3. /\ new \in 0 .. MaxSize /\ new <= Workspace!Bytes(f) + n
  BY <1>2, <1>f, <1>n DEF Workspace!Put, Workspace!ConstantsOK
<1>4. v1' = [v1 EXCEPT ![f] = new] /\ v2' = [Workspace!Meanwhile(n) EXCEPT ![w] = Workspace!Idle]
      /\ Workspace!Room(n)
  BY <1>f, <1>n DEF Workspace!Put
<1>5. Workspace!Meanwhile(n) \in [Callers -> {Workspace!Idle} \cup Workspace!Asked]
  BY <1>2, <1>4, MeanwhileTyped DEF WorkspaceInv
<1>6. v2'[w] = Workspace!Idle /\ (\A d \in Callers : d # w => v2'[d] = Workspace!Meanwhile(n)[d])
  BY <1>4, <1>5
<1>7. Workspace!TypeOK'
  BY <1>2, <1>3, <1>4, <1>5 DEF WorkspaceInv, Workspace!TypeOK
<1>8. Workspace!Bytes(f)' <= Workspace!Bytes(f) + n
      /\ \A x \in Files \ {f} : Workspace!Bytes(x)' <= Workspace!Bytes(x)
  <2>1. v1'[f] = new /\ new # Missing /\ \A x \in Files \ {f} : v1'[x] = v1[x]
    BY <1>2, <1>3, <1>4 DEF WorkspaceInv, Workspace!TypeOK, Workspace!ConstantsOK
  <2>2. \A x \in Files : Workspace!Bytes(x) \in Nat
    BY BytesNat DEF WorkspaceInv, Workspace!ConstantsOK
  <2>3. Workspace!Bytes(f)' = new /\ \A x \in Files \ {f} : Workspace!Bytes(x)' = Workspace!Bytes(x)
    BY <2>1 DEF Workspace!Bytes
  <2> QED
    BY <1>3, <2>2, <2>3
<1>9. ASSUME NEW d \in Callers PROVE Covered(d)'
  <2>1. CASE d = w
    BY <1>6, <2>1 DEF Covered
  <2>2. CASE d # w
    <3>1. v2'[d] = Workspace!Meanwhile(n)[d]
      BY <1>6, <2>2
    <3> QED
      BY <1>2, <1>7, <1>8, <3>1, Others
  <2> QED
    BY <2>1, <2>2
<1> QED
  BY <1>7, <1>9 DEF WorkspaceInv

(* A move, and a download: bytes that come to g.                           *)
LEMMA ComeStep ==
  ASSUME Workspace!ConstantsOK, WorkspaceInv, NEW g \in Files, NEW n \in Nat, Workspace!Room(n),
         v1' \in [Files -> 0 .. MaxSize \cup {Missing}], v2' = Workspace!Meanwhile(n),
         Workspace!Bytes(g)' <= Workspace!Bytes(g) + n,
         \A x \in Files \ {g} : Workspace!Bytes(x)' <= Workspace!Bytes(x)
  PROVE  WorkspaceInv'
<1>1. Workspace!TypeOK'
  BY MeanwhileTyped DEF WorkspaceInv, Workspace!TypeOK
<1>2. ASSUME NEW d \in Callers PROVE Covered(d)'
  BY <1>1, Others
<1> QED
  BY <1>1, <1>2 DEF WorkspaceInv

LEMMA MoveStep ==
  ASSUME Workspace!ConstantsOK, WorkspaceInv, NEW f \in Files, NEW g \in Files, Workspace!FsMove(f, g)
  PROVE  WorkspaceInv'
<1> DEFINE n == Workspace!Bytes(f)
<1>1. \A x \in Files : Workspace!Bytes(x) \in Nat
  BY BytesNat DEF WorkspaceInv, Workspace!ConstantsOK
<1>2. v1 \in [Files -> 0 .. MaxSize \cup {Missing}] /\ v1[f] # Missing
  BY DEF Workspace!FsMove, WorkspaceInv, Workspace!TypeOK
<1>3. v1' = (IF f = g THEN v1 ELSE [v1 EXCEPT ![g] = v1[f], ![f] = Missing])
      /\ v2' = Workspace!Meanwhile(n) /\ Workspace!Room(n)
  BY DEF Workspace!FsMove
<1>4. v1' \in [Files -> 0 .. MaxSize \cup {Missing}]
  BY <1>2, <1>3
<1>5. CASE f = g
  <2>1. \A x \in Files : Workspace!Bytes(x)' = Workspace!Bytes(x)
    BY <1>3, <1>5 DEF Workspace!Bytes
  <2> HIDE DEF n
  <2>2. n \in Nat /\ Workspace!Bytes(g) <= Workspace!Bytes(g) + n
        /\ \A x \in Files : Workspace!Bytes(x) <= Workspace!Bytes(x)
    BY <1>1 DEF n
  <2> QED
    BY <1>3, <1>4, <2>1, <2>2, ComeStep
<1>6. CASE f # g
  <2>1. \A x \in Files : v1'[x] = IF x = f THEN Missing ELSE IF x = g THEN v1[f] ELSE v1[x]
    BY <1>2, <1>3, <1>6
  <2>2. \A x \in Files : Workspace!Bytes(x)' = IF x = f THEN 0 ELSE IF x = g THEN n ELSE Workspace!Bytes(x)
    BY <2>1 DEF Workspace!Bytes
  <2>3. n \in Nat
    BY <1>1
  <2> HIDE DEF n
  <2>4. Workspace!Bytes(g)' <= Workspace!Bytes(g) + n
        /\ \A x \in Files \ {g} : Workspace!Bytes(x)' <= Workspace!Bytes(x)
    BY <1>1, <1>6, <2>2, <2>3
  <2> QED
    BY <1>3, <1>4, <2>3, <2>4, ComeStep
<1> QED
  BY <1>5, <1>6

LEMMA FetchStep ==
  ASSUME Workspace!ConstantsOK, WorkspaceInv, NEW f \in Files, NEW n \in Fetched, Workspace!Fetch(f, n)
  PROVE  WorkspaceInv'
<1>1. n \in Nat /\ n \in 0 .. MaxSize /\ \A x \in Files : Workspace!Bytes(x) \in Nat
  BY BytesNat DEF WorkspaceInv, Workspace!ConstantsOK
<1>2. v1' = [v1 EXCEPT ![f] = n] /\ v2' = Workspace!Meanwhile(n) /\ Workspace!Room(n)
  BY DEF Workspace!Fetch
<1>3. v1'[f] = n /\ (\A x \in Files \ {f} : v1'[x] = v1[x])
      /\ v1' \in [Files -> 0 .. MaxSize \cup {Missing}]
  BY <1>1, <1>2 DEF WorkspaceInv, Workspace!TypeOK
<1>4. n # Missing
  BY <1>1 DEF Workspace!ConstantsOK
<1>5. Workspace!Bytes(f)' = n /\ \A x \in Files \ {f} : Workspace!Bytes(x)' = Workspace!Bytes(x)
  BY <1>3, <1>4 DEF Workspace!Bytes
<1>6. Workspace!Bytes(f)' <= Workspace!Bytes(f) + n
      /\ \A x \in Files \ {f} : Workspace!Bytes(x)' <= Workspace!Bytes(x)
  BY <1>1, <1>5
<1> QED
  BY <1>1, <1>2, <1>3, <1>6, ComeStep

LEMMA DeleteStep ==
  ASSUME Workspace!ConstantsOK, WorkspaceInv,
         UNCHANGED <<v1, v2>> \/ \E gone \in SUBSET Files : Workspace!FsDelete(gone)
  PROVE  WorkspaceInv'
<1>1. v2' = v2 /\ (v1' = v1 \/ \E gone \in SUBSET Files :
                                v1' = [f \in Files |-> IF f \in gone THEN Missing ELSE v1[f]])
  BY DEF Workspace!FsDelete
<1>2. Workspace!TypeOK'
  BY <1>1 DEF WorkspaceInv, Workspace!TypeOK
<1>3. \A x \in Files : Workspace!Bytes(x)' \in {0, Workspace!Bytes(x)} /\ Workspace!Bytes(x) \in Nat
  BY <1>1, BytesNat DEF WorkspaceInv, Workspace!Bytes, Workspace!ConstantsOK
<1>4. \A x \in Files : Workspace!Bytes(x)' <= Workspace!Bytes(x)
      /\ Workspace!Bytes(x)' <= Workspace!Bytes(x) + 0
  BY <1>3
<1>5. ASSUME NEW d \in Callers PROVE Covered(d)'
  <2>1. CASE v2[d] = Workspace!Idle
    BY <1>1, <2>1 DEF Covered
  <2>2. CASE v2[d] # Workspace!Idle
    <3>1. v2[d].file \in Files /\ v2[d].late \in Nat
      BY <2>2, WriterFields DEF WorkspaceInv
    <3>2. v2'[d] = v2[d] /\ v2[d].late = v2[d].late + 0
      BY <1>1, <3>1
    <3>3. Covered(d)
      BY DEF WorkspaceInv
    <3> QED
      BY <1>2, <1>4, <2>2, <3>1, <3>2, <3>3, Late DEF WorkspaceInv
  <2> QED
    BY <2>1, <2>2
<1> QED
  BY <1>2, <1>5 DEF WorkspaceInv

LEMMA WorkspaceStep ==
  ASSUME Workspace!ConstantsOK, WorkspaceInv, Workspace!Next
  PROVE  WorkspaceInv'
<1>1. ASSUME NEW w \in Callers, NEW f \in Files, NEW mode \in Modes, NEW n \in 0 .. MAX_WRITE,
             Workspace!FsWrite(w, f, mode, n)
      PROVE  WorkspaceInv'
  BY <1>1, FsWriteStep
<1>2. ASSUME NEW w \in Callers, NEW f \in Files, Workspace!Walk(w, f) PROVE WorkspaceInv'
  BY <1>2, WalkStep
<1>3. ASSUME NEW w \in Callers, Workspace!Decide(w) PROVE WorkspaceInv'
  BY <1>3, DecideStep
<1>4. ASSUME NEW w \in Callers, NEW n \in 0 .. MAX_WRITE, Workspace!Put(w, n) PROVE WorkspaceInv'
  BY <1>4, PutStep
<1>5. ASSUME NEW f \in Files, NEW g \in Files, Workspace!FsMove(f, g) PROVE WorkspaceInv'
  BY <1>5, MoveStep
<1>6. ASSUME NEW gone \in SUBSET Files, Workspace!FsDelete(gone) PROVE WorkspaceInv'
  BY <1>6, DeleteStep
<1>7. ASSUME NEW f \in Files, NEW n \in Fetched, Workspace!Fetch(f, n) PROVE WorkspaceInv'
  BY <1>7, FetchStep
<1> QED
  BY <1>1, <1>2, <1>3, <1>4, <1>5, <1>6, <1>7 DEF Workspace!Next

(* A write that is let through has passed every file.                      *)
LEMMA QuotaBounds ==
  ASSUME Workspace!ConstantsOK, WorkspaceInv
  PROVE  Workspace!OvershootBounded
<1> SUFFICES ASSUME NEW w \in Callers, v2[w].at = "put", v2[w].mode = "replace"
             PROVE  Workspace!Usage + v2[w].nbytes <= QUOTA + v2[w].late
  BY DEF Workspace!OvershootBounded
<1>1. v2[w] # Workspace!Idle
  BY DEF Workspace!Idle
<1>2. Passed(w) = Sizes
  BY DEF Passed, Sizes
<1>3. Total(Sizes, Files) + v2[w].nbytes <= QUOTA + v2[w].late
  BY <1>1, <1>2 DEF WorkspaceInv, Covered
<1> QED
  BY <1>3, UsageIs

-----------------------------------------------------------------------------
LEMMA McpInit == McpClient!ConstantsOK /\ McpClient!Init => McpClient!IInv
<1> SUFFICES ASSUME McpClient!ConstantsOK, McpClient!Init PROVE McpClient!IInv
  OBVIOUS
<1>1. v4 = [id |-> 0, proto |-> Offered, ids |-> 0, unread |-> FALSE]
  BY DEF McpClient!Init, McpClient!NewServer, McpClient!NoSession
<1>2. v4 \in [id : 0 .. MaxIds, proto : Protocols, ids : 0 .. MaxIds, unread : BOOLEAN]
  BY <1>1 DEF McpClient!ConstantsOK
<1>3. v1 = "idle" /\ v2 = 0 /\ v2 \in 0 .. MaxIds /\ v3 \in Protocols /\ v6 = "nothing"
  BY DEF McpClient!Init, McpClient!NoSession, McpClient!ConstantsOK
<1>4. v5 \in BOOLEAN /\ ~ v5
  BY Zenon DEF McpClient!Init
<1>5. McpClient!TypeOK
  BY <1>2, <1>3, <1>4 DEF McpClient!TypeOK
<1> QED
  BY <1>1, <1>3, <1>4, <1>5 DEF McpClient!Init, McpClient!IInv, McpClient!InStep, McpClient!StaysInSession

LEMMA McpStep ==
  ASSUME McpClient!ConstantsOK, McpClient!IInv, McpClient!Next
  PROVE  McpClient!IInv'
<1> DEFINE Server == [id : 0 .. MaxIds, proto : Protocols, ids : 0 .. MaxIds, unread : BOOLEAN]
<1> USE DEF McpClient!ConstantsOK, McpClient!IInv, McpClient!TypeOK, McpClient!InStep,
            McpClient!StaysInSession, McpClient!NoSession, McpClient!Answer, McpClient!Stray
<1>0. ASSUME NEW new \in BOOLEAN, new => v4.ids < MaxIds
      PROVE  /\ McpClient!Renewed(new) \in Server
             /\ McpClient!Renewed(new).proto = v4.proto
             /\ McpClient!Renewed(new).unread = v4.unread
             /\ v2 = v4.id => McpClient!Id(McpClient!Issued(new)) = McpClient!Renewed(new).id
             /\ McpClient!Id(McpClient!Issued(new)) \in 0 .. MaxIds
  <2>1. CASE new
    <3>1. McpClient!Issued(new) = v4.ids + 1 /\ v4.ids + 1 \in 1 .. MaxIds
      BY <1>0, <2>1 DEF McpClient!Issued
    <3>2. McpClient!Renewed(new) = [v4 EXCEPT !.ids = v4.ids + 1, !.id = v4.ids + 1]
      BY <2>1, <3>1 DEF McpClient!Renewed
    <3>3. McpClient!Id(McpClient!Issued(new)) = v4.ids + 1
      BY <3>1 DEF McpClient!Id
    <3>4. v4 \in Server /\ v4.ids + 1 \in 0 .. MaxIds
      BY <3>1
    <3> DEFINE i == v4.ids + 1
    <3> HIDE DEF i
    <3>5. McpClient!Renewed(new) = [v4 EXCEPT !.ids = i, !.id = i]
      BY <3>2 DEF i
    <3>6. i \in 0 .. MaxIds
      BY <3>4 DEF i
    <3>7. /\ [v4 EXCEPT !.ids = i, !.id = i] \in Server
          /\ [v4 EXCEPT !.ids = i, !.id = i].proto = v4.proto
          /\ [v4 EXCEPT !.ids = i, !.id = i].unread = v4.unread
          /\ [v4 EXCEPT !.ids = i, !.id = i].id = i
      BY ONLY <3>4, <3>6
    <3> QED
      BY ONLY <3>3, <3>5, <3>6, <3>7 DEF i
  <2>2. CASE ~ new
    BY <1>0, <2>2 DEF McpClient!Renewed, McpClient!Issued, McpClient!Id
  <2> QED
    BY <2>1, <2>2
<1>1. CASE McpClient!Begin
  <2>1. v4' = [id |-> 0, proto |-> Offered, ids |-> 0, unread |-> FALSE]
    BY <1>1 DEF McpClient!Begin, McpClient!NewServer
  <2>2. v4' \in Server /\ v4'.id = 0 /\ ~ v4'.unread
    BY <2>1
  <2> QED
    BY <1>1, <2>2 DEF McpClient!Begin
<1>2. ASSUME NEW new \in BOOLEAN, NEW version \in Protocols, McpClient!Initialize(new, version)
      PROVE  McpClient!IInv'
  <2> DEFINE s == McpClient!Renewed(new)
             j == McpClient!Id(McpClient!Issued(new))
  <2>1. v1 = "initialize" /\ (new => v4.ids < MaxIds)
    BY <1>2 DEF McpClient!Initialize
  <2>2. v2 = v4.id /\ ~ v4.unread
    BY <2>1
  <2>3. s \in Server /\ j = s.id /\ s.unread = v4.unread
    BY <1>0, <2>1, <2>2
  <2>4. /\ v1' = "initialized" /\ v2' = j /\ v3' = version /\ v4' = [s EXCEPT !.proto = version]
        /\ v5' = v5 /\ v6' = v6
    BY <1>2 DEF McpClient!Initialize
  <2> HIDE DEF s, j
  <2> QED
    BY <2>2, <2>3, <2>4
<1>3. ASSUME NEW arrives \in BOOLEAN, NEW new \in BOOLEAN, McpClient!Notify(arrives, new)
      PROVE  McpClient!IInv'
  <2> DEFINE s == McpClient!Renewed(new)
             j == McpClient!Id(McpClient!Issued(new))
  <2>1. v1 = "initialized" /\ (new => v4.ids < MaxIds)
    BY <1>3 DEF McpClient!Notify
  <2>2. v2 = v4.id /\ v3 = v4.proto /\ ~ v4.unread
    BY <2>1
  <2>3. ~ v5
    BY <2>2
  <2>4. s \in Server /\ s.proto = v4.proto /\ j = s.id
    BY <1>0, <2>1, <2>2
  <2>5. ~ new => v2 = s.id
    <3>1. ~ new => j = v2
      BY DEF McpClient!Issued, McpClient!Id
    <3> QED
      BY <2>4, <3>1
  <2>6. /\ v1' = "request" /\ v2' = v2 /\ v3' = v3 /\ v4' = [s EXCEPT !.unread = new] /\ v6' = v6
    BY <1>3 DEF McpClient!Notify
  <2>7. v5' = v5
    BY <1>3, <2>2 DEF McpClient!Notify
  <2> HIDE DEF s, j
  <2>8. v4' \in Server /\ v4'.proto = s.proto /\ v4'.id = s.id /\ v4'.unread = new
    BY <2>4, <2>6
  <2> QED
    BY <2>2, <2>3, <2>4, <2>5, <2>6, <2>7, <2>8
<1>4. ASSUME NEW new \in BOOLEAN, NEW events \in McpClient!Streams, McpClient!Request(new, events)
      PROVE  McpClient!IInv'
  <2> DEFINE s == McpClient!Renewed(new)
             j == McpClient!Id(McpClient!Issued(new))
  <2>1. v1 = "request" /\ (new => v4.ids < MaxIds)
    BY <1>4 DEF McpClient!Request
  <2>2. s \in Server /\ s.unread = v4.unread /\ j \in 0 .. MaxIds
    BY <1>0, <2>1
  <2>3. v1' = "idle" /\ v2' = j /\ v3' = v3 /\ v4' = s /\ v6' \in {"result", "failed"}
    BY <1>4 DEF McpClient!Request
  <2>4. v5' = (v5 \/ v2 # v4.id \/ v3 # v4.proto)
    BY <1>4 DEF McpClient!Request
  <2>5. v3 = v4.proto /\ (v2 = v4.id \/ v4.unread)
    BY <2>1
  <2>6. v5' => v4.unread
    BY <2>4, <2>5
  <2>7. v5' \in BOOLEAN
    BY Zenon, <2>4
  <2> HIDE DEF s, j
  <2> QED
    BY <2>2, <2>3, <2>6, <2>7
<1>5. CASE McpClient!Fail
  BY <1>5 DEF McpClient!Fail
<1> QED
  BY <1>1, <1>2, <1>3, <1>4, <1>5 DEF McpClient!Next, McpClient!mcp_tools, McpClient!mcp_call

-----------------------------------------------------------------------------
LEMMA SkillsInit == Skills!ConstantsOK /\ Skills!Init => Skills!IInv
BY DEF Skills!ConstantsOK, Skills!Init, Skills!IInv, Skills!TypeOK, Skills!CategoriesNotSplit,
       Skills!OneAtATime, Skills!Canonical, Skills!ExistingCategories

LEMMA SkillsStep ==
  ASSUME Skills!ConstantsOK, Skills!IInv, Skills!Next
  PROVE  Skills!IInv'
<1> DEFINE Writing == [at : {"truncate", "flush"}, name : Skill, category : Spellings]
<1>0. /\ v1 \in [Skill -> Spellings \cup {Missing, Torn}]
      /\ v2 \in [Callers -> {Skills!Idle} \cup Writing]
      /\ Skills!Idle \notin Writing
  BY DEF Skills!IInv, Skills!TypeOK, Skills!Idle
<1>1. ASSUME NEW w \in Callers, NEW n \in Skill, NEW c \in Spellings, Skills!SkillWrite(w, n, c)
      PROVE  Skills!IInv'
  <2> DEFINE d == Skills!CanonicalCategory(c)
             r == [at |-> "truncate", name |-> n, category |-> d]
  <2>1. v1' = v1 /\ v2' = [v2 EXCEPT ![w] = r] /\ \A v \in Callers : v2[v] = Skills!Idle
    BY <1>1 DEF Skills!SkillWrite
  <2>2. d \in Spellings /\ \A e \in Skills!ExistingCategories : Folded(e) = Folded(d) => e = d
    <3> DEFINE same == {e \in Skills!ExistingCategories : Folded(e) = Folded(c)}
    <3>1. CASE same = {}
      BY <3>1 DEF Skills!CanonicalCategory
    <3>2. CASE same # {}
      <4>1. d \in same
        BY <3>2 DEF Skills!CanonicalCategory
      <4>2. d \in Skills!ExistingCategories /\ Folded(d) = Folded(c)
        BY <4>1
      <4> QED
        BY <4>2 DEF Skills!IInv, Skills!CategoriesNotSplit, Skills!ExistingCategories
    <3> QED
      BY <3>1, <3>2
  <2> HIDE DEF d
  <2>3. r \in Writing /\ r.category = d
    BY <2>2
  <2> HIDE DEF r
  <2>4. v2' \in [Callers -> {Skills!Idle} \cup Writing]
    BY <1>0, <2>1, <2>3
  <2>5. \A v \in Callers : v2'[v] # Skills!Idle => v = w /\ v2'[v].category = d
    BY <1>0, <2>1, <2>3
  <2>6. Skills!ExistingCategories' = Skills!ExistingCategories
    BY <2>1 DEF Skills!ExistingCategories
  <2>7. Skills!TypeOK' /\ Skills!OneAtATime'
    BY <1>0, <2>1, <2>4, <2>5 DEF Skills!TypeOK, Skills!OneAtATime
  <2>8. Skills!CategoriesNotSplit'
    BY <2>6 DEF Skills!IInv, Skills!CategoriesNotSplit
  <2>9. Skills!Canonical'
    BY <2>2, <2>5, <2>6 DEF Skills!Canonical
  <2> QED
    BY <2>7, <2>8, <2>9 DEF Skills!IInv
<1>2. ASSUME NEW w \in Callers, Skills!Truncate(w) PROVE Skills!IInv'
  <2> DEFINE n == v2[w].name
  <2>1. /\ v2[w].at = "truncate" /\ v1' = [v1 EXCEPT ![n] = Torn]
        /\ v2' = [v2 EXCEPT ![w] = [v2[w] EXCEPT !.at = "flush"]]
    BY <1>2 DEF Skills!Truncate
  <2>2. v2[w] \in Writing
    BY <1>0, <2>1 DEF Skills!Idle
  <2>3. [v2[w] EXCEPT !.at = "flush"] \in Writing /\ [v2[w] EXCEPT !.at = "flush"].category = v2[w].category
    BY <2>2
  <2>4. n \in Skill
    BY <2>2
  <2>5. v2' \in [Callers -> {Skills!Idle} \cup Writing]
    BY <1>0, <2>1, <2>3
  <2>6. \A v \in Callers : v2'[v] # Skills!Idle => v2[v] # Skills!Idle /\ v2'[v].category = v2[v].category
    BY <1>0, <2>1, <2>2, <2>3
  <2> HIDE DEF n
  <2>7. v1' \in [Skill -> Spellings \cup {Missing, Torn}] /\ \A m \in Skill : v1'[m] \in {v1[m], Torn}
    BY <1>0, <2>1, <2>4
  <2>8. Skills!ExistingCategories' \subseteq Skills!ExistingCategories
    BY <1>0, <2>7 DEF Skills!ExistingCategories, Skills!ConstantsOK
  <2>9. Skills!TypeOK' /\ Skills!OneAtATime'
    BY <2>5, <2>6, <2>7 DEF Skills!IInv, Skills!TypeOK, Skills!OneAtATime
  <2>10. Skills!CategoriesNotSplit'
    BY <2>8 DEF Skills!IInv, Skills!CategoriesNotSplit
  <2>11. Skills!Canonical'
    BY <2>6, <2>8 DEF Skills!IInv, Skills!Canonical
  <2> QED
    BY <2>9, <2>10, <2>11 DEF Skills!IInv
<1>3. ASSUME NEW w \in Callers, Skills!Flush(w) PROVE Skills!IInv'
  <2> DEFINE n == v2[w].name
             c == v2[w].category
  <2>1. /\ v2[w].at = "flush" /\ v2' = [v2 EXCEPT ![w] = Skills!Idle]
        /\ v1' = IF v1[n] = Missing THEN v1 ELSE [v1 EXCEPT ![n] = c]
    BY <1>3 DEF Skills!Flush
  <2>2. v2[w] \in Writing /\ v2[w] # Skills!Idle
    BY <1>0, <2>1 DEF Skills!Idle
  <2>3. n \in Skill /\ c \in Spellings
    BY <2>2
  <2>4. \A e \in Skills!ExistingCategories : Folded(e) = Folded(c) => e = c
    BY <2>2 DEF Skills!IInv, Skills!Canonical
  <2> HIDE DEF n, c
  <2>5. v1' \in [Skill -> Spellings \cup {Missing, Torn}] /\ \A m \in Skill : v1'[m] \in {v1[m], c}
    BY <1>0, <2>1, <2>3
  <2>6. Skills!ExistingCategories' \subseteq Skills!ExistingCategories \cup {c}
    BY <1>0, <2>5 DEF Skills!ExistingCategories
  <2>7. \A v \in Callers : v2'[v] = Skills!Idle
    BY <1>0, <2>1, <2>2 DEF Skills!IInv, Skills!OneAtATime
  <2>8. v2' \in [Callers -> {Skills!Idle} \cup Writing]
    BY <1>0, <2>1
  <2>9. Skills!TypeOK' /\ Skills!OneAtATime'
    BY <2>5, <2>7, <2>8 DEF Skills!TypeOK, Skills!OneAtATime
  <2>10. Skills!CategoriesNotSplit'
    BY <2>4, <2>6 DEF Skills!IInv, Skills!CategoriesNotSplit
  <2>11. Skills!Canonical'
    BY <2>7 DEF Skills!Canonical
  <2> QED
    BY <2>9, <2>10, <2>11 DEF Skills!IInv
<1>4. ASSUME NEW n \in Skill, Skills!SkillDelete(n) PROVE Skills!IInv'
  <2>1. v2' = v2 /\ v1' = [v1 EXCEPT ![n] = Missing]
    BY <1>4 DEF Skills!SkillDelete
  <2>2. v1' \in [Skill -> Spellings \cup {Missing, Torn}] /\ \A m \in Skill : v1'[m] \in {v1[m], Missing}
    BY <1>0, <2>1
  <2>3. Skills!ExistingCategories' \subseteq Skills!ExistingCategories
    BY <1>0, <2>2 DEF Skills!ExistingCategories, Skills!ConstantsOK
  <2> QED
    BY <2>1, <2>2, <2>3 DEF Skills!IInv, Skills!TypeOK, Skills!CategoriesNotSplit, Skills!OneAtATime,
                            Skills!Canonical
<1>5. CASE Skills!Restart
  <2>1. v1' = v1 /\ v2' = [v \in Callers |-> Skills!Idle]
    BY <1>5 DEF Skills!Restart
  <2> QED
    BY <2>1 DEF Skills!IInv, Skills!TypeOK, Skills!CategoriesNotSplit, Skills!OneAtATime,
                Skills!Canonical, Skills!ExistingCategories
<1> QED
  BY <1>1, <1>2, <1>3, <1>4, <1>5 DEF Skills!Next

-----------------------------------------------------------------------------
LEMMA RegistryInit == Registry!Init => Registry!IInv
BY DEF Registry!Init, Registry!IInv, Registry!TypeOK, Registry!Stored

LEMMA RegistryStep ==
  ASSUME Registry!ConstantsOK, Registry!IInv, Registry!Next
  PROVE  Registry!IInv'
<1> DEFINE default == Registry!Defaults(v1)[v2]
           last == IF v5 = None THEN "" ELSE v5
<1>0. /\ v2 \in Registry!Fields
      /\ Registry!Stored => DOMAIN v3 = Registry!Fields /\ v3[v2] \in Registry!Values
      /\ v5 \in Registry!Values \cup {None}
      /\ default = "" => None \notin Registry!Values
      /\ Registry!Stored /\ default = "" => v3[v2] = last
      /\ "" \in Registry!Values /\ default \in Registry!Values
  BY DEF Registry!IInv, Registry!TypeOK, Registry!Wished, Registry!Values, Registry!ConstantsOK
<1> HIDE DEF default
<1>1. ASSUME NEW p \in Registry!Passed, Registry!Add(p) PROVE Registry!IInv'
  <2> DEFINE cfg == Registry!Filled(p)
             given == IF v2 \in DOMAIN p THEN p[v2] ELSE ""
             new == Registry!Merge(Registry!Existing, cfg)
             known == IF Registry!Stored THEN v5 ELSE None
  <2>1. v2 \in DOMAIN p => p[v2] \in Registry!Values
    BY DEF Registry!Passed
  <2>2. /\ v1' = v1 /\ v2' = v2 /\ v3' = Torn /\ v4' = new /\ v6' = v6
        /\ v5' = IF v2 \in DOMAIN p /\ (p[v2] # "" \/ known = None) THEN p[v2] ELSE known
    BY <1>1 DEF Registry!Add
  <2>3. DOMAIN cfg = Registry!Fields /\ cfg[v2] \in Registry!Values /\ (default = "" => cfg[v2] = given)
    BY <1>0, <2>1 DEF Registry!Filled, default
  <2> HIDE DEF cfg
  <2>4. DOMAIN new = Registry!Fields
    BY <2>3 DEF Registry!Merge
  <2>5. new[v2] = IF cfg[v2] = "" /\ Registry!Stored THEN v3[v2] ELSE cfg[v2]
    <3>1. CASE Registry!Stored
      BY <1>0, <2>3, <3>1 DEF Registry!Merge, Registry!Existing
    <3>2. CASE ~ Registry!Stored
      <4>1. Registry!Existing = <<>> /\ v2 \notin DOMAIN Registry!Existing
        <5>1. Registry!Existing = <<>>
          BY <3>2 DEF Registry!Existing
        <5>2. DOMAIN Registry!Existing = {}
          BY <5>1
        <5> QED
          BY <5>1, <5>2
      <4> QED
        BY <1>0, <2>3, <3>2, <4>1 DEF Registry!Merge
    <3> QED
      BY <3>1, <3>2
  <2> HIDE DEF new
  <2>6. new[v2] \in Registry!Values
    BY <1>0, <2>3, <2>5
  <2>7. v5' \in Registry!Values \cup {None}
    BY <1>0, <2>1, <2>2
  <2>8. default = "" => new[v2] = IF v5' = None THEN "" ELSE v5'
    BY <1>0, <2>1, <2>2, <2>3, <2>5
  <2> QED
    BY <2>2, <2>4, <2>6, <2>7, <2>8 DEF Registry!IInv, Registry!TypeOK, Registry!Wished, Registry!Stored,
       Registry!Values, Registry!Fields, default
<1>2. CASE Registry!Registered
  BY <1>2 DEF Registry!Registered, Registry!IInv, Registry!TypeOK, Registry!Wished, Registry!Stored,
              Registry!Values, Registry!Fields
<1>3. CASE Registry!Delete
  BY <1>3 DEF Registry!Delete, Registry!IInv, Registry!TypeOK, Registry!Wished, Registry!Stored,
              Registry!Values, Registry!Fields
<1>4. CASE Registry!CallService
  <2>1. v2 = "write_only" => v5 \in {None, ""}
    <3>1. v2 = "write_only" => default = ""
      <4>1. v1 = "service_add"
        BY <1>4 DEF Registry!CallService
      <4>2. Registry!Defaults(v1) = Registry!service_add
        BY <4>1 DEF Registry!Defaults
      <4>3. Registry!service_add.write_only = ""
        BY DEF Registry!service_add
      <4>4. v2 = "write_only" => default = Registry!service_add["write_only"]
        BY <4>2 DEF default
      <4> QED
        BY <4>3, <4>4
    <3> QED
      BY <1>0, <1>4, <3>1 DEF Registry!CallService
  <2> QED
    BY <1>4, <2>1 DEF Registry!CallService, Registry!IInv, Registry!TypeOK, Registry!Wished,
       Registry!Stored, Registry!Values, Registry!Fields
<1>5. CASE Registry!Restart
  BY <1>5 DEF Registry!Restart, Registry!IInv, Registry!TypeOK, Registry!Wished, Registry!Stored,
              Registry!Values, Registry!Fields
<1> QED
  BY <1>1, <1>2, <1>3, <1>4, <1>5 DEF Registry!Next

-----------------------------------------------------------------------------
LEMMA ScanningInit == Scanning!ConstantsOK /\ Scanning!Init => Scanning!IInv
<1> SUFFICES ASSUME Scanning!ConstantsOK, Scanning!Init PROVE Scanning!IInv
  OBVIOUS
<1>1. v2 \in Scanning!Transports
  BY DEF Scanning!Init, Scanning!Transports
<1>2. 0 \in 0 .. Polls
  BY DEF Scanning!ConstantsOK
<1>3. v3 \in 0 .. Polls
  BY <1>2 DEF Scanning!Init
<1>4. v1 = "idle" /\ v4 = 0 /\ v5 = 0 /\ v6 \in BOOLEAN /\ ~ v6 /\ v7 = 0 /\ v8 = "nothing"
  BY DEF Scanning!Init
<1>5. Scanning!TypeOK
  BY <1>1, <1>3, <1>4 DEF Scanning!TypeOK
<1> QED
  BY <1>4, <1>5 DEF Scanning!IInv, Scanning!Heard, Scanning!FiledInTime, Scanning!AnswerIsTrue

LEMMA ScanningStep ==
  ASSUME Scanning!ConstantsOK, Scanning!IInv, Scanning!Next
  PROVE  Scanning!IInv'
<1> USE DEF Scanning!ConstantsOK, Scanning!IInv, Scanning!TypeOK, Scanning!Heard,
            Scanning!FiledInTime, Scanning!AnswerIsTrue, Scanning!Answer
<1>1. CASE Scanning!Refuse
  BY <1>1 DEF Scanning!Refuse
<1>2. ASSUME NEW port \in BOOLEAN, NEW tls \in {"auto", "https", "http"}, Scanning!ScanDocument(port, tls)
      PROVE  Scanning!IInv'
  <2>1. v2' \in Scanning!Transports
    BY <1>2 DEF Scanning!ScanDocument, Scanning!Candidates, Scanning!Transports
  <2>2. 0 \in 0 .. Polls
    OBVIOUS
  <2>3. v3' \in 0 .. Polls
    BY <1>2, <2>2 DEF Scanning!ScanDocument
  <2>4. v1' = "start" /\ v4' = 0 /\ v5' = 0 /\ v6' \in BOOLEAN /\ ~ v6' /\ v7' = 0 /\ v8' = "nothing"
    BY <1>2 DEF Scanning!ScanDocument
  <2> QED
    BY <2>1, <2>3, <2>4
<1>3. ASSUME v2 # <<>>, v2' = Tail(v2)
      PROVE  v2' \in Scanning!Transports /\ v2' # <<"https", "http">> /\ (v2' # <<>> => v2 = <<"https", "http">>)
  <2>1. CASE v2 = <<"https", "http">>
    BY <1>3, <2>1 DEF Scanning!Transports
  <2>2. CASE v2 = <<"https">>
    BY <1>3, <2>2 DEF Scanning!Transports
  <2>3. CASE v2 = <<"http">>
    BY <1>3, <2>3 DEF Scanning!Transports
  <2> QED
    BY <1>3, <2>1, <2>2, <2>3 DEF Scanning!Transports
<1>4. CASE Scanning!Started
  BY <1>3, <1>4 DEF Scanning!Started
<1>5. ASSUME NEW acted \in {0, 1}, Scanning!NotStarted(acted) PROVE Scanning!IInv'
  BY <1>3, <1>5 DEF Scanning!NotStarted
<1>6. CASE Scanning!NoTransportLeft
  BY <1>6 DEF Scanning!NoTransportLeft
<1>7. CASE Scanning!Page
  BY <1>7 DEF Scanning!Page
<1>8. CASE Scanning!NoPage
  BY <1>8 DEF Scanning!NoPage
<1>9. CASE Scanning!WarmingUp
  BY <1>9 DEF Scanning!WarmingUp, Scanning!NextTry
<1>10. ASSUME NEW push \in BOOLEAN, Scanning!Save(push) PROVE Scanning!IInv'
  BY <1>10 DEF Scanning!Save
<1>11. ASSUME NEW took \in {0, 1}, Scanning!NotPushed(took) PROVE Scanning!IInv'
  BY <1>11 DEF Scanning!NotPushed
<1>12. CASE Scanning!Push
  BY <1>12 DEF Scanning!Push
<1>13. CASE Scanning!SaveFailed
  BY <1>13 DEF Scanning!SaveFailed
<1> QED
  BY <1>1, <1>2, <1>4, <1>5, <1>6, <1>7, <1>8, <1>9, <1>10, <1>11, <1>12, <1>13
     DEF Scanning!Next, Scanning!Step

-----------------------------------------------------------------------------
LEMMA MqttInit == Mqtt!Init => Mqtt!IInv
<1> SUFFICES ASSUME Mqtt!Init PROVE Mqtt!IInv
  OBVIOUS
<1>1. v7 = [taken |-> 0, subscribed |-> FALSE, unheard |-> 0]
  BY DEF Mqtt!Init
<1>2. v7 \in [taken : 0 .. 1, subscribed : BOOLEAN, unheard : 0 .. 1] /\ v7.unheard = 0
  BY <1>1
<1>3. v5 = <<>> /\ v6 = <<>> /\ v9 = 0 /\ v1 = "idle" /\ v2 = "0" /\ v10 = "nothing"
  BY DEF Mqtt!Init
<1>4. v3 \in BOOLEAN /\ v4 \in BOOLEAN /\ v8 \in BOOLEAN /\ ~ v8
  BY DEF Mqtt!Init
<1>5. v5 \in Seq(Mqtt!Packets) /\ v6 \in Seq(Mqtt!Replies) /\ v9 \in 0 .. 1
  BY <1>3
<1>6. Mqtt!TypeOK
  BY <1>2, <1>3, <1>4, <1>5 DEF Mqtt!TypeOK
<1> QED
  BY <1>2, <1>3, <1>4, <1>6 DEF Mqtt!IInv, Mqtt!UnderWay, Mqtt!ConfirmedIsTaken, Mqtt!OkIsTaken,
                                Mqtt!ReportFindsListener

LEMMA MqttStep ==
  ASSUME Mqtt!IInv, Mqtt!Next
  PROVE  Mqtt!IInv'
<1> DEFINE none == <<>>
           connect == <<"connect">>
           message == <<"message">>
           both == <<"subscribe", "request">>
           request == <<"request">>
           connack == <<"connack">>
           refusal == <<"refusal">>
           puback == <<"puback">>
           report == <<"report">>
           Ways == {none, connect, message, both, request}
           Back == {none, connack, refusal, puback, report}
           Broker == [taken : 0 .. 1, subscribed : BOOLEAN, unheard : 0 .. 1]
           Told == {"nothing", "connect_failed", "ok", "not_confirmed", "no_message", "report"}
           Connecting(toBroker, toClient) ==
             \/ toBroker \in {none, connect} /\ toClient = none
             \/ toBroker = none /\ toClient \in {connack, refusal}
           Confirming(qos, toBroker, toClient, broker) ==
             \/ toBroker \in {none, message} /\ toClient = none
             \/ toBroker = none /\ toClient = puback /\ qos = "1" /\ broker.taken = 1
           Listening(toBroker, toClient, broker, received) ==
             \/ toBroker = none /\ toClient = none
             \/ toBroker = both /\ toClient = none /\ received = 0
             \/ toBroker = request /\ toClient = none /\ received = 0 /\ broker.subscribed
             \/ toBroker = none /\ toClient = report /\ received = 0
           UnderWay(at, qos, toBroker, toClient, broker, received) ==
             /\ at \in {"idle", "publish", "subscribe"} => toBroker = none /\ toClient = none
             /\ at = "connect" => Connecting(toBroker, toClient)
             /\ at = "confirm" => Confirming(qos, toBroker, toClient, broker)
             /\ at = "listen" => Listening(toBroker, toClient, broker, received)
             /\ at = "stop" => \/ Connecting(toBroker, toClient)
                               \/ Confirming(qos, toBroker, toClient, broker)
                               \/ Listening(toBroker, toClient, broker, received)
             /\ at \in {"connect", "publish", "subscribe"} => received = 0
<1>1. Head(connect) = "connect" /\ Tail(connect) = none /\ Head(message) = "message" /\ Tail(message) = none
  OBVIOUS
<1>2. Head(both) = "subscribe" /\ Tail(both) = request /\ Head(request) = "request" /\ Tail(request) = none
  OBVIOUS
<1>3. Head(connack) = "connack" /\ Tail(connack) = none /\ Head(refusal) = "refusal" /\ Tail(refusal) = none
  OBVIOUS
<1>4. Head(puback) = "puback" /\ Tail(puback) = none /\ Head(report) = "report" /\ Tail(report) = none
  OBVIOUS
<1>5. /\ Append(none, "connack") = connack /\ Append(none, "refusal") = refusal
      /\ Append(none, "puback") = puback /\ Append(none, "report") = report
      /\ Append(none, "message") = message
  OBVIOUS
<1>6. none \o Mqtt!Requests = both
  BY DEF Mqtt!Requests
<1>7. /\ connect # none /\ message # none /\ both # none /\ request # none
      /\ connack # none /\ refusal # none /\ puback # none /\ report # none
  OBVIOUS
<1>8. Ways \subseteq Seq(Mqtt!Packets)
  <2>1. none \in Seq(Mqtt!Packets) /\ connect \in Seq(Mqtt!Packets) /\ message \in Seq(Mqtt!Packets)
    BY DEF Mqtt!Packets
  <2>2. both \in Seq(Mqtt!Packets) /\ request \in Seq(Mqtt!Packets)
    BY DEF Mqtt!Packets
  <2> HIDE DEF none, connect, message, both, request
  <2> QED
    BY <2>1, <2>2
<1>9. Back \subseteq Seq(Mqtt!Replies)
  <2>1. none \in Seq(Mqtt!Replies) /\ connack \in Seq(Mqtt!Replies) /\ refusal \in Seq(Mqtt!Replies)
    BY DEF Mqtt!Replies
  <2>2. puback \in Seq(Mqtt!Replies) /\ report \in Seq(Mqtt!Replies)
    BY DEF Mqtt!Replies
  <2> HIDE DEF none, connack, refusal, puback, report
  <2> QED
    BY <2>1, <2>2
<1>10. UnderWay(v1, v2, v5, v6, v7, v9)
  BY DEF Mqtt!IInv, Mqtt!UnderWay, Mqtt!Connecting, Mqtt!Confirming, Mqtt!Listening
<1>a. /\ connect # message /\ connect # both /\ connect # request /\ message # both
      /\ message # request /\ both # request
  OBVIOUS
<1>b. /\ connack # refusal /\ connack # puback /\ connack # report /\ refusal # puback
      /\ refusal # report /\ puback # report
  OBVIOUS
<1>n. (v5 # <<>> => v5 # none) /\ (v6 # <<>> => v6 # none)
  OBVIOUS
<1> HIDE DEF none, connect, message, both, request, connack, refusal, puback, report
<1>11. /\ v1 \in {"idle", "connect", "publish", "confirm", "subscribe", "listen", "stop"} /\ v2 \in {"get", "0", "1"}
       /\ v3 \in BOOLEAN /\ v4 \in BOOLEAN /\ v8 \in BOOLEAN
       /\ v7 \in Broker /\ v7.unheard = 0
       /\ v9 \in 0 .. 1 /\ v10 \in Told
       /\ v8 /\ v2 = "1" => v7.taken = 1
       /\ v10 = "ok" /\ v2 = "1" => v7.taken = 1
  BY DEF Mqtt!IInv, Mqtt!TypeOK, Mqtt!ConfirmedIsTaken, Mqtt!OkIsTaken, Mqtt!ReportFindsListener
<1>12. ASSUME v1' \in {"idle", "connect", "publish", "confirm", "subscribe", "listen", "stop"},
              v2' \in {"get", "0", "1"}, v3' \in BOOLEAN, v4' \in BOOLEAN, v8' \in BOOLEAN,
              v7' \in Broker, v7'.unheard = 0, v9' \in 0 .. 1, v10' \in Told,
              UnderWay(v1', v2', v5', v6', v7', v9'),
              v8' /\ v2' = "1" => v7'.taken = 1,
              v10' = "ok" /\ v2' = "1" => v7'.taken = 1
       PROVE  Mqtt!IInv'
  <2>1. v5' \in Ways /\ v6' \in Back
    BY <1>12
  <2>2. v5' \in Seq(Mqtt!Packets) /\ v6' \in Seq(Mqtt!Replies)
    BY <1>8, <1>9, <2>1
  <2>3. Mqtt!TypeOK'
    BY <1>12, <2>2 DEF Mqtt!TypeOK
  <2>4. Mqtt!UnderWay'
    BY <1>12 DEF Mqtt!UnderWay, Mqtt!Connecting, Mqtt!Confirming, Mqtt!Listening, none, connect, message, both, request, connack, refusal, puback, report
  <2> QED
    BY <1>12, <2>3, <2>4 DEF Mqtt!IInv, Mqtt!ConfirmedIsTaken, Mqtt!OkIsTaken, Mqtt!ReportFindsListener
<1>13. ASSUME NEW q \in {"get", "0", "1"}, Mqtt!Connect(q) PROVE Mqtt!IInv'
  <2>1. v7' = [taken |-> 0, subscribed |-> FALSE, unheard |-> 0]
    BY <1>13 DEF Mqtt!Connect
  <2>2. v7' \in Broker /\ v7'.unheard = 0
    BY ONLY <2>1
  <2>3. /\ v1' = "connect" /\ v2' = q /\ v3' \in BOOLEAN /\ v4' \in BOOLEAN /\ v5' = connect /\ v6' = none
        /\ v8' \in BOOLEAN /\ ~ v8' /\ v9' = 0 /\ v10' = "nothing"
    BY <1>13 DEF Mqtt!Connect, connect, none
  <2> QED
    BY <1>12, <2>2, <2>3
<1>14. CASE Mqtt!Refuse
  BY <1>10, <1>11, <1>12, <1>14 DEF Mqtt!Refuse, Mqtt!Answer
<1>15. CASE Mqtt!Connected
  <2>1. v5 = none /\ v6 = connack
    BY <1>1, <1>3, <1>4, <1>7, <1>10, <1>15, <1>n DEF Mqtt!Connected
  <2>2. v6' = none
    BY <1>3, <1>15, <2>1 DEF Mqtt!Connected
  <2> QED
    BY <1>10, <1>11, <1>12, <1>15, <2>1, <2>2 DEF Mqtt!Connected
<1>16. CASE Mqtt!NotConnected
  BY <1>10, <1>11, <1>12, <1>16 DEF Mqtt!NotConnected, Mqtt!Finally
<1>17. CASE Mqtt!Publish
  BY <1>5, <1>10, <1>11, <1>12, <1>17 DEF Mqtt!Publish
<1>18. CASE Mqtt!Published
  BY <1>10, <1>11, <1>12, <1>18
     DEF Mqtt!Published, Mqtt!IsPublished, Mqtt!Finally
<1>19. CASE Mqtt!Subscribe
  BY <1>6, <1>10, <1>11, <1>12, <1>19 DEF Mqtt!Subscribe
<1>20. CASE Mqtt!Heard
  BY <1>10, <1>11, <1>12, <1>20 DEF Mqtt!Heard, Mqtt!Finally
<1>21. CASE Mqtt!Handed
  <2>1. v6 \in {puback, report} /\ v5 = none /\ v6' = none
    BY <1>3, <1>4, <1>7, <1>10, <1>11, <1>21, <1>n DEF Mqtt!Handed
  <2>2. /\ v1' = v1 /\ v2' = v2 /\ v3' = v3 /\ v4' = v4 /\ v5' = v5 /\ v7' = v7 /\ v10' = v10
        /\ v6 = puback => v8' \in BOOLEAN /\ v9' = v9
        /\ v6 = report => v8' = v8 /\ v9' = v9 + 1
    BY <1>4, <1>21 DEF Mqtt!Handed
  <2>3. CASE v6 = puback
    <3>1. v1 \in {"confirm", "stop"} /\ v7.taken = 1
      BY <1>7, <1>a, <1>b, <1>10, <1>11, <2>3
    <3> QED
      BY <1>11, <1>12, <2>1, <2>2, <2>3, <3>1
  <2>4. CASE v6 = report
    <3>1. v1 \in {"listen", "stop"} /\ v9 = 0
      BY <1>7, <1>a, <1>b, <1>10, <1>11, <2>4
    <3> QED
      BY <1>11, <1>12, <2>1, <2>2, <2>4, <3>1
  <2> QED
    BY <2>1, <2>3, <2>4
<1>22. CASE Mqtt!Sent
  BY <1>10, <1>11, <1>12, <1>22 DEF Mqtt!Sent
<1>23. CASE Mqtt!Serve
  <2>1. /\ v1' = v1 /\ v2' = v2 /\ v3' = v3 /\ v4' = v4 /\ v8' = v8 /\ v9' = v9 /\ v10' = v10
        /\ v5 # none /\ v5' = Tail(v5)
    BY <1>23, <1>n DEF Mqtt!Serve
  <2>2. v5 \in {connect, message, both, request} /\ v6 = none
    BY <1>10, <1>11, <2>1
  <2>3. CASE v5 = connect
    <3>1. v7' = v7 /\ v6' \in {connack, refusal} /\ v5' = none
      BY <1>1, <1>5, <1>23, <2>1, <2>2, <2>3 DEF Mqtt!Serve
    <3>2. v1 \in {"connect", "stop"}
      BY <1>7, <1>a, <1>b, <1>10, <1>11, <2>3
    <3> QED
      BY <1>10, <1>11, <1>12, <2>1, <3>1, <3>2
  <2>4. CASE v5 = message
    <3>1. /\ v7' = [v7 EXCEPT !.taken = 1] /\ v5' = none
          /\ v6' = IF v2 = "1" THEN puback ELSE none
      BY <1>1, <1>5, <1>23, <2>1, <2>2, <2>4 DEF Mqtt!Serve
    <3>2. v7' \in Broker /\ v7'.taken = 1 /\ v7'.unheard = 0
      BY <1>11, <3>1
    <3>3. v1 \in {"confirm", "stop"}
      BY <1>7, <1>a, <1>b, <1>10, <1>11, <2>4
    <3> QED
      BY <1>10, <1>11, <1>12, <2>1, <3>1, <3>2, <3>3
  <2>5. CASE v5 = both
    <3>1. v7' = [v7 EXCEPT !.subscribed = TRUE] /\ v5' = request /\ v6' = none
      BY <1>2, <1>23, <2>1, <2>2, <2>5 DEF Mqtt!Serve
    <3>2. v7' \in Broker /\ v7'.taken = v7.taken /\ v7'.unheard = 0 /\ v7'.subscribed
      BY <1>11, <3>1
    <3>3. v1 \in {"listen", "stop"} /\ v9 = 0
      BY <1>7, <1>a, <1>b, <1>10, <1>11, <2>5
    <3> QED
      BY <1>10, <1>11, <1>12, <2>1, <3>1, <3>2, <3>3
  <2>6. CASE v5 = request
    <3>1. v1 \in {"listen", "stop"} /\ v7.subscribed /\ v9 = 0
      BY <1>7, <1>a, <1>b, <1>10, <1>11, <2>6
    <3>2. v7' = v7 /\ v5' = none /\ v6' = report
      BY <1>2, <1>5, <1>23, <2>1, <2>2, <2>6, <3>1 DEF Mqtt!Serve
    <3> QED
      BY <1>10, <1>11, <1>12, <2>1, <3>1, <3>2
  <2> QED
    BY <2>2, <2>3, <2>4, <2>5, <2>6
<1>24. CASE Mqtt!Break
  <2>1. /\ v1' = v1 /\ v2' = v2 /\ v3' = v3 /\ v4' \in BOOLEAN /\ v5' = none /\ v6' = none
        /\ v7' = v7 /\ v8' = v8 /\ v9' = v9 /\ v10' = v10
    BY <1>24 DEF Mqtt!Break, Mqtt!Hangup, none
  <2> QED
    BY <1>10, <1>11, <1>12, <2>1
<1>25. CASE Mqtt!Stop
  BY <1>10, <1>11, <1>12, <1>25 DEF Mqtt!Stop, Mqtt!Hangup, Mqtt!LoopStop, none
<1> QED
  BY <1>13, <1>14, <1>15, <1>16, <1>17, <1>18, <1>19, <1>20, <1>21, <1>22, <1>23, <1>24, <1>25
     DEF Mqtt!Next, Mqtt!Call

-----------------------------------------------------------------------------
LEMMA TransfersInit == Transfers!ConstantsOK /\ Transfers!Init => Transfers!IInv
<1> SUFFICES ASSUME Transfers!ConstantsOK, Transfers!Init PROVE Transfers!IInv
  OBVIOUS
<1>1. [of : Transfers!Places, parts : {Parts}] \subseteq Transfers!File
  BY DEF Transfers!ConstantsOK, Transfers!Places, Transfers!File
<1>2. v1 \in [Transfers!Places -> Transfers!File \cup {Transfers!Dir, Missing}]
  BY <1>1 DEF Transfers!Init
<1>3. v2 = [c \in Callers |-> Transfers!Told("nothing")]
  BY DEF Transfers!Init
<1>4. \A c \in Callers : ~ Transfers!Undisturbed(c)
  BY <1>3 DEF Transfers!Told, Transfers!Undisturbed
<1>5. Transfers!TypeOK
  BY <1>2, <1>3 DEF Transfers!TypeOK
<1> QED
  BY <1>4, <1>5 DEF Transfers!IInv, Transfers!InParts, Transfers!Apart

(* Nobody answers "ok" here but Finish, Ask, and a request of its own.     *)
LEMMA TransfersStep ==
  ASSUME Transfers!ConstantsOK, Transfers!IInv, Transfers!Next
  PROVE  Transfers!IInv' /\ Transfers!WholeWhenTold
<1> DEFINE File == Transfers!File
           Place == Transfers!Places
           Entry == File \cup {Transfers!Dir, Missing}
           ToldSet == {Transfers!Told(w) : w \in {"nothing", "failed", "ok"}}
           Copy == Transfers!Copying
           Goal == Transfers!IInv' /\ Transfers!WholeWhenTold
           Undisturbed(c) == Transfers!Undisturbed(c)
           Kept(d) == v1'[v2[d].to] = v1[v2[d].to] /\ v1'[v2[d].from] = v1[v2[d].from]
<1>1. v1 \in [Place -> Entry] /\ v2 \in [Callers -> ToldSet \cup Copy]
  BY DEF Transfers!IInv, Transfers!TypeOK
<1>2. /\ \A t \in ToldSet : t.at = "idle"
      /\ \A c \in Callers : v2[c].at = "copy" => v2[c] \in Copy
      /\ \A c \in Callers : v2[c].at # "copy" => v2[c] \in ToldSet
  BY <1>1 DEF Transfers!Told, Transfers!Copying
<1>3. ASSUME NEW n \in Names PROVE n \in Place
  BY DEF Transfers!Places
<1>4. ASSUME NEW p \in Paths PROVE p \in Place
  BY DEF Transfers!Places
<1>5. \A c \in Callers : Undisturbed(c) => Transfers!PartOf(v1[v2[c].to], v1[v2[c].from])
  BY DEF Transfers!IInv, Transfers!InParts
<1>6. \A c, d \in Callers : Undisturbed(c) /\ v2[d].at = "copy" /\ c # d =>
        v2[d].to \notin {v2[c].from, v2[c].to}
  BY DEF Transfers!IInv, Transfers!Apart
<1>7. \A w \in {"nothing", "failed", "ok"} : Transfers!Told(w) \in ToldSet
  OBVIOUS
<1>8. Transfers!Told("failed") # Transfers!Told("ok") /\ Transfers!Told("nothing") # Transfers!Told("ok")
  BY DEF Transfers!Told
<1>9. Transfers!Mixed \in File
  BY DEF Transfers!File
<1> HIDE DEF Goal, File, Place, Entry, ToldSet, Copy
(* A step that leaves the undisturbed calls and their files as they were,  *)
(* but for one call that is answered or begins.                            *)
<1>10. ASSUME NEW c \in Callers,
              v1' \in [Place -> Entry], v2' \in [Callers -> ToldSet \cup Copy],
              \A d \in Callers : d # c /\ v2'[d].at = "copy"
                => v2[d].at = "copy" /\ v2'[d].to = v2[d].to /\ v2'[d].from = v2[d].from,
              \A d \in Callers : d # c /\ Undisturbed(d)' => Undisturbed(d) /\ Kept(d),
              \A d \in Callers : d # c /\ v2[d].at = "copy" => v2'[d].at = "copy",
              Undisturbed(c)' => /\ Transfers!PartOf(v1'[v2'[c].to], v1'[v2'[c].from])
                                 /\ \A d \in Callers : d # c /\ v2[d].at = "copy" =>
                                      v2[d].to \notin {v2'[c].from, v2'[c].to},
              v2'[c].at = "copy" => \A d \in Callers : d # c /\ Undisturbed(d)' =>
                                      v2'[c].to \notin {v2[d].from, v2[d].to},
              v2[c].at = "copy" /\ v2[c].framed /\ ~ v2[c].shared /\ v2'[c] = Transfers!Told("ok")
                => v1'[v2[c].to] = v1[v2[c].from]
       PROVE  Goal
  <2>1. Transfers!TypeOK'
    BY <1>10 DEF Transfers!TypeOK, File, Place, Entry, ToldSet, Copy
  <2>2. ASSUME NEW d \in Callers, Undisturbed(d)'
        PROVE  Transfers!PartOf(v1'[v2'[d].to], v1'[v2'[d].from])
    <3>1. CASE d = c
      BY <1>10, <2>2, <3>1
    <3>2. CASE d # c
      BY <1>5, <1>10, <2>2, <3>2 DEF Transfers!Undisturbed
    <3> QED
      BY <3>1, <3>2
  <2>3. ASSUME NEW d \in Callers, NEW e \in Callers, Undisturbed(d)', v2'[e].at = "copy", d # e
        PROVE  v2'[e].to \notin {v2'[d].from, v2'[d].to}
    <3>1. CASE d = c
      <4>1. v2[e].at = "copy" /\ v2'[e].to = v2[e].to
        BY <1>10, <2>3, <3>1
      <4> QED
        BY <1>10, <2>3, <3>1, <4>1
    <3>2. CASE d # c
      <4>1. Undisturbed(d) /\ v2'[d].to = v2[d].to /\ v2'[d].from = v2[d].from
        BY <1>10, <2>3, <3>2 DEF Transfers!Undisturbed
      <4>2. CASE e = c
        BY <1>10, <2>3, <3>2, <4>1, <4>2
      <4>3. CASE e # c
        BY <1>6, <1>10, <2>3, <4>1, <4>3
      <4> QED
        BY <4>2, <4>3
    <3> QED
      BY <3>1, <3>2
  <2>4. ASSUME NEW d \in Callers, v2[d].at = "copy", v2[d].framed, ~ v2[d].shared,
               v2'[d] = Transfers!Told("ok")
        PROVE  v1'[v2[d].to] = v1[v2[d].from]
    <3>1. v2'[d].at # "copy"
      BY <2>4 DEF Transfers!Told
    <3>2. d = c
      BY <1>10, <2>4, <3>1
    <3> QED
      BY <1>10, <2>4, <3>2
  <2>5. Transfers!InParts'
    BY <2>2 DEF Transfers!InParts
  <2>6. Transfers!Apart'
    BY <2>3 DEF Transfers!Apart
  <2>7. Transfers!WholeWhenTold
    BY <2>4 DEF Transfers!WholeWhenTold
  <2> QED
    BY <2>1, <2>5, <2>6, <2>7 DEF Transfers!IInv, Goal
(* Who is undisturbed when p is written was so before, and keeps its files.*)
<1>11. ASSUME NEW p \in Place, NEW file \in Entry, v1' = Transfers!Placed(p, file)
       PROVE  /\ v1' \in [Place -> Entry]
              /\ \A d \in Callers : Undisturbed(d) /\ d \notin Transfers!AtWork(p) => Kept(d)
  <2>1. v1' \in [Place -> Entry]
    BY <1>1, <1>9, <1>11 DEF Transfers!Placed, Place, Entry
  <2>2. ASSUME NEW d \in Callers, Undisturbed(d), d \notin Transfers!AtWork(p)
        PROVE  Kept(d)
    <3>1. v2[d] \in Copy /\ v2[d].at = "copy"
      BY <1>2, <2>2 DEF Transfers!Undisturbed
    <3>2. v2[d].to \in Place /\ v2[d].from \in Place
      BY <3>1 DEF Copy, Transfers!Copying, Place
    <3>3. v2[d].to # p /\ v2[d].from # p
      BY <2>2, <3>1 DEF Transfers!AtWork, Transfers!Reads, Transfers!Writes
    <3>4. \A e \in Transfers!AtWork(p) : e \in Callers /\ v2[e].at = "copy" /\ e # d
      BY <2>2 DEF Transfers!AtWork, Transfers!Reads, Transfers!Writes
    <3>5. v2[d].to \notin Transfers!Spoilt(p) /\ v2[d].from \notin Transfers!Spoilt(p)
      BY <1>6, <2>2, <3>4 DEF Transfers!Spoilt
    <3> QED
      BY <1>11, <3>2, <3>3, <3>5 DEF Transfers!Placed, Place
  <2> QED
    BY <2>1, <2>2
<1>12. ASSUME NEW p \in Place
       PROVE  /\ Transfers!Disturbed(p) \in [Callers -> ToldSet \cup Copy]
              /\ \A d \in Callers : v2[d].at = "copy" => Transfers!Disturbed(p)[d].at = "copy"
              /\ \A d \in Callers : Transfers!Disturbed(p)[d].at = "copy" =>
                   /\ v2[d].at = "copy"
                   /\ Transfers!Disturbed(p)[d].to = v2[d].to /\ Transfers!Disturbed(p)[d].from = v2[d].from
                   /\ d \in Transfers!AtWork(p) => Transfers!Disturbed(p)[d].shared
                   /\ d \notin Transfers!AtWork(p) => Transfers!Disturbed(p)[d] = v2[d]
  <2> SUFFICES ASSUME NEW d \in Callers
               PROVE  /\ Transfers!Disturbed(p)[d] \in ToldSet \cup Copy
                      /\ v2[d].at = "copy" => Transfers!Disturbed(p)[d].at = "copy"
                      /\ Transfers!Disturbed(p)[d].at = "copy" =>
                           /\ v2[d].at = "copy"
                           /\ Transfers!Disturbed(p)[d].to = v2[d].to
                           /\ Transfers!Disturbed(p)[d].from = v2[d].from
                           /\ d \in Transfers!AtWork(p) => Transfers!Disturbed(p)[d].shared
                           /\ d \notin Transfers!AtWork(p) => Transfers!Disturbed(p)[d] = v2[d]
    BY DEF Transfers!Disturbed
  <2>1. CASE d \notin Transfers!AtWork(p)
    BY <1>1, <2>1 DEF Transfers!Disturbed
  <2>2. CASE d \in Transfers!AtWork(p)
    <3>1. v2[d].at = "copy" /\ v2[d] \in Copy
      BY <1>2, <2>2 DEF Transfers!AtWork, Transfers!Reads, Transfers!Writes
    <3>2. Transfers!Disturbed(p)[d] = [v2[d] EXCEPT !.shared = TRUE]
      BY <2>2 DEF Transfers!Disturbed
    <3> QED
      BY <2>2, <3>1, <3>2 DEF Copy, Transfers!Copying
  <2> QED
    BY <2>1, <2>2
(* An idle call writes p and is answered, or begins to write it.           *)
<1>13. ASSUME NEW c \in Callers, NEW p \in Place, NEW file \in Entry, NEW t \in ToldSet \cup Copy,
              v2[c].at = "idle", v1' = Transfers!Placed(p, file),
              v2' = [Transfers!Disturbed(p) EXCEPT ![c] = t],
              t.at = "copy" => t.to = p,
              t.at = "copy" /\ ~ t.shared =>
                /\ Transfers!PartOf(v1'[t.to], v1'[t.from])
                /\ Transfers!AtWork(p) = {} /\ \A d \in Callers : ~ Transfers!Writes(d, t.from)
       PROVE  Goal
  <2>1. v1' \in [Place -> Entry] /\ \A d \in Callers : Undisturbed(d) /\ d \notin Transfers!AtWork(p) => Kept(d)
    BY <1>11, <1>13
  <2>2. v2'[c] = t /\ (\A d \in Callers : d # c => v2'[d] = Transfers!Disturbed(p)[d])
        /\ v2' \in [Callers -> ToldSet \cup Copy]
    BY <1>12, <1>13
  <2>3. \A d \in Callers : d # c /\ v2'[d].at = "copy"
          => v2[d].at = "copy" /\ v2'[d].to = v2[d].to /\ v2'[d].from = v2[d].from
    BY <1>12, <2>2
  <2>4. \A d \in Callers : d # c /\ Undisturbed(d)' =>
          Undisturbed(d) /\ d \notin Transfers!AtWork(p) /\ Kept(d)
    BY <1>12, <2>1, <2>2 DEF Transfers!Undisturbed
  <2>5. \A d \in Callers : d # c /\ v2[d].at = "copy" => v2'[d].at = "copy"
    BY <1>12, <2>2
  <2>6. Undisturbed(c)' => /\ Transfers!PartOf(v1'[v2'[c].to], v1'[v2'[c].from])
                           /\ \A d \in Callers : d # c /\ v2[d].at = "copy" =>
                                v2[d].to \notin {v2'[c].from, v2'[c].to}
    BY <1>13, <2>2 DEF Transfers!Undisturbed, Transfers!AtWork, Transfers!Reads, Transfers!Writes
  <2>7. v2'[c].at = "copy" => \A d \in Callers : d # c /\ Undisturbed(d)' =>
          v2'[c].to \notin {v2[d].from, v2[d].to}
    BY <1>13, <2>2, <2>4 DEF Transfers!Undisturbed, Transfers!AtWork, Transfers!Reads, Transfers!Writes
  <2>8. v2[c].at # "copy"
    BY <1>13
  <2> QED
    BY <1>10, <2>1, <2>2, <2>3, <2>4, <2>5, <2>6, <2>7, <2>8
(* The files stay, and one call is answered.                               *)
<1>14. ASSUME NEW c \in Callers, NEW t \in ToldSet, v1' = v1, v2' = [v2 EXCEPT ![c] = t],
              v2[c].at = "copy" /\ v2[c].framed /\ ~ v2[c].shared /\ t = Transfers!Told("ok")
                => v1[v2[c].to] = v1[v2[c].from]
       PROVE  Goal
  <2>1. v2'[c] = t /\ (\A d \in Callers : d # c => v2'[d] = v2[d]) /\ t.at = "idle"
        /\ v2' \in [Callers -> ToldSet \cup Copy]
    BY <1>1, <1>2, <1>14
  <2>2. \A d \in Callers : d # c /\ Undisturbed(d)' => Undisturbed(d) /\ Kept(d)
    BY <1>14, <2>1 DEF Transfers!Undisturbed
  <2>3. ~ Undisturbed(c)' /\ v2'[c].at # "copy"
    BY <2>1 DEF Transfers!Undisturbed
  <2> QED
    BY <1>1, <1>10, <1>14, <2>1, <2>2, <2>3
<1>15. ASSUME NEW c \in Callers, NEW p \in Place, NEW q \in Place, NEW framed \in BOOLEAN,
              Transfers!Open(c, p, q, framed), v2[c].at = "idle", Transfers!IsFile(p)
       PROVE  Goal
  <2> DEFINE shared == Transfers!AtWork(q) # {} \/ \E d \in Callers : Transfers!Writes(d, p)
             file == IF shared THEN Transfers!Mixed ELSE [of |-> v1[p].of, parts |-> 0]
             copy == [at |-> "copy", from |-> p, to |-> q, framed |-> framed, shared |-> shared]
  <2>1. v1[p] \in File
    BY <1>1, <1>15 DEF Transfers!IsFile, Entry
  <2>2. [of |-> v1[p].of, parts |-> 0] \in File
    BY <2>1 DEF Transfers!ConstantsOK, Transfers!File, Transfers!Mixed, File
  <2>3. v1[p].parts \in Nat
    BY <2>1 DEF Transfers!ConstantsOK, Transfers!File, Transfers!Mixed, File
  <2>4. file \in Entry
    BY <1>9, <2>2 DEF Entry
  <2>5. copy \in Copy /\ copy.at = "copy" /\ copy.to = q /\ copy.from = p /\ copy.shared = shared
    BY DEF Copy, Transfers!Copying, Place
  <2>6. v1' = Transfers!Placed(q, file) /\ v2' = [Transfers!Disturbed(q) EXCEPT ![c] = copy]
    BY <1>15 DEF Transfers!Open
  <2>7. ~ shared => Transfers!AtWork(q) = {} /\ \A d \in Callers : ~ Transfers!Writes(d, p)
    OBVIOUS
  <2>8. ~ shared => Transfers!PartOf(v1'[q], v1'[p])
    <3> SUFFICES ASSUME ~ shared PROVE Transfers!PartOf(v1'[q], v1'[p])
      OBVIOUS
    <3>1. Transfers!Spoilt(q) = {}
      BY DEF Transfers!Spoilt
    <3>2. v1'[q] = [of |-> v1[p].of, parts |-> 0] /\ (p # q => v1'[p] = v1[p])
      BY <2>6, <3>1 DEF Transfers!Placed, Place
    <3>3. v1'[q].of = v1[p].of /\ v1'[q].parts = 0
      BY <3>2
    <3>4. CASE p = q
      BY <2>2, <3>2, <3>3, <3>4 DEF Transfers!PartOf, File
    <3>5. CASE p # q
      BY <2>1, <2>2, <2>3, <3>2, <3>3, <3>5 DEF Transfers!PartOf, File
    <3> QED
      BY <3>4, <3>5
  <2> HIDE DEF shared, file, copy
  <2> QED
    BY <1>13, <1>15, <2>4, <2>5, <2>6, <2>7, <2>8
<1>16. ASSUME NEW c \in Callers, NEW p \in Paths, NEW n \in Names, Transfers!webdav_download(c, p, n)
       PROVE  Goal
  <2>1. CASE Transfers!IsFile(p)
    BY <1>3, <1>4, <1>15, <1>16, <2>1 DEF Transfers!webdav_download
  <2>2. CASE ~ Transfers!IsFile(p)
    BY <1>7, <1>8, <1>14, <1>16, <2>2 DEF Transfers!webdav_download, Transfers!Answer
  <2> QED
    BY <2>1, <2>2
<1>17. ASSUME NEW c \in Callers, NEW p \in Paths, NEW n \in Names, Transfers!ssh_download(c, p, n)
       PROVE  Goal
  <2>1. v2[c].at = "idle" /\ n \in Place /\ p \in Place
    BY <1>3, <1>4, <1>17 DEF Transfers!ssh_download
  <2>2. CASE Transfers!IsFile(p)
    BY <1>15, <1>17, <2>1, <2>2 DEF Transfers!ssh_download
  <2>3. CASE ~ Transfers!IsFile(p)
    <3> DEFINE file == [of |-> p, parts |-> 0]
    <3>1. file \in Entry
      BY <2>1 DEF Entry, File, Transfers!File, Transfers!ConstantsOK, Transfers!Places
    <3>2. v1' = Transfers!Placed(n, file)
          /\ v2' = [Transfers!Disturbed(n) EXCEPT ![c] = Transfers!Told("failed")]
      BY <1>17, <2>3 DEF Transfers!ssh_download
    <3>3. Transfers!Told("failed") \in ToldSet /\ Transfers!Told("failed").at = "idle"
      BY <1>2, <1>7
    <3> HIDE DEF file
    <3> QED
      BY <1>13, <2>1, <3>1, <3>2, <3>3
  <2> QED
    BY <2>2, <2>3
<1>18. ASSUME NEW c \in Callers, NEW p \in Paths, NEW n \in Names, Transfers!Upload(c, n, p) PROVE Goal
  <2>1. CASE Transfers!IsFile(n) /\ v1[p] # Transfers!Dir
    BY <1>3, <1>4, <1>15, <1>18, <2>1 DEF Transfers!Upload
  <2>2. CASE ~ (Transfers!IsFile(n) /\ v1[p] # Transfers!Dir)
    BY <1>7, <1>8, <1>14, <1>18, <2>2 DEF Transfers!Upload, Transfers!Answer
  <2> QED
    BY <2>1, <2>2
<1>19. ASSUME NEW c \in Callers, NEW p \in Paths, NEW done \in Entry, Transfers!Ask(c, p, done)
       PROVE  Goal
  <2>1. v2[c].at = "idle" /\ p \in Place
    BY <1>4, <1>19 DEF Transfers!Ask
  <2>2. CASE v1' = Transfers!Placed(p, done)
             /\ \E w \in {"ok", "failed"} : v2' = [Transfers!Disturbed(p) EXCEPT ![c] = Transfers!Told(w)]
    <3>1. PICK w \in {"ok", "failed"} : v2' = [Transfers!Disturbed(p) EXCEPT ![c] = Transfers!Told(w)]
      BY <2>2
    <3>2. Transfers!Told(w) \in ToldSet /\ Transfers!Told(w).at = "idle"
      BY <1>2, <1>7
    <3> QED
      BY <1>13, <2>1, <2>2, <3>1, <3>2
  <2>3. CASE v1' = v1 /\ v2' = [v2 EXCEPT ![c] = Transfers!Told("failed")]
    BY <1>7, <1>8, <1>14, <2>3
  <2> QED
    BY <1>19, <2>2, <2>3 DEF Transfers!Ask, Transfers!Answer
<1>20. ASSUME NEW c \in Callers, NEW p \in Paths, Transfers!webdav_mkdir(c, p) \/ Transfers!webdav_delete(c, p)
       PROVE  Goal
  <2>1. v1[p] \in Entry /\ Transfers!Dir \in Entry /\ Missing \in Entry
    BY <1>1, <1>4 DEF Entry
  <2> QED
    BY <1>19, <1>20, <2>1 DEF Transfers!webdav_mkdir, Transfers!webdav_delete
<1>21. ASSUME NEW c \in Callers, Transfers!Copy(c) PROVE Goal
  <2> DEFINE p == v2[c].from
             q == v2[c].to
             new == [v1[q] EXCEPT !.parts = @ + 1]
  <2>1. v2[c] \in Copy /\ v2' = v2 /\ v1[q].parts # v1[p].parts /\ Undisturbed(c)
    BY <1>2, <1>21 DEF Transfers!Copy, Transfers!Over, Transfers!Undisturbed
  <2>2. p \in Place /\ q \in Place
    BY <2>1 DEF Copy, Transfers!Copying, Place
  <2>3. v1' = [v1 EXCEPT ![q] = new]
    BY <1>21 DEF Transfers!Copy
  <2>4. v1[q] \in File /\ v1[p] \in File /\ v1[q].of = v1[p].of /\ v1[q].parts <= v1[p].parts
    BY <1>5, <2>1 DEF Transfers!PartOf, File
  <2>5. new \in File /\ new.of = v1[p].of /\ new.parts <= v1[p].parts
    BY <2>1, <2>4 DEF Transfers!ConstantsOK, Transfers!File, Transfers!Mixed, File
  <2>6. p # q
    BY <2>1
  <2> HIDE DEF p, q, new
  <2>7. v1' \in [Place -> Entry] /\ v1'[q] = new /\ \A x \in Place : x # q => v1'[x] = v1[x]
    BY <1>1, <2>2, <2>3, <2>5 DEF Entry
  <2>8. Transfers!PartOf(v1'[q], v1'[p])
    BY <2>2, <2>4, <2>5, <2>6, <2>7 DEF Transfers!PartOf, File
  <2>9. ASSUME NEW d \in Callers, d # c, Undisturbed(d) PROVE Kept(d)
    <3>1. v2[c].at = "copy" /\ v2[d] \in Copy
      BY <1>2, <2>1, <2>9 DEF Transfers!Undisturbed
    <3>2. q \notin {v2[d].from, v2[d].to}
      BY <1>6, <2>9, <3>1 DEF q
    <3>3. v2[d].from \in Place /\ v2[d].to \in Place
      BY <3>1 DEF Copy, Transfers!Copying, Place
    <3> QED
      BY <2>7, <3>2, <3>3
  <2>10. \A d \in Callers : Undisturbed(d)' <=> Undisturbed(d)
    BY <2>1 DEF Transfers!Undisturbed
  <2>11. \A d \in Callers : d # c /\ v2[d].at = "copy" => v2[d].to \notin {v2[c].from, v2[c].to}
    BY <1>6, <2>1
  <2>12. \A d \in Callers : d # c /\ Undisturbed(d) => v2[c].to \notin {v2[d].from, v2[d].to}
    BY <1>6, <2>1 DEF Transfers!Undisturbed
  <2>13. v2[c] # Transfers!Told("ok")
    BY <2>1 DEF Transfers!Told, Transfers!Undisturbed
  <2> QED
    BY <1>1, <1>10, <2>1, <2>7, <2>8, <2>9, <2>10, <2>11, <2>12, <2>13 DEF p, q
<1>22. ASSUME NEW c \in Callers, Transfers!Finish(c) PROVE Goal
  <2>1. /\ v2[c].at = "copy" /\ v1' = v1 /\ v2' = [v2 EXCEPT ![c] = Transfers!Told("ok")]
        /\ v2[c].framed /\ ~ v2[c].shared => v1[v2[c].to].parts = v1[v2[c].from].parts
    BY <1>22 DEF Transfers!Finish, Transfers!Over, Transfers!Answer
  <2>2. v2[c].framed /\ ~ v2[c].shared => v1[v2[c].to] = v1[v2[c].from]
    <3> SUFFICES ASSUME v2[c].framed, ~ v2[c].shared PROVE v1[v2[c].to] = v1[v2[c].from]
      OBVIOUS
    <3>1. Transfers!PartOf(v1[v2[c].to], v1[v2[c].from])
      BY <1>5, <2>1 DEF Transfers!Undisturbed
    <3> QED
      BY <2>1, <3>1 DEF Transfers!PartOf, Transfers!File, Transfers!Mixed
  <2> QED
    BY <1>7, <1>14, <2>1, <2>2
<1>23. ASSUME NEW c \in Callers, Transfers!Break(c) PROVE Goal
  BY <1>7, <1>8, <1>14, <1>23 DEF Transfers!Break, Transfers!Answer
<1>24. ASSUME NEW n \in Names, Transfers!OtherTool(n) PROVE Goal
  <2>1. PICK file \in {Missing, Transfers!Mixed} : v1' = Transfers!Placed(n, file)
    BY <1>24 DEF Transfers!OtherTool
  <2>2. file \in Entry /\ n \in Place /\ v2' = Transfers!Disturbed(n)
    BY <1>3, <1>9, <1>24 DEF Entry, Transfers!OtherTool
  <2>3. PICK c \in Callers : c \in Transfers!AtWork(n)
    BY <1>24 DEF Transfers!OtherTool, Transfers!AtWork
  <2>4. v1' \in [Place -> Entry] /\ \A d \in Callers : Undisturbed(d) /\ d \notin Transfers!AtWork(n) => Kept(d)
    BY <1>11, <2>1, <2>2
  <2>5. \A d \in Callers : Undisturbed(d)' => Undisturbed(d) /\ d \notin Transfers!AtWork(n)
    BY <1>12, <2>2 DEF Transfers!Undisturbed
  <2>6. v2[c].at = "copy" /\ ~ Undisturbed(c)'
    BY <2>3, <2>5 DEF Transfers!AtWork, Transfers!Reads, Transfers!Writes
  <2>7. v2'[c].at = "copy" /\ v2'[c].to = v2[c].to /\ v2'[c] # Transfers!Told("ok")
    BY <1>12, <2>2, <2>6 DEF Transfers!Told
  <2>8. \A d \in Callers : d # c /\ Undisturbed(d)' => v2'[c].to \notin {v2[d].from, v2[d].to}
    BY <1>6, <2>5, <2>6, <2>7
  <2>9. v2' \in [Callers -> ToldSet \cup Copy]
        /\ (\A d \in Callers : d # c /\ v2'[d].at = "copy"
              => v2[d].at = "copy" /\ v2'[d].to = v2[d].to /\ v2'[d].from = v2[d].from)
        /\ (\A d \in Callers : d # c /\ v2[d].at = "copy" => v2'[d].at = "copy")
    BY <1>12, <2>2
  <2> QED
    BY <1>10, <2>4, <2>5, <2>6, <2>7, <2>8, <2>9
<1>25. CASE Transfers!Restart
  <2>1. v1' = v1 /\ v2' = [c \in Callers |-> Transfers!Told("nothing")]
    BY <1>25 DEF Transfers!Restart
  <2>2. \A c \in Callers : ~ Undisturbed(c)' /\ v2'[c] # Transfers!Told("ok")
    BY <1>8, <2>1 DEF Transfers!Told, Transfers!Undisturbed
  <2>3. v2' \in [Callers -> ToldSet \cup Copy]
    BY <1>7, <2>1
  <2>4. Transfers!TypeOK'
    BY <1>1, <2>1, <2>3 DEF Transfers!TypeOK, File, Place, Entry, ToldSet, Copy
  <2>5. Transfers!InParts' /\ Transfers!Apart' /\ Transfers!WholeWhenTold
    BY <2>2 DEF Transfers!InParts, Transfers!Apart, Transfers!WholeWhenTold
  <2> QED
    BY <2>4, <2>5 DEF Transfers!IInv, Goal
<1> QED
  BY <1>16, <1>17, <1>18, <1>20, <1>21, <1>22, <1>23, <1>24, <1>25
     DEF Transfers!Next, Transfers!webdav_upload, Transfers!ssh_upload, Transfers!ftp_upload, Goal

-----------------------------------------------------------------------------
(* The components with proofs of their own, over the variables here.       *)
SP == INSTANCE Sessions_proofs WITH
  now <- v1, files <- v2, call <- v3, kept <- v4, raced <- v5
MP == INSTANCE Memory_proofs WITH files <- v1, call <- v2, noted <- v3
PP == INSTANCE Policy_proofs WITH
  who <- v1, policy <- v2, tmp <- v3, writer <- v4, call <- v5, edits <- v6, intended <- v7

LEMMA SameSessions ==
  /\ Sessions!ConstantsOK <=> SP!ConstantsOK
  /\ Sessions!Init <=> SP!Init
  /\ Sessions!Next <=> SP!Next
  /\ Sessions!TypeOK <=> SP!TypeOK
  /\ Sessions!CheckpointKept <=> SP!CheckpointKept
BY DEF Sessions!Session, SP!Session, Sessions!Idle, SP!Idle, Sessions!Saving, SP!Saving,
       Sessions!Owed, SP!Owed, Sessions!Nothing, SP!Nothing, Sessions!Pruning, SP!Pruning,
       Sessions!ConstantsOK, SP!ConstantsOK, Sessions!TypeOK, SP!TypeOK, Sessions!Init, SP!Init,
       Sessions!Go, SP!Go, Sessions!Readable, SP!Readable, Sessions!Writing, SP!Writing,
       Sessions!ContinuedAsOf, SP!ContinuedAsOf, Sessions!Continued, SP!Continued,
       Sessions!SessionSave, SP!SessionSave, Sessions!Truncate, SP!Truncate, Sessions!Condemned,
       SP!Condemned, Sessions!Flush, SP!Flush, Sessions!Prune, SP!Prune, Sessions!SessionPrune,
       SP!SessionPrune, Sessions!SessionList, SP!SessionList, Sessions!SessionLoad, SP!SessionLoad,
       Sessions!Recent, SP!Recent, Sessions!Stale, SP!Stale, Sessions!Judge, SP!Judge,
       Sessions!Unlink, SP!Unlink, Sessions!SessionDelete, SP!SessionDelete, Sessions!Restart,
       SP!Restart, Sessions!Tomorrow, SP!Tomorrow, Sessions!Next, SP!Next, Sessions!CheckpointKept,
       SP!CheckpointKept, Sessions!Held, SP!Held

LEMMA SameMemory ==
  /\ Memory!ConstantsOK <=> MP!ConstantsOK
  /\ Memory!Init <=> MP!Init
  /\ Memory!Next <=> MP!Next
  /\ Memory!TypeOK <=> MP!TypeOK
  /\ Memory!NotedIsKept <=> MP!NotedIsKept
BY DEF Memory!CANDIDATES_SCOPE, MP!CANDIDATES_SCOPE, Memory!Folders, MP!Folders, Memory!Idle,
       MP!Idle, Memory!Writing, MP!Writing, Memory!Unlinking, MP!Unlinking, Memory!ConstantsOK,
       MP!ConstantsOK, Memory!TypeOK, MP!TypeOK, Memory!Init, MP!Init, Memory!Go, MP!Go,
       Memory!Candidate, MP!Candidate, Memory!Promoting, MP!Promoting, Memory!MemoryWrite,
       MP!MemoryWrite, Memory!StageCandidate, MP!StageCandidate, Memory!MemoryNote, MP!MemoryNote,
       Memory!Learn, MP!Learn, Memory!PromoteMoved, MP!PromoteMoved, Memory!MemoryPromote,
       MP!MemoryPromote, Memory!GoesLive, MP!GoesLive, Memory!Truncate, MP!Truncate, Memory!Flush, MP!Flush,
       Memory!UnlinkCandidate, MP!UnlinkCandidate, Memory!MemoryDelete, MP!MemoryDelete,
       Memory!MemoryReject, MP!MemoryReject, Memory!Restart, MP!Restart, Memory!Next, MP!Next,
       Memory!NotedIsKept, MP!NotedIsKept

LEMMA SamePolicy ==
  /\ Policy!ConstantsOK <=> PP!ConstantsOK
  /\ Policy!Init <=> PP!Init
  /\ Policy!Next <=> PP!Next
  /\ Policy!TypeOK <=> PP!TypeOK
  /\ Policy!RunAsPermitted <=> PP!RunAsPermitted
  /\ Policy!OwnScopeOnly <=> PP!OwnScopeOnly
  /\ Policy!PolicyIntact <=> PP!PolicyIntact
BY DEF Policy!Roles, PP!Roles, Policy!Tools, PP!Tools, Policy!ADMIN_TOOLS, PP!ADMIN_TOOLS,
       Policy!READ_ONLY_TOOLS, PP!READ_ONLY_TOOLS, Policy!MEMORY_SCOPED_TOOLS,
       PP!MEMORY_SCOPED_TOOLS, Policy!Who, PP!Who, Policy!Document, PP!Document, Policy!File,
       PP!File, Policy!Empty, PP!Empty, Policy!Idle, PP!Idle, Policy!Call, PP!Call, Policy!Writer,
       PP!Writer, Policy!ConstantsOK, PP!ConstantsOK, Policy!TypeOK, PP!TypeOK, Policy!Init,
       PP!Init, Policy!Read, PP!Read, Policy!Fallback, PP!Fallback, Policy!ByGroup, PP!ByGroup,
       Policy!RoleFor, PP!RoleFor, Policy!Gives, PP!Gives, Policy!Decide, PP!Decide,
       Policy!Allowed, PP!Allowed, Policy!OwnArea, PP!OwnArea,
       Policy!Confined, PP!Confined, Policy!Lived, PP!Lived, Policy!ReadRoles, PP!ReadRoles,
       Policy!Undenied, PP!Undenied, Policy!Denied, PP!Denied, Policy!ReadGroups, PP!ReadGroups,
       Policy!ReadArea, PP!ReadArea, Policy!Run, PP!Run, Policy!OnlyArea, PP!OnlyArea,
       Policy!WithArea, PP!WithArea, Policy!Rewrite, PP!Rewrite, Policy!TenancySet, PP!TenancySet,
       Policy!TenancyUnset, PP!TenancyUnset, Policy!OpenTmp, PP!OpenTmp, Policy!FillTmp,
       PP!FillTmp, Policy!Replace, PP!Replace, Policy!Edit, PP!Edit, Policy!EditEntry,
       PP!EditEntry, Policy!Break, PP!Break, Policy!Repair, PP!Repair, Policy!Restart, PP!Restart,
       Policy!Next, PP!Next, Policy!RunAsPermitted, PP!RunAsPermitted, Policy!OwnScopeOnly,
       PP!OwnScopeOnly, Policy!PolicyIntact, PP!PolicyIntact

-----------------------------------------------------------------------------
(* The invariant of the component in focus.                                *)
IInv ==
  /\ focus = "sessions" => SP!IInv
  /\ focus = "memory" => MP!IInv
  /\ focus = "skills" => Skills!IInv
  /\ focus = "registry" => Registry!IInv
  /\ focus = "workspace" => WorkspaceInv
  /\ focus = "policy" => PP!IInv
  /\ focus = "tasks" => TaskNext!TypeOK
  /\ focus = "match" => CronMatch!TypeOK
  /\ focus = "printing" => Printing!IInv
  /\ focus = "scanning" => Scanning!IInv
  /\ focus = "mqtt" => Mqtt!IInv
  /\ focus = "mcp" => McpClient!IInv
  /\ focus = "ssh" => Ssh!IInv
  /\ focus = "transfers" => Transfers!IInv

LEMMA InitInv == Init => IInv
<1> SUFFICES ASSUME Init PROVE IInv
  OBVIOUS
<1>1. CASE focus \in {"sessions", "memory", "policy"}
  BY <1>1, SameSessions, SameMemory, SamePolicy, SP!InitInv, MP!InitInv, PP!InitInv,
     ConstantsAssumption DEF Init, IInv
<1>2. CASE focus \in {"skills", "registry", "workspace", "tasks", "match", "printing"}
  BY <1>2, SkillsInit, RegistryInit, WorkspaceInit, TasksInit, MatchInit, PrintingInit,
     ConstantsAssumption DEF Init, IInv
<1>3. CASE focus \in {"scanning", "mqtt", "mcp", "ssh", "transfers"}
  BY <1>3, ScanningInit, MqttInit, McpInit, SshInit, TransfersInit,
     ConstantsAssumption DEF Init, IInv
<1> QED
  BY <1>1, <1>2, <1>3 DEF Init

(* Steps that change nothing.                                              *)
LEMMA RegistryStutter ==
  ASSUME Registry!IInv, UNCHANGED <<v1, v2, v3, v4, v5, v6>>
  PROVE  Registry!IInv'
BY DEF Registry!IInv, Registry!TypeOK, Registry!Stored, Registry!Wished, Registry!Fields,
       Registry!Values

LEMMA Stutter == ASSUME IInv, UNCHANGED vars PROVE IInv'
<1> USE DEF IInv, vars
<1>1. CASE focus = "sessions"
  BY <1>1, SP!NextStep, SameSessions, ConstantsAssumption DEF SP!vars
<1>2. CASE focus = "memory"
  BY <1>2, MP!NextStep, SameMemory, ConstantsAssumption DEF MP!vars
<1>3. CASE focus = "policy"
  BY <1>3, PP!NextStep, SamePolicy, ConstantsAssumption DEF PP!vars
<1>4. CASE focus = "skills"
  BY <1>4 DEF Skills!IInv, Skills!TypeOK, Skills!CategoriesNotSplit, Skills!ExistingCategories,
              Skills!OneAtATime, Skills!Canonical
<1>5. CASE focus = "registry"
  BY <1>5, RegistryStutter
<1>6. CASE focus \in {"workspace", "tasks", "match"}
  BY <1>6, DeleteStep, ConstantsAssumption DEF TaskNext!TypeOK, CronMatch!TypeOK
<1>7. CASE focus = "printing"
  BY <1>7 DEF Printing!IInv, Printing!TypeOK, Printing!NotYetPrinted, Printing!AnswersFit,
              Printing!DoneAsAsked, Printing!PrintedOnce, Printing!JustWorks
<1>8. CASE focus = "scanning"
  BY <1>8 DEF Scanning!IInv, Scanning!TypeOK, Scanning!Heard, Scanning!FiledInTime,
              Scanning!AnswerIsTrue
<1>9. CASE focus = "mqtt"
  BY <1>9 DEF Mqtt!IInv, Mqtt!TypeOK, Mqtt!UnderWay, Mqtt!Connecting, Mqtt!Confirming, Mqtt!Listening,
              Mqtt!ConfirmedIsTaken, Mqtt!OkIsTaken,
              Mqtt!ReportFindsListener
<1>10. CASE focus = "mcp"
  BY <1>10 DEF McpClient!IInv, McpClient!TypeOK, McpClient!InStep, McpClient!StaysInSession
<1>11. CASE focus = "ssh"
  BY <1>11 DEF Ssh!IInv, Ssh!TypeOK
<1>12. CASE focus = "transfers"
  BY <1>12 DEF Transfers!IInv, Transfers!TypeOK, Transfers!Copying, Transfers!PartOf,
               Transfers!Apart, Transfers!InParts, Transfers!Undisturbed
<1> QED
  BY <1>1, <1>2, <1>3, <1>4, <1>5, <1>6, <1>7, <1>8, <1>9, <1>10, <1>11, <1>12

LEMMA NextStep == IInv /\ [Next]_vars => IInv'
<1> SUFFICES ASSUME IInv, [Next]_vars PROVE IInv'
  OBVIOUS
<1>1. CASE UNCHANGED vars
  BY <1>1, Stutter
<1>2. ASSUME Next PROVE focus' = focus
  BY <1>2 DEF Next, Rest
<1>3. CASE Next /\ focus \in {"sessions", "memory", "policy"}
  BY <1>2, <1>3, SameSessions, SameMemory, SamePolicy, SP!NextStep, MP!NextStep, PP!NextStep,
     ConstantsAssumption DEF Next, IInv
<1>4. CASE Next /\ focus \in {"skills", "registry", "workspace", "tasks", "match", "printing"}
  BY <1>2, <1>4, SkillsStep, RegistryStep, WorkspaceStep, TasksStep, MatchStep, PrintingStep,
     ConstantsAssumption DEF Next, IInv
<1>5. CASE Next /\ focus \in {"scanning", "mqtt", "mcp", "ssh", "transfers"}
  BY <1>2, <1>5, ScanningStep, MqttStep, McpStep, SshStep, TransfersStep,
     ConstantsAssumption DEF Next, IInv
<1> QED
  BY <1>1, <1>3, <1>4, <1>5 DEF Next

-----------------------------------------------------------------------------
(* Every component keeps to its types, whatever it is asked for: no call,  *)
(* file or answer takes a form its module does not list.                   *)
THEOREM Typed == Spec => []TypeOK
<1>1. IInv => TypeOK
  BY SameSessions, SameMemory, SamePolicy
  DEF IInv, TypeOK, WorkspaceInv, SP!IInv, MP!IInv, PP!IInv, Skills!IInv, Registry!IInv, Printing!IInv,
      Scanning!IInv, Mqtt!IInv, McpClient!IInv, Ssh!IInv, Transfers!IInv
<1> QED
  BY InitInv, NextStep, <1>1, PTL DEF Spec

(* A checkpoint whose sender was answered (sessions.py, session_save) is   *)
(* there until it is deleted or its retention is over, however saves,      *)
(* prunes and crashes interleave, unless a prune had judged the file stale *)
(* before the save came and unlinks it afterwards (sessions.py:86-90).     *)
THEOREM SessionsKept == Spec => []CheckpointKept
<1>1. IInv => CheckpointKept
  BY SameSessions DEF IInv, CheckpointKept, SP!IInv
<1> QED
  BY InitInv, NextStep, <1>1, PTL DEF Spec

(* A fact staged for memory is still staged, or live, until somebody       *)
(* rejects, deletes or rewrites it (memory.py, memory_note, memory_promote).*)
THEOREM FactsKept == Spec => []NotedIsKept
<1>1. IInv => NotedIsKept
  BY SameMemory DEF IInv, NotedIsKept, MP!IInv
<1> QED
  BY InitInv, NextStep, <1>1, PTL DEF Spec

(* No sequence of skill_write, skill_delete and crashes splits a category  *)
(* into spellings that differ in case only (skills.py:146).                *)
THEOREM CategoriesWhole == Spec => []CategoriesNotSplit
<1>1. IInv => CategoriesNotSplit
  BY DEF IInv, CategoriesNotSplit, Skills!IInv
<1> QED
  BY InitInv, NextStep, <1>1, PTL DEF Spec

(* What was passed for a field whose default is empty survives every later *)
(* call that leaves it out (the registries' *_add).                        *)
THEOREM FieldsKept == Spec => []CredentialsKept
<1>1. ASSUME Registry!IInv PROVE Registry!CredentialsKept
  <2>1. v6 \in BOOLEAN /\ ~ v6
    BY <1>1 DEF Registry!IInv, Registry!TypeOK
  <2> QED
    BY <1>1, <2>1 DEF Registry!IInv, Registry!CredentialsKept, Registry!Wished, Registry!Stored
<1>2. IInv => CredentialsKept
  BY <1>1 DEF IInv, CredentialsKept
<1> QED
  BY InitInv, NextStep, <1>2, PTL DEF Spec

(* Whatever happens between the reads of policy.json, a tool runs without  *)
(* a decision only if the file gave none at some time during the call, and *)
(* otherwise only for a role the file gave during it, unless two entries   *)
(* are edited meanwhile (authz.py:207-255).                                *)
THEOREM RunsAsPermitted == Spec => []RunAsPermitted
<1>1. IInv => RunAsPermitted
  BY SamePolicy, PP!RunSafely DEF IInv, RunAsPermitted
<1> QED
  BY InitInv, NextStep, <1>1, PTL DEF Spec

(* A known caller who is no admin gets no scope but its own, unless the    *)
(* file says "all" or cannot be asked at some time during the call         *)
(* (tenancy.py:86-112).                                                    *)
THEOREM Confinement == Spec => []OwnScopeOnly
<1>1. IInv => OwnScopeOnly
  BY SamePolicy, PP!RunSafely DEF IInv, OwnScopeOnly
<1> QED
  BY InitInv, NextStep, <1>1, PTL DEF Spec

(* The policy file is what the operator and the answered tools have laid   *)
(* down, whenever a rewrite crashes, but for a rewrite of what was read    *)
(* before an edit (tenancy.py, _write_policy).                             *)
THEOREM PolicyKept == Spec => []PolicyIntact
<1>1. IInv => PolicyIntact
  BY SamePolicy DEF IInv, PolicyIntact, PP!IInv
<1> QED
  BY InitInv, NextStep, <1>1, PTL DEF Spec

(* However answers are lost and the job is sent again over TLS or as       *)
(* octets, a call prints the document at most once, and once if it says    *)
(* "sent" (print_tools.py).                                                *)
THEOREM NeverTwice == Spec => []PrintedOnce
<1>1. IInv => PrintedOnce
  BY DEF IInv, PrintedOnce, Printing!IInv
<1> QED
  BY InitInv, NextStep, <1>1, PTL DEF Spec

(* The retries suffice: a printer that works and knows octet-streams       *)
(* accepts the job in the end.                                             *)
THEOREM RetriesSuffice == Spec => []JustWorks
<1>1. IInv => JustWorks
  BY DEF IInv, JustWorks, Printing!IInv
<1> QED
  BY InitInv, NextStep, <1>1, PTL DEF Spec

(* What scan_document answers is what came of it, and the page goes        *)
(* through the scanner once unless an answer was lost (scan_tools.py).     *)
THEOREM ScansAsTold == Spec => []AnswerIsTrue
<1>1. IInv => AnswerIsTrue
  BY DEF IInv, AnswerIsTrue, Scanning!IInv
<1> QED
  BY InitInv, NextStep, <1>1, PTL DEF Spec

(* mqtt_publish answers "ok" at QoS 1 only after the broker has taken the  *)
(* message, in whatever order packets, breaks and time-outs come.          *)
THEOREM AcknowledgedIsTaken == Spec => []OkIsTaken
<1>1. IInv => OkIsTaken
  BY DEF IInv, OkIsTaken, Mqtt!IInv
<1> QED
  BY InitInv, NextStep, <1>1, PTL DEF Spec

(* The subscription is with the broker before the request that triggers a  *)
(* report is (mqtt_tools.py, mqtt_read).                                   *)
THEOREM ListensFirst == Spec => []ReportFindsListener
<1>1. IInv => ReportFindsListener
  BY DEF IInv, ReportFindsListener, Mqtt!IInv
<1> QED
  BY InitInv, NextStep, <1>1, PTL DEF Spec

(* Every request after initialize carries the session id and the version   *)
(* its server gave last (mcp_gateway.py, _StreamableMCP), until the server *)
(* puts a new id on the answer to the notification, which is not read.     *)
THEOREM OneSession == Spec => []StaysInSession
<1>1. IInv => StaysInSession
  BY DEF IInv, StaysInSession, McpClient!IInv
<1> QED
  BY InitInv, NextStep, <1>1, PTL DEF Spec

(* A transfer that is answered for has brought over the entire file,       *)
(* however many broke before (ftp_tools.py, ssh_tools.py, webdav_tools.py),*)
(* if nobody else was at either file and a cut connection is no end of it. *)
THEOREM WholeFiles == Spec => TransferredWhole
<1>1. IInv /\ [Next]_vars => [focus = "transfers" => Transfers!WholeWhenTold]_vars
  BY TransfersStep, ConstantsAssumption DEF Next, IInv
<1> QED
  BY InitInv, NextStep, <1>1, PTL DEF Spec, TransferredWhole

(* task_next (coordination.py) lists the best tasks for an agent: one it   *)
(* leaves out is not open, is reserved for another, or comes after every   *)
(* one of the Shown listed, by class and then by age.                      *)
THEOREM BestOffered == Spec => []FirstComeInClass
<1>1. IInv => FirstComeInClass
  BY BestFirst, ConstantsAssumption DEF IInv, FirstComeInClass
<1> QED
  BY InitInv, NextStep, <1>1, PTL DEF Spec

(* The gate measures the workspace file by file before the write, and not  *)
(* after it (fs_tools.py:24-33, 113-114); however other calls come between,*)
(* a replacing write takes it past the quota by no more than they wrote,   *)
(* moved or fetched since the measuring began.                             *)
THEOREM QuotaBounded == Spec => []OvershootBounded
<1>1. IInv => OvershootBounded
  BY QuotaBounds, ConstantsAssumption DEF IInv, OvershootBounded
<1> QED
  BY InitInv, NextStep, <1>1, PTL DEF Spec

(* A schedule is due at exactly the times its text lists, steps and ranges *)
(* included (cron.py, _field_match, _is_due), as long as it has 7 for      *)
(* Sunday only on its own: the replacement of 7 by 0 in the text spoils a  *)
(* range or a step it is part of.                                          *)
THEOREM DueAsWritten == Spec => [](SundaysPlain => DueAsListed)
<1>1. IInv => (SundaysPlain => DueAsListed)
  BY Listed, ConstantsAssumption DEF IInv, DueAsListed
<1> QED
  BY InitInv, NextStep, <1>1, PTL DEF Spec
=============================================================================
