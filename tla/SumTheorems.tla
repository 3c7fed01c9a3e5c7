------------------------------ MODULE SumTheorems ------------------------------
(***************************************************************************)
(* Sums over finite sets: what MapThenSumSet computes, shown by induction  *)
(* over the subsets of the set.  The induction goes by a minimal           *)
(* counterexample, a set, so that it needs no operator as a parameter.     *)
(* The same minimal set gives the smallest of some numbers.                *)
(***************************************************************************)
EXTENDS Integers, FiniteSetsExt, FiniteSetTheorems, FunctionTheorems, TLAPS

\* Of some subsets of a finite set, one contains no other.
LEMMA MinimalSubset ==
  ASSUME NEW S, IsFiniteSet(S), NEW G, G \subseteq SUBSET S, G # {}
  PROVE  \E T \in G : \A U \in G : U \subseteq T => U = T
<1>1. IsWellFoundedOn(StrictSubsetOrdering(S), SUBSET S)
  BY FS_StrictSubsetOrderingWellFounded, FS_FiniteSubsetsOfFinite
<1>2. PICK T \in G : \A U \in G : <<U, T>> \notin StrictSubsetOrdering(S)
  BY <1>1, WFMin
<1>3. ASSUME NEW U \in G, U \subseteq T PROVE U = T
  BY <1>2, <1>3 DEF StrictSubsetOrdering
<1>4. QED
  BY <1>3

\* A set of subsets that contains a set as soon as it contains all its smaller subsets
\* contains every subset.
LEMMA SubsetInduction ==
  ASSUME NEW S, IsFiniteSet(S), NEW G,
         \A T \in SUBSET S : (\A U \in SUBSET T : U # T => U \in G) => T \in G
  PROVE  SUBSET S \subseteq G
<1> SUFFICES ASSUME (SUBSET S) \ G # {} PROVE FALSE
  OBVIOUS
<1>1. PICK R : R = (SUBSET S) \ G
  OBVIOUS
<1>2. R \subseteq SUBSET S /\ R # {}
  BY <1>1
<1>3. PICK T \in R : \A U \in R : U \subseteq T => U = T
  BY <1>2, MinimalSubset
<1>4. QED
  BY <1>1, <1>3

\* Some numbers of an interval have a smallest.
LEMMA SmallestOf ==
  ASSUME NEW n \in Nat, NEW I, I \subseteq 1..n, I # {}
  PROVE  Min(I) \in I /\ \A j \in I : Min(I) <= j
<1>1. PICK G : G = {1..i : i \in I}
  OBVIOUS
<1>2. PICK S : S = 1..n
  OBVIOUS
<1>3. IsFiniteSet(S) /\ G \subseteq SUBSET S /\ G # {}
  <2>1. IsFiniteSet(S)
    BY <1>2, FS_Interval
  <2>2. \A i \in I : 1..i \subseteq S
    BY <1>2
  <2>3. G \subseteq SUBSET S /\ G # {}
    BY <1>1, <2>2
  <2>4. QED
    BY <2>1, <2>3
<1>4. PICK T \in G : \A U \in G : U \subseteq T => U = T
  BY <1>3, MinimalSubset
<1>5. PICK i \in I : T = 1..i
  BY <1>1
<1>6. ASSUME NEW j \in I PROVE i <= j
  <2> SUFFICES ASSUME j < i PROVE FALSE
    OBVIOUS
  <2>1. 1..j \in G /\ 1..j \subseteq T
    BY <1>1, <1>5
  <2>2. 1..j = 1..i
    BY <1>5, <1>4, <2>1
  <2>3. i \in 1..i /\ i \notin 1..j
    OBVIOUS
  <2>4. QED
    BY <2>2, <2>3
<1>7. QED
  BY <1>6 DEF Min

\* Some numbers of a finite set have a largest.
LEMMA LargestOf ==
  ASSUME NEW S, IsFiniteSet(S), S \subseteq Int, S # {}
  PROVE  Max(S) \in S /\ \A y \in S : y <= Max(S)
<1> DEFINE G == {T \in SUBSET S : T # {} => \E x \in T : \A y \in T : y <= x}
<1>1. ASSUME NEW T \in SUBSET S, \A U \in SUBSET T : U # T => U \in G PROVE T \in G
  <2>1. ASSUME NEW z \in T PROVE \E x \in T : \A y \in T : y <= x
    <3>1. CASE T \ {z} = {}
      BY <3>1
    <3>2. CASE T \ {z} # {}
      <4>1. T \ {z} \in G
        BY <1>1, <2>1
      <4>2. PICK x \in T \ {z} : \A y \in T \ {z} : y <= x
        BY <3>2, <4>1
      <4>3. CASE x <= z
        <5>1. \A y \in T : y <= z
          BY <4>2, <4>3
        <5>2. QED
          BY <5>1
      <4>4. CASE z <= x
        <5>1. \A y \in T : y <= x
          BY <4>2, <4>4
        <5>2. QED
          BY <5>1
      <4>5. QED
        BY <4>3, <4>4
    <3>3. QED
      BY <3>1, <3>2
  <2>2. QED
    BY <2>1
<1>2. SUBSET S \subseteq G
  <2> HIDE DEF G
  <2> QED
    BY <1>1, SubsetInduction
<1>3. PICK x \in S : \A y \in S : y <= x
  BY <1>2
<1>4. \A y \in S : x >= y
  BY <1>3
<1>5. Max(S) \in S /\ \A y \in S : Max(S) >= y
  BY <1>4 DEF Max
<1>6. QED
  BY <1>5

--------------------------------------------------------------------------------
(* The sum of the values of a function.                                      *)

\* g gives the sums of f over the subsets of S.
IsTotal(g, f, S) ==
  /\ g \in [SUBSET S -> Int] /\ g[{}] = 0
  /\ \A s \in SUBSET S : \A x \in s : g[s] = f[x] + g[s \ {x}]

\* What MapThenSumSet computes the sums with.
IsIteration(h, f, S) ==
  h = [s \in SUBSET S |-> IF s = {} THEN 0
                          ELSE f[CHOOSE x \in s : TRUE] + h[s \ {CHOOSE x \in s : TRUE}]]

Total(f) == MapThenSumSet(LAMBDA x : f[x], DOMAIN f)

LEMMA SumsExist ==
  ASSUME NEW S, IsFiniteSet(S), NEW f \in [S -> Int]
  PROVE  \E g : IsTotal(g, f, S)
<1> DEFINE G == {T \in SUBSET S : \E g : IsTotal(g, f, T)}
<1>1. ASSUME NEW T \in SUBSET S, \A U \in SUBSET T : U # T => U \in G PROVE T \in G
  <2>1. CASE T = {}
    <3>1. IsTotal([s \in SUBSET {} |-> 0], f, {})
      BY DEF IsTotal
    <3>2. QED
      BY <2>1, <3>1
  <2>2. ASSUME NEW x \in T PROVE T \in G
    <3> DEFINE R == T \ {x}
    <3>1. PICK g : IsTotal(g, f, R)
      BY <1>1, <2>2
    <3>2. PICK h : h = [s \in SUBSET T |-> IF x \in s THEN f[x] + g[s \ {x}] ELSE g[s]]
      OBVIOUS
    <3>3. ASSUME NEW s \in SUBSET T
          PROVE  h[s] = (IF x \in s THEN f[x] + g[s \ {x}] ELSE g[s]) /\ h[s] \in Int
      <4>1. s \ {x} \in SUBSET R /\ (x \notin s => s \in SUBSET R)
        OBVIOUS
      <4>2. QED
        BY <3>1, <3>2, <4>1 DEF IsTotal
    <3>4. ASSUME NEW s \in SUBSET T, NEW y \in s PROVE h[s] = f[y] + h[s \ {y}]
      <4>1. CASE y = x
        BY <3>3, <4>1
      <4>2. CASE y # x /\ x \in s
        <5>1. /\ s \ {x} \in SUBSET R /\ y \in s \ {x} /\ s \ {y} \in SUBSET T /\ x \in s \ {y}
              /\ (s \ {x}) \ {y} = (s \ {y}) \ {x}
          BY <4>2
        <5>2. h[s] = f[x] + g[s \ {x}] /\ h[s \ {y}] = f[x] + g[(s \ {x}) \ {y}]
          BY <4>2, <5>1, <3>3
        <5>3. g[s \ {x}] = f[y] + g[(s \ {x}) \ {y}]
          BY <3>1, <5>1 DEF IsTotal
        <5>4. g[(s \ {x}) \ {y}] \in Int /\ f[y] \in Int /\ f[x] \in Int
          BY <3>1, <5>1 DEF IsTotal
        <5>5. QED
          BY <5>2, <5>3, <5>4
      <4>3. CASE y # x /\ x \notin s
        BY <3>1, <3>3, <4>3 DEF IsTotal
      <4>4. QED
        BY <4>1, <4>2, <4>3
    <3>5. h \in [SUBSET T -> Int] /\ h[{}] = 0
      BY <3>1, <3>2, <3>3 DEF IsTotal
    <3>6. IsTotal(h, f, T)
      BY <3>4, <3>5 DEF IsTotal
    <3>7. QED
      BY <3>6
  <2>3. QED
    BY <2>1, <2>2
<1>2. SUBSET S \subseteq G
  <2> HIDE DEF G
  <2> QED
    BY <1>1, SubsetInduction
<1>3. QED
  BY <1>2

\* The iteration is determined, and computes the sums.
LEMMA IterationIsTotal ==
  ASSUME NEW S, IsFiniteSet(S), NEW f \in [S -> Int]
  PROVE  /\ \E h : IsIteration(h, f, S)
         /\ \A h, g : IsIteration(h, f, S) /\ IsTotal(g, f, S) => h[S] = g[S]
<1>1. ASSUME NEW g, IsTotal(g, f, S) PROVE IsIteration(g, f, S)
  <2>1. ASSUME NEW s \in SUBSET S
        PROVE  g[s] = IF s = {} THEN 0 ELSE f[CHOOSE x \in s : TRUE] + g[s \ {CHOOSE x \in s : TRUE}]
    <3>1. CASE s # {}
      <4>1. (CHOOSE x \in s : TRUE) \in s
        BY <3>1
      <4>2. QED
        BY <1>1, <3>1, <4>1 DEF IsTotal
    <3>2. QED
      BY <1>1, <3>1 DEF IsTotal
  <2>2. QED
    BY <1>1, <2>1 DEF IsTotal, IsIteration
<1>2. ASSUME NEW h, NEW g, IsIteration(h, f, S), IsTotal(g, f, S) PROVE h[S] = g[S]
  <2> DEFINE G == {T \in SUBSET S : h[T] = g[T]}
  <2>1. ASSUME NEW T \in SUBSET S, \A U \in SUBSET T : U # T => U \in G PROVE h[T] = g[T]
    <3>1. CASE T = {}
      BY <1>2, <3>1 DEF IsIteration, IsTotal
    <3>2. CASE T # {}
      <4>1. PICK c \in T : c = (CHOOSE x \in T : TRUE)
        BY <3>2
      <4>2. h[T] = f[c] + h[T \ {c}]
        BY <1>2, <3>2, <4>1 DEF IsIteration
      <4>3. g[T] = f[c] + g[T \ {c}]
        BY <1>2 DEF IsTotal
      <4>4. h[T \ {c}] = g[T \ {c}]
        BY <2>1
      <4>5. QED
        BY <4>2, <4>3, <4>4
    <3>3. QED
      BY <3>1, <3>2
  <2>2. SUBSET S \subseteq G
    <3>1. \A T \in SUBSET S : (\A U \in SUBSET T : U # T => U \in G) => T \in G
      BY <2>1
    <3> HIDE DEF G
    <3> QED
      BY <3>1, SubsetInduction
  <2>3. QED
    BY <2>2
<1>3. QED
  BY <1>1, <1>2, SumsExist

LEMMA TotalIs ==
  ASSUME NEW S, IsFiniteSet(S), NEW f \in [S -> Int], NEW g, IsTotal(g, f, S)
  PROVE  Total(f) = g[S] /\ Total(f) \in Int
<1> DEFINE Rec(h) == h = [s \in SUBSET S |-> IF s = {} THEN 0
                                  ELSE f[CHOOSE x \in s : TRUE] + h[s \ {CHOOSE x \in s : TRUE}]]
<1>1. Rec(CHOOSE h : Rec(h))
  <2>1. PICK h : IsIteration(h, f, S)
    BY IterationIsTotal
  <2>2. Rec(h)
    BY <2>1 DEF IsIteration
  <2>3. QED
    BY <2>2, Zenon
<1>2. Total(f) = (CHOOSE h : Rec(h))[S]
  BY Zenon DEF Total, MapThenSumSet, MapThenFoldSet
<1>3. PICK h : IsIteration(h, f, S) /\ Total(f) = h[S]
  BY <1>1, <1>2 DEF IsIteration
<1>4. h[S] = g[S]
  BY <1>3, IterationIsTotal
<1>5. g[S] \in Int
  BY DEF IsTotal
<1>6. QED
  BY <1>3, <1>4, <1>5

--------------------------------------------------------------------------------

LEMMA TotalType ==
  ASSUME NEW S, IsFiniteSet(S), NEW f \in [S -> Int]
  PROVE  Total(f) \in Int
BY SumsExist, TotalIs

LEMMA TotalEmpty ==
  ASSUME NEW f \in [{} -> Int]
  PROVE  Total(f) = 0
<1>1. PICK g : IsTotal(g, f, {})
  BY SumsExist, FS_EmptySet
<1>2. QED
  BY <1>1, TotalIs, FS_EmptySet DEF IsTotal

LEMMA IterationSums ==
  ASSUME NEW S, IsFiniteSet(S), NEW f \in [S -> Int], NEW h, IsIteration(h, f, S)
  PROVE  h[S] = Total(f)
<1>1. PICK g : IsTotal(g, f, S)
  BY SumsExist
<1>2. h[S] = g[S]
  BY <1>1, IterationIsTotal
<1>3. QED
  BY <1>1, <1>2, TotalIs

\* The sum over a set with one more element.
LEMMA TotalAdd ==
  ASSUME NEW S, IsFiniteSet(S), NEW x, x \notin S, NEW f \in [S \cup {x} -> Int],
         NEW h \in [S -> Int], \A y \in S : h[y] = f[y]
  PROVE  Total(f) = f[x] + Total(h)
<1>1. IsFiniteSet(S \cup {x})
  BY FS_AddElement
<1>2. PICK g : IsTotal(g, f, S \cup {x})
  BY <1>1, SumsExist
<1>3. PICK k : k = [s \in SUBSET S |-> g[s]]
  OBVIOUS
<1>4. IsTotal(k, h, S)
  BY <1>2, <1>3 DEF IsTotal
<1>5. Total(h) = k[S] /\ Total(f) = g[S \cup {x}]
  BY <1>1, <1>2, <1>4, TotalIs
<1>6. g[S \cup {x}] = f[x] + g[S]
  <2>1. PICK R : R = S \cup {x}
    OBVIOUS
  <2>2. R \ {x} = S /\ x \in R /\ R \in SUBSET R /\ IsTotal(g, f, R)
    BY <1>2, <2>1
  <2>3. g[R] = f[x] + g[R \ {x}]
    BY <2>2 DEF IsTotal
  <2>4. QED
    BY <2>1, <2>2, <2>3
<1>7. QED
  BY <1>3, <1>5, <1>6

\* The sum over a set without one of its elements.
LEMMA TotalRemove ==
  ASSUME NEW S, IsFiniteSet(S), NEW x \in S, NEW f \in [S -> Int],
         NEW h \in [S \ {x} -> Int], \A y \in S \ {x} : h[y] = f[y]
  PROVE  Total(f) = f[x] + Total(h)
<1> DEFINE R == S \ {x}
<1>1. IsFiniteSet(R) /\ R \cup {x} = S /\ x \notin R
  BY FS_RemoveElement
<1>2. QED
  BY <1>1, TotalAdd

\* The same, for the function without its value at one place.
Summable(f) == f \in [DOMAIN f -> Int] /\ IsFiniteSet(DOMAIN f)
LessAt(f, x) == [y \in DOMAIN f \ {x} |-> f[y]]

LEMMA TotalWithout ==
  ASSUME NEW f, Summable(f), NEW x \in DOMAIN f
  PROVE  Total(f) = f[x] + Total(LessAt(f, x))
<1>1. PICK S : S = DOMAIN f
  OBVIOUS
<1>2. PICK h : h = LessAt(f, x)
  OBVIOUS
<1>3. /\ IsFiniteSet(S) /\ x \in S /\ f \in [S -> Int]
      /\ h \in [S \ {x} -> Int] /\ \A y \in S \ {x} : h[y] = f[y]
  BY <1>1, <1>2 DEF Summable, LessAt
<1>4. QED
  BY <1>2, <1>3, TotalRemove

\* The sum of a function that is changed at one place.
LEMMA TotalChange ==
  ASSUME NEW S, IsFiniteSet(S), NEW f \in [S -> Int], NEW h \in [S -> Int],
         NEW x \in S, \A y \in S \ {x} : h[y] = f[y]
  PROVE  Total(h) = Total(f) - f[x] + h[x]
<1> DEFINE R == S \ {x}
<1>1. IsFiniteSet(R) /\ R \cup {x} = S /\ x \notin R
  BY FS_RemoveElement
<1>2. PICK k \in [R -> Int] : \A y \in R : k[y] = f[y] /\ k[y] = h[y]
  <2>1. [y \in R |-> f[y]] \in [R -> Int]
    OBVIOUS
  <2>2. QED
    BY <2>1
<1>3. Total(f) = f[x] + Total(k)
  BY <1>1, <1>2, TotalAdd
<1>4. Total(h) = h[x] + Total(k)
  BY <1>1, <1>2, TotalAdd
<1>5. QED
  BY <1>1, <1>2, <1>3, <1>4, TotalType

\* The sums of numbers that are not negative are not negative.
LEMMA TotalsNat ==
  ASSUME NEW S, IsFiniteSet(S), NEW f \in [S -> Nat], NEW g, IsTotal(g, f, S)
  PROVE  \A s \in SUBSET S : g[s] \in Nat
<1> DEFINE G == {T \in SUBSET S : g[T] \in Nat}
<1>1. ASSUME NEW T \in SUBSET S, \A U \in SUBSET T : U # T => U \in G PROVE T \in G
  <2>1. CASE T = {}
    BY <2>1 DEF IsTotal
  <2>2. ASSUME NEW x \in T PROVE T \in G
    <3>1. g[T] = f[x] + g[T \ {x}] /\ f[x] \in Nat
      BY <2>2 DEF IsTotal
    <3>2. g[T \ {x}] \in Nat
      BY <1>1, <2>2
    <3>3. QED
      BY <3>1, <3>2
  <2>3. QED
    BY <2>1, <2>2
<1>2. SUBSET S \subseteq G
  <2> HIDE DEF G
  <2> QED
    BY <1>1, SubsetInduction
<1>3. QED
  BY <1>2

LEMMA TotalNat ==
  ASSUME NEW S, IsFiniteSet(S), NEW f \in [S -> Nat]
  PROVE  Total(f) \in Nat
<1>1. f \in [S -> Int]
  OBVIOUS
<1>2. PICK g : IsTotal(g, f, S)
  BY <1>1, SumsExist
<1>3. QED
  BY <1>1, <1>2, TotalsNat, TotalIs

\* Numbers that are each matched with a number of their own that is not smaller add
\* up to no more.
LEMMA InjectedTotal ==
  ASSUME NEW S, NEW T, IsFiniteSet(T), NEW f \in [S -> Int], NEW h \in [T -> Nat],
         NEW u \in Injection(S, T), \A x \in S : f[x] <= h[u[x]]
  PROVE  IsFiniteSet(S) /\ Total(f) <= Total(h)
<1>1. IsFiniteSet(S) /\ u \in [S -> T] /\ \A x, y \in S : u[x] = u[y] => x = y
  BY FS_Injection, Fun_InjectionProperties
<1>2. h \in [T -> Int]
  OBVIOUS
<1>3. PICK g, k : IsTotal(g, f, S) /\ IsTotal(k, h, T)
  BY <1>1, <1>2, SumsExist
<1>4. \A Q \in SUBSET T : k[Q] \in Nat
  BY <1>3, TotalsNat
<1> DEFINE G == {R \in SUBSET S : \A Q \in SUBSET T : (\A x \in R : u[x] \in Q) => g[R] <= k[Q]}
<1>5. ASSUME NEW R \in SUBSET S, \A U \in SUBSET R : U # R => U \in G PROVE R \in G
  <2>1. CASE R = {}
    BY <1>3, <1>4, <2>1 DEF IsTotal
  <2>2. ASSUME NEW x \in R, NEW Q \in SUBSET T, \A y \in R : u[y] \in Q PROVE g[R] <= k[Q]
    <3>1. R \ {x} \in G /\ Q \ {u[x]} \in SUBSET T /\ \A y \in R \ {x} : u[y] \in Q \ {u[x]}
      BY <1>1, <1>5, <2>2
    <3>2. g[R \ {x}] <= k[Q \ {u[x]}]
      BY <3>1
    <3>3. g[R] = f[x] + g[R \ {x}] /\ k[Q] = h[u[x]] + k[Q \ {u[x]}]
      BY <1>3, <2>2 DEF IsTotal
    <3>4. f[x] \in Int /\ h[u[x]] \in Nat /\ f[x] <= h[u[x]]
      BY <2>2, <1>1
    <3>5. g[R \ {x}] \in Int /\ k[Q \ {u[x]}] \in Nat
      <4>1. R \ {x} \in SUBSET S
        OBVIOUS
      <4>2. QED
        BY <1>3, <1>4, <3>1, <4>1 DEF IsTotal
    <3>6. QED
      BY <3>2, <3>3, <3>4, <3>5
  <2>3. QED
    BY <2>1, <2>2
<1>6. SUBSET S \subseteq G
  <2> HIDE DEF G
  <2> QED
    BY <1>1, <1>5, SubsetInduction
<1>7. g[S] <= k[T]
  BY <1>1, <1>6
<1>8. QED
  BY <1>1, <1>2, <1>3, <1>7, TotalIs

--------------------------------------------------------------------------------
(* Sums written with MapThenSumSet over a part of what the function is       *)
(* defined on, as in the specifications.                                     *)

SumOver(f, S) == MapThenSumSet(LAMBDA x : f[x], S)

LEMMA SumOverIs ==
  ASSUME NEW S, IsFiniteSet(S), NEW f, \A x \in S : f[x] \in Int
  PROVE  SumOver(f, S) = Total([x \in S |-> f[x]])
<1>1. PICK e \in [S -> Int] : e = [x \in S |-> f[x]]
  <2>1. [x \in S |-> f[x]] \in [S -> Int]
    OBVIOUS
  <2>2. QED
    BY <2>1
<1>2. \A s \in SUBSET S : s # {} => e[CHOOSE x \in s : TRUE] = f[CHOOSE x \in s : TRUE]
  <2>1. \A s \in SUBSET S : s # {} => (CHOOSE x \in s : TRUE) \in S
    OBVIOUS
  <2>2. QED
    BY <1>1, <2>1
<1> DEFINE Rec(h) == h = [s \in SUBSET S |-> IF s = {} THEN 0
                                  ELSE f[CHOOSE x \in s : TRUE] + h[s \ {CHOOSE x \in s : TRUE}]]
<1>3. Rec(CHOOSE h : Rec(h))
  <2>1. PICK h : IsIteration(h, e, S)
    BY IterationIsTotal
  <2>2. Rec(h)
    BY <1>2, <2>1 DEF IsIteration
  <2>3. QED
    BY <2>2, Zenon
<1>4. SumOver(f, S) = (CHOOSE h : Rec(h))[S]
  BY Zenon DEF SumOver, MapThenSumSet, MapThenFoldSet
<1>5. PICK h : Rec(h) /\ SumOver(f, S) = h[S]
  BY <1>3, <1>4
<1>6. IsIteration(h, e, S)
  <2>1. Rec(h)
    BY <1>5
  <2>2. PICK k : k = [s \in SUBSET S |-> IF s = {} THEN 0
                       ELSE e[CHOOSE x \in s : TRUE] + h[s \ {CHOOSE x \in s : TRUE}]]
    OBVIOUS
  <2>3. \A s \in SUBSET S : h[s] = k[s]
    BY <1>2, <2>1, <2>2
  <2>4. h = k
    BY <2>1, <2>2, <2>3
  <2>5. QED
    BY <2>2, <2>4 DEF IsIteration
<1>7. h[S] = Total(e)
  BY <1>6, IterationSums
<1>8. QED
  BY <1>1, <1>5, <1>7

LEMMA SumOverType ==
  ASSUME NEW S, IsFiniteSet(S), NEW f, \A x \in S : f[x] \in Int
  PROVE  SumOver(f, S) \in Int
<1>1. PICK e \in [S -> Int] : e = [x \in S |-> f[x]]
  <2>1. [x \in S |-> f[x]] \in [S -> Int]
    OBVIOUS
  <2>2. QED
    BY <2>1
<1>2. QED
  BY <1>1, SumOverIs, TotalType

\* The sum only depends on the values on the set.
LEMMA SumOverSame ==
  ASSUME NEW S, IsFiniteSet(S), NEW f, NEW g, \A x \in S : f[x] \in Int /\ g[x] = f[x]
  PROVE  SumOver(g, S) = SumOver(f, S)
<1>1. [x \in S |-> g[x]] = [x \in S |-> f[x]]
  OBVIOUS
<1>2. QED
  BY <1>1, SumOverIs

LEMMA SumOverZero ==
  ASSUME NEW S, IsFiniteSet(S), NEW f, \A x \in S : f[x] = 0
  PROVE  SumOver(f, S) = 0
<1>1. PICK e \in [S -> Int] : e = [x \in S |-> f[x]]
  <2>1. [x \in S |-> f[x]] \in [S -> Int]
    OBVIOUS
  <2>2. QED
    BY <2>1
<1>2. IsTotal([s \in SUBSET S |-> 0], e, S)
  BY <1>1 DEF IsTotal
<1>3. Total(e) = 0
  BY <1>2, TotalIs
<1>4. QED
  BY <1>1, <1>3, SumOverIs

\* Totals add up over disjoint sets.
LEMMA TotalsAdd ==
  ASSUME NEW S, IsFiniteSet(S), NEW f \in [S -> Int], NEW g, IsTotal(g, f, S),
         NEW A \in SUBSET S, NEW B \in SUBSET S, A \cap B = {}
  PROVE  g[A \cup B] = g[A] + g[B]
<1> DEFINE G == {T \in SUBSET B : g[A \cup T] = g[A] + g[T]}
<1>1. ASSUME NEW T \in SUBSET B, \A U \in SUBSET T : U # T => U \in G PROVE T \in G
  <2>1. g[A] \in Int /\ g[{}] = 0
    BY DEF IsTotal
  <2>2. CASE T = {}
    <3>1. A \cup T = A
      BY <2>2
    <3>2. QED
      BY <2>1, <2>2, <3>1
  <2>3. ASSUME NEW x \in T PROVE T \in G
    <3>1. T \ {x} \in G
      BY <1>1
    <3>2. (A \cup T) \ {x} = A \cup (T \ {x}) /\ x \in A \cup T /\ A \cup T \in SUBSET S /\ T \in SUBSET S
      BY <2>3
    <3>3. g[A \cup T] = f[x] + g[A \cup (T \ {x})] /\ g[T] = f[x] + g[T \ {x}]
      BY <2>3, <3>2 DEF IsTotal
    <3>4. f[x] \in Int /\ g[T \ {x}] \in Int
      BY <3>2 DEF IsTotal
    <3>5. QED
      BY <2>1, <3>1, <3>3, <3>4
  <2>4. QED
    BY <2>2, <2>3
<1>2. IsFiniteSet(B)
  BY FS_Subset
<1>3. SUBSET B \subseteq G
  <2> HIDE DEF G
  <2>1. QED
    BY <1>1, <1>2, SubsetInduction
<1>4. B \in G
  BY <1>3
<1>5. QED
  BY <1>4

\* The total of a part.
LEMMA TotalOfPart ==
  ASSUME NEW S, IsFiniteSet(S), NEW f \in [S -> Int], NEW g, IsTotal(g, f, S),
         NEW A \in SUBSET S, NEW a \in [A -> Int], \A x \in A : a[x] = f[x]
  PROVE  Total(a) = g[A]
<1>1. PICK k : k = [s \in SUBSET A |-> g[s]]
  OBVIOUS
<1>2. IsTotal(k, a, A)
  BY <1>1 DEF IsTotal
<1>3. IsFiniteSet(A)
  BY FS_Subset
<1>4. Total(a) = k[A]
  BY <1>2, <1>3, TotalIs
<1>5. QED
  BY <1>1, <1>4

LEMMA TotalPlus ==
  ASSUME NEW S, IsFiniteSet(S), NEW f \in [S -> Int], NEW g \in [S -> Int], NEW h \in [S -> Int],
         \A x \in S : h[x] = f[x] + g[x]
  PROVE  Total(h) = Total(f) + Total(g)
<1>1. PICK a, b : IsTotal(a, f, S) /\ IsTotal(b, g, S)
  BY SumsExist
<1>2. PICK c : c = [s \in SUBSET S |-> a[s] + b[s]]
  OBVIOUS
<1>3. IsTotal(c, h, S)
  <2>1. c \in [SUBSET S -> Int] /\ c[{}] = 0
    BY <1>1, <1>2 DEF IsTotal
  <2>2. ASSUME NEW s \in SUBSET S, NEW x \in s PROVE c[s] = h[x] + c[s \ {x}]
    <3>1. a[s] = f[x] + a[s \ {x}] /\ b[s] = g[x] + b[s \ {x}] /\ a[s \ {x}] \in Int /\ b[s \ {x}] \in Int
      BY <1>1 DEF IsTotal
    <3>2. c[s] = a[s] + b[s] /\ c[s \ {x}] = a[s \ {x}] + b[s \ {x}]
      BY <1>2
    <3>3. f[x] \in Int /\ g[x] \in Int /\ h[x] = f[x] + g[x]
      OBVIOUS
    <3>4. QED
      BY <3>1, <3>2, <3>3
  <2>3. QED
    BY <2>1, <2>2 DEF IsTotal
<1>4. Total(f) = a[S] /\ Total(g) = b[S] /\ Total(h) = c[S]
  BY <1>1, <1>3, TotalIs
<1>5. QED
  BY <1>2, <1>4

LEMMA TotalMinus ==
  ASSUME NEW S, IsFiniteSet(S), NEW f \in [S -> Int], NEW g \in [S -> Int], NEW h \in [S -> Int],
         \A x \in S : h[x] = f[x] - g[x]
  PROVE  Total(h) = Total(f) - Total(g)
<1>1. \A x \in S : f[x] = h[x] + g[x]
  OBVIOUS
<1>2. Total(f) = Total(h) + Total(g)
  BY <1>1, TotalPlus
<1>3. QED
  BY <1>2, TotalType

\* A total of zero is one of zeros.
LEMMA TotalOfZeros ==
  ASSUME NEW S, IsFiniteSet(S), NEW f \in [S -> Nat], Total(f) = 0
  PROVE  \A x \in S : f[x] = 0
<1> SUFFICES ASSUME NEW x \in S PROVE f[x] = 0
  OBVIOUS
<1>1. PICK h \in [S \ {x} -> Nat] : \A y \in S \ {x} : h[y] = f[y]
  <2>1. [y \in S \ {x} |-> f[y]] \in [S \ {x} -> Nat]
    OBVIOUS
  <2>2. QED
    BY <2>1
<1>2. IsFiniteSet(S \ {x})
  BY FS_Subset
<1>3. Total(h) \in Nat
  BY <1>2, TotalNat
<1>4. Total(f) = f[x] + Total(h)
  BY <1>1, TotalRemove
<1>5. QED
  BY <1>3, <1>4

\* The total over two parts.
PartsOf(S, A, B) == A \in SUBSET S /\ B \in SUBSET S /\ A \cap B = {} /\ A \cup B = S
SameOn(f, g, S) == \A x \in S : f[x] = g[x]

LEMMA TotalSplit ==
  ASSUME NEW S, IsFiniteSet(S), NEW f \in [S -> Int], NEW A, NEW B, PartsOf(S, A, B),
         NEW a \in [A -> Int], NEW b \in [B -> Int], SameOn(a, f, A), SameOn(b, f, B)
  PROVE  Total(f) = Total(a) + Total(b)
<1>1. PICK g : IsTotal(g, f, S)
  BY SumsExist
<1>2. A \in SUBSET S /\ B \in SUBSET S /\ A \cap B = {} /\ A \cup B = S
  BY DEF PartsOf
<1>3. (\A x \in A : a[x] = f[x]) /\ (\A x \in B : b[x] = f[x])
  BY DEF SameOn
<1>4. Total(a) = g[A] /\ Total(b) = g[B] /\ Total(f) = g[S]
  BY <1>1, <1>2, <1>3, TotalOfPart, TotalIs
<1>5. g[A \cup B] = g[A] + g[B]
  BY <1>1, <1>2, TotalsAdd
<1>6. QED
  BY <1>2, <1>4, <1>5

\* What is summed group by group.
Fibre(p, t) == {x \in DOMAIN p : p[x] = t}

LEMMA TotalFibres ==
  ASSUME NEW S, IsFiniteSet(S), NEW T, IsFiniteSet(T), NEW f \in [S -> Int], NEW p \in [S -> T],
         NEW h \in [T -> Int], \A t \in T : h[t] = Total([x \in Fibre(p, t) |-> f[x]])
  PROVE  Total(f) = Total(h)
<1>1. PICK g, k : IsTotal(g, f, S) /\ IsTotal(k, h, T)
  BY SumsExist
<1>2. ASSUME NEW t \in T PROVE h[t] = g[Fibre(p, t)]
  <2>1. Fibre(p, t) \in SUBSET S
    BY DEF Fibre
  <2>2. PICK A, a : A = Fibre(p, t) /\ a = [x \in A |-> f[x]]
    OBVIOUS
  <2>3. a \in [A -> Int] /\ \A x \in A : a[x] = f[x]
    BY <2>1, <2>2
  <2>4. Total(a) = g[A]
    BY <1>1, <2>1, <2>2, <2>3, TotalOfPart
  <2>5. QED
    BY <2>2, <2>4
<1> DEFINE Over(U) == {x \in S : p[x] \in U}
           G == {U \in SUBSET T : k[U] = g[Over(U)]}
<1>3. ASSUME NEW U \in SUBSET T, \A V \in SUBSET U : V # U => V \in G PROVE U \in G
  <2>1. CASE U = {}
    <3>1. Over(U) = {}
      BY <2>1
    <3>2. QED
      BY <1>1, <2>1, <3>1 DEF IsTotal
  <2>2. ASSUME NEW t \in U PROVE U \in G
    <3>1. U \ {t} \in G
      BY <1>3
    <3>2. PICK V, A, B : V = U \ {t} /\ A = Fibre(p, t) /\ B = Over(V)
      OBVIOUS
    <3>3. A \in SUBSET S /\ B \in SUBSET S /\ A \cap B = {} /\ A \cup B = Over(U)
      BY <3>2 DEF Fibre
    <3>4. g[A \cup B] = g[A] + g[B]
      BY <1>1, <3>3, TotalsAdd
    <3>5. k[U] = h[t] + k[V] /\ t \in T
      BY <1>1, <3>2 DEF IsTotal
    <3>6. h[t] = g[A]
      BY <1>2, <3>2
    <3>7. k[V] = g[B]
      BY <3>1, <3>2
    <3>8. QED
      BY <3>3, <3>4, <3>5, <3>6, <3>7
  <2>3. QED
    BY <2>1, <2>2
<1>4. SUBSET T \subseteq G
  <2> HIDE DEF G
  <2>1. QED
    BY <1>3, SubsetInduction
<1>5. T \in G /\ Over(T) = S
  BY <1>4
<1>6. k[T] = g[S]
  BY <1>5
<1>7. QED
  BY <1>1, <1>6, TotalIs

\* The order in which things are named does not matter.
LEMMA TotalReindex ==
  ASSUME NEW S, IsFiniteSet(S), NEW T, NEW u \in Bijection(S, T), NEW f \in [S -> Int], NEW h \in [T -> Int],
         \A x \in S : f[x] = h[u[x]]
  PROVE  IsFiniteSet(T) /\ Total(f) = Total(h)
<1>1. /\ u \in [S -> T] /\ \A x, y \in S : u[x] = u[y] => x = y
      /\ \A t \in T : \E x \in S : u[x] = t
  BY Fun_BijectionProperties
<1>2. IsFiniteSet(T)
  <2>1. ExistsBijection(S, T)
    BY DEF ExistsBijection
  <2>2. QED
    BY <2>1, FS_Bijection
<1>3. PICK g, k : IsTotal(g, f, S) /\ IsTotal(k, h, T)
  BY <1>2, SumsExist
<1> DEFINE Image(A) == {u[x] : x \in A}
           G == {A \in SUBSET S : g[A] = k[Image(A)]}
<1>4. ASSUME NEW A \in SUBSET S, \A V \in SUBSET A : V # A => V \in G PROVE A \in G
  <2>1. CASE A = {}
    <3>1. Image(A) = {}
      BY <2>1
    <3>2. QED
      BY <1>3, <2>1, <3>1 DEF IsTotal
  <2>2. ASSUME NEW x \in A PROVE A \in G
    <3>1. A \ {x} \in G
      BY <1>4
    <3>2. Image(A \ {x}) = Image(A) \ {u[x]} /\ u[x] \in Image(A) /\ Image(A) \in SUBSET T
      BY <1>1, <2>2
    <3>3. g[A] = f[x] + g[A \ {x}]
      BY <1>3, <2>2 DEF IsTotal
    <3>4. k[Image(A)] = h[u[x]] + k[Image(A) \ {u[x]}]
      BY <1>3, <3>2 DEF IsTotal
    <3>5. QED
      BY <3>1, <3>2, <3>3, <3>4
  <2>3. QED
    BY <2>1, <2>2
<1>5. SUBSET S \subseteq G
  <2> HIDE DEF G
  <2>1. QED
    BY <1>4, SubsetInduction
<1>6. S \in G /\ Image(S) = T
  BY <1>1, <1>5
<1>7. g[S] = k[T]
  BY <1>6
<1>8. QED
  BY <1>2, <1>3, <1>7, TotalIs

================================================================================
