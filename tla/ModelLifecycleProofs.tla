------------------------- MODULE ModelLifecycleProofs -------------------------
(***************************************************************************)
(* Proofs about the life of a scorecard, for any samples, any card, any    *)
(* grid and any limits.                                                    *)
(*                                                                         *)
(* What is summed up and sorted is data, and the provers have no induction *)
(* over data.  Its place is taken by the smallest counterexample: a        *)
(* nonempty set of subsets of a finite set has a smallest member           *)
(* (SmallestSet), and what fails there for the first time cannot fail.     *)
(***************************************************************************)
EXTENDS ModelLifecycle, SequenceTheorems, FiniteSetTheorems, WellFoundedInduction, TLAPS

-----------------------------------------------------------------------------
(* Smallest counterexamples.                                                *)

(* A nonempty set of natural numbers has a least element.                   *)
LEMMA LeastNatural ==
  ASSUME NEW T \in SUBSET Nat, T # {}
  PROVE  \E n \in T : \A m \in T : n <= m
<1> DEFINE R == OpToRel(<, Nat)
<1>1. IsWellFoundedOn(R, Nat)
  BY NatLessThanWellFounded, Zenon
<1>2. PICK n \in T : \A m \in T : ~(<<m, n>> \in R)
  BY <1>1, WFMin, Zenon
<1>3. \A m \in T : ~(m < n)
  BY <1>2 DEF OpToRel
<1> QED
  BY <1>3

(* A nonempty set of subsets of a finite set has a member that leaves the   *)
(* set with each element that is taken from it.                             *)
LEMMA SmallestSet ==
  ASSUME NEW S, IsFiniteSet(S), NEW C \in SUBSET (SUBSET S), C # {}
  PROVE  \E T \in C : IsFiniteSet(T) /\ \A x \in T : T \ {x} \notin C
<1>1. \A T \in C : IsFiniteSet(T) /\ Cardinality(T) \in Nat
  BY FS_Subset, FS_CardinalityType
<1> DEFINE sizes == {Cardinality(T) : T \in C}
<1>2. sizes \in SUBSET Nat /\ sizes # {}
  BY <1>1
<1>3. PICK n \in sizes : \A m \in sizes : n <= m
  <2> HIDE DEF sizes
  <2> QED BY <1>2, LeastNatural
<1>4. PICK T \in C : Cardinality(T) = n
  BY <1>3
<1>5. ASSUME NEW x \in T, T \ {x} \in C PROVE FALSE
  <2>1. Cardinality(T \ {x}) = Cardinality(T) - 1
    BY <1>1, <1>4, FS_RemoveElement
  <2>2. n <= Cardinality(T \ {x}) /\ n \in Nat
    BY <1>1, <1>2, <1>3, <1>5
  <2> QED BY <1>4, <2>1, <2>2
<1> QED BY <1>1, <1>4, <1>5

(* A nonempty finite set of numbers has a greatest and a least member.      *)
LEMMA Extremes ==
  ASSUME NEW S \in SUBSET Int, IsFiniteSet(S), S # {}
  PROVE  /\ Max(S) \in S /\ \A y \in S : Max(S) >= y
         /\ Min(S) \in S /\ \A y \in S : Min(S) <= y
<1> DEFINE Has(T) == /\ \E x \in T : \A y \in T : x >= y
                     /\ \E x \in T : \A y \in T : x <= y
           C == {T \in SUBSET S : T # {} /\ ~Has(T)}
<1>1. Has(S)
  <2>1. SUFFICES ASSUME C # {} PROVE FALSE
    BY DEF C
  <2>2. PICK T \in C : IsFiniteSet(T) /\ \A x \in T : T \ {x} \notin C
    <3>1. C \in SUBSET (SUBSET S)
      OBVIOUS
    <3> HIDE DEF C
    <3> QED BY <2>1, <3>1, SmallestSet
  <2>3. PICK x \in T : TRUE
    OBVIOUS
  <2>4. CASE T \ {x} = {}
    <3>1. T = {x}
      BY <2>4
    <3> QED BY <3>1
  <2>5. CASE T \ {x} # {}
    <3>1. Has(T \ {x})
      BY <2>2, <2>5
    <3>2. PICK g \in T \ {x} : \A y \in T \ {x} : g >= y
      BY <3>1
    <3>3. PICK l \in T \ {x} : \A y \in T \ {x} : l <= y
      BY <3>1
    <3>4. T \subseteq Int
      OBVIOUS
    <3>5. \E z \in T : \A y \in T : z >= y
      <4>1. CASE x >= g
        BY <3>2, <3>4, <4>1
      <4>2. CASE ~(x >= g)
        BY <3>2, <3>4, <4>2
      <4> QED BY <4>1, <4>2
    <3>6. \E z \in T : \A y \in T : z <= y
      <4>1. CASE x <= l
        BY <3>3, <3>4, <4>1
      <4>2. CASE ~(x <= l)
        BY <3>3, <3>4, <4>2
      <4> QED BY <4>1, <4>2
    <3> QED BY <3>5, <3>6
  <2> QED BY <2>4, <2>5
<1>2. Max(S) \in S /\ \A y \in S : Max(S) >= y
  BY <1>1 DEF Max
<1>3. Min(S) \in S /\ \A y \in S : Min(S) <= y
  BY <1>1 DEF Min
<1> QED BY <1>2, <1>3

(* The same of two numbers.                                                 *)
LEMMA OfTwo ==
  ASSUME NEW a \in Int, NEW b \in Int
  PROVE  /\ Min({a, b}) = IF a <= b THEN a ELSE b
         /\ Max({a, b}) = IF a >= b THEN a ELSE b
<1>1. IsFiniteSet({a, b})
  <2>1. {a, b} = {a} \cup {b}
    OBVIOUS
  <2>2. IsFiniteSet({a})
    BY FS_Singleton
  <2> QED BY <2>1, <2>2, FS_AddElement
<1> DEFINE S == {a, b}
<1>2. S \in SUBSET Int /\ S # {}
  OBVIOUS
<1>3. /\ Max(S) \in S /\ \A y \in S : Max(S) >= y
      /\ Min(S) \in S /\ \A y \in S : Min(S) <= y
  <2> HIDE DEF S
  <2>1. IsFiniteSet(S)
    BY <1>1 DEF S
  <2> QED BY <1>2, <2>1, Extremes
<1> QED BY <1>3

-----------------------------------------------------------------------------
(* Sums over finite sets (Samples).                                         *)

\* The fold's order: some member is taken out first.
Taken(T) == CHOOSE x \in T : TRUE

\* What the fold of the sum makes of the set T, if it makes g of smaller ones.
Fold(f, g, T) == IF T = {} THEN 0 ELSE f[Taken(T)] + g[T \ {Taken(T)}]

IsSum(f, g, S) == g = [T \in SUBSET S |-> Fold(f, g, T)]

SumsUp(f, S) == CHOOSE g : g = [T \in SUBSET S |-> Fold(f, g, T)]

LEMMA TotalIsFold ==
  ASSUME NEW f, NEW S
  PROVE  Total(f, S) = SumsUp(f, S)[S]
  BY DEF Total, MapThenSumSet, MapThenFoldSet, Taken, Fold, SumsUp

(* There is such a function of the subsets of a finite set: there is one    *)
(* for the subsets of any size.                                             *)
LEMMA SumsExist ==
  ASSUME NEW S, IsFiniteSet(S), NEW f, \A x \in S : f[x] \in Int
  PROVE  \E g \in [SUBSET S -> Int] : IsSum(f, g, S)
<1> DEFINE Layer(n) == {T \in SUBSET S : Cardinality(T) <= n}
           Has(n) == \E g \in [Layer(n) -> Int] : g = [T \in Layer(n) |-> Fold(f, g, T)]
           bad == {n \in Nat : ~Has(n)}
<1>1. \A T \in SUBSET S : IsFiniteSet(T) /\ Cardinality(T) \in Nat
  BY FS_Subset, FS_CardinalityType
<1>2. bad = {}
  <2>1. SUFFICES ASSUME bad # {} PROVE FALSE
    OBVIOUS
  <2>2. PICK n \in bad : \A m \in bad : n <= m
    <3>1. bad \in SUBSET Nat
      OBVIOUS
    <3> HIDE DEF bad
    <3> QED BY <2>1, <3>1, LeastNatural
  <2>3. n \in Nat /\ ~Has(n)
    OBVIOUS
  <2>4. CASE n = 0
    <3>1. Layer(0) = {{}}
      <4>1. \A T \in Layer(0) : T = {}
        BY <1>1, FS_EmptySet
      <4>2. {} \in Layer(0)
        BY FS_EmptySet
      <4> QED BY <4>1, <4>2
    <3> DEFINE g == [T \in {{}} |-> 0]
    <3>2. g \in [{{}} -> Int]
      OBVIOUS
    <3>3. g = [T \in {{}} |-> Fold(f, g, T)]
      BY DEF Fold
    <3> HIDE DEF g, Layer
    <3> QED BY <2>3, <2>4, <3>1, <3>2, <3>3
  <2>5. CASE n # 0
    <3>1. n - 1 \in Nat /\ Has(n - 1)
      <4>1. n - 1 \in Nat /\ ~(n <= n - 1)
        BY <2>3, <2>5
      <4>2. n - 1 \notin bad
        BY <2>2, <4>1
      <4> QED BY <4>1, <4>2
    <3>2. PICK h \in [Layer(n - 1) -> Int] : h = [T \in Layer(n - 1) |-> Fold(f, h, T)]
      BY <3>1
    <3> DEFINE g == [T \in Layer(n) |-> Fold(f, h, T)]
    <3>3. ASSUME NEW T \in Layer(n), T # {}
          PROVE  T \ {Taken(T)} \in Layer(n - 1) /\ f[Taken(T)] \in Int
      <4>1. Taken(T) \in T
        BY <3>3 DEF Taken
      <4>2. Cardinality(T \ {Taken(T)}) = Cardinality(T) - 1
        BY <1>1, <4>1, FS_RemoveElement
      <4> QED BY <1>1, <2>3, <4>1, <4>2
    <3>4. Layer(n - 1) \subseteq Layer(n)
      BY <1>1, <2>3
    <3> HIDE DEF Layer
    <3>5. g \in [Layer(n) -> Int]
      BY <3>3 DEF Fold
    <3>6. \A T \in Layer(n - 1) : g[T] = h[T]
      BY <3>2, <3>4
    <3>7. \A T \in Layer(n) : Fold(f, h, T) = Fold(f, g, T)
      <4> HIDE DEF g
      <4> QED BY <3>3, <3>6 DEF Fold
    <3>8. g = [T \in Layer(n) |-> Fold(f, g, T)]
      <4> DEFINE k == [T \in Layer(n) |-> Fold(f, g, T)]
      <4>1. \A T \in Layer(n) : g[T] = k[T]
        BY <3>7
      <4>2. g = [T \in Layer(n) |-> g[T]] /\ k = [T \in Layer(n) |-> k[T]]
        OBVIOUS
      <4> HIDE DEF g, k
      <4>3. g = k
        BY <4>1, <4>2
      <4> QED BY <4>3 DEF k
    <3> HIDE DEF g
    <3> QED BY <2>3, <3>5, <3>8
  <2> QED BY <2>4, <2>5
<1>3. Cardinality(S) \in Nat /\ Layer(Cardinality(S)) = SUBSET S
  BY <1>1, FS_Subset
<1>4. Has(Cardinality(S))
  BY <1>2, <1>3
<1> QED
  <2> HIDE DEF Layer
  <2> QED BY <1>3, <1>4 DEF IsSum

(* So the sum of a finite set unfolds, and is a number.                     *)
LEMMA SumsUnfold ==
  ASSUME NEW S, IsFiniteSet(S), NEW f, \A x \in S : f[x] \in Int
  PROVE  /\ SumsUp(f, S) \in [SUBSET S -> Int]
         /\ \A T \in SUBSET S : SumsUp(f, S)[T] = Fold(f, SumsUp(f, S), T)
<1>1. PICK g \in [SUBSET S -> Int] : IsSum(f, g, S)
  BY SumsExist
<1>2. IsSum(f, SumsUp(f, S), S)
  BY <1>1 DEF SumsUp, IsSum
<1> DEFINE s == SumsUp(f, S)
<1>3. \A T \in SUBSET S : s[T] = Fold(f, s, T)
  <2> HIDE DEF s
  <2>1. s = [T \in SUBSET S |-> Fold(f, s, T)]
    BY <1>2 DEF s, IsSum
  <2> QED BY <2>1
<1>4. \A T \in SUBSET S : s[T] = g[T]
  <2> DEFINE C == {T \in SUBSET S : s[T] # g[T]}
  <2>1. SUFFICES ASSUME C # {} PROVE FALSE
    OBVIOUS
  <2>2. PICK T \in C : \A x \in T : T \ {x} \notin C
    <3>1. C \in SUBSET (SUBSET S)
      OBVIOUS
    <3> HIDE DEF C
    <3> QED BY <2>1, <3>1, SmallestSet
  <2>3. s[T] = Fold(f, s, T) /\ g[T] = Fold(f, g, T)
    BY <1>1, <1>3 DEF IsSum
  <2>4. CASE T = {}
    BY <2>3, <2>4 DEF Fold
  <2>5. CASE T # {}
    <3>1. Taken(T) \in T
      BY <2>5 DEF Taken
    <3>2. s[T \ {Taken(T)}] = g[T \ {Taken(T)}]
      BY <2>2, <3>1
    <3> HIDE DEF s
    <3> QED BY <2>2, <2>3, <2>5, <3>2 DEF Fold
  <2> QED BY <2>4, <2>5
<1>5. s \in [SUBSET S -> Int]
  <2>1. s = [T \in SUBSET S |-> Fold(f, s, T)]
    BY <1>2 DEF IsSum
  <2> HIDE DEF s
  <2>2. s = [T \in SUBSET S |-> s[T]]
    BY <2>1
  <2> QED BY <1>4, <2>2
<1> QED BY <1>3, <1>5

(* The sum of a subset is the same, whichever set it is summed up in, and   *)
(* depends on nothing but the numbers of its members.                       *)
LEMMA SumsAgree ==
  ASSUME NEW S, IsFiniteSet(S), NEW f, \A x \in S : f[x] \in Int,
         NEW U, IsFiniteSet(U), NEW h, \A x \in U : h[x] \in Int,
         NEW A, A \subseteq S, A \subseteq U, \A x \in A : f[x] = h[x]
  PROVE  SumsUp(f, S)[A] = SumsUp(h, U)[A]
<1> DEFINE s == SumsUp(f, S)
           u == SumsUp(h, U)
           C == {T \in SUBSET A : s[T] # u[T]}
<1>1. SUFFICES ASSUME C # {} PROVE FALSE
  OBVIOUS
<1>2. PICK T \in C : \A x \in T : T \ {x} \notin C
  <2>1. C \in SUBSET (SUBSET A) /\ IsFiniteSet(A)
    BY FS_Subset
  <2> HIDE DEF C
  <2> QED BY <1>1, <2>1, SmallestSet
<1>3. s[T] = Fold(f, s, T) /\ u[T] = Fold(h, u, T)
  <2>1. T \in SUBSET S /\ T \in SUBSET U
    OBVIOUS
  <2>2. \A B \in SUBSET S : SumsUp(f, S)[B] = Fold(f, SumsUp(f, S), B)
    BY SumsUnfold
  <2>3. \A B \in SUBSET U : SumsUp(h, U)[B] = Fold(h, SumsUp(h, U), B)
    BY SumsUnfold
  <2> QED BY <2>1, <2>2, <2>3
<1>4. CASE T = {}
  BY <1>3, <1>4 DEF Fold
<1>5. CASE T # {}
  <2>1. Taken(T) \in T
    BY <1>5 DEF Taken
  <2>2. s[T \ {Taken(T)}] = u[T \ {Taken(T)}]
    BY <1>2, <2>1
  <2> HIDE DEF s, u
  <2> QED BY <1>2, <1>3, <1>5, <2>1, <2>2 DEF Fold
<1> QED BY <1>4, <1>5

(* The sum of nothing, and a sum without the first member.                  *)
LEMMA TotalUnfolds ==
  ASSUME NEW S, IsFiniteSet(S), NEW f, \A x \in S : f[x] \in Int
  PROVE  /\ Total(f, S) \in Int
         /\ S = {} => Total(f, S) = 0
         /\ S # {} => /\ Taken(S) \in S
                      /\ Total(f, S) = f[Taken(S)] + Total(f, S \ {Taken(S)})
<1>1. /\ SumsUp(f, S) \in [SUBSET S -> Int]
      /\ SumsUp(f, S)[S] = Fold(f, SumsUp(f, S), S)
  BY SumsUnfold
<1>2. Total(f, S) = SumsUp(f, S)[S]
  BY TotalIsFold
<1>3. S # {} => Taken(S) \in S
  BY DEF Taken
<1>4. SumsUp(f, S)[S \ {Taken(S)}] = Total(f, S \ {Taken(S)})
  <2> DEFINE R == S \ {Taken(S)}
  <2>1. R \subseteq S /\ IsFiniteSet(R)
    BY FS_Subset
  <2>2. Total(f, R) = SumsUp(f, R)[R]
    BY TotalIsFold
  <2> HIDE DEF R
  <2>3. SumsUp(f, S)[R] = SumsUp(f, R)[R]
    BY <2>1, SumsAgree
  <2> QED BY <2>2, <2>3 DEF R
<1> QED BY <1>1, <1>2, <1>3, <1>4 DEF Fold

(* Equal numbers have equal sums.                                           *)
LEMMA TotalOfEqual ==
  ASSUME NEW S, IsFiniteSet(S), NEW f, \A x \in S : f[x] \in Int,
         NEW h, \A x \in S : f[x] = h[x]
  PROVE  Total(f, S) = Total(h, S)
<1>1. \A x \in S : h[x] \in Int
  OBVIOUS
<1>2. SumsUp(f, S)[S] = SumsUp(h, S)[S]
  BY <1>1, SumsAgree
<1> QED BY <1>2, TotalIsFold

(* Any member may be taken out of a sum.                                    *)
LEMMA TotalWithout ==
  ASSUME NEW S, IsFiniteSet(S), NEW f, \A x \in S : f[x] \in Int, NEW x \in S
  PROVE  /\ Total(f, S \ {x}) \in Int
         /\ Total(f, S) = f[x] + Total(f, S \ {x})
<1>1. \A T \in SUBSET S : IsFiniteSet(T) /\ Total(f, T) \in Int
  <2> SUFFICES ASSUME NEW T \in SUBSET S PROVE IsFiniteSet(T) /\ Total(f, T) \in Int
    OBVIOUS
  <2>1. IsFiniteSet(T) /\ \A y \in T : f[y] \in Int
    BY FS_Subset
  <2> QED BY <2>1, TotalUnfolds
<1> DEFINE C == {T \in SUBSET S : \E y \in T : Total(f, T) # f[y] + Total(f, T \ {y})}
<1>2. C = {}
  <2>1. SUFFICES ASSUME C # {} PROVE FALSE
    OBVIOUS
  <2>2. PICK T \in C : \A y \in T : T \ {y} \notin C
    <3>1. C \in SUBSET (SUBSET S)
      OBVIOUS
    <3> HIDE DEF C
    <3> QED BY <2>1, <3>1, SmallestSet
  <2>3. PICK y \in T : Total(f, T) # f[y] + Total(f, T \ {y})
    OBVIOUS
  <2> DEFINE t == Taken(T)
  <2>4. t \in T /\ Total(f, T) = f[t] + Total(f, T \ {t})
    <3>1. \A z \in T : f[z] \in Int
      OBVIOUS
    <3>2. IsFiniteSet(T) /\ T # {}
      BY <1>1, <2>3
    <3> QED BY <3>1, <3>2, TotalUnfolds
  <2> HIDE DEF t
  <2>5. t # y
    BY <2>3, <2>4
  <2>6. Total(f, T \ {t}) = f[y] + Total(f, (T \ {t}) \ {y})
    BY <2>2, <2>4, <2>5
  <2>7. Total(f, T \ {y}) = f[t] + Total(f, (T \ {y}) \ {t})
    BY <2>2, <2>4, <2>5
  <2>8. /\ Total(f, (T \ {t}) \ {y}) = Total(f, (T \ {y}) \ {t})
        /\ Total(f, (T \ {t}) \ {y}) \in Int
    <3>1. (T \ {t}) \ {y} = (T \ {y}) \ {t} /\ (T \ {t}) \ {y} \in SUBSET S
      OBVIOUS
    <3> QED BY <1>1, <3>1
  <2>9. f[t] \in Int /\ f[y] \in Int
    BY <2>4
  <2>10. Total(f, T) = f[y] + Total(f, T \ {y})
    BY <2>4, <2>6, <2>7, <2>8, <2>9
  <2> QED BY <2>3, <2>10
<1>3. S \notin C /\ S \ {x} \in SUBSET S
  BY <1>2
<1> QED BY <1>1, <1>3

(* A sum of natural numbers is one, and not less than the sum of a part.    *)
LEMMA TotalGrows ==
  ASSUME NEW S, IsFiniteSet(S), NEW f, \A x \in S : f[x] \in Nat, NEW P, P \subseteq S
  PROVE  /\ Total(f, S) \in Nat /\ Total(f, P) \in Nat
         /\ Total(f, P) <= Total(f, S)
<1>1. \A T \in SUBSET S : IsFiniteSet(T) /\ Total(f, T) \in Int
  <2> SUFFICES ASSUME NEW T \in SUBSET S PROVE IsFiniteSet(T) /\ Total(f, T) \in Int
    OBVIOUS
  <2>1. IsFiniteSet(T) /\ \A y \in T : f[y] \in Int
    BY FS_Subset
  <2> QED BY <2>1, TotalUnfolds
<1>2. ASSUME NEW T \in SUBSET S, NEW x \in T
      PROVE  Total(f, T) = f[x] + Total(f, T \ {x})
  <2>1. IsFiniteSet(T) /\ \A y \in T : f[y] \in Int
    BY <1>1
  <2> QED BY <2>1, TotalWithout
<1>3. Total(f, {}) = 0
  BY FS_EmptySet, TotalUnfolds
<1> DEFINE C == {T \in SUBSET S : ~(0 <= Total(f, T))}
<1>4. C = {}
  <2>1. SUFFICES ASSUME C # {} PROVE FALSE
    OBVIOUS
  <2>2. PICK T \in C : \A y \in T : T \ {y} \notin C
    <3>1. C \in SUBSET (SUBSET S)
      OBVIOUS
    <3> HIDE DEF C
    <3> QED BY <2>1, <3>1, SmallestSet
  <2>3. CASE T = {}
    BY <1>3, <2>3
  <2>4. CASE T # {}
    <3>1. PICK y \in T : TRUE
      BY <2>4
    <3>2. 0 <= Total(f, T \ {y}) /\ Total(f, T \ {y}) \in Int /\ f[y] \in Nat
      BY <1>1, <2>2
    <3> QED BY <1>2, <3>2
  <2> QED BY <2>3, <2>4
<1>5. \A T \in SUBSET S : Total(f, T) \in Nat
  BY <1>1, <1>4
<1> DEFINE D == {T \in SUBSET S : P \subseteq T /\ ~(Total(f, P) <= Total(f, T))}
<1>6. D = {}
  <2>1. SUFFICES ASSUME D # {} PROVE FALSE
    OBVIOUS
  <2>2. PICK T \in D : \A y \in T : T \ {y} \notin D
    <3>1. D \in SUBSET (SUBSET S)
      OBVIOUS
    <3> HIDE DEF D
    <3> QED BY <2>1, <3>1, SmallestSet
  <2>3. CASE T = P
    BY <1>5, <2>3
  <2>4. CASE T # P
    <3>1. PICK y \in T : y \notin P
      BY <2>4
    <3>2. Total(f, P) <= Total(f, T \ {y})
      BY <2>2, <3>1
    <3>3. Total(f, T \ {y}) \in Nat /\ f[y] \in Nat /\ Total(f, P) \in Nat
      BY <1>5
    <3> QED BY <1>2, <3>2, <3>3
  <2> QED BY <2>3, <2>4
<1> QED BY <1>5, <1>6

(* What a member has is part of the sum.                                    *)
LEMMA TotalCovers ==
  ASSUME NEW S, IsFiniteSet(S), NEW f, \A x \in S : f[x] \in Nat, NEW x \in S
  PROVE  f[x] <= Total(f, S) /\ Total(f, S) \in Nat
<1>1. Total(f, S \ {x}) \in Nat /\ Total(f, S) \in Nat
  BY TotalGrows
<1>2. Total(f, S) = f[x] + Total(f, S \ {x})
  BY TotalWithout
<1> QED BY <1>1, <1>2

(* A sum that is not zero has a member that is not.                         *)
LEMMA TotalNeeds ==
  ASSUME NEW S, IsFiniteSet(S), NEW f, \A x \in S : f[x] = 0
  PROVE  Total(f, S) = 0
<1> DEFINE C == {T \in SUBSET S : Total(f, T) # 0}
<1>1. SUFFICES ASSUME C # {} PROVE FALSE
  OBVIOUS
<1>2. PICK T \in C : IsFiniteSet(T) /\ \A y \in T : T \ {y} \notin C
  <2>1. C \in SUBSET (SUBSET S)
    OBVIOUS
  <2> HIDE DEF C
  <2> QED BY <1>1, <2>1, SmallestSet
<1>3. CASE T = {}
  BY <1>2, <1>3, FS_EmptySet, TotalUnfolds
<1>4. CASE T # {}
  <2>1. PICK y \in T : TRUE
    BY <1>4
  <2>2. Total(f, T) = f[y] + Total(f, T \ {y})
    BY <1>2, TotalWithout
  <2> QED BY <1>2, <2>1, <2>2
<1> QED BY <1>3, <1>4

(* A sum is the sum of two parts.                                           *)
LEMMA TotalSplits ==
  ASSUME NEW S, IsFiniteSet(S), NEW f, \A x \in S : f[x] \in Int, NEW P, P \subseteq S
  PROVE  /\ Total(f, P) \in Int /\ Total(f, S \ P) \in Int
         /\ Total(f, S) = Total(f, P) + Total(f, S \ P)
<1>1. \A T \in SUBSET S : IsFiniteSet(T) /\ Total(f, T) \in Int
  <2> SUFFICES ASSUME NEW T \in SUBSET S PROVE IsFiniteSet(T) /\ Total(f, T) \in Int
    OBVIOUS
  <2>1. IsFiniteSet(T) /\ \A y \in T : f[y] \in Int
    BY FS_Subset
  <2> QED BY <2>1, TotalUnfolds
<1> DEFINE C == {T \in SUBSET S : P \subseteq T /\ Total(f, T) # Total(f, P) + Total(f, T \ P)}
<1>2. C = {}
  <2>1. SUFFICES ASSUME C # {} PROVE FALSE
    OBVIOUS
  <2>2. PICK T \in C : \A y \in T : T \ {y} \notin C
    <3>1. C \in SUBSET (SUBSET S)
      OBVIOUS
    <3> HIDE DEF C
    <3> QED BY <2>1, <3>1, SmallestSet
  <2>3. CASE T = P
    <3>1. T \ P = {} /\ Total(f, {}) = 0
      BY <2>3, FS_EmptySet, TotalUnfolds
    <3>2. Total(f, T \ P) = 0 /\ Total(f, P) \in Int /\ Total(f, T) = Total(f, P)
      BY <1>1, <2>3, <3>1
    <3> QED BY <3>2
  <2>4. CASE T # P
    <3>1. PICK y \in T : y \notin P
      BY <2>4
    <3>2. Total(f, T \ {y}) = Total(f, P) + Total(f, (T \ {y}) \ P)
      BY <2>2, <3>1
    <3>3. Total(f, T) = f[y] + Total(f, T \ {y})
      BY <1>1, TotalWithout
    <3>4. Total(f, T \ P) = f[y] + Total(f, (T \ P) \ {y})
      <4>1. IsFiniteSet(T \ P) /\ y \in T \ P /\ \A x \in T \ P : f[x] \in Int
        BY <1>1, <3>1
      <4> QED BY <4>1, TotalWithout
    <3>5. Total(f, (T \ {y}) \ P) = Total(f, (T \ P) \ {y})
      <4>1. (T \ {y}) \ P = (T \ P) \ {y}
        OBVIOUS
      <4> QED BY <4>1
    <3>6. /\ f[y] \in Int /\ Total(f, P) \in Int
          /\ Total(f, (T \ P) \ {y}) \in Int
      <4>1. (T \ P) \ {y} \in SUBSET S
        OBVIOUS
      <4> QED BY <1>1, <4>1
    <3>7. Total(f, T) = Total(f, P) + Total(f, T \ P)
      BY <3>2, <3>3, <3>4, <3>5, <3>6
    <3> QED BY <3>7
  <2> QED BY <2>3, <2>4
<1> QED BY <1>1, <1>2

-----------------------------------------------------------------------------
(* Arithmetic.                                                              *)

(* Integer division by a positive number: the quotient and its remainder.   *)
LEMMA Division ==
  ASSUME NEW x \in Nat, NEW y \in Nat \ {0}
  PROVE  /\ x \div y \in Nat
         /\ y * (x \div y) <= x
         /\ x < y * (x \div y) + y
         /\ x % y = 0 <=> x = y * (x \div y)
  BY SMTT(30)

(* Multiplication by a natural number keeps the order.                      *)
LEMMA Monotone ==
  ASSUME NEW a \in Nat, NEW p \in Int, NEW q \in Int, p <= q
  PROVE  a * p <= a * q /\ a * p \in Int /\ a * q \in Int
  BY SMTT(30)

(* A positive factor cancels out of a comparison.                           *)
LEMMA Cancel ==
  ASSUME NEW a \in Nat \ {0}, NEW p \in Int, NEW q \in Int, a * p < a * q
  PROVE  p < q
<1>1. SUFFICES ASSUME q <= p PROVE FALSE
  OBVIOUS
<1>2. a * q <= a * p /\ a * p \in Int /\ a * q \in Int
  BY <1>1, Monotone
<1> QED BY <1>2

-----------------------------------------------------------------------------
(* Sorted sets and quantiles (Samples).                                     *)

AtMost(v, S) == {w \in S : w <= v}

\* An order of the members of a set, as its pairs.
Orders(R, S) ==
  /\ \A x \in S : <<x, x>> \notin R
  /\ \A x \in S, y \in S : x # y => <<x, y>> \in R \/ <<y, x>> \in R
  /\ \A x \in S, y \in S, z \in S : <<x, y>> \in R /\ <<y, z>> \in R => <<x, z>> \in R

\* How many come before a member of a set.
PlaceIn(R, S, v) == Cardinality({w \in S : <<w, v>> \in R})

(* In an ordered set each member has a place of its own, and every place is *)
(* that of a member.                                                        *)
LEMMA PlacesInOrder ==
  ASSUME NEW S, IsFiniteSet(S), NEW R, Orders(R, S)
  PROVE  /\ Cardinality(S) \in Nat
         /\ \A v \in S : PlaceIn(R, S, v) \in 0 .. Cardinality(S) - 1
         /\ \A x \in S, y \in S : <<x, y>> \in R => PlaceIn(R, S, x) < PlaceIn(R, S, y)
         /\ \A i \in 1 .. Cardinality(S) : \E v \in S : PlaceIn(R, S, v) = i - 1
<1> DEFINE n == Cardinality(S)
           Before(v) == {w \in S : <<w, v>> \in R}
           place == [v \in S |-> Cardinality(Before(v))]
<1>1. n \in Nat
  BY FS_CardinalityType
<1>2. \A v \in S : /\ Before(v) \subseteq S /\ v \notin Before(v)
                   /\ IsFiniteSet(Before(v)) /\ Cardinality(Before(v)) \in Nat
  <2> TAKE v \in S
  <2>1. Before(v) \subseteq S /\ v \notin Before(v)
    BY DEF Orders
  <2> HIDE DEF Before
  <2>2. IsFiniteSet(Before(v))
    BY <2>1, FS_Subset
  <2> QED BY <2>1, <2>2, FS_CardinalityType
<1>3. ASSUME NEW x \in S, NEW y \in S, <<x, y>> \in R
      PROVE  Cardinality(Before(x)) < Cardinality(Before(y))
  <2>1. Before(x) \subseteq Before(y) /\ x \in Before(y)
    BY <1>3 DEF Orders
  <2> HIDE DEF Before
  <2>2. /\ Cardinality(Before(x)) <= Cardinality(Before(y))
        /\ Cardinality(Before(x)) = Cardinality(Before(y)) => Before(x) = Before(y)
    BY <1>2, <2>1, FS_Subset
  <2> QED BY <1>2, <2>1, <2>2
<1>4. ASSUME NEW v \in S PROVE Cardinality(Before(v)) \in 0 .. n - 1
  <2>1. Before(v) \subseteq S /\ Before(v) # S
    BY <1>2
  <2> HIDE DEF Before, n
  <2>2. Cardinality(Before(v)) <= n /\ Cardinality(Before(v)) # n
    BY <2>1, FS_Subset DEF n
  <2> QED BY <1>1, <1>2, <2>2
<1> HIDE DEF Before
<1>5. ASSUME NEW i \in 1 .. n PROVE \E v \in S : Cardinality(Before(v)) = i - 1
  <2> DEFINE T == 0 .. n - 1
  <2>1. place \in [S -> T]
    BY <1>4
  <2>2. \A x \in S, y \in S : place[x] = place[y] => x = y
    <3> SUFFICES ASSUME NEW x \in S, NEW y \in S, place[x] = place[y], x # y PROVE FALSE
      OBVIOUS
    <3>1. <<x, y>> \in R \/ <<y, x>> \in R
      BY DEF Orders
    <3> QED BY <1>2, <1>3, <3>1
  <2>3. place \in Injection(S, T)
    BY <2>1, <2>2 DEF Injection, IsInjective
  <2>4. IsFiniteSet(T) /\ Cardinality(T) = n
    <3>1. 0 \in Int /\ n - 1 \in Int
      BY <1>1
    <3>2. IsFiniteSet(T) /\ Cardinality(T) = IF 0 > n - 1 THEN 0 ELSE n - 1 - 0 + 1
      BY <3>1, FS_Interval
    <3> QED BY <1>1, <3>2
  <2>5. place \in Surjection(S, T)
    <3> HIDE DEF T, place
    <3> QED BY <2>3, <2>4, FS_Injection DEF n
  <2>6. i - 1 \in T
    BY <1>1
  <2>7. \E v \in S : place[v] = i - 1
    <3> HIDE DEF T, place
    <3> QED BY <2>5, <2>6 DEF Surjection
  <2> QED BY <2>7
<1>6. \A v : PlaceIn(R, S, v) = Cardinality(Before(v))
  BY DEF PlaceIn, Before
<1> QED BY <1>1, <1>3, <1>4, <1>5, <1>6 DEF n

(* Numbers have a place each in their order.                                *)
LEMMA NumbersInOrder ==
  ASSUME NEW S \in SUBSET Int, IsFiniteSet(S)
  PROVE  /\ Cardinality(S) \in Nat
         /\ \A v \in S : Cardinality({w \in S : w < v}) \in 0 .. Cardinality(S) - 1
         /\ \A x \in S, y \in S : x < y => Cardinality({w \in S : w < x}) < Cardinality({w \in S : w < y})
         /\ \A i \in 1 .. Cardinality(S) :
              Ascending(S)[i] \in S /\ Cardinality({w \in S : w < Ascending(S)[i]}) = i - 1
<1> DEFINE R == {p \in S \X S : p[1] < p[2]}
<1>1. \A x \in S, y \in S : <<x, y>> \in R <=> x < y
  OBVIOUS
<1>2. Orders(R, S)
  <2>1. \A x \in S : x \in Int
    OBVIOUS
  <2> HIDE DEF R
  <2> QED BY <1>1, <2>1 DEF Orders
<1> HIDE DEF R
<1>3. \A v \in S : PlaceIn(R, S, v) = Cardinality({w \in S : w < v})
  <2> TAKE v \in S
  <2>1. {w \in S : <<w, v>> \in R} = {w \in S : w < v}
    BY <1>1
  <2> QED BY <2>1 DEF PlaceIn
<1>4. /\ Cardinality(S) \in Nat
      /\ \A v \in S : PlaceIn(R, S, v) \in 0 .. Cardinality(S) - 1
      /\ \A x \in S, y \in S : <<x, y>> \in R => PlaceIn(R, S, x) < PlaceIn(R, S, y)
      /\ \A i \in 1 .. Cardinality(S) : \E v \in S : PlaceIn(R, S, v) = i - 1
  BY <1>2, PlacesInOrder
<1>5. ASSUME NEW i \in 1 .. Cardinality(S)
      PROVE  Ascending(S)[i] \in S /\ Cardinality({w \in S : w < Ascending(S)[i]}) = i - 1
  <2>1. \E v \in S : Cardinality({w \in S : w < v}) = i - 1
    BY <1>3, <1>4
  <2> DEFINE Member(k) == CHOOSE u \in S : Cardinality({w \in S : w < u}) = k - 1
  <2>2. Member(i) \in S /\ Cardinality({w \in S : w < Member(i)}) = i - 1
    BY <2>1
  <2>3. Ascending(S) = [k \in 1 .. Cardinality(S) |-> Member(k)]
    BY DEF Ascending, Sorted
  <2> HIDE DEF Member
  <2>4. Ascending(S)[i] = Member(i)
    BY <1>5, <2>3, Zenon
  <2> QED BY <2>2, <2>4
<1>6. \A v \in S : Cardinality({w \in S : w < v}) \in 0 .. Cardinality(S) - 1
  BY <1>3, <1>4
<1>7. \A x \in S, y \in S : x < y => Cardinality({w \in S : w < x}) < Cardinality({w \in S : w < y})
  BY <1>1, <1>3, <1>4
<1> QED BY <1>4, <1>5, <1>6, <1>7

(* A sorted set: its members in strictly ascending order.                   *)
LEMMA AscendingAscends ==
  ASSUME NEW S \in SUBSET Int, IsFiniteSet(S)
  PROVE  /\ Ascending(S) \in Seq(S) /\ Len(Ascending(S)) = Cardinality(S)
         /\ Cardinality(S) \in Nat
         /\ \A i \in 1 .. Cardinality(S), j \in 1 .. Cardinality(S) :
              i < j => Ascending(S)[i] < Ascending(S)[j]
<1> DEFINE n == Cardinality(S)
           s == Ascending(S)
           Place(v) == Cardinality({w \in S : w < v})
<1>1. n \in Nat
  BY FS_CardinalityType
<1>2. /\ \A x \in S, y \in S : x < y => Place(x) < Place(y)
      /\ \A i \in 1 .. n : s[i] \in S /\ Place(s[i]) = i - 1
  BY NumbersInOrder
<1>3. s \in Seq(S) /\ Len(s) = n
  <2> DEFINE Member(i) == CHOOSE v \in S : Place(v) = i - 1
  <2>0. s = [i \in 1 .. n |-> Member(i)]
    BY DEF Ascending, Sorted
  <2>1. s = [i \in 1 .. n |-> s[i]]
    <3> HIDE DEF Member, n, s
    <3> QED BY <2>0
  <2> HIDE DEF n, s
  <2>2. s \in [1 .. n -> S]
    BY <1>2, <2>1
  <2> QED BY <1>1, <2>2
<1> HIDE DEF s, Place
<1>4. ASSUME NEW i \in 1 .. n, NEW j \in 1 .. n, i < j PROVE s[i] < s[j]
  <2>1. s[i] \in S /\ s[j] \in S /\ Place(s[i]) = i - 1 /\ Place(s[j]) = j - 1
    BY <1>2
  <2>2. s[i] \in Int /\ s[j] \in Int
    BY <2>1
  <2>3. SUFFICES ASSUME s[j] <= s[i] PROVE FALSE
    BY <2>2
  <2>4. s[j] < s[i] \/ s[j] = s[i]
    BY <2>2, <2>3
  <2>5. CASE s[j] = s[i]
    <3>1. i - 1 = j - 1 /\ i \in Int /\ j \in Int
      BY <1>1, <2>1, <2>5
    <3> QED BY <1>4, <3>1
  <2>6. CASE s[j] < s[i]
    <3>1. Place(s[j]) < Place(s[i])
      BY <1>2, <2>1, <2>6
    <3>2. j - 1 < i - 1 /\ i \in Int /\ j \in Int
      BY <1>1, <2>1, <3>1
    <3> QED BY <1>4, <3>2
  <2> QED BY <2>4, <2>5, <2>6
<1> QED BY <1>1, <1>3, <1>4 DEF s

\* A sample of whole numbers.
Sample(count) ==
  /\ DOMAIN count \in SUBSET Int /\ IsFiniteSet(DOMAIN count)
  /\ \A v \in DOMAIN count : count[v] \in Nat

(* Every position of a sample is somebody's.                                *)
LEMMA NthIsThere ==
  ASSUME NEW count, Sample(count), NEW i \in Nat, i < Size(count)
  PROVE  /\ Nth(count, i) \in DOMAIN count
         /\ LET below == Total(count, {w \in DOMAIN count : w < Nth(count, i)})
            IN below \in Nat /\ below <= i /\ i < below + count[Nth(count, i)]
<1> DEFINE D == DOMAIN count
           UpTo(v) == Total(count, AtMost(v, D))
           Below(v) == {w \in D : w < v}
           R == {v \in D : UpTo(v) > i}
<1>1. /\ D \in SUBSET Int /\ IsFiniteSet(D)
      /\ \A v \in D : count[v] \in Nat
  BY DEF Sample
<1>2. \A T \in SUBSET D : IsFiniteSet(T) /\ Total(count, T) \in Nat
  <2> SUFFICES ASSUME NEW T \in SUBSET D PROVE IsFiniteSet(T) /\ Total(count, T) \in Nat
    OBVIOUS
  <2> QED BY <1>1, FS_Subset, TotalGrows
<1>3. Size(count) = Total(count, D) /\ Total(count, D) \in Nat
  BY <1>2 DEF Size
<1>4. Total(count, {}) = 0
  BY FS_EmptySet, TotalUnfolds
<1>5. D # {}
  BY <1>3, <1>4
<1>6. R # {}
  <2>1. PICK m \in D : \A y \in D : m >= y
    BY <1>1, <1>5, Extremes
  <2>2. AtMost(m, D) = D
    BY <1>1, <2>1 DEF AtMost
  <2> QED BY <1>3, <2>1, <2>2
<1>7. PICK v \in R : \A y \in R : v <= y
  <2>1. R \in SUBSET Int /\ IsFiniteSet(R)
    BY <1>1, <1>2
  <2> HIDE DEF R
  <2> QED BY <1>6, <2>1, Extremes
<1>8. UpTo(v) = count[v] + Total(count, Below(v))
  <2>1. AtMost(v, D) \ {v} = Below(v) /\ v \in AtMost(v, D) /\ AtMost(v, D) \in SUBSET D
    BY <1>1 DEF AtMost
  <2>2. /\ IsFiniteSet(AtMost(v, D)) /\ \A x \in AtMost(v, D) : count[x] \in Int
    BY <1>1, <1>2, <2>1
  <2>3. Total(count, AtMost(v, D)) = count[v] + Total(count, AtMost(v, D) \ {v})
    BY <2>1, <2>2, TotalWithout
  <2> QED BY <2>1, <2>3
<1>9. Total(count, Below(v)) \in Nat /\ Total(count, Below(v)) <= i
  <2>1. Total(count, Below(v)) \in Nat /\ IsFiniteSet(Below(v))
    BY <1>2
  <2>2. CASE Below(v) = {}
    BY <1>4, <2>1, <2>2
  <2>3. CASE Below(v) # {}
    <3>1. Below(v) \in SUBSET Int
      BY <1>1
    <3>2. PICK u \in Below(v) : \A y \in Below(v) : u >= y
      <4> HIDE DEF Below
      <4> QED BY <2>1, <2>3, <3>1, Extremes
    <3>3. AtMost(u, D) = Below(v)
      BY <1>1, <3>2 DEF AtMost
    <3>4. u \notin R
      BY <1>1, <1>7, <3>2
    <3> QED BY <2>1, <3>2, <3>3, <3>4
  <2> QED BY <2>2, <2>3
<1>10. Total(count, Below(v)) <= i /\ i < Total(count, Below(v)) + count[v]
  <2>1. UpTo(v) > i /\ count[v] \in Nat
    BY <1>1
  <2> QED BY <1>8, <1>9, <2>1
<1> DEFINE At(u) == Total(count, Below(u)) <= i /\ i < Total(count, Below(u)) + count[u]
<1>11. Nth(count, i) = CHOOSE u \in D : At(u)
  BY DEF Nth
<1>12. (CHOOSE u \in D : At(u)) \in D /\ At(CHOOSE u \in D : At(u))
  BY <1>10
<1>13. Nth(count, i) \in D /\ At(Nth(count, i))
  BY <1>11, <1>12
<1>14. Total(count, Below(Nth(count, i))) \in Nat
  BY <1>2
<1> QED BY <1>13, <1>14

(* A quantile of a sample is a number.                                      *)
LEMMA InterpolatedIsNumber ==
  ASSUME NEW count, Sample(count), Size(count) # 0,
         NEW parts \in Nat \ {0}, NEW k \in 0 .. parts
  PROVE  Interpolated(count, k, parts) \in Int
<1> DEFINE n == Size(count)
           h == k * (n - 1)
           q == h \div parts
           next == Min({q + 1, n - 1})
<1>1. n \in Nat \ {0}
  BY TotalGrows DEF Size, Sample
<1> HIDE DEF n
<1>2. h \in Nat /\ h <= parts * (n - 1)
  <2>1. n - 1 \in Nat /\ k \in Nat /\ k <= parts
    BY <1>1
  <2>2. (n - 1) * k <= (n - 1) * parts /\ (n - 1) * k \in Int
    BY <2>1, Monotone
  <2>3. h = (n - 1) * k /\ parts * (n - 1) = (n - 1) * parts /\ h >= 0
    BY <2>1
  <2> QED BY <2>2, <2>3
<1> HIDE DEF h
<1>3. q \in Nat /\ parts * q <= h
  BY <1>2, Division
<1> HIDE DEF q
<1>4. q <= n - 1
  <2>1. parts * (n - 1 + 1) = parts * (n - 1) + parts /\ parts * (n - 1) \in Int
    BY <1>1
  <2>2. parts * q \in Int
    BY <1>3
  <2>3. parts * q < parts * (n - 1 + 1)
    BY <1>2, <1>3, <2>1, <2>2
  <2>4. q < n - 1 + 1
    BY <1>1, <1>3, <2>3, Cancel
  <2> QED BY <1>1, <1>3, <2>4
<1>5. next \in Nat /\ next < n
  <2>1. next = IF q + 1 <= n - 1 THEN q + 1 ELSE n - 1
    BY <1>1, <1>3, OfTwo
  <2> QED BY <1>1, <1>3, <2>1
<1> HIDE DEF next
<1>6. Nth(count, q) \in Int /\ Nth(count, next) \in Int
  <2>1. q < n
    BY <1>1, <1>3, <1>4
  <2> QED BY <1>3, <1>5, <2>1, NthIsThere DEF Sample, n
<1>7. Interpolated(count, k, parts) =
        Nth(count, q) * parts + (h % parts) * (Nth(count, next) - Nth(count, q))
  BY DEF Interpolated, n, h, q, next
<1>8. h % parts \in Int
  BY <1>2
<1> QED BY <1>6, <1>7, <1>8

(* The image of an interval is finite.                                      *)
LEMMA ImageIsFinite ==
  ASSUME NEW a \in Int, NEW b \in Int, NEW f
  PROVE  IsFiniteSet({f[k] : k \in a .. b})
<1>1. IsFiniteSet(a .. b)
  BY FS_Interval
<1> DEFINE g == [k \in a .. b |-> f[k]]
           R == {f[k] : k \in a .. b}
<1>2. g \in Surjection(a .. b, R)
  BY DEF Surjection
<1> HIDE DEF g, R
<1>3. IsFiniteSet(R)
  BY <1>1, <1>2, FS_Surjection
<1> QED BY <1>3 DEF R

-----------------------------------------------------------------------------
(* Edges of bins (Binning).                                                 *)

Ascends(s) ==
  /\ s \in Seq(Int)
  /\ \A i \in 1 .. Len(s), j \in 1 .. Len(s) : i < j => s[i] < s[j]

(* Edges stay in order when one is taken out.                               *)
LEMMA RemovalAscends ==
  ASSUME NEW s, Ascends(s), NEW i \in 1 .. Len(s)
  PROVE  Ascends(RemoveAt(s, i)) /\ Len(RemoveAt(s, i)) = Len(s) - 1
<1> DEFINE r == RemoveAt(s, i)
           n == Len(s)
<1>1. s \in Seq(Int) /\ n \in Nat /\ i \in Nat /\ i >= 1 /\ i <= n
  BY DEF Ascends
<1> DEFINE p == SubSeq(s, 1, i - 1)
           q == SubSeq(s, i + 1, n)
<1>2. /\ p \in Seq(Int) /\ Len(p) = i - 1
      /\ \A j \in 1 .. i - 1 : p[j] = s[j]
  <2>1. \A j \in 1 .. i - 1 : s[j] \in Int
    BY <1>1
  <2>2. i - 1 \in Int /\ 1 \in Int
    BY <1>1
  <2>3. /\ p \in Seq(Int)
        /\ Len(p) = IF 1 <= i - 1 THEN i - 1 - 1 + 1 ELSE 0
        /\ \A j \in 1 .. i - 1 - 1 + 1 : p[j] = s[1 + j - 1]
    BY <2>1, <2>2, SubSeqProperties
  <2> QED BY <1>1, <2>3
<1>3. /\ q \in Seq(Int) /\ Len(q) = n - i
      /\ \A j \in 1 .. n - i : q[j] = s[i + j]
  <2>1. \A j \in i + 1 .. n : s[j] \in Int
    BY <1>1
  <2>2. i + 1 \in Int /\ n \in Int
    BY <1>1
  <2>3. /\ q \in Seq(Int)
        /\ Len(q) = IF i + 1 <= n THEN n - (i + 1) + 1 ELSE 0
        /\ \A j \in 1 .. n - (i + 1) + 1 : q[j] = s[i + 1 + j - 1]
    BY <2>1, <2>2, SubSeqProperties
  <2> QED BY <1>1, <2>3
<1>4. r = p \o q
  BY DEF RemoveAt
<1> HIDE DEF p, q, r
<1>8. /\ r \in Seq(Int) /\ Len(r) = Len(p) + Len(q)
      /\ \A j \in 1 .. Len(p) + Len(q) : r[j] = IF j <= Len(p) THEN p[j] ELSE q[j - Len(p)]
  <2>1. /\ p \o q \in Seq(Int)
        /\ Len(p \o q) = Len(p) + Len(q)
        /\ \A j \in 1 .. Len(p) + Len(q) :
             (p \o q)[j] = IF j <= Len(p) THEN p[j] ELSE q[j - Len(p)]
    BY <1>2, <1>3, ConcatProperties
  <2> QED BY <1>4, <2>1
<1>5. r \in Seq(Int) /\ Len(r) = n - 1
  BY <1>1, <1>2, <1>3, <1>8
<1>6. \A j \in 1 .. n - 1 : r[j] = IF j < i THEN s[j] ELSE s[j + 1]
  <2> TAKE j \in 1 .. n - 1
  <2>1. r[j] = IF j <= i - 1 THEN p[j] ELSE q[j - (i - 1)]
    BY <1>1, <1>2, <1>3, <1>8
  <2>2. CASE j < i
    BY <1>1, <1>2, <2>1, <2>2
  <2>3. CASE j >= i
    <3>1. j - (i - 1) \in 1 .. n - i /\ i + (j - (i - 1)) = j + 1 /\ ~(j <= i - 1) /\ ~(j < i)
      BY <1>1, <2>3
    <3>2. q[j - (i - 1)] = s[j + 1]
      BY <1>3, <3>1
    <3> QED BY <2>1, <3>1, <3>2
  <2> QED BY <1>1, <2>2, <2>3
<1>7. ASSUME NEW j \in 1 .. n - 1, NEW k \in 1 .. n - 1, j < k PROVE r[j] < r[k]
  <2>1. /\ r[j] = IF j < i THEN s[j] ELSE s[j + 1]
        /\ r[k] = IF k < i THEN s[k] ELSE s[k + 1]
    BY <1>6
  <2>2. \A x \in 1 .. n, y \in 1 .. n : x < y => s[x] < s[y]
    BY DEF Ascends
  <2>3. /\ j \in 1 .. n /\ j + 1 \in 1 .. n /\ k \in 1 .. n /\ k + 1 \in 1 .. n
        /\ j < k + 1 /\ j + 1 < k + 1
    BY <1>1, <1>7
  <2>4. k < i => j < i
    BY <1>1, <1>7
  <2> QED BY <1>7, <2>1, <2>2, <2>3, <2>4
<1> QED
  <2>1. Ascends(r)
    BY <1>5, <1>7 DEF Ascends
  <2> QED BY <1>5, <2>1 DEF r

(* Training and scoring put a value in the same bin: the first whose edge   *)
(* it does not exceed is the one after the edges it exceeds (_assign and    *)
(* bin_for).                                                                *)
LEMMA BinsAgree ==
  ASSUME NEW cuts, Ascends(cuts), NEW v \in Values \cup {Missing}
  PROVE  /\ bin_for([edges |-> cuts], v) = Assign(v, cuts)
         /\ v # Missing => Assign(v, cuts) \in 0 .. Len(cuts)
<1> DEFINE x == v * Bins
           n == Len(cuts)
           exceeded == {i \in DOMAIN cuts : x > cuts[i]}
           others == {i \in DOMAIN cuts : x <= cuts[i]}
<1>1. CASE v = Missing
  BY <1>1 DEF bin_for, Assign
<1>2. CASE v # Missing
  <2>1. x \in Int
    <3>1. v \in Nat /\ Bins \in Nat
      BY <1>2, BinningAssumption
    <3> QED BY <3>1
  <2>2. n \in Nat /\ DOMAIN cuts = 1 .. n /\ \A i \in 1 .. n : cuts[i] \in Int
    BY DEF Ascends
  <2>3. Assign(v, cuts) = Cardinality(exceeded)
    BY <1>2 DEF Assign
  <2>4. bin_for([edges |-> cuts], v) = IF others # {} THEN Min(others) - 1 ELSE n
    BY <1>2 DEF bin_for
  <2> HIDE DEF x
  <2>5. CASE others = {}
    <3>1. exceeded = 1 .. n
      BY <2>1, <2>2, <2>5
    <3>2. Cardinality(1 .. n) = n
      BY <2>2, FS_Interval
    <3>3. Assign(v, cuts) = n
      <4> HIDE DEF exceeded, others
      <4> QED BY <2>3, <3>1, <3>2
    <3>4. bin_for([edges |-> cuts], v) = n
      <4> HIDE DEF exceeded, others
      <4> QED BY <2>4, <2>5
    <3> QED BY <2>2, <3>3, <3>4
  <2>6. CASE others # {}
    <3>1. others \in SUBSET Int /\ IsFiniteSet(others)
      <4>1. others \subseteq 1 .. n
        BY <2>2
      <4>2. IsFiniteSet(1 .. n)
        BY <2>2, FS_Interval
      <4>3. 1 .. n \subseteq Int
        OBVIOUS
      <4> HIDE DEF others
      <4>4. IsFiniteSet(others)
        BY <4>1, <4>2, FS_Subset
      <4> QED BY <4>1, <4>3, <4>4
    <3> DEFINE m == Min(others)
    <3>2. m \in others /\ \A i \in others : m <= i
      <4> HIDE DEF others
      <4> QED BY <2>6, <3>1, Extremes
    <3> HIDE DEF m
    <3>3. m \in 1 .. n
      BY <2>2, <3>2
    <3>4. ASSUME NEW i \in 1 .. n PROVE i \in exceeded <=> i \in 1 .. m - 1
      <4>1. CASE i < m
        <5>1. i \notin others
          BY <3>2, <3>3, <4>1
        <5> QED BY <2>1, <2>2, <3>3, <4>1, <5>1
      <4>2. CASE i = m
        <5>1. x <= cuts[m]
          BY <3>2
        <5> QED BY <2>1, <2>2, <3>3, <4>2, <5>1
      <4>3. CASE m < i
        <5>1. cuts[m] < cuts[i] /\ x <= cuts[m]
          BY <3>2, <3>3, <4>3 DEF Ascends
        <5> QED BY <2>1, <2>2, <3>3, <4>3, <5>1
      <4> QED BY <3>3, <4>1, <4>2, <4>3
    <3>5. exceeded = 1 .. m - 1
      <4>1. exceeded \subseteq 1 .. n /\ 1 .. m - 1 \subseteq 1 .. n
        BY <2>2, <3>3
      <4> HIDE DEF exceeded
      <4> QED BY <3>4, <4>1
    <3>6. Cardinality(1 .. m - 1) = m - 1
      <4>1. m - 1 \in Int /\ m \in Nat /\ m >= 1
        BY <2>2, <3>3
      <4>2. Cardinality(1 .. m - 1) = IF 1 > m - 1 THEN 0 ELSE m - 1 - 1 + 1
        BY <4>1, FS_Interval
      <4> QED BY <4>1, <4>2
    <3>7. bin_for([edges |-> cuts], v) = m - 1
      BY <2>4, <2>6 DEF m
    <3>8. Assign(v, cuts) = m - 1
      <4> HIDE DEF exceeded
      <4> QED BY <2>3, <3>5, <3>6
    <3> QED BY <2>2, <3>3, <3>7, <3>8
  <2> QED BY <2>5, <2>6
<1> QED BY <1>1, <1>2

(* The quantiles of a sample are bin edges.                                 *)
LEMMA BinEdgesAscend ==
  ASSUME sample \in Samples(Nat)
  PROVE  Ascends(BinEdges)
<1> DEFINE observed == [v \in Values |-> Applicants(v)]
           K == {Interpolated(observed, k, Bins) : k \in 1 .. Bins - 1}
<1>1. Sample(observed)
  <2>1. \A v \in Values : Applicants(v) \in Nat
    BY DEF Samples, Applicants
  <2> QED BY <2>1, BinningAssumption DEF Sample
<1> HIDE DEF observed
<1>2. CASE Size(observed) = 0
  <2>1. BinEdges = << >>
    BY <1>2 DEF BinEdges, observed
  <2>2. << >> \in Seq(Int) /\ Len(<< >>) = 0
    OBVIOUS
  <2> QED BY <2>1, <2>2 DEF Ascends
<1>3. CASE Size(observed) # 0
  <2>1. BinEdges = Ascending(K)
    BY <1>3 DEF BinEdges, observed
  <2>2. K \in SUBSET Int
    <3>1. \A k \in 1 .. Bins - 1 : k \in 0 .. Bins
      BY BinningAssumption
    <3>2. \A k \in 1 .. Bins - 1 : Interpolated(observed, k, Bins) \in Int
      BY <1>1, <1>3, <3>1, InterpolatedIsNumber, BinningAssumption
    <3> QED BY <3>2
  <2>3. IsFiniteSet(K)
    <3> DEFINE f == [k \in 1 .. Bins - 1 |-> Interpolated(observed, k, Bins)]
    <3>1. IsFiniteSet({f[k] : k \in 1 .. Bins - 1})
      <4>1. Bins - 1 \in Int /\ 1 \in Int
        BY BinningAssumption
      <4> HIDE DEF f
      <4> QED BY <4>1, ImageIsFinite
    <3>2. {f[k] : k \in 1 .. Bins - 1} = K
      OBVIOUS
    <3> QED BY <3>1, <3>2
  <2> HIDE DEF K
  <2>4. /\ Ascending(K) \in Seq(K) /\ Len(Ascending(K)) = Cardinality(K)
        /\ \A i \in 1 .. Cardinality(K), j \in 1 .. Cardinality(K) :
             i < j => Ascending(K)[i] < Ascending(K)[j]
    BY <2>2, <2>3, AscendingAscends
  <2>5. Ascending(K) \in Seq(Int)
    <3>1. K \subseteq Int
      BY <2>2
    <3> QED BY <2>4, <3>1, SeqMonotonic
  <2> QED BY <2>1, <2>4, <2>5 DEF Ascends
<1> QED BY <1>2, <1>3

-----------------------------------------------------------------------------
(* Binning a sample (Binning).                                              *)

(* Bins have a number of applicants; a bin with an applicant in it is       *)
(* populated.                                                               *)
LEMMA Headcounts ==
  ASSUME sample \in Samples(Nat)
  PROVE  /\ \A b, cuts : /\ Goods(b, cuts) \in Nat /\ Bads(b, cuts) \in Nat
                         /\ Count(b, cuts) \in Nat
                         /\ \A v \in InBin(b, cuts) : Applicants(v) <= Count(b, cuts)
         /\ \A v \in Values \cup {Missing} : Applicants(v) \in Nat
         /\ Everybody \in Nat
<1> DEFINE All == Values \cup {Missing}
<1>1. IsFiniteSet(All)
  BY FS_Singleton, FS_Union, BinningAssumption
<1>2. /\ \A v \in All : sample.good[v] \in Nat /\ sample.bad[v] \in Nat
      /\ \A v \in All : Applicants(v) \in Nat
  BY DEF Samples, Applicants
<1>3. Everybody \in Nat
  <2> DEFINE f == [v \in All |-> Applicants(v)]
  <2>1. \A v \in All : f[v] \in Nat
    BY <1>2
  <2>2. Everybody = Total(f, All)
    BY DEF Everybody, Size
  <2> HIDE DEF f, All
  <2>3. Total(f, All) \in Nat
    BY <1>1, <2>1, TotalGrows
  <2> QED BY <2>2, <2>3
<1>4. ASSUME NEW b, NEW cuts
      PROVE  /\ Goods(b, cuts) \in Nat /\ Bads(b, cuts) \in Nat
             /\ Count(b, cuts) \in Nat
             /\ \A v \in InBin(b, cuts) : Applicants(v) <= Count(b, cuts)
  <2> DEFINE S == InBin(b, cuts)
  <2>1. S \subseteq All
    BY DEF InBin
  <2> HIDE DEF S, All
  <2>2. IsFiniteSet(S)
    BY <1>1, <2>1, FS_Subset
  <2>3. \A v \in S : sample.good[v] \in Nat /\ sample.bad[v] \in Nat
    BY <1>2, <2>1
  <2>4. Total(sample.good, S) \in Nat /\ Total(sample.bad, S) \in Nat
    BY <2>2, <2>3, TotalGrows
  <2>5. \A v \in S : sample.good[v] <= Total(sample.good, S) /\ sample.bad[v] <= Total(sample.bad, S)
    BY <2>2, <2>3, TotalCovers
  <2>6. Goods(b, cuts) = Total(sample.good, S) /\ Bads(b, cuts) = Total(sample.bad, S)
    BY DEF Goods, Bads, S
  <2>7. Count(b, cuts) = Total(sample.good, S) + Total(sample.bad, S)
    BY <2>6 DEF Count
  <2>8. \A v \in S : Applicants(v) <= Count(b, cuts)
    BY <2>3, <2>4, <2>5, <2>7 DEF Applicants
  <2> QED BY <2>4, <2>6, <2>7, <2>8 DEF S
<1> QED BY <1>2, <1>3, <1>4

(* There are as many rates as populated bins: no more than bins.            *)
LEMMA RatesOfBins ==
  ASSUME sample \in Samples(Nat), NEW cuts, Ascends(cuts)
  PROVE  /\ Len(OrderedBadRates(cuts)) \in Nat
         /\ Len(OrderedBadRates(cuts)) <= Len(cuts) + 1
         /\ Len(OrderedBadRates(cuts)) = Len(cuts) + 1 <=> Populated(cuts) = 0 .. Len(cuts)
<1> DEFINE n == Len(cuts)
           P == Populated(cuts)
           bins == Ascending(P)
<1>1. n \in Nat
  BY DEF Ascends
<1>2. P \subseteq 0 .. n
  BY DEF Populated
<1>3. IsFiniteSet(0 .. n) /\ Cardinality(0 .. n) = n + 1
  <2>1. IsFiniteSet(0 .. n) /\ Cardinality(0 .. n) = IF 0 > n THEN 0 ELSE n - 0 + 1
    BY <1>1, FS_Interval
  <2> QED BY <1>1, <2>1
<1> HIDE DEF P
<1>4. /\ IsFiniteSet(P) /\ Cardinality(P) <= n + 1
      /\ Cardinality(P) = n + 1 <=> P = 0 .. n
  BY <1>2, <1>3, FS_Subset
<1>5. P \in SUBSET Int
  BY <1>1, <1>2
<1>6. bins \in Seq(P) /\ Len(bins) = Cardinality(P) /\ Cardinality(P) \in Nat
  BY <1>4, <1>5, AscendingAscends
<1>7. Len(OrderedBadRates(cuts)) = Cardinality(P)
  <2> DEFINE rate(i) == InUnits(Bads(bins[i], cuts), Count(bins[i], cuts))
  <2>1. OrderedBadRates(cuts) = [i \in DOMAIN bins |-> rate(i)]
    BY DEF OrderedBadRates, P
  <2>2. DOMAIN bins = 1 .. Cardinality(P)
    BY <1>6
  <2> HIDE DEF rate, bins
  <2>3. OrderedBadRates(cuts) = [i \in 1 .. Cardinality(P) |-> rate(i)]
    BY <2>1, <2>2
  <2> QED BY <1>6, <2>3
<1> QED BY <1>1, <1>4, <1>6, <1>7 DEF P

TrainingPhases == {"sample", "merging", "trained"}

Least == Min({MinBins - 1, Len(BinEdges)})

Merged == Small = {} /\ Monotonic(OrderedBadRates(edges))

\* While a card is trained: there is a sample with somebody in it, the edges
\* are in order, merging has left the minimum of bins, and has not stopped
\* before they were sound.
TrainingInv ==
  /\ phase \in TrainingPhases => sample \in Samples(Nat) /\ Everybody > 0
  /\ phase = "sample" => edges = << >>
  /\ phase \in {"merging", "trained"} => Ascends(edges) /\ Len(edges) >= Least
  /\ phase = "trained" /\ Len(edges) + 1 > MinBins => Merged

(* While everybody is there to be merged, bins without applicants are small.*)
LEMMA EmptyIsSmall ==
  ASSUME sample \in Samples(Nat), Everybody > 0, Small = {}
  PROVE  Populated(edges) = 0 .. Len(edges)
<1>1. ASSUME NEW b \in 0 .. Len(edges) PROVE Count(b, edges) > 0
  <2>1. Count(b, edges) \in Nat /\ Everybody \in Nat
    BY Headcounts
  <2>2. ~(100 * Count(b, edges) < MinShare * Everybody)
    BY DEF Small
  <2>3. MinShare \in Nat /\ MinShare >= 1
    BY BinningAssumption
  <2>4. MinShare * Everybody > 0
    <3>1. Everybody * 1 <= Everybody * MinShare
      BY <2>1, <2>3, Monotone
    <3> QED BY <2>1, <2>3, <3>1
  <2> QED BY <2>1, <2>2, <2>3, <2>4
<1> QED BY <1>1 DEF Populated

(* An edge is only taken out when more than the minimum of bins are left.   *)
LEMMA PopLeavesEnough ==
  ASSUME sample \in Samples(Nat), Ascends(edges), Len(edges) + 1 > MinBins,
         NEW i \in Nat \ {0}, Pop(i), UNCHANGED sample
  PROVE  Ascends(edges') /\ Len(edges') >= Least'
<1> DEFINE n == Len(edges)
           m == Len(BinEdges)
<1>1. n \in Nat /\ MinBins \in Nat \ {0} /\ n >= 1
  BY BinningAssumption DEF Ascends
<1>2. m \in Nat
  BY BinEdgesAscend DEF Ascends
<1>3. BinEdges' = BinEdges
  BY DEF BinEdges, Applicants
<1>4. Min({i, n}) \in 1 .. n
  <2>1. Min({i, n}) = IF i <= n THEN i ELSE n
    BY <1>1, OfTwo
  <2> QED BY <1>1, <2>1
<1>5. Ascends(edges') /\ Len(edges') = n - 1
  BY <1>4, RemovalAscends DEF Pop
<1>6. Least' = Least
  BY <1>3 DEF Least
<1>7. Least <= MinBins - 1
  <2> HIDE DEF m
  <2>1. MinBins - 1 \in Int /\ m \in Int
    BY <1>1, <1>2
  <2>2. Min({MinBins - 1, m}) = IF MinBins - 1 <= m THEN MinBins - 1 ELSE m
    BY <2>1, OfTwo
  <2> QED BY <2>1, <2>2 DEF Least, m
<1>8. Least \in Int
  <2> HIDE DEF m
  <2>1. MinBins - 1 \in Int /\ m \in Int
    BY <1>1, <1>2
  <2>2. Min({MinBins - 1, m}) = IF MinBins - 1 <= m THEN MinBins - 1 ELSE m
    BY <2>1, OfTwo
  <2> QED BY <2>1, <2>2 DEF Least, m
<1> QED BY <1>1, <1>5, <1>6, <1>7, <1>8

(* Where merging has not stopped, there are more bins than the minimum.     *)
LEMMA NotStopped ==
  ASSUME sample \in Samples(Nat), Ascends(edges), ~Stops
  PROVE  Len(edges) + 1 > MinBins /\ edges # << >>
<1>1. Len(OrderedBadRates(edges)) \in Nat /\ Len(OrderedBadRates(edges)) <= Len(edges) + 1
  BY RatesOfBins
<1>2. Len(edges) \in Nat /\ MinBins \in Nat
  BY BinningAssumption DEF Ascends
<1> QED BY <1>1, <1>2 DEF Stops

LEMMA TrainingStarts ==
  ASSUME Init
  PROVE  TrainingInv
<1>1. sample \in Samples(Nat) /\ Everybody > 0 /\ edges = << >> /\ phase = "sample"
  BY LifecycleAssumption DEF Init
<1> QED BY <1>1 DEF TrainingInv, TrainingPhases

LEMMA TrainingGoesOn ==
  ASSUME TrainingInv, [Next]_vars
  PROVE  TrainingInv'
<1>1. ASSUME UNCHANGED <<sample, edges, phase>>
      PROVE  TrainingInv'
  <2>1. Everybody' = Everybody /\ BinEdges' = BinEdges /\ Small' = Small
    BY <1>1 DEF Everybody, BinEdges, Small, Applicants, Count, Goods, Bads
  <2>2. OrderedBadRates(edges)' = OrderedBadRates(edges)
    BY <1>1 DEF OrderedBadRates, InUnits, Populated, Count, Goods, Bads
  <2> QED BY <1>1, <2>1, <2>2 DEF TrainingInv, Least, Merged, Monotonic, Violations, Delta
<1>2. ASSUME phase' \notin TrainingPhases
      PROVE  TrainingInv'
  BY <1>2 DEF TrainingInv, TrainingPhases
<1>3. ASSUME UNCHANGED sample
      PROVE  Everybody' = Everybody /\ BinEdges' = BinEdges
  BY <1>3 DEF Everybody, BinEdges, Applicants
<1>4. CASE StartBinning
  <2>1. sample' = sample /\ sample \in Samples(Nat) /\ Everybody > 0 /\ edges' = BinEdges /\ phase' = "merging"
    BY <1>4 DEF StartBinning, TrainingInv, TrainingPhases
  <2>2. Ascends(edges')
    BY <2>1, BinEdgesAscend
  <2>3. Len(edges') >= Least'
    <3>1. Len(BinEdges) \in Int /\ MinBins - 1 \in Int
      BY <2>1, BinEdgesAscend, BinningAssumption DEF Ascends
    <3>2. Least = IF MinBins - 1 <= Len(BinEdges) THEN MinBins - 1 ELSE Len(BinEdges)
      BY <3>1, OfTwo DEF Least
    <3>3. Least' = Least
      BY <1>3, <2>1 DEF Least
    <3> QED BY <2>1, <3>1, <3>2, <3>3
  <2> QED BY <1>3, <2>1, <2>2, <2>3 DEF TrainingInv, TrainingPhases
<1>5. ASSUME phase = "merging", phase' = "merging", UNCHANGED sample,
             Len(edges) + 1 > MinBins, NEW i \in Nat \ {0}, Pop(i)
      PROVE  TrainingInv'
  <2>1. sample \in Samples(Nat) /\ Everybody > 0 /\ Ascends(edges)
    BY <1>5 DEF TrainingInv, TrainingPhases
  <2>2. Ascends(edges') /\ Len(edges') >= Least'
    BY <1>5, <2>1, PopLeavesEnough
  <2> QED BY <1>3, <1>5, <2>1, <2>2 DEF TrainingInv, TrainingPhases
<1>6. CASE MergeSmall
  <2>1. /\ phase = "merging" /\ phase' = "merging" /\ UNCHANGED sample
        /\ Small # {} /\ Len(edges) + 1 > MinBins /\ Pop(Min(Small) + 1)
    BY <1>6 DEF MergeSmall, SmallBinIsMerged
  <2>2. Min(Small) + 1 \in Nat \ {0}
    <3>1. Len(edges) \in Nat
      BY <2>1 DEF TrainingInv, Ascends
    <3>2. Small \subseteq 0 .. Len(edges) /\ 0 .. Len(edges) \subseteq Int
      BY DEF Small
    <3>3. IsFiniteSet(0 .. Len(edges))
      BY <3>1, FS_Interval
    <3>4. IsFiniteSet(Small)
      BY <3>2, <3>3, FS_Subset
    <3>5. Min(Small) \in Small
      <4>1. Small \in SUBSET Int
        BY <3>2
      <4> QED BY <2>1, <3>4, <4>1, Extremes
    <3> DEFINE m == Min(Small)
    <3>6. m \in 0 .. Len(edges)
      BY <3>2, <3>5
    <3> HIDE DEF m
    <3>7. m + 1 \in Nat \ {0}
      BY <3>1, <3>6
    <3> QED BY <3>7 DEF m
  <2> QED BY <1>5, <2>1, <2>2
<1>7. CASE MergeViolation
  <2> DEFINE rates == OrderedBadRates(edges)
  <2>1. /\ phase = "merging" /\ phase' = "merging" /\ UNCHANGED sample /\ ~Stops
        /\ \E direction \in Directions(rates) : \E worst \in Worst(rates, direction) : Pop(worst)
    BY <1>7 DEF MergeViolation
  <2> HIDE DEF rates
  <2>2. PICK direction \in Directions(rates) : \E worst \in Worst(rates, direction) : Pop(worst)
    BY <2>1
  <2>3. PICK worst \in Worst(rates, direction) : Pop(worst)
    BY <2>2
  <2>4. worst \in Nat \ {0}
    BY DEF Worst, Violations
  <2>5. Len(edges) + 1 > MinBins
    BY <2>1, NotStopped DEF TrainingInv, TrainingPhases
  <2> QED BY <1>5, <2>1, <2>3, <2>4, <2>5
<1>8. CASE Finish
  <2>1. /\ phase = "merging" /\ phase' = "trained" /\ sample' = sample /\ edges' = edges
        /\ ~SmallBinIsMerged
        /\ \/ Stops
           \/ /\ ~Stops
              /\ \E direction \in Directions(OrderedBadRates(edges)) :
                   Violations(OrderedBadRates(edges), direction) = {}
    BY <1>8 DEF Finish
  <2>2. sample \in Samples(Nat) /\ Everybody > 0 /\ Ascends(edges) /\ Len(edges) >= Least
    BY <2>1 DEF TrainingInv, TrainingPhases
  <2>3. ASSUME Len(edges) + 1 > MinBins PROVE Merged
    <3>1. Len(edges) \in Nat /\ MinBins \in Nat \ {0}
      BY <2>2, BinningAssumption DEF Ascends
    <3>2. edges # << >>
      BY <2>3, <3>1
    <3>3. Small = {}
      BY <2>1, <2>3, <3>2 DEF SmallBinIsMerged
    <3>4. ~Stops
      <4>1. SUFFICES ASSUME Stops PROVE FALSE
        OBVIOUS
      <4>2. Len(OrderedBadRates(edges)) <= MinBins
        BY <3>2, <4>1 DEF Stops
      <4>3. Len(OrderedBadRates(edges)) \in Nat
        BY <2>2, RatesOfBins
      <4>4. Populated(edges) = 0 .. Len(edges)
        BY <2>2, <3>3, EmptyIsSmall
      <4>5. Len(OrderedBadRates(edges)) = Len(edges) + 1
        BY <2>2, <4>4, RatesOfBins
      <4> QED BY <2>3, <3>1, <4>2, <4>3, <4>5
    <3>5. PICK direction \in Directions(OrderedBadRates(edges)) :
            Violations(OrderedBadRates(edges), direction) = {}
      BY <2>1, <3>4
    <3>6. direction \in {1, -1}
      BY DEF Directions
    <3> QED BY <3>3, <3>5, <3>6 DEF Merged, Monotonic
  <2>4. Merged' = Merged /\ Least' = Least
    <3>1. Everybody' = Everybody /\ BinEdges' = BinEdges /\ Small' = Small
      BY <2>1 DEF Everybody, BinEdges, Small, Applicants, Count, Goods, Bads
    <3>2. OrderedBadRates(edges)' = OrderedBadRates(edges)
      BY <2>1 DEF OrderedBadRates, InUnits, Populated, Count, Goods, Bads
    <3> QED BY <3>1, <3>2 DEF Least, Merged, Monotonic, Violations, Delta
  <2> QED BY <1>3, <2>1, <2>2, <2>3, <2>4 DEF TrainingInv, TrainingPhases
<1>9. CASE Train
  BY <1>4, <1>6, <1>7, <1>8, <1>9 DEF Train, BinningStep
<1>10. CASE Deploy
  BY <1>2, <1>10 DEF Deploy, TrainingPhases
<1>11. ASSUME NEW values \in Profiles, NEW dq \in {"OK", "BLOCK"}, ScoreApplicant(values, dq)
       PROVE  TrainingInv'
  BY <1>2, <1>11 DEF ScoreApplicant, Report, TrainingPhases
<1>12. CASE ScoreSample
  BY <1>2, <1>12 DEF ScoreSample, TrainingPhases
<1>13. ASSUME NEW cell \in [Sampled -> Cells], Calibrate(cell)
       PROVE  TrainingInv'
  BY <1>2, <1>13 DEF Calibrate, Report, TrainingPhases
<1>14. ASSUME NEW developed \in [Sampled -> References], NEW live \in [Sampled -> Lives],
              Monitor(developed, live)
       PROVE  TrainingInv'
  BY <1>2, <1>14 DEF Monitor, Report, TrainingPhases
<1>15. CASE UNCHANGED vars
  BY <1>1, <1>15 DEF vars
<1> QED BY <1>9, <1>10, <1>11, <1>12, <1>13, <1>14, <1>15 DEF Next

(* TrainingInv is an invariant.                                             *)
LEMMA TrainingKept == Spec => []TrainingInv
<1>1. Init => TrainingInv
  BY TrainingStarts
<1>2. TrainingInv /\ [Next]_vars => TrainingInv'
  BY TrainingGoesOn
<1> QED BY <1>1, <1>2, PTL DEF Spec

(* Whatever the sample and the limits, merging leaves bins that are         *)
(* populated and run in one direction, and never fewer than the minimum     *)
(* (_enforce_monotonic, _woe_table).                                        *)
THEOREM BinningIsSound == Spec => []BinsAreSound
<1>1. TrainingInv => BinsAreSound
  <2> SUFFICES ASSUME TrainingInv PROVE BinsAreSound
    OBVIOUS
  <2>1. ASSUME phase = "merging", ~SmallBinIsMerged, ~Stops
        PROVE  Populated(edges) = 0 .. Len(edges)
    <3>1. sample \in Samples(Nat) /\ Everybody > 0 /\ Ascends(edges)
      BY <2>1 DEF TrainingInv, TrainingPhases
    <3>2. Small = {}
      BY <2>1, <3>1, NotStopped DEF SmallBinIsMerged
    <3> QED BY <3>1, <3>2, EmptyIsSmall
  <2> QED BY <2>1 DEF TrainingInv, BinsAreSound, Merged, Least
<1> QED BY <1>1, TrainingKept, PTL

(* Whatever the sample, an applicant it contains is put by the card in the  *)
(* bin that he was trained in, and that bin is known to the card            *)
(* (_assign, and bin_for of the scorecard).                                 *)
THEOREM TrainedAsServed == Spec => []TrainServeAgree
<1>1. TrainingInv => TrainServeAgree
  <2> SUFFICES ASSUME TrainingInv, phase = "trained",
                      NEW v \in Values \cup {Missing}, Applicants(v) > 0
               PROVE  LET b == bin_for([edges |-> edges], v) IN b \in Seen /\ v \in InBin(b, edges)
    BY DEF TrainServeAgree
  <2>1. sample \in Samples(Nat) /\ Ascends(edges)
    BY DEF TrainingInv, TrainingPhases
  <2> DEFINE b == Assign(v, edges)
  <2>2. bin_for([edges |-> edges], v) = b
    BY <2>1, BinsAgree
  <2>3. v \in InBin(b, edges)
    BY DEF InBin
  <2>4. Count(b, edges) > 0
    <3>1. Count(b, edges) \in Nat /\ Applicants(v) \in Nat /\ Applicants(v) <= Count(b, edges)
      BY <2>1, <2>3, Headcounts
    <3> QED BY <3>1
  <2>5. b \in 0 .. Len(edges) \/ b = Missing
    <3>1. CASE v = Missing
      BY <3>1 DEF Assign
    <3>2. CASE v # Missing
      BY <2>1, <3>2, BinsAgree
    <3> QED BY <3>1, <3>2
  <2> HIDE DEF b
  <2>6. b \in Seen
    BY <2>4, <2>5 DEF Seen, Populated
  <2> QED BY <2>2, <2>3, <2>6
<1> QED BY <1>1, TrainingKept, PTL

-----------------------------------------------------------------------------
(* Recommending a cut-off (Cutoffs).                                        *)

\* A population with somebody in it, as calibrate gets it.
Scores(population) ==
  /\ DOMAIN population.good \in SUBSET (MinScore .. MaxScore)
  /\ DOMAIN population.bad = DOMAIN population.good
  /\ \A s \in DOMAIN population.good : population.good[s] \in Nat /\ population.bad[s] \in Nat
  /\ ScoresOf(population) # {}

(* How many there are of some scores.                                       *)
LEMMA Numbers ==
  ASSUME NEW population, Scores(population), NEW S \in SUBSET (DOMAIN population.good)
  PROVE  /\ IsFiniteSet(DOMAIN population.good) /\ IsFiniteSet(S)
         /\ Number(population, S) \in Nat /\ Total(population.bad, S) \in Nat
         /\ \A s \in S : s \in ScoresOf(population) => Number(population, S) > 0
<1> DEFINE D == DOMAIN population.good
           people == People(population)
<1>1. /\ D \subseteq MinScore .. MaxScore
      /\ \A s \in D : population.good[s] \in Nat /\ population.bad[s] \in Nat
  BY DEF Scores
<1>2. IsFiniteSet(MinScore .. MaxScore)
  BY ScorecardAssumption, FS_Interval
<1>3. people = [s \in D |-> population.good[s] + population.bad[s]]
  BY DEF People
<1> HIDE DEF D, people
<1>4. IsFiniteSet(D)
  BY <1>1, <1>2, FS_Subset
<1>5. S \subseteq D /\ IsFiniteSet(S)
  BY <1>4, FS_Subset DEF D
<1>6. \A s \in S : people[s] \in Nat /\ population.bad[s] \in Nat
  BY <1>1, <1>3, <1>5
<1>7. Total(people, S) \in Nat /\ Total(population.bad, S) \in Nat
  BY <1>5, <1>6, TotalGrows
<1>8. \A s \in S : people[s] <= Total(people, S)
  BY <1>5, <1>6, TotalCovers
<1>9. ASSUME NEW s \in S, s \in ScoresOf(population)
      PROVE  Total(people, S) > 0
  <2>1. people[s] > 0
    BY <1>9 DEF ScoresOf, people
  <2> QED BY <1>6, <1>7, <1>8, <2>1
<1> QED BY <1>4, <1>5, <1>7, <1>9 DEF Number, D, people

(* A rounded rate that is within the target is within it but for half a     *)
(* unit, and the other way round.                                           *)
LEMMA RoundedRate ==
  ASSUME NEW population, Scores(population), NEW S \in SUBSET (DOMAIN population.good),
         Number(population, S) > 0
  PROVE  /\ BadRate(population, S) \in Nat
         /\ BadRate(population, S) <= Target =>
              2 * RateUnit * Total(population.bad, S) <= (2 * Target + 1) * Number(population, S)
         /\ 2 * RateUnit * Total(population.bad, S) <= (2 * Target - 1) * Number(population, S) =>
              BadRate(population, S) <= Target
<1> DEFINE N == Number(population, S)
           B == Total(population.bad, S)
           x == 2 * RateUnit * B + N
           r == x \div (2 * N)
<1>1. N \in Nat \ {0} /\ B \in Nat
  BY Numbers
<1>2. RateUnit \in Nat /\ Target \in Nat
  BY CutoffsAssumption
<1>3. BadRate(population, S) = r
  BY DEF BadRate
<1> HIDE DEF N, B
<1>4. x \in Nat /\ 2 * N \in Nat \ {0} /\ 2 * RateUnit * B \in Nat
  <2>1. RateUnit * B \in Nat
    BY <1>1, <1>2
  <2>2. 2 * RateUnit * B = 2 * (RateUnit * B)
    BY <1>1, <1>2
  <2> QED BY <1>1, <2>1, <2>2
<1> DEFINE z == 2 * RateUnit * B
<1>5. x = z + N /\ z \in Nat
  BY <1>4
<1> HIDE DEF z, x
<1>6. r \in Nat /\ 2 * N * r <= x /\ x < 2 * N * r + 2 * N
  BY <1>4, Division
<1> HIDE DEF r
<1>7. ASSUME r <= Target PROVE z <= (2 * Target + 1) * N
  <2>1. 2 * N * r <= 2 * N * Target /\ 2 * N * r \in Int /\ 2 * N * Target \in Int
    BY <1>2, <1>4, <1>6, <1>7, Monotone
  <2>2. (2 * Target + 1) * N = 2 * N * Target + N
    BY <1>1, <1>2
  <2> QED BY <1>1, <1>5, <1>6, <2>1, <2>2
<1>8. ASSUME z <= (2 * Target - 1) * N PROVE r <= Target
  <2>1. (2 * Target - 1) * N = 2 * N * Target - N /\ 2 * N * Target \in Int
    BY <1>1, <1>2
  <2>2. 2 * N * r \in Int /\ 2 * N * (Target + 1) = 2 * N * Target + 2 * N
    BY <1>1, <1>2, <1>6
  <2>3. 2 * N * r < 2 * N * (Target + 1)
    BY <1>1, <1>5, <1>6, <1>8, <2>1, <2>2
  <2>4. r < Target + 1
    BY <1>2, <1>4, <1>6, <2>3, Cancel
  <2> QED BY <1>2, <1>6, <2>4
<1> QED BY <1>3, <1>6, <1>7, <1>8 DEF N, B, z

\* A cut-off's point on the curve.
PointAt(population, cutoff) ==
  LET approved == AtLeast(population, cutoff)
      marginal == Between(population, cutoff, cutoff + Window)
  IN [cutoff   |-> cutoff,
      approved |-> BadRate(population, approved),
      size     |-> Number(population, marginal),
      marginal |-> IF Number(population, marginal) = 0 THEN -1 ELSE BadRate(population, marginal)]

\* Both rates are within the target, but for the slack in half units.
Suits(population, cutoff, slack) ==
  LET Within(S) == 2 * RateUnit * Total(population.bad, S) <= (2 * Target + slack) * Number(population, S)
  IN /\ Within(AtLeast(population, cutoff))
     /\ Within(Between(population, cutoff, cutoff + Window))
     /\ Number(population, Between(population, cutoff, cutoff + Window)) >= MinMarginal

Grid(population) ==
  {cutoff \in Lowest(population) .. Highest(population) : (cutoff - Lowest(population)) % GridStep = 0}

(* The scores somebody has are bounded by the lowest and the highest.       *)
LEMMA ScoreRange ==
  ASSUME NEW population, Scores(population)
  PROVE  /\ Lowest(population) \in MinScore .. MaxScore
         /\ Highest(population) \in ScoresOf(population)
         /\ Highest(population) \in MinScore .. MaxScore
         /\ \A s \in ScoresOf(population) :
              s \in DOMAIN population.good /\ Lowest(population) <= s /\ s <= Highest(population)
<1> DEFINE S == ScoresOf(population)
<1>1. S \subseteq DOMAIN population.good
  BY DEF ScoresOf
<1>2. DOMAIN population.good \subseteq MinScore .. MaxScore /\ S # {}
  BY DEF Scores
<1>3. IsFiniteSet(DOMAIN population.good)
  BY Numbers
<1> HIDE DEF S
<1>4. IsFiniteSet(S) /\ S \in SUBSET Int
  <2>1. IsFiniteSet(S)
    BY <1>1, <1>3, FS_Subset
  <2>2. MinScore .. MaxScore \subseteq Int
    OBVIOUS
  <2> QED BY <1>1, <1>2, <2>1, <2>2
<1>5. /\ Max(S) \in S /\ \A y \in S : Max(S) >= y
      /\ Min(S) \in S /\ \A y \in S : Min(S) <= y
  BY <1>2, <1>4, Extremes
<1>6. Lowest(population) = Min(S) /\ Highest(population) = Max(S)
  BY DEF Lowest, Highest, S
<1>7. \A y \in S : y \in Int /\ y \in MinScore .. MaxScore /\ y \in DOMAIN population.good
  BY <1>1, <1>2, <1>4
<1> QED
  <2> DEFINE lo == Min(S)
             hi == Max(S)
  <2>1. lo \in S /\ hi \in S /\ \A y \in S : hi >= y /\ lo <= y
    BY <1>5
  <2> HIDE DEF lo, hi
  <2>2. \A y \in S : y \in Int /\ lo <= y /\ y <= hi /\ hi \in Int
    BY <1>7, <2>1
  <2> QED BY <1>6, <1>7, <2>1, <2>2 DEF S, lo, hi

(* The curve has the cut-offs of the grid.                                  *)
LEMMA CurveIsGrid ==
  ASSUME NEW population, Scores(population)
  PROVE  Curve(population) = {PointAt(population, cutoff) : cutoff \in Grid(population)}
<1> DEFINE lo == Lowest(population)
           hi == Highest(population)
           K == 0 .. (hi - lo) \div GridStep
           G == Grid(population)
<1>1. lo \in Nat /\ hi \in Nat /\ lo <= hi
  BY ScoreRange, ScorecardAssumption
<1>2. GridStep \in Nat \ {0}
  BY CutoffsAssumption
<1>3. Curve(population) = {PointAt(population, lo + GridStep * k) : k \in K}
  BY DEF Curve, PointAt
<1>4. G = {cutoff \in lo .. hi : (cutoff - lo) % GridStep = 0}
  BY DEF Grid
<1> HIDE DEF lo, hi, G
<1> DEFINE w == hi - lo
           q == w \div GridStep
<1>5. w \in Nat
  BY <1>1
<1> HIDE DEF w
<1>6. q \in Nat /\ GridStep * q <= w /\ w < GridStep * q + GridStep
  BY <1>2, <1>5, Division
<1> HIDE DEF q
<1>7. ASSUME NEW k \in K PROVE lo + GridStep * k \in G
  <2>1. k \in Nat /\ k <= q
    BY <1>6 DEF q, w
  <2>2. GridStep * k <= GridStep * q /\ GridStep * k \in Nat
    BY <1>2, <1>6, <2>1, Monotone
  <2>3. (GridStep * k) % GridStep = 0
    <3> DEFINE t == GridStep * k
    <3>1. t \div GridStep = k
      <4>1. /\ t \div GridStep \in Nat
            /\ GridStep * (t \div GridStep) <= t
            /\ t < GridStep * (t \div GridStep) + GridStep
        BY <1>2, <2>2, Division
      <4> DEFINE d == t \div GridStep
      <4>2. d \in Nat /\ GridStep * d <= GridStep * k /\ GridStep * k < GridStep * d + GridStep
        BY <4>1
      <4> HIDE DEF d
      <4>3. GridStep * d < GridStep * (k + 1) /\ GridStep * k < GridStep * (d + 1)
        <5>1. /\ GridStep * (k + 1) = GridStep * k + GridStep
              /\ GridStep * (d + 1) = GridStep * d + GridStep
              /\ GridStep * d \in Int /\ GridStep * k \in Int
          BY <1>2, <2>1, <4>2
        <5> QED BY <1>2, <4>2, <5>1
      <4>4. d < k + 1 /\ k < d + 1
        BY <1>2, <2>1, <4>2, <4>3, Cancel
      <4>5. d = k
        BY <2>1, <4>2, <4>4
      <4> QED BY <4>5 DEF d
    <3> HIDE DEF t
    <3>2. t \in Nat /\ t = GridStep * k
      BY <2>2 DEF t
    <3>3. t % GridStep = 0
      BY <1>2, <3>1, <3>2, Division
    <3> QED BY <3>3 DEF t
  <2> DEFINE t == GridStep * k
             u == GridStep * q
  <2>4. t \in Nat /\ t <= u /\ u \in Int /\ u <= w /\ t % GridStep = 0
    BY <1>2, <1>6, <2>2, <2>3
  <2> HIDE DEF t, u
  <2>5. w = hi - lo
    BY DEF w
  <2> DEFINE c == lo + t
  <2>6. c \in lo .. hi /\ c - lo = t
    BY <1>1, <2>4, <2>5
  <2> HIDE DEF c
  <2>7. (c - lo) % GridStep = 0
    BY <2>4, <2>6, Zenon
  <2>8. c \in G
    BY <1>4, <2>6, <2>7, Zenon
  <2> QED BY <2>8, Zenon DEF t, c
<1>8. ASSUME NEW c \in G PROVE \E k \in K : c = lo + GridStep * k
  <2>1. c \in lo .. hi /\ (c - lo) % GridStep = 0
    BY <1>4
  <2> DEFINE t == c - lo
             k == t \div GridStep
  <2>2. t \in Nat /\ t <= w /\ t % GridStep = 0
    BY <1>1, <2>1 DEF w
  <2> HIDE DEF t
  <2>3. k \in Nat /\ t = GridStep * k
    BY <1>2, <2>2, Division
  <2> HIDE DEF k
  <2>4. k <= q
    <3>1. GridStep * (q + 1) = GridStep * q + GridStep /\ GridStep * q \in Int /\ GridStep * k \in Int
      BY <1>2, <1>6, <2>3
    <3>2. GridStep * k < GridStep * (q + 1)
      <4>1. GridStep * k <= w
        BY <2>2, <2>3
      <4> DEFINE u == GridStep * q
      <4>2. w < u + GridStep /\ u \in Int /\ GridStep * (q + 1) = u + GridStep
        BY <1>6, <3>1
      <4> HIDE DEF u
      <4> QED BY <1>2, <1>5, <3>1, <4>1, <4>2
    <3>3. k < q + 1
      BY <1>2, <1>6, <2>3, <3>2, Cancel
    <3> QED BY <1>6, <2>3, <3>3
  <2>5. k \in K
    BY <1>6, <2>3, <2>4 DEF q, w
  <2>6. c = lo + GridStep * k
    BY <1>1, <2>1, <2>3 DEF t
  <2> QED BY <2>5, <2>6
<1> HIDE DEF K
<1> QED BY <1>3, <1>7, <1>8 DEF G

(* A point on the curve is feasible when both rates suit, and both suit     *)
(* when it is, up to rounding.                                              *)
LEMMA FeasibleSuits ==
  ASSUME NEW population, Scores(population), NEW cutoff \in Grid(population)
  PROVE  /\ Feasible(PointAt(population, cutoff)) => Suits(population, cutoff, 1)
         /\ Suits(population, cutoff, -1) => Feasible(PointAt(population, cutoff))
<1> DEFINE A == AtLeast(population, cutoff)
           M == Between(population, cutoff, cutoff + Window)
           point == PointAt(population, cutoff)
<1>1. A \in SUBSET (DOMAIN population.good) /\ M \in SUBSET (DOMAIN population.good)
  BY DEF AtLeast, Between
<1>2. Highest(population) \in A /\ Highest(population) \in ScoresOf(population)
  BY ScoreRange DEF Grid, AtLeast
<1>3. /\ point.approved = BadRate(population, A) /\ point.size = Number(population, M)
      /\ point.marginal = IF Number(population, M) = 0 THEN -1 ELSE BadRate(population, M)
  BY DEF PointAt
<1>4. \A slack : Suits(population, cutoff, slack) <=>
        /\ 2 * RateUnit * Total(population.bad, A) <= (2 * Target + slack) * Number(population, A)
        /\ 2 * RateUnit * Total(population.bad, M) <= (2 * Target + slack) * Number(population, M)
        /\ Number(population, M) >= MinMarginal
  BY DEF Suits
<1> HIDE DEF A, M, point
<1>5. Number(population, A) > 0 /\ Number(population, M) \in Nat /\ MinMarginal \in Nat \ {0}
  BY <1>1, <1>2, Numbers, CutoffsAssumption
<1>6. /\ BadRate(population, A) \in Nat
      /\ BadRate(population, A) <= Target =>
           2 * RateUnit * Total(population.bad, A) <= (2 * Target + 1) * Number(population, A)
      /\ 2 * RateUnit * Total(population.bad, A) <= (2 * Target - 1) * Number(population, A) =>
           BadRate(population, A) <= Target
  BY <1>1, <1>5, RoundedRate
<1>7. Number(population, M) > 0 =>
        /\ BadRate(population, M) \in Nat
        /\ BadRate(population, M) <= Target =>
             2 * RateUnit * Total(population.bad, M) <= (2 * Target + 1) * Number(population, M)
        /\ 2 * RateUnit * Total(population.bad, M) <= (2 * Target - 1) * Number(population, M) =>
             BadRate(population, M) <= Target
  BY <1>1, RoundedRate
<1>8. 2 * Target + (-1) = 2 * Target - 1
  BY CutoffsAssumption
<1>9. ASSUME Feasible(point) PROVE Suits(population, cutoff, 1)
  <2>1. /\ BadRate(population, A) <= Target /\ Number(population, M) >= MinMarginal
        /\ point.marginal <= Target
    BY <1>3, <1>9 DEF Feasible
  <2>2. Number(population, M) > 0
    BY <1>5, <2>1
  <2>3. BadRate(population, M) <= Target
    BY <1>3, <2>1, <2>2
  <2> QED BY <1>4, <1>6, <1>7, <2>1, <2>2, <2>3
<1>10. ASSUME Suits(population, cutoff, -1) PROVE Feasible(point)
  <2>1. /\ 2 * RateUnit * Total(population.bad, A) <= (2 * Target - 1) * Number(population, A)
        /\ 2 * RateUnit * Total(population.bad, M) <= (2 * Target - 1) * Number(population, M)
        /\ Number(population, M) >= MinMarginal
    BY <1>4, <1>8, <1>10
  <2>2. Number(population, M) > 0
    BY <1>5, <2>1
  <2>3. BadRate(population, A) <= Target /\ BadRate(population, M) \in Nat /\ BadRate(population, M) <= Target
    BY <1>6, <1>7, <2>1, <2>2
  <2>4. point.marginal = BadRate(population, M) /\ point.marginal # -1
    BY <1>3, <2>2, <2>3
  <2> QED BY <1>3, <2>1, <2>3, <2>4 DEF Feasible
<1> QED BY <1>9, <1>10 DEF point

(* The recommended cut-off suits; those below it on the grid, or all where  *)
(* there is none, do not.                                                   *)
LEMMA RecommendedSuits ==
  ASSUME NEW population, Scores(population), NEW accept, accept = Recommend(population).cutoff
  PROVE  /\ accept # -1 => accept \in Grid(population) /\ accept \in Nat /\ Suits(population, accept, 1)
         /\ \A cutoff \in Grid(population) :
              accept = -1 \/ cutoff < accept => ~Suits(population, cutoff, -1)
<1> DEFINE feasible == {point \in Curve(population) : Feasible(point)}
           G == {cutoff \in Grid(population) : Feasible(PointAt(population, cutoff))}
<1>1. G \in SUBSET Nat
  <2>1. Lowest(population) \in Nat
    BY ScoreRange, ScorecardAssumption
  <2> QED BY <2>1 DEF Grid
<1>2. \A cutoff \in Grid(population) : PointAt(population, cutoff).cutoff = cutoff
  BY DEF PointAt
<1>3. Curve(population) = {PointAt(population, cutoff) : cutoff \in Grid(population)}
  BY CurveIsGrid
<1>4. feasible = {PointAt(population, cutoff) : cutoff \in G}
  BY <1>3
<1> HIDE DEF feasible
<1>5. CASE G = {}
  <2>1. feasible = {}
    BY <1>4, <1>5
  <2>2. accept = -1
    BY <2>1 DEF Recommend, NoCutoff, feasible
  <2>3. \A cutoff \in Grid(population) : ~Suits(population, cutoff, -1)
    BY <1>5, FeasibleSuits
  <2> QED BY <2>2, <2>3
<1>6. CASE G # {}
  <2>1. PICK c \in G : \A d \in G : c <= d
    <3> HIDE DEF G
    <3> QED BY <1>1, <1>6, LeastNatural
  <2> DEFINE Least1(p) == \A q \in feasible : p.cutoff <= q.cutoff
             least == CHOOSE p \in feasible : Least1(p)
  <2>2. PointAt(population, c) \in feasible /\ Least1(PointAt(population, c))
    BY <1>2, <1>4, <2>1
  <2>3. least \in feasible /\ Least1(least)
    BY <2>2
  <2>4. Recommend(population) = least
    BY <2>2 DEF Recommend, feasible
  <2> HIDE DEF least
  <2>5. PICK a \in G : least = PointAt(population, a)
    BY <1>4, <2>3
  <2>6. accept = a
    BY <1>2, <2>4, <2>5
  <2>7. \A d \in G : a <= d
    BY <1>2, <1>4, <2>3, <2>5
  <2>8. a \in Nat /\ a \in Grid(population) /\ Suits(population, a, 1)
    BY <1>1, <2>5, FeasibleSuits
  <2>9. ASSUME NEW cutoff \in Grid(population), cutoff < a PROVE ~Suits(population, cutoff, -1)
    <3>1. SUFFICES ASSUME Suits(population, cutoff, -1) PROVE FALSE
      OBVIOUS
    <3>2. cutoff \in G
      BY <3>1, FeasibleSuits
    <3>3. a <= cutoff /\ cutoff \in Nat
      BY <1>1, <2>7, <3>2
    <3> QED BY <2>8, <2>9, <3>3
  <2>10. accept # -1
    BY <2>6, <2>8
  <2> QED BY <2>6, <2>8, <2>9, <2>10
<1> QED BY <1>5, <1>6

-----------------------------------------------------------------------------
(* Scoring a sample (Scorecard).                                            *)

\* A card that was trained: its bins are in order and have their points, and
\* of the seen ones, in which some value falls, the best has the most.
Trained(c) ==
  /\ Ascends(c.edges)
  /\ \A b \in 0 .. Len(c.edges) \cup {Missing} : c.points[b] \in Nat
  /\ c.best \in Int
  /\ c.seen \subseteq 0 .. Len(c.edges) \cup {Missing}
  /\ \E b \in c.seen : c.points[b] = c.best
  /\ \A b \in c.seen : c.points[b] <= c.best /\ \E v \in Values \cup {Missing} : bin_for(c, v) = b

(* A card has finitely many characteristics.                                *)
LEMMA NamedAreFinite == IsFiniteSet(Named)
<1> DEFINE n == Len(Characteristics)
<1>1. n \in Nat /\ DOMAIN Characteristics = 1 .. n
  BY ScorecardAssumption
<1>2. Named = {Characteristics[k] : k \in 1 .. n}
  BY <1>1 DEF Named, Range
<1>3. 1 \in Int /\ n \in Int
  BY <1>1
<1> HIDE DEF n
<1>4. IsFiniteSet({Characteristics[k] : k \in 1 .. n})
  BY <1>3, ImageIsFinite
<1> QED BY <1>2, <1>4

(* A score lies on the scale.                                               *)
LEMMA ScoresLieOnScale ==
  ASSUME NEW c, Trained(c), NEW values \in Profiles
  PROVE  ScoreOf(c, values) \in MinScore .. MaxScore
<1> DEFINE part == [d \in Named |-> Contribution(c, d, values[d])]
           segment == select_segment(values)
           raw == RawScore(c, values, segment)
<1>1. IsFiniteSet(Named) /\ Weight \in [Named -> Int]
  BY NamedAreFinite, ScorecardAssumption DEF Named
<1>2. \A d \in Named : part[d] \in Int
  <2> TAKE d \in Named
  <2>1. values[d] \in Values \cup {Missing}
    BY DEF Profiles
  <2> DEFINE b == bin_for(c, values[d])
             plain == [edges |-> c.edges]
  <2>2. b = bin_for(plain, values[d])
    BY DEF bin_for
  <2>3. bin_for(plain, values[d]) \in 0 .. Len(c.edges) \cup {Missing}
    <3>1. CASE values[d] = Missing
      BY <3>1 DEF bin_for
    <3>2. CASE values[d] # Missing
      BY <2>1, <3>2, BinsAgree DEF Trained
    <3> QED BY <3>1, <3>2
  <2> HIDE DEF b, plain
  <2>4. c.points[b] \in Nat
    BY <2>2, <2>3 DEF Trained
  <2>5. Weight[d] \in Int
    BY <1>1
  <2>6. part[d] = Weight[d] * c.points[b]
    BY DEF Contribution, b
  <2> QED BY <2>4, <2>5, <2>6
<1> HIDE DEF part
<1>3. Total(part, Scored(segment)) \in Int
  <2>1. Scored(segment) \subseteq Named
    BY DEF Scored
  <2> HIDE DEF segment
  <2>2. IsFiniteSet(Scored(segment)) /\ \A d \in Scored(segment) : part[d] \in Int
    BY <1>1, <1>2, <2>1, FS_Subset
  <2> QED BY <2>2, TotalUnfolds
<1>4. raw \in Int
  <2>1. raw = BaseScore + Total(part, Scored(segment))
    BY DEF RawScore, part
  <2> QED BY <1>3, <2>1, ScorecardAssumption
<1> HIDE DEF raw
<1> DEFINE capped == Min({MaxScore, raw})
<1>5. capped = (IF MaxScore <= raw THEN MaxScore ELSE raw) /\ capped \in Int
  BY <1>4, OfTwo, ScorecardAssumption
<1> HIDE DEF capped
<1>6. Max({MinScore, capped}) = IF MinScore >= capped THEN MinScore ELSE capped
  <2>1. MinScore \in Int /\ capped \in Int
    BY <1>5, ScorecardAssumption
  <2> QED BY <2>1, OfTwo
<1>7. ScoreOf(c, values) = Max({MinScore, capped})
  BY DEF ScoreOf, capped, raw
<1> QED BY <1>4, <1>5, <1>6, <1>7, ScorecardAssumption

(* What model building leaves is a trained card.                            *)
LEMMA ArtefactIsTrained ==
  ASSUME sample \in Samples(Nat), Everybody > 0, Ascends(edges)
  PROVE  Trained(Artefact)
<1>1. Labels = 0 .. Len(edges) \cup {Missing} /\ IsFiniteSet(Labels)
  <2>1. Len(edges) \in Nat
    BY DEF Ascends
  <2>2. IsFiniteSet(0 .. Len(edges))
    BY <2>1, FS_Interval
  <2>3. IsFiniteSet({Missing})
    BY FS_Singleton
  <2> QED BY <2>2, <2>3, FS_Union DEF Labels
<1>2. \A b : Rank(b) \in Nat
  <2> TAKE b
  <2> DEFINE worse == {l \in Labels : Better(Odds(b), Odds(l))}
  <2>1. worse \subseteq Labels
    OBVIOUS
  <2>2. Rank(b) = Cardinality(worse)
    BY DEF Rank
  <2> HIDE DEF worse
  <2> QED BY <1>1, <2>1, <2>2, FS_Subset, FS_CardinalityType
<1>3. Seen # {} /\ Seen \subseteq Labels
  <2>1. Seen \subseteq Labels
    BY DEF Seen, Populated, Labels
  <2>2. \E v \in Values \cup {Missing} : Applicants(v) > 0
    <3>1. SUFFICES ASSUME \A v \in Values \cup {Missing} : ~(Applicants(v) > 0)
                   PROVE  FALSE
      OBVIOUS
    <3> DEFINE All == Values \cup {Missing}
               f == [v \in All |-> Applicants(v)]
    <3>2. \A v \in All : f[v] = 0
      BY <3>1, Headcounts
    <3>3. Everybody = Total(f, All)
      BY DEF Everybody, Size
    <3>4. IsFiniteSet(All)
      BY FS_Singleton, FS_Union, BinningAssumption
    <3> HIDE DEF f, All
    <3>5. Everybody = 0
      BY <3>2, <3>3, <3>4, TotalNeeds
    <3> QED BY <3>5
  <2>3. PICK v \in Values \cup {Missing} : Applicants(v) > 0
    BY <2>2
  <2> DEFINE b == Assign(v, edges)
  <2>4. v \in InBin(b, edges)
    BY DEF InBin
  <2>5. b \in 0 .. Len(edges) \/ b = Missing
    <3>1. CASE v = Missing
      BY <3>1 DEF Assign
    <3>2. CASE v # Missing
      BY <3>2, BinsAgree
    <3> QED BY <3>1, <3>2
  <2> HIDE DEF b
  <2>6. Count(b, edges) \in Nat /\ Applicants(v) \in Nat /\ Applicants(v) <= Count(b, edges)
    BY <2>4, Headcounts
  <2>7. b \in Seen
    BY <2>3, <2>5, <2>6 DEF Seen, Populated
  <2> QED BY <2>1, <2>7
<1>4. /\ Artefact.best \in Int
      /\ \E b \in Seen : Rank(b) = Artefact.best
      /\ \A b \in Seen : Rank(b) <= Artefact.best
  <2> DEFINE R == {Rank(b) : b \in Seen}
             rank == [b \in Seen |-> Rank(b)]
  <2>1. R # {} /\ R \in SUBSET Int
    BY <1>2, <1>3
  <2>2. IsFiniteSet(R)
    <3>1. rank \in Surjection(Seen, R)
      BY DEF Surjection
    <3> HIDE DEF rank, R
    <3>2. IsFiniteSet(Seen)
      BY <1>1, <1>3, FS_Subset
    <3> QED BY <3>1, <3>2, FS_Surjection
  <2>3. Artefact.best = Max(R)
    BY DEF Artefact
  <2>4. Max(R) \in R /\ \A r \in R : Max(R) >= r
    <3> HIDE DEF R
    <3> QED BY <2>1, <2>2, Extremes
  <2>5. \A b \in Seen : Rank(b) \in R /\ Rank(b) \in Nat
    BY <1>2
  <2>6. \A r \in R : \E b \in Seen : Rank(b) = r
    OBVIOUS
  <2> HIDE DEF R
  <2>7. Artefact.best \in R /\ Artefact.best \in Int /\ \A r \in R : Artefact.best >= r
    BY <2>1, <2>3, <2>4
  <2>8. \A b \in Seen : Rank(b) <= Artefact.best
    BY <2>5, <2>7
  <2> QED BY <2>6, <2>7, <2>8
<1>5. Artefact.edges = edges /\ Artefact.seen = Seen /\ \A b \in Labels : Artefact.points[b] = Rank(b)
  BY DEF Artefact
<1>6. ASSUME NEW b \in Seen PROVE \E v \in Values \cup {Missing} : bin_for(Artefact, v) = b
  <2>1. Count(b, edges) > 0
    BY <1>6 DEF Seen, Populated
  <2>2. InBin(b, edges) # {}
    <3>1. SUFFICES ASSUME InBin(b, edges) = {} PROVE FALSE
      OBVIOUS
    <3>2. Total(sample.good, {}) = 0 /\ Total(sample.bad, {}) = 0
      BY FS_EmptySet, TotalUnfolds
    <3> QED BY <2>1, <3>1, <3>2 DEF Count, Goods, Bads
  <2>3. PICK v \in Values \cup {Missing} : Assign(v, edges) = b
    BY <2>2 DEF InBin
  <2>4. bin_for([edges |-> edges], v) = Assign(v, edges)
    BY BinsAgree
  <2>5. bin_for(Artefact, v) = bin_for([edges |-> edges], v)
    BY <1>5 DEF bin_for
  <2> QED BY <2>3, <2>4, <2>5
<1> HIDE DEF Artefact
<1>7. \A b \in Artefact.seen : /\ Artefact.points[b] <= Artefact.best
                             /\ \E v \in Values \cup {Missing} : bin_for(Artefact, v) = b
  BY <1>3, <1>4, <1>5, <1>6
<1>8. \E b \in Artefact.seen : Artefact.points[b] = Artefact.best
  BY <1>3, <1>4, <1>5
<1> QED BY <1>1, <1>2, <1>3, <1>4, <1>5, <1>7, <1>8 DEF Trained

-----------------------------------------------------------------------------
(* The life of a card (ModelLifecycle).                                     *)

\* What calibrate reports of a population.
Calibration(population) ==
  LET proposed == Recommend(population).cutoff
  IN [population |-> population, accept |-> proposed,
      refer |-> IF proposed = -1 THEN -1 ELSE ReferFloor(proposed),
      bands |-> BandTable(population),
      moved |-> IF proposed = -1 THEN 0 ELSE Moved(population, CurrentCutoff, proposed)]

\* What is monitored: two samples of the same scores, and a status the index
\* of them may have.
Monitored(report) ==
  /\ Sample(report.expected) /\ Sample(report.actual)
  /\ DOMAIN report.actual = DOMAIN report.expected
  /\ report.psi \in StabilityStatuses(report.expected, report.actual)
  /\ report.overall = OverallStatus(report.psi)

\* The reasons an applicant was given follow from his values.
ReasonsGiven(report) ==
  /\ report.values \in Profiles /\ report.dq \in {"OK", "BLOCK"}
  /\ report.codes = ReasonCodes(card, report.values, report.dq)

\* A card that is used was trained; scores lie on the scale; and a report is
\* what its program makes of a population.
LifeInv ==
  /\ TrainingInv
  /\ phase \in {"serving", "scored"} => Trained(card)
  /\ phase = "scored" => ReasonsGiven(result)
  /\ phase = "sampled" => result \in [Sampled -> MinScore .. MaxScore]
  /\ phase = "calibrated" => Scores(result.population) /\ result = Calibration(result.population)
  /\ phase = "monitored" => Monitored(result)

(* Counting people by score.                                                *)
LEMMA CountedByScore ==
  ASSUME result \in [Sampled -> MinScore .. MaxScore],
         NEW number, \A p \in Sampled : number[p] \in Nat
  PROVE  /\ Sample(ByScore(number)) /\ DOMAIN ByScore(number) = Range(result)
         /\ Range(result) \subseteq MinScore .. MaxScore
         /\ \A p \in Sampled : result[p] \in Range(result) /\ number[p] <= ByScore(number)[result[p]]
<1> DEFINE D == Range(result)
           Those(s) == {p \in Sampled : result[p] = s}
<1>1. D \subseteq MinScore .. MaxScore /\ \A p \in Sampled : result[p] \in D
  BY DEF Range
<1>2. IsFiniteSet(D)
  <2>1. IsFiniteSet(MinScore .. MaxScore)
    BY FS_Interval, ScorecardAssumption
  <2> HIDE DEF D
  <2> QED BY <1>1, <2>1, FS_Subset
<1>3. ByScore(number) = [s \in D |-> Total(number, Those(s))]
  BY DEF ByScore
<1>4. IsFiniteSet(Sampled)
  BY LifecycleAssumption
<1> HIDE DEF D
<1>5. ASSUME NEW s
      PROVE  Total(number, Those(s)) \in Nat /\ \A p \in Those(s) : number[p] <= Total(number, Those(s))
  <2>1. Those(s) \subseteq Sampled
    OBVIOUS
  <2> HIDE DEF Those
  <2>2. IsFiniteSet(Those(s)) /\ \A p \in Those(s) : number[p] \in Nat
    BY <1>4, <2>1, FS_Subset
  <2> QED BY <2>2, TotalGrows, TotalCovers
<1>6. Sample(ByScore(number))
  <2>1. D \in SUBSET Int
    <3>1. MinScore .. MaxScore \subseteq Int
      OBVIOUS
    <3> QED BY <1>1, <3>1
  <2>2. \A s \in D : ByScore(number)[s] \in Nat
    <3> HIDE DEF Those
    <3> QED BY <1>3, <1>5
  <2>3. DOMAIN ByScore(number) = D
    BY <1>3
  <2> QED BY <1>2, <2>1, <2>2, <2>3 DEF Sample
<1>7. ASSUME NEW p \in Sampled PROVE number[p] <= ByScore(number)[result[p]]
  <2>1. p \in Those(result[p]) /\ result[p] \in D
    BY <1>1
  <2> HIDE DEF Those
  <2> QED BY <1>3, <1>5, <2>1
<1> QED BY <1>1, <1>3, <1>6, <1>7 DEF D

LEMMA LifeStarts ==
  ASSUME Init
  PROVE  LifeInv
<1>1. phase = "sample"
  BY DEF Init
<1> QED BY <1>1, TrainingStarts DEF LifeInv

LEMMA LifeGoesOn ==
  ASSUME LifeInv, [Next]_vars
  PROVE  LifeInv'
<1>1. TrainingInv'
  BY TrainingGoesOn DEF LifeInv
<1>2. ASSUME phase' \in TrainingPhases PROVE LifeInv'
  BY <1>1, <1>2 DEF LifeInv, TrainingPhases
<1>3. CASE Train
  <2>1. phase' \in TrainingPhases
    BY <1>3 DEF Train, BinningStep, StartBinning, MergeSmall, MergeViolation, Finish, TrainingPhases
  <2> QED BY <1>2, <2>1
<1>4. CASE Deploy
  <2>1. phase = "trained" /\ phase' = "serving" /\ card' = Artefact
    BY <1>4 DEF Deploy
  <2>2. Trained(Artefact)
    BY <2>1, ArtefactIsTrained DEF LifeInv, TrainingInv, TrainingPhases
  <2>3. Trained(card')
    BY <2>1, <2>2
  <2> QED BY <1>1, <2>1, <2>3 DEF LifeInv
<1>5. ASSUME NEW values \in Profiles, NEW dq \in {"OK", "BLOCK"}, ScoreApplicant(values, dq)
      PROVE  LifeInv'
  <2>1. /\ phase = "serving" /\ phase' = "scored" /\ card' = card
        /\ result' = [values |-> values, dq |-> dq, score |-> ScoreOf(card, values),
                      codes |-> ReasonCodes(card, values, dq)]
    BY <1>5 DEF ScoreApplicant, Report
  <2>2. /\ result'.values = values /\ result'.dq = dq
        /\ result'.codes = ReasonCodes(card, values, dq)
    BY <2>1
  <2>3. Trained(card') /\ ReasonsGiven(result)'
    BY <2>1, <2>2 DEF LifeInv, ReasonsGiven
  <2> QED BY <1>1, <2>1, <2>3 DEF LifeInv
<1>6. CASE ScoreSample
  <2>1. phase = "serving" /\ phase' = "sampled" /\ result' = [p \in Sampled |-> ScoreOf(card, p)]
    BY <1>6 DEF ScoreSample
  <2>2. \A p \in Sampled : ScoreOf(card, p) \in MinScore .. MaxScore
    BY <2>1, ScoresLieOnScale, LifecycleAssumption DEF LifeInv
  <2>3. result' \in [Sampled -> MinScore .. MaxScore]
    BY <2>1, <2>2
  <2> QED BY <1>1, <2>1, <2>3 DEF LifeInv
<1>7. ASSUME NEW cell \in [Sampled -> Cells], Calibrate(cell)
      PROVE  LifeInv'
  <2> DEFINE good == [p \in Sampled |-> cell[p].good]
             bad == [p \in Sampled |-> cell[p].bad]
             population == [good |-> ByScore(good), bad |-> ByScore(bad)]
  <2>1. /\ phase = "sampled" /\ phase' = "calibrated"
        /\ \E p \in Sampled : cell[p].good + cell[p].bad > 0
        /\ result' = Calibration(population)
    BY <1>7 DEF Calibrate, Report, Calibration
  <2>2. result \in [Sampled -> MinScore .. MaxScore]
    BY <2>1 DEF LifeInv
  <2>3. \A p \in Sampled : good[p] \in Nat /\ bad[p] \in Nat
    <3>1. \A p \in Sampled : cell[p] \in [good : Nat, bad : Nat]
      BY LifecycleAssumption
    <3> QED BY <3>1
  <2>4. PICK p \in Sampled : good[p] + bad[p] > 0
    BY <2>1
  <2> HIDE DEF good, bad
  <2>5. /\ Sample(ByScore(good)) /\ DOMAIN ByScore(good) = Range(result)
        /\ good[p] <= ByScore(good)[result[p]]
        /\ Range(result) \subseteq MinScore .. MaxScore /\ result[p] \in Range(result)
    BY <2>2, <2>3, CountedByScore
  <2>6. /\ Sample(ByScore(bad)) /\ DOMAIN ByScore(bad) = Range(result)
        /\ bad[p] <= ByScore(bad)[result[p]]
    BY <2>2, <2>3, CountedByScore
  <2>7. population.good = ByScore(good) /\ population.bad = ByScore(bad)
    OBVIOUS
  <2> HIDE DEF population
  <2>8. /\ ByScore(good)[result[p]] \in Nat /\ ByScore(bad)[result[p]] \in Nat
        /\ good[p] \in Nat /\ bad[p] \in Nat
    BY <2>3, <2>5, <2>6 DEF Sample
  <2>9. ByScore(good)[result[p]] + ByScore(bad)[result[p]] > 0
    BY <2>4, <2>5, <2>6, <2>8
  <2>10. result[p] \in ScoresOf(population)
    BY <2>5, <2>6, <2>7, <2>9 DEF ScoresOf, People
  <2>11. Scores(population)
    BY <2>5, <2>6, <2>7, <2>10 DEF Scores, Sample
  <2>12. Calibration(population).population = population
    BY DEF Calibration
  <2>13. Scores(result'.population) /\ result' = Calibration(result'.population)
    BY <2>1, <2>11, <2>12
  <2> QED BY <1>1, <2>1, <2>13 DEF LifeInv, Calibration, Recommend, Curve, NoCutoff
<1>8. ASSUME NEW developed \in [Sampled -> References], NEW live \in [Sampled -> Lives],
             Monitor(developed, live)
      PROVE  LifeInv'
  <2> DEFINE expected == ByScore(developed)
             actual == ByScore(live)
  <2>1. PICK psi \in StabilityStatuses(expected, actual) :
          result' = [expected |-> expected, actual |-> actual, psi |-> psi, overall |-> OverallStatus(psi)]
    BY <1>8 DEF Monitor, Report
  <2>2. phase = "sampled" /\ phase' = "monitored"
    BY <1>8 DEF Monitor, Report
  <2>3. result \in [Sampled -> MinScore .. MaxScore]
    BY <2>2 DEF LifeInv
  <2>4. \A p \in Sampled : developed[p] \in Nat /\ live[p] \in Nat
    BY LifecycleAssumption
  <2>5. Sample(expected) /\ Sample(actual) /\ DOMAIN actual = DOMAIN expected
    BY <2>3, <2>4, CountedByScore
  <2> HIDE DEF expected, actual
  <2>6. Monitored(result')
    BY <2>1, <2>5 DEF Monitored
  <2> QED BY <1>1, <2>2, <2>6 DEF LifeInv, Monitored
<1>9. CASE UNCHANGED vars
  <2>1. phase' = phase /\ card' = card /\ result' = result
    BY <1>9 DEF vars
  <2>2. ReasonsGiven(result)' = ReasonsGiven(result)
    BY <2>1 DEF ReasonsGiven
  <2> QED BY <1>1, <2>1, <2>2 DEF LifeInv
<1> QED BY <1>3, <1>4, <1>5, <1>6, <1>7, <1>8, <1>9 DEF Next

(* LifeInv is an invariant.                                                 *)
LEMMA LifeKept == Spec => []LifeInv
<1>1. Init => LifeInv
  BY LifeStarts
<1>2. LifeInv /\ [Next]_vars => LifeInv'
  BY LifeGoesOn
<1> QED BY <1>1, <1>2, PTL DEF Spec

(* Whatever the sample, the grid and the appetite: the recommended cut-off  *)
(* approves, overall and at the margin, within the appetite, no lower one   *)
(* of the grid does, and the referral band ends on the scale below it       *)
(* (_recommend).                                                            *)
THEOREM AppetiteIsKept == Spec => []RecommendedWithinAppetite
<1>1. LifeInv => RecommendedWithinAppetite
  <2> SUFFICES ASSUME LifeInv, phase = "calibrated" PROVE RecommendedWithinAppetite
    BY DEF RecommendedWithinAppetite
  <2> DEFINE population == result.population
             accept == result.accept
             lower == {cutoff \in Lowest(population) .. Highest(population) :
                         /\ (cutoff - Lowest(population)) % GridStep = 0
                         /\ accept = -1 \/ cutoff < accept}
  <2>1. Scores(population) /\ result = Calibration(population)
    BY DEF LifeInv
  <2>2. /\ accept = Recommend(population).cutoff
        /\ result.refer = IF accept = -1 THEN -1 ELSE ReferFloor(accept)
    BY <2>1 DEF Calibration
  <2>3. RecommendedWithinAppetite <=>
          /\ accept # -1 => Suits(population, accept, 1)
          /\ \A cutoff \in lower : ~Suits(population, cutoff, -1)
          /\ accept # -1 => result.refer \in MinScore .. accept
    BY DEF RecommendedWithinAppetite, Suits
  <2> HIDE DEF population, accept
  <2>4. /\ accept # -1 => accept \in Grid(population) /\ accept \in Nat /\ Suits(population, accept, 1)
        /\ \A cutoff \in Grid(population) : accept = -1 \/ cutoff < accept => ~Suits(population, cutoff, -1)
    BY <2>1, <2>2, RecommendedSuits
  <2>5. ASSUME accept # -1 PROVE result.refer \in MinScore .. accept
    <3>1. accept \in Nat /\ accept >= MinScore
      <4>1. Lowest(population) \in MinScore .. MaxScore
        BY <2>1, ScoreRange
      <4>2. accept \in Nat /\ accept \in Lowest(population) .. Highest(population)
        BY <2>4, <2>5 DEF Grid
      <4> QED BY <4>1, <4>2, ScorecardAssumption
    <3>2. ReferralWidth \in Nat /\ LowestScore = MinScore /\ MinScore \in Nat
      BY CutoffsAssumption, LifecycleAssumption, ScorecardAssumption
    <3> DEFINE below == accept - ReferralWidth
    <3>3. below \in Int /\ below <= accept /\ LowestScore \in Int
      BY <3>1, <3>2
    <3>4. ReferFloor(accept) = Max({below, LowestScore})
      BY DEF ReferFloor
    <3> HIDE DEF below
    <3>5. ReferFloor(accept) = IF below >= LowestScore THEN below ELSE LowestScore
      BY <3>3, <3>4, OfTwo
    <3> QED BY <2>2, <2>5, <3>1, <3>2, <3>3, <3>5
  <2>6. \A cutoff \in lower : cutoff \in Grid(population) /\ (accept = -1 \/ cutoff < accept)
    BY DEF Grid
  <2> HIDE DEF lower
  <2> QED BY <2>3, <2>4, <2>5, <2>6
<1> QED BY <1>1, LifeKept, PTL

-----------------------------------------------------------------------------
(* Reading drift (Monitoring).                                              *)

(* A sorted set leaves nobody out.                                          *)
LEMMA AscendingCovers ==
  ASSUME NEW S \in SUBSET Int, IsFiniteSet(S), NEW v \in S
  PROVE  \E i \in 1 .. Cardinality(S) : Ascending(S)[i] = v
<1> DEFINE Place(u) == Cardinality({w \in S : w < u})
           i == Place(v) + 1
           u == Ascending(S)[i]
<1>1. /\ Cardinality(S) \in Nat /\ Place(v) \in 0 .. Cardinality(S) - 1
      /\ \A x \in S, y \in S : x < y => Place(x) < Place(y)
      /\ \A j \in 1 .. Cardinality(S) : Ascending(S)[j] \in S /\ Place(Ascending(S)[j]) = j - 1
  BY NumbersInOrder
<1> HIDE DEF Place
<1>2. i \in 1 .. Cardinality(S) /\ i - 1 = Place(v)
  BY <1>1
<1> HIDE DEF i
<1>3. u \in S /\ Place(u) = Place(v)
  BY <1>1, <1>2
<1> HIDE DEF u
<1>4. u \in Int /\ v \in Int /\ ~(u < v) /\ ~(v < u)
  BY <1>1, <1>3
<1>5. u = v
  BY <1>4
<1> QED BY <1>2, <1>5 DEF u

(* Equal proportions add up to equal proportions.                           *)
LEMMA TotalScales ==
  ASSUME NEW S, IsFiniteSet(S), NEW f, NEW h, NEW m \in Int, NEW n \in Int,
         \A x \in S : f[x] \in Int /\ h[x] \in Int /\ f[x] * m = h[x] * n
  PROVE  Total(f, S) * m = Total(h, S) * n
<1> DEFINE Scaled(T) == Total(f, T) * m = Total(h, T) * n
           C == {T \in SUBSET S : ~Scaled(T)}
<1>1. C = {}
  <2>1. SUFFICES ASSUME C # {} PROVE FALSE
    OBVIOUS
  <2>2. PICK T \in C : IsFiniteSet(T) /\ \A x \in T : T \ {x} \notin C
    <3>1. C \in SUBSET (SUBSET S)
      OBVIOUS
    <3> HIDE DEF C
    <3> QED BY <2>1, <3>1, SmallestSet
  <2>3. T \subseteq S /\ ~Scaled(T)
    OBVIOUS
  <2>4. \A x \in T : f[x] \in Int /\ h[x] \in Int /\ f[x] * m = h[x] * n
    BY <2>3
  <2>5. CASE T = {}
    <3>1. Total(f, T) = 0 /\ Total(h, T) = 0
      BY <2>2, <2>4, <2>5, TotalUnfolds
    <3> QED BY <2>3, <3>1
  <2>6. CASE T # {}
    <3>1. PICK x \in T : TRUE
      BY <2>6
    <3>2. /\ Total(f, T \ {x}) \in Int /\ Total(f, T) = f[x] + Total(f, T \ {x})
          /\ Total(h, T \ {x}) \in Int /\ Total(h, T) = h[x] + Total(h, T \ {x})
      BY <2>2, <2>4, TotalWithout
    <3>3. Scaled(T \ {x})
      BY <2>2, <2>3
    <3> DEFINE p == Total(f, T \ {x})
               q == Total(h, T \ {x})
    <3>4. p \in Int /\ q \in Int /\ p * m = q * n
      BY <3>2, <3>3
    <3>5. Total(f, T) = f[x] + p /\ Total(h, T) = h[x] + q
      BY <3>2
    <3> HIDE DEF p, q
    <3>6. (f[x] + p) * m = f[x] * m + p * m /\ (h[x] + q) * n = h[x] * n + q * n
      BY <2>4, <3>4
    <3>7. (f[x] + p) * m = (h[x] + q) * n
      BY <2>4, <3>4, <3>6
    <3> QED BY <2>3, <3>5, <3>7
  <2> QED BY <2>5, <2>6
<1>2. S \notin C
  BY <1>1
<1> QED BY <1>2

\* The bands of an index, as stability_index makes them.
BandsOf(expected, actual) == Min({MaxBands, Supportable(expected, actual)})
CutsOf(expected, actual) == QuantileEdges(expected, BandsOf(expected, actual))
BandOf(s, cuts) == 1 + Cardinality({i \in DOMAIN cuts : s > cuts[i]})
ExpectedShares(expected, actual) ==
  Shares(Distribution(expected, CutsOf(expected, actual)), Size(expected), Size(actual))
ActualShares(expected, actual) ==
  Shares(Distribution(actual, CutsOf(expected, actual)), Size(actual), Size(expected))
Unit(expected, actual) == 2 * Size(expected) * Size(actual)
LowIndex(expected, actual) ==
  LET e == ExpectedShares(expected, actual)
      a == ActualShares(expected, actual)
  IN Size([b \in DOMAIN e |-> AtLeastIndex(a[b], e[b], Unit(expected, actual))])
HighIndex(expected, actual) ==
  LET e == ExpectedShares(expected, actual)
      a == ActualShares(expected, actual)
  IN Size([b \in DOMAIN e |-> AtMostIndex(a[b], e[b], Unit(expected, actual))])

(* What samples that can be read are like.                                  *)
LEMMA Readable ==
  ASSUME NEW expected, NEW actual, Sample(expected), Sample(actual)
  PROVE  /\ Size(expected) \in Nat /\ Size(actual) \in Nat
         /\ StabilityStatuses(expected, actual) =
              IF Supportable(expected, actual) >= MinBands
              THEN Statuses(LowIndex(expected, actual), HighIndex(expected, actual))
              ELSE {"UNKNOWN"}
         /\ Supportable(expected, actual) >= MinBands =>
              /\ Size(expected) > 0 /\ Size(actual) > 0
              /\ BandsOf(expected, actual) \in Nat /\ BandsOf(expected, actual) >= 2
<1> DEFINE n == Size(expected)
           m == Size(actual)
           least == Min({n, m})
           k == Supportable(expected, actual)
           bands == BandsOf(expected, actual)
<1>1. n \in Nat /\ m \in Nat
  BY TotalGrows DEF Size, Sample
<1>2. StabilityStatuses(expected, actual) =
        IF n = 0 \/ m = 0 \/ bands < MinBands THEN {"UNKNOWN"}
        ELSE Statuses(LowIndex(expected, actual), HighIndex(expected, actual))
  BY DEF StabilityStatuses, LowIndex, HighIndex, ExpectedShares, ActualShares, CutsOf, BandsOf, Unit
<1>3. k = least \div MinPerBand
  BY DEF Supportable
<1>4. bands = Min({MaxBands, k})
  BY DEF BandsOf
<1> HIDE DEF n, m, k, bands
<1>5. least = IF n <= m THEN n ELSE m
  BY <1>1, OfTwo
<1>6. least \in Nat
  BY <1>1, <1>5
<1> HIDE DEF least
<1>7. k \in Nat /\ MinPerBand * k <= least
  BY <1>3, <1>6, Division, MonitoringAssumption
<1>8. /\ MinBands \in Nat /\ MinBands >= 2 /\ MaxBands \in Nat /\ MinBands <= MaxBands
      /\ MinPerBand \in Nat \ {0}
  BY MonitoringAssumption
<1>9. bands = IF MaxBands <= k THEN MaxBands ELSE k
  BY <1>4, <1>7, <1>8, OfTwo
<1>10. k >= MinBands <=> bands >= MinBands
  BY <1>7, <1>8, <1>9
<1>11. ASSUME k >= MinBands PROVE n > 0 /\ m > 0 /\ bands \in Nat /\ bands >= 2
  <2>1. k * 1 <= k * MinPerBand
    BY <1>7, <1>8, Monotone
  <2>2. least > 0
    BY <1>6, <1>7, <1>8, <1>11, <2>1
  <2> QED BY <1>1, <1>5, <1>7, <1>8, <1>9, <1>11, <2>2
<1>12. ~(k >= MinBands) => bands < MinBands
  BY <1>7, <1>8, <1>9
<1> QED BY <1>1, <1>2, <1>7, <1>8, <1>9, <1>10, <1>11, <1>12 DEF n, m, k, bands

(* The edges of the bands are scores of the reference, in order; the last   *)
(* of them leaves less than half of the reference above it.                 *)
LEMMA EdgesOfBands ==
  ASSUME NEW expected, Sample(expected), Size(expected) > 0, NEW bands \in Nat, bands >= 2
  PROVE  LET cuts == QuantileEdges(expected, bands)
         IN /\ Ascends(cuts)
            /\ \A i \in 1 .. Len(cuts) : cuts[i] \in DOMAIN expected /\ expected[cuts[i]] > 0
            /\ \E i \in 1 .. Len(cuts) :
                 2 * Total(expected, {s \in DOMAIN expected : s > cuts[i]}) <= Size(expected)
<1> DEFINE n == Size(expected)
           D == DOMAIN expected
           Place(k) == Min({(n * k) \div bands, n - 1})
           Edge(k) == Nth(expected, Place(k))
           E == {Edge(k) : k \in 1 .. bands - 1}
           cuts == QuantileEdges(expected, bands)
<1>1. n \in Nat /\ n >= 1 /\ D \in SUBSET Int /\ IsFiniteSet(D) /\ \A s \in D : expected[s] \in Nat
  BY TotalGrows DEF Size, Sample
<1>2. cuts = Ascending(E)
  BY DEF QuantileEdges
<1> HIDE DEF n
<1>3. ASSUME NEW k \in 1 .. bands - 1
      PROVE  /\ (n * k) \div bands \in Nat
             /\ n * k < bands * ((n * k) \div bands) + bands
             /\ Place(k) = (n * k) \div bands /\ Place(k) < n
  <2> DEFINE p == (n * k) \div bands
  <2>1. k \in Nat /\ k + 1 <= bands /\ n * k \in Nat
    BY <1>1
  <2>2. p \in Nat /\ bands * p <= n * k /\ n * k < bands * p + bands
    BY <2>1, Division
  <2> HIDE DEF p
  <2>3. p < n
    <3>1. n * (k + 1) <= n * bands /\ n * (k + 1) = n * k + n
      BY <1>1, <2>1, Monotone
    <3>2. bands * n = n * bands /\ bands * n \in Int /\ bands * p \in Int
      BY <1>1, <2>2
    <3>3. bands * p < bands * n
      <4> DEFINE x == n * k
                 y == bands * p
                 z == bands * n
      <4>1. x \in Int /\ y \in Int /\ z \in Int /\ y <= x /\ x + n <= z
        BY <2>1, <2>2, <3>1, <3>2
      <4> HIDE DEF x, y, z
      <4>2. y < z
        BY <1>1, <4>1
      <4> QED BY <4>2 DEF y, z
    <3> QED BY <1>1, <2>2, <3>3, Cancel
  <2>4. Min({p, n - 1}) = IF p <= n - 1 THEN p ELSE n - 1
    BY <1>1, <2>2, OfTwo
  <2>5. Place(k) = p
    BY <1>1, <2>2, <2>3, <2>4 DEF p
  <2> HIDE DEF Place
  <2> QED BY <2>2, <2>3, <2>5 DEF p
<1>4. ASSUME NEW k \in 1 .. bands - 1
      PROVE  LET below == Total(expected, {w \in D : w < Edge(k)})
             IN /\ Edge(k) \in D /\ below \in Nat /\ below <= Place(k)
                /\ Place(k) < below + expected[Edge(k)]
  <2> DEFINE p == Place(k)
  <2>1. p \in Nat /\ p < Size(expected)
    BY <1>3 DEF n
  <2> HIDE DEF p
  <2>2. LET below == Total(expected, {w \in D : w < Nth(expected, p)})
        IN /\ Nth(expected, p) \in D /\ below \in Nat /\ below <= p
           /\ p < below + expected[Nth(expected, p)]
    BY <2>1, NthIsThere
  <2> QED BY <2>2 DEF p
<1> HIDE DEF Place
<1>5. ASSUME NEW k \in 1 .. bands - 1 PROVE Edge(k) \in D /\ expected[Edge(k)] > 0
  <2> DEFINE v == Edge(k)
             below == Total(expected, {w \in D : w < v})
  <2>1. v \in D /\ below \in Nat /\ below <= Place(k) /\ Place(k) < below + expected[v]
    BY <1>4
  <2>2. Place(k) \in Nat
    BY <1>3
  <2> HIDE DEF v, below
  <2>3. expected[v] \in Nat
    BY <1>1, <2>1
  <2>4. expected[v] > 0
    BY <2>1, <2>2, <2>3
  <2> QED BY <2>1, <2>4 DEF v
<1>6. E \in SUBSET D /\ IsFiniteSet(E) /\ E \in SUBSET Int
  <2>1. E \subseteq D
    BY <1>5
  <2> HIDE DEF E
  <2>2. IsFiniteSet(E)
    BY <1>1, <2>1, FS_Subset
  <2> QED BY <1>1, <2>1, <2>2
<1>7. ASSUME NEW v \in E PROVE v \in D /\ expected[v] > 0
  BY <1>5
<1> DEFINE top == Edge(bands - 1)
           last == bands - 1
<1>8. top \in E /\ last \in 1 .. bands - 1
  OBVIOUS
<1>9. 2 * Total(expected, {s \in D : s > top}) <= n
  <2> DEFINE p == Place(last)
             Below == {w \in D : w < top}
             Above == {w \in D : w > top}
             AtTop == {top}
  <2>1. /\ top \in D /\ Total(expected, Below) \in Nat
        /\ p < Total(expected, Below) + expected[top] /\ p \in Nat
        /\ n * last < bands * p + bands
    BY <1>3, <1>4, <1>8
  <2> HIDE DEF top, p
  <2>2. /\ Total(expected, Above) \in Int
        /\ n = Total(expected, D \ Above) + Total(expected, Above) /\ Total(expected, D \ Above) \in Int
    <3>1. Above \subseteq D
      OBVIOUS
    <3> HIDE DEF Above
    <3>2. \A x \in D : expected[x] \in Int
      BY <1>1
    <3>3. /\ Total(expected, Above) \in Int /\ Total(expected, D \ Above) \in Int
          /\ Total(expected, D) = Total(expected, Above) + Total(expected, D \ Above)
      BY <1>1, <3>1, <3>2, TotalSplits
    <3> QED BY <3>3 DEF n, Size
  <2>3. Total(expected, D \ Above) = expected[top] + Total(expected, Below)
    <3>1. (D \ Above) \ {top} = Below /\ top \in D \ Above
      BY <1>1, <2>1
    <3>2. IsFiniteSet(D \ Above) /\ \A x \in D \ Above : expected[x] \in Int
      BY <1>1, FS_Subset
    <3>3. Total(expected, D \ Above) = expected[top] + Total(expected, (D \ Above) \ {top})
      BY <3>1, <3>2, TotalWithout
    <3> QED BY <3>1, <3>3
  <2> DEFINE A == Total(expected, Above)
  <2>4. A \in Int /\ A + p + 1 <= n
    BY <1>1, <2>1, <2>2, <2>3
  <2> HIDE DEF A
  <2>5. 2 * (p + 1) > n
    <3>1. SUFFICES ASSUME 2 * (p + 1) <= n PROVE FALSE
      BY <1>1, <2>1
    <3> DEFINE r == n - (p + 1)
    <3>2. r \in Nat /\ n <= r * 2
      BY <1>1, <2>1, <3>1
    <3>3. r * 2 <= r * bands
      BY <3>2, Monotone
    <3>4. r * bands = n * bands - bands * (p + 1) /\ bands * (p + 1) = bands * p + bands
      BY <1>1, <2>1
    <3>5. n * last = n * bands - n /\ n * bands \in Int /\ bands * p \in Int
      BY <1>1, <2>1
    <3> HIDE DEF r, last
    <3> QED BY <1>1, <2>1, <3>2, <3>3, <3>4, <3>5
  <2>6. 2 * A <= n
    BY <1>1, <2>1, <2>4, <2>5
  <2> QED BY <2>6 DEF A
<1> HIDE DEF E, top, last, cuts
<1>10. /\ Ascending(E) \in Seq(E) /\ Len(Ascending(E)) = Cardinality(E) /\ Cardinality(E) \in Nat
       /\ \A i \in 1 .. Cardinality(E), j \in 1 .. Cardinality(E) :
            i < j => Ascending(E)[i] < Ascending(E)[j]
  BY <1>6, AscendingAscends
<1>11. Ascends(cuts)
  <2>1. E \subseteq Int
    BY <1>6
  <2>2. Ascending(E) \in Seq(Int)
    BY <1>10, <2>1, SeqMonotonic
  <2> QED BY <1>2, <1>10, <2>2 DEF Ascends
<1>12. \A i \in 1 .. Len(cuts) : cuts[i] \in E
  BY <1>2, <1>10
<1>13. \E i \in 1 .. Len(cuts) : cuts[i] = top
  BY <1>2, <1>6, <1>8, <1>10, AscendingCovers
<1>14. PICK i \in 1 .. Len(cuts) : cuts[i] = top
  BY <1>13
<1>15. 2 * Total(expected, {s \in D : s > cuts[i]}) <= n
  BY <1>9, <1>14
<1> QED BY <1>7, <1>11, <1>12, <1>15 DEF cuts, n

(* The bands of an index: shares are positive; equal proportions give equal *)
(* shares.                                                                  *)
LEMMA SharesOfBands ==
  ASSUME NEW expected, NEW actual, Sample(expected), Sample(actual),
         DOMAIN actual = DOMAIN expected, Supportable(expected, actual) >= MinBands
  PROVE  LET cuts == CutsOf(expected, actual)
             e == ExpectedShares(expected, actual)
             a == ActualShares(expected, actual)
             In(b) == {s \in DOMAIN expected : BandOf(s, cuts) = b}
             n == Size(expected)
             m == Size(actual)
         IN /\ Len(cuts) \in Nat /\ DOMAIN e = 1 .. Len(cuts) + 1
            /\ \A b \in DOMAIN e :
                 /\ Total(expected, In(b)) \in Nat /\ Total(actual, In(b)) \in Nat
                 /\ e[b] \in Nat \ {0} /\ a[b] \in Nat \ {0}
                 /\ e[b] = Max({2 * Total(expected, In(b)) * m, Max({n, m})})
                 /\ a[b] = Max({2 * Total(actual, In(b)) * n, Max({n, m})})
<1> DEFINE cuts == CutsOf(expected, actual)
           e == ExpectedShares(expected, actual)
           a == ActualShares(expected, actual)
           D == DOMAIN expected
           In(b) == {s \in D : BandOf(s, cuts) = b}
           n == Size(expected)
           m == Size(actual)
           bands == BandsOf(expected, actual)
           E(b) == Total(expected, In(b))
           A(b) == Total(actual, In(b))
           B == 1 .. Len(cuts) + 1
<1>1. n \in Nat \ {0} /\ m \in Nat \ {0} /\ bands \in Nat /\ bands >= 2
  BY Readable
<1>2. Len(cuts) \in Nat
  <2>1. Ascends(QuantileEdges(expected, bands))
    <3> HIDE DEF bands
    <3> QED BY <1>1, EdgesOfBands
  <2> QED BY <2>1 DEF CutsOf, Ascends
<1>3. Distribution(expected, cuts) = [b \in B |-> E(b)] /\ Distribution(actual, cuts) = [b \in B |-> A(b)]
  BY DEF Distribution, BandOf
<1>4. \A b : E(b) \in Nat /\ A(b) \in Nat
  <2> TAKE b
  <2>1. In(b) \subseteq D /\ IsFiniteSet(D) /\ \A s \in D : expected[s] \in Nat /\ actual[s] \in Nat
    BY DEF Sample
  <2> HIDE DEF In
  <2>2. IsFiniteSet(In(b)) /\ \A s \in In(b) : expected[s] \in Nat /\ actual[s] \in Nat
    BY <2>1, FS_Subset
  <2> QED BY <2>2, TotalGrows
<1> HIDE DEF E, A, B
<1>5. /\ e = [b \in B |-> Max({2 * E(b) * m, Max({n, m})})]
      /\ a = [b \in B |-> Max({2 * A(b) * n, Max({m, n})})]
  BY <1>3 DEF ExpectedShares, ActualShares, Shares, FloorOf
<1>6. {m, n} = {n, m}
  OBVIOUS
<1> HIDE DEF e, a, n, m, In, cuts
<1>7. Max({n, m}) = (IF n >= m THEN n ELSE m) /\ Max({n, m}) \in Nat \ {0}
  BY <1>1, OfTwo
<1> DEFINE floor == Max({n, m})
<1> HIDE DEF floor
<1>8. ASSUME NEW x \in Nat PROVE Max({x, floor}) \in Nat \ {0}
  <2>1. floor \in Nat \ {0}
    BY <1>7 DEF floor
  <2>2. Max({x, floor}) = IF x >= floor THEN x ELSE floor
    BY <2>1, OfTwo
  <2> QED BY <2>1, <2>2
<1>9. \A b \in B : /\ e[b] = Max({2 * E(b) * m, floor})
                   /\ a[b] = Max({2 * A(b) * n, floor})
  BY <1>5, <1>6 DEF floor
<1>10. \A b : 2 * E(b) * m \in Nat /\ 2 * A(b) * n \in Nat
  <2> TAKE b
  <2>1. E(b) * m \in Nat /\ A(b) * n \in Nat /\ E(b) \in Nat /\ A(b) \in Nat
    BY <1>1, <1>4
  <2>2. 2 * E(b) * m = 2 * (E(b) * m) /\ 2 * A(b) * n = 2 * (A(b) * n)
    BY <1>1, <2>1
  <2> QED BY <2>1, <2>2
<1>11. \A b \in B : e[b] \in Nat \ {0} /\ a[b] \in Nat \ {0}
  BY <1>8, <1>9, <1>10
<1>12. DOMAIN e = B
  BY <1>5
<1> QED
  <2>1. Len(cuts) \in Nat /\ DOMAIN e = 1 .. Len(cuts) + 1
    BY <1>2, <1>12 DEF B
  <2>2. \A b \in DOMAIN e :
          /\ Total(expected, In(b)) \in Nat /\ Total(actual, In(b)) \in Nat
          /\ e[b] \in Nat \ {0} /\ a[b] \in Nat \ {0}
          /\ e[b] = Max({2 * Total(expected, In(b)) * m, Max({n, m})})
          /\ a[b] = Max({2 * Total(actual, In(b)) * n, Max({n, m})})
    BY <1>4, <1>9, <1>11, <1>12 DEF E, A, floor
  <2> QED BY <2>1, <2>2, Zenon DEF e, a, cuts, In, n, m

(* Where there is no difference, its square is no distance.                 *)
LEMMA NoDistance ==
  ASSUME NEW d \in Int, d <= 0, d >= 0, NEW y \in Nat \ {0}
  PROVE  -((-1000 * d * d) \div y) = 0
<1> DEFINE z == -1000 * d * d
           u == z \div y
<1>1. d * d = 0
  OBVIOUS
<1>2. z \in Int /\ z <= 0 /\ z >= 0
  <2> DEFINE s == d * d
  <2>1. s \in Int /\ s <= 0 /\ s >= 0
    BY <1>1
  <2>2. z = -(1000 * d * d) /\ 1000 * d * d = 1000 * s
    OBVIOUS
  <2> HIDE DEF s, z
  <2> QED BY <2>1, <2>2
<1> HIDE DEF z
<1>3. u \in Int /\ u <= 0 /\ u >= 0
  <2>1. z = 0
    BY <1>2
  <2> QED BY <2>1
<1> HIDE DEF u
<1>4. -u = 0
  BY <1>3
<1> QED BY <1>4 DEF u, z

(* Samples in the same proportions read STABLE.                             *)
LEMMA SameReadsStable ==
  ASSUME NEW expected, NEW actual, Sample(expected), Sample(actual),
         DOMAIN actual = DOMAIN expected, Supportable(expected, actual) >= MinBands,
         \A s \in DOMAIN expected : expected[s] * Size(actual) = actual[s] * Size(expected)
  PROVE  StabilityStatuses(expected, actual) \subseteq {"STABLE"}
<1> DEFINE cuts == CutsOf(expected, actual)
           e == ExpectedShares(expected, actual)
           a == ActualShares(expected, actual)
           In(b) == {s \in DOMAIN expected : BandOf(s, cuts) = b}
           n == Size(expected)
           m == Size(actual)
           unit == Unit(expected, actual)
           index == [b \in DOMAIN e |-> AtMostIndex(a[b], e[b], unit)]
<1>1. n \in Nat \ {0} /\ m \in Nat \ {0}
  BY Readable
<1>2. /\ Len(cuts) \in Nat /\ DOMAIN e = 1 .. Len(cuts) + 1
      /\ \A b \in DOMAIN e :
           /\ Total(expected, In(b)) \in Nat /\ Total(actual, In(b)) \in Nat
           /\ e[b] \in Nat \ {0} /\ a[b] \in Nat \ {0}
           /\ e[b] = Max({2 * Total(expected, In(b)) * m, Max({n, m})})
           /\ a[b] = Max({2 * Total(actual, In(b)) * n, Max({n, m})})
  BY SharesOfBands
<1>3. unit \in Nat \ {0}
  <2>1. n * m \in Nat \ {0} /\ 2 * n * m = 2 * (n * m)
    <3>1. n * 1 <= n * m
      BY <1>1, Monotone
    <3> QED BY <1>1, <3>1
  <2> QED BY <2>1 DEF Unit
<1>4. \A b : Total(expected, In(b)) * m = Total(actual, In(b)) * n
  <2> TAKE b
  <2>1. /\ In(b) \subseteq DOMAIN expected /\ IsFiniteSet(DOMAIN expected)
        /\ \A s \in DOMAIN expected : expected[s] \in Nat /\ actual[s] \in Nat
    BY DEF Sample
  <2> HIDE DEF In
  <2>2. IsFiniteSet(In(b))
    BY <2>1, FS_Subset
  <2>3. \A s \in In(b) : expected[s] \in Int /\ actual[s] \in Int /\ expected[s] * m = actual[s] * n
    BY <2>1
  <2> HIDE DEF n, m
  <2> QED BY <1>1, <2>2, <2>3, TotalScales
<1> HIDE DEF cuts, e, a, In, n, m, unit
<1>5. ASSUME NEW b \in DOMAIN e PROVE a[b] = e[b]
  <2> DEFINE p == Total(expected, In(b))
             q == Total(actual, In(b))
  <2>1. p \in Nat /\ q \in Nat /\ p * m = q * n
    BY <1>2, <1>4
  <2>2. 2 * p * m = 2 * (p * m) /\ 2 * q * n = 2 * (q * n)
    BY <1>1, <2>1
  <2>3. 2 * p * m = 2 * q * n
    BY <2>1, <2>2
  <2> QED BY <1>2, <2>3
<1>6. ASSUME NEW b \in DOMAIN e PROVE index[b] = 0
  <2> DEFINE x == e[b]
  <2>1. x \in Nat \ {0} /\ a[b] = x
    BY <1>2, <1>5
  <2>2. index[b] = AtMostIndex(x, x, unit)
    BY <2>1
  <2> HIDE DEF x
  <2>3. Min({x, x}) = x
    BY <2>1, OfTwo
  <2>4. x * unit \in Nat \ {0}
    <3>1. x * 1 <= x * unit
      BY <1>3, <2>1, Monotone
    <3> QED BY <1>3, <2>1, <3>1
  <2> DEFINE d == x - x
             y == x * unit
  <2>5. AtMostIndex(x, x, unit) = -((-1000 * d * d) \div y)
    BY <2>3 DEF AtMostIndex
  <2>6. d \in Int /\ d <= 0 /\ d >= 0 /\ y \in Nat \ {0}
    BY <2>1, <2>4
  <2> HIDE DEF d, y
  <2> QED BY <2>2, <2>5, <2>6, NoDistance
<1>7. HighIndex(expected, actual) = Total(index, DOMAIN e)
  BY DEF HighIndex, Size, e, a, unit
<1> HIDE DEF index
<1>8. Total(index, DOMAIN e) = 0
  <2>1. IsFiniteSet(1 .. Len(cuts) + 1)
    BY <1>2, FS_Interval
  <2> QED BY <1>2, <1>6, <2>1, TotalNeeds
<1>9. StabilityStatuses(expected, actual) = Statuses(LowIndex(expected, actual), 0)
  BY <1>7, <1>8, Readable
<1> QED BY <1>9 DEF Statuses, PsiWarning, PsiBreach

(* Business above the whole reference reads BREACH.                         *)
LEMMA AboveReadsBreach ==
  ASSUME NEW expected, NEW actual, Sample(expected), Sample(actual),
         DOMAIN actual = DOMAIN expected, Supportable(expected, actual) >= MinBands,
         \A s \in DOMAIN expected, u \in DOMAIN expected :
           actual[s] > 0 /\ expected[u] > 0 => s > u
  PROVE  StabilityStatuses(expected, actual) \subseteq {"BREACH"}
<1> DEFINE cuts == CutsOf(expected, actual)
           e == ExpectedShares(expected, actual)
           a == ActualShares(expected, actual)
           D == DOMAIN expected
           In(b) == {s \in D : BandOf(s, cuts) = b}
           n == Size(expected)
           m == Size(actual)
           unit == Unit(expected, actual)
           index == [b \in DOMAIN e |-> AtLeastIndex(a[b], e[b], unit)]
           t == Len(cuts) + 1
           N == n * m
<1>1. n \in Nat \ {0} /\ m \in Nat \ {0}
  BY Readable
<1>2. /\ Len(cuts) \in Nat /\ DOMAIN e = 1 .. Len(cuts) + 1
      /\ \A b \in DOMAIN e :
           /\ Total(expected, In(b)) \in Nat /\ Total(actual, In(b)) \in Nat
           /\ e[b] \in Nat \ {0} /\ a[b] \in Nat \ {0}
           /\ e[b] = Max({2 * Total(expected, In(b)) * m, Max({n, m})})
           /\ a[b] = Max({2 * Total(actual, In(b)) * n, Max({n, m})})
  BY SharesOfBands
<1>3. /\ Ascends(cuts)
      /\ \A i \in 1 .. Len(cuts) : cuts[i] \in D /\ expected[cuts[i]] > 0
      /\ \E i \in 1 .. Len(cuts) : 2 * Total(expected, {s \in D : s > cuts[i]}) <= n
  <2> DEFINE bands == BandsOf(expected, actual)
  <2>1. bands \in Nat /\ bands >= 2 /\ Size(expected) > 0
    BY Readable
  <2> HIDE DEF bands
  <2>2. LET edge == QuantileEdges(expected, bands)
        IN /\ Ascends(edge)
           /\ \A i \in 1 .. Len(edge) : edge[i] \in DOMAIN expected /\ expected[edge[i]] > 0
           /\ \E i \in 1 .. Len(edge) :
                2 * Total(expected, {s \in DOMAIN expected : s > edge[i]}) <= Size(expected)
    BY <2>1, EdgesOfBands
  <2> QED BY <2>2 DEF CutsOf, bands
<1>4. /\ D \in SUBSET Int /\ IsFiniteSet(D) /\ \A s \in D : expected[s] \in Nat /\ actual[s] \in Nat
      /\ n = Total(expected, D) /\ m = Total(actual, D)
  BY DEF Sample, Size
<1>5. /\ N \in Nat \ {0} /\ n <= N /\ m <= N /\ unit = 2 * N /\ unit \in Nat \ {0}
  <2>1. n * 1 <= n * m /\ m * 1 <= m * n /\ n * m = m * n /\ n * m \in Nat
    BY <1>1, Monotone
  <2>2. 2 * n * m = 2 * (n * m)
    BY <1>1
  <2> QED BY <1>1, <2>1, <2>2 DEF Unit
<1> HIDE DEF cuts, e, a, n, m, unit, N
<1>6. DOMAIN cuts = 1 .. Len(cuts) /\ IsFiniteSet(1 .. Len(cuts)) /\ Cardinality(1 .. Len(cuts)) = Len(cuts)
  <2>1. DOMAIN cuts = 1 .. Len(cuts)
    BY <1>3 DEF Ascends
  <2>2. /\ IsFiniteSet(1 .. Len(cuts))
        /\ Cardinality(1 .. Len(cuts)) = IF 1 > Len(cuts) THEN 0 ELSE Len(cuts) - 1 + 1
    BY <1>2, FS_Interval
  <2> QED BY <1>2, <2>1, <2>2
<1>7. ASSUME NEW s \in D
      PROVE  s \in In(t) <=> \A i \in 1 .. Len(cuts) : s > cuts[i]
  <2> DEFINE X == {i \in DOMAIN cuts : s > cuts[i]}
  <2>1. X \subseteq 1 .. Len(cuts)
    BY <1>6
  <2>2. s \in In(t) <=> 1 + Cardinality(X) = Len(cuts) + 1
    BY DEF BandOf
  <2>3. X = 1 .. Len(cuts) <=> \A i \in 1 .. Len(cuts) : s > cuts[i]
    BY <1>6
  <2> HIDE DEF X, In
  <2>4. IsFiniteSet(X) /\ Cardinality(X) \in Nat
    BY <1>6, <2>1, FS_Subset, FS_CardinalityType
  <2>5. Cardinality(X) = Len(cuts) <=> X = 1 .. Len(cuts)
    BY <1>6, <2>1, FS_Subset
  <2> QED BY <1>2, <2>2, <2>3, <2>4, <2>5
<1>8. In(t) \subseteq D
  OBVIOUS
<1> HIDE DEF In
<1>9. Total(actual, In(t)) = m
  <2>1. \A s \in D \ In(t) : actual[s] = 0
    <3> SUFFICES ASSUME NEW s \in D \ In(t), actual[s] # 0 PROVE FALSE
      OBVIOUS
    <3>1. actual[s] > 0
      BY <1>4
    <3>2. \A i \in 1 .. Len(cuts) : s > cuts[i]
      BY <1>3, <3>1
    <3> QED BY <1>7, <3>2
  <2>2. IsFiniteSet(D \ In(t)) /\ \A x \in D : actual[x] \in Int
    BY <1>4, FS_Subset
  <2> DEFINE rest == D \ In(t)
  <2>3. Total(actual, rest) = 0
    <3>1. IsFiniteSet(rest) /\ \A s \in rest : actual[s] = 0
      BY <2>1, <2>2
    <3> HIDE DEF rest
    <3> QED BY <3>1, TotalNeeds
  <2>4. /\ Total(actual, In(t)) \in Int /\ Total(actual, D \ In(t)) \in Int
        /\ Total(actual, D) = Total(actual, In(t)) + Total(actual, D \ In(t))
    BY <1>4, <1>8, <2>2, TotalSplits
  <2> QED BY <1>4, <2>3, <2>4
<1>10. 2 * Total(expected, In(t)) <= n
  <2>1. PICK i \in 1 .. Len(cuts) : 2 * Total(expected, {s \in D : s > cuts[i]}) <= n
    BY <1>3
  <2> DEFINE Above == {s \in D : s > cuts[i]}
  <2>2. In(t) \subseteq Above /\ Above \subseteq D
    BY <1>7, <1>8
  <2>3. 2 * Total(expected, Above) <= n
    BY <2>1
  <2> HIDE DEF Above
  <2>4. IsFiniteSet(Above) /\ \A s \in Above : expected[s] \in Nat
    BY <1>4, <2>2, FS_Subset
  <2>5. /\ Total(expected, Above) \in Nat /\ Total(expected, In(t)) \in Nat
        /\ Total(expected, In(t)) <= Total(expected, Above)
    BY <2>2, <2>4, TotalGrows
  <2> QED BY <1>1, <2>3, <2>5
<1>11. t \in DOMAIN e
  BY <1>2
<1> DEFINE floor == Max({n, m})
<1>12. floor \in Nat /\ floor <= N
  <2>1. Max({n, m}) = IF n >= m THEN n ELSE m
    BY <1>1, OfTwo
  <2> QED BY <1>1, <1>5, <2>1
<1> HIDE DEF floor
<1>13. a[t] = 2 * N
  <2> DEFINE x == 2 * Total(actual, In(t)) * n
  <2>1. x = 2 * N /\ x \in Nat
    <3>1. x = 2 * m * n
      BY <1>9
    <3>2. 2 * m * n = 2 * (n * m)
      BY <1>1
    <3> QED BY <1>5, <3>1, <3>2 DEF N
  <2>2. a[t] = Max({x, floor})
    BY <1>2, <1>11 DEF floor
  <2> HIDE DEF x
  <2>3. Max({x, floor}) = IF x >= floor THEN x ELSE floor
    <3>1. x \in Int /\ floor \in Int
      BY <1>12, <2>1
    <3> QED BY <3>1, OfTwo
  <2> QED BY <1>5, <1>12, <2>1, <2>2, <2>3
<1>14. e[t] \in Nat /\ e[t] <= N
  <2> DEFINE p == Total(expected, In(t))
             x == 2 * p * m
  <2>1. p \in Nat /\ 2 * p <= n
    BY <1>2, <1>10, <1>11
  <2>2. e[t] = Max({x, floor})
    BY <1>2, <1>11 DEF floor
  <2> HIDE DEF p
  <2>3. x \in Nat /\ x <= N
    <3>1. m * (2 * p) <= m * n /\ m * (2 * p) \in Int
      BY <1>1, <2>1, Monotone
    <3>2. x = m * (2 * p) /\ m * n = n * m /\ x >= 0
      BY <1>1, <2>1
    <3> QED BY <3>1, <3>2 DEF N
  <2> HIDE DEF x
  <2>4. Max({x, floor}) = IF x >= floor THEN x ELSE floor
    <3>1. x \in Int /\ floor \in Int
      BY <1>12, <2>3
    <3> QED BY <3>1, OfTwo
  <2> QED BY <1>5, <1>12, <2>2, <2>3, <2>4
<1>15. \A b \in DOMAIN e : index[b] \in Nat
  <2> TAKE b \in DOMAIN e
  <2> DEFINE p == a[b]
             q == e[b]
             d == p - q
             x == 2000 * d * d
             y == (p + q) * unit
  <2>1. p \in Nat \ {0} /\ q \in Nat \ {0}
    BY <1>2
  <2>2. index[b] = x \div y
    BY DEF AtLeastIndex
  <2> HIDE DEF p, q
  <2>3. x \in Nat
    <3>1. d \in Int
      BY <2>1
    <3> HIDE DEF d
    <3>2. d * d \in Nat
      BY <3>1, SMTT(30)
    <3>3. 2000 * d * d = 2000 * (d * d)
      BY <3>1
    <3> QED BY <3>2, <3>3
  <2> HIDE DEF d
  <2>4. y \in Nat \ {0}
    <3> DEFINE z == p + q
    <3>1. z \in Nat \ {0}
      BY <2>1
    <3> HIDE DEF z
    <3>2. z * 1 <= z * unit /\ z * unit \in Int
      BY <1>5, <3>1, Monotone
    <3>3. z * unit \in Nat \ {0}
      BY <3>1, <3>2
    <3> QED BY <3>3 DEF z
  <2> HIDE DEF x, y
  <2> QED BY <2>2, <2>3, <2>4, Division
<1>16. index[t] >= 250
  <2> DEFINE q == e[t]
             d == 2 * N - q
             x == 2000 * d * d
             y == (2 * N + q) * unit
             r == x \div y
  <2>1. q \in Nat /\ q <= N /\ d \in Nat /\ N <= d
    BY <1>5, <1>14
  <2>2. index[t] = r
    BY <1>11, <1>13 DEF AtLeastIndex
  <2> HIDE DEF q
  <2>3. y \in Nat \ {0} /\ y <= 6 * (N * N)
    <3> DEFINE s == 2 * N + q
    <3>1. s \in Nat \ {0} /\ s <= 3 * N
      BY <1>5, <2>1
    <3> HIDE DEF s
    <3>2. unit * s <= unit * (3 * N) /\ s * 1 <= s * unit /\ unit * s = s * unit /\ s * unit \in Int
      BY <1>5, <3>1, Monotone
    <3>3. unit * (3 * N) = 6 * (N * N)
      BY <1>5
    <3>4. s * unit \in Nat \ {0} /\ s * unit <= 6 * (N * N)
      BY <1>5, <3>1, <3>2, <3>3
    <3> QED BY <3>4 DEF s
  <2>4. x \in Nat /\ 2000 * (N * N) <= x
    <3> DEFINE w == 2 * N - q
    <3>1. w \in Nat /\ N <= w
      BY <2>1
    <3> HIDE DEF w
    <3>2. N * N <= N * w /\ w * N <= w * w /\ N * w = w * N /\ w * w \in Int /\ N * N \in Int /\ N * w \in Int
      BY <1>5, <3>1, Monotone
    <3>3. 2000 * w * w = 2000 * (w * w) /\ w * w >= N * N /\ N * N >= 0
      BY <1>5, <3>1, <3>2
    <3>4. 2000 * w * w \in Nat /\ 2000 * (N * N) <= 2000 * w * w
      BY <3>2, <3>3
    <3> QED BY <3>4 DEF w
  <2> HIDE DEF x, y
  <2>5. r \in Nat /\ x < y * r + y
    BY <2>3, <2>4, Division
  <2> HIDE DEF r
  <2>6. y * 250 < y * (r + 1)
    <3>1. N * N \in Nat
      BY <1>5
    <3>2. y * 250 <= x
      BY <2>3, <2>4, <3>1
    <3>3. y * (r + 1) = y * r + y /\ y * r \in Int
      BY <2>3, <2>5
    <3> QED BY <2>3, <2>4, <2>5, <3>2, <3>3
  <2>7. 250 < r + 1
    BY <2>3, <2>5, <2>6, Cancel
  <2> QED BY <2>2, <2>5, <2>7
<1>17. LowIndex(expected, actual) = Total(index, DOMAIN e)
  BY DEF LowIndex, Size, e, a, unit
<1> HIDE DEF index
<1>18. Total(index, DOMAIN e) \in Nat /\ Total(index, DOMAIN e) >= 250
  <2>1. IsFiniteSet(DOMAIN e)
    BY <1>2, FS_Interval
  <2>2. index[t] <= Total(index, DOMAIN e) /\ Total(index, DOMAIN e) \in Nat
    BY <1>11, <1>15, <2>1, TotalCovers
  <2> QED BY <1>11, <1>15, <1>16, <2>2
<1> DEFINE low == LowIndex(expected, actual)
<1>19. low \in Nat /\ ~(low < 100) /\ ~(low < 250)
  BY <1>17, <1>18
<1>20. StabilityStatuses(expected, actual) = Statuses(low, HighIndex(expected, actual))
  BY Readable
<1> HIDE DEF low
<1> QED BY <1>19, <1>20 DEF Statuses, PsiWarning, PsiBreach

(* No status hides another: without outcomes, the report has that of the    *)
(* scores.                                                                  *)
LEMMA OverallIsPsi ==
  ASSUME NEW psi \in {"STABLE", "WARNING", "BREACH", "UNKNOWN"}
  PROVE  OverallStatus(psi) = psi
<1> DEFINE statuses == {psi, "UNKNOWN"}
           All == {"BREACH", "WARNING", "STABLE", "UNKNOWN"}
           Stands(s) == /\ s \in statuses
                        /\ s = "WARNING" => "BREACH" \notin statuses
                        /\ s = "STABLE" => statuses \cap {"BREACH", "WARNING"} = {}
                        /\ s = "UNKNOWN" => statuses = {"UNKNOWN"}
<1>1. OverallStatus(psi) = CHOOSE s \in All : Stands(s)
  BY DEF OverallStatus
<1>2. psi \in All /\ Stands(psi)
  OBVIOUS
<1>3. \A s \in All : Stands(s) => s = psi
  OBVIOUS
<1> HIDE DEF All, Stands
<1> QED BY <1>1, <1>2, <1>3

(* Whatever the samples: business like the development sample reads STABLE, *)
(* business above it BREACH, and what cannot be read UNKNOWN, in the index  *)
(* and in the report (stability_index and report of core/monitoring.py).    *)
THEOREM DriftIsRead == Spec => []DriftReadsTrue
<1>1. LifeInv => DriftReadsTrue
  <2> SUFFICES ASSUME LifeInv, phase = "monitored" PROVE DriftReadsTrue
    BY DEF DriftReadsTrue
  <2> DEFINE expected == result.expected
             actual == result.actual
             psi == result.psi
             readable == Supportable(expected, actual) >= MinBands
  <2>1. /\ Sample(expected) /\ Sample(actual) /\ DOMAIN actual = DOMAIN expected
        /\ psi \in StabilityStatuses(expected, actual) /\ result.overall = OverallStatus(psi)
    BY DEF LifeInv, Monitored
  <2>2. DriftReadsTrue <=>
          /\ psi = "UNKNOWN" <=> ~readable
          /\ result.overall = psi
          /\ readable /\ (\A s \in DOMAIN expected : expected[s] * Size(actual) = actual[s] * Size(expected)) =>
               psi = "STABLE"
          /\ readable /\ (\A s \in DOMAIN expected, u \in DOMAIN expected :
                            actual[s] > 0 /\ expected[u] > 0 => s > u) =>
               psi = "BREACH"
    BY DEF DriftReadsTrue
  <2>3. StabilityStatuses(expected, actual) =
          IF readable THEN Statuses(LowIndex(expected, actual), HighIndex(expected, actual)) ELSE {"UNKNOWN"}
    BY <2>1, Readable
  <2>4. \A low, high : Statuses(low, high) \subseteq {"STABLE", "WARNING", "BREACH"}
    BY DEF Statuses
  <2> HIDE DEF expected, actual, psi
  <2>5. psi = "UNKNOWN" <=> ~readable
    <3>1. CASE readable
      BY <2>1, <2>3, <2>4, <3>1
    <3>2. CASE ~readable
      BY <2>1, <2>3, <3>2
    <3> QED BY <3>1, <3>2
  <2>6. result.overall = psi
    <3>1. psi \in {"STABLE", "WARNING", "BREACH", "UNKNOWN"}
      BY <2>1, <2>3, <2>4
    <3> QED BY <2>1, <3>1, OverallIsPsi
  <2>7. ASSUME readable, \A s \in DOMAIN expected : expected[s] * Size(actual) = actual[s] * Size(expected)
        PROVE  psi = "STABLE"
    BY <2>1, <2>7, SameReadsStable
  <2>8. ASSUME readable, \A s \in DOMAIN expected, u \in DOMAIN expected :
                           actual[s] > 0 /\ expected[u] > 0 => s > u
        PROVE  psi = "BREACH"
    BY <2>1, <2>8, AboveReadsBreach
  <2> QED BY <2>2, <2>5, <2>6, <2>7, <2>8
<1> QED BY <1>1, LifeKept, PTL

-----------------------------------------------------------------------------
(* The tables of the calibration report (Cutoffs).                          *)

(* What is summed up over the images is summed up over what they are of.    *)
LEMMA TotalOfImages ==
  ASSUME NEW S, IsFiniteSet(S), NEW f, NEW g, NEW h,
         \A x \in S : f[x] \in Int /\ h[g[x]] = f[x],
         \A x \in S, y \in S : g[x] = g[y] => x = y
  PROVE  /\ IsFiniteSet({g[x] : x \in S})
         /\ Total(h, {g[x] : x \in S}) = Total(f, S)
<1> DEFINE Image(T) == {g[x] : x \in T}
           Fits(T) == IsFiniteSet(Image(T)) /\ Total(h, Image(T)) = Total(f, T)
           C == {T \in SUBSET S : ~Fits(T)}
<1>1. C = {}
  <2>1. SUFFICES ASSUME C # {} PROVE FALSE
    OBVIOUS
  <2>2. PICK T \in C : IsFiniteSet(T) /\ \A x \in T : T \ {x} \notin C
    <3>1. C \in SUBSET (SUBSET S)
      OBVIOUS
    <3> HIDE DEF C
    <3> QED BY <2>1, <3>1, SmallestSet
  <2>3. T \subseteq S /\ ~Fits(T)
    OBVIOUS
  <2>4. CASE T = {}
    <3>1. Image(T) = {}
      BY <2>4
    <3>2. Total(h, {}) = 0 /\ Total(f, {}) = 0
      BY FS_EmptySet, TotalUnfolds
    <3> QED BY <2>3, <2>4, <3>1, <3>2, FS_EmptySet
  <2>5. CASE T # {}
    <3>1. PICK x \in T : TRUE
      BY <2>5
    <3> DEFINE rest == T \ {x}
               I == Image(rest)
    <3>2. Fits(rest)
      BY <2>2, <2>3
    <3>3. Image(T) = I \cup {g[x]} /\ g[x] \notin I
      BY <2>3, <3>1
    <3>4. \A z \in Image(T) : h[z] \in Int
      BY <2>3
    <3>5. Total(f, T) = f[x] + Total(f, rest)
      <4>1. \A y \in T : f[y] \in Int
        BY <2>3
      <4> QED BY <2>2, <3>1, <4>1, TotalWithout
    <3> DEFINE J == Image(T)
    <3> HIDE DEF I, J, rest, Image
    <3>6. IsFiniteSet(I) /\ Total(h, I) = Total(f, rest)
      BY <3>2 DEF I
    <3>7. IsFiniteSet(J)
      <4>1. J = I \cup {g[x]}
        BY <3>3 DEF J
      <4> QED BY <3>6, <4>1, FS_AddElement
    <3>8. Total(h, J) = h[g[x]] + Total(h, I)
      <4>1. J \ {g[x]} = I /\ g[x] \in J
        BY <3>3 DEF J
      <4>2. \A z \in J : h[z] \in Int
        BY <3>4 DEF J
      <4> QED BY <3>7, <4>1, <4>2, TotalWithout
    <3>9. h[g[x]] = f[x]
      BY <2>3, <3>1
    <3>10. Fits(T)
      BY <3>5, <3>6, <3>7, <3>8, <3>9 DEF J
    <3> QED BY <2>3, <3>10
  <2> QED BY <2>4, <2>5
<1>2. Fits(S)
  BY <1>1
<1> QED BY <1>2

(* Those who reach a score are those who reach a higher one, and those in   *)
(* between.                                                                 *)
LEMMA NumberSplits ==
  ASSUME NEW population, Scores(population), NEW s \in Int, NEW u \in Int, s <= u
  PROVE  /\ Number(population, AtLeast(population, s)) \in Nat
         /\ Number(population, AtLeast(population, u)) \in Nat
         /\ Number(population, Between(population, s, u)) \in Nat
         /\ Number(population, AtLeast(population, s)) =
              Number(population, Between(population, s, u)) + Number(population, AtLeast(population, u))
<1> DEFINE A == AtLeast(population, s)
           H == AtLeast(population, u)
           M == Between(population, s, u)
           D == DOMAIN population.good
           people == People(population)
<1>1. /\ A \in SUBSET D /\ H \in SUBSET D /\ M \in SUBSET D
  BY DEF AtLeast, Between
<1>2. D \subseteq Int
  <2>1. D \subseteq MinScore .. MaxScore
    BY DEF Scores
  <2>2. MinScore .. MaxScore \subseteq Int
    OBVIOUS
  <2> QED BY <2>1, <2>2
<1>3. M \subseteq A /\ A \ M = H
  BY <1>2 DEF AtLeast, Between
<1> HIDE DEF A, H, M
<1>4. /\ IsFiniteSet(A)
      /\ Number(population, A) \in Nat /\ Number(population, H) \in Nat /\ Number(population, M) \in Nat
  BY <1>1, Numbers
<1>5. \A x \in A : people[x] \in Int
  <2>1. \A x \in D : population.good[x] \in Nat /\ population.bad[x] \in Nat
    BY DEF Scores
  <2> QED BY <1>1, <2>1 DEF People
<1> HIDE DEF people
<1>6. Total(people, A) = Total(people, M) + Total(people, A \ M)
  BY <1>3, <1>4, <1>5, TotalSplits
<1> QED BY <1>3, <1>4, <1>6 DEF Number, A, H, M, people

\* The edge after e, and who is in the band from e.
NextEdge(e, cuts) == Min({d \in cuts : d > e})
BandFrom(population, e, cuts) ==
  [from |-> e,
   population |-> Number(population, IF e = Max(cuts) THEN TopBand(population, e)
                                     ELSE Between(population, e, NextEdge(e, cuts)))]

(* The bands from an edge on hold everybody from there on.                  *)
LEMMA BandsFromAnEdge ==
  ASSUME NEW population, Scores(population), NEW cuts \in SUBSET Int, IsFiniteSet(cuts),
         NEW f, \A e \in cuts : f[e] = BandFrom(population, e, cuts).population
  PROVE  /\ \A e \in cuts : f[e] \in Nat
         /\ \A e \in cuts :
              Total(f, {d \in cuts : d >= e}) = Number(population, AtLeast(population, e))
<1> DEFINE From(e) == {d \in cuts : d >= e}
           Over(e) == {d \in cuts : d > e}
           Reach(e) == Number(population, AtLeast(population, e))
           Wrong == {e \in cuts : Total(f, From(e)) # Reach(e)}
<1>1. \A e \in cuts : /\ IsFiniteSet(Over(e)) /\ Over(e) \in SUBSET Int
                      /\ IsFiniteSet(From(e)) /\ From(e) \in SUBSET cuts
  <2> TAKE e \in cuts
  <2>1. Over(e) \subseteq cuts /\ From(e) \subseteq cuts
    OBVIOUS
  <2> HIDE DEF Over, From
  <2>2. IsFiniteSet(Over(e)) /\ IsFiniteSet(From(e))
    BY <2>1, FS_Subset
  <2> QED BY <2>1, <2>2
<1>2. ASSUME NEW e \in cuts
      PROVE  /\ Max(cuts) \in cuts /\ Max(cuts) >= e
             /\ e # Max(cuts) => /\ NextEdge(e, cuts) \in cuts /\ NextEdge(e, cuts) > e
                                 /\ \A d \in Over(e) : NextEdge(e, cuts) <= d
  <2>1. Max(cuts) \in cuts /\ \A y \in cuts : Max(cuts) >= y
    BY Extremes
  <2>2. ASSUME e # Max(cuts)
        PROVE  /\ NextEdge(e, cuts) \in cuts /\ NextEdge(e, cuts) > e
               /\ \A d \in Over(e) : NextEdge(e, cuts) <= d
    <3>1. Over(e) # {}
      <4>1. Max(cuts) > e
        <5> DEFINE top == Max(cuts)
        <5>1. top \in Int /\ e \in Int /\ top >= e /\ top # e
          BY <2>1, <2>2
        <5> HIDE DEF top
        <5>2. top > e
          BY <5>1
        <5> QED BY <5>2 DEF top
      <4> QED BY <2>1, <4>1
    <3>2. NextEdge(e, cuts) = Min(Over(e))
      BY DEF NextEdge
    <3>3. \A d \in Over(e) : d \in cuts /\ d > e
      OBVIOUS
    <3> HIDE DEF Over
    <3>4. Min(Over(e)) \in Over(e) /\ \A y \in Over(e) : Min(Over(e)) <= y
      BY <1>1, <3>1, Extremes
    <3> QED BY <3>2, <3>3, <3>4
  <2> QED BY <2>1, <2>2
<1>3. ASSUME NEW e \in cuts
      PROVE  /\ f[e] \in Nat
             /\ e = Max(cuts) => f[e] = Reach(e)
             /\ e # Max(cuts) => Reach(e) = f[e] + Reach(NextEdge(e, cuts))
  <2>1. CASE e = Max(cuts)
    <3>1. f[e] = Reach(e)
      BY <2>1 DEF BandFrom, TopBand
    <3>2. e \in Int
      OBVIOUS
    <3>3. Reach(e) \in Nat
      BY <3>2, NumberSplits
    <3> QED BY <2>1, <3>1, <3>3
  <2>2. CASE e # Max(cuts)
    <3> DEFINE u == NextEdge(e, cuts)
    <3>1. f[e] = Number(population, Between(population, e, u))
      BY <2>2 DEF BandFrom
    <3>2. u \in Int /\ e \in Int /\ e <= u
      <4>1. u \in cuts /\ u > e
        BY <1>2, <2>2
      <4> HIDE DEF u
      <4> QED BY <4>1
    <3> HIDE DEF u
    <3>3. f[e] \in Nat /\ Reach(e) = f[e] + Reach(u)
      BY <3>1, <3>2, NumberSplits
    <3> QED BY <2>2, <3>3 DEF u
  <2> QED BY <2>1, <2>2
<1> HIDE DEF Reach
<1>4. Wrong = {}
  <2>1. SUFFICES ASSUME Wrong # {} PROVE FALSE
    OBVIOUS
  <2>2. Wrong \in SUBSET cuts /\ Wrong \in SUBSET Int
    OBVIOUS
  <2>3. PICK e \in Wrong : \A d \in Wrong : e >= d
    <3> HIDE DEF Wrong
    <3>1. IsFiniteSet(Wrong)
      BY <2>2, FS_Subset
    <3> QED BY <2>1, <2>2, <3>1, Extremes
  <2>4. e \in cuts /\ Total(f, From(e)) # Reach(e) /\ e \in Int
    OBVIOUS
  <2>5. Total(f, From(e)) = f[e] + Total(f, From(e) \ {e})
    <3>1. e \in From(e)
      BY <2>4
    <3>2. \A d \in From(e) : f[d] \in Int
      BY <1>3
    <3> HIDE DEF From
    <3> QED BY <1>1, <2>4, <3>1, <3>2, TotalWithout
  <2>6. CASE e = Max(cuts)
    <3>1. From(e) \ {e} = {}
      <4> SUFFICES ASSUME NEW d \in From(e) \ {e} PROVE FALSE
        OBVIOUS
      <4>1. d \in Int /\ e >= d /\ d >= e /\ d # e
        BY <1>2, <2>6
      <4> QED BY <2>4, <4>1
    <3>2. Total(f, {}) = 0
      BY FS_EmptySet, TotalUnfolds
    <3>3. f[e] = Reach(e) /\ f[e] \in Nat
      BY <1>3, <2>4, <2>6
    <3> QED BY <2>4, <2>5, <3>1, <3>2, <3>3
  <2>7. CASE e # Max(cuts)
    <3> DEFINE u == NextEdge(e, cuts)
    <3>1. u \in cuts /\ u > e /\ \A d \in Over(e) : u <= d
      BY <1>2, <2>4, <2>7
    <3> HIDE DEF u
    <3>2. From(e) \ {e} = From(u)
      <4>1. \A d \in cuts : d \in Int /\ u \in Int
        BY <3>1
      <4>2. \A d \in cuts : (d >= e /\ d # e) <=> d >= u
        BY <2>4, <3>1, <4>1
      <4> QED BY <4>2
    <3>3. u \notin Wrong
      <4>1. u \in Int /\ ~(e >= u)
        BY <2>4, <3>1
      <4> QED BY <2>3, <4>1
    <3>4. Total(f, From(u)) = Reach(u)
      BY <3>1, <3>3
    <3>5. Reach(e) = f[e] + Reach(u)
      BY <1>3, <2>4, <2>7 DEF u
    <3> QED BY <2>4, <2>5, <3>2, <3>4, <3>5
  <2> QED BY <2>6, <2>7
<1>5. \A e \in cuts : Total(f, From(e)) = Reach(e)
  BY <1>4
<1> QED BY <1>3, <1>5 DEF Reach

(* A whole number of units is rounded to itself.                            *)
LEMMA WholeIsRounded ==
  ASSUME NEW a \in Int
  PROVE  RoundHalfEven(a * BandCount) = a
<1> DEFINE n == a * BandCount
<1>1. BandCount \in Nat \ {0} /\ n \in Int
  BY CutoffsAssumption
<1>2. n \div BandCount = a /\ n % BandCount = 0
  BY <1>1, SMTT(30)
<1> HIDE DEF n
<1>3. ~(2 * (n % BandCount) > BandCount) /\ ~(2 * (n % BandCount) = BandCount)
  BY <1>1, <1>2
<1>4. RoundHalfEven(n) = n \div BandCount
  BY <1>3 DEF RoundHalfEven
<1> QED BY <1>2, <1>4 DEF n

(* The band edges are numbers, and nobody is below all of them.             *)
LEMMA BandEdgesCover ==
  ASSUME NEW population, Scores(population)
  PROVE  /\ BandEdges(population) \in SUBSET Int /\ IsFiniteSet(BandEdges(population))
         /\ BandEdges(population) # {}
         /\ Number(population, AtLeast(population, Min(BandEdges(population)))) =
              Size(People(population))
<1> DEFINE people == People(population)
           D == DOMAIN population.good
           cuts == BandEdges(population)
           Quantile(k) == Interpolated(people, k, BandCount)
           Edge(k) == RoundHalfEven(Quantile(k))
<1>1. D \in SUBSET Int /\ IsFiniteSet(D) /\ DOMAIN people = D
  <2>1. D \subseteq MinScore .. MaxScore
    BY DEF Scores
  <2>2. MinScore .. MaxScore \subseteq Int
    OBVIOUS
  <2>3. IsFiniteSet(D)
    BY Numbers
  <2> QED BY <2>1, <2>2, <2>3 DEF People
<1>2. \A s \in D : people[s] \in Nat
  <2>1. \A s \in D : population.good[s] \in Nat /\ population.bad[s] \in Nat
    BY DEF Scores
  <2> QED BY <2>1 DEF People
<1>3. Sample(people)
  BY <1>1, <1>2 DEF Sample
<1>4. Size(people) \in Nat /\ Size(people) > 0
  <2>1. Size(people) = Number(population, D)
    BY <1>1 DEF Size, Number
  <2>2. Highest(population) \in ScoresOf(population) /\ Highest(population) \in D
    BY ScoreRange
  <2> QED BY <2>1, <2>2, Numbers
<1>5. BandCount \in Nat \ {0}
  BY CutoffsAssumption
<1>6. cuts = {Edge(k) : k \in 0 .. BandCount}
  BY DEF BandEdges
<1> HIDE DEF people, cuts
<1>7. \A k \in 0 .. BandCount : Edge(k) \in Int
  <2> TAKE k \in 0 .. BandCount
  <2> DEFINE q == Quantile(k)
  <2>1. q \in Int
    BY <1>3, <1>4, <1>5, InterpolatedIsNumber
  <2> HIDE DEF q
  <2>2. q \div BandCount \in Int
    BY <1>5, <2>1
  <2>3. RoundHalfEven(q) \in Int
    <3> DEFINE down == q \div BandCount
    <3>1. down \in Int /\ down + 1 \in Int
      BY <2>2
    <3>2. RoundHalfEven(q) = down \/ RoundHalfEven(q) = down + 1
      BY DEF RoundHalfEven
    <3> QED BY <3>1, <3>2
  <2> QED BY <2>3 DEF q
<1>8. cuts \in SUBSET Int
  BY <1>6, <1>7
<1>9. IsFiniteSet(cuts)
  <2> DEFINE f == [k \in 0 .. BandCount |-> Edge(k)]
  <2>1. {f[k] : k \in 0 .. BandCount} = cuts
    BY <1>6
  <2> HIDE DEF f
  <2>2. 0 \in Int /\ BandCount \in Int
    BY <1>5
  <2>3. IsFiniteSet({f[k] : k \in 0 .. BandCount})
    BY <2>2, ImageIsFinite
  <2> QED BY <2>1, <2>3
<1> DEFINE first == Nth(people, 0)
<1>10. first \in D /\ Total(people, {w \in D : w < first}) = 0
  <2> DEFINE below == Total(people, {w \in D : w < first})
  <2>1. first \in D /\ below \in Nat /\ below <= 0
    BY <1>1, <1>3, <1>4, NthIsThere
  <2> HIDE DEF below
  <2>2. below = 0
    BY <2>1
  <2> QED BY <2>1, <2>2 DEF below
<1>11. Edge(0) = first
  <2>1. 0 * (Size(people) - 1) = 0
    BY <1>4
  <2>2. 0 \div BandCount = 0 /\ 0 % BandCount = 0
    BY <1>5
  <2> DEFINE next == Nth(people, Min({0 + 1, Size(people) - 1}))
  <2>3. Quantile(0) = first * BandCount + 0 * (next - first)
    BY <2>1, <2>2, Zenon DEF Interpolated
  <2>4. next \in Int /\ first \in Int
    <3> DEFINE n == Size(people)
               i == Min({0 + 1, n - 1})
    <3>1. i \in Nat /\ i < n
      <4>1. n \in Nat /\ n > 0
        BY <1>4
      <4> HIDE DEF n
      <4>2. 0 + 1 \in Int /\ n - 1 \in Int
        BY <4>1
      <4>3. Min({0 + 1, n - 1}) = IF 0 + 1 <= n - 1 THEN 0 + 1 ELSE n - 1
        BY <4>2, OfTwo
      <4> QED BY <4>1, <4>3
    <3> HIDE DEF i
    <3>2. Nth(people, i) \in DOMAIN people
      BY <1>3, <3>1, NthIsThere
    <3> QED BY <1>1, <1>10, <3>2 DEF i
  <2> HIDE DEF next, first
  <2>5. 0 * (next - first) = 0
    BY <2>4
  <2>6. Quantile(0) = first * BandCount
    BY <1>5, <2>3, <2>4, <2>5
  <2> QED BY <2>4, <2>6, WholeIsRounded
<1>12. first \in cuts
  <2>1. 0 \in 0 .. BandCount
    BY <1>5
  <2> HIDE DEF first, Edge
  <2> QED BY <1>6, <1>11, <2>1
<1> HIDE DEF first
<1> DEFINE e == Min(cuts)
<1>13. e \in cuts /\ e <= first
  BY <1>8, <1>9, <1>12, Extremes
<1> HIDE DEF e
<1>14. Number(population, AtLeast(population, e)) = Size(people)
  <2> DEFINE A == AtLeast(population, e)
             rest == D \ A
             Below == {w \in D : w < first}
  <2>1. A \subseteq D /\ rest \subseteq Below /\ Below \subseteq D
    <3>1. \A w \in D : w \in Int /\ first \in Int /\ e \in Int
      BY <1>1, <1>8, <1>10, <1>13
    <3>2. \A w \in D : ~(w >= e) => w < first
      BY <1>13, <3>1
    <3> QED BY <3>2 DEF AtLeast
  <2>2. Total(people, Below) = 0
    BY <1>10
  <2> HIDE DEF Below
  <2>3. IsFiniteSet(Below) /\ \A w \in Below : people[w] \in Nat
    BY <1>1, <1>2, <2>1, FS_Subset
  <2>4. \A w \in D : people[w] \in Int
    BY <1>2
  <2>5. /\ Total(people, A) \in Int /\ Total(people, rest) \in Int
        /\ Total(people, D) = Total(people, A) + Total(people, rest)
    <3> HIDE DEF A
    <3> QED BY <1>1, <2>1, <2>4, TotalSplits
  <2> HIDE DEF A, rest
  <2>6. Total(people, rest) \in Nat /\ Total(people, rest) <= 0
    BY <2>1, <2>2, <2>3, TotalGrows
  <2>7. Total(people, A) = Total(people, D)
    BY <2>5, <2>6
  <2> QED BY <1>1, <2>7 DEF Number, Size, A, people
<1> QED BY <1>8, <1>9, <1>12, <1>14 DEF cuts, e, people

(* The bands of the report hold everybody, once.                            *)
LEMMA BandsHoldEverybody ==
  ASSUME NEW population, Scores(population)
  PROVE  Size([band \in BandTable(population) |-> band.population]) = Size(People(population))
<1> DEFINE cuts == BandEdges(population)
           Band(e) == BandFrom(population, e, cuts)
           f == [e \in cuts |-> Band(e).population]
           g == [e \in cuts |-> Band(e)]
           filled == {e \in cuts : f[e] > 0}
           table == {g[e] : e \in filled}
           h == [band \in table |-> band.population]
<1>1. cuts \in SUBSET Int /\ IsFiniteSet(cuts) /\ cuts # {}
      /\ Number(population, AtLeast(population, Min(cuts))) = Size(People(population))
  BY BandEdgesCover
<1>2. BandTable(population) = {band \in {Band(e) : e \in cuts} : band.population > 0}
  BY DEF BandTable, BandFrom, NextEdge
<1>3. {band \in {Band(e) : e \in cuts} : band.population > 0} = table
  <2> HIDE DEF cuts
  <2> QED OBVIOUS
<1>4. \A e \in cuts : f[e] = Band(e).population /\ g[e].from = e
  BY DEF BandFrom
<1> HIDE DEF cuts, f
<1>5. /\ \A e \in cuts : f[e] \in Nat
      /\ \A e \in cuts : Total(f, {d \in cuts : d >= e}) = Number(population, AtLeast(population, e))
  BY <1>1, <1>4, BandsFromAnEdge
<1>6. Total(f, cuts) = Size(People(population))
  <2> DEFINE e == Min(cuts)
  <2>1. e \in cuts /\ \A d \in cuts : e <= d
    BY <1>1, Extremes
  <2>2. Number(population, AtLeast(population, e)) = Size(People(population))
    BY <1>1
  <2> HIDE DEF e
  <2>3. {d \in cuts : d >= e} = cuts
    <3>1. \A d \in cuts : d \in Int /\ e \in Int
      BY <1>1, <2>1
    <3> QED BY <2>1, <3>1
  <2> QED BY <1>5, <2>1, <2>2, <2>3
<1>7. Total(f, filled) = Total(f, cuts)
  <2> DEFINE rest == cuts \ filled
  <2>1. \A e \in rest : f[e] = 0
    BY <1>5
  <2>2. filled \subseteq cuts /\ rest \subseteq cuts
    OBVIOUS
  <2> HIDE DEF filled
  <2>3. \A e \in cuts : f[e] \in Int
    BY <1>5
  <2>4. /\ Total(f, filled) \in Int /\ Total(f, cuts \ filled) \in Int
        /\ Total(f, cuts) = Total(f, filled) + Total(f, cuts \ filled)
    BY <1>1, <2>2, <2>3, TotalSplits
  <2> HIDE DEF rest
  <2>5. IsFiniteSet(rest)
    BY <1>1, <2>2, FS_Subset
  <2>6. Total(f, rest) = 0
    BY <2>1, <2>5, TotalNeeds
  <2> QED BY <2>4, <2>6 DEF rest
<1>8. IsFiniteSet(table) /\ Total(h, table) = Total(f, filled)
  <2>1. filled \subseteq cuts
    OBVIOUS
  <2>2. \A e \in filled : f[e] \in Int /\ h[g[e]] = f[e]
    BY <1>4, <1>5
  <2>3. \A e \in filled, d \in filled : g[e] = g[d] => e = d
    <3>1. \A e \in filled : g[e].from = e
      BY <1>4
    <3> HIDE DEF g, filled
    <3> QED BY <3>1
  <2> HIDE DEF filled
  <2>4. IsFiniteSet(filled)
    BY <1>1, <2>1, FS_Subset
  <2> HIDE DEF h, g
  <2> QED BY <2>2, <2>3, <2>4, TotalOfImages
<1>9. Size(h) = Total(h, table)
  BY DEF Size
<1> QED BY <1>2, <1>3, <1>6, <1>7, <1>8, <1>9

(* Whatever the population: the bands of the calibration report hold        *)
(* everybody in it, once, and who changes sides is the difference between   *)
(* the approvals under both cut-offs (_band_table, _swap_set).              *)
THEOREM EveryoneIsCounted == Spec => []EveryoneIsAccountedFor
<1>1. LifeInv => EveryoneIsAccountedFor
  <2> SUFFICES ASSUME LifeInv, phase = "calibrated" PROVE EveryoneIsAccountedFor
    BY DEF EveryoneIsAccountedFor
  <2> DEFINE population == result.population
             accept == result.accept
             Approvals(cutoff) == Number(population, AtLeast(population, cutoff))
  <2>1. Scores(population) /\ result = Calibration(population)
    BY DEF LifeInv
  <2>2. /\ accept = Recommend(population).cutoff /\ result.bands = BandTable(population)
        /\ result.moved = IF accept = -1 THEN 0 ELSE Moved(population, CurrentCutoff, accept)
    BY <2>1 DEF Calibration
  <2>3. EveryoneIsAccountedFor <=>
          /\ Size([band \in result.bands |-> band.population]) = Size(People(population))
          /\ accept # -1 => result.moved = Abs(Approvals(accept) - Approvals(CurrentCutoff))
    BY DEF EveryoneIsAccountedFor
  <2> HIDE DEF population, accept
  <2>4. Size([band \in result.bands |-> band.population]) = Size(People(population))
    BY <2>1, <2>2, BandsHoldEverybody
  <2>5. ASSUME accept # -1 PROVE result.moved = Abs(Approvals(accept) - Approvals(CurrentCutoff))
    <3>1. accept \in Int /\ CurrentCutoff \in Int
      BY <2>1, <2>2, <2>5, RecommendedSuits, LifecycleAssumption
    <3>2. /\ Min({CurrentCutoff, accept}) = IF CurrentCutoff <= accept THEN CurrentCutoff ELSE accept
          /\ Max({CurrentCutoff, accept}) = IF CurrentCutoff >= accept THEN CurrentCutoff ELSE accept
      BY <3>1, OfTwo
    <3>3. result.moved = Number(population, Between(population, Min({CurrentCutoff, accept}),
                                                                Max({CurrentCutoff, accept})))
      BY <2>2, <2>5 DEF Moved
    <3> DEFINE Gone(s, u) == Number(population, Between(population, s, u))
    <3>4. CASE CurrentCutoff <= accept
      <4>1. result.moved = Gone(CurrentCutoff, accept)
        BY <3>1, <3>2, <3>3, <3>4
      <4>2. /\ Approvals(CurrentCutoff) \in Nat /\ Approvals(accept) \in Nat /\ Gone(CurrentCutoff, accept) \in Nat
            /\ Approvals(CurrentCutoff) = Gone(CurrentCutoff, accept) + Approvals(accept)
        BY <2>1, <3>1, <3>4, NumberSplits
      <4> HIDE DEF Approvals, Gone
      <4> QED BY <4>1, <4>2 DEF Abs
    <3>5. CASE ~(CurrentCutoff <= accept)
      <4>1. accept <= CurrentCutoff
        BY <3>1, <3>5
      <4>2. result.moved = Gone(accept, CurrentCutoff)
        BY <3>1, <3>2, <3>3, <3>5, <4>1
      <4>3. /\ Approvals(CurrentCutoff) \in Nat /\ Approvals(accept) \in Nat /\ Gone(accept, CurrentCutoff) \in Nat
            /\ Approvals(accept) = Gone(accept, CurrentCutoff) + Approvals(CurrentCutoff)
        BY <2>1, <3>1, <4>1, NumberSplits
      <4> HIDE DEF Approvals, Gone
      <4> QED BY <4>2, <4>3 DEF Abs
    <3> QED BY <3>4, <3>5
  <2> QED BY <2>3, <2>4, <2>5
<1> QED BY <1>1, LifeKept, PTL

-----------------------------------------------------------------------------
(* Reason codes (Scorecard).                                                *)

\* A list that has in each place the member of that place.
InPlaces(R, S, s) ==
  /\ s \in [1 .. Cardinality(S) -> S]
  /\ \A i \in 1 .. Cardinality(S) : PlaceIn(R, S, s[i]) = i - 1

(* It lists all members, in order.                                          *)
LEMMA ListedInOrder ==
  ASSUME NEW S, IsFiniteSet(S), NEW R, Orders(R, S), NEW s, InPlaces(R, S, s)
  PROVE  /\ Cardinality(S) \in Nat /\ s \in Seq(S) /\ Len(s) = Cardinality(S)
         /\ \A i \in 1 .. Cardinality(S), j \in 1 .. Cardinality(S) : i < j => <<s[i], s[j]>> \in R
         /\ \A v \in S : \E i \in 1 .. Cardinality(S) : s[i] = v
<1> DEFINE n == Cardinality(S)
<1>1. /\ n \in Nat
      /\ \A v \in S : PlaceIn(R, S, v) \in 0 .. n - 1
      /\ \A x \in S, y \in S : <<x, y>> \in R => PlaceIn(R, S, x) < PlaceIn(R, S, y)
  BY PlacesInOrder
<1>2. s \in Seq(S) /\ Len(s) = n
  <2> HIDE DEF n
  <2>1. s \in [1 .. n -> S]
    BY DEF n, InPlaces
  <2> QED BY <1>1, <2>1
<1>3. ASSUME NEW i \in 1 .. n, NEW j \in 1 .. n, i < j PROVE <<s[i], s[j]>> \in R
  <2>1. s[i] \in S /\ s[j] \in S /\ PlaceIn(R, S, s[i]) = i - 1 /\ PlaceIn(R, S, s[j]) = j - 1
    BY DEF InPlaces
  <2>2. i \in Int /\ j \in Int
    BY <1>1
  <2>3. s[i] # s[j]
    BY <1>3, <2>1, <2>2
  <2>4. ~(<<s[j], s[i]>> \in R)
    <3>1. SUFFICES ASSUME <<s[j], s[i]>> \in R PROVE FALSE
      OBVIOUS
    <3>2. PlaceIn(R, S, s[j]) < PlaceIn(R, S, s[i])
      BY <1>1, <2>1, <3>1
    <3>3. j - 1 < i - 1
      BY <2>1, <3>2
    <3> QED BY <1>3, <2>2, <3>3
  <2> QED BY <2>1, <2>3, <2>4 DEF Orders
<1>4. ASSUME NEW v \in S PROVE \E i \in 1 .. n : s[i] = v
  <2> DEFINE p == PlaceIn(R, S, v)
  <2>1. p \in 0 .. n - 1
    BY <1>1
  <2> HIDE DEF p
  <2>2. p + 1 \in 1 .. n /\ (p + 1) - 1 = p
    BY <1>1, <2>1
  <2> DEFINE u == s[p + 1]
  <2>3. u \in S /\ PlaceIn(R, S, u) = p
    BY <2>2 DEF InPlaces
  <2> HIDE DEF u
  <2>4. PlaceIn(R, S, v) = p /\ p \in Int
    BY <1>1, <2>1 DEF p
  <2>5. u = v
    <3>1. SUFFICES ASSUME u # v PROVE FALSE
      OBVIOUS
    <3>2. <<u, v>> \in R \/ <<v, u>> \in R
      BY <2>3, <3>1 DEF Orders
    <3>3. p < p
      BY <1>1, <2>3, <2>4, <3>2
    <3> QED BY <2>4, <3>3
  <2> QED BY <2>2, <2>5 DEF u
<1> QED BY <1>1, <1>2, <1>3, <1>4 DEF n

\* What the best bin would have given more.
Short(c, d, v) == Weight[d] * c.best - Contribution(c, d, v)

\* What another value would have gained.
Gains(c, d, values) ==
  Max({Contribution(c, d, v) - Contribution(c, d, values[d]) :
         v \in {w \in Values \cup {Missing} : bin_for(c, w) \in c.seen}})

(* Every value has a bin of the card, and a missing one alone has the bin   *)
(* of missing values.                                                       *)
LEMMA BinsOfCard ==
  ASSUME NEW c, Trained(c), NEW v \in Values \cup {Missing}
  PROVE  /\ bin_for(c, v) \in 0 .. Len(c.edges) \cup {Missing}
         /\ c.points[bin_for(c, v)] \in Nat
         /\ bin_for(c, v) = Missing <=> v = Missing
<1> DEFINE plain == [edges |-> c.edges]
<1>1. bin_for(c, v) = bin_for(plain, v)
  BY DEF bin_for
<1>2. CASE v = Missing
  <2>1. bin_for(c, v) = Missing
    BY <1>2 DEF bin_for
  <2> QED BY <1>2, <2>1 DEF Trained
<1>3. CASE v # Missing
  <2>1. bin_for(plain, v) \in 0 .. Len(c.edges)
    BY <1>3, BinsAgree DEF Trained
  <2>2. bin_for(plain, v) \in Nat
    <3>1. Len(c.edges) \in Nat
      BY DEF Trained, Ascends
    <3> HIDE DEF plain
    <3> QED BY <2>1, <3>1
  <2>3. bin_for(c, v) # Missing
    BY <1>1, <2>2, BinningAssumption
  <2> QED BY <1>1, <1>3, <2>1, <2>3 DEF Trained
<1> QED BY <1>2, <1>3

(* The points lost, and what could have been gained: as much as the best    *)
(* bin gives more, or more if the characteristic has the wrong sign.        *)
LEMMA LossAndGain ==
  ASSUME NEW c, Trained(c), NEW values \in Profiles, NEW d \in Named
  PROVE  /\ Short(c, d, values[d]) \in Int
         /\ Lost(c, d, values[d]) = IF Short(c, d, values[d]) >= 0 THEN Short(c, d, values[d]) ELSE 0
         /\ Gains(c, d, values) \in Int /\ Gains(c, d, values) >= Short(c, d, values[d])
         /\ Weight[d] > 0 => Gains(c, d, values) = Short(c, d, values[d])
<1> DEFINE w == Weight[d]
           All == {v \in Values \cup {Missing} : bin_for(c, v) \in c.seen}
           part(v) == Contribution(c, d, v)
           now == part(values[d])
           best == w * c.best
           R == {part(v) - now : v \in All}
<1>1. w \in Int /\ c.best \in Int /\ best \in Int
  <2>1. w \in Int
    BY ScorecardAssumption DEF Named
  <2>2. c.best \in Int
    BY DEF Trained
  <2> HIDE DEF w
  <2> QED BY <2>1, <2>2
<1>2. ASSUME NEW v \in Values \cup {Missing} PROVE part(v) \in Int
  <2>1. c.points[bin_for(c, v)] \in Nat
    BY BinsOfCard
  <2> HIDE DEF w
  <2>2. w * c.points[bin_for(c, v)] \in Int
    BY <1>1, <2>1
  <2> QED BY <2>2 DEF Contribution, w
<1>3. values[d] \in Values \cup {Missing} /\ now \in Int
  <2>1. values[d] \in Values \cup {Missing}
    BY DEF Profiles
  <2> QED BY <1>2, <2>1
<1>4. Short(c, d, values[d]) = best - now
  BY DEF Short
<1> HIDE DEF now, best
<1>5. Lost(c, d, values[d]) = IF best - now >= 0 THEN best - now ELSE 0
  <2>1. best - now \in Int /\ 0 \in Int
    BY <1>1, <1>3
  <2>2. Lost(c, d, values[d]) = Max({best - now, 0})
    BY DEF Lost, best, now
  <2> QED BY <2>1, <2>2, OfTwo
<1>6. PICK v \in All : part(v) = best
  <2>1. PICK b \in c.seen : c.points[b] = c.best
    BY DEF Trained
  <2>2. PICK v \in Values \cup {Missing} : bin_for(c, v) = b
    BY DEF Trained
  <2>3. v \in All
    BY <2>2
  <2>4. part(v) = best
    BY <2>1, <2>2 DEF Contribution, best
  <2> QED BY <2>3, <2>4
<1>7. ASSUME w > 0, NEW u \in All PROVE part(u) <= best
  <2>1. c.points[bin_for(c, u)] <= c.best
    BY DEF Trained
  <2>2. c.points[bin_for(c, u)] \in Nat
    BY BinsOfCard
  <2> HIDE DEF w
  <2>3. w * c.points[bin_for(c, u)] <= w * c.best
    BY <1>1, <1>7, <2>1, <2>2, Monotone
  <2> QED BY <2>3 DEF Contribution, best, w
<1>8. \A u \in All : part(u) \in Int
  BY <1>2
<1> HIDE DEF part, w
<1>9. R \in SUBSET Int /\ R # {} /\ best - now \in R
  BY <1>1, <1>3, <1>6, <1>8
<1>10. IsFiniteSet(R)
  <2> DEFINE gain == [u \in All |-> part(u) - now]
  <2>1. gain \in Surjection(All, R)
    BY DEF Surjection
  <2>2. IsFiniteSet(Values \cup {Missing})
    BY FS_Singleton, FS_Union, BinningAssumption
  <2>3. IsFiniteSet(All)
    <3>1. All \subseteq Values \cup {Missing}
      OBVIOUS
    <3> HIDE DEF All
    <3> QED BY <2>2, <3>1, FS_Subset
  <2> HIDE DEF gain, R, All
  <2> QED BY <2>1, <2>3, FS_Surjection
<1>11. Gains(c, d, values) = Max(R)
  BY DEF Gains, part, now
<1>12. Max(R) \in R /\ \A r \in R : Max(R) >= r
  <2> HIDE DEF R
  <2> QED BY <1>9, <1>10, Extremes
<1>13. Max(R) \in Int /\ Max(R) >= best - now
  BY <1>9, <1>12
<1>14. ASSUME w > 0 PROVE Max(R) = best - now
  <2>1. \A r \in R : r <= best - now
    <3> TAKE r \in R
    <3>1. PICK u \in All : r = part(u) - now
      OBVIOUS
    <3>2. part(u) <= best /\ part(u) \in Int
      BY <1>7, <1>8, <1>14
    <3> QED BY <1>1, <1>3, <3>1, <3>2
  <2> HIDE DEF R
  <2> QED BY <1>1, <1>3, <1>12, <1>13, <2>1
<1> HIDE DEF R
<1> QED BY <1>1, <1>3, <1>4, <1>5, <1>11, <1>13, <1>14 DEF w

\* Of two reportable characteristics, the one that comes first.
Worse(c, values, x, y) ==
  \/ Lost(c, x, values[x]) > Lost(c, y, values[y])
  \/ Lost(c, x, values[x]) = Lost(c, y, values[y]) /\ Position(x) < Position(y)

WorstFirst(c, values, segment) ==
  LET WorseThan(x, y) == Worse(c, values, x, y)
  IN Sorted(Reportable(c, values, segment), WorseThan)

(* Every characteristic has its own position.                               *)
LEMMA PositionsDiffer ==
  /\ \A d \in Named : Position(d) \in Int
  /\ \A d \in Named, e \in Named : Position(d) = Position(e) => d = e
<1>1. ASSUME NEW d \in Named PROVE Position(d) \in Int /\ Characteristics[Position(d)] = d
  <2>1. DOMAIN Characteristics = 1 .. Len(Characteristics) /\ Len(Characteristics) \in Nat
    BY ScorecardAssumption
  <2>2. \E i \in DOMAIN Characteristics : Characteristics[i] = d
    BY DEF Named, Range
  <2>3. Position(d) \in DOMAIN Characteristics /\ Characteristics[Position(d)] = d
    BY <2>2 DEF Position
  <2> QED BY <2>1, <2>3
<1>2. ASSUME NEW d \in Named, NEW e \in Named, Position(d) = Position(e) PROVE d = e
  BY <1>1, <1>2
<1> QED BY <1>1, <1>2

(* What may be reported is listed, the worst first.                         *)
LEMMA WorstComesFirst ==
  ASSUME NEW c, Trained(c), NEW values \in Profiles, NEW segment
  PROVE  LET S == Reportable(c, values, segment)
             s == WorstFirst(c, values, segment)
         IN /\ S \subseteq Named /\ Cardinality(S) \in Nat
            /\ s \in Seq(S) /\ Len(s) = Cardinality(S)
            /\ \A i \in 1 .. Cardinality(S), j \in 1 .. Cardinality(S) :
                 i < j => Lost(c, s[i], values[s[i]]) >= Lost(c, s[j], values[s[j]])
            /\ \A d \in S : \E i \in 1 .. Cardinality(S) : s[i] = d
<1> DEFINE S == Reportable(c, values, segment)
           s == WorstFirst(c, values, segment)
           L(d) == Lost(c, d, values[d])
           R == {p \in S \X S : Worse(c, values, p[1], p[2])}
           Member(i) == CHOOSE v \in S : Cardinality({w \in S : Worse(c, values, w, v)}) = i - 1
<1>1. S \subseteq Named
  BY DEF Reportable, Scored
<1>2. IsFiniteSet(S)
  <2> HIDE DEF S
  <2> QED BY <1>1, NamedAreFinite, FS_Subset
<1>3. s = [i \in 1 .. Cardinality(S) |-> Member(i)]
  BY DEF WorstFirst, Sorted
<1> HIDE DEF S
<1>4. \A d \in S : L(d) \in Int /\ Position(d) \in Int
  <2> TAKE d \in S
  <2>1. d \in Named
    BY <1>1
  <2>2. /\ Short(c, d, values[d]) \in Int
        /\ L(d) = IF Short(c, d, values[d]) >= 0 THEN Short(c, d, values[d]) ELSE 0
    BY <2>1, LossAndGain
  <2> QED BY <2>1, <2>2, PositionsDiffer
<1>5. \A x \in S, y \in S : x # y => Position(x) # Position(y)
  BY <1>1, PositionsDiffer
<1>6. \A x \in S, y \in S : <<x, y>> \in R <=>
        L(x) > L(y) \/ (L(x) = L(y) /\ Position(x) < Position(y))
  BY DEF Worse
<1>7. \A v \in S : PlaceIn(R, S, v) = Cardinality({w \in S : Worse(c, values, w, v)})
  <2> TAKE v \in S
  <2>1. {w \in S : <<w, v>> \in R} = {w \in S : Worse(c, values, w, v)}
    OBVIOUS
  <2> QED BY <2>1 DEF PlaceIn
<1> HIDE DEF R, L
<1>8. Orders(R, S)
  <2>1. \A x \in S : <<x, x>> \notin R
    BY <1>4, <1>6
  <2>2. \A x \in S, y \in S : x # y => <<x, y>> \in R \/ <<y, x>> \in R
    BY <1>4, <1>5, <1>6
  <2>3. \A x \in S, y \in S, z \in S : <<x, y>> \in R /\ <<y, z>> \in R => <<x, z>> \in R
    BY <1>4, <1>6
  <2> QED BY <2>1, <2>2, <2>3 DEF Orders
<1>9. \A i \in 1 .. Cardinality(S) : \E v \in S : PlaceIn(R, S, v) = i - 1
  BY <1>2, <1>8, PlacesInOrder
<1>10. ASSUME NEW i \in 1 .. Cardinality(S) PROVE Member(i) \in S /\ PlaceIn(R, S, Member(i)) = i - 1
  <2>1. \E v \in S : Cardinality({w \in S : Worse(c, values, w, v)}) = i - 1
    BY <1>7, <1>9
  <2>2. Member(i) \in S /\ Cardinality({w \in S : Worse(c, values, w, Member(i))}) = i - 1
    BY <2>1
  <2> HIDE DEF Member
  <2> QED BY <1>7, <2>2
<1> HIDE DEF Member, s
<1>11. s \in [1 .. Cardinality(S) -> S] /\ \A i \in 1 .. Cardinality(S) : s[i] = Member(i)
  BY <1>3, <1>10
<1>12. \A i \in 1 .. Cardinality(S) : s[i] \in S /\ PlaceIn(R, S, s[i]) = i - 1
  BY <1>10, <1>11
<1>13. /\ Cardinality(S) \in Nat /\ s \in Seq(S) /\ Len(s) = Cardinality(S)
       /\ \A i \in 1 .. Cardinality(S), j \in 1 .. Cardinality(S) : i < j => <<s[i], s[j]>> \in R
       /\ \A v \in S : \E i \in 1 .. Cardinality(S) : s[i] = v
  <2>1. InPlaces(R, S, s)
    BY <1>11, <1>12 DEF InPlaces
  <2> QED BY <1>2, <1>8, <2>1, ListedInOrder
<1>14. ASSUME NEW i \in 1 .. Cardinality(S), NEW j \in 1 .. Cardinality(S), i < j
       PROVE  L(s[i]) >= L(s[j])
  <2>1. s[i] \in S /\ s[j] \in S /\ <<s[i], s[j]>> \in R
    BY <1>12, <1>13, <1>14
  <2>2. L(s[i]) > L(s[j]) \/ L(s[i]) = L(s[j])
    BY <1>6, <2>1
  <2> QED BY <1>4, <2>1, <2>2
<1> QED BY <1>1, <1>13, <1>14 DEF L, S, s

(* The codes: at most MaxReasons of them, and the note on a thin file.      *)
LEMMA CodesListed ==
  ASSUME NEW c, Trained(c), NEW values \in Profiles, NEW dq, dq # "BLOCK"
  PROVE  LET segment == select_segment(values)
             S == Reportable(c, values, segment)
             s == WorstFirst(c, values, segment)
             codes == ReasonCodes(c, values, dq)
         IN \E k \in Nat :
              /\ k <= MaxReasons /\ k <= Cardinality(S) /\ (k = MaxReasons \/ k = Cardinality(S))
              /\ DOMAIN codes = 1 .. (IF segment = "THIN" THEN k + 1 ELSE k)
              /\ \A i \in 1 .. k : codes[i] = s[i] /\ codes[i] \in S
              /\ segment = "THIN" => codes[k + 1] = "NO_BUREAU_RECORD"
<1> DEFINE segment == select_segment(values)
           S == Reportable(c, values, segment)
           s == WorstFirst(c, values, segment)
           k == Min({MaxReasons, Len(s)})
           first == SubSeq(s, 1, k)
           codes == ReasonCodes(c, values, dq)
<1>1. codes = IF segment = "THIN" THEN Append(first, "NO_BUREAU_RECORD") ELSE first
  BY DEF ReasonCodes, WorstFirst, Worse
<1> HIDE DEF codes, segment
<1>2. Cardinality(S) \in Nat /\ s \in Seq(S) /\ Len(s) = Cardinality(S)
  BY WorstComesFirst
<1> HIDE DEF S, s
<1>3. k = IF MaxReasons <= Len(s) THEN MaxReasons ELSE Len(s)
  <2>1. MaxReasons \in Int /\ Len(s) \in Int
    BY <1>2, ScorecardAssumption
  <2> QED BY <2>1, OfTwo
<1> HIDE DEF k
<1>4. /\ k \in Nat /\ k <= MaxReasons /\ k <= Len(s) /\ (k = MaxReasons \/ k = Len(s))
  BY <1>2, <1>3, ScorecardAssumption
<1>5. first \in Seq(S) /\ Len(first) = k /\ \A i \in 1 .. k : first[i] = s[i] /\ first[i] \in S
  BY <1>2, <1>4
<1> HIDE DEF first
<1>6. CASE segment = "THIN"
  <2>1. codes = Append(first, "NO_BUREAU_RECORD")
    BY <1>1, <1>6
  <2>2. DOMAIN codes = 1 .. k + 1
    BY <1>4, <1>5, <2>1
  <2>3. \A i \in 1 .. k : codes[i] = first[i]
    BY <1>4, <1>5, <2>1
  <2>4. codes[k + 1] = "NO_BUREAU_RECORD"
    BY <1>4, <1>5, <2>1
  <2> QED BY <1>2, <1>4, <1>5, <1>6, <2>2, <2>3, <2>4 DEF segment, S, s, codes
<1>7. CASE segment # "THIN"
  <2>1. codes = first /\ DOMAIN codes = 1 .. k
    BY <1>1, <1>4, <1>5, <1>7
  <2> QED BY <1>2, <1>4, <1>5, <1>7, <2>1 DEF segment, S, s, codes
<1> QED BY <1>6, <1>7

(* Whatever the card and the applicant: a reason is about a value he has,   *)
(* another one would have gained him enough, the worst come first and none  *)
(* is left out for a lesser one, and without a bureau record no bureau      *)
(* characteristic is blamed (Scorecard.score, _reason_codes).               *)
THEOREM ReasonsAreWorst == Spec => []ReasonsAreTheWorst
<1>1. ASSUME LifeInv, phase = "scored", result.dq # "BLOCK"
      PROVE  LET values  == result.values
                 segment == select_segment(values)
                 reasons == {i \in DOMAIN result.codes : result.codes[i] \in Named}
                 Gain(d) == Gains(card, d, values)
             IN /\ segment = "THIN" <=> "NO_BUREAU_RECORD" \in Range(result.codes)
                /\ segment = "THIN" => \A i \in reasons : result.codes[i] \notin Bureau
                /\ Cardinality(reasons) <= MaxReasons
                /\ \A i \in reasons :
                     /\ values[result.codes[i]] # Missing
                     /\ Gain(result.codes[i]) >= Materiality
                     /\ \A j \in reasons : i < j /\ Weight[result.codes[j]] > 0 =>
                          Gain(result.codes[i]) >= Gain(result.codes[j])
                /\ \A d \in Scored(segment) :
                     values[d] # Missing /\ Weight[d] > 0 /\ Gain(d) >= Materiality =>
                       \/ d \in Range(result.codes)
                       \/ /\ Cardinality(reasons) = MaxReasons
                          /\ \A i \in reasons : Gain(result.codes[i]) >= Gain(d)
  <2> DEFINE values == result.values
             codes == result.codes
             segment == select_segment(values)
             reasons == {i \in DOMAIN codes : codes[i] \in Named}
             Gain(d) == Gains(card, d, values)
             L(d) == Lost(card, d, values[d])
             S == Reportable(card, values, segment)
             s == WorstFirst(card, values, segment)
  <2>1. Trained(card) /\ values \in Profiles /\ codes = ReasonCodes(card, values, result.dq)
    BY <1>1 DEF LifeInv, ReasonsGiven
  <2>2. /\ S \subseteq Named /\ Cardinality(S) \in Nat
        /\ \A i \in 1 .. Cardinality(S), j \in 1 .. Cardinality(S) : i < j => L(s[i]) >= L(s[j])
        /\ \A d \in S : \E i \in 1 .. Cardinality(S) : s[i] = d
    <3> HIDE DEF segment, values
    <3> QED BY <2>1, WorstComesFirst
  <2>3. PICK k \in Nat :
          /\ k <= MaxReasons /\ k <= Cardinality(S) /\ (k = MaxReasons \/ k = Cardinality(S))
          /\ DOMAIN codes = 1 .. (IF segment = "THIN" THEN k + 1 ELSE k)
          /\ \A i \in 1 .. k : codes[i] = s[i] /\ codes[i] \in S
          /\ segment = "THIN" => codes[k + 1] = "NO_BUREAU_RECORD"
    <3> HIDE DEF values
    <3> QED BY <1>1, <2>1, CodesListed
  <2>4. "NO_BUREAU_RECORD" \notin Named
    BY ScorecardAssumption DEF Named
  <2>5. ASSUME NEW d \in Named
        PROVE  /\ Gain(d) \in Int /\ L(d) \in Int /\ L(d) >= 0
               /\ L(d) > 0 => Gain(d) >= L(d)
               /\ Weight[d] > 0 => L(d) >= Gain(d)
    <3>1. /\ Short(card, d, values[d]) \in Int
          /\ L(d) = IF Short(card, d, values[d]) >= 0 THEN Short(card, d, values[d]) ELSE 0
          /\ Gain(d) \in Int /\ Gain(d) >= Short(card, d, values[d])
          /\ Weight[d] > 0 => Gain(d) = Short(card, d, values[d])
      <4> HIDE DEF values
      <4> QED BY <2>1, LossAndGain
    <3> HIDE DEF Gain, L
    <3> QED BY <3>1
  <2>6. ASSUME NEW d \in S
        PROVE  d \in Named /\ d \in Scored(segment) /\ L(d) >= Materiality /\ values[d] # Missing
    <3>1. d \in Scored(segment) /\ L(d) >= Materiality /\ bin_for(card, values[d]) # Missing
      BY DEF Reportable
    <3>2. d \in Named
      BY <2>2
    <3>3. values[d] \in Values \cup {Missing}
      BY <2>1, <3>2 DEF Profiles
    <3>4. values[d] # Missing
      <4> HIDE DEF values
      <4> QED BY <2>1, <3>1, <3>3, BinsOfCard
    <3> QED BY <3>1, <3>2, <3>4
  <2>7. ASSUME NEW d \in Scored(segment), values[d] # Missing, Weight[d] > 0, Gain(d) >= Materiality
        PROVE  d \in S
    <3>1. d \in Named
      BY DEF Scored
    <3>2. values[d] \in Values \cup {Missing}
      BY <2>1, <3>1 DEF Profiles
    <3>3. bin_for(card, values[d]) # Missing
      <4> HIDE DEF values
      <4> QED BY <2>1, <2>7, <3>2, BinsOfCard
    <3>4. L(d) >= Materiality
      <4>1. L(d) >= Gain(d) /\ L(d) \in Int /\ Gain(d) \in Int /\ Materiality \in Nat
        BY <2>5, <2>7, <3>1, ScorecardAssumption
      <4> HIDE DEF L, Gain
      <4> QED BY <2>7, <4>1
    <3> QED BY <3>3, <3>4 DEF Reportable
  <2>8. segment = "THIN" => \A d \in S : d \notin Bureau
    BY <2>6 DEF Scored
  <2> HIDE DEF values, segment, S, s, codes, L, Gain
  <2>9. reasons = 1 .. k
    <3>1. \A i \in 1 .. k : i \in DOMAIN codes /\ codes[i] \in Named
      BY <2>2, <2>3
    <3>2. ASSUME NEW i \in DOMAIN codes, i \notin 1 .. k PROVE codes[i] \notin Named
      <4>1. segment = "THIN" /\ i = k + 1
        BY <2>3, <3>2
      <4> QED BY <2>3, <2>4, <4>1
    <3> QED BY <3>1, <3>2
  <2>10. Cardinality(1 .. k) = k
    <3>1. 1 \in Int /\ k \in Int
      OBVIOUS
    <3>2. Cardinality(1 .. k) = IF 1 > k THEN 0 ELSE k - 1 + 1
      BY <3>1, FS_Interval
    <3> QED BY <3>2
  <2>11. segment = "THIN" <=> "NO_BUREAU_RECORD" \in Range(codes)
    <3>1. CASE segment = "THIN"
      <4>1. k + 1 \in DOMAIN codes /\ codes[k + 1] = "NO_BUREAU_RECORD"
        BY <2>3, <3>1
      <4> QED BY <3>1, <4>1 DEF Range
    <3>2. CASE segment # "THIN"
      <4>1. \A i \in DOMAIN codes : codes[i] \in Named
        BY <2>2, <2>3, <3>2
      <4> QED BY <2>4, <3>2, <4>1 DEF Range
    <3> QED BY <3>1, <3>2
  <2>12. ASSUME NEW i \in 1 .. k
         PROVE  /\ codes[i] \in S /\ codes[i] \in Named
                /\ L(codes[i]) \in Int /\ Gain(codes[i]) \in Int
                /\ L(codes[i]) >= Materiality /\ Gain(codes[i]) >= L(codes[i])
    <3>1. codes[i] \in S
      BY <2>3
    <3> DEFINE d == codes[i]
    <3> HIDE DEF d
    <3>2. d \in S
      BY <3>1 DEF d
    <3>3. d \in Named /\ L(d) >= Materiality
      BY <2>6, <3>2
    <3>4. L(d) \in Int /\ Gain(d) \in Int /\ (L(d) > 0 => Gain(d) >= L(d))
      BY <2>5, <3>3
    <3>5. Materiality \in Nat /\ Materiality >= 1
      BY ScorecardAssumption
    <3> QED BY <3>2, <3>3, <3>4, <3>5 DEF d
  <2>13. ASSUME NEW i \in 1 .. k, NEW j \in 1 .. k, i < j, Weight[codes[j]] > 0
         PROVE  Gain(codes[i]) >= Gain(codes[j])
    <3>1. i \in 1 .. Cardinality(S) /\ j \in 1 .. Cardinality(S) /\ codes[i] = s[i] /\ codes[j] = s[j]
      BY <2>2, <2>3
    <3>2. L(codes[i]) >= L(codes[j])
      BY <2>2, <2>13, <3>1
    <3>3. L(codes[j]) >= Gain(codes[j])
      BY <2>5, <2>12, <2>13
    <3> QED BY <2>12, <3>2, <3>3
  <2>14. ASSUME NEW d \in Scored(segment), values[d] # Missing, Weight[d] > 0, Gain(d) >= Materiality
         PROVE  \/ d \in Range(codes)
                \/ /\ Cardinality(reasons) = MaxReasons
                   /\ \A i \in reasons : Gain(codes[i]) >= Gain(d)
    <3>1. d \in S
      BY <2>7, <2>14
    <3>2. PICK p \in 1 .. Cardinality(S) : s[p] = d
      BY <2>2, <3>1
    <3>3. p \in Int /\ Cardinality(S) \in Nat /\ k \in Nat
      BY <2>2
    <3>4. CASE p <= k
      <4>1. p \in 1 .. k
        BY <3>3, <3>4
      <4>2. p \in DOMAIN codes /\ codes[p] = d
        BY <2>3, <3>2, <4>1
      <4> QED BY <4>2 DEF Range
    <3>5. CASE k < p
      <4>1. k = MaxReasons
        BY <2>3, <3>3, <3>5
      <4>2. ASSUME NEW i \in 1 .. k PROVE Gain(codes[i]) >= Gain(d)
        <5>1. i \in 1 .. Cardinality(S) /\ i < p /\ codes[i] = s[i]
          BY <2>3, <3>3, <3>5
        <5>2. L(codes[i]) >= L(d)
          BY <2>2, <3>2, <5>1
        <5>3. d \in Named /\ L(d) >= Gain(d) /\ L(d) \in Int /\ Gain(d) \in Int
          BY <2>2, <2>5, <2>14, <3>1
        <5> QED BY <2>12, <5>2, <5>3
      <4> QED BY <2>9, <2>10, <4>1, <4>2
    <3> QED BY <3>3, <3>4, <3>5
  <2>15. segment = "THIN" => \A i \in reasons : codes[i] \notin Bureau
    BY <2>8, <2>9, <2>12
  <2>16. Cardinality(reasons) <= MaxReasons
    BY <2>3, <2>9, <2>10
  <2>17. \A i \in reasons :
           /\ values[codes[i]] # Missing
           /\ Gain(codes[i]) >= Materiality
           /\ \A j \in reasons : i < j /\ Weight[codes[j]] > 0 => Gain(codes[i]) >= Gain(codes[j])
    <3> SUFFICES ASSUME NEW i \in 1 .. k
                 PROVE  /\ values[codes[i]] # Missing
                        /\ Gain(codes[i]) >= Materiality
                        /\ \A j \in 1 .. k : i < j /\ Weight[codes[j]] > 0 => Gain(codes[i]) >= Gain(codes[j])
      BY <2>9
    <3>1. values[codes[i]] # Missing
      BY <2>6, <2>12
    <3>2. Materiality \in Int
      BY ScorecardAssumption
    <3>3. Gain(codes[i]) >= Materiality
      BY <2>12, <3>2
    <3> QED BY <2>13, <3>1, <3>3
  <2> HIDE DEF reasons
  <2> QED BY <2>11, <2>14, <2>15, <2>16, <2>17 DEF values, codes, segment, Gain, reasons
<1>2. ASSUME LifeInv, phase = "scored", result.dq = "BLOCK"
      PROVE  result.codes = <<"INSUFFICIENT_INFORMATION">>
  BY <1>2 DEF LifeInv, ReasonsGiven, ReasonCodes
<1>3. LifeInv => ReasonsAreTheWorst
  BY <1>1, <1>2 DEF ReasonsAreTheWorst, Gains
<1> QED BY <1>3, LifeKept, PTL

=============================================================================
