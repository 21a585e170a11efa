----------------------------- MODULE FiniteSums -----------------------------
(***************************************************************************)
(* Sums over finite sets (SumFunctionOnSet): what taking an element out,   *)
(* raising a term or renaming the indices does to them.                    *)
(*                                                                         *)
(* Induction over a finite set is stated as the absence of a smallest      *)
(* counterexample among its subsets (SmallestSubset).                      *)
(***************************************************************************)
EXTENDS Functions, FiniteSetTheorems, TLAPS

LEMMA SmallestSubset ==
    ASSUME NEW S, IsFiniteSet(S), NEW C, C \subseteq SUBSET S, C # {}
    PROVE  \E T \in C : \A U \in C : ~ (U \subseteq T /\ U # T)
<1> DEFINE R == StrictSubsetOrdering(S)
<1>1. IsWellFoundedOn(R, SUBSET S)
  BY FS_StrictSubsetOrderingWellFounded, FS_FiniteSubsetsOfFinite
<1>2. \E T \in C : \A U \in C : ~ (<<U, T>> \in R)
  <2> HIDE DEF R
  <2> QED
    BY <1>1, WFMin
<1> QED
  BY <1>2 DEF StrictSubsetOrdering

-----------------------------------------------------------------------------
(* The recursion the fold stands for has exactly one solution.             *)

Pick(s) == CHOOSE x \in s : TRUE

Solves(g, f, S) ==
    g = [s \in SUBSET S |-> IF s = {} THEN 0 ELSE f[Pick(s)] + g[s \ {Pick(s)}]]

Solution(f, S) == CHOOSE g : Solves(g, f, S)

LEMMA SumIsASolution == ASSUME NEW f, NEW S PROVE SumFunctionOnSet(f, S) = Solution(f, S)[S]
BY DEF SumFunctionOnSet, FoldFunctionOnSet, MapThenFoldSet, Solution, Solves, Pick

LEMMA SolutionAt ==
    ASSUME NEW f, NEW S, NEW g, Solves(g, f, S), NEW s, s \subseteq S
    PROVE  g[s] = IF s = {} THEN 0 ELSE f[Pick(s)] + g[s \ {Pick(s)}]
<1>1. s \in SUBSET S
  OBVIOUS
<1> QED
  BY <1>1 DEF Solves

LEMMA PickIsIn == ASSUME NEW s, s # {} PROVE Pick(s) \in s
BY DEF Pick

(* Two solutions agree wherever both are defined.                          *)
LEMMA SolutionsAgree ==
    ASSUME NEW f, NEW S, IsFiniteSet(S), NEW g, Solves(g, f, S),
           NEW T, T \subseteq S, NEW h, Solves(h, f, T)
    PROVE  \A s \in SUBSET T : g[s] = h[s]
<1> DEFINE C == {s \in SUBSET T : g[s] # h[s]}
<1> SUFFICES ASSUME C # {} PROVE FALSE
  OBVIOUS
<1>1. PICK s \in C : \A u \in C : ~ (u \subseteq s /\ u # s)
  <2>1. IsFiniteSet(T)
    BY FS_Subset
  <2>2. C \subseteq SUBSET T /\ C # {}
    OBVIOUS
  <2> HIDE DEF C
  <2> QED
    BY <2>1, <2>2, SmallestSubset
<1>2. s \subseteq T /\ s \subseteq S /\ g[s] # h[s]
  OBVIOUS
<1>3. s # {}
  BY <1>2, SolutionAt, SMTT(30)
<1>4. g[s \ {Pick(s)}] = h[s \ {Pick(s)}]
  <2>1. s \ {Pick(s)} \subseteq s /\ s \ {Pick(s)} # s
    BY <1>3, PickIsIn
  <2>2. s \ {Pick(s)} \in SUBSET T /\ s \ {Pick(s)} \notin C
    BY <1>1, <1>2, <2>1
  <2> QED
    BY <2>2
<1>5. g[s] = f[Pick(s)] + g[s \ {Pick(s)}] /\ h[s] = f[Pick(s)] + h[s \ {Pick(s)}]
  BY <1>2, <1>3, SolutionAt
<1> QED
  BY <1>2, <1>4, <1>5

LEMMA SolutionExists ==
    ASSUME NEW f, NEW S, IsFiniteSet(S)
    PROVE  Solves(Solution(f, S), f, S)
<1> DEFINE C == {T \in SUBSET S : ~ Solves(Solution(f, T), f, T)}
<1> SUFFICES ASSUME C # {} PROVE FALSE
  OBVIOUS
<1>1. PICK T \in C : \A U \in C : ~ (U \subseteq T /\ U # T)
  <2>1. C \subseteq SUBSET S
    OBVIOUS
  <2> HIDE DEF C
  <2> QED
    BY <2>1, SmallestSubset
<1>2. ASSUME NEW U, U \subseteq T, U # T
      PROVE  Solves(Solution(f, U), f, U) /\ IsFiniteSet(U)
  <2>1. U \in SUBSET S /\ U \notin C
    BY <1>1, <1>2
  <2> QED
    BY <2>1, FS_Subset
<1> DEFINE h == [s \in SUBSET T |->
                    IF s = {} THEN 0
                    ELSE f[Pick(s)] + Solution(f, s \ {Pick(s)})[s \ {Pick(s)}]]
<1>3. ASSUME NEW s, s \subseteq T, s # T
      PROVE  h[s] = Solution(f, s)[s]
  <2>1. Solves(Solution(f, s), f, s) /\ IsFiniteSet(s) /\ s \in SUBSET T
    BY <1>2, <1>3
  <2>2. CASE s = {}
    BY <2>1, <2>2, SolutionAt
  <2>3. CASE s # {}
    <3> DEFINE t == s \ {Pick(s)}
    <3>1. t \subseteq s /\ t \subseteq T /\ t # T
      BY <1>3
    <3>2. Solution(f, s)[t] = Solution(f, t)[t]
      <4>1. Solves(Solution(f, t), f, t) /\ t \in SUBSET t
        BY <3>1, <1>2
      <4> HIDE DEF t
      <4> QED
        BY <2>1, <3>1, <4>1, SolutionsAgree
    <3>3. Solution(f, s)[s] = f[Pick(s)] + Solution(f, s)[t]
      BY <2>1, <2>3, SolutionAt
    <3> QED
      BY <2>1, <2>3, <3>2, <3>3
  <2> QED
    BY <2>2, <2>3
<1>4. Solves(h, f, T)
  <2>1. ASSUME NEW s \in SUBSET T, s # {}
        PROVE  h[s \ {Pick(s)}] = Solution(f, s \ {Pick(s)})[s \ {Pick(s)}]
    <3>1. s \ {Pick(s)} \subseteq T /\ s \ {Pick(s)} # T
      BY <2>1, PickIsIn
    <3> HIDE DEF h
    <3> QED
      BY <3>1, <1>3
  <2>2. h = [s \in SUBSET T |-> IF s = {} THEN 0 ELSE f[Pick(s)] + h[s \ {Pick(s)}]]
    BY <2>1
  <2> QED
    BY <2>2 DEF Solves
<1>5. Solves(Solution(f, T), f, T)
  <2> HIDE DEF h
  <2> QED
    BY <1>4 DEF Solution
<1> QED
  BY <1>1, <1>5

LEMMA SumUnfolds ==
    ASSUME NEW f, NEW S, IsFiniteSet(S), S # {}
    PROVE  SumFunctionOnSet(f, S) = f[Pick(S)] + SumFunctionOnSet(f, S \ {Pick(S)})
<1> DEFINE T == S \ {Pick(S)}
<1>1. Solves(Solution(f, S), f, S)
  BY SolutionExists
<1>2. IsFiniteSet(T) /\ T \subseteq S /\ T \in SUBSET T
  BY FS_Subset
<1>3. Solution(f, S)[T] = Solution(f, T)[T]
  <2> HIDE DEF T
  <2>1. Solves(Solution(f, T), f, T)
    BY <1>2, SolutionExists
  <2> QED
    BY <1>1, <1>2, <2>1, SolutionsAgree
<1>4. Solution(f, S)[S] = f[Pick(S)] + Solution(f, S)[T]
  BY <1>1, SolutionAt
<1>5. SumFunctionOnSet(f, S) = Solution(f, S)[S] /\ SumFunctionOnSet(f, T) = Solution(f, T)[T]
  BY SumIsASolution
<1> QED
  BY <1>3, <1>4, <1>5

-----------------------------------------------------------------------------
(* What the proofs about components cite.                                  *)

LEMMA SumOfNone == ASSUME NEW f PROVE SumFunctionOnSet(f, {}) = 0
<1>1. Solves(Solution(f, {}), f, {})
  BY SolutionExists, FS_EmptySet
<1> QED
  BY <1>1, SolutionAt, SumIsASolution

LEMMA SumType ==
    ASSUME NEW f, NEW S, IsFiniteSet(S), \A x \in S : f[x] \in Nat
    PROVE  SumFunctionOnSet(f, S) \in Nat
<1> DEFINE C == {T \in SUBSET S : SumFunctionOnSet(f, T) \notin Nat}
<1> SUFFICES ASSUME C # {} PROVE FALSE
  OBVIOUS
<1>1. PICK T \in C : \A U \in C : ~ (U \subseteq T /\ U # T)
  <2>1. C \subseteq SUBSET S
    OBVIOUS
  <2> HIDE DEF C
  <2> QED
    BY <2>1, SmallestSubset
<1>2. T # {} /\ IsFiniteSet(T)
  <2>1. ASSUME T = {} PROVE FALSE
    <3>1. SumFunctionOnSet(f, T) = 0
      BY <2>1, SumOfNone
    <3> QED
      BY <1>1, <3>1
  <2> QED
    BY <2>1, FS_Subset
<1>3. Pick(T) \in T /\ f[Pick(T)] \in Nat
  BY <1>1, <1>2, PickIsIn
<1>4. SumFunctionOnSet(f, T \ {Pick(T)}) \in Nat
  BY <1>1, <1>3
<1> QED
  BY <1>1, <1>2, <1>3, <1>4, SumUnfolds

(* Any element may be taken out, not only the one the fold picks.          *)
LEMMA SumWithout ==
    ASSUME NEW f, NEW S, IsFiniteSet(S), \A x \in S : f[x] \in Nat, NEW e \in S
    PROVE  SumFunctionOnSet(f, S) = f[e] + SumFunctionOnSet(f, S \ {e})
<1> DEFINE C == {T \in SUBSET S :
                    \E x \in T : SumFunctionOnSet(f, T) # f[x] + SumFunctionOnSet(f, T \ {x})}
<1> SUFFICES ASSUME C # {} PROVE FALSE
  OBVIOUS
<1>1. PICK T \in C : \A U \in C : ~ (U \subseteq T /\ U # T)
  <2>1. C \subseteq SUBSET S
    OBVIOUS
  <2> HIDE DEF C
  <2> QED
    BY <2>1, SmallestSubset
<1>2. PICK x \in T : SumFunctionOnSet(f, T) # f[x] + SumFunctionOnSet(f, T \ {x})
  BY <1>1
<1> DEFINE y == Pick(T)
<1>3. /\ IsFiniteSet(T) /\ y \in T
      /\ SumFunctionOnSet(f, T) = f[y] + SumFunctionOnSet(f, T \ {y})
  BY <1>2, FS_Subset, PickIsIn, SumUnfolds
<1>4. x # y
  BY <1>2, <1>3
<1> HIDE DEF y
<1> DEFINE W == (T \ {y}) \ {x}
<1>5. SumFunctionOnSet(f, T \ {y}) = f[x] + SumFunctionOnSet(f, W)
  <2>1. T \ {y} \in SUBSET S /\ T \ {y} \notin C /\ x \in T \ {y}
    BY <1>1, <1>3, <1>4
  <2> QED
    BY <2>1
<1>6. SumFunctionOnSet(f, T \ {x}) = f[y] + SumFunctionOnSet(f, W)
  <2>1. T \ {x} \in SUBSET S /\ T \ {x} \notin C /\ y \in T \ {x}
    BY <1>1, <1>2, <1>3, <1>4
  <2>2. (T \ {x}) \ {y} = W
    OBVIOUS
  <2> QED
    BY <2>1, <2>2
<1>7. SumFunctionOnSet(f, W) \in Nat /\ f[x] \in Nat /\ f[y] \in Nat
  <2>1. IsFiniteSet(W) /\ W \subseteq S
    BY <1>1, <1>3, FS_Subset
  <2> HIDE DEF W
  <2> QED
    BY <2>1, <1>1, <1>2, <1>3, SumType
<1> QED
  BY <1>2, <1>3, <1>5, <1>6, <1>7

LEMMA SumWith ==
    ASSUME NEW f, NEW S, IsFiniteSet(S), NEW e, e \notin S, \A x \in S \cup {e} : f[x] \in Nat
    PROVE  SumFunctionOnSet(f, S \cup {e}) = f[e] + SumFunctionOnSet(f, S)
<1>1. IsFiniteSet(S \cup {e}) /\ (S \cup {e}) \ {e} = S
  BY FS_AddElement
<1> QED
  BY <1>1, SumWithout

LEMMA SumOfPart ==
    ASSUME NEW f, NEW S, IsFiniteSet(S), \A x \in S : f[x] \in Nat, NEW P, P \subseteq S
    PROVE  SumFunctionOnSet(f, P) <= SumFunctionOnSet(f, S)
<1> DEFINE C == {T \in SUBSET S : P \subseteq T /\ SumFunctionOnSet(f, P) > SumFunctionOnSet(f, T)}
<1> SUFFICES ASSUME C # {} PROVE FALSE
  BY SumType, FS_Subset
<1>1. PICK T \in C : \A U \in C : ~ (U \subseteq T /\ U # T)
  <2>1. C \subseteq SUBSET S
    OBVIOUS
  <2> HIDE DEF C
  <2> QED
    BY <2>1, SmallestSubset
<1>2. IsFiniteSet(T) /\ IsFiniteSet(P) /\ SumFunctionOnSet(f, P) \in Nat
  BY <1>1, FS_Subset, SumType
<1>3. PICK x \in T : x \notin P
  <2>1. T # P
    BY <1>2, <1>1
  <2> QED
    BY <1>1, <2>1
<1>4. SumFunctionOnSet(f, T) = f[x] + SumFunctionOnSet(f, T \ {x}) /\ f[x] \in Nat
  BY <1>1, <1>2, SumWithout
<1>5. SumFunctionOnSet(f, T \ {x}) \in Nat
  BY <1>1, <1>2, FS_Subset, SumType
<1>6. SumFunctionOnSet(f, P) <= SumFunctionOnSet(f, T \ {x})
  BY <1>1, <1>2, <1>3, <1>5
<1> QED
  BY <1>1, <1>2, <1>4, <1>5, <1>6

(* Terms that are no larger, under other names: the sum is no larger.      *)
LEMMA SumRenamed ==
    ASSUME NEW S, NEW T, IsFiniteSet(S), IsFiniteSet(T),
           NEW b \in Injection(S, T),
           NEW f, NEW g,
           \A x \in S : f[x] \in Nat /\ f[x] <= g[b[x]],
           \A y \in T : g[y] \in Nat
    PROVE  SumFunctionOnSet(f, S) <= SumFunctionOnSet(g, T)
<1> DEFINE Image(U) == {b[x] : x \in U}
           C == {U \in SUBSET S : SumFunctionOnSet(f, U) > SumFunctionOnSet(g, Image(U))}
<1>0. /\ b \in [S -> T] /\ \A x, y \in S : b[x] = b[y] => x = y
      /\ \A U \in SUBSET S : Image(U) \subseteq T
  BY DEF Injection, IsInjective
<1>1. C = {}
  <2> SUFFICES ASSUME C # {} PROVE FALSE
    OBVIOUS
  <2>1. PICK U \in C : \A V \in C : ~ (V \subseteq U /\ V # U)
    <3>1. C \subseteq SUBSET S
      OBVIOUS
    <3> HIDE DEF C
    <3> QED
      BY <3>1, SmallestSubset
  <2>2. IsFiniteSet(U) /\ IsFiniteSet(Image(U)) /\ U \subseteq S /\ Image(U) \subseteq T
    BY <1>0, FS_Subset
  <2>3. U # {}
    <3>1. ASSUME U = {} PROVE Image(U) = {}
      BY <3>1
    <3> QED
      BY <3>1, SumOfNone
  <2>4. PICK x : x \in U
    BY <2>3
  <2> DEFINE V == U \ {x}
  <2>5. Image(V) = Image(U) \ {b[x]} /\ b[x] \in Image(U)
    BY <1>0, <2>2, <2>4
  <2>6. SumFunctionOnSet(f, V) <= SumFunctionOnSet(g, Image(V))
    <3>1. V \in SUBSET S /\ V \notin C
      BY <2>1, <2>2, <2>4
    <3>2. IsFiniteSet(V) /\ IsFiniteSet(Image(V)) /\ Image(V) \subseteq T
      BY <1>0, <2>2, FS_Subset
    <3>3. SumFunctionOnSet(f, V) \in Nat /\ SumFunctionOnSet(g, Image(V)) \in Nat
      <4> HIDE DEF Image, V
      <4> QED
        BY <3>1, <3>2, SumType
    <3> QED
      BY <3>1, <3>3
  <2>7. SumFunctionOnSet(f, U) = f[x] + SumFunctionOnSet(f, V)
    BY <2>2, <2>4, SumWithout
  <2>8. SumFunctionOnSet(g, Image(U)) = g[b[x]] + SumFunctionOnSet(g, Image(V))
    <3>1. \A y \in Image(U) : g[y] \in Nat
      BY <2>2
    <3> HIDE DEF Image, V
    <3>2. SumFunctionOnSet(g, Image(U)) = g[b[x]] + SumFunctionOnSet(g, Image(U) \ {b[x]})
      BY <2>2, <2>5, <3>1, SumWithout
    <3> QED
      BY <2>5, <3>2
  <2>9. /\ SumFunctionOnSet(f, V) \in Nat /\ SumFunctionOnSet(g, Image(V)) \in Nat
        /\ f[x] \in Nat /\ g[b[x]] \in Nat /\ f[x] <= g[b[x]]
    <3>1. IsFiniteSet(V) /\ IsFiniteSet(Image(V)) /\ Image(V) \subseteq T /\ V \subseteq S
      BY <1>0, <2>2, FS_Subset
    <3> HIDE DEF Image, V
    <3> QED
      BY <3>1, <2>2, <2>4, <1>0, SumType
  <2> HIDE DEF Image, V
  <2> QED
    BY <2>1, <2>6, <2>7, <2>8, <2>9
<1>2. IsFiniteSet(Image(S)) /\ Image(S) \subseteq T
  BY <1>0, FS_Subset
<1>3. SumFunctionOnSet(f, S) <= SumFunctionOnSet(g, Image(S))
  <2>1. S \in SUBSET S /\ S \notin C
    BY <1>1
  <2>2. SumFunctionOnSet(f, S) \in Nat /\ SumFunctionOnSet(g, Image(S)) \in Nat
    <3> HIDE DEF Image
    <3> QED
      BY <1>2, SumType
  <2> QED
    BY <2>1, <2>2
<1>4. SumFunctionOnSet(g, Image(S)) <= SumFunctionOnSet(g, T)
  <2> HIDE DEF Image
  <2> QED
    BY <1>2, SumOfPart
<1>5. /\ SumFunctionOnSet(f, S) \in Nat /\ SumFunctionOnSet(g, Image(S)) \in Nat
      /\ SumFunctionOnSet(g, T) \in Nat
  <2> HIDE DEF Image
  <2> QED
    BY <1>2, SumType
<1> QED
  BY <1>3, <1>4, <1>5

LEMMA SumIsMonotone ==
    ASSUME NEW S, NEW T, S \subseteq T, IsFiniteSet(T), NEW f, NEW g,
           \A x \in S : f[x] \in Nat /\ f[x] <= g[x],
           \A x \in T : g[x] \in Nat
    PROVE  SumFunctionOnSet(f, S) <= SumFunctionOnSet(g, T)
<1> DEFINE b == [x \in S |-> x]
<1>1. b \in Injection(S, T) /\ IsFiniteSet(S)
  BY FS_Subset DEF Injection, IsInjective
<1>2. \A x \in S : f[x] \in Nat /\ f[x] <= g[b[x]]
  OBVIOUS
<1> HIDE DEF b
<1> QED
  BY <1>1, <1>2, SumRenamed

LEMMA SumOfEqualTerms ==
    ASSUME NEW S, IsFiniteSet(S), NEW f, NEW g, \A x \in S : f[x] = g[x] /\ g[x] \in Nat
    PROVE  SumFunctionOnSet(f, S) = SumFunctionOnSet(g, S)
<1>1. /\ SumFunctionOnSet(f, S) <= SumFunctionOnSet(g, S)
      /\ SumFunctionOnSet(g, S) <= SumFunctionOnSet(f, S)
  BY SumIsMonotone
<1>2. SumFunctionOnSet(f, S) \in Nat /\ SumFunctionOnSet(g, S) \in Nat
  BY SumType
<1> QED
  BY <1>1, <1>2

(* A sum is at most its largest term, times the number of terms.           *)
LEMMA SumIsBounded ==
    ASSUME NEW S, IsFiniteSet(S), NEW m \in Nat, NEW f, \A x \in S : f[x] \in 0..m
    PROVE  SumFunctionOnSet(f, S) <= Cardinality(S) * m
<1> DEFINE C == {T \in SUBSET S : ~ (SumFunctionOnSet(f, T) <= Cardinality(T) * m)}
<1> SUFFICES ASSUME C # {} PROVE FALSE
  OBVIOUS
<1>1. PICK T \in C : \A U \in C : ~ (U \subseteq T /\ U # T)
  <2>1. C \subseteq SUBSET S
    OBVIOUS
  <2> HIDE DEF C
  <2> QED
    BY <2>1, SmallestSubset
<1>2. IsFiniteSet(T) /\ Cardinality(T) \in Nat
  BY <1>1, FS_Subset, FS_CardinalityType
<1>3. T # {}
  <2>1. ASSUME T = {} PROVE FALSE
    <3>1. SumFunctionOnSet(f, T) = 0 /\ Cardinality(T) = 0
      BY <2>1, SumOfNone, FS_EmptySet
    <3> QED
      BY <1>1, <3>1
  <2> QED
    BY <2>1
<1>4. PICK x : x \in T
  BY <1>3
<1>5. /\ IsFiniteSet(T \ {x}) /\ Cardinality(T \ {x}) = Cardinality(T) - 1
      /\ SumFunctionOnSet(f, T \ {x}) <= Cardinality(T \ {x}) * m
  BY <1>1, <1>2, <1>4, FS_RemoveElement
<1>6. SumFunctionOnSet(f, T) = f[x] + SumFunctionOnSet(f, T \ {x}) /\ f[x] \in 0..m
  BY <1>1, <1>2, <1>4, SumWithout
<1>7. SumFunctionOnSet(f, T \ {x}) \in Nat
  BY <1>1, <1>5, SumType
<1>8. (Cardinality(T) - 1) * m + m = Cardinality(T) * m
  BY <1>2
<1>9. (Cardinality(T) - 1) * m \in Int /\ Cardinality(T) * m \in Int
  BY <1>2
<1> QED
  BY <1>1, <1>5, <1>6, <1>7, <1>8, <1>9

(* A sum of terms that are each within two others is within their sums.    *)
LEMMA SumIsWithinTwo ==
    ASSUME NEW S, IsFiniteSet(S), NEW k, NEW f, NEW g,
           \A x \in S : k[x] \in Nat /\ f[x] \in Nat /\ g[x] \in Nat /\ k[x] <= f[x] + g[x]
    PROVE  SumFunctionOnSet(k, S) <= SumFunctionOnSet(f, S) + SumFunctionOnSet(g, S)
<1> DEFINE Within(T) == SumFunctionOnSet(k, T) <= SumFunctionOnSet(f, T) + SumFunctionOnSet(g, T)
           C == {T \in SUBSET S : ~ Within(T)}
<1> SUFFICES ASSUME C # {} PROVE FALSE
  OBVIOUS
<1>1. PICK T \in C : \A U \in C : ~ (U \subseteq T /\ U # T)
  <2>1. C \subseteq SUBSET S
    OBVIOUS
  <2> HIDE DEF C
  <2> QED
    BY <2>1, SmallestSubset
<1>2. IsFiniteSet(T) /\ T \subseteq S
  BY <1>1, FS_Subset
<1>3. T # {}
  <2>1. ASSUME T = {} PROVE FALSE
    <3>1. SumFunctionOnSet(k, T) = 0 /\ SumFunctionOnSet(f, T) = 0 /\ SumFunctionOnSet(g, T) = 0
      BY <2>1, SumOfNone
    <3> QED
      BY <1>1, <3>1
  <2> QED
    BY <2>1
<1>4. PICK x : x \in T
  BY <1>3
<1>5. IsFiniteSet(T \ {x}) /\ Within(T \ {x})
  BY <1>1, <1>2, <1>4, FS_RemoveElement
<1>6. /\ SumFunctionOnSet(k, T) = k[x] + SumFunctionOnSet(k, T \ {x})
      /\ SumFunctionOnSet(f, T) = f[x] + SumFunctionOnSet(f, T \ {x})
      /\ SumFunctionOnSet(g, T) = g[x] + SumFunctionOnSet(g, T \ {x})
  BY <1>2, <1>4, SumWithout
<1>7. /\ SumFunctionOnSet(k, T \ {x}) \in Nat /\ SumFunctionOnSet(f, T \ {x}) \in Nat
      /\ SumFunctionOnSet(g, T \ {x}) \in Nat
  BY <1>2, <1>5, SumType
<1>8. k[x] \in Nat /\ f[x] \in Nat /\ g[x] \in Nat /\ k[x] <= f[x] + g[x]
  BY <1>2, <1>4
<1>9. Within(T)
  BY <1>5, <1>6, <1>7, <1>8
<1> QED
  BY <1>1, <1>9

(* Sums that differ in one term differ by what that term has changed.      *)
LEMMA SumOfOneChange ==
    ASSUME NEW S, IsFiniteSet(S), NEW f, NEW g, NEW e \in S,
           \A x \in S : f[x] \in Nat /\ g[x] \in Nat,
           \A x \in S \ {e} : f[x] = g[x]
    PROVE  SumFunctionOnSet(f, S) + g[e] = SumFunctionOnSet(g, S) + f[e]
<1>1. IsFiniteSet(S \ {e})
  BY FS_Subset
<1>2. SumFunctionOnSet(f, S \ {e}) = SumFunctionOnSet(g, S \ {e})
  BY <1>1, SumOfEqualTerms
<1>3. SumFunctionOnSet(f, S \ {e}) \in Nat
  BY <1>1, SumType
<1>4. /\ SumFunctionOnSet(f, S) = f[e] + SumFunctionOnSet(f, S \ {e})
      /\ SumFunctionOnSet(g, S) = g[e] + SumFunctionOnSet(g, S \ {e})
  BY SumWithout
<1> QED
  BY <1>2, <1>3, <1>4

LEMMA SumOfZeros ==
    ASSUME NEW S, IsFiniteSet(S), NEW f, \A x \in S : f[x] = 0
    PROVE  SumFunctionOnSet(f, S) = 0
<1>1. SumFunctionOnSet(f, S) <= Cardinality(S) * 0 /\ SumFunctionOnSet(f, S) \in Nat
  BY SumIsBounded, SumType
<1>2. Cardinality(S) * 0 = 0
  BY FS_CardinalityType
<1> QED
  BY <1>1, <1>2

LEMMA SumOfUnion ==
    ASSUME NEW S, IsFiniteSet(S), NEW T, IsFiniteSet(T), S \cap T = {}, NEW f,
           \A x \in S \cup T : f[x] \in Nat
    PROVE  SumFunctionOnSet(f, S \cup T) = SumFunctionOnSet(f, S) + SumFunctionOnSet(f, T)
<1> DEFINE C == {U \in SUBSET T :
                    SumFunctionOnSet(f, S \cup U) # SumFunctionOnSet(f, S) + SumFunctionOnSet(f, U)}
<1>0. SumFunctionOnSet(f, S) \in Nat
  BY SumType
<1>1. C = {}
  <2> SUFFICES ASSUME C # {} PROVE FALSE
    OBVIOUS
  <2>1. PICK U \in C : \A V \in C : ~ (V \subseteq U /\ V # U)
    <3>1. IsFiniteSet(T) /\ C \subseteq SUBSET T /\ C # {}
      OBVIOUS
    <3> HIDE DEF C
    <3> QED
      BY ONLY <3>1, SmallestSubset
  <2>2. U \subseteq T /\ IsFiniteSet(U)
    BY FS_Subset
  <2>3. U # {}
    <3>1. ASSUME U = {} PROVE FALSE
      <4>1. SumFunctionOnSet(f, S \cup U) = SumFunctionOnSet(f, S) /\ SumFunctionOnSet(f, U) = 0
        <5>1. S \cup U = S
          BY <3>1
        <5> QED
          BY <3>1, <5>1, SumOfNone
      <4>2. SumFunctionOnSet(f, S \cup U) # SumFunctionOnSet(f, S) + SumFunctionOnSet(f, U)
        BY <2>1
      <4> HIDE DEF C
      <4> QED
        BY <1>0, <4>1, <4>2
    <3> QED
      BY <3>1
  <2>4. PICK x : x \in U
    BY <2>3
  <2> DEFINE V == U \ {x}
  <2>5. IsFiniteSet(V) /\ V \subseteq T /\ x \notin V /\ x \notin S \cup V /\ IsFiniteSet(S \cup V)
    BY <2>2, <2>4, FS_Subset, FS_Union
  <2>6. SumFunctionOnSet(f, S \cup V) = SumFunctionOnSet(f, S) + SumFunctionOnSet(f, V)
    BY <2>1, <2>2, <2>4
  <2>7. S \cup U = (S \cup V) \cup {x} /\ U = V \cup {x}
    BY <2>4
  <2>8. f[x] \in Nat /\ \A y \in (S \cup V) \cup {x} : f[y] \in Nat
    BY <2>2, <2>4, <2>5
  <2> HIDE DEF V
  <2>9. /\ SumFunctionOnSet(f, S \cup U) = f[x] + SumFunctionOnSet(f, S \cup V)
        /\ SumFunctionOnSet(f, U) = f[x] + SumFunctionOnSet(f, V)
        /\ SumFunctionOnSet(f, V) \in Nat
    BY <2>5, <2>7, <2>8, SumWith, SumType
  <2> QED
    BY <1>0, <2>1, <2>6, <2>8, <2>9
<1> QED
  BY <1>1

(* Only the terms that are not zero count.                                 *)
LEMMA SumOfSupport ==
    ASSUME NEW S, IsFiniteSet(S), NEW P, P \subseteq S, NEW f,
           \A x \in S : f[x] \in Nat, \A x \in S \ P : f[x] = 0
    PROVE  SumFunctionOnSet(f, S) = SumFunctionOnSet(f, P)
<1>1. IsFiniteSet(P) /\ IsFiniteSet(S \ P) /\ P \cap (S \ P) = {} /\ P \cup (S \ P) = S
  BY FS_Subset
<1>2. SumFunctionOnSet(f, S) = SumFunctionOnSet(f, P) + SumFunctionOnSet(f, S \ P)
  <2> DEFINE Q == S \ P
  <2>1. IsFiniteSet(Q) /\ P \cap Q = {} /\ P \cup Q = S
    BY <1>1
  <2> HIDE DEF Q
  <2>2. SumFunctionOnSet(f, P \cup Q) = SumFunctionOnSet(f, P) + SumFunctionOnSet(f, Q)
    BY <1>1, <2>1, SumOfUnion
  <2> QED
    BY <2>1, <2>2 DEF Q
<1>3. SumFunctionOnSet(f, S \ P) = 0 /\ SumFunctionOnSet(f, P) \in Nat
  BY <1>1, SumOfZeros, SumType
<1> QED
  BY <1>2, <1>3

(* A finite set of naturals that is not empty has a largest element.       *)
LEMMA LargestExists ==
    ASSUME NEW S, IsFiniteSet(S), S \subseteq Nat, S # {}
    PROVE  \E x \in S : \A y \in S : x >= y
<1> DEFINE C == {T \in SUBSET S : T # {} /\ ~ \E x \in T : \A y \in T : x >= y}
<1> SUFFICES ASSUME C # {} PROVE FALSE
  OBVIOUS
<1>1. PICK T \in C : \A U \in C : ~ (U \subseteq T /\ U # T)
  <2>1. IsFiniteSet(S) /\ C \subseteq SUBSET S /\ C # {}
    OBVIOUS
  <2> HIDE DEF C
  <2> QED
    BY ONLY <2>1, SmallestSubset
<1>2. PICK x \in T : x \in Nat
  BY <1>1
<1>3. T \ {x} # {}
  BY <1>1, <1>2
<1>4. PICK m \in T \ {x} : \A y \in T \ {x} : m >= y
  <2>1. T \ {x} \in SUBSET S /\ T \ {x} \notin C
    BY <1>1
  <2> QED
    BY <1>3, <2>1
<1>5. m \in Nat /\ \A y \in T : y \in Nat
  BY <1>1, <1>4
<1>6. CASE m >= x
  BY <1>1, <1>4, <1>6
<1>7. CASE ~ (m >= x)
  BY <1>1, <1>2, <1>4, <1>5, <1>7
<1> QED
  BY <1>6, <1>7

(* A product grows with its first factor.                                  *)
LEMMA ProductGrows ==
    ASSUME NEW m \in Nat, NEW n \in Nat, m <= n, NEW k \in Nat
    PROVE  m * k <= n * k /\ m * k \in Nat /\ n * k \in Nat
<1>1. n - m \in Nat /\ (n - m) * k \in Nat /\ n * k = m * k + (n - m) * k
  OBVIOUS
<1> QED
  BY <1>1
=============================================================================
