----------------------------- MODULE FiniteSums -----------------------------
(***************************************************************************)
(* What the proofs need to know of SumFunctionOnSet, the sum of a          *)
(* function over a finite set (module Functions): it does not depend on    *)
(* the order in which the elements are taken, it follows a change of the   *)
(* function, and it grows with it.                                         *)
(*                                                                         *)
(* SumFunctionOnSet recurs over the subsets of the set.  The facts are     *)
(* proved by taking a least subset that contradicts them (LeastSet), since *)
(* the proper subsets of a finite set are well-founded.  The smaller and   *)
(* the larger of two numbers (module FiniteSetsExt) are at the end.        *)
(***************************************************************************)
EXTENDS Integers, FiniteSetsExt, FiniteSetTheorems, TLAPS

Pick(s) == CHOOSE x \in s : TRUE

\* The recursion that defines the sum, for the subsets of S.
Solves(f, S, g) ==
    g = [s \in SUBSET S |-> IF s = {} THEN 0 ELSE f[Pick(s)] + g[s \ {Pick(s)}]]

\* Among the subsets of a finite set that have a property, one has no proper
\* subset with the property.
LEMMA LeastSet ==
    ASSUME NEW S, IsFiniteSet(S), NEW B \in SUBSET SUBSET S, B # {}
    PROVE  \E s \in B : \A t \in SUBSET s : t # s => t \notin B
  <1>1. IsWellFoundedOn(StrictSubsetOrdering(S), FiniteSubsetsOf(S))
    BY FS_StrictSubsetOrderingWellFounded
  <1>2. FiniteSubsetsOf(S) = SUBSET S
    BY FS_FiniteSubsetsOfFinite
  <1>3. PICK s \in B : \A t \in B : ~ (<<t, s>> \in StrictSubsetOrdering(S))
    <2>1. B \subseteq FiniteSubsetsOf(S)
      BY <1>2
    <2> QED BY <1>1, <2>1, WFMin
  <1> QED BY <1>3 DEF StrictSubsetOrdering

\* What is picked from a set that has an element is one of its elements.
LEMMA PickMember == ASSUME NEW s, s # {} PROVE Pick(s) \in s
  BY DEF Pick

\* Two solutions agree where both are defined.
LEMMA SolutionsAgree ==
    ASSUME NEW f, NEW S, IsFiniteSet(S), NEW U \in SUBSET S, NEW T \in SUBSET S,
           NEW g, Solves(f, U, g), NEW h, Solves(f, T, h)
    PROVE  \A s \in SUBSET U : s \in SUBSET T => g[s] = h[s]
  <1> DEFINE B == {s \in SUBSET S : s \subseteq U /\ s \subseteq T /\ g[s] # h[s]}
  <1>1. SUFFICES ASSUME B # {} PROVE FALSE
    OBVIOUS
  <1>2. PICK s \in B : \A t \in SUBSET s : t # s => t \notin B
    <2>1. B \in SUBSET SUBSET S
      OBVIOUS
    <2> HIDE DEF B
    <2> QED BY <1>1, <2>1, LeastSet
  <1>3. /\ g[s] = IF s = {} THEN 0 ELSE f[Pick(s)] + g[s \ {Pick(s)}]
        /\ h[s] = IF s = {} THEN 0 ELSE f[Pick(s)] + h[s \ {Pick(s)}]
    BY DEF Solves
  <1>4. s # {} => g[s \ {Pick(s)}] = h[s \ {Pick(s)}]
    BY <1>2, PickMember
  <1> QED BY <1>2, <1>3, <1>4

Solution(f, S) == CHOOSE g : Solves(f, S, g)

\* A finite set has a solution.
LEMMA SolutionExists ==
    ASSUME NEW f, NEW S, IsFiniteSet(S)
    PROVE  Solves(f, S, Solution(f, S))
  <1> DEFINE B == {T \in SUBSET S : ~ \E g : Solves(f, T, g)}
  <1>1. SUFFICES ASSUME B # {} PROVE FALSE
    BY DEF Solution
  <1>2. PICK T \in B : \A t \in SUBSET T : t # T => t \notin B
    <2>1. B \in SUBSET SUBSET S
      OBVIOUS
    <2> HIDE DEF B
    <2> QED BY <1>1, <2>1, LeastSet
  <1> DEFINE Rest(s) == s \ {Pick(s)}
             h == [s \in SUBSET T |->
                     IF s = {} THEN 0 ELSE f[Pick(s)] + Solution(f, Rest(s))[Rest(s)]]
  <1>3. ASSUME NEW u \in SUBSET T, u # T PROVE Solves(f, u, Solution(f, u))
    BY <1>2, <1>3 DEF Solution
  <1>4. ASSUME NEW u \in SUBSET T, u # T PROVE h[u] = Solution(f, u)[u]
    <2>1. h[u] = IF u = {} THEN 0 ELSE f[Pick(u)] + Solution(f, Rest(u))[Rest(u)]
      OBVIOUS
    <2> HIDE DEF h
    <2>2. Solution(f, u)[u]
            = IF u = {} THEN 0 ELSE f[Pick(u)] + Solution(f, u)[Rest(u)]
      <3> DEFINE g == Solution(f, u)
      <3>1. g = [s \in SUBSET u |-> IF s = {} THEN 0 ELSE f[Pick(s)] + g[Rest(s)]]
        BY <1>3, <1>4 DEF Solves
      <3> HIDE DEF g
      <3>2. g[u] = IF u = {} THEN 0 ELSE f[Pick(u)] + g[Rest(u)]
        BY <3>1
      <3> QED BY <3>2 DEF g
    <2>3. ASSUME u # {} PROVE Solution(f, Rest(u))[Rest(u)] = Solution(f, u)[Rest(u)]
      <3>1. Rest(u) \in SUBSET T /\ Rest(u) # T /\ Rest(u) \subseteq u
        BY <2>3, PickMember
      <3>2. Solves(f, Rest(u), Solution(f, Rest(u))) /\ Solves(f, u, Solution(f, u))
        BY <1>3, <1>4, <3>1
      <3>3. Rest(u) \in SUBSET S /\ u \in SUBSET S
        BY <3>1
      <3> HIDE DEF Rest, B
      <3> QED BY <3>1, <3>2, <3>3, SolutionsAgree
    <2> QED BY <2>1, <2>2, <2>3
  <1>5. Solves(f, T, h)
    <2>1. ASSUME NEW s \in SUBSET T, s # {} PROVE h[Rest(s)] = Solution(f, Rest(s))[Rest(s)]
      <3>1. Rest(s) \in SUBSET T /\ Rest(s) # T
        BY <2>1, PickMember
      <3> HIDE DEF Rest, h
      <3> QED BY <1>4, <3>1
    <2>2. h = [s \in SUBSET T |-> IF s = {} THEN 0 ELSE f[Pick(s)] + h[Rest(s)]]
      <3> DEFINE k == h
      <3>1. \A s \in SUBSET T : s # {} => k[Rest(s)] = Solution(f, Rest(s))[Rest(s)]
        BY <2>1
      <3>2. k = h
        OBVIOUS
      <3> HIDE DEF k, Rest
      <3>3. [s \in SUBSET T |-> IF s = {} THEN 0 ELSE f[Pick(s)] + k[Rest(s)]] = h
        BY <3>1
      <3> QED BY <3>2, <3>3
    <2> QED BY <2>2 DEF Solves
  <1> QED BY <1>2, <1>5

\* The library's sum is the value of a solution.
LEMMA SumOfSolution ==
    ASSUME NEW f, NEW S PROVE SumFunctionOnSet(f, S) = Solution(f, S)[S]
  BY DEF Solution, SumFunctionOnSet, FoldFunctionOnSet, MapThenFoldSet, Solves, Pick

\* Any solution for a set tells the sum of each of its subsets.
LEMMA SumIsSolution ==
    ASSUME NEW f, NEW S, IsFiniteSet(S), NEW g, Solves(f, S, g), NEW T \in SUBSET S
    PROVE  SumFunctionOnSet(f, T) = g[T]
  <1>1. Solves(f, T, Solution(f, T))
    BY SolutionExists, FS_Subset
  <1>2. Solution(f, T)[T] = g[T]
    BY <1>1, SolutionsAgree
  <1> QED BY <1>2, SumOfSolution

\* The sum over nothing, and the step of the recursion.
LEMMA SumStep ==
    ASSUME NEW f, NEW S, IsFiniteSet(S)
    PROVE  SumFunctionOnSet(f, S) = IF S = {} THEN 0 ELSE f[Pick(S)] + SumFunctionOnSet(f, S \ {Pick(S)})
  <1> DEFINE g == Solution(f, S)
  <1>1. Solves(f, S, g)
    BY SolutionExists
  <1> HIDE DEF g
  <1>2. g[S] = IF S = {} THEN 0 ELSE f[Pick(S)] + g[S \ {Pick(S)}]
    BY <1>1 DEF Solves
  <1>3. SumFunctionOnSet(f, S) = g[S] /\ SumFunctionOnSet(f, S \ {Pick(S)}) = g[S \ {Pick(S)}]
    BY <1>1, SumIsSolution
  <1> QED BY <1>2, <1>3

-----------------------------------------------------------------------------
(* The facts that are used elsewhere. *)

\* Nothing sums to zero.
LEMMA SumEmpty == ASSUME NEW f PROVE SumFunctionOnSet(f, {}) = 0
  BY SumStep, FS_EmptySet

\* Integers sum to an integer.
LEMMA SumType ==
    ASSUME NEW f, NEW S, IsFiniteSet(S), \A x \in S : f[x] \in Int
    PROVE  SumFunctionOnSet(f, S) \in Int
  <1> DEFINE B == {T \in SUBSET S : SumFunctionOnSet(f, T) \notin Int}
  <1>1. SUFFICES ASSUME B # {} PROVE FALSE
    OBVIOUS
  <1>2. PICK T \in B : \A t \in SUBSET T : t # T => t \notin B
    <2>1. B \in SUBSET SUBSET S
      OBVIOUS
    <2> HIDE DEF B
    <2> QED BY <1>1, <2>1, LeastSet
  <1>3. SumFunctionOnSet(f, T)
          = IF T = {} THEN 0 ELSE f[Pick(T)] + SumFunctionOnSet(f, T \ {Pick(T)})
    BY SumStep, FS_Subset
  <1>4. T # {} => SumFunctionOnSet(f, T \ {Pick(T)}) \in Int /\ f[Pick(T)] \in Int
    BY <1>2, PickMember
  <1> QED BY <1>2, <1>3, <1>4

\* Any element may be taken out first.
LEMMA SumRemove ==
    ASSUME NEW f, NEW S, IsFiniteSet(S), \A x \in S : f[x] \in Int, NEW e \in S
    PROVE  SumFunctionOnSet(f, S) = f[e] + SumFunctionOnSet(f, S \ {e})
  <1> DEFINE Fails(T) == \E x \in T :
                 SumFunctionOnSet(f, T) # f[x] + SumFunctionOnSet(f, T \ {x})
             B == {T \in SUBSET S : Fails(T)}
  <1>1. SUFFICES ASSUME B # {} PROVE FALSE
    OBVIOUS
  <1>2. PICK T \in B : \A t \in SUBSET T : t # T => t \notin B
    <2>1. B \in SUBSET SUBSET S
      OBVIOUS
    <2> HIDE DEF B
    <2> QED BY <1>1, <2>1, LeastSet
  <1>3. PICK x \in T : SumFunctionOnSet(f, T) # f[x] + SumFunctionOnSet(f, T \ {x})
    BY <1>2
  <1> DEFINE p == Pick(T)
  <1>4. p \in T /\ T # {}
    BY <1>3, PickMember
  <1>5. SumFunctionOnSet(f, T) = f[p] + SumFunctionOnSet(f, T \ {p})
    BY <1>4, SumStep, FS_Subset
  <1> HIDE DEF p
  <1>6. p # x
    BY <1>3, <1>5
  <1>7. SumFunctionOnSet(f, T \ {p}) = f[x] + SumFunctionOnSet(f, (T \ {p}) \ {x})
    BY <1>2, <1>3, <1>4, <1>6
  <1>8. SumFunctionOnSet(f, T \ {x}) = f[p] + SumFunctionOnSet(f, (T \ {x}) \ {p})
    BY <1>2, <1>3, <1>4, <1>6
  <1>9. (T \ {p}) \ {x} = (T \ {x}) \ {p}
    OBVIOUS
  <1>10. SumFunctionOnSet(f, (T \ {x}) \ {p}) \in Int
    <2>1. IsFiniteSet((T \ {x}) \ {p}) /\ \A y \in (T \ {x}) \ {p} : f[y] \in Int
      BY FS_Subset
    <2> QED BY <2>1, SumType
  <1>11. f[p] \in Int /\ f[x] \in Int
    BY <1>3, <1>4
  <1>12. SumFunctionOnSet(f, T \ {p}) = f[x] + SumFunctionOnSet(f, (T \ {x}) \ {p})
    BY <1>7, <1>9
  <1> HIDE DEF B
  <1> QED BY <1>3, <1>5, <1>8, <1>10, <1>11, <1>12

\* The sum over a set and one more element.
LEMMA SumAdd ==
    ASSUME NEW f, NEW S, IsFiniteSet(S), NEW e, e \notin S,
           \A x \in S \cup {e} : f[x] \in Int
    PROVE  SumFunctionOnSet(f, S \cup {e}) = f[e] + SumFunctionOnSet(f, S)
  <1>1. IsFiniteSet(S \cup {e}) /\ (S \cup {e}) \ {e} = S
    BY FS_AddElement
  <1>2. e \in S \cup {e}
    OBVIOUS
  <1> QED BY <1>1, <1>2, SumRemove

\* Functions that agree on the set have the same sum.
LEMMA SumSame ==
    ASSUME NEW f, NEW g, NEW S, IsFiniteSet(S), \A x \in S : f[x] = g[x]
    PROVE  SumFunctionOnSet(f, S) = SumFunctionOnSet(g, S)
  <1> DEFINE B == {T \in SUBSET S : SumFunctionOnSet(f, T) # SumFunctionOnSet(g, T)}
  <1>1. SUFFICES ASSUME B # {} PROVE FALSE
    OBVIOUS
  <1>2. PICK T \in B : \A t \in SUBSET T : t # T => t \notin B
    <2>1. B \in SUBSET SUBSET S
      OBVIOUS
    <2> HIDE DEF B
    <2> QED BY <1>1, <2>1, LeastSet
  <1>3. /\ SumFunctionOnSet(f, T)
             = IF T = {} THEN 0 ELSE f[Pick(T)] + SumFunctionOnSet(f, T \ {Pick(T)})
        /\ SumFunctionOnSet(g, T)
             = IF T = {} THEN 0 ELSE g[Pick(T)] + SumFunctionOnSet(g, T \ {Pick(T)})
    BY SumStep, FS_Subset
  <1>4. T # {} => /\ f[Pick(T)] = g[Pick(T)]
                  /\ SumFunctionOnSet(f, T \ {Pick(T)}) = SumFunctionOnSet(g, T \ {Pick(T)})
    BY <1>2, PickMember
  <1> QED BY <1>2, <1>3, <1>4

\* A change of one term changes the sum by as much.
LEMMA SumUpdate ==
    ASSUME NEW f, NEW g, NEW S, IsFiniteSet(S), NEW e \in S,
           \A x \in S : f[x] \in Int, \A x \in S : g[x] \in Int,
           \A x \in S : x # e => f[x] = g[x]
    PROVE  SumFunctionOnSet(g, S) = SumFunctionOnSet(f, S) + g[e] - f[e]
  <1>1. SumFunctionOnSet(f, S) = f[e] + SumFunctionOnSet(f, S \ {e})
    BY SumRemove
  <1>2. SumFunctionOnSet(g, S) = g[e] + SumFunctionOnSet(g, S \ {e})
    BY SumRemove
  <1>3. IsFiniteSet(S \ {e}) /\ \A x \in S \ {e} : f[x] = g[x]
    BY FS_Subset
  <1>4. SumFunctionOnSet(f, S \ {e}) = SumFunctionOnSet(g, S \ {e})
    BY <1>3, SumSame
  <1>5. SumFunctionOnSet(f, S \ {e}) \in Int
    BY <1>3, SumType
  <1>6. f[e] \in Int /\ g[e] \in Int
    OBVIOUS
  <1> QED BY <1>1, <1>2, <1>4, <1>5, <1>6

\* Sums are added term by term.
LEMMA SumPlus ==
    ASSUME NEW f, NEW g, NEW h, NEW S, IsFiniteSet(S),
           \A x \in S : f[x] \in Int /\ g[x] \in Int /\ h[x] = f[x] + g[x]
    PROVE  SumFunctionOnSet(h, S) = SumFunctionOnSet(f, S) + SumFunctionOnSet(g, S)
  <1> DEFINE Fails(T) == SumFunctionOnSet(h, T)
                           # SumFunctionOnSet(f, T) + SumFunctionOnSet(g, T)
             B == {T \in SUBSET S : Fails(T)}
  <1>1. SUFFICES ASSUME B # {} PROVE FALSE
    OBVIOUS
  <1>2. PICK T \in B : \A t \in SUBSET T : t # T => t \notin B
    <2>1. B \in SUBSET SUBSET S
      OBVIOUS
    <2> HIDE DEF B
    <2> QED BY <1>1, <2>1, LeastSet
  <1>3. T # {}
    BY <1>2, SumEmpty
  <1> DEFINE p == Pick(T)
             R == T \ {p}
  <1>4. p \in T /\ IsFiniteSet(R) /\ IsFiniteSet(T)
    BY <1>3, PickMember, FS_Subset
  <1>5. SumFunctionOnSet(h, R) = SumFunctionOnSet(f, R) + SumFunctionOnSet(g, R)
    BY <1>2, <1>4
  <1>6. /\ SumFunctionOnSet(f, T) = f[p] + SumFunctionOnSet(f, R)
        /\ SumFunctionOnSet(g, T) = g[p] + SumFunctionOnSet(g, R)
        /\ SumFunctionOnSet(h, T) = h[p] + SumFunctionOnSet(h, R)
    BY <1>3, <1>4, SumStep
  <1>7. SumFunctionOnSet(f, R) \in Int /\ SumFunctionOnSet(g, R) \in Int
    BY <1>4, SumType
  <1>8. f[p] \in Int /\ g[p] \in Int /\ h[p] = f[p] + g[p]
    BY <1>4
  <1>9. Fails(T)
    BY <1>2
  <1> HIDE DEF B, p, R
  <1> QED BY <1>5, <1>6, <1>7, <1>8, <1>9

\* A sum grows with its terms.
LEMMA SumMonotone ==
    ASSUME NEW f, NEW g, NEW S, IsFiniteSet(S),
           \A x \in S : f[x] \in Int /\ g[x] \in Int /\ f[x] <= g[x]
    PROVE  SumFunctionOnSet(f, S) <= SumFunctionOnSet(g, S)
  <1> DEFINE B == {T \in SUBSET S : ~(SumFunctionOnSet(f, T) <= SumFunctionOnSet(g, T))}
  <1>1. SUFFICES ASSUME B # {} PROVE FALSE
    OBVIOUS
  <1>2. PICK T \in B : \A t \in SUBSET T : t # T => t \notin B
    <2>1. B \in SUBSET SUBSET S
      OBVIOUS
    <2> HIDE DEF B
    <2> QED BY <1>1, <2>1, LeastSet
  <1>3. /\ SumFunctionOnSet(f, T)
             = IF T = {} THEN 0 ELSE f[Pick(T)] + SumFunctionOnSet(f, T \ {Pick(T)})
        /\ SumFunctionOnSet(g, T)
             = IF T = {} THEN 0 ELSE g[Pick(T)] + SumFunctionOnSet(g, T \ {Pick(T)})
    BY SumStep, FS_Subset
  <1>4. ASSUME T # {}
        PROVE  /\ SumFunctionOnSet(f, T \ {Pick(T)}) <= SumFunctionOnSet(g, T \ {Pick(T)})
               /\ f[Pick(T)] \in Int /\ g[Pick(T)] \in Int /\ f[Pick(T)] <= g[Pick(T)]
               /\ SumFunctionOnSet(f, T \ {Pick(T)}) \in Int
               /\ SumFunctionOnSet(g, T \ {Pick(T)}) \in Int
    <2>1. Pick(T) \in S
      BY <1>4, PickMember
    <2>2. SumFunctionOnSet(f, T \ {Pick(T)}) <= SumFunctionOnSet(g, T \ {Pick(T)})
      BY <1>2, <1>4, PickMember
    <2>3. IsFiniteSet(T \ {Pick(T)})
      BY FS_Subset
    <2>4. /\ SumFunctionOnSet(f, T \ {Pick(T)}) \in Int
          /\ SumFunctionOnSet(g, T \ {Pick(T)}) \in Int
      BY <2>3, SumType
    <2> QED BY <2>1, <2>2, <2>4
  <1> QED BY <1>2, <1>3, <1>4

\* Zeros sum to zero.
LEMMA SumOfZeros ==
    ASSUME NEW f, NEW S, IsFiniteSet(S), \A x \in S : f[x] = 0
    PROVE  SumFunctionOnSet(f, S) = 0
  <1> DEFINE B == {T \in SUBSET S : SumFunctionOnSet(f, T) # 0}
  <1>1. SUFFICES ASSUME B # {} PROVE FALSE
    OBVIOUS
  <1>2. PICK T \in B : \A t \in SUBSET T : t # T => t \notin B
    <2>1. B \in SUBSET SUBSET S
      OBVIOUS
    <2> HIDE DEF B
    <2> QED BY <1>1, <2>1, LeastSet
  <1>3. SumFunctionOnSet(f, T)
          = IF T = {} THEN 0 ELSE f[Pick(T)] + SumFunctionOnSet(f, T \ {Pick(T)})
    BY SumStep, FS_Subset
  <1>4. T # {} => f[Pick(T)] = 0 /\ SumFunctionOnSet(f, T \ {Pick(T)}) = 0
    BY <1>2, PickMember
  <1> QED BY <1>2, <1>3, <1>4

\* Two sets that share nothing sum apart.
LEMMA SumDisjoint ==
    ASSUME NEW f, NEW S, NEW T, IsFiniteSet(S), IsFiniteSet(T), S \cap T = {},
           \A x \in S \cup T : f[x] \in Int
    PROVE  SumFunctionOnSet(f, S \cup T) = SumFunctionOnSet(f, S) + SumFunctionOnSet(f, T)
  <1> DEFINE Fails(U) == SumFunctionOnSet(f, S \cup U)
                           # SumFunctionOnSet(f, S) + SumFunctionOnSet(f, U)
             B == {U \in SUBSET T : Fails(U)}
  <1>1. SUFFICES ASSUME B # {} PROVE FALSE
    OBVIOUS
  <1>2. PICK U \in B : \A t \in SUBSET U : t # U => t \notin B
    <2>1. B \in SUBSET SUBSET T
      OBVIOUS
    <2> HIDE DEF B
    <2> QED BY <1>1, <2>1, LeastSet
  <1>3. IsFiniteSet(U) /\ U \subseteq T /\ Fails(U)
    BY <1>2, FS_Subset
  <1>4. SumFunctionOnSet(f, S) \in Int
    BY SumType
  <1>5. CASE U = {}
    <2>1. S \cup U = S
      BY <1>5
    <2> QED BY <1>3, <1>4, <1>5, <2>1, SumEmpty
  <1>6. ASSUME NEW e \in U PROVE FALSE
    <2> DEFINE R == U \ {e}
    <2>1. SumFunctionOnSet(f, S \cup R) = SumFunctionOnSet(f, S) + SumFunctionOnSet(f, R)
      BY <1>2, <1>6
    <2>2. SumFunctionOnSet(f, U) = f[e] + SumFunctionOnSet(f, R)
      BY <1>3, SumRemove
    <2>3. SumFunctionOnSet(f, S \cup U) = f[e] + SumFunctionOnSet(f, S \cup R)
      <3>1. (S \cup U) \ {e} = S \cup R /\ e \in S \cup U
        BY <1>3
      <3>2. IsFiniteSet(S \cup U) /\ \A x \in S \cup U : f[x] \in Int
        BY <1>3, FS_Union
      <3> HIDE DEF R
      <3> QED BY <3>1, <3>2, SumRemove
    <2>4. f[e] \in Int /\ SumFunctionOnSet(f, R) \in Int
      BY <1>3, FS_Subset, SumType
    <2> HIDE DEF R, B
    <2> QED BY <1>3, <1>4, <2>1, <2>2, <2>3, <2>4
  <1> QED BY <1>5, <1>6

\* Amounts that are not negative sum to one that is not, and each is at most the sum.
LEMMA SumOfNaturals ==
    ASSUME NEW f, NEW S, IsFiniteSet(S), \A x \in S : f[x] \in Nat
    PROVE  /\ SumFunctionOnSet(f, S) \in Nat
           /\ \A x \in S : f[x] <= SumFunctionOnSet(f, S)
  <1>1. ASSUME NEW T \in SUBSET S PROVE SumFunctionOnSet(f, T) \in Nat
    <2> DEFINE zero == [x \in S |-> 0]
    <2>1. IsFiniteSet(T)
      BY FS_Subset
    <2>2. SumFunctionOnSet(f, T) \in Int
      BY <2>1, SumType
    <2>3. SumFunctionOnSet(zero, T) <= SumFunctionOnSet(f, T)
      <3>1. \A x \in T : zero[x] \in Int /\ f[x] \in Int /\ zero[x] <= f[x]
        OBVIOUS
      <3> HIDE DEF zero
      <3> QED BY <2>1, <3>1, SumMonotone
    <2>4. SumFunctionOnSet(zero, T) = 0
      <3>1. \A x \in T : zero[x] = 0
        OBVIOUS
      <3> HIDE DEF zero
      <3> QED BY <2>1, <3>1, SumOfZeros
    <2> QED BY <2>2, <2>3, <2>4
  <1>2. ASSUME NEW x \in S PROVE f[x] <= SumFunctionOnSet(f, S)
    <2>1. SumFunctionOnSet(f, S) = f[x] + SumFunctionOnSet(f, S \ {x})
      BY SumRemove
    <2>2. SumFunctionOnSet(f, S \ {x}) \in Nat
      BY <1>1
    <2> QED BY <2>1, <2>2
  <1> QED BY <1>1, <1>2

\* A part of the amounts sums to at most the whole.
LEMMA SumOfSubset ==
    ASSUME NEW f, NEW S, IsFiniteSet(S), \A x \in S : f[x] \in Nat, NEW T \in SUBSET S
    PROVE  SumFunctionOnSet(f, T) <= SumFunctionOnSet(f, S)
  <1> DEFINE B == {U \in SUBSET S :
                     T \subseteq U /\ ~(SumFunctionOnSet(f, T) <= SumFunctionOnSet(f, U))}
  <1>1. SUFFICES ASSUME B # {} PROVE FALSE
    OBVIOUS
  <1>2. PICK U \in B : \A t \in SUBSET U : t # U => t \notin B
    <2>1. B \in SUBSET SUBSET S
      OBVIOUS
    <2> HIDE DEF B
    <2> QED BY <1>1, <2>1, LeastSet
  <1>3. SumFunctionOnSet(f, T) \in Nat
    <2>1. IsFiniteSet(T) /\ \A x \in T : f[x] \in Nat
      BY FS_Subset
    <2> QED BY <2>1, SumOfNaturals
  <1>4. PICK e \in U : e \notin T
    BY <1>2, <1>3
  <1>5. IsFiniteSet(U) /\ IsFiniteSet(U \ {e}) /\ \A x \in U : f[x] \in Nat
    BY FS_Subset
  <1>6. SumFunctionOnSet(f, U) = f[e] + SumFunctionOnSet(f, U \ {e})
    BY <1>5, SumRemove
  <1>7. SumFunctionOnSet(f, U \ {e}) \in Nat
    BY <1>5, SumOfNaturals
  <1>8. SumFunctionOnSet(f, T) <= SumFunctionOnSet(f, U \ {e})
    BY <1>2, <1>4
  <1>9. ~(SumFunctionOnSet(f, T) <= SumFunctionOnSet(f, U)) /\ f[e] \in Nat
    BY <1>2, <1>5
  <1> HIDE DEF B
  <1> QED BY <1>3, <1>6, <1>7, <1>8, <1>9

-----------------------------------------------------------------------------
(* The greatest member. *)

\* Finitely many numbers, if any, have a greatest one among them.
LEMMA GreatestMember ==
    ASSUME NEW S, IsFiniteSet(S), S # {}, S \subseteq Int
    PROVE  Max(S) \in S /\ \A y \in S : Max(S) >= y
  <1> DEFINE B == {T \in SUBSET S : T # {} /\ ~ \E x \in T : \A y \in T : x >= y}
  <1>1. SUFFICES ASSUME B # {} PROVE FALSE
    BY DEF Max
  <1>2. PICK T \in B : \A t \in SUBSET T : t # T => t \notin B
    <2>1. B \in SUBSET SUBSET S
      OBVIOUS
    <2> HIDE DEF B
    <2> QED BY <1>1, <2>1, LeastSet
  <1>3. PICK x \in T : x \in Int
    BY <1>2
  <1>4. CASE T \ {x} = {}
    BY <1>2, <1>3, <1>4
  <1>5. CASE T \ {x} # {}
    <2>1. PICK y \in T \ {x} : y \in Int /\ \A z \in T \ {x} : y >= z
      BY <1>2, <1>5
    <2>2. \A z \in T : z \in Int
      BY <1>2
    <2>3. CASE x >= y
      <3>1. \A z \in T : x >= z
        BY <1>3, <2>1, <2>2, <2>3
      <3> QED BY <1>2, <3>1
    <2>4. CASE y >= x
      <3>1. \A z \in T : y >= z
        BY <1>3, <2>1, <2>2, <2>4
      <3> QED BY <1>2, <2>1, <3>1
    <2> QED BY <1>3, <2>1, <2>3, <2>4
  <1> QED BY <1>4, <1>5

\* A number above all of them becomes the greatest.
LEMMA GreatestAdded ==
    ASSUME NEW S, S \subseteq Int, NEW n \in Int, \A y \in S : n > y
    PROVE  Max(S \cup {n}) = n
  <1>1. n \in S \cup {n} /\ \A y \in S \cup {n} : n >= y
    OBVIOUS
  <1>2. ASSUME NEW x \in S \cup {n}, \A y \in S \cup {n} : x >= y PROVE x = n
    BY <1>2
  <1> QED BY <1>1, <1>2 DEF Max

\* The smaller of two numbers, and the larger.
LEMMA SmallerOne ==
    ASSUME NEW a \in Int, NEW b \in Int
    PROVE  Min({a, b}) = IF a <= b THEN a ELSE b
  <1>1. PICK m : m = IF a <= b THEN a ELSE b
    OBVIOUS
  <1>2. m \in {a, b} /\ \A y \in {a, b} : m <= y
    BY <1>1
  <1>3. \A x \in {a, b} : (\A y \in {a, b} : x <= y) => x = m
    BY <1>1
  <1>4. (CHOOSE x \in {a, b} : \A y \in {a, b} : x <= y) = m
    BY <1>2, <1>3
  <1> QED BY <1>1, <1>4 DEF Min

LEMMA LargerOne ==
    ASSUME NEW a \in Int, NEW b \in Int
    PROVE  Max({a, b}) = IF a >= b THEN a ELSE b
  <1>1. PICK m : m = IF a >= b THEN a ELSE b
    OBVIOUS
  <1>2. m \in {a, b} /\ \A y \in {a, b} : m >= y
    BY <1>1
  <1>3. \A x \in {a, b} : (\A y \in {a, b} : x >= y) => x = m
    BY <1>1
  <1>4. (CHOOSE x \in {a, b} : \A y \in {a, b} : x >= y) = m
    BY <1>2, <1>3
  <1> QED BY <1>1, <1>4 DEF Max

=============================================================================
