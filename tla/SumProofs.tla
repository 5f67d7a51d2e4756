------------------------------ MODULE SumProofs ------------------------------
(***************************************************************************)
(* Facts about MapThenSumSet, with which the model adds up the sizes of    *)
(* VMs, for finite sets of any size.  The sum is a recursive function on   *)
(* the subsets of the set; that a function with its equation exists, and   *)
(* each fact about it, is shown on a minimal counterexample: the strict    *)
(* subsets of a finite set are well founded.  Then the same for the folds  *)
(* of the model over the indices of a list, and for its recursive          *)
(* functions on indices: whatever the step, the function exists.           *)
(***************************************************************************)
EXTENDS Integers, Sequences, FiniteSetsExt, FiniteSetTheorems, WellFoundedInduction, TLAPS

\* MapThenSumSet of a function, taken apart.
Pick(s) == CHOOSE x \in s : TRUE
SumStep(f, g, s) == IF s = {} THEN 0 ELSE f[Pick(s)] + g[s \ {Pick(s)}]
Solves(g, f, S) == g = [s \in SUBSET S |-> SumStep(f, g, s)]
SumFcn(f, S) == CHOOSE g : Solves(g, f, S)
Sum(f, S) == SumFcn(f, S)[S]

\* MapThenSumSet, as the model uses it, is that sum.
LEMMA SumIsMapThenSum ==
    ASSUME NEW f, NEW S
    PROVE  MapThenSumSet(LAMBDA a : f[a], S) = Sum(f, S)
  BY DEF MapThenSumSet, MapThenFoldSet, Sum, SumFcn, Solves, SumStep, Pick

\* An element is picked from every set but the empty one.
LEMMA PickFacts ==
    ASSUME NEW S, S # {}
    PROVE  Pick(S) \in S /\ S \ {Pick(S)} \subseteq S /\ S \ {Pick(S)} # S
  BY DEF Pick

\* Any failure has a minimal one: a non-empty collection of subsets of a finite set has
\* a member none of whose strict subsets is in the collection.
LEMMA MinimalSubset ==
    ASSUME NEW S, IsFiniteSet(S), NEW C \in SUBSET (SUBSET S), C # {}
    PROVE  \E T \in C : \A U \in C : ~(U \subseteq T /\ U # T)
<1>1. IsWellFoundedOn(StrictSubsetOrdering(S), FiniteSubsetsOf(S))
  BY FS_StrictSubsetOrderingWellFounded
<1>2. C \subseteq FiniteSubsetsOf(S)
  BY FS_FiniteSubsetsOfFinite
<1>3. PICK T \in C : \A U \in C : <<U, T>> \notin StrictSubsetOrdering(S)
  BY <1>1, <1>2, WFMin
<1>4. ASSUME NEW U \in C, U \subseteq T, U # T
      PROVE  <<U, T>> \in StrictSubsetOrdering(S)
  <2> DEFINE p == <<U, T>>
  <2>1. p \in (SUBSET S) \X (SUBSET S) /\ p[1] = U /\ p[2] = T
    OBVIOUS
  <2> HIDE DEF p
  <2>2. p \in StrictSubsetOrdering(S)
    BY <1>4, <2>1 DEF StrictSubsetOrdering
  <2> QED BY <2>2 DEF p
<1>5. ASSUME NEW U \in C
      PROVE  ~(U \subseteq T /\ U # T)
  BY <1>3, <1>4, Zenon
<1> QED BY <1>5

\* The equation has at most one solution.
LEMMA SolutionUnique ==
    ASSUME NEW f, NEW S, IsFiniteSet(S), NEW g, NEW h, Solves(g, f, S), Solves(h, f, S)
    PROVE  g = h
<1> DEFINE C == {s \in SUBSET S : g[s] # h[s]}
<1>1. /\ g = [s \in SUBSET S |-> SumStep(f, g, s)]
      /\ h = [s \in SUBSET S |-> SumStep(f, h, s)]
  BY DEF Solves
<1>2. CASE C = {}
  <2>1. \A s \in SUBSET S : g[s] = h[s]
    BY <1>2
  <2>2. DOMAIN g = SUBSET S /\ DOMAIN h = SUBSET S
    BY <1>1
  <2>3. g = [s \in SUBSET S |-> g[s]] /\ h = [s \in SUBSET S |-> h[s]]
    BY <1>1
  <2> QED BY <2>1, <2>3
<1>3. CASE C # {}
  <2>0. C \in SUBSET (SUBSET S)
    OBVIOUS
  <2>1. PICK T \in C : \A U \in C : ~(U \subseteq T /\ U # T)
    <3> HIDE DEF C
    <3> QED BY <1>3, <2>0, MinimalSubset
  <2>2. T \in SUBSET S /\ g[T] # h[T]
    OBVIOUS
  <2>3. T # {} /\ Pick(T) \in T
    BY <1>1, <2>2, PickFacts DEF SumStep
  <2>4. T \ {Pick(T)} \in SUBSET S /\ T \ {Pick(T)} # T
    BY <2>2, <2>3
  <2>5. g[T \ {Pick(T)}] = h[T \ {Pick(T)}]
    BY <2>1, <2>4
  <2>6. g[T] = SumStep(f, g, T) /\ h[T] = SumStep(f, h, T)
    BY <1>1, <2>2
  <2> QED BY <2>2, <2>5, <2>6 DEF SumStep
<1> QED BY <1>2, <1>3

\* A solution for a set is one for its subsets.
LEMMA SolutionRestricts ==
    ASSUME NEW f, NEW S, NEW T \in SUBSET S, NEW g, Solves(g, f, S)
    PROVE  Solves([s \in SUBSET T |-> g[s]], f, T)
<1> DEFINE r == [s \in SUBSET T |-> g[s]]
<1>1. g = [s \in SUBSET S |-> SumStep(f, g, s)]
  BY DEF Solves
<1>2. ASSUME NEW s \in SUBSET T
      PROVE  r[s] = SumStep(f, r, s)
  <2>1. s \in SUBSET S /\ s \ {Pick(s)} \in SUBSET T
    OBVIOUS
  <2>2. r[s] = g[s] /\ r[s \ {Pick(s)}] = g[s \ {Pick(s)}]
    BY <2>1
  <2>3. g[s] = SumStep(f, g, s)
    BY <1>1, <2>1
  <2> HIDE DEF r
  <2> QED BY <2>2, <2>3 DEF SumStep
<1>3. r = [s \in SUBSET T |-> r[s]]
  OBVIOUS
<1> HIDE DEF r
<1>4. r = [s \in SUBSET T |-> SumStep(f, r, s)]
  BY <1>2, <1>3
<1>5. Solves(r, f, T)
  BY <1>4 DEF Solves
<1> QED BY <1>5 DEF r

\* The chosen function solves its equation when anything does.
LEMMA ChosenSolves ==
    ASSUME NEW f, NEW S, NEW g, Solves(g, f, S)
    PROVE  Solves(SumFcn(f, S), f, S)
  BY DEF SumFcn

\* Where the function exists, its value at a subset is the sum over that subset.
LEMMA ValueIsSum ==
    ASSUME NEW f, NEW S, IsFiniteSet(S), NEW T \in SUBSET S, Solves(SumFcn(f, S), f, S)
    PROVE  SumFcn(f, S)[T] = Sum(f, T)
<1> DEFINE r == [s \in SUBSET T |-> SumFcn(f, S)[s]]
<1>1. Solves(r, f, T)
  BY SolutionRestricts
<1>2. Solves(SumFcn(f, T), f, T)
  BY <1>1, ChosenSolves
<1>3. IsFiniteSet(T)
  BY FS_Subset
<1> HIDE DEF r
<1>4. r = SumFcn(f, T)
  BY <1>1, <1>2, <1>3, SolutionUnique
<1>5. r[T] = SumFcn(f, S)[T]
  BY DEF r
<1> QED BY <1>4, <1>5 DEF Sum

\* The function exists.
LEMMA SolutionExists ==
    ASSUME NEW f, NEW S, IsFiniteSet(S)
    PROVE  Solves(SumFcn(f, S), f, S)
<1> DEFINE C == {s \in SUBSET S : ~Solves(SumFcn(f, s), f, s)}
<1> SUFFICES ASSUME C # {}
             PROVE  FALSE
  OBVIOUS
<1>0. C \in SUBSET (SUBSET S)
  OBVIOUS
<1>1. PICK T \in C : \A U \in C : ~(U \subseteq T /\ U # T)
  <2> HIDE DEF C
  <2> QED BY <1>0, MinimalSubset
<1>2. T \in SUBSET S /\ ~Solves(SumFcn(f, T), f, T)
  OBVIOUS
<1>3. ASSUME NEW U \in SUBSET T, U # T
      PROVE  Solves(SumFcn(f, U), f, U) /\ IsFiniteSet(U)
  BY <1>1, <1>2, <1>3, FS_Subset
<1> HIDE DEF C
<1> DEFINE h == [s \in SUBSET T |-> Sum(f, s)]
           g == [s \in SUBSET T |-> SumStep(f, h, s)]
<1>4. ASSUME NEW U \in SUBSET T, U # T
      PROVE  g[U] = Sum(f, U)
  <2>1. SumFcn(f, U) = [s \in SUBSET U |-> SumStep(f, SumFcn(f, U), s)]
    BY <1>3, <1>4 DEF Solves
  <2>2. Sum(f, U) = SumStep(f, SumFcn(f, U), U)
    BY <2>1 DEF Sum
  <2>3. g[U] = SumStep(f, h, U)
    OBVIOUS
  <2>4. ASSUME U # {}
        PROVE  SumFcn(f, U)[U \ {Pick(U)}] = h[U \ {Pick(U)}]
    <3>1. U \ {Pick(U)} \in SUBSET U /\ U \ {Pick(U)} \in SUBSET T
      OBVIOUS
    <3>2. SumFcn(f, U)[U \ {Pick(U)}] = Sum(f, U \ {Pick(U)})
      BY <1>3, <1>4, <3>1, ValueIsSum
    <3> QED BY <3>1, <3>2
  <2> HIDE DEF g, h
  <2> QED BY <2>2, <2>3, <2>4 DEF SumStep
<1>5. ASSUME NEW s \in SUBSET T
      PROVE  SumStep(f, h, s) = SumStep(f, g, s)
  <2>1. CASE s = {}
    BY <2>1 DEF SumStep
  <2>2. CASE s # {}
    <3>1. s \ {Pick(s)} \in SUBSET T /\ s \ {Pick(s)} # T
      BY <2>2, PickFacts
    <3>2. h[s \ {Pick(s)}] = Sum(f, s \ {Pick(s)})
      BY <3>1
    <3>3. g[s \ {Pick(s)}] = Sum(f, s \ {Pick(s)})
      BY <1>4, <3>1
    <3> HIDE DEF g, h
    <3> QED BY <3>2, <3>3 DEF SumStep
  <2> QED BY <2>1, <2>2
<1>6. g = [s \in SUBSET T |-> SumStep(f, g, s)]
  <2> HIDE DEF h
  <2> QED BY <1>5
<1> HIDE DEF g, h
<1>7. Solves(g, f, T)
  BY <1>6 DEF Solves
<1> QED BY <1>2, <1>7, ChosenSolves

-----------------------------------------------------------------------------
(* The facts the other proofs use.                                         *)

\* The sum over a set that is not empty is that of the picked element and the rest.
LEMMA SumUnfolds ==
    ASSUME NEW f, NEW S, IsFiniteSet(S)
    PROVE  /\ S = {} => Sum(f, S) = 0
           /\ S # {} => Sum(f, S) = f[Pick(S)] + Sum(f, S \ {Pick(S)})
<1>1. Solves(SumFcn(f, S), f, S)
  BY SolutionExists
<1>2. SumFcn(f, S)[S] = SumStep(f, SumFcn(f, S), S)
  BY <1>1 DEF Solves
<1>3. SumFcn(f, S)[S \ {Pick(S)}] = Sum(f, S \ {Pick(S)})
  BY <1>1, ValueIsSum
<1> QED BY <1>2, <1>3 DEF Sum, SumStep

\* A sum of naturals is a natural.
LEMMA SumType ==
    ASSUME NEW f, NEW S, IsFiniteSet(S), \A a \in S : f[a] \in Nat
    PROVE  Sum(f, S) \in Nat
<1> DEFINE C == {s \in SUBSET S : Sum(f, s) \notin Nat}
<1> SUFFICES ASSUME C # {}
             PROVE  FALSE
  OBVIOUS
<1>0. C \in SUBSET (SUBSET S)
  OBVIOUS
<1>1. PICK T \in C : \A U \in C : ~(U \subseteq T /\ U # T)
  <2> HIDE DEF C
  <2> QED BY <1>0, MinimalSubset
<1>2. T \in SUBSET S /\ Sum(f, T) \notin Nat /\ IsFiniteSet(T)
  BY FS_Subset
<1>3. T # {}
  <2>1. T = {} => Sum(f, T) = 0
    BY <1>2, SumUnfolds
  <2> QED BY <1>2, <2>1
<1>4. Pick(T) \in T /\ T \ {Pick(T)} \subseteq T /\ T \ {Pick(T)} # T
  BY <1>3, PickFacts
<1>5. Sum(f, T \ {Pick(T)}) \in Nat
  BY <1>1, <1>2, <1>4
<1>6. f[Pick(T)] \in Nat
  BY <1>2, <1>4
<1> QED BY <1>2, <1>3, <1>5, <1>6, SumUnfolds

\* Any element can be taken out of a sum, not just the picked one.
LEMMA SumRemove ==
    ASSUME NEW f, NEW S, IsFiniteSet(S), \A a \in S : f[a] \in Nat, NEW x \in S
    PROVE  Sum(f, S) = f[x] + Sum(f, S \ {x})
<1> DEFINE C == {s \in SUBSET S : \E y \in s : Sum(f, s) # f[y] + Sum(f, s \ {y})}
<1> SUFFICES ASSUME C # {}
             PROVE  FALSE
  OBVIOUS
<1>0. C \in SUBSET (SUBSET S)
  OBVIOUS
<1>1. PICK T \in C : \A U \in C : ~(U \subseteq T /\ U # T)
  <2> HIDE DEF C
  <2> QED BY <1>0, MinimalSubset
<1>2. T \in SUBSET S /\ IsFiniteSet(T)
  BY FS_Subset
<1>3. PICK y \in T : Sum(f, T) # f[y] + Sum(f, T \ {y})
  OBVIOUS
<1> DEFINE p == Pick(T)
<1>4. p \in T /\ Sum(f, T) = f[p] + Sum(f, T \ {p})
  BY <1>2, <1>3, PickFacts, SumUnfolds
<1>5. p # y
  BY <1>3, <1>4
<1>6. ASSUME NEW U \in SUBSET T, U # T, NEW z \in U
      PROVE  Sum(f, U) = f[z] + Sum(f, U \ {z})
  <2>1. U \in SUBSET S /\ U \notin C
    BY <1>1, <1>2, <1>6
  <2> QED BY <2>1
<1> HIDE DEF C, p
<1>7. Sum(f, T \ {p}) = f[y] + Sum(f, (T \ {p}) \ {y})
  BY <1>4, <1>5, <1>6
<1>8. Sum(f, T \ {y}) = f[p] + Sum(f, (T \ {y}) \ {p})
  BY <1>4, <1>5, <1>6
<1>9. (T \ {p}) \ {y} = (T \ {y}) \ {p}
  OBVIOUS
<1>10. IsFiniteSet((T \ {p}) \ {y}) /\ \A a \in (T \ {p}) \ {y} : f[a] \in Nat
  BY <1>2, FS_Subset
<1>11. Sum(f, (T \ {p}) \ {y}) \in Nat /\ f[p] \in Nat /\ f[y] \in Nat
  BY <1>2, <1>4, <1>10, SumType
<1> QED BY <1>3, <1>4, <1>7, <1>8, <1>9, <1>11

\* A new element adds its value.
LEMMA SumAdd ==
    ASSUME NEW f, NEW S, IsFiniteSet(S), NEW x, x \notin S,
           \A a \in S \cup {x} : f[a] \in Nat
    PROVE  Sum(f, S \cup {x}) = f[x] + Sum(f, S)
<1>1. IsFiniteSet(S \cup {x}) /\ (S \cup {x}) \ {x} = S
  BY FS_AddElement
<1> QED BY <1>1, SumRemove

\* A sum depends on the values of its elements only.
LEMMA SumSame ==
    ASSUME NEW f, NEW g, NEW S, IsFiniteSet(S), \A a \in S : f[a] = g[a]
    PROVE  Sum(f, S) = Sum(g, S)
<1> DEFINE C == {s \in SUBSET S : Sum(f, s) # Sum(g, s)}
<1> SUFFICES ASSUME C # {}
             PROVE  FALSE
  OBVIOUS
<1>0. C \in SUBSET (SUBSET S)
  OBVIOUS
<1>1. PICK T \in C : \A U \in C : ~(U \subseteq T /\ U # T)
  <2> HIDE DEF C
  <2> QED BY <1>0, MinimalSubset
<1>2. T \in SUBSET S /\ Sum(f, T) # Sum(g, T) /\ IsFiniteSet(T)
  BY FS_Subset
<1>3. T # {}
  BY <1>2, SumUnfolds
<1>4. Pick(T) \in T /\ T \ {Pick(T)} \subseteq T /\ T \ {Pick(T)} # T
  BY <1>3, PickFacts
<1>5. Sum(f, T \ {Pick(T)}) = Sum(g, T \ {Pick(T)}) /\ f[Pick(T)] = g[Pick(T)]
  BY <1>1, <1>2, <1>4
<1> QED BY <1>2, <1>3, <1>5, SumUnfolds

\* A part of a set has at most the sum of the whole.
LEMMA SumMonotone ==
    ASSUME NEW f, NEW S, IsFiniteSet(S), \A a \in S : f[a] \in Nat, NEW P \in SUBSET S
    PROVE  Sum(f, P) <= Sum(f, S)
<1> DEFINE C == {s \in SUBSET S : \E r \in SUBSET s : ~(Sum(f, r) <= Sum(f, s))}
<1> SUFFICES ASSUME C # {}
             PROVE  FALSE
  OBVIOUS
<1>0. C \in SUBSET (SUBSET S)
  OBVIOUS
<1>1. PICK T \in C : \A U \in C : ~(U \subseteq T /\ U # T)
  <2> HIDE DEF C
  <2> QED BY <1>0, MinimalSubset
<1>2. T \in SUBSET S /\ IsFiniteSet(T)
  BY FS_Subset
<1>3. PICK r \in SUBSET T : ~(Sum(f, r) <= Sum(f, T))
  OBVIOUS
<1>4. Sum(f, T) \in Nat
  BY <1>2, SumType
<1>5. PICK y \in T : y \notin r
  BY <1>3, <1>4
<1>6. T \ {y} \in SUBSET S /\ T \ {y} # T /\ r \in SUBSET (T \ {y})
  BY <1>2, <1>5
<1>7. Sum(f, r) <= Sum(f, T \ {y})
  BY <1>1, <1>6
<1>8. Sum(f, T) = f[y] + Sum(f, T \ {y})
  BY <1>2, SumRemove
<1>9. IsFiniteSet(T \ {y}) /\ IsFiniteSet(r)
  BY <1>2, FS_Subset
<1>10. /\ \A a \in r : f[a] \in Nat
       /\ \A a \in T \ {y} : f[a] \in Nat
  BY <1>2
<1>11. Sum(f, T \ {y}) \in Nat /\ Sum(f, r) \in Nat
  BY <1>9, <1>10, SumType
<1>12. f[y] \in Nat
  BY <1>2
<1> QED BY <1>3, <1>7, <1>8, <1>11, <1>12

\* The same with the values of another function that agrees on the part.
LEMMA SumPart ==
    ASSUME NEW f, NEW g, NEW S, IsFiniteSet(S), \A a \in S : f[a] \in Nat,
           NEW P \in SUBSET S, \A a \in P : g[a] = f[a]
    PROVE  Sum(g, P) <= Sum(f, S)
<1>1. IsFiniteSet(P)
  BY FS_Subset
<1>2. Sum(g, P) = Sum(f, P)
  BY <1>1, SumSame
<1> QED BY <1>2, SumMonotone

\* Two sets that cover a set have at least its sum.
LEMMA SumCovered ==
    ASSUME NEW f, NEW S, NEW P, NEW R, IsFiniteSet(P), IsFiniteSet(R),
           \A a \in P \cup R : f[a] \in Nat, S \subseteq P \cup R
    PROVE  Sum(f, S) <= Sum(f, P) + Sum(f, R)
<1> DEFINE C == {s \in SUBSET (P \cup R) :
                    ~(Sum(f, s) <= Sum(f, s \cap P) + Sum(f, s \cap R))}
<1>0. C \in SUBSET (SUBSET (P \cup R)) /\ IsFiniteSet(P \cup R)
  BY FS_Union
<1>a. ASSUME NEW s \in SUBSET (P \cup R)
      PROVE  /\ IsFiniteSet(s) /\ IsFiniteSet(s \cap P) /\ IsFiniteSet(s \cap R)
             /\ Sum(f, s) \in Nat /\ Sum(f, s \cap P) \in Nat /\ Sum(f, s \cap R) \in Nat
  <2>1. IsFiniteSet(s) /\ IsFiniteSet(s \cap P) /\ IsFiniteSet(s \cap R)
    BY <1>0, FS_Subset
  <2>2. Sum(f, s) \in Nat
    BY <2>1, SumType
  <2>3. Sum(f, s \cap P) \in Nat
    BY <2>1, SumType
  <2>4. Sum(f, s \cap R) \in Nat
    BY <2>1, SumType
  <2> QED BY <2>1, <2>2, <2>3, <2>4
<1>1. C = {}
  <2> SUFFICES ASSUME C # {}
               PROVE  FALSE
    OBVIOUS
  <2>1. PICK T \in C : \A U \in C : ~(U \subseteq T /\ U # T)
    <3> HIDE DEF C
    <3> QED BY <1>0, MinimalSubset
  <2>2. T \in SUBSET (P \cup R) /\ ~(Sum(f, T) <= Sum(f, T \cap P) + Sum(f, T \cap R))
    OBVIOUS
  <2>3. T # {}
    <3> SUFFICES ASSUME T = {}
                 PROVE  FALSE
      OBVIOUS
    <3>1. T \cap P = {} /\ T \cap R = {} /\ IsFiniteSet({})
      BY FS_EmptySet
    <3>2. Sum(f, {}) = 0
      BY <3>1, SumUnfolds
    <3> QED BY <2>2, <3>1, <3>2
  <2>4. PICK y \in T : TRUE
    BY <2>3
  <2> DEFINE U == T \ {y}
  <2>5. U \in SUBSET (P \cup R) /\ U \subseteq T /\ U # T
    BY <2>2, <2>4
  <2>6. Sum(f, U) <= Sum(f, U \cap P) + Sum(f, U \cap R)
    <3> HIDE DEF U
    <3>1. U \notin C
      BY <2>1, <2>5
    <3> QED BY <2>5, <3>1
  <2>7. Sum(f, T) = f[y] + Sum(f, U)
    BY <1>a, <2>2, <2>4, SumRemove
  <2>8. f[y] \in Nat /\ y \in P \cup R
    BY <2>2, <2>4
  <2>9. y \in P => Sum(f, T \cap P) = f[y] + Sum(f, U \cap P)
    <3>1. (T \cap P) \ {y} = U \cap P /\ IsFiniteSet(T \cap P)
      BY <1>a, <2>2
    <3>2. \A a \in T \cap P : f[a] \in Nat
      BY <2>2
    <3> QED BY <2>4, <3>1, <3>2, SumRemove
  <2>10. y \in R => Sum(f, T \cap R) = f[y] + Sum(f, U \cap R)
    <3>1. (T \cap R) \ {y} = U \cap R /\ IsFiniteSet(T \cap R)
      BY <1>a, <2>2
    <3>2. \A a \in T \cap R : f[a] \in Nat
      BY <2>2
    <3> QED BY <2>4, <3>1, <3>2, SumRemove
  <2>11. y \notin P => Sum(f, T \cap P) = Sum(f, U \cap P)
    <3>1. y \notin P => T \cap P = U \cap P
      BY <2>4
    <3> QED BY <3>1
  <2>12. y \notin R => Sum(f, T \cap R) = Sum(f, U \cap R)
    <3>1. y \notin R => T \cap R = U \cap R
      BY <2>4
    <3> QED BY <3>1
  <2>13. /\ Sum(f, U) \in Nat /\ Sum(f, U \cap P) \in Nat /\ Sum(f, U \cap R) \in Nat
    BY <1>a, <2>5
  <2> HIDE DEF U, C
  <2>14. CASE y \in P /\ y \in R
    BY <2>14, <2>2, <2>6, <2>7, <2>8, <2>9, <2>10, <2>13
  <2>15. CASE y \in P /\ y \notin R
    BY <2>15, <2>2, <2>6, <2>7, <2>8, <2>9, <2>12, <2>13
  <2>16. CASE y \notin P /\ y \in R
    BY <2>16, <2>2, <2>6, <2>7, <2>8, <2>10, <2>11, <2>13
  <2> QED BY <2>8, <2>14, <2>15, <2>16
<1>2. Sum(f, S) <= Sum(f, S \cap P) + Sum(f, S \cap R)
  BY <1>1
<1>3. Sum(f, S \cap P) <= Sum(f, P)
  <2>1. S \cap P \in SUBSET P
    OBVIOUS
  <2> QED BY <2>1, SumMonotone
<1>4. Sum(f, S \cap R) <= Sum(f, R)
  <2>1. S \cap R \in SUBSET R
    OBVIOUS
  <2> QED BY <2>1, SumMonotone
<1>5. Sum(f, P) \in Nat /\ Sum(f, R) \in Nat
  BY SumType
<1>6. Sum(f, S) \in Nat /\ Sum(f, S \cap P) \in Nat /\ Sum(f, S \cap R) \in Nat
  BY <1>a
<1> QED BY <1>2, <1>3, <1>4, <1>5, <1>6

\* Elements that are renamed one to one, with their values, have the same sum.
LEMMA SumRenamed ==
    ASSUME NEW f, NEW g, NEW h, NEW S, IsFiniteSet(S),
           \A a \in S : f[a] = g[h[a]] /\ f[a] \in Nat,
           \A a, b \in S : h[a] = h[b] => a = b,
           IsFiniteSet({h[a] : a \in S})
    PROVE  Sum(f, S) = Sum(g, {h[a] : a \in S})
<1> DEFINE Img(s) == {h[a] : a \in s}
           C == {s \in SUBSET S : Sum(f, s) # Sum(g, Img(s))}
<1> SUFFICES ASSUME C # {}
             PROVE  FALSE
  OBVIOUS
<1>0. C \in SUBSET (SUBSET S)
  OBVIOUS
<1>1. PICK T \in C : \A U \in C : ~(U \subseteq T /\ U # T)
  <2> HIDE DEF C
  <2> QED BY <1>0, MinimalSubset
<1>2. T \in SUBSET S /\ Sum(f, T) # Sum(g, Img(T)) /\ IsFiniteSet(T)
  BY FS_Subset
<1>3. T # {}
  <2> SUFFICES ASSUME T = {}
               PROVE  FALSE
    OBVIOUS
  <2>1. Img(T) = {} /\ IsFiniteSet({})
    BY FS_EmptySet
  <2>2. Sum(f, {}) = 0 /\ Sum(g, {}) = 0
    BY <2>1, SumUnfolds
  <2> QED BY <1>2, <2>1, <2>2
<1>4. PICK y \in T : TRUE
  BY <1>3
<1> DEFINE U == T \ {y}
<1>5. U \in SUBSET S /\ U \subseteq T /\ U # T
  BY <1>2, <1>4
<1>6. Sum(f, U) = Sum(g, Img(U))
  <2> HIDE DEF U
  <2>1. U \notin C
    BY <1>1, <1>5
  <2> QED BY <1>5, <2>1
<1>7. Sum(f, T) = f[y] + Sum(f, U)
  BY <1>2, <1>4, SumRemove
<1>8. Img(U) = Img(T) \ {h[y]} /\ h[y] \in Img(T)
  BY <1>2, <1>4
<1>9. IsFiniteSet(Img(T))
  <2>1. Img(T) \in SUBSET {h[a] : a \in S}
    BY <1>2
  <2> QED BY <2>1, FS_Subset
<1>10. \A b \in Img(T) : g[b] \in Nat
  BY <1>2
<1>11. Sum(g, Img(T)) = g[h[y]] + Sum(g, Img(T) \ {h[y]})
  <2> HIDE DEF Img
  <2> QED BY <1>8, <1>9, <1>10, SumRemove
<1>12. f[y] = g[h[y]]
  BY <1>2, <1>4
<1> QED BY <1>2, <1>6, <1>7, <1>8, <1>11, <1>12

-----------------------------------------------------------------------------
(* Folds over indices.                                                     *)

\* A set of naturals that is not empty has a least element.
LEMMA NatLeast ==
    ASSUME NEW T, T \subseteq Nat, T # {}
    PROVE  \E m \in T : \A x \in T : m <= x
<1> DEFINE less == OpToRel(<, Nat)
<1>1. IsWellFoundedOn(less, Nat)
  BY NatLessThanWellFounded
<1>2. \A x, y \in Nat : x < y => <<x, y>> \in less
  BY DEF OpToRel
<1> HIDE DEF less
<1>3. PICK m \in T : \A y \in T : ~(<<y, m>> \in less)
  BY <1>1, WFMin
<1>4. ASSUME NEW x \in T
      PROVE  m <= x
  <2>1. m \in Nat /\ x \in Nat
    OBVIOUS
  <2>2. ~(x < m)
    BY <1>2, <1>3, <2>1
  <2> QED BY <2>1, <2>2
<1> QED BY <1>4

\* The greatest element of a set of naturals that is not empty and has a bound.
LEMMA MaxOfTop ==
    ASSUME NEW k \in Nat, NEW s \in SUBSET (1 .. k), k \in s
    PROVE  Max(s) = k
<1>1. \A y \in s : y \in Nat /\ k >= y
  OBVIOUS
<1>2. Max(s) \in s /\ \A y \in s : Max(s) >= y
  BY <1>1 DEF Max
<1>3. Max(s) \in Nat /\ k >= Max(s) /\ Max(s) >= k
  BY <1>1, <1>2
<1> QED BY <1>3

\* Induction over the indices up to n, for a set of indices.
LEMMA IndexInduction ==
    ASSUME NEW n \in Nat, NEW P, 0 \in P, \A k \in 1 .. n : k - 1 \in P => k \in P
    PROVE  \A k \in 0 .. n : k \in P
<1> DEFINE C == {k \in 0 .. n : k \notin P}
<1> SUFFICES ASSUME C # {}
             PROVE  FALSE
  OBVIOUS
<1>1. PICK m \in C : \A x \in C : m <= x
  <2>1. C \subseteq Nat
    OBVIOUS
  <2> HIDE DEF C
  <2> QED BY <2>1, NatLeast
<1>2. m \in 1 .. n /\ m - 1 \in 0 .. n
  OBVIOUS
<1>3. m - 1 \notin C
  BY <1>1, <1>2
<1> QED BY <1>2, <1>3

\* The indices up to k are those before k, and k, which is the greatest.
LEMMA PrefixFacts ==
    ASSUME NEW n \in Nat, NEW k \in 1 .. n
    PROVE  /\ 1 .. k \in SUBSET (1 .. n) /\ 1 .. k # {}
           /\ Max(1 .. k) = k /\ (1 .. k) \ {k} = 1 .. (k - 1)
<1>1. k \in Nat /\ k \in 1 .. k /\ 1 .. k \in SUBSET (1 .. k)
  OBVIOUS
<1>2. Max(1 .. k) = k
  BY <1>1, MaxOfTop
<1> QED BY <1>1, <1>2

\* A bounded set of naturals that is not empty has a greatest element.
LEMMA MaxInSet ==
    ASSUME NEW k \in Nat, NEW s \in SUBSET (1 .. k), s # {}
    PROVE  Max(s) \in s /\ \A y \in s : Max(s) >= y
<1> DEFINE U == {k - x : x \in s}
<1>1. \A x \in s : k - x \in Nat
  OBVIOUS
<1>2. U \subseteq Nat /\ U # {}
  BY <1>1
<1>3. PICK u \in U : \A v \in U : u <= v
  <2> HIDE DEF U
  <2> QED BY <1>2, NatLeast
<1>4. PICK x \in s : u = k - x
  OBVIOUS
<1>5. \A y \in s : k - y \in U
  OBVIOUS
<1> HIDE DEF U
<1>6. \A y \in s : u <= k - y
  BY <1>3, <1>5
<1>7. \A y \in s : x >= y
  BY <1>4, <1>6
<1> QED BY <1>7 DEF Max

\* g is a fold of step over the subsets of 1 .. k, the greatest index last.
FoldSolves(g, k, State, base, step) ==
    /\ g \in [SUBSET (1 .. k) -> State]
    /\ \A s \in SUBSET (1 .. k) :
          g[s] = IF s = {} THEN base ELSE step[<<g[s \ {Max(s)}], Max(s)>>]

\* A fold over nothing.
LEMMA FoldBase ==
    ASSUME NEW State, NEW base \in State, NEW step
    PROVE  \E g : FoldSolves(g, 0, State, base, step)
<1> DEFINE g == [s \in SUBSET (1 .. 0) |-> base]
<1>1. \A s \in SUBSET (1 .. 0) : s = {}
  OBVIOUS
<1>2. FoldSolves(g, 0, State, base, step)
  BY <1>1 DEF FoldSolves
<1> QED BY <1>2

\* A fold can be extended by one index.
LEMMA FoldExtends ==
    ASSUME NEW k \in Nat, NEW State, NEW base \in State,
           NEW step \in [State \X (1 .. k + 1) -> State],
           NEW g, FoldSolves(g, k, State, base, step)
    PROVE  \E h : FoldSolves(h, k + 1, State, base, step)
<1> DEFINE m == k + 1
           Old(s) == g[s \ {m}]
           h == [s \in SUBSET (1 .. m) |-> IF m \in s THEN step[<<Old(s), m>>] ELSE g[s]]
<1>0. m \in Nat /\ (1 .. m) \ {m} = 1 .. k
  OBVIOUS
<1>1. ASSUME NEW s \in SUBSET (1 .. m)
      PROVE  s \ {m} \in SUBSET (1 .. k) /\ (m \notin s => s \in SUBSET (1 .. k))
  BY <1>0
<1>2. g \in [SUBSET (1 .. k) -> State]
  BY DEF FoldSolves
<1>3. ASSUME NEW s \in SUBSET (1 .. m)
      PROVE  h[s] \in State
  <2>1. CASE m \in s
    <3>1. Old(s) \in State
      BY <1>1, <1>2
    <3>2. h[s] = step[<<Old(s), m>>]
      BY <2>1
    <3> HIDE DEF h, Old
    <3>3. <<Old(s), m>> \in State \X (1 .. m)
      BY <1>0, <3>1
    <3> QED BY <3>2, <3>3
  <2>2. CASE m \notin s
    BY <1>1, <1>2, <2>2
  <2> QED BY <2>1, <2>2
<1>4. ASSUME NEW s \in SUBSET (1 .. m)
      PROVE  h[s] = IF s = {} THEN base ELSE step[<<h[s \ {Max(s)}], Max(s)>>]
  <2>1. CASE m \in s
    <3>1. Max(s) = m
      BY <1>0, <2>1, MaxOfTop
    <3>2. s \ {m} \in SUBSET (1 .. m) /\ m \notin s \ {m}
      BY <1>1
    <3>3. h[s \ {m}] = g[s \ {m}]
      BY <3>2
    <3>4. h[s] = step[<<Old(s), m>>]
      BY <2>1
    <3> HIDE DEF h, m
    <3> QED BY <2>1, <3>1, <3>3, <3>4
  <2>2. CASE m \notin s
    <3>1. s \in SUBSET (1 .. k) /\ h[s] = g[s]
      BY <1>1, <2>2
    <3>2. g[s] = IF s = {} THEN base ELSE step[<<g[s \ {Max(s)}], Max(s)>>]
      BY <3>1 DEF FoldSolves
    <3>3. s \ {Max(s)} \in SUBSET (1 .. m) /\ m \notin s \ {Max(s)}
      BY <2>2
    <3>4. h[s \ {Max(s)}] = g[s \ {Max(s)}]
      BY <3>3
    <3> HIDE DEF h, m
    <3> QED BY <3>1, <3>2, <3>4
  <2> QED BY <2>1, <2>2
<1>5. h \in [SUBSET (1 .. m) -> State]
  BY <1>3
<1>6. FoldSolves(h, m, State, base, step)
  <2> HIDE DEF h
  <2> QED BY <1>4, <1>5 DEF FoldSolves
<1> QED BY <1>6

\* A step function on indices up to n can be folded.
LEMMA FoldExists ==
    ASSUME NEW n \in Nat, NEW State, NEW base \in State,
           NEW step \in [State \X (1 .. n) -> State]
    PROVE  \E g : FoldSolves(g, n, State, base, step)
<1> DEFINE C == {k \in 0 .. n : ~\E g : FoldSolves(g, k, State, base, step)}
<1> SUFFICES ASSUME C # {}
             PROVE  FALSE
  OBVIOUS
<1>1. C \subseteq Nat
  OBVIOUS
<1>2. PICK m \in C : \A x \in C : m <= x
  <2> HIDE DEF C
  <2> QED BY <1>1, NatLeast
<1>3. m \in 0 .. n /\ ~\E g : FoldSolves(g, m, State, base, step)
  OBVIOUS
<1>4. m # 0
  BY <1>3, FoldBase
<1> DEFINE k == m - 1
<1>5. k \in Nat /\ k \in 0 .. n /\ k + 1 = m /\ k \notin C
  BY <1>2, <1>3, <1>4
<1>6. PICK g : FoldSolves(g, k, State, base, step)
  BY <1>5
<1> HIDE DEF C, k
<1> DEFINE part == [p \in State \X (1 .. k + 1) |-> step[p]]
<1>7. \A p \in State \X (1 .. k + 1) : p \in State \X (1 .. n)
  BY <1>3, <1>5
<1>8. part \in [State \X (1 .. k + 1) -> State]
  BY <1>7
<1>9. ASSUME NEW f, NEW j \in {k, k + 1}
      PROVE  FoldSolves(f, j, State, base, part) <=> FoldSolves(f, j, State, base, step)
  <2> SUFFICES ASSUME f \in [SUBSET (1 .. j) -> State], NEW s \in SUBSET (1 .. j), s # {}
               PROVE  part[<<f[s \ {Max(s)}], Max(s)>>] = step[<<f[s \ {Max(s)}], Max(s)>>]
    BY DEF FoldSolves
  <2>1. Max(s) \in 1 .. j
    <3>1. j \in Nat
      BY <1>5
    <3> QED BY <3>1, MaxInSet
  <2>2. f[s \ {Max(s)}] \in State
    OBVIOUS
  <2> DEFINE p == <<f[s \ {Max(s)}], Max(s)>>
  <2>3. p \in State \X (1 .. k + 1)
    BY <1>5, <2>1, <2>2
  <2> HIDE DEF p
  <2>4. part[p] = step[p]
    BY <2>3
  <2> QED BY <2>4 DEF p
<1>10. \E h : FoldSolves(h, k + 1, State, base, part)
  <2> HIDE DEF part
  <2>1. FoldSolves(g, k, State, base, part)
    BY <1>6, <1>9
  <2> QED BY <1>5, <1>8, <2>1, FoldExtends
<1>11. \E h : FoldSolves(h, k + 1, State, base, step)
  BY <1>9, <1>10
<1> QED BY <1>3, <1>5, <1>11

\* h is the recursive function on the indices up to n with this base and step.
RecSolves(h, n, State, base, step) ==
    /\ h \in [0 .. n -> State]
    /\ h[0] = base
    /\ \A k \in 1 .. n : h[k] = step[<<h[k - 1], k>>]

\* It exists.
LEMMA RecExists ==
    ASSUME NEW n \in Nat, NEW State, NEW base \in State,
           NEW step \in [State \X (1 .. n) -> State]
    PROVE  \E h : RecSolves(h, n, State, base, step)
<1>1. PICK g : FoldSolves(g, n, State, base, step)
  BY FoldExists
<1>2. g \in [SUBSET (1 .. n) -> State]
  BY <1>1 DEF FoldSolves
<1> DEFINE h == [k \in 0 .. n |-> g[1 .. k]]
<1>3. h \in [0 .. n -> State]
  <2>1. \A k \in 0 .. n : 1 .. k \in SUBSET (1 .. n)
    OBVIOUS
  <2> QED BY <1>2, <2>1
<1>4. h[0] = base
  <2>1. 1 .. 0 = {} /\ 0 \in 0 .. n
    OBVIOUS
  <2>2. g[{}] = base
    BY <1>1 DEF FoldSolves
  <2> QED BY <2>1, <2>2
<1>5. ASSUME NEW k \in 1 .. n
      PROVE  h[k] = step[<<h[k - 1], k>>]
  <2>1. /\ 1 .. k \in SUBSET (1 .. n) /\ 1 .. k # {}
        /\ Max(1 .. k) = k /\ (1 .. k) \ {k} = 1 .. (k - 1)
    BY PrefixFacts
  <2>2. g[1 .. k] = step[<<g[1 .. (k - 1)], k>>]
    <3>1. g[1 .. k] = step[<<g[(1 .. k) \ {Max(1 .. k)}], Max(1 .. k)>>]
      BY <1>1, <2>1 DEF FoldSolves
    <3> QED BY <2>1, <3>1
  <2>3. k \in 0 .. n /\ k - 1 \in 0 .. n
    OBVIOUS
  <2> QED BY <2>2, <2>3
<1> HIDE DEF h
<1>6. RecSolves(h, n, State, base, step)
  BY <1>3, <1>4, <1>5 DEF RecSolves
<1> QED BY <1>6
=============================================================================
