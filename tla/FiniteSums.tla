----------------------------- MODULE FiniteSums -----------------------------
(***************************************************************************)
(* Finite sets of whatever kind: the least and the greatest of some        *)
(* numbers, and sums, as the fold of the community modules computes them.  *)
(* Induction goes by way of a smallest set for which a statement fails.    *)
(***************************************************************************)
EXTENDS Integers, FiniteSetTheorems, TLAPS

\* Induction over finite sets: what fails for some of them fails for a smallest one.
LEMMA SmallestSet ==
    ASSUME NEW S, IsFiniteSet(S), NEW T, T \subseteq SUBSET S, T # {}
    PROVE  \E A \in T : \A B \in T : B \subseteq A => B = A
<1> DEFINE R == StrictSubsetOrdering(S)
<1>1. IsWellFoundedOn(R, FiniteSubsetsOf(S))
  BY FS_StrictSubsetOrderingWellFounded
<1>2. FiniteSubsetsOf(S) = SUBSET S
  BY FS_FiniteSubsetsOfFinite
<1>3. \E A \in T : \A B \in T : ~ (<<B, A>> \in R)
  <2> HIDE DEF R
  <2> QED BY <1>1, <1>2, WFMin, Zenon
<1>4. \A A, B \in SUBSET S : B \subseteq A /\ B # A => <<B, A>> \in R
  BY DEF StrictSubsetOrdering
<1> QED BY <1>3, <1>4

-----------------------------------------------------------------------------
(***************************************************************************)
(* The least and the greatest of some numbers                              *)
(***************************************************************************)
HasSmallest(T) == \E A \in T : \A B \in T : B \subseteq A => B = A

LEMMA SmallestOf ==
    ASSUME NEW S, IsFiniteSet(S), NEW T, T \subseteq SUBSET S, T # {}
    PROVE  HasSmallest(T)
BY SmallestSet DEF HasSmallest

LEMMA GreatestOfFinite ==
    ASSUME NEW S, S \subseteq Int, S # {}, IsFiniteSet(S)
    PROVE  \E x \in S : \A y \in S : x >= y
<1> DEFINE T == {A \in SUBSET S : A # {} /\ ~ \E x \in A : \A y \in A : x >= y}
<1> SUFFICES ASSUME T # {} PROVE FALSE
  OBVIOUS
<1>1. T \subseteq SUBSET S
  OBVIOUS
<1>2. PICK A \in T : \A B \in T : B \subseteq A => B = A
  <2> HIDE DEF T
  <2>1. HasSmallest(T)
    BY <1>1, SmallestOf
  <2> QED BY <2>1 DEF HasSmallest
<1>3. A \subseteq S /\ A # {} /\ ~ \E x \in A : \A y \in A : x >= y
  OBVIOUS
<1>x. PICK x \in A : TRUE
  BY <1>3
<1>y. PICK y \in A : ~ x >= y
  BY <1>3
<1>4. x \in Int /\ y \in Int /\ y \in A \ {x} /\ A \ {x} # A /\ A \ {x} \in SUBSET S
  BY <1>3, <1>y
<1>z. A \ {x} \notin T
  <2> HIDE DEF T
  <2> QED BY <1>2, <1>4
<1>5. PICK z \in A \ {x} : \A w \in A \ {x} : z >= w
  BY <1>4, <1>z
<1>6. z \in Int /\ z >= x
  BY <1>3, <1>4, <1>5, <1>y
<1>7. \A w \in A : z >= w
  BY <1>5, <1>6
<1> QED BY <1>5, <1>7

LEMMA LeastOfNaturals ==
    ASSUME NEW S, S \subseteq Nat, S # {}
    PROVE  \E x \in S : \A y \in S : x <= y
<1>1. PICK n \in S : TRUE
  OBVIOUS
<1> DEFINE T == {-y : y \in {z \in S : z <= n}}
<1>2. IsFiniteSet(T)
  <2>1. IsFiniteSet(-n .. 0)
    BY FS_Interval
  <2>2. T \subseteq -n .. 0
    OBVIOUS
  <2> QED BY <2>1, <2>2, FS_Subset
<1>3. -n \in T /\ T \subseteq Int
  OBVIOUS
<1>4. PICK x \in T : \A y \in T : x >= y
  <2> HIDE DEF T
  <2> QED BY <1>2, <1>3, GreatestOfFinite
<1>5. -x \in S /\ -x <= n
  BY <1>4
<1>6. ASSUME NEW y \in S PROVE -x <= y
  BY <1>4, <1>5
<1> QED BY <1>5, <1>6

-----------------------------------------------------------------------------
(***************************************************************************)
(* Sums                                                                    *)
(***************************************************************************)
\* The element a sum takes out first.
Pick(s) == CHOOSE x \in s : TRUE

Summing(F, g, S) ==
    g = [s \in SUBSET S |-> IF s = {} THEN 0 ELSE F[Pick(s)] + g[s \ {Pick(s)}]]

Sum(F, S) == (CHOOSE g : Summing(F, g, S))[S]

LEMMA PickFrom == \A s : s # {} => Pick(s) \in s
BY DEF Pick

LEMMA SummingStep ==
    ASSUME NEW F, NEW g, NEW S, Summing(F, g, S), NEW s \in SUBSET S
    PROVE  g[s] = IF s = {} THEN 0 ELSE F[Pick(s)] + g[s \ {Pick(s)}]
BY DEF Summing

\* Two ways of summing agree where both are defined.
LEMMA SummingAgrees ==
    ASSUME NEW F, NEW g, NEW h, NEW A, NEW B, IsFiniteSet(A), B \subseteq A,
           Summing(F, g, A), Summing(F, h, B)
    PROVE  \A s \in SUBSET B : g[s] = h[s]
<1> DEFINE T == {s \in SUBSET B : g[s] # h[s]}
<1> SUFFICES ASSUME T # {} PROVE FALSE
  OBVIOUS
<1>1. IsFiniteSet(B)
  BY FS_Subset
<1>2. PICK s \in T : \A u \in T : u \subseteq s => u = s
  <2> HIDE DEF T
  <2> T \subseteq SUBSET B
    BY DEF T
  <2> QED BY <1>1, SmallestSet
<1>3. s # {}
  BY SummingStep
<1>4. s \ {Pick(s)} \in SUBSET B /\ s \ {Pick(s)} # s
  BY <1>3, PickFrom
<1>5. g[s \ {Pick(s)}] = h[s \ {Pick(s)}]
  BY <1>2, <1>4
<1>6. s \in SUBSET A /\ s \in SUBSET B
  OBVIOUS
<1>7. g[s] = F[Pick(s)] + g[s \ {Pick(s)}] /\ h[s] = F[Pick(s)] + h[s \ {Pick(s)}]
  <2> HIDE DEF T
  <2>1. g[s] = IF s = {} THEN 0 ELSE F[Pick(s)] + g[s \ {Pick(s)}]
    BY <1>6, SummingStep
  <2>2. h[s] = IF s = {} THEN 0 ELSE F[Pick(s)] + h[s \ {Pick(s)}]
    BY <1>6, SummingStep
  <2> QED BY <1>3, <2>1, <2>2
<1> QED BY <1>5, <1>7

LEMMA SummingWithin ==
    ASSUME NEW F, NEW g, NEW A, NEW B \in SUBSET A, Summing(F, g, A)
    PROVE  Summing(F, [s \in SUBSET B |-> g[s]], B)
<1> DEFINE h == [s \in SUBSET B |-> g[s]]
<1>1. ASSUME NEW s \in SUBSET B
      PROVE  h[s] = IF s = {} THEN 0 ELSE F[Pick(s)] + h[s \ {Pick(s)}]
  <2>1. g[s] = IF s = {} THEN 0 ELSE F[Pick(s)] + g[s \ {Pick(s)}]
    BY SummingStep
  <2>2. s \ {Pick(s)} \in SUBSET B
    OBVIOUS
  <2> QED BY <2>1, <2>2
<1> HIDE DEF h
<1>2. h = [s \in SUBSET B |-> h[s]]
  BY DEF h
<1>3. h = [s \in SUBSET B |-> IF s = {} THEN 0 ELSE F[Pick(s)] + h[s \ {Pick(s)}]]
  BY <1>1, <1>2
<1> QED BY <1>3 DEF Summing, h

\* There is a way of summing over every finite set.
LEMMA SummingExists ==
    ASSUME NEW F, NEW S, IsFiniteSet(S)
    PROVE  \E g : Summing(F, g, S)
<1> DEFINE T == {A \in SUBSET S : ~ \E g : Summing(F, g, A)}
<1> SUFFICES ASSUME T # {} PROVE FALSE
  OBVIOUS
<1>1. PICK A \in T : \A B \in T : B \subseteq A => B = A
  <2> HIDE DEF T
  <2> T \subseteq SUBSET S
    BY DEF T
  <2> QED BY SmallestSet
<1> DEFINE G(s) == CHOOSE g : Summing(F, g, s)
           h == [s \in SUBSET A |->
                    IF s = {} THEN 0
                    ELSE F[Pick(s)] + G(s \ {Pick(s)})[s \ {Pick(s)}]]
<1>2. ASSUME NEW u \in SUBSET A, u # A PROVE Summing(F, G(u), u) /\ IsFiniteSet(u)
  <2>1. u \notin T /\ u \in SUBSET S
    BY <1>1, <1>2
  <2>2. \E g : Summing(F, g, u)
    BY <2>1
  <2> HIDE DEF T
  <2>3. IsFiniteSet(u)
    BY <2>1, FS_Subset
  <2> QED BY <2>2, <2>3, Zenon
<1>3. ASSUME NEW u \in SUBSET A, u # A PROVE h[u] = G(u)[u]
  <2> DEFINE v == u \ {Pick(u)}
  <2>1. G(u)[u] = IF u = {} THEN 0 ELSE F[Pick(u)] + G(u)[v]
    <3> HIDE DEF G
    <3> QED BY <1>2, <1>3, SummingStep
  <2>2. h[u] = IF u = {} THEN 0 ELSE F[Pick(u)] + G(v)[v]
    <3> HIDE DEF G
    <3> QED OBVIOUS
  <2>3. u # {} => G(u)[v] = G(v)[v]
    <3>1. v \in SUBSET u /\ v \in SUBSET A /\ (u # {} => v # A)
      BY <1>3, PickFrom
    <3> HIDE DEF G, v
    <3> QED BY <1>2, <1>3, <3>1, SummingAgrees
  <2> HIDE DEF G, h, v
  <2> QED BY <2>1, <2>2, <2>3
<1>4. h = [s \in SUBSET A |-> IF s = {} THEN 0 ELSE F[Pick(s)] + h[s \ {Pick(s)}]]
  <2>1. ASSUME NEW s \in SUBSET A
        PROVE  h[s] = IF s = {} THEN 0 ELSE F[Pick(s)] + h[s \ {Pick(s)}]
    <3> DEFINE u == s \ {Pick(s)}
    <3>1. h[s] = IF s = {} THEN 0 ELSE F[Pick(s)] + G(u)[u]
      <4> HIDE DEF G
      <4> QED OBVIOUS
    <3>2. s # {} => u \in SUBSET A /\ u # A
      BY PickFrom
    <3> HIDE DEF G, h
    <3>3. s # {} => h[u] = G(u)[u]
      BY <1>3, <3>2
    <3> QED BY <3>1, <3>3
  <2>2. h = [s \in SUBSET A |-> h[s]]
    <3> HIDE DEF G
    <3> QED OBVIOUS
  <2> HIDE DEF h
  <2> QED BY <2>1, <2>2
<1>5. Summing(F, h, A)
  <2> HIDE DEF h
  <2> QED BY <1>4 DEF Summing
<1> HIDE DEF h
<1> QED BY <1>5

LEMMA SumIs ==
    ASSUME NEW F, NEW S, IsFiniteSet(S), NEW T \in SUBSET S, NEW g, Summing(F, g, S)
    PROVE  Sum(F, T) = g[T]
<1>1. IsFiniteSet(T)
  BY FS_Subset
<1>2. Summing(F, CHOOSE f : Summing(F, f, T), T)
  BY <1>1, SummingExists, Zenon
<1> DEFINE f == CHOOSE f : Summing(F, f, T)
<1> HIDE DEF f
<1>3. Summing(F, f, T)
  BY <1>2 DEF f
<1>4. f[T] = g[T]
  BY <1>1, <1>3, SummingAgrees
<1> QED BY <1>4 DEF Sum, f

LEMMA SumUnfolds ==
    ASSUME NEW F, NEW S, IsFiniteSet(S)
    PROVE  Sum(F, S) = IF S = {} THEN 0 ELSE F[Pick(S)] + Sum(F, S \ {Pick(S)})
<1>1. PICK g : Summing(F, g, S)
  BY SummingExists
<1>2. S \in SUBSET S /\ S \ {Pick(S)} \in SUBSET S
  OBVIOUS
<1>3. Sum(F, S) = g[S] /\ Sum(F, S \ {Pick(S)}) = g[S \ {Pick(S)}]
  BY <1>1, <1>2, SumIs
<1>4. g[S] = IF S = {} THEN 0 ELSE F[Pick(S)] + g[S \ {Pick(S)}]
  BY <1>1, <1>2, SummingStep
<1> QED BY <1>3, <1>4

LEMMA SumTyped ==
    ASSUME NEW F, NEW S, IsFiniteSet(S), \A x \in S : F[x] \in Nat
    PROVE  Sum(F, S) \in Nat
<1> DEFINE T == {A \in SUBSET S : Sum(F, A) \notin Nat}
<1> SUFFICES ASSUME T # {} PROVE FALSE
  OBVIOUS
<1>1. PICK A \in T : \A B \in T : B \subseteq A => B = A
  <2> HIDE DEF T
  <2> T \subseteq SUBSET S
    BY DEF T
  <2> QED BY SmallestSet
<1>2. IsFiniteSet(A)
  BY FS_Subset
<1>3. A # {}
  <2>1. Sum(F, A) = IF A = {} THEN 0 ELSE F[Pick(A)] + Sum(F, A \ {Pick(A)})
    BY <1>2, SumUnfolds
  <2> QED BY <2>1
<1>4. A \ {Pick(A)} \in SUBSET S /\ A \ {Pick(A)} # A /\ Pick(A) \in S
  BY <1>3, PickFrom
<1>5. Sum(F, A \ {Pick(A)}) \in Nat
  BY <1>1, <1>4
<1>6. Sum(F, A) = F[Pick(A)] + Sum(F, A \ {Pick(A)})
  BY <1>2, <1>3, SumUnfolds
<1> QED BY <1>4, <1>5, <1>6

LEMMA SumSame ==
    ASSUME NEW F, NEW G, NEW S, IsFiniteSet(S), \A x \in S : F[x] = G[x]
    PROVE  Sum(F, S) = Sum(G, S)
<1> DEFINE T == {A \in SUBSET S : Sum(F, A) # Sum(G, A)}
<1> SUFFICES ASSUME T # {} PROVE FALSE
  OBVIOUS
<1>1. PICK A \in T : \A B \in T : B \subseteq A => B = A
  <2> HIDE DEF T
  <2> T \subseteq SUBSET S
    BY DEF T
  <2> QED BY SmallestSet
<1>2. IsFiniteSet(A)
  BY FS_Subset
<1>3. /\ Sum(F, A) = IF A = {} THEN 0 ELSE F[Pick(A)] + Sum(F, A \ {Pick(A)})
      /\ Sum(G, A) = IF A = {} THEN 0 ELSE G[Pick(A)] + Sum(G, A \ {Pick(A)})
  BY <1>2, SumUnfolds
<1>4. A # {}
  BY <1>3
<1>5. A \ {Pick(A)} \in SUBSET S /\ A \ {Pick(A)} # A /\ Pick(A) \in S
  BY <1>4, PickFrom
<1>6. Sum(F, A \ {Pick(A)}) = Sum(G, A \ {Pick(A)})
  BY <1>1, <1>5
<1> QED BY <1>3, <1>5, <1>6

\* The order in which the elements are taken does not matter.
LEMMA SumAdds ==
    ASSUME NEW F, NEW S, NEW x, IsFiniteSet(S), x \notin S, \A y \in S \cup {x} : F[y] \in Nat
    PROVE  Sum(F, S \cup {x}) = Sum(F, S) + F[x]
<1> DEFINE U == S \cup {x}
           T == {A \in SUBSET U : \E y \in U \ A : Sum(F, A \cup {y}) # Sum(F, A) + F[y]}
<1> SUFFICES ASSUME T # {} PROVE FALSE
  OBVIOUS
<1>0. IsFiniteSet(U)
  BY FS_AddElement
<1>1. PICK A \in T : \A B \in T : B \subseteq A => B = A
  <2> HIDE DEF T, U
  <2> T \subseteq SUBSET U
    BY DEF T
  <2> QED BY <1>0, SmallestSet
<1>2. PICK y \in U \ A : Sum(F, A \cup {y}) # Sum(F, A) + F[y]
  BY <1>1
<1> DEFINE p == Pick(A \cup {y})
           B == A \ {p}
<1> HIDE DEF T
<1>3. A \in SUBSET U /\ A \cup {y} \in SUBSET U /\ B \in SUBSET U
  BY DEF T
<1>4. IsFiniteSet(A) /\ IsFiniteSet(A \cup {y}) /\ IsFiniteSet(B)
  BY <1>0, <1>3, FS_Subset
<1>5. p \in A \cup {y}
  BY PickFrom
<1>6. Sum(F, A \cup {y}) = F[p] + Sum(F, (A \cup {y}) \ {p})
  BY <1>4, SumUnfolds
<1>7. F[p] \in Nat /\ F[y] \in Nat /\ Sum(F, A) \in Nat /\ Sum(F, B) \in Nat
  <2>1. \A z \in A \cup {y} : F[z] \in Nat
    BY <1>3
  <2> HIDE DEF p, U
  <2> QED BY <1>4, <1>5, <2>1, SumTyped
<1>8. CASE p = y
  <2>1. (A \cup {y}) \ {p} = A
    BY <1>2, <1>8
  <2> QED BY <1>2, <1>6, <1>7, <1>8, <2>1
<1>9. CASE p # y
  <2>1. p \in A /\ B # A /\ B \subseteq A /\ y \notin B /\ p \notin B
    BY <1>5, <1>9, <1>2
  <2>2. (A \cup {y}) \ {p} = B \cup {y} /\ B \cup {p} = A
    BY <1>9, <2>1
  <2>3. \A z \in U \ B : Sum(F, B \cup {z}) = Sum(F, B) + F[z]
    BY <1>1, <1>3, <2>1 DEF T
  <2>4. Sum(F, B \cup {y}) = Sum(F, B) + F[y] /\ Sum(F, B \cup {p}) = Sum(F, B) + F[p]
    BY <1>2, <1>3, <2>1, <2>3
  <2> HIDE DEF p, B, U
  <2> QED BY <1>2, <1>6, <1>7, <2>2, <2>4
<1> QED BY <1>8, <1>9

\* What is put into groups is in one of them each: F counts the x of C for which G[x] is the
\* group.
Grouped(C, D, G, F) ==
    /\ \A x \in C : G[x] \in D
    /\ \A g \in D : F[g] = Cardinality({x \in C : G[x] = g})

LEMMA SumOfGroups ==
    ASSUME NEW C, IsFiniteSet(C), NEW D, IsFiniteSet(D), NEW G, NEW F, Grouped(C, D, G, F)
    PROVE  Sum(F, D) = Cardinality(C)
<1>0. /\ \A x \in C : G[x] \in D
      /\ \A g \in D : F[g] = Cardinality({x \in C : G[x] = g})
  BY DEF Grouped
<1> DEFINE In(E) == {x \in C : G[x] \in E}
           T == {E \in SUBSET D : Sum(F, E) # Cardinality(In(E))}
<1>1. ASSUME T # {} PROVE FALSE
  <2>1. PICK E \in T : \A B \in T : B \subseteq E => B = E
    <3>1. T \subseteq SUBSET D
      OBVIOUS
    <3> HIDE DEF T
    <3>2. HasSmallest(T)
      BY <1>1, <3>1, SmallestOf
    <3> QED BY <3>2 DEF HasSmallest
  <2>2. E \subseteq D /\ Sum(F, E) # Cardinality(In(E))
    OBVIOUS
  <2>3. IsFiniteSet(E)
    BY <2>2, FS_Subset
  <2>4. Sum(F, E) = IF E = {} THEN 0 ELSE F[Pick(E)] + Sum(F, E \ {Pick(E)})
    BY <2>3, SumUnfolds
  <2>5. E # {}
    <3>1. Cardinality({}) = 0
      BY FS_EmptySet
    <3>2. E = {} => In(E) = {}
      OBVIOUS
    <3> HIDE DEF In, T
    <3> QED BY <2>2, <2>4, <3>1, <3>2
  <2>6. PICK p : p = Pick(E)
    OBVIOUS
  <2>7. p \in E
    BY <2>5, <2>6, PickFrom
  <2>8. E \ {p} \in SUBSET D /\ E \ {p} \subseteq E /\ E \ {p} # E
    BY <2>2, <2>7
  <2>9. Sum(F, E \ {p}) = Cardinality(In(E \ {p}))
    <3> HIDE DEF In
    <3> QED BY <2>1, <2>8
  <2>10. PICK group : group = {x \in C : G[x] = p}
    OBVIOUS
  <2>11. In(E) = In(E \ {p}) \cup group /\ In(E \ {p}) \cap group = {}
    BY <2>7, <2>10
  <2>12. IsFiniteSet(group) /\ IsFiniteSet(In(E \ {p}))
    <3>1. group \subseteq C /\ In(E \ {p}) \subseteq C
      BY <2>10
    <3> HIDE DEF In
    <3> QED BY <3>1, FS_Subset
  <2>13. F[p] = Cardinality(group)
    BY <1>0, <2>2, <2>7, <2>10
  <2> HIDE DEF In, T
  <2>14. Cardinality(In(E)) = Cardinality(In(E \ {p})) + Cardinality(group) - Cardinality({})
    <3>1. PICK others : others = In(E \ {p})
      OBVIOUS
    <3>2. Cardinality(others \cup group)
            = Cardinality(others) + Cardinality(group) - Cardinality(others \cap group)
      BY <2>12, <3>1, FS_Union
    <3>3. others \cap group = {} /\ In(E) = others \cup group
      BY <2>11, <3>1
    <3> QED BY <3>1, <3>2, <3>3
  <2>15. Cardinality({}) = 0
    BY FS_EmptySet
  <2>16. Cardinality(In(E \ {p})) \in Nat /\ Cardinality(group) \in Nat
    BY <2>12, FS_CardinalityType
  <2> QED BY <2>2, <2>4, <2>5, <2>6, <2>9, <2>13, <2>14, <2>15, <2>16
<1>2. D \notin T
  BY <1>1
<1>3. In(D) = C
  BY <1>0
<1> HIDE DEF In
<1> QED BY <1>2, <1>3

-----------------------------------------------------------------------------
(***************************************************************************)
(* The first of an ordered set                                             *)
(***************************************************************************)
\* Of the elements of a set, ordered by which are `later` than each, exactly k have fewer than
\* k later ones, if not all have.
LEMMA FirstOnes ==
    ASSUME NEW S, IsFiniteSet(S), NEW later, NEW k \in Nat,
           \A x \in S : later[x] \subseteq S \ {x},
           \A x, y \in S : x # y => x \in later[y] \/ y \in later[x],
           \A x, y \in S : y \in later[x] => later[y] \subseteq later[x],
           NEW first, first = {x \in S : Cardinality(later[x]) < k}, first # S
    PROVE  Cardinality(first) = k
<1>1. PICK n \in Nat : n = Cardinality(S)
  BY FS_CardinalityType
<1>2. ASSUME NEW x \in S
      PROVE  IsFiniteSet(later[x]) /\ Cardinality(later[x]) \in 0 .. n - 1
  <2>1. later[x] \in SUBSET (S \ {x}) /\ IsFiniteSet(S \ {x}) /\ Cardinality(S \ {x}) = n - 1
    BY <1>1, FS_RemoveElement
  <2>2. IsFiniteSet(later[x]) /\ Cardinality(later[x]) <= n - 1
    BY <2>1, FS_Subset
  <2>3. Cardinality(later[x]) \in Nat
    BY <2>2, FS_CardinalityType
  <2> QED BY <2>2, <2>3
<1>3. ASSUME NEW x \in S, NEW y \in S, y \in later[x]
      PROVE  Cardinality(later[y]) < Cardinality(later[x])
  <2>1. y \notin later[y]
    OBVIOUS
  <2>2. PICK a : a = later[x]
    OBVIOUS
  <2>3. PICK b : b = later[y]
    OBVIOUS
  <2>4. IsFiniteSet(a) /\ IsFiniteSet(b) /\ b \in SUBSET a /\ b # a
    BY <1>2, <1>3, <2>1, <2>2, <2>3
  <2>5. Cardinality(b) <= Cardinality(a) /\ Cardinality(a) # Cardinality(b)
    BY <2>4, FS_Subset
  <2>6. Cardinality(a) \in Nat /\ Cardinality(b) \in Nat
    BY <2>4, FS_CardinalityType
  <2> QED BY <2>2, <2>3, <2>5, <2>6
<1>4. PICK rank : rank = [x \in S |-> Cardinality(later[x])]
  OBVIOUS
<1>5. /\ rank \in [S -> 0 .. n - 1]
      /\ \A x \in S : rank[x] = Cardinality(later[x])
  BY <1>2, <1>4
<1>6. ASSUME NEW x \in S, NEW y \in S, rank[x] = rank[y] PROVE x = y
  <2>1. rank[x] \in Int /\ rank[y] \in Int
    BY <1>1, <1>5
  <2>2. ~ rank[x] < rank[y] /\ ~ rank[y] < rank[x]
    BY <1>6, <2>1
  <2> QED BY <1>3, <1>5, <2>2
<1>7. rank \in Injection(S, 0 .. n - 1)
  BY <1>5, <1>6 DEF Injection, IsInjective
<1>8. IsFiniteSet(0 .. n - 1) /\ Cardinality(0 .. n - 1) = n
  <2>1. /\ IsFiniteSet(0 .. n - 1)
        /\ Cardinality(0 .. n - 1) = IF 0 > n - 1 THEN 0 ELSE n - 1 - 0 + 1
    BY FS_Interval
  <2> QED BY <2>1
<1>9. rank \in Surjection(S, 0 .. n - 1)
  BY <1>1, <1>7, <1>8, FS_Injection
<1>10. PICK z \in S : rank[z] >= k
  BY <1>1, <1>5
<1>11. k <= n - 1
  BY <1>1, <1>5, <1>10
<1>12. PICK r : r = [x \in first |-> rank[x]]
  OBVIOUS
<1>13. r \in [first -> 0 .. k - 1]
  BY <1>1, <1>5, <1>12
<1>14. \A x, y \in first : r[x] = r[y] => x = y
  BY <1>6, <1>12
<1>15. ASSUME NEW j \in 0 .. k - 1 PROVE \E x \in first : r[x] = j
  <2>1. j \in 0 .. n - 1
    BY <1>1, <1>11
  <2>2. PICK x \in S : rank[x] = j
    BY <1>9, <2>1 DEF Surjection
  <2>3. x \in first
    BY <1>5, <2>2
  <2> QED BY <1>12, <2>2, <2>3
<1>16. r \in Bijection(first, 0 .. k - 1)
  BY <1>13, <1>14, <1>15 DEF Bijection, Injection, Surjection, IsInjective
<1>17. IsFiniteSet(first) /\ ExistsBijection(first, 0 .. k - 1)
  <2>1. first \in SUBSET S
    OBVIOUS
  <2> QED BY <1>16, <2>1, FS_Subset DEF ExistsBijection
<1>18. Cardinality(0 .. k - 1) = Cardinality(first)
  BY <1>17, FS_Bijection
<1>19. Cardinality(0 .. k - 1) = k
  <2>1. Cardinality(0 .. k - 1) = IF 0 > k - 1 THEN 0 ELSE k - 1 - 0 + 1
    BY FS_Interval
  <2> QED BY <2>1
<1> QED BY <1>18, <1>19

=============================================================================
