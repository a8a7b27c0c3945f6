----------------------------- MODULE Induction -----------------------------
(***************************************************************************)
(* Induction over numbers and over what is well-founded, and functions that *)
(* are defined by recursion, as theorems about sets and functions: what the *)
(* proofs about the recursive definitions of the models rest on.            *)
(***************************************************************************)
EXTENDS Integers, FiniteSets, FiniteSetTheorems, WellFoundedInduction, TLAPS

\* A set of numbers that is not empty has a least one: of the intervals from 0 to its
\* elements one has none of the others within it.
THEOREM LeastElement ==
  ASSUME NEW T, T \subseteq Nat, T # {}
  PROVE  \E x \in T : \A y \in T : x <= y
<1> DEFINE Below == {0 .. k : k \in T}
<1>1. IsWellFoundedOn(StrictSubsetOrdering(Nat), FiniteSubsetsOf(Nat))
  BY FS_StrictSubsetOrderingWellFounded
<1>2. Below \subseteq FiniteSubsetsOf(Nat)
  <2> SUFFICES ASSUME NEW k \in T PROVE 0 .. k \in FiniteSubsetsOf(Nat)
    OBVIOUS
  <2>1. k \in Int /\ 0 \in Int
    OBVIOUS
  <2>2. IsFiniteSet(0 .. k)
    BY <2>1, FS_Interval
  <2> QED BY <2>2 DEF FiniteSubsetsOf
<1>3. Below # {}
  OBVIOUS
<1>4. \E x \in Below : \A y \in Below : ~(<<y, x>> \in StrictSubsetOrdering(Nat))
  <2> HIDE DEF Below
  <2> QED BY <1>1, <1>2, <1>3, WFMin, Zenon
<1>5. PICK x \in T : \A y \in T : ~(<<0 .. y, 0 .. x>> \in StrictSubsetOrdering(Nat))
  BY <1>4
<1>6. ASSUME NEW y \in T PROVE x <= y
  <2>1. SUFFICES ASSUME y < x PROVE FALSE
    OBVIOUS
  <2>2. 0 .. y \subseteq 0 .. x /\ x \in 0 .. x /\ x \notin 0 .. y
    BY <2>1
  <2>3. 0 .. y \in SUBSET Nat /\ 0 .. x \in SUBSET Nat
    OBVIOUS
  <2>4. <<0 .. y, 0 .. x>> \in StrictSubsetOrdering(Nat)
    BY <2>2, <2>3 DEF StrictSubsetOrdering
  <2> QED BY <2>4, <1>5
<1> QED BY <1>6

\* A set that has 0, and with each number the next, has all of them.
THEOREM NumbersInduction ==
  ASSUME NEW S, 0 \in S, \A n \in Nat : n \in S => n + 1 \in S
  PROVE  \A n \in Nat : n \in S
<1> DEFINE Out == {n \in Nat : n \notin S}
<1>1. CASE Out # {}
  <2>1. PICK x \in Out : \A y \in Out : x <= y
    BY <1>1, LeastElement
  <2>2. x # 0 /\ x - 1 \in Nat /\ x - 1 \notin Out
    BY <2>1
  <2> QED BY <2>1, <2>2
<1> QED BY <1>1

\* A set of numbers up to a bound that is not empty has a greatest one.
THEOREM GreatestElement ==
  ASSUME NEW b \in Nat, NEW T, T \subseteq 0 .. b, T # {}
  PROVE  \E x \in T : \A y \in T : y <= x
<1> DEFINE Above == {n \in Nat : \A y \in T : y <= n}
<1>1. b \in Above
  OBVIOUS
<1>2. PICK n \in Above : \A m \in Above : n <= m
  BY <1>1, LeastElement
<1>3. CASE n \in T
  BY <1>3
<1>4. CASE n \notin T
  <2>1. \A y \in T : y <= n - 1 /\ y \in Nat
    BY <1>4
  <2>2. n - 1 \in Nat
    <3>1. PICK y \in T : TRUE
      OBVIOUS
    <3>2. y <= n - 1 /\ y \in Nat /\ n \in Nat
      BY <2>1
    <3> QED BY <3>2
  <2>3. n - 1 \in Above
    BY <2>1, <2>2
  <2> QED BY <1>2, <2>3
<1> QED BY <1>3, <1>4

-----------------------------------------------------------------------------
(* Recursion.                                                               *)

\* Whatever elements are taken, one of them comes before none of the others.
IsWellFounded(D, before) ==
  \A S \in SUBSET D : S # {} => \E x \in S : before[x] \cap S = {}

\* What comes just before each of the numbers up to a bound.
Predecessor(b) == [i \in 0 .. b |-> IF i = 0 THEN {} ELSE {i - 1}]

\* Counting down comes to an end.
THEOREM PredecessorsWellFounded ==
  ASSUME NEW b \in Nat
  PROVE  /\ Predecessor(b) \in [0 .. b -> SUBSET (0 .. b)]
         /\ IsWellFounded(0 .. b, Predecessor(b))
<1>1. Predecessor(b) \in [0 .. b -> SUBSET (0 .. b)]
  <2> SUFFICES ASSUME NEW i \in 0 .. b, i # 0 PROVE i - 1 \in 0 .. b
    BY DEF Predecessor
  <2> QED OBVIOUS
<1>2. ASSUME NEW S \in SUBSET (0 .. b), S # {}
      PROVE  \E x \in S : Predecessor(b)[x] \cap S = {}
  <2>1. S \subseteq Nat
    OBVIOUS
  <2>2. PICK x \in S : \A y \in S : x <= y
    BY <1>2, <2>1, LeastElement
  <2>3. x \in 0 .. b /\ x - 1 \notin S
    BY <2>1, <2>2
  <2> QED BY <2>3 DEF Predecessor
<1> QED BY <1>1, <1>2 DEF IsWellFounded

\* What holds of an element if it holds of all before it holds of all.
THEOREM BeforeInduction ==
  ASSUME NEW D, NEW before \in [D -> SUBSET D], IsWellFounded(D, before), NEW S,
         \A x \in D : before[x] \subseteq S => x \in S
  PROVE  D \subseteq S
<1> DEFINE Out == {x \in D : x \notin S}
<1>1. CASE Out # {}
  <2>1. PICK x \in Out : before[x] \cap Out = {}
    <3>1. Out \in SUBSET D
      OBVIOUS
    <3> HIDE DEF Out
    <3> QED BY <1>1, <3>1 DEF IsWellFounded
  <2>2. before[x] \subseteq S
    BY <2>1
  <2> QED BY <2>2
<1> QED BY <1>1

\* g is defined for all of A, and for what comes before, by the values it has before:
\* G[x] takes those to the value for x.
Solves(D, before, G, A, g) ==
  /\ A \subseteq D /\ \A x \in A : before[x] \subseteq A
  /\ DOMAIN g = A
  /\ \A x \in A : g[x] = G[x][[y \in before[x] |-> g[y]]]

\* Two such functions have the same values where both are defined.
LEMMA SolutionsAgree ==
  ASSUME NEW D, NEW before \in [D -> SUBSET D], IsWellFounded(D, before), NEW G,
         NEW A, NEW g, Solves(D, before, G, A, g),
         NEW B, NEW h, Solves(D, before, G, B, h)
  PROVE  \A x \in A \cap B : g[x] = h[x]
<1> DEFINE Differ == {x \in A \cap B : g[x] # h[x]}
<1>1. SUFFICES ASSUME Differ # {} PROVE FALSE
  OBVIOUS
<1>2. Differ \in SUBSET D
  BY DEF Solves
<1>3. PICK x \in Differ : before[x] \cap Differ = {}
  <2> HIDE DEF Differ
  <2> QED BY <1>1, <1>2 DEF IsWellFounded
<1>4. x \in A /\ x \in B /\ before[x] \subseteq A \cap B
  BY DEF Solves
<1>5. \A y \in before[x] : g[y] = h[y]
  BY <1>3, <1>4
<1>6. [y \in before[x] |-> g[y]] = [y \in before[x] |-> h[y]]
  BY <1>5
<1>7. g[x] = G[x][[y \in before[x] |-> g[y]]] /\ h[x] = G[x][[y \in before[x] |-> h[y]]]
  BY <1>4, Zenon DEF Solves
<1> QED BY <1>6, <1>7, Zenon

\* The functions that have, for what comes before x, values of their types.
Below(before, T, x) ==
  {p \in [before[x] -> UNION {T[y] : y \in before[x]}] : \A y \in before[x] : p[y] \in T[y]}

\* There is such a function for all of D, and its values have their types: a recursive
\* definition over what is well-founded has the values that its equation says.
THEOREM TypedRecursion ==
  ASSUME NEW D, NEW before \in [D -> SUBSET D], IsWellFounded(D, before), NEW G, NEW T,
         \A x \in D : \A p \in Below(before, T, x) : G[x][p] \in T[x]
  PROVE  \E f : Solves(D, before, G, D, f) /\ f = [x \in D |-> f[x]]
                /\ \A x \in D : f[x] \in T[x]
<1> DEFINE Solution(A, g) == Solves(D, before, G, A, g)
           Solved == {A \in SUBSET D : \E g : Solution(A, g)}
           Of(A) == CHOOSE g : Solution(A, g)
           All == UNION Solved
           In(x) == CHOOSE A \in Solved : x \in A
           all == [x \in All |-> Of(In(x))[x]]
<1>1. \A A \in Solved : Solution(A, Of(A))
  OBVIOUS
<1>2. \A x \in All : In(x) \in Solved /\ x \in In(x)
  OBVIOUS
<1>3. ASSUME NEW A \in Solved, NEW x \in A PROVE all[x] = Of(A)[x]
  <2>1. x \in All /\ In(x) \in Solved /\ x \in In(x)
    BY <1>2
  <2>2. Solution(A, Of(A)) /\ Solution(In(x), Of(In(x)))
    BY <1>1, <2>1
  <2>3. Of(In(x))[x] = Of(A)[x]
    <3> HIDE DEF Of, In, Solved
    <3> QED BY <2>1, <2>2, SolutionsAgree
  <2> QED BY <2>1, <2>3
<1>4. Solution(All, all)
  <2>1. All \subseteq D /\ DOMAIN all = All
    OBVIOUS
  <2>2. ASSUME NEW x \in All
        PROVE  before[x] \subseteq All /\ all[x] = G[x][[y \in before[x] |-> all[y]]]
    <3>1. PICK A \in Solved : x \in A
      OBVIOUS
    <3>2. Solution(A, Of(A))
      BY <1>1
    <3>3. before[x] \subseteq A
      BY <3>1, <3>2 DEF Solves
    <3>4. [y \in before[x] |-> all[y]] = [y \in before[x] |-> Of(A)[y]]
      <4>1. \A y \in before[x] : all[y] = Of(A)[y]
        BY <3>3, <1>3
      <4> HIDE DEF Of, all
      <4> QED BY <4>1
    <3>5. Of(A)[x] = G[x][[y \in before[x] |-> Of(A)[y]]]
      BY <3>1, <3>2 DEF Solves
    <3>6. all[x] = Of(A)[x]
      BY <3>1, <1>3
    <3>7. A \subseteq All
      OBVIOUS
    <3> HIDE DEF Of, all, All, In
    <3> QED BY <3>3, <3>4, <3>5, <3>6, <3>7
  <2> HIDE DEF all, All
  <2> QED BY <2>1, <2>2 DEF Solves
<1>5. All = D
  <2>1. SUFFICES ASSUME D \ All # {} PROVE FALSE
    <3>1. All \subseteq D OBVIOUS
    <3> QED BY <3>1
  <2>2. PICK x \in D \ All : before[x] \cap (D \ All) = {}
    <3> HIDE DEF All
    <3> QED BY <2>1 DEF IsWellFounded
  <2>3. before[x] \subseteq All
    <3>1. before[x] \subseteq D OBVIOUS
    <3> QED BY <2>2, <3>1
  <2> DEFINE more == All \cup {x}
             g == [z \in more |-> IF z = x THEN G[x][[y \in before[x] |-> all[y]]] ELSE all[z]]
  <2>4. \A z \in All : z # x /\ g[z] = all[z]
    BY <2>2
  <2>5. Solution(more, g)
    <3>1. more \subseteq D /\ DOMAIN g = more
      OBVIOUS
    <3>2. ASSUME NEW z \in more
          PROVE  before[z] \subseteq All /\ g[z] = G[z][[y \in before[z] |-> all[y]]]
      <4>1. CASE z = x
        BY <4>1, <2>3
      <4>2. CASE z # x
        <5>1. z \in All /\ g[z] = all[z]
          BY <4>2
        <5> HIDE DEF g, all, All
        <5> QED BY <5>1, <1>4 DEF Solves
      <4> QED BY <4>1, <4>2
    <3>3. ASSUME NEW z \in more
          PROVE  [y \in before[z] |-> all[y]] = [y \in before[z] |-> g[y]]
      <4>1. \A y \in before[z] : all[y] = g[y]
        BY <3>2, <2>4
      <4> HIDE DEF g, all
      <4> QED BY <4>1
    <3>4. \A z \in more : before[z] \subseteq more /\ g[z] = G[z][[y \in before[z] |-> g[y]]]
      <4> HIDE DEF g, all, All
      <4> QED BY <3>2, <3>3
    <3> HIDE DEF g, more
    <3> QED BY <3>1, <3>4 DEF Solves
  <2>6. more \in Solved
    <3>1. more \subseteq D OBVIOUS
    <3> HIDE DEF more, g, All, all
    <3> QED BY <2>5, <3>1
  <2>7. x \in more
    OBVIOUS
  <2> HIDE DEF Solved, more
  <2> QED BY <2>2, <2>6, <2>7
<1>6. Solves(D, before, G, D, all)
  <2> HIDE DEF all, All
  <2> QED BY <1>4, <1>5
<1>7. DOMAIN all = D /\ all = [x \in D |-> all[x]]
  BY <1>5
<1>8. ASSUME NEW x \in D PROVE all[x] \in T[x]
  <2> DEFINE Out == {z \in D : all[z] \notin T[z]}
  <2>1. SUFFICES ASSUME Out # {} PROVE FALSE
    OBVIOUS
  <2>2. PICK z \in Out : before[z] \cap Out = {}
    <3>1. Out \subseteq D OBVIOUS
    <3> HIDE DEF Out
    <3> QED BY <2>1, <3>1 DEF IsWellFounded
  <2> HIDE DEF all
  <2>3. z \in D /\ \A y \in before[z] : all[y] \in T[y]
    BY <2>2
  <2>4. [y \in before[z] |-> all[y]] \in Below(before, T, z)
    <3> DEFINE p == [y \in before[z] |-> all[y]]
    <3>1. \A y \in before[z] : p[y] \in T[y]
      BY <2>3
    <3>2. p \in [before[z] -> UNION {T[y] : y \in before[z]}]
      BY <2>3
    <3> HIDE DEF p
    <3>3. p \in Below(before, T, z)
      BY <3>1, <3>2 DEF Below
    <3> QED BY <3>3 DEF p
  <2>5. all[z] = G[z][[y \in before[z] |-> all[y]]]
    BY <1>6, <2>2, Zenon DEF Solves
  <2>6. all[z] \in T[z]
    BY <2>3, <2>4, <2>5
  <2> QED BY <2>2, <2>6
<1> HIDE DEF all
<1> QED BY <1>6, <1>7, <1>8

\* f is defined for all of D by the values it has before, which are of the right types.
IsDefinedBy(D, before, G, T, f) ==
  /\ f = [x \in D |-> f[x]]
  /\ \A x \in D : /\ [y \in before[x] |-> f[y]] \in Below(before, T, x)
                  /\ f[x] = G[x][[y \in before[x] |-> f[y]]]

\* The same, for G that is known by its values on functions of the right types.
THEOREM RecursionIsDefined ==
  ASSUME NEW D, NEW before \in [D -> SUBSET D], IsWellFounded(D, before), NEW G, NEW T,
         \A x \in D : \A p \in Below(before, T, x) : G[x][p] \in T[x]
  PROVE  \E f : IsDefinedBy(D, before, G, T, f)
<1>1. PICK f : Solves(D, before, G, D, f) /\ f = [x \in D |-> f[x]] /\ \A x \in D : f[x] \in T[x]
  BY TypedRecursion
<1>2. ASSUME NEW x \in D PROVE [y \in before[x] |-> f[y]] \in Below(before, T, x)
  <2>1. \A y \in before[x] : f[y] \in T[y]
    BY <1>1
  <2> QED BY <2>1 DEF Below
<1>3. \A x \in D : f[x] = G[x][[y \in before[x] |-> f[y]]]
  BY <1>1, Zenon DEF Solves
<1>4. IsDefinedBy(D, before, G, T, f)
  BY <1>1, <1>2, <1>3, Zenon DEF IsDefinedBy
<1> QED BY <1>4

\* The values of f are of the types of T.
AreOfTypes(D, f, T) == \A x \in D : f[x] \in T[x]

\* What has its type when all before it have theirs has it.
THEOREM TypesByInduction ==
  ASSUME NEW D, NEW before \in [D -> SUBSET D], IsWellFounded(D, before), NEW f, NEW T,
         \A x \in D : AreOfTypes(before[x], f, T) => f[x] \in T[x]
  PROVE  AreOfTypes(D, f, T)
<1> DEFINE S == {x \in D : f[x] \in T[x]}
<1>1. \A x \in D : before[x] \subseteq S => x \in S
  BY Zenon DEF AreOfTypes
<1>2. D \subseteq S
  <2> HIDE DEF S
  <2> QED BY <1>1, BeforeInduction
<1> QED BY <1>2 DEF AreOfTypes

\* When all have the same type.
THEOREM WFRecursion ==
  ASSUME NEW D, NEW before \in [D -> SUBSET D], IsWellFounded(D, before), NEW G, NEW V,
         \A x \in D : \A p \in [before[x] -> V] : G[x][p] \in V
  PROVE  \E f \in [D -> V] : Solves(D, before, G, D, f)
<1> DEFINE T == [x \in D |-> V]
<1>1. ASSUME NEW x \in D, NEW p \in Below(before, T, x) PROVE G[x][p] \in T[x]
  <2>1. \A y \in before[x] : p[y] \in V
    BY DEF Below
  <2>2. p \in [before[x] -> V]
    <3>1. p = [y \in before[x] |-> p[y]]
      BY DEF Below
    <3> QED BY <2>1, <3>1
  <2> QED BY <2>2
<1>2. \A x \in D : T[x] = V
  OBVIOUS
<1> HIDE DEF T
<1>3. PICK f : Solves(D, before, G, D, f) /\ f = [x \in D |-> f[x]] /\ \A x \in D : f[x] \in T[x]
  BY <1>1, TypedRecursion
<1>4. f \in [D -> V]
  BY <1>2, <1>3
<1> QED BY <1>3, <1>4

\* What begins with a and goes on by a step for each number up to a bound.
GoesBySteps(f, b, a, step) == f[0] = a /\ \A i \in 1 .. b : f[i] = step[i][f[i - 1]]

\* There is such a function.
THEOREM StepsRecursion ==
  ASSUME NEW b \in Nat, NEW V, NEW a \in V, NEW step \in [1 .. b -> [V -> V]]
  PROVE  \E f \in [0 .. b -> V] : GoesBySteps(f, b, a, step)
<1> DEFINE G == [i \in 0 .. b |-> [p \in [Predecessor(b)[i] -> V] |->
                   IF i = 0 THEN a ELSE step[i][p[i - 1]]]]
<1>1. ASSUME NEW i \in 0 .. b, NEW p \in [Predecessor(b)[i] -> V]
      PROVE  G[i][p] \in V
  <2>1. CASE i = 0
    BY <2>1
  <2>2. CASE i # 0
    <3>1. i \in 1 .. b /\ Predecessor(b)[i] = {i - 1}
      BY <2>2 DEF Predecessor
    <3>2. p[i - 1] \in V
      BY <3>1
    <3>3. G[i][p] = step[i][p[i - 1]]
      BY <2>2
    <3> QED BY <3>1, <3>2, <3>3
  <2> QED BY <2>1, <2>2
<1>2. PICK f \in [0 .. b -> V] :
        \A i \in 0 .. b : f[i] = G[i][[j \in Predecessor(b)[i] |-> f[j]]]
  <2> DEFINE D == 0 .. b
             before == Predecessor(b)
  <2>1. before \in [D -> SUBSET D] /\ IsWellFounded(D, before)
    BY PredecessorsWellFounded
  <2>2. \A i \in D : \A p \in [before[i] -> V] : G[i][p] \in V
    BY <1>1
  <2> HIDE DEF G, D, before
  <2>3. PICK f \in [D -> V] : Solves(D, before, G, D, f)
    BY <2>1, <2>2, WFRecursion
  <2> QED BY <2>3 DEF D, before, Solves
<1>3. ASSUME NEW i \in 0 .. b
      PROVE  f[i] = IF i = 0 THEN a ELSE step[i][f[i - 1]]
  <2> DEFINE p == [j \in Predecessor(b)[i] |-> f[j]]
  <2>1. p \in [Predecessor(b)[i] -> V]
    BY DEF Predecessor
  <2>2. f[i] = IF i = 0 THEN a ELSE step[i][p[i - 1]]
    BY <1>2, <2>1
  <2>3. i # 0 => p[i - 1] = f[i - 1]
    BY DEF Predecessor
  <2> QED BY <2>2, <2>3
<1> QED BY <1>3 DEF GoesBySteps
=============================================================================
