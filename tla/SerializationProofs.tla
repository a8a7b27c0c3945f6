------------------------ MODULE SerializationProofs ------------------------
(***************************************************************************)
(* Theorems about what TypeInfo and Serialization define by recursion over  *)
(* the types, for every set of types: what is_fixed_size answers, and what  *)
(* becomes of a message that is serialized and deserialized.                *)
(***************************************************************************)
EXTENDS Serialization, Induction, SequenceTheorems

-----------------------------------------------------------------------------
(* Types.                                                                   *)

\* A type's members are members, and those that are messages are of its subtypes.
LEMMA MembersAreMembers ==
  ASSUME NEW t \in DOMAIN Types
  PROVE  /\ Types[t].members \in Seq(MemberSet)
         /\ \A m \in ToSet(Types[t].members) :
              m \in MemberSet /\ (is_complex_type(m) => m.members \in Subtypes[t])
         /\ \A i \in DOMAIN Types[t].members :
              Types[t].members[i] \in ToSet(Types[t].members)
<1>1. Types[t].members \in Seq(MemberSet)
  BY TypeInfoAssumption DEF TypeInfoAssumption
<1> QED BY <1>1 DEF ToSet, Subtypes

\* No type is within itself, so that a definition by recursion over the subtypes is one.
LEMMA SubtypesAreTypes ==
  /\ Subtypes \in [DOMAIN Types -> SUBSET DOMAIN Types]
  /\ IsWellFounded(DOMAIN Types, Subtypes)
<1>1. ASSUME NEW t \in DOMAIN Types, NEW m \in ToSet(Types[t].members), is_complex_type(m)
      PROVE  m.members \in DOMAIN Types
  <2>1. m \in MemberSet /\ m.members # NoType
    BY <1>1, MembersAreMembers, TypeInfoAssumption DEF TypeInfoAssumption
  <2> QED BY <2>1 DEF MemberSet
<1>2. Subtypes \in [DOMAIN Types -> SUBSET DOMAIN Types]
  BY <1>1 DEF Subtypes
<1> QED BY <1>2, TypeInfoAssumption DEF TypeInfoAssumption, IsWellFounded

\* What is reached from a type is the type, and what is reached from its subtypes.
LEMMA ReachableStep ==
  ASSUME NEW t \in DOMAIN Types, NEW u \in DOMAIN Types
  PROVE  u \in Reachable[t] <=> u = t \/ \E v \in Subtypes[t] : u \in Reachable[v]
<1> DEFINE Closed(S) == \A v \in S : Subtypes[v] \subseteq S
<1>1. \A s, w \in DOMAIN Types :
        w \in Reachable[s] <=> \A S \in SUBSET DOMAIN Types : s \in S /\ Closed(S) => w \in S
  BY DEF Reachable, ReachedBy
<1>2. Subtypes[t] \subseteq DOMAIN Types
  BY SubtypesAreTypes
<1>3. ASSUME NEW v \in Subtypes[t], u \in Reachable[v] PROVE u \in Reachable[t]
  BY <1>1, <1>2, <1>3
<1>4. ASSUME u \in Reachable[t], u # t PROVE \E v \in Subtypes[t] : u \in Reachable[v]
  <2> DEFINE S == {t} \cup {w \in DOMAIN Types : \E v \in Subtypes[t] : w \in Reachable[v]}
  <2>1. S \in SUBSET DOMAIN Types /\ t \in S
    OBVIOUS
  <2>2. Subtypes[t] \subseteq S
    BY <1>1, <1>2
  <2>3. ASSUME NEW v \in Subtypes[t], NEW w \in DOMAIN Types, w \in Reachable[v],
               NEW x \in Subtypes[w]
        PROVE  x \in Reachable[v] /\ x \in DOMAIN Types
    <3>1. x \in DOMAIN Types /\ v \in DOMAIN Types
      BY <1>2, SubtypesAreTypes
    <3>2. ASSUME NEW R \in SUBSET DOMAIN Types, v \in R, Closed(R) PROVE x \in R
      BY <1>1, <2>3, <3>1, <3>2
    <3> HIDE DEF Closed
    <3> QED BY <1>1, <3>1, <3>2
  <2>4. Closed(S)
    BY <2>2, <2>3
  <2>5. u \in S
    <3> HIDE DEF S, Closed
    <3> QED BY <1>1, <1>4, <2>1, <2>4
  <2> QED BY <1>4, <2>5
<1>5. t \in Reachable[t]
  BY <1>1
<1> QED BY <1>3, <1>4, <1>5

\* The members within a type are its own and those within its subtypes.
LEMMA MembersWithinStep ==
  ASSUME NEW t \in DOMAIN Types, NEW m
  PROVE  m \in MembersWithin(t) <=>
           \/ m \in ToSet(Types[t].members)
           \/ \E n \in ToSet(Types[t].members) :
                is_complex_type(n) /\ m \in MembersWithin(n.members)
<1>1. \A s \in DOMAIN Types :
        m \in MembersWithin(s) <=> \E u \in Reachable[s] : m \in ToSet(Types[u].members)
  BY DEF MembersWithin
<1>2. \A v : v \in Subtypes[t] <=>
              \E n \in ToSet(Types[t].members) : is_complex_type(n) /\ v = n.members
  BY DEF Subtypes
<1>3. \A s \in DOMAIN Types : Reachable[s] \subseteq DOMAIN Types
  BY DEF Reachable, ReachedBy
<1>4. \A v \in Subtypes[t] : v \in DOMAIN Types
  BY SubtypesAreTypes
<1>5. ASSUME m \in MembersWithin(t), m \notin ToSet(Types[t].members)
      PROVE  \E n \in ToSet(Types[t].members) :
               is_complex_type(n) /\ m \in MembersWithin(n.members)
  <2>1. PICK u \in Reachable[t] : m \in ToSet(Types[u].members)
    BY <1>1, <1>5
  <2>2. PICK v \in Subtypes[t] : u \in Reachable[v]
    BY <1>3, <1>5, <2>1, ReachableStep
  <2> QED BY <1>1, <1>2, <1>4, <2>1, <2>2
<1>6. ASSUME m \in ToSet(Types[t].members) PROVE m \in MembersWithin(t)
  BY <1>1, <1>6, ReachableStep
<1>7. ASSUME NEW n \in ToSet(Types[t].members), is_complex_type(n),
             m \in MembersWithin(n.members)
      PROVE  m \in MembersWithin(t)
  <2>1. n.members \in Subtypes[t] /\ n.members \in DOMAIN Types
    BY <1>2, <1>4, <1>7
  <2>2. PICK u \in Reachable[n.members] : m \in ToSet(Types[u].members)
    BY <1>1, <1>7, <2>1
  <2> QED BY <1>1, <1>3, <2>1, <2>2, ReachableStep
<1> QED BY <1>5, <1>6, <1>7

\* What a member counts as, without a cache.
FixedMember(m) ==
  (is_complex_type(m) /\ CountsAsFixed(m.members)) \/ ~(is_complex_type(m) \/ is_vector_type(m))

\* A type counts as fixed when all its members do.
LEMMA CountsAsFixedStep ==
  ASSUME NEW t \in DOMAIN Types
  PROVE  CountsAsFixed(t) <=> \A m \in ToSet(Types[t].members) : FixedMember(m)
<1> DEFINE Good(m) == is_complex_type(m) \/ ~is_vector_type(m)
<1>1. \A s : CountsAsFixed(s) <=> \A m \in MembersWithin(s) : Good(m)
  BY DEF CountsAsFixed
<1> HIDE DEF Good
<1>2. CountsAsFixed(t) <=>
        \A m \in ToSet(Types[t].members) :
          Good(m) /\ (is_complex_type(m) => CountsAsFixed(m.members))
  BY <1>1, MembersWithinStep
<1> QED BY <1>2 DEF FixedMember, Good

-----------------------------------------------------------------------------
(* is_fixed_size.                                                           *)

\* Types have different keys.
LEMMA KeysTellApart ==
  ASSUME NEW t \in DOMAIN Types, NEW u \in DOMAIN Types, Key(t) = Key(u)
  PROVE  t = u
<1>1. Types[t].namespace = Types[u].namespace /\ Types[t].name = Types[u].name
  BY DEF Key
<1> QED BY <1>1, TypeInfoAssumption DEF TypeInfoAssumption

\* The caches that answer what would be answered without them.
Honest ==
  {c \in Caches : \A u \in DOMAIN Types : Key(u) \in DOMAIN c => (c[Key(u)] <=> CountsAsFixed(u))}

Answers == [fixed : BOOLEAN, cache : Caches]

\* What may be answered of a type: for every cache some answer, for an honest one the
\* truth, and that leaves the cache honest.
Decisions ==
  [t \in DOMAIN Types |->
     {d \in [Caches -> Answers] :
        \A c \in Honest : (d[c].fixed <=> CountsAsFixed(t)) /\ d[c].cache \in Honest}]

\* A cache is one of what some of the types are.
LEMMA CachesAre ==
  ASSUME NEW c
  PROVE  c \in Caches <=> DOMAIN c \subseteq Keys /\ c \in [DOMAIN c -> BOOLEAN]
BY DEF Caches

\* An answer that is right may be remembered.
LEMMA RememberedIsAnswer ==
  ASSUME NEW t \in DOMAIN Types, NEW r \in Answers
  PROVE  /\ Remembered(t, r) \in Answers
         /\ Remembered(t, r).fixed = r.fixed
         /\ r.cache \in Honest /\ (r.fixed <=> CountsAsFixed(t)) =>
              Remembered(t, r).cache \in Honest
<1> DEFINE c == r.cache
           more == Insert(c, Key(t), r.fixed)
<1>1. r.fixed \in BOOLEAN /\ c \in Caches /\ Key(t) \in Keys
  BY DEF Answers, Keys
<1>2. CASE Key(t) \in DOMAIN c
  <2>1. more = c
    BY <1>2 DEF Insert
  <2>2. Remembered(t, r) = r
    BY <2>1 DEF Remembered, Answers
  <2> QED BY <1>1, <2>2 DEF Honest
<1>3. CASE Key(t) \notin DOMAIN c
  <2>1. /\ DOMAIN more = DOMAIN c \cup {Key(t)} /\ more[Key(t)] = r.fixed
        /\ \A k \in DOMAIN c : more[k] = c[k]
        /\ more = [k \in DOMAIN more |-> more[k]]
    BY <1>3 DEF Insert
  <2>2. c \in [DOMAIN c -> BOOLEAN] /\ DOMAIN c \subseteq Keys
    BY <1>1, CachesAre
  <2> HIDE DEF c, more
  <2>3. more \in [DOMAIN more -> BOOLEAN] /\ DOMAIN more \subseteq Keys
    BY <1>1, <2>1, <2>2
  <2>4. more \in Caches
    BY <2>3, CachesAre
  <2>5. ASSUME c \in Honest, r.fixed <=> CountsAsFixed(t),
               NEW u \in DOMAIN Types, Key(u) \in DOMAIN more
        PROVE  more[Key(u)] <=> CountsAsFixed(u)
    <3>1. CASE Key(u) = Key(t)
      BY <2>1, <2>5, <3>1, KeysTellApart, Zenon
    <3>2. CASE Key(u) # Key(t)
      BY <2>1, <2>5, <3>2, Zenon DEF Honest
    <3> QED BY <3>1, <3>2
  <2>6. c \in Honest /\ (r.fixed <=> CountsAsFixed(t)) => more \in Honest
    BY <2>4, <2>5, Zenon DEF Honest
  <2>7. Remembered(t, r) = [r EXCEPT !.cache = more]
    BY DEF Remembered, more, c
  <2>8. Remembered(t, r) \in Answers /\ Remembered(t, r).fixed = r.fixed
        /\ Remembered(t, r).cache = more
    BY <2>4, <2>7 DEF Answers
  <2> QED BY <2>6, <2>8 DEF c
<1> QED BY <1>2, <1>3

\* One member is asked for.
LEMMA MemberIsAnswer ==
  ASSUME NEW t \in DOMAIN Types, NEW nested \in Below(Subtypes, Decisions, t),
         NEW m \in ToSet(Types[t].members), NEW c \in Caches
  PROVE  /\ MemberIsFixed(nested, m, c) \in Answers
         /\ c \in Honest => /\ MemberIsFixed(nested, m, c).fixed <=> FixedMember(m)
                            /\ MemberIsFixed(nested, m, c).cache \in Honest
<1>1. CASE is_complex_type(m)
  <2>1. m.members \in Subtypes[t] /\ m.members \in DOMAIN Types
    BY <1>1, MembersAreMembers, SubtypesAreTypes
  <2>2. nested[m.members] \in Decisions[m.members]
    BY <2>1 DEF Below
  <2>3. MemberIsFixed(nested, m, c) = nested[m.members][c]
    BY <1>1 DEF MemberIsFixed
  <2>4. FixedMember(m) <=> CountsAsFixed(m.members)
    BY <1>1 DEF FixedMember
  <2> DEFINE d == nested[m.members]
  <2>5. d \in [Caches -> Answers]
        /\ \A k \in Honest : (d[k].fixed <=> CountsAsFixed(m.members)) /\ d[k].cache \in Honest
    BY <2>1, <2>2, Zenon DEF Decisions
  <2> QED BY <2>3, <2>4, <2>5, Zenon
<1>2. CASE ~is_complex_type(m)
  <2>1. MemberIsFixed(nested, m, c) = [fixed |-> ~is_vector_type(m), cache |-> c]
    BY <1>2 DEF MemberIsFixed
  <2>2. FixedMember(m) <=> ~is_vector_type(m)
    BY <1>2 DEF FixedMember
  <2> DEFINE v == ~is_vector_type(m)
             a == [fixed |-> v, cache |-> c]
  <2>3. v \in BOOLEAN /\ (v <=> ~is_vector_type(m))
    BY Zenon
  <2>4. a.fixed = v /\ a.cache = c /\ MemberIsFixed(nested, m, c) = a
    BY <2>1
  <2>5. a \in Answers
    <3> HIDE DEF v
    <3> QED BY <2>3 DEF Answers
  <2> HIDE DEF a, v
  <2> QED BY <2>2, <2>3, <2>4, <2>5, Zenon
<1> QED BY <1>1, <1>2

\* The members are asked for one after the other until one is not fixed.
LEMMA MembersAreAnswer ==
  ASSUME NEW t \in DOMAIN Types, NEW nested \in Below(Subtypes, Decisions, t),
         NEW c \in Caches
  PROVE  LET r == MembersAreFixed(nested, Types[t].members, c)
         IN  /\ r \in Answers
             /\ c \in Honest => (r.fixed <=> CountsAsFixed(t)) /\ r.cache \in Honest
<1> DEFINE ms == Types[t].members
           n == Len(ms)
           Next1(r, i) == IF r.fixed THEN MemberIsFixed(nested, ms[i], r.cache) ELSE r
           step == [i \in 1 .. n |-> [r \in Answers |-> Next1(r, i)]]
           Equation(f) == f = [i \in 0 .. n |-> IF i = 0 THEN Empty(c) ELSE Next1(f[i - 1], i)]
           chosen == CHOOSE f : Equation(f)
<1>1. /\ n \in Nat /\ DOMAIN ms = 1 .. n
      /\ \A i \in 1 .. n : ms[i] \in ToSet(Types[t].members)
  BY MembersAreMembers
<1>2. ASSUME NEW i \in 1 .. n, NEW r \in Answers
      PROVE  /\ Next1(r, i) \in Answers
             /\ r.cache \in Honest => Next1(r, i).cache \in Honest
             /\ r.cache \in Honest =>
                  (Next1(r, i).fixed <=> r.fixed /\ FixedMember(ms[i]))
  <2>1. ms[i] \in ToSet(Types[t].members) /\ r.cache \in Caches
    BY <1>1 DEF Answers
  <2> DEFINE m == ms[i]
             a == MemberIsFixed(nested, m, r.cache)
  <2>2. /\ a \in Answers
        /\ r.cache \in Honest => (a.fixed <=> FixedMember(m)) /\ a.cache \in Honest
    <3> HIDE DEF m
    <3> QED BY <2>1, MemberIsAnswer DEF m
  <2>3. Next1(r, i) = IF r.fixed THEN a ELSE r
    OBVIOUS
  <2> HIDE DEF Next1, a, m, ms
  <2>4. CASE r.fixed
    BY <2>2, <2>3, <2>4, Zenon DEF m
  <2>5. CASE ~r.fixed
    BY <2>3, <2>5, Zenon
  <2> QED BY <2>4, <2>5
<1>3. Empty(c) \in Answers /\ Empty(c).fixed /\ Empty(c).cache = c
  BY DEF Empty, Answers
<1>4. MembersAreFixed(nested, Types[t].members, c) = chosen[n]
  BY Zenon DEF MembersAreFixed
<1>5. Equation(chosen)
  <2> HIDE DEF Next1, n, ms
  <2>1. step \in [1 .. n -> [Answers -> Answers]]
    BY <1>2
  <2> DEFINE a == Empty(c)
  <2>2. PICK f \in [0 .. n -> Answers] : GoesBySteps(f, n, a, step)
    <3> HIDE DEF step, a
    <3>1. a \in Answers
      BY <1>3 DEF a
    <3> QED BY <1>1, <2>1, <3>1, StepsRecursion
  <2>3. ASSUME NEW i \in 0 .. n PROVE f[i] = IF i = 0 THEN a ELSE Next1(f[i - 1], i)
    <3>1. CASE i = 0
      BY <2>2, <3>1 DEF GoesBySteps
    <3>2. CASE i # 0
      <4>1. i \in 1 .. n /\ i - 1 \in 0 .. n
        BY <1>1, <3>2
      <4>2. f[i] = step[i][f[i - 1]] /\ f[i - 1] \in Answers
        <5> HIDE DEF step
        <5> QED BY <2>2, <4>1 DEF GoesBySteps
      <4> QED BY <3>2, <4>1, <4>2
    <3> QED BY <3>1, <3>2
  <2>4. Equation(f)
    <3> HIDE DEF step, a
    <3> QED BY <2>2, <2>3 DEF a
  <2> QED BY <2>4, Zenon
<1> HIDE DEF chosen
<1>6. ASSUME NEW i \in 0 .. n
      PROVE  chosen[i] = IF i = 0 THEN Empty(c) ELSE Next1(chosen[i - 1], i)
  <2> HIDE DEF Next1, n
  <2> QED BY <1>5
<1> DEFINE Good == {i \in Nat : i <= n =>
             /\ chosen[i] \in Answers
             /\ c \in Honest =>
                  /\ chosen[i].cache \in Honest
                  /\ chosen[i].fixed <=> \A k \in 1 .. i : FixedMember(ms[k])}
<1> HIDE DEF Next1, ms, n, Equation
<1>7. 0 \in Good
  <2>1. chosen[0] = Empty(c) /\ 1 .. 0 = {}
    BY <1>1, <1>6
  <2> QED BY <1>3, <2>1
<1>8. ASSUME NEW i \in Nat, i \in Good PROVE i + 1 \in Good
  <2> SUFFICES ASSUME i + 1 <= n
               PROVE  /\ chosen[i + 1] \in Answers
                      /\ c \in Honest =>
                           /\ chosen[i + 1].cache \in Honest
                           /\ chosen[i + 1].fixed <=> \A k \in 1 .. i + 1 : FixedMember(ms[k])
    OBVIOUS
  <2>1. i <= n /\ i + 1 \in 1 .. n /\ i + 1 \in 0 .. n /\ i + 1 # 0 /\ i + 1 - 1 = i
    BY <1>1
  <2>2. /\ chosen[i] \in Answers
        /\ c \in Honest => /\ chosen[i].cache \in Honest
                           /\ chosen[i].fixed <=> \A k \in 1 .. i : FixedMember(ms[k])
    BY <1>8, <2>1
  <2>3. chosen[i + 1] = Next1(chosen[i], i + 1)
    BY <1>6, <2>1
  <2>4. (\A k \in 1 .. i + 1 : FixedMember(ms[k]))
          <=> (\A k \in 1 .. i : FixedMember(ms[k])) /\ FixedMember(ms[i + 1])
    <3>1. 1 .. i + 1 = (1 .. i) \cup {i + 1}
      OBVIOUS
    <3> QED BY <3>1
  <2>5. /\ Next1(chosen[i], i + 1) \in Answers
        /\ chosen[i].cache \in Honest => Next1(chosen[i], i + 1).cache \in Honest
        /\ chosen[i].cache \in Honest =>
             (Next1(chosen[i], i + 1).fixed <=> chosen[i].fixed /\ FixedMember(ms[i + 1]))
    BY <1>2, <2>1, <2>2
  <2> QED BY <2>2, <2>3, <2>4, <2>5, Zenon
<1>9. n \in Good
  <2> HIDE DEF Good
  <2> QED BY <1>1, <1>7, <1>8, NumbersInduction
<1>10. (\A k \in 1 .. n : FixedMember(ms[k])) <=> CountsAsFixed(t)
  <2>1. ToSet(Types[t].members) = {ms[k] : k \in 1 .. n}
    BY <1>1 DEF ToSet, ms
  <2> QED BY <2>1, CountsAsFixedStep
<1>11. /\ chosen[n] \in Answers
       /\ c \in Honest => (chosen[n].fixed <=> CountsAsFixed(t)) /\ chosen[n].cache \in Honest
  BY <1>1, <1>9, <1>10
<1> QED BY <1>4, <1>11, Zenon

\* What is_fixed_size decides of t, if `nested' is what it decides of its subtypes.
Decide(t, nested) ==
  [cache \in Caches |->
     IF Key(t) \in DOMAIN cache THEN [fixed |-> cache[Key(t)], cache |-> cache]
     ELSE Remembered(t, MembersAreFixed(nested, Types[t].members, cache))]

\* It is a decision if those are.
LEMMA DecideIsDecision ==
  ASSUME NEW t \in DOMAIN Types, NEW nested \in Below(Subtypes, Decisions, t)
  PROVE  Decide(t, nested) \in Decisions[t]
<1> DEFINE d == Decide(t, nested)
<1>1. ASSUME NEW c \in Caches
      PROVE  /\ d[c] \in Answers
             /\ c \in Honest => (d[c].fixed <=> CountsAsFixed(t)) /\ d[c].cache \in Honest
  <2>1. CASE Key(t) \in DOMAIN c
    <3>1. d[c] = [fixed |-> c[Key(t)], cache |-> c]
      BY <2>1 DEF Decide
    <3>2. c[Key(t)] \in BOOLEAN
      BY <2>1, CachesAre
    <3>3. d[c] \in Answers
      BY <3>1, <3>2 DEF Answers
    <3>4. d[c].fixed = c[Key(t)] /\ d[c].cache = c
      BY <3>1
    <3>5. c \in Honest => (c[Key(t)] <=> CountsAsFixed(t))
      BY <2>1, Zenon DEF Honest
    <3> HIDE DEF d
    <3> QED BY <3>3, <3>4, <3>5, Zenon
  <2>2. CASE Key(t) \notin DOMAIN c
    <3> DEFINE r == MembersAreFixed(nested, Types[t].members, c)
    <3>1. d[c] = Remembered(t, r)
      BY <2>2 DEF Decide
    <3>2. /\ r \in Answers
          /\ c \in Honest => (r.fixed <=> CountsAsFixed(t)) /\ r.cache \in Honest
      BY MembersAreAnswer, Zenon
    <3> HIDE DEF d, r
    <3>3. /\ Remembered(t, r) \in Answers
          /\ Remembered(t, r).fixed = r.fixed
          /\ r.cache \in Honest /\ (r.fixed <=> CountsAsFixed(t)) =>
               Remembered(t, r).cache \in Honest
      BY <3>2, RememberedIsAnswer
    <3> QED BY <3>1, <3>2, <3>3, Zenon
  <2> QED BY <2>1, <2>2
<1>2. d = [c \in Caches |-> d[c]]
  BY DEF Decide
<1>3. Honest \subseteq Caches
  BY DEF Honest
<1> HIDE DEF d
<1>4. d \in [Caches -> Answers]
  BY <1>1, <1>2
<1>5. \A c \in Honest : (d[c].fixed <=> CountsAsFixed(t)) /\ d[c].cache \in Honest
  BY <1>1, <1>3, Zenon
<1>6. d \in Decisions[t]
  BY <1>4, <1>5, Zenon DEF Decisions
<1> QED BY <1>6 DEF d

\* is_fixed_size is what its definition says.
LEMMA FixedSizeIsDefined ==
  is_fixed_size = [t \in DOMAIN Types |-> Decide(t, [u \in Subtypes[t] |-> is_fixed_size[u]])]
<1> DEFINE Equation(f) == f = [t \in DOMAIN Types |-> Decide(t, [u \in Subtypes[t] |-> f[u]])]
           G == [t \in DOMAIN Types |-> [p \in Below(Subtypes, Decisions, t) |-> Decide(t, p)]]
<1>1. \A t \in DOMAIN Types : \A p \in Below(Subtypes, Decisions, t) : G[t][p] \in Decisions[t]
  BY DecideIsDecision
<1>2. PICK f : IsDefinedBy(DOMAIN Types, Subtypes, G, Decisions, f)
  <2> HIDE DEF G
  <2> QED BY <1>1, SubtypesAreTypes, RecursionIsDefined
<1>3. ASSUME NEW t \in DOMAIN Types
      PROVE  f[t] = Decide(t, [u \in Subtypes[t] |-> f[u]])
  <2> DEFINE p == [u \in Subtypes[t] |-> f[u]]
  <2>1. p \in Below(Subtypes, Decisions, t) /\ f[t] = G[t][p]
    BY <1>2, Zenon DEF IsDefinedBy
  <2> HIDE DEF p
  <2>2. f[t] = Decide(t, p)
    BY <2>1
  <2> QED BY <2>2 DEF p
<1>4. Equation(f)
  BY <1>2, <1>3, Zenon DEF IsDefinedBy
<1>5. is_fixed_size = CHOOSE g : Equation(g)
  BY Zenon DEF is_fixed_size, Decide
<1> HIDE DEF Equation
<1>6. Equation(is_fixed_size)
  BY <1>4, <1>5, Zenon
<1> QED BY <1>6 DEF Equation

\* With an honest cache is_fixed_size answers what it would without one, and leaves the
\* cache honest.
LEMMA FixedSizeDecides ==
  ASSUME NEW t \in DOMAIN Types
  PROVE  is_fixed_size[t] \in Decisions[t]
<1>1. ASSUME NEW u \in DOMAIN Types, AreOfTypes(Subtypes[u], is_fixed_size, Decisions)
      PROVE  is_fixed_size[u] \in Decisions[u]
  <2> DEFINE p == [v \in Subtypes[u] |-> is_fixed_size[v]]
  <2>1. p \in Below(Subtypes, Decisions, u)
    BY <1>1 DEF Below, AreOfTypes
  <2>2. is_fixed_size[u] = Decide(u, p)
    BY FixedSizeIsDefined, Zenon
  <2> HIDE DEF p
  <2> QED BY <2>1, <2>2, DecideIsDecision
<1>2. AreOfTypes(DOMAIN Types, is_fixed_size, Decisions)
  BY <1>1, SubtypesAreTypes, TypesByInduction
<1> QED BY <1>2 DEF AreOfTypes

-----------------------------------------------------------------------------
(* Values.                                                                  *)

\* The values are closed: what is made of them by sequences is one of them.
ValuesAreClosed == Nat \subseteq Values /\ Seq(Values) \subseteq Values

\* The n first of: the numbers, and with every one all sequences of what is in it.
IsLayering(g, n) ==
  g = [i \in 0 .. n |-> IF i = 0 THEN Nat ELSE g[i - 1] \cup Seq(g[i - 1])]

\* A layering goes layer by layer.
LEMMA LayeringIs ==
  ASSUME NEW n \in Nat, NEW g, IsLayering(g, n), NEW i \in 0 .. n
  PROVE  /\ i = 0 => g[i] = Nat
         /\ i # 0 => \A j \in 0 .. n : j = i - 1 => g[i] = g[j] \cup Seq(g[j])
<1>1. g[i] = IF i = 0 THEN Nat ELSE g[i - 1] \cup Seq(g[i - 1])
  BY DEF IsLayering
<1> QED BY <1>1

\* Two of them agree on the layers that they both have.
LEMMA LayeringsAgree ==
  ASSUME NEW n \in Nat, NEW g, IsLayering(g, n), NEW m \in Nat, NEW h, IsLayering(h, m)
  PROVE  \A i \in Nat : i <= n /\ i <= m => g[i] = h[i]
<1> DEFINE Good == {i \in Nat : i <= n /\ i <= m => g[i] = h[i]}
<1>1. 0 \in Good
  <2> DEFINE i == 0
  <2>1. i \in 0 .. n /\ i \in 0 .. m /\ i = 0
    OBVIOUS
  <2> HIDE DEF i
  <2>2. g[i] = Nat /\ h[i] = Nat
    BY <2>1, LayeringIs
  <2> QED BY <2>1, <2>2
<1>2. ASSUME NEW i \in Nat, i \in Good PROVE i + 1 \in Good
  <2> DEFINE j == i + 1
  <2> SUFFICES ASSUME j <= n, j <= m PROVE g[j] = h[j]
    OBVIOUS
  <2>1. /\ j \in 0 .. n /\ j \in 0 .. m /\ j # 0 /\ i = j - 1 /\ i \in 0 .. n /\ i \in 0 .. m
        /\ g[i] = h[i]
    BY <1>2
  <2> HIDE DEF j
  <2>2. g[j] = g[i] \cup Seq(g[i]) /\ h[j] = h[i] \cup Seq(h[i])
    BY <2>1, LayeringIs
  <2> QED BY <2>1, <2>2
<1>3. ASSUME NEW i \in Nat PROVE i \in Good
  <2> HIDE DEF Good
  <2> QED BY <1>1, <1>2, NumbersInduction
<1> QED BY <1>3

\* There are as many layers as one wants.
LEMMA LayeringsExist ==
  \A n \in Nat : \E g : IsLayering(g, n)
<1> DEFINE Good == {n \in Nat : \E g : IsLayering(g, n)}
<1>1. 0 \in Good
  <2> DEFINE g == [i \in 0 .. 0 |-> Nat]
  <2>1. g = [i \in 0 .. 0 |-> IF i = 0 THEN Nat ELSE g[i - 1] \cup Seq(g[i - 1])]
    OBVIOUS
  <2> HIDE DEF g
  <2>2. IsLayering(g, 0)
    BY <2>1 DEF IsLayering
  <2> QED BY <2>2
<1>2. ASSUME NEW n \in Nat, n \in Good PROVE n + 1 \in Good
  <2>1. PICK g : IsLayering(g, n)
    BY <1>2
  <2> DEFINE m == n + 1
             last == g[n] \cup Seq(g[n])
             h == [i \in 0 .. m |-> IF i = m THEN last ELSE g[i]]
  <2>2. m \in Nat /\ m - 1 = n /\ m # 0 /\ \A i \in 0 .. m : i \in 0 .. n \/ i = m
    OBVIOUS
  <2>3. \A i \in 0 .. n : i \in 0 .. m /\ i # m
    OBVIOUS
  <2> HIDE DEF m
  <2>4. \A i \in 0 .. n : h[i] = g[i]
    <3> HIDE DEF last
    <3> QED BY <2>3
  <2>5. ASSUME NEW i \in 0 .. m
        PROVE  h[i] = IF i = 0 THEN Nat ELSE h[i - 1] \cup Seq(h[i - 1])
    <3>1. CASE i = m
      <4>1. h[i] = last
        <5> HIDE DEF last
        <5> QED BY <3>1
      <4>2. h[n] = g[n] /\ i - 1 = n /\ i # 0
        BY <2>2, <2>4, <3>1
      <4> HIDE DEF h
      <4> QED BY <4>1, <4>2
    <3>2. CASE i \in 0 .. n
      <4>1. h[i] = g[i] /\ g[i] = IF i = 0 THEN Nat ELSE g[i - 1] \cup Seq(g[i - 1])
        <5> HIDE DEF h
        <5> QED BY <2>1, <2>4, <3>2 DEF IsLayering
      <4>2. i # 0 => i - 1 \in 0 .. n
        BY <3>2
      <4> DEFINE j == i - 1
      <4>3. i # 0 => h[j] = g[j]
        <5> HIDE DEF j, h
        <5> QED BY <2>4, <4>2 DEF j
      <4> HIDE DEF h
      <4> QED BY <4>1, <4>3
    <3> QED BY <2>2, <3>1, <3>2
  <2>6. h = [i \in 0 .. m |-> h[i]]
    <3> HIDE DEF last
    <3> QED OBVIOUS
  <2> HIDE DEF h, last
  <2>7. IsLayering(h, m)
    BY <2>5, <2>6, Zenon DEF IsLayering
  <2> QED BY <2>2, <2>7 DEF m
<1>3. ASSUME NEW n \in Nat PROVE n \in Good
  <2> HIDE DEF Good
  <2> QED BY <1>1, <1>2, NumbersInduction
<1> QED BY <1>3

\* All layers.
IsLayers(v) ==
  v[0] = Nat /\ \A n \in Nat : v[n + 1] = v[n] \cup Seq(v[n])

\* There is a sequence of all layers.
LEMMA LayersExist == \E v : IsLayers(v)
<1> DEFINE chosen(n) == CHOOSE g : IsLayering(g, n)
           v == [n \in Nat |-> chosen(n)[n]]
<1>1. \A n \in Nat : IsLayering(chosen(n), n)
  BY LayeringsExist, Zenon
<1> HIDE DEF chosen
<1>2. v[0] = Nat
  <2>1. v[0] = chosen(0)[0] /\ IsLayering(chosen(0), 0) /\ 0 \in 0 .. 0 /\ 0 \in Nat
    BY <1>1
  <2> QED BY <2>1, LayeringIs
<1>3. ASSUME NEW n \in Nat PROVE v[n + 1] = v[n] \cup Seq(v[n])
  <2> DEFINE m == n + 1
             g == chosen(n)
             h == chosen(m)
  <2>1. m \in Nat /\ n <= m /\ n <= n /\ m \in 0 .. m /\ n \in 0 .. m /\ m # 0 /\ n = m - 1
    OBVIOUS
  <2>2. v[n] = g[n] /\ v[m] = h[m]
    BY <2>1
  <2>3. IsLayering(g, n) /\ IsLayering(h, m)
    BY <1>1, <2>1
  <2> HIDE DEF m, g, h, v
  <2>4. g[n] = h[n]
    BY <2>1, <2>3, LayeringsAgree
  <2>5. h[m] = h[n] \cup Seq(h[n])
    BY <2>1, <2>3, LayeringIs
  <2>6. v[m] = v[n] \cup Seq(v[n])
    BY <2>2, <2>4, <2>5
  <2> QED BY <2>6 DEF m
<1> HIDE DEF v
<1> QED BY <1>2, <1>3 DEF IsLayers

\* There are sets of values that are closed, as the theorems about messages suppose.
LEMMA ClosedValuesExist == \E V : Nat \subseteq V /\ Seq(V) \subseteq V
<1>1. PICK v : IsLayers(v)
  BY LayersExist
<1>2. v[0] = Nat /\ \A n \in Nat : v[n + 1] = v[n] \cup Seq(v[n])
  BY <1>1 DEF IsLayers
<1> DEFINE W == UNION {v[n] : n \in Nat}
<1>3. \A n \in Nat : v[n] \subseteq W
  OBVIOUS
<1>4. \A x \in W : \E n \in Nat : x \in v[n]
  OBVIOUS
<1>5. Nat \subseteq W
  <2>1. 0 \in Nat
    OBVIOUS
  <2> HIDE DEF W
  <2> QED BY <1>2, <1>3, <2>1
<1>6. ASSUME NEW n \in Nat, NEW k \in Nat PROVE v[n] \subseteq v[n + k]
  <2> DEFINE Good == {i \in Nat : v[n] \subseteq v[n + i]}
  <2>1. 0 \in Good
    OBVIOUS
  <2>2. ASSUME NEW i \in Nat, i \in Good PROVE i + 1 \in Good
    <3> DEFINE m == n + i
    <3>1. m \in Nat /\ n + (i + 1) = m + 1 /\ v[n] \subseteq v[m]
      BY <2>2
    <3> HIDE DEF m
    <3>2. v[n] \subseteq v[m + 1]
      BY <1>2, <3>1
    <3> QED BY <3>1, <3>2
  <2>3. k \in Good
    <3> HIDE DEF Good
    <3> QED BY <2>1, <2>2, NumbersInduction
  <2> QED BY <2>3
<1>7. \A m, n \in Nat : m <= n => v[m] \subseteq v[n]
  <2> TAKE m, n \in Nat
  <2> SUFFICES ASSUME m <= n PROVE v[m] \subseteq v[n]
    OBVIOUS
  <2> DEFINE k == n - m
  <2>1. k \in Nat /\ m + k = n
    OBVIOUS
  <2> HIDE DEF k
  <2>2. v[m] \subseteq v[m + k]
    BY <1>6, <2>1
  <2> QED BY <2>1, <2>2
<1> HIDE DEF W
<1>8. ASSUME NEW s \in Seq(W) PROVE s \in W
  <2> DEFINE Good == {k \in Nat : k <= Len(s) => \E n \in Nat : \A i \in 1 .. k : s[i] \in v[n]}
  <2>1. 0 \in Good
    OBVIOUS
  <2>2. ASSUME NEW k \in Nat, k \in Good PROVE k + 1 \in Good
    <3> SUFFICES ASSUME k + 1 <= Len(s)
                 PROVE  \E n \in Nat : \A i \in 1 .. k + 1 : s[i] \in v[n]
      OBVIOUS
    <3>1. Len(s) \in Nat
      OBVIOUS
    <3>2. k <= Len(s) /\ k + 1 \in 1 .. Len(s)
      BY <3>1
    <3>3. PICK m \in Nat : \A i \in 1 .. k : s[i] \in v[m]
      BY <2>2, <3>2
    <3>4. s[k + 1] \in W
      BY <3>2
    <3>5. PICK n \in Nat : s[k + 1] \in v[n]
      BY <1>4, <3>4
    <3>6. PICK a \in Nat : m <= a /\ n <= a
      <4>1. m <= m + n /\ n <= m + n /\ m + n \in Nat
        OBVIOUS
      <4> QED BY <4>1
    <3>7. \A i \in 1 .. k + 1 : i \in 1 .. k \/ i = k + 1
      OBVIOUS
    <3>8. v[m] \subseteq v[a] /\ v[n] \subseteq v[a]
      BY <1>7, <3>6
    <3>9. \A i \in 1 .. k + 1 : s[i] \in v[a]
      BY <3>3, <3>5, <3>7, <3>8
    <3> QED BY <3>9
  <2>3. Len(s) \in Good
    <3>1. Len(s) \in Nat
      OBVIOUS
    <3> DEFINE n == Len(s)
    <3> HIDE DEF Good, n
    <3>2. n \in Good
      BY <2>1, <2>2, <3>1, NumbersInduction DEF n
    <3> QED BY <3>2 DEF n
  <2>4. PICK n \in Nat : \A i \in 1 .. Len(s) : s[i] \in v[n]
    BY <2>3
  <2>5. s \in Seq(v[n])
    <3> DEFINE V == v[n]
    <3>1. \A i \in 1 .. Len(s) : s[i] \in V
      BY <2>4
    <3> HIDE DEF V
    <3>2. s \in Seq(V)
      BY <3>1
    <3> QED BY <3>2 DEF V
  <2>6. s \in v[n + 1] /\ n + 1 \in Nat
    BY <1>2, <2>5
  <2> QED BY <1>3, <2>6
<1> QED BY <1>5, <1>8

-----------------------------------------------------------------------------
(* Messages.                                                                *)

\* The messages of a type, if `nested' has those of its subtypes.
MessagesOf(t, nested) ==
  {message \in Seq(Values) :
     /\ Len(message) = Len(Types[t].members)
     /\ \A i \in DOMAIN Types[t].members :
          message[i] \in Fields(nested, Types[t].members[i])}

\* The messages are what their definition says.
LEMMA MessagesAreDefined ==
  Messages = [t \in DOMAIN Types |-> MessagesOf(t, [u \in Subtypes[t] |-> Messages[u]])]
<1> DEFINE Equation(f) ==
             f = [t \in DOMAIN Types |-> MessagesOf(t, [u \in Subtypes[t] |-> f[u]])]
           T == [t \in DOMAIN Types |-> SUBSET Seq(Values)]
           G == [t \in DOMAIN Types |-> [p \in Below(Subtypes, T, t) |-> MessagesOf(t, p)]]
<1>1. \A t \in DOMAIN Types : \A p \in Below(Subtypes, T, t) : G[t][p] \in T[t]
  <2>1. \A t, p : MessagesOf(t, p) \in SUBSET Seq(Values)
    BY DEF MessagesOf
  <2> QED BY <2>1
<1>2. PICK f : IsDefinedBy(DOMAIN Types, Subtypes, G, T, f)
  <2> HIDE DEF G, T
  <2> QED BY <1>1, SubtypesAreTypes, RecursionIsDefined
<1>3. ASSUME NEW t \in DOMAIN Types
      PROVE  f[t] = MessagesOf(t, [u \in Subtypes[t] |-> f[u]])
  <2> DEFINE p == [u \in Subtypes[t] |-> f[u]]
  <2>1. p \in Below(Subtypes, T, t) /\ f[t] = G[t][p]
    BY <1>2, Zenon DEF IsDefinedBy
  <2> HIDE DEF p, T
  <2>2. f[t] = MessagesOf(t, p)
    BY <2>1
  <2> QED BY <2>2 DEF p
<1>4. Equation(f)
  BY <1>2, <1>3, Zenon DEF IsDefinedBy
<1>5. Messages = CHOOSE g : Equation(g)
  BY Zenon DEF Messages, MessagesOf
<1> HIDE DEF Equation
<1>6. Equation(Messages)
  BY <1>4, <1>5, Zenon
<1> QED BY <1>6 DEF Equation

\* The fields of a member are of the messages of its type only.
LEMMA FieldsAreOf ==
  ASSUME NEW m, NEW f, NEW g, is_complex_type(m) => f[m.members] = g[m.members]
  PROVE  Fields(f, m) = Fields(g, m)
<1>1. Elements(f, m) = Elements(g, m)
  BY DEF Elements, is_complex_type
<1> QED BY <1>1 DEF Fields

\* A message has a field for each member.
LEMMA MessagesHaveFields ==
  ASSUME NEW t \in DOMAIN Types, NEW v
  PROVE  v \in Messages[t] <=>
           /\ v \in Seq(Values) /\ Len(v) = Len(Types[t].members)
           /\ \A i \in 1 .. Len(v) : v[i] \in Fields(Messages, Types[t].members[i])
<1> DEFINE ms == Types[t].members
           nested == [u \in Subtypes[t] |-> Messages[u]]
<1>1. Messages[t] = MessagesOf(t, nested)
  BY MessagesAreDefined, Zenon
<1>2. ASSUME NEW i \in DOMAIN ms PROVE Fields(nested, ms[i]) = Fields(Messages, ms[i])
  <2> DEFINE m == ms[i]
  <2>1. is_complex_type(m) => m.members \in Subtypes[t]
    BY MembersAreMembers
  <2>2. is_complex_type(m) => nested[m.members] = Messages[m.members]
    BY <2>1
  <2> HIDE DEF m, nested
  <2>3. Fields(nested, m) = Fields(Messages, m)
    BY <2>2, FieldsAreOf
  <2> QED BY <2>3 DEF m
<1>3. DOMAIN ms = 1 .. Len(ms) /\ Len(ms) \in Nat
  BY MembersAreMembers
<1> HIDE DEF nested, ms
<1>4. v \in Messages[t] <=>
        /\ v \in Seq(Values) /\ Len(v) = Len(ms)
        /\ \A i \in DOMAIN ms : v[i] \in Fields(nested, ms[i])
  BY <1>1 DEF MessagesOf, ms
<1>5. v \in Messages[t] <=>
        /\ v \in Seq(Values) /\ Len(v) = Len(ms)
        /\ \A i \in 1 .. Len(v) : v[i] \in Fields(Messages, ms[i])
  BY <1>2, <1>3, <1>4
<1> QED BY <1>5 DEF ms

\* The cases of a member: what its elements are, and how many of them it has.
LEMMA MemberCases ==
  ASSUME NEW t \in DOMAIN Types, NEW m \in ToSet(Types[t].members)
  PROVE  /\ m.type_id \in TypeIds /\ m.array_size \in Nat
         /\ m.is_array \in BOOLEAN /\ m.is_upper_bound \in BOOLEAN
         /\ is_complex_type(m) =>
              m.members \in DOMAIN Types /\ m.members \in Subtypes[t]
              /\ SubTypeSize(m) \in Nat \ {0}
         /\ m.type_id = "PRIMITIVE" => Elements(Messages, m) = Nat
         /\ is_complex_type(m) => Elements(Messages, m) = Messages[m.members]
         /\ m.type_id \in {"STRING", "WSTRING"} => Elements(Messages, m) = Seq(Nat)
<1>1. m \in MemberSet /\ (is_complex_type(m) => m.members \in Subtypes[t])
  BY MembersAreMembers
<1>2. is_complex_type(m) => m.members \in DOMAIN Types
  BY <1>1, SubtypesAreTypes
<1>3. is_complex_type(m) => SubTypeSize(m) \in Nat \ {0}
  BY <1>2, TypeInfoAssumption DEF TypeInfoAssumption, SubTypeSize
<1>4. /\ m.type_id \in TypeIds /\ m.array_size \in Nat
      /\ m.is_array \in BOOLEAN /\ m.is_upper_bound \in BOOLEAN
  BY <1>1 DEF MemberSet
<1>5. /\ m.type_id = "PRIMITIVE" => Elements(Messages, m) = Nat
      /\ is_complex_type(m) => Elements(Messages, m) = Messages[m.members]
      /\ m.type_id \in {"STRING", "WSTRING"} => Elements(Messages, m) = Seq(Nat)
  BY DEF Elements, is_complex_type
<1> QED BY <1>1, <1>2, <1>3, <1>4, <1>5

\* The elements and the fields of messages are values.
LEMMA FieldsAreValues ==
  ASSUME ValuesAreClosed, NEW t \in DOMAIN Types, NEW m \in ToSet(Types[t].members)
  PROVE  Elements(Messages, m) \subseteq Values /\ Fields(Messages, m) \subseteq Values
<1>1. Elements(Messages, m) \subseteq Values
  <2>1. m.type_id \in TypeIds /\ (is_complex_type(m) => m.members \in DOMAIN Types)
    BY MemberCases
  <2>2. CASE m.type_id = "PRIMITIVE"
    BY <2>2, MemberCases DEF ValuesAreClosed
  <2>3. CASE is_complex_type(m)
    <3>1. Elements(Messages, m) = Messages[m.members] /\ m.members \in DOMAIN Types
      BY <2>3, MemberCases
    <3>2. Messages[m.members] \subseteq Seq(Values)
      BY <3>1, MessagesHaveFields
    <3> QED BY <3>1, <3>2 DEF ValuesAreClosed
  <2>4. CASE m.type_id \in {"STRING", "WSTRING"}
    <3>1. Elements(Messages, m) = Seq(Nat)
      BY <2>4, MemberCases
    <3>2. ASSUME NEW s \in Seq(Nat) PROVE s \in Values
      <4>1. s \in Seq(Values)
        BY SeqMonotonic DEF ValuesAreClosed
      <4> QED BY <4>1 DEF ValuesAreClosed
    <3> QED BY <3>1, <3>2
  <2> QED BY <2>1, <2>2, <2>3, <2>4 DEF TypeIds, is_complex_type
<1>2. ASSUME NEW f \in Fields(Messages, m) PROVE f \in Values
  <2>1. f \in Seq(Elements(Messages, m))
    BY DEF Fields
  <2>2. f \in Seq(Values)
    BY <1>1, <2>1, SeqMonotonic
  <2> QED BY <2>2 DEF ValuesAreClosed
<1> QED BY <1>1, <1>2

\* A field is a sequence of elements; one that is not an array has one, and an array as
\* many as it has.
LEMMA FieldsAre ==
  ASSUME NEW t \in DOMAIN Types, NEW m \in ToSet(Types[t].members), NEW f
  PROVE  f \in Fields(Messages, m) <=>
           /\ f \in Seq(Elements(Messages, m))
           /\ ~m.is_array => Len(f) = 1
           /\ IsFixedArray(m) => Len(f) = m.array_size
BY DEF Fields, IsFixedArray

\* What is initialised.
LEMMA InitFieldIsField ==
  ASSUME NEW t \in DOMAIN Types, NEW m \in ToSet(Types[t].members), NEW nested,
         is_complex_type(m) => nested[m.members] \in Messages[m.members]
  PROVE  /\ InitElement(nested, m) \in Elements(Messages, m)
         /\ InitField(nested, m) \in Fields(Messages, m)
<1> DEFINE e == InitElement(nested, m)
           E == Elements(Messages, m)
<1>1. e \in E
  <2>1. m.type_id \in TypeIds
    BY MemberCases
  <2>2. CASE m.type_id = "PRIMITIVE"
    BY <2>2, MemberCases DEF InitElement, Zero
  <2>3. CASE is_complex_type(m)
    BY <2>3, MemberCases DEF InitElement, is_complex_type
  <2>4. CASE m.type_id \in {"STRING", "WSTRING"}
    <3>1. InitElement(nested, m) = <<>>
      BY <2>4 DEF InitElement
    <3>2. <<>> \in Seq(Nat)
      OBVIOUS
    <3> QED BY <2>4, <3>1, <3>2, MemberCases
  <2> QED BY <2>1, <2>2, <2>3, <2>4 DEF TypeIds, is_complex_type
<1> HIDE DEF e, E
<1>2. m.is_array \in BOOLEAN /\ m.array_size \in Nat
  BY MemberCases
<1>3. CASE IsSequence(m)
  <2>1. InitField(nested, m) = <<>> /\ m.is_array /\ ~IsFixedArray(m)
    BY <1>3 DEF InitField, IsSequence
  <2>2. <<>> \in Seq(E)
    OBVIOUS
  <2> QED BY <1>1, <2>1, <2>2, FieldsAre DEF E, e
<1>4. CASE IsFixedArray(m)
  <2> DEFINE f == [k \in 1 .. m.array_size |-> e]
  <2>1. InitField(nested, m) = f /\ m.is_array
    BY <1>4 DEF InitField, IsSequence, IsFixedArray, e
  <2>2. f \in Seq(E) /\ Len(f) = m.array_size
    BY <1>1, <1>2
  <2> HIDE DEF f
  <2> QED BY <1>1, <2>1, <2>2, FieldsAre DEF E, e
<1>5. CASE ~m.is_array
  <2> DEFINE f == <<e>>
  <2>1. InitField(nested, m) = f /\ ~IsFixedArray(m)
    BY <1>5 DEF InitField, IsSequence, IsFixedArray, e
  <2>2. f \in Seq(E) /\ Len(f) = 1
    BY <1>1
  <2> HIDE DEF f
  <2> QED BY <1>1, <1>5, <2>1, <2>2, FieldsAre DEF E, e
<1> QED BY <1>2, <1>3, <1>4, <1>5 DEF IsSequence

\* The zeroed message of a type, if `nested' has those of its subtypes.
ZeroMessageOf(t, nested) ==
  [i \in DOMAIN Types[t].members |-> InitField(nested, Types[t].members[i])]

\* It is a message.
LEMMA ZeroMessageIsMessage ==
  ASSUME ValuesAreClosed, NEW t \in DOMAIN Types, NEW nested \in Below(Subtypes, Messages, t)
  PROVE  ZeroMessageOf(t, nested) \in Messages[t]
<1> DEFINE ms == Types[t].members
           v == ZeroMessageOf(t, nested)
<1>1. DOMAIN ms = 1 .. Len(ms) /\ Len(ms) \in Nat
  BY MembersAreMembers
<1>2. ASSUME NEW i \in 1 .. Len(ms)
      PROVE  v[i] \in Fields(Messages, ms[i]) /\ v[i] \in Values
  <2> DEFINE m == ms[i]
  <2>1. m \in ToSet(Types[t].members) /\ v[i] = InitField(nested, m)
    BY <1>1, MembersAreMembers DEF ZeroMessageOf
  <2> HIDE DEF m
  <2>2. is_complex_type(m) => nested[m.members] \in Messages[m.members]
    BY <2>1, MemberCases DEF Below
  <2>3. InitField(nested, m) \in Fields(Messages, m)
    BY <2>1, <2>2, InitFieldIsField
  <2>4. Fields(Messages, m) \subseteq Values
    BY <2>1, FieldsAreValues
  <2> QED BY <2>1, <2>3, <2>4 DEF m
<1>3. v = [i \in 1 .. Len(ms) |-> v[i]]
  BY <1>1 DEF ZeroMessageOf
<1> HIDE DEF v, ms
<1>4. v \in Seq(Values) /\ Len(v) = Len(ms)
  BY <1>1, <1>2, <1>3
<1>5. v \in Messages[t]
  BY <1>2, <1>4, MessagesHaveFields DEF ms
<1> QED BY <1>5 DEF v

\* The zeroed messages are what their definition says.
LEMMA ZeroMessageIsDefined ==
  ASSUME ValuesAreClosed
  PROVE  ZeroMessage =
           [t \in DOMAIN Types |-> ZeroMessageOf(t, [u \in Subtypes[t] |-> ZeroMessage[u]])]
<1> DEFINE Equation(f) ==
             f = [t \in DOMAIN Types |-> ZeroMessageOf(t, [u \in Subtypes[t] |-> f[u]])]
           G == [t \in DOMAIN Types |->
                  [p \in Below(Subtypes, Messages, t) |-> ZeroMessageOf(t, p)]]
<1>1. \A t \in DOMAIN Types : \A p \in Below(Subtypes, Messages, t) : G[t][p] \in Messages[t]
  BY ZeroMessageIsMessage
<1>2. PICK f : IsDefinedBy(DOMAIN Types, Subtypes, G, Messages, f)
  <2> HIDE DEF G
  <2> QED BY <1>1, SubtypesAreTypes, RecursionIsDefined
<1>3. ASSUME NEW t \in DOMAIN Types
      PROVE  f[t] = ZeroMessageOf(t, [u \in Subtypes[t] |-> f[u]])
  <2> DEFINE p == [u \in Subtypes[t] |-> f[u]]
  <2>1. p \in Below(Subtypes, Messages, t) /\ f[t] = G[t][p]
    BY <1>2, Zenon DEF IsDefinedBy
  <2> HIDE DEF p
  <2>2. f[t] = ZeroMessageOf(t, p)
    BY <2>1
  <2> QED BY <2>2 DEF p
<1>4. Equation(f)
  BY <1>2, <1>3, Zenon DEF IsDefinedBy
<1>5. ZeroMessage = CHOOSE g : Equation(g)
  BY Zenon DEF ZeroMessage, ZeroMessageOf
<1> HIDE DEF Equation
<1>6. Equation(ZeroMessage)
  BY <1>4, <1>5, Zenon
<1> QED BY <1>6 DEF Equation

\* They are messages, whose fields are zero.
LEMMA ZeroMessageHas ==
  ASSUME ValuesAreClosed, NEW t \in DOMAIN Types
  PROVE  /\ ZeroMessage[t] \in Messages[t]
         /\ \A i \in DOMAIN Types[t].members :
              ZeroMessage[t][i] = InitField(ZeroMessage, Types[t].members[i])
<1>1. ASSUME NEW u \in DOMAIN Types, AreOfTypes(Subtypes[u], ZeroMessage, Messages)
      PROVE  ZeroMessage[u] \in Messages[u]
  <2> DEFINE p == [v \in Subtypes[u] |-> ZeroMessage[v]]
  <2>1. p \in Below(Subtypes, Messages, u)
    BY <1>1 DEF Below, AreOfTypes
  <2>2. ZeroMessage[u] = ZeroMessageOf(u, p)
    BY ZeroMessageIsDefined, Zenon
  <2> HIDE DEF p
  <2> QED BY <2>1, <2>2, ZeroMessageIsMessage
<1>2. AreOfTypes(DOMAIN Types, ZeroMessage, Messages)
  BY <1>1, SubtypesAreTypes, TypesByInduction
<1>3. ZeroMessage[t] \in Messages[t]
  BY <1>2 DEF AreOfTypes
<1>4. ASSUME NEW i \in DOMAIN Types[t].members
      PROVE  ZeroMessage[t][i] = InitField(ZeroMessage, Types[t].members[i])
  <2> DEFINE p == [v \in Subtypes[t] |-> ZeroMessage[v]]
             m == Types[t].members[i]
  <2>1. ZeroMessage[t] = ZeroMessageOf(t, p)
    BY ZeroMessageIsDefined, Zenon
  <2>2. is_complex_type(m) => m.members \in Subtypes[t]
    BY MembersAreMembers
  <2>3. is_complex_type(m) => p[m.members] = ZeroMessage[m.members]
    BY <2>2
  <2> HIDE DEF p, m
  <2>4. InitElement(p, m) = InitElement(ZeroMessage, m)
    BY <2>3 DEF InitElement, is_complex_type
  <2>5. InitField(p, m) = InitField(ZeroMessage, m)
    BY <2>4 DEF InitField
  <2> QED BY <2>1, <2>5 DEF ZeroMessageOf, m
<1> QED BY <1>3, <1>4

\* All elements of a zeroed field are zero, and a sequence has none.
LEMMA InitFieldHas ==
  ASSUME NEW t \in DOMAIN Types, NEW m \in ToSet(Types[t].members)
  PROVE  /\ \A i \in DOMAIN InitField(ZeroMessage, m) :
              InitField(ZeroMessage, m)[i] = InitElement(ZeroMessage, m)
         /\ IsSequence(m) => InitField(ZeroMessage, m) = <<>>
<1> DEFINE e == InitElement(ZeroMessage, m)
           f == InitField(ZeroMessage, m)
<1>1. m.is_array \in BOOLEAN /\ m.array_size \in Nat
  BY MemberCases
<1>2. CASE IsSequence(m)
  <2>1. f = <<>>
    BY <1>2 DEF InitField, IsSequence
  <2> HIDE DEF e, f
  <2>2. DOMAIN f = {}
    BY <2>1
  <2> QED BY <2>1, <2>2 DEF f
<1>3. CASE IsFixedArray(m)
  <2>1. f = [k \in 1 .. m.array_size |-> e]
    BY <1>3 DEF InitField, IsSequence, IsFixedArray
  <2>2. ~IsSequence(m)
    BY <1>3 DEF IsSequence
  <2> HIDE DEF e, f
  <2> QED BY <2>1, <2>2 DEF e, f
<1>4. CASE ~m.is_array
  <2>1. f = <<e>> /\ ~IsSequence(m)
    BY <1>4 DEF InitField, IsSequence, IsFixedArray
  <2> HIDE DEF e, f
  <2>2. \A i \in DOMAIN f : f[i] = e
    BY <2>1
  <2> QED BY <2>1, <2>2 DEF e, f
<1> QED BY <1>1, <1>2, <1>3, <1>4 DEF IsSequence

\* A default value is a field of its member.
LEMMA DefaultsAreFields ==
  ASSUME NEW t \in DOMAIN Types, NEW i \in DOMAIN Defaults[t]
  PROVE  /\ i \in DOMAIN Types[t].members
         /\ Defaults[t][i] \in Fields(Messages, Types[t].members[i])
<1> DEFINE m == Types[t].members[i]
<1>1. /\ i \in DOMAIN Types[t].members /\ ~is_complex_type(m)
      /\ Defaults[t][i] \in Fields(<<>>, m)
  BY SerializationAssumption DEF SerializationAssumption
<1>2. m \in ToSet(Types[t].members)
  BY <1>1, MembersAreMembers
<1> HIDE DEF m
<1>3. m.type_id \in TypeIds
  BY <1>2, MemberCases
<1>4. Elements(<<>>, m) = Elements(Messages, m)
  BY <1>1, <1>3 DEF Elements, is_complex_type, TypeIds
<1>5. Fields(<<>>, m) = Fields(Messages, m)
  BY <1>4, Zenon DEF Fields
<1> QED BY <1>1, <1>5 DEF m

\* The initialised message of a type, if `nested' has those of its subtypes.
InitMessageOf(t, nested) ==
  [i \in DOMAIN Types[t].members |->
     IF i \in DOMAIN Defaults[t] THEN Defaults[t][i]
     ELSE InitField(nested, Types[t].members[i])]

\* It is a message.
LEMMA InitMessageIsMessage ==
  ASSUME ValuesAreClosed, NEW t \in DOMAIN Types, NEW nested \in Below(Subtypes, Messages, t)
  PROVE  InitMessageOf(t, nested) \in Messages[t]
<1> DEFINE ms == Types[t].members
           v == InitMessageOf(t, nested)
           zero == ZeroMessageOf(t, nested)
<1>1. DOMAIN ms = 1 .. Len(ms) /\ Len(ms) \in Nat
  BY MembersAreMembers
<1>2. /\ zero \in Seq(Values) /\ Len(zero) = Len(ms)
      /\ \A i \in 1 .. Len(zero) : zero[i] \in Fields(Messages, ms[i])
  BY ZeroMessageIsMessage, MessagesHaveFields
<1>3. ASSUME NEW i \in 1 .. Len(ms)
      PROVE  v[i] \in Fields(Messages, ms[i]) /\ v[i] \in Values
  <2> DEFINE m == ms[i]
  <2>1. m \in ToSet(ms) /\ zero[i] \in Fields(Messages, m)
    BY <1>1, <1>2, MembersAreMembers
  <2>2. v[i] = IF i \in DOMAIN Defaults[t] THEN Defaults[t][i] ELSE zero[i]
    BY <1>1 DEF InitMessageOf, ZeroMessageOf
  <2>3. v[i] \in Fields(Messages, m)
    <3>1. i \in DOMAIN Defaults[t] => Defaults[t][i] \in Fields(Messages, m)
      BY DefaultsAreFields
    <3> HIDE DEF v, zero, m
    <3> QED BY <2>1, <2>2, <3>1
  <2> HIDE DEF m, v
  <2>4. Fields(Messages, m) \subseteq Values
    BY <2>1, FieldsAreValues
  <2> QED BY <2>3, <2>4 DEF m
<1>4. v = [i \in 1 .. Len(ms) |-> v[i]]
  BY <1>1 DEF InitMessageOf
<1> HIDE DEF v, ms
<1>5. v \in Seq(Values) /\ Len(v) = Len(ms)
  BY <1>1, <1>3, <1>4
<1>6. v \in Messages[t]
  BY <1>3, <1>5, MessagesHaveFields DEF ms
<1> QED BY <1>6 DEF v

\* The initialised messages are what their definition says.
LEMMA InitMessageIsDefined ==
  ASSUME ValuesAreClosed
  PROVE  InitMessage =
           [t \in DOMAIN Types |-> InitMessageOf(t, [u \in Subtypes[t] |-> InitMessage[u]])]
<1> DEFINE Equation(f) ==
             f = [t \in DOMAIN Types |-> InitMessageOf(t, [u \in Subtypes[t] |-> f[u]])]
           G == [t \in DOMAIN Types |->
                  [p \in Below(Subtypes, Messages, t) |-> InitMessageOf(t, p)]]
<1>1. \A t \in DOMAIN Types : \A p \in Below(Subtypes, Messages, t) : G[t][p] \in Messages[t]
  BY InitMessageIsMessage
<1>2. PICK f : IsDefinedBy(DOMAIN Types, Subtypes, G, Messages, f)
  <2> HIDE DEF G
  <2> QED BY <1>1, SubtypesAreTypes, RecursionIsDefined
<1>3. ASSUME NEW t \in DOMAIN Types
      PROVE  f[t] = InitMessageOf(t, [u \in Subtypes[t] |-> f[u]])
  <2> DEFINE p == [u \in Subtypes[t] |-> f[u]]
  <2>1. p \in Below(Subtypes, Messages, t) /\ f[t] = G[t][p]
    BY <1>2, Zenon DEF IsDefinedBy
  <2> HIDE DEF p
  <2>2. f[t] = InitMessageOf(t, p)
    BY <2>1
  <2> QED BY <2>2 DEF p
<1>4. Equation(f)
  BY <1>2, <1>3, Zenon DEF IsDefinedBy
<1>5. InitMessage = CHOOSE g : Equation(g)
  BY Zenon DEF InitMessage, InitMessageOf
<1> HIDE DEF Equation
<1>6. Equation(InitMessage)
  BY <1>4, <1>5, Zenon
<1> QED BY <1>6 DEF Equation

\* They are messages.
LEMMA InitMessagesAreMessages ==
  ASSUME ValuesAreClosed, NEW t \in DOMAIN Types
  PROVE  InitMessage[t] \in Messages[t]
<1>1. ASSUME NEW u \in DOMAIN Types, AreOfTypes(Subtypes[u], InitMessage, Messages)
      PROVE  InitMessage[u] \in Messages[u]
  <2> DEFINE p == [v \in Subtypes[u] |-> InitMessage[v]]
  <2>1. p \in Below(Subtypes, Messages, u)
    BY <1>1 DEF Below, AreOfTypes
  <2>2. InitMessage[u] = InitMessageOf(u, p)
    BY InitMessageIsDefined, Zenon
  <2> HIDE DEF p
  <2> QED BY <2>1, <2>2, InitMessageIsMessage
<1>2. AreOfTypes(DOMAIN Types, InitMessage, Messages)
  BY <1>1, SubtypesAreTypes, TypesByInduction
<1> QED BY <1>2 DEF AreOfTypes

-----------------------------------------------------------------------------
(* Serializing.                                                             *)

\* Division undoes multiplication, and makes nothing larger.
LEMMA Division ==
  ASSUME NEW a \in Nat, NEW b \in Nat \ {0}
  PROVE  (a * b) \div b = a /\ a \div b \in 0 .. a
OBVIOUS

\* No more messages are counted than there are; in C++, or of what is not a sequence of
\* messages, as many.
LEMMA ElementCountIs ==
  ASSUME NEW t \in DOMAIN Types, NEW m \in ToSet(Types[t].members),
         NEW l \in Languages, NEW S, NEW f \in Seq(S)
  PROVE  /\ ElementCount(l, m, f) \in 0 .. Len(f)
         /\ l = "CPP" \/ ~is_complex_type(m) \/ ~IsSequence(m) =>
              ElementCount(l, m, f) = Len(f)
<1> DEFINE n == Len(f)
           b == SubTypeSize(m)
<1>1. n \in Nat
  OBVIOUS
<1>2. CASE ~is_complex_type(m)
  BY <1>1, <1>2 DEF ElementCount
<1>3. CASE is_complex_type(m)
  <2>1. b \in Nat \ {0}
    BY <1>3, MemberCases
  <2>2. ElementCount(l, m, f) = IF ~IsSequence(m) THEN n
                                ELSE IF l = "CPP" THEN (n * b) \div b ELSE n \div b
    BY <1>3 DEF ElementCount, MessageCount, Languages
  <2> HIDE DEF n, b
  <2>3. (n * b) \div b = n /\ n \div b \in 0 .. n
    BY <1>1, <2>1, Division
  <2>4. /\ ElementCount(l, m, f) \in 0 .. n
        /\ l = "CPP" \/ ~IsSequence(m) => ElementCount(l, m, f) = n
    BY <1>1, <2>2, <2>3
  <2> QED BY <1>3, <2>4 DEF n
<1> QED BY <1>2, <1>3

\* It makes no difference which of three parts of a wire are put together first.
LEMMA WiresAssociate ==
  \A x, y, z \in Seq(Nat) : (x \o y) \o z = x \o (y \o z)
OBVIOUS

\* What is flattened is put together one after the other.
FlattensTo(f, n, parts) ==
  /\ f \in [0 .. n -> Seq(Nat)] /\ f[0] = <<>>
  /\ \A i \in 1 .. n : f[i] = f[i - 1] \o parts[i]

\* FlattenSeq puts its parts together one after the other.
LEMMA FlattenIs ==
  ASSUME NEW n \in Nat, NEW parts \in [1 .. n -> Seq(Nat)]
  PROVE  \E f : FlattensTo(f, n, parts) /\ FlattenSeq(parts) = f[n]
<1> DEFINE step == [i \in 1 .. n |-> [w \in Seq(Nat) |-> w \o parts[i]]]
           V == Seq(Nat)
           none == <<>>
           Equation(g) == g = [i \in 1 .. n |-> IF i = 1 THEN parts[i] ELSE g[i - 1] \o parts[i]]
           chosen == CHOOSE g : Equation(g)
<1>1. PICK f \in [0 .. n -> V] : GoesBySteps(f, n, none, step)
  <2>1. none \in V /\ step \in [1 .. n -> [V -> V]]
    OBVIOUS
  <2> HIDE DEF V, none, step
  <2> QED BY <2>1, StepsRecursion
<1>2. ASSUME NEW i \in 1 .. n
      PROVE  f[i] = f[i - 1] \o parts[i] /\ f[i - 1] \in Seq(Nat) /\ parts[i] \in Seq(Nat)
  <2>1. i - 1 \in 0 .. n
    OBVIOUS
  <2>2. f[i] = step[i][f[i - 1]] /\ f[i - 1] \in Seq(Nat)
    <3> HIDE DEF step
    <3> QED BY <1>1, <2>1 DEF GoesBySteps
  <2> QED BY <2>2
<1>3. f[0] = <<>>
  BY <1>1 DEF GoesBySteps
<1> HIDE DEF step, V
<1>20. ASSUME NEW i \in 1 .. n, NEW j, j = i - 1
       PROVE  f[i] = f[j] \o parts[i] /\ f[j] \in Seq(Nat) /\ parts[i] \in Seq(Nat)
  BY <1>2, <1>20
<1>4. FlattensTo(f, n, parts)
  BY <1>1, <1>2, <1>3 DEF FlattensTo, V
<1>5. Len(parts) = n
  OBVIOUS
<1> HIDE DEF step
<1>6. CASE n = 0
  <2>1. parts = <<>>
    BY <1>6
  <2>2. FlattenSeq(parts) = parts
    BY <1>5, <1>6 DEF FlattenSeq
  <2> QED BY <1>3, <1>4, <1>6, <2>1, <2>2
<1>7. CASE n # 0
  <2> DEFINE g == [i \in 1 .. n |-> f[i]]
  <2>1. ASSUME NEW i \in 1 .. n
        PROVE  g[i] = IF i = 1 THEN parts[i] ELSE g[i - 1] \o parts[i]
    <3>1. CASE i = 1
      <4>1. 0 = i - 1
        BY <3>1
      <4>2. f[i] = f[0] \o parts[i] /\ parts[i] \in Seq(Nat)
        BY <1>20, <4>1
      <4>3. <<>> \o parts[i] = parts[i]
        BY <4>2
      <4> QED BY <1>3, <3>1, <4>2, <4>3
    <3>2. CASE i # 1
      <4>1. i - 1 \in 1 .. n
        BY <3>2
      <4>2. g[i - 1] = f[i - 1] /\ g[i] = f[i]
        BY <4>1
      <4> QED BY <1>2, <3>2, <4>2
    <3> QED BY <3>1, <3>2
  <2>2. Equation(g)
    <3>1. g = [i \in 1 .. n |-> g[i]]
      OBVIOUS
    <3> HIDE DEF g
    <3> QED BY <2>1, <3>1
  <2>3. Equation(chosen)
    BY <2>2, Zenon
  <2>4. FlattenSeq(parts) = chosen[n]
    BY <1>5, <1>7 DEF FlattenSeq
  <2> HIDE DEF chosen, g
  <2>5. ASSUME NEW i \in 1 .. n
        PROVE  chosen[i] = IF i = 1 THEN parts[i] ELSE chosen[i - 1] \o parts[i]
    BY <2>3
  <2> HIDE DEF Equation
  <2>50. ASSUME NEW i \in 1 .. n, NEW j, j = i - 1, i # 1
         PROVE  chosen[i] = chosen[j] \o parts[i]
    BY <2>5, <2>50
  <2> DEFINE Good == {i \in Nat : \A k \in 1 .. n : k = i + 1 => chosen[k] = f[k]}
  <2>6. 0 \in Good
    <3> SUFFICES ASSUME NEW k \in 1 .. n, k = 1 PROVE chosen[k] = f[k]
      OBVIOUS
    <3>1. 0 = k - 1
      OBVIOUS
    <3>2. f[k] = f[0] \o parts[k] /\ parts[k] \in Seq(Nat)
      BY <1>20, <3>1
    <3>3. <<>> \o parts[k] = parts[k]
      BY <3>2
    <3> QED BY <1>3, <2>5, <3>2, <3>3
  <2>7. ASSUME NEW i \in Nat, i \in Good PROVE i + 1 \in Good
    <3> SUFFICES ASSUME NEW k \in 1 .. n, k = i + 1 + 1 PROVE chosen[k] = f[k]
      OBVIOUS
    <3> DEFINE j == i + 1
    <3>1. j \in 1 .. n /\ k # 1 /\ j = k - 1
      OBVIOUS
    <3>2. chosen[j] = f[j]
      BY <2>7, <3>1
    <3> HIDE DEF j
    <3>3. chosen[k] = chosen[j] \o parts[k]
      BY <2>50, <3>1
    <3>4. f[k] = f[j] \o parts[k]
      BY <1>20, <3>1
    <3> QED BY <3>2, <3>3, <3>4
  <2>8. n - 1 \in Nat
    BY <1>7
  <2>9. n - 1 \in Good
    <3> HIDE DEF Good
    <3> QED BY <2>6, <2>7, <2>8, NumbersInduction
  <2>10. chosen[n] = f[n]
    <3>1. n \in 1 .. n /\ n = n - 1 + 1
      BY <1>7
    <3> QED BY <2>9, <3>1
  <2> QED BY <1>4, <2>4, <2>10
<1> QED BY <1>6, <1>7

\* What comes after each of the parts: the next, and what comes after that.
FollowsFrom(after, n, parts, rest) ==
  /\ after \in [0 .. n -> Seq(Nat)] /\ after[n] = rest
  /\ \A i \in 1 .. n : after[i - 1] = parts[i] \o after[i]

\* What is flattened, with a rest, begins with the first part and goes on with what
\* comes after it.
LEMMA FlattenFollows ==
  ASSUME NEW n \in Nat, NEW parts \in [1 .. n -> Seq(Nat)], NEW rest \in Seq(Nat)
  PROVE  /\ FlattenSeq(parts) \in Seq(Nat)
         /\ \E after : FollowsFrom(after, n, parts, rest)
                       /\ FlattenSeq(parts) \o rest = after[0]
<1> DEFINE V == Seq(Nat)
           step == [j \in 1 .. n |-> [w \in V |-> parts[n - j + 1] \o w]]
<1>1. PICK f : FlattensTo(f, n, parts) /\ FlattenSeq(parts) = f[n]
  BY FlattenIs
<1>2. f[n] \in Seq(Nat)
  BY <1>1 DEF FlattensTo
<1>3. PICK back \in [0 .. n -> V] : GoesBySteps(back, n, rest, step)
  <2>1. \A j \in 1 .. n : n - j + 1 \in 1 .. n
    OBVIOUS
  <2>2. step \in [1 .. n -> [V -> V]]
    BY <2>1
  <2>3. rest \in V
    OBVIOUS
  <2> HIDE DEF V, step
  <2> QED BY <2>2, <2>3, StepsRecursion
<1>4. ASSUME NEW j \in 1 .. n
      PROVE  back[j] = parts[n - j + 1] \o back[j - 1] /\ back[j - 1] \in Seq(Nat)
  <2>1. j - 1 \in 0 .. n
    OBVIOUS
  <2>2. back[j] = step[j][back[j - 1]] /\ back[j - 1] \in Seq(Nat)
    <3> HIDE DEF step
    <3> QED BY <1>3, <2>1 DEF GoesBySteps
  <2> QED BY <2>2
<1>5. back[0] = rest
  BY <1>3 DEF GoesBySteps
<1> DEFINE after == [i \in 0 .. n |-> back[n - i]]
<1>6. FollowsFrom(after, n, parts, rest)
  <2>1. \A i \in 0 .. n : n - i \in 0 .. n /\ back[n - i] \in Seq(Nat)
    BY <1>3
  <2>2. after \in [0 .. n -> Seq(Nat)] /\ after[n] = rest
    BY <1>5, <2>1
  <2>3. ASSUME NEW i \in 1 .. n PROVE after[i - 1] = parts[i] \o after[i]
    <3> DEFINE j == n - i + 1
    <3>1. j \in 1 .. n /\ n - j + 1 = i /\ j - 1 = n - i /\ n - (i - 1) = j
      OBVIOUS
    <3>2. back[j] = parts[i] \o back[n - i]
      <4> HIDE DEF j
      <4> QED BY <1>4, <3>1
    <3>3. after[i - 1] = back[j] /\ after[i] = back[n - i]
      <4>1. i - 1 \in 0 .. n /\ i \in 0 .. n
        OBVIOUS
      <4> QED BY <3>1, <4>1
    <3> QED BY <3>2, <3>3
  <2> HIDE DEF after
  <2> QED BY <2>2, <2>3 DEF FollowsFrom
<1> DEFINE whole == f[n] \o rest
           Both(i, j) == f[i] \o back[j]
           Good == {j \in Nat : \A i \in 0 .. n : i = n - j => whole = Both(i, j)}
<1>7. 0 \in Good
  <2>1. \A i \in 0 .. n : i = n - 0 => i = n
    OBVIOUS
  <2>2. whole = Both(n, 0)
    BY <1>5
  <2> HIDE DEF whole, Both
  <2> QED BY <2>1, <2>2
<1>40. ASSUME NEW j \in 1 .. n, NEW h, h = j - 1, NEW i, i = n - h
       PROVE  back[j] = parts[i] \o back[h] /\ back[h] \in Seq(Nat)
  <2>1. i = n - j + 1
    BY <1>40
  <2> HIDE DEF step
  <2> QED BY <1>4, <1>40, <2>1
<1>41. ASSUME NEW i \in 1 .. n, NEW h, h = i - 1
       PROVE  f[i] = f[h] \o parts[i] /\ f[h] \in Seq(Nat) /\ parts[i] \in Seq(Nat)
  <2>1. h \in 0 .. n
    BY <1>41
  <2> QED BY <1>1, <1>41, <2>1 DEF FlattensTo
<1> HIDE DEF whole, after, step, Both
<1>8. ASSUME NEW j \in Nat, j \in Good PROVE j + 1 \in Good
  <2> SUFFICES ASSUME NEW h \in 0 .. n, h = n - (j + 1) PROVE whole = Both(h, j + 1)
    OBVIOUS
  <2> DEFINE i == n - j
             k == j + 1
  <2>1. i \in 1 .. n /\ i \in 0 .. n /\ i = n - j /\ h = i - 1 /\ k \in 1 .. n /\ j = k - 1
    OBVIOUS
  <2> HIDE DEF i, k
  <2>2. whole = f[i] \o back[j]
    <3>1. whole = Both(i, j)
      BY <1>8, <2>1
    <3> QED BY <3>1 DEF Both
  <2>3. back[k] = parts[i] \o back[j] /\ back[j] \in Seq(Nat)
    BY <1>40, <2>1
  <2>4. f[i] = f[h] \o parts[i] /\ f[h] \in Seq(Nat) /\ parts[i] \in Seq(Nat)
    BY <1>41, <2>1
  <2>5. (f[h] \o parts[i]) \o back[j] = f[h] \o (parts[i] \o back[j])
    <3> DEFINE x == f[h]
               y == parts[i]
               z == back[j]
    <3>1. x \in Seq(Nat) /\ y \in Seq(Nat) /\ z \in Seq(Nat)
      BY <2>3, <2>4
    <3> HIDE DEF x, y, z
    <3>2. (x \o y) \o z = x \o (y \o z)
      BY <3>1, WiresAssociate, Zenon
    <3> QED BY <3>2 DEF x, y, z
  <2>6. whole = f[h] \o back[k]
    BY <2>2, <2>3, <2>4, <2>5
  <2> QED BY <2>6 DEF k, Both
<1>9. n \in Good
  <2> HIDE DEF Good
  <2> QED BY <1>7, <1>8, NumbersInduction
<1>10. f[n] \o rest = f[0] \o back[n]
  <2>1. 0 \in 0 .. n /\ 0 = n - n
    OBVIOUS
  <2>2. whole = Both(0, n)
    BY <1>9, <2>1
  <2> QED BY <2>2 DEF whole, Both
<1>11. f[0] \o back[n] = back[n]
  BY <1>1, <1>3 DEF FlattensTo
<1>12. after[0] = back[n]
  BY DEF after
<1> QED BY <1>1, <1>2, <1>6, <1>10, <1>11, <1>12

\* What serializes the messages of a type.
Encoders == [t \in DOMAIN Types |-> [Languages -> [Messages[t] -> Seq(Nat)]]]

\* What is written of an element is a wire.
LEMMA SerializeElementIs ==
  ASSUME NEW t \in DOMAIN Types, NEW m \in ToSet(Types[t].members), NEW l \in Languages,
         NEW nested, is_complex_type(m) => nested[m.members] \in Encoders[m.members],
         NEW e \in Elements(Messages, m)
  PROVE  SerializeElement(nested, l, m, e) \in Seq(Nat)
<1>1. m.type_id \in TypeIds
  BY MemberCases
<1>2. CASE m.type_id = "PRIMITIVE"
  <2>1. e \in Nat
    BY <1>2, MemberCases
  <2>2. SerializeElement(nested, l, m, e) = <<e>>
    BY <1>2 DEF SerializeElement
  <2> QED BY <2>1, <2>2
<1>3. CASE is_complex_type(m)
  <2>1. e \in Messages[m.members] /\ m.members \in DOMAIN Types
    BY <1>3, MemberCases
  <2>2. SerializeElement(nested, l, m, e) = nested[m.members][l][e]
    BY <1>3 DEF SerializeElement, is_complex_type
  <2>3. nested[m.members] \in [Languages -> [Messages[m.members] -> Seq(Nat)]]
    BY <1>3, <2>1 DEF Encoders
  <2> QED BY <2>1, <2>2, <2>3
<1>4. CASE m.type_id \in {"STRING", "WSTRING"}
  <2>1. e \in Seq(Nat)
    BY <1>4, MemberCases
  <2>2. SerializeElement(nested, l, m, e) = <<Check, Len(e)>> \o e
    BY <1>4 DEF SerializeElement, SerializeString, PushSequenceSize
  <2>3. <<Check, Len(e)>> \in Seq(Nat)
    BY <2>1 DEF Check
  <2> QED BY <2>1, <2>2, <2>3
<1> QED BY <1>1, <1>2, <1>3, <1>4 DEF TypeIds, is_complex_type

\* What is written of the elements of a field is written element by element.
LEMMA SerializeElementsAre ==
  ASSUME NEW t \in DOMAIN Types, NEW m \in ToSet(Types[t].members), NEW l \in Languages,
         NEW nested, is_complex_type(m) => nested[m.members] \in Encoders[m.members],
         NEW f \in Fields(Messages, m)
  PROVE  LET n == ElementCount(l, m, f)
         IN  /\ n \in 0 .. Len(f)
             /\ [k \in 1 .. n |-> SerializeElement(nested, l, m, f[k])] \in [1 .. n -> Seq(Nat)]
<1> DEFINE n == ElementCount(l, m, f)
           parts == [k \in 1 .. n |-> SerializeElement(nested, l, m, f[k])]
<1>1. f \in Seq(Elements(Messages, m))
  BY FieldsAre
<1>2. n \in 0 .. Len(f)
  BY <1>1, ElementCountIs
<1> HIDE DEF n
<1>3. ASSUME NEW k \in 1 .. n PROVE SerializeElement(nested, l, m, f[k]) \in Seq(Nat)
  <2>1. f[k] \in Elements(Messages, m)
    <3>1. k \in 1 .. Len(f)
      BY <1>1, <1>2
    <3> QED BY <1>1, <3>1
  <2> QED BY <2>1, SerializeElementIs
<1>4. parts \in [1 .. n -> Seq(Nat)]
  BY <1>3
<1> QED BY <1>2, <1>4 DEF n

\* What is written of a field is a wire.
LEMMA SerializeFieldIs ==
  ASSUME NEW t \in DOMAIN Types, NEW m \in ToSet(Types[t].members), NEW l \in Languages,
         NEW nested, is_complex_type(m) => nested[m.members] \in Encoders[m.members],
         NEW f \in Fields(Messages, m)
  PROVE  SerializeField(nested, l, m, f) \in Seq(Nat)
<1> DEFINE n == ElementCount(l, m, f)
           parts == [k \in 1 .. n |-> SerializeElement(nested, l, m, f[k])]
<1>1. n \in 0 .. Len(f) /\ parts \in [1 .. n -> Seq(Nat)]
  BY SerializeElementsAre
<1>2. n \in Nat
  <2>1. Len(f) \in Nat
    BY FieldsAre
  <2> QED BY <1>1, <2>1
<1>3. SerializeField(nested, l, m, f) = SizePrefix(m, n) \o FlattenSeq(parts)
  BY DEF SerializeField
<1> HIDE DEF parts, n
<1>4. FlattenSeq(parts) \in Seq(Nat)
  <2>1. <<>> \in Seq(Nat)
    OBVIOUS
  <2> QED BY <1>1, <1>2, <2>1, FlattenFollows
<1>5. SizePrefix(m, n) \in Seq(Nat)
  BY <1>2 DEF SizePrefix, PushSequenceSize, Check
<1> QED BY <1>3, <1>4, <1>5

\* What is serialized of the fields of a message, one after the other.
Parts(nested, t, l, message) ==
  [i \in DOMAIN Types[t].members |->
     SerializeField(nested, l, Types[t].members[i], message[i])]

\* What serializes the messages of t, if `nested' does those of its subtypes.
SerializeOf(t, nested) ==
  [language \in Languages |-> [message \in Messages[t] |->
     FlattenSeq([i \in DOMAIN Types[t].members |->
                   SerializeField(nested, language, Types[t].members[i], message[i])])]]

\* The parts of a message are wires, one for each field.
LEMMA PartsAre ==
  ASSUME NEW t \in DOMAIN Types, NEW l \in Languages, NEW nested,
         \A m \in ToSet(Types[t].members) :
           is_complex_type(m) => nested[m.members] \in Encoders[m.members],
         NEW v \in Messages[t]
  PROVE  Parts(nested, t, l, v) \in [1 .. Len(v) -> Seq(Nat)]
<1> DEFINE ms == Types[t].members
<1>1. DOMAIN ms = 1 .. Len(v) /\ \A i \in 1 .. Len(v) : ms[i] \in ToSet(Types[t].members)
  BY MessagesHaveFields, MembersAreMembers
<1>2. ASSUME NEW i \in 1 .. Len(v) PROVE SerializeField(nested, l, ms[i], v[i]) \in Seq(Nat)
  <2> DEFINE m == ms[i]
  <2>1. m \in ToSet(Types[t].members) /\ v[i] \in Fields(Messages, m)
    BY <1>1, MessagesHaveFields
  <2> HIDE DEF m, ms
  <2>2. SerializeField(nested, l, m, v[i]) \in Seq(Nat)
    BY <2>1, SerializeFieldIs
  <2> QED BY <2>2 DEF m
<1>3. Parts(nested, t, l, v) = [i \in 1 .. Len(v) |-> SerializeField(nested, l, ms[i], v[i])]
  BY <1>1 DEF Parts
<1> HIDE DEF ms
<1> QED BY <1>2, <1>3

\* A type's serializer is an encoder if those of its subtypes are.
LEMMA SerializeIsEncoder ==
  ASSUME NEW t \in DOMAIN Types, NEW nested \in Below(Subtypes, Encoders, t)
  PROVE  SerializeOf(t, nested) \in Encoders[t]
<1>1. \A m \in ToSet(Types[t].members) :
        is_complex_type(m) => nested[m.members] \in Encoders[m.members]
  BY MembersAreMembers DEF Below
<1>2. ASSUME NEW l \in Languages, NEW v \in Messages[t]
      PROVE  FlattenSeq(Parts(nested, t, l, v)) \in Seq(Nat)
  <2>1. Parts(nested, t, l, v) \in [1 .. Len(v) -> Seq(Nat)]
    BY <1>1, PartsAre
  <2>2. Len(v) \in Nat /\ <<>> \in Seq(Nat)
    BY MessagesHaveFields
  <2> QED BY <2>1, <2>2, FlattenFollows
<1>3. SerializeOf(t, nested) =
        [l \in Languages |-> [v \in Messages[t] |-> FlattenSeq(Parts(nested, t, l, v))]]
  BY DEF SerializeOf, Parts
<1>4. SerializeOf(t, nested) \in [Languages -> [Messages[t] -> Seq(Nat)]]
  BY <1>2, <1>3
<1> QED BY <1>4 DEF Encoders

\* Serialize is what its definition says.
LEMMA SerializeIsDefined ==
  Serialize = [t \in DOMAIN Types |-> SerializeOf(t, [u \in Subtypes[t] |-> Serialize[u]])]
<1> DEFINE Equation(f) ==
             f = [t \in DOMAIN Types |-> SerializeOf(t, [u \in Subtypes[t] |-> f[u]])]
           G == [t \in DOMAIN Types |->
                  [p \in Below(Subtypes, Encoders, t) |-> SerializeOf(t, p)]]
<1>1. \A t \in DOMAIN Types : \A p \in Below(Subtypes, Encoders, t) : G[t][p] \in Encoders[t]
  BY SerializeIsEncoder
<1>2. PICK f : IsDefinedBy(DOMAIN Types, Subtypes, G, Encoders, f)
  <2> HIDE DEF G
  <2> QED BY <1>1, SubtypesAreTypes, RecursionIsDefined
<1>3. ASSUME NEW t \in DOMAIN Types
      PROVE  f[t] = SerializeOf(t, [u \in Subtypes[t] |-> f[u]])
  <2> DEFINE p == [u \in Subtypes[t] |-> f[u]]
  <2>1. p \in Below(Subtypes, Encoders, t) /\ f[t] = G[t][p]
    BY <1>2, Zenon DEF IsDefinedBy
  <2> HIDE DEF p
  <2>2. f[t] = SerializeOf(t, p)
    BY <2>1
  <2> QED BY <2>2 DEF p
<1>4. Equation(f)
  BY <1>2, <1>3, Zenon DEF IsDefinedBy
<1>5. Serialize = CHOOSE g : Equation(g)
  BY Zenon DEF Serialize, SerializeOf
<1> HIDE DEF Equation
<1>6. Equation(Serialize)
  BY <1>4, <1>5, Zenon
<1> QED BY <1>6 DEF Equation

\* Every message is serialized, field by field.
LEMMA SerializeIs ==
  ASSUME NEW t \in DOMAIN Types
  PROVE  /\ Serialize[t] \in Encoders[t]
         /\ \A m \in ToSet(Types[t].members) :
              is_complex_type(m) => Serialize[m.members] \in Encoders[m.members]
         /\ \A l \in Languages, v \in Messages[t] :
              Serialize[t][l][v] = FlattenSeq(Parts(Serialize, t, l, v))
<1>1. ASSUME NEW u \in DOMAIN Types, AreOfTypes(Subtypes[u], Serialize, Encoders)
      PROVE  Serialize[u] \in Encoders[u]
  <2> DEFINE p == [v \in Subtypes[u] |-> Serialize[v]]
  <2>1. p \in Below(Subtypes, Encoders, u)
    BY <1>1 DEF Below, AreOfTypes
  <2>2. Serialize[u] = SerializeOf(u, p)
    BY SerializeIsDefined, Zenon
  <2> HIDE DEF p
  <2> QED BY <2>1, <2>2, SerializeIsEncoder
<1>2. AreOfTypes(DOMAIN Types, Serialize, Encoders)
  BY <1>1, SubtypesAreTypes, TypesByInduction
<1>3. Serialize[t] \in Encoders[t]
  BY <1>2 DEF AreOfTypes
<1>4. ASSUME NEW m \in ToSet(Types[t].members), is_complex_type(m)
      PROVE  Serialize[m.members] \in Encoders[m.members]
  BY <1>2, <1>4, MemberCases DEF AreOfTypes
<1>5. ASSUME NEW l \in Languages, NEW v \in Messages[t]
      PROVE  Serialize[t][l][v] = FlattenSeq(Parts(Serialize, t, l, v))
  <2> DEFINE p == [u \in Subtypes[t] |-> Serialize[u]]
             ms == Types[t].members
  <2>1. Serialize[t] = SerializeOf(t, p)
    BY SerializeIsDefined, Zenon
  <2>2. ASSUME NEW i \in DOMAIN ms
        PROVE  SerializeField(p, l, ms[i], v[i]) = SerializeField(Serialize, l, ms[i], v[i])
    <3> DEFINE m == ms[i]
    <3>1. is_complex_type(m) => p[m.members] = Serialize[m.members]
      BY MembersAreMembers
    <3> HIDE DEF m, p
    <3>2. \A e : SerializeElement(p, l, m, e) = SerializeElement(Serialize, l, m, e)
      BY <3>1 DEF SerializeElement, is_complex_type
    <3>3. SerializeField(p, l, m, v[i]) = SerializeField(Serialize, l, m, v[i])
      BY <3>2 DEF SerializeField
    <3> QED BY <3>3 DEF m
  <2>3. Parts(p, t, l, v) = Parts(Serialize, t, l, v)
    <3> HIDE DEF p
    <3> QED BY <2>2 DEF Parts
  <2>4. SerializeOf(t, p)[l][v] = FlattenSeq(Parts(p, t, l, v))
    <3> HIDE DEF p
    <3> QED BY DEF SerializeOf, Parts
  <2> QED BY <2>1, <2>3, <2>4
<1> QED BY <1>3, <1>4, <1>5

-----------------------------------------------------------------------------
(* Reading one value after the other.                                       *)

\* What is read, of values of a kind.
Readings(V) == [values : V, wire : Seq(Nat), status : Statuses]

\* The reader of each of n values reads one of the kind, whatever is on the wire.
ReadsOf(reader, n, V) ==
  \A i \in 1 .. n : \A w \in Seq(Nat) : reader[i][w] \in Readings(V)

\* What is read when one more is.
ReadMore(reader, old, i, before) ==
  IF CanGoOn(before) THEN Then(before, reader[i][before.wire])
  ELSE [before EXCEPT !.values = Append(@, old[i])]

\* f[i] is what is read when i values are.
ReadsEach(f, reader, old, wire, V) ==
  /\ f \in [0 .. Len(old) -> Readings(Seq(V))]
  /\ f[0] = Read(<<>>, wire, "ok")
  /\ \A i \in 1 .. Len(old) : f[i] = ReadMore(reader, old, i, f[i - 1])

\* One more value is one of the kind.
LEMMA ReadMoreReads ==
  ASSUME NEW V, NEW old \in Seq(V), NEW reader, ReadsOf(reader, Len(old), V),
         NEW i \in 1 .. Len(old), NEW r \in Readings(Seq(V))
  PROVE  /\ ReadMore(reader, old, i, r) \in Readings(Seq(V))
         /\ CanGoOn(r) =>
              /\ ReadMore(reader, old, i, r).values = Append(r.values, reader[i][r.wire].values)
              /\ ReadMore(reader, old, i, r).wire = reader[i][r.wire].wire
              /\ CanGoOn(reader[i][r.wire]) => CanGoOn(ReadMore(reader, old, i, r))
         /\ ~CanGoOn(r) => ReadMore(reader, old, i, r).values = Append(r.values, old[i])
<1> DEFINE next == reader[i][r.wire]
           s == r.values
<1>1. s \in Seq(V) /\ r.wire \in Seq(Nat) /\ r.status \in Statuses
      /\ r = [values |-> s, wire |-> r.wire, status |-> r.status]
  BY DEF Readings
<1>2. next \in Readings(V)
  BY <1>1 DEF ReadsOf
<1>3. next.values \in V /\ next.wire \in Seq(Nat) /\ next.status \in Statuses
  BY <1>2 DEF Readings
<1>4. old[i] \in V
  OBVIOUS
<1> HIDE DEF next, s
<1>5. CASE CanGoOn(r)
  <2>1. ReadMore(reader, old, i, r) =
          [values |-> Append(s, next.values), wire |-> next.wire,
           status |-> Worse(r.status, next.status)]
    BY <1>5 DEF ReadMore, Then, Read, next, s
  <2>2. Append(s, next.values) \in Seq(V)
    BY <1>1, <1>3
  <2>3. Worse(r.status, next.status) \in Statuses
    BY <1>1, <1>3 DEF Worse
  <2>4. CanGoOn(next) => Worse(r.status, next.status) \in {"ok", "moved"}
    BY <1>5 DEF CanGoOn, Worse
  <2> DEFINE more == Append(s, next.values)
             status == Worse(r.status, next.status)
  <2> HIDE DEF more, status
  <2>5. ReadMore(reader, old, i, r) = [values |-> more, wire |-> next.wire, status |-> status]
    BY <2>1 DEF more, status
  <2>6. more \in Seq(V) /\ status \in Statuses
        /\ (CanGoOn(next) => status \in {"ok", "moved"})
    BY <2>2, <2>3, <2>4 DEF more, status
  <2>7. ReadMore(reader, old, i, r) \in Readings(Seq(V))
    BY <1>3, <2>5, <2>6 DEF Readings
  <2>8. ReadMore(reader, old, i, r).values = more
        /\ ReadMore(reader, old, i, r).wire = next.wire
        /\ ReadMore(reader, old, i, r).status = status
    BY <2>5
  <2>9. CanGoOn(next) => CanGoOn(ReadMore(reader, old, i, r))
    BY <2>6, <2>8 DEF CanGoOn
  <2> QED BY <1>5, <2>7, <2>8, <2>9 DEF more, next, s
<1>6. CASE ~CanGoOn(r)
  <2> DEFINE more == Append(s, old[i])
  <2>1. more \in Seq(V)
    BY <1>1, <1>4
  <2>2. ReadMore(reader, old, i, r) = [r EXCEPT !.values = more]
    BY <1>6 DEF ReadMore, s
  <2> HIDE DEF more
  <2>3. ReadMore(reader, old, i, r) \in Readings(Seq(V))
        /\ ReadMore(reader, old, i, r).values = more
    BY <2>1, <2>2 DEF Readings
  <2> QED BY <1>6, <2>3 DEF more, s
<1> QED BY <1>5, <1>6

\* What ReadEach is: its steps are those.
LEMMA ReadEachIs ==
  ASSUME NEW V, NEW old \in Seq(V), NEW reader, ReadsOf(reader, Len(old), V),
         NEW wire \in Seq(Nat)
  PROVE  \E f : /\ ReadsEach(f, reader, old, wire, V)
                /\ ReadEach(reader, old, wire) = f[Len(old)]
<1> DEFINE n == Len(old)
           R == Readings(Seq(V))
           none == Read(<<>>, wire, "ok")
           step == [i \in 1 .. n |-> [r \in R |-> ReadMore(reader, old, i, r)]]
           Equation(f) == f = [i \in 0 .. n |-> IF i = 0 THEN none
                                                ELSE ReadMore(reader, old, i, f[i - 1])]
           chosen == CHOOSE f : Equation(f)
<1>1. n \in Nat
  OBVIOUS
<1>2. none \in R
  <2>1. <<>> \in Seq(V)
    OBVIOUS
  <2> QED BY <2>1 DEF Read, Readings, Statuses
<1>3. step \in [1 .. n -> [R -> R]]
  <2> HIDE DEF R
  <2>1. \A i \in 1 .. n : \A r \in R : ReadMore(reader, old, i, r) \in R
    BY ReadMoreReads DEF R
  <2> QED BY <2>1
<1>4. PICK f \in [0 .. n -> R] : GoesBySteps(f, n, none, step)
  <2> HIDE DEF R, n, none, step
  <2> QED BY <1>1, <1>2, <1>3, StepsRecursion
<1> HIDE DEF R, n
<1>5. ASSUME NEW i \in 0 .. n
      PROVE  f[i] = IF i = 0 THEN none ELSE ReadMore(reader, old, i, f[i - 1])
  <2>1. CASE i = 0
    <3> HIDE DEF none, step
    <3> QED BY <1>4, <2>1 DEF GoesBySteps
  <2>2. CASE i # 0
    <3>1. i \in 1 .. n /\ i - 1 \in 0 .. n
      BY <1>1, <2>2
    <3>2. f[i] = step[i][f[i - 1]] /\ f[i - 1] \in R
      <4> HIDE DEF step, none
      <4> QED BY <1>4, <3>1 DEF GoesBySteps
    <3> HIDE DEF none
    <3> QED BY <2>2, <3>1, <3>2
  <2> QED BY <2>1, <2>2
<1> HIDE DEF step, none
<1>6. Equation(f)
  BY <1>4, <1>5
<1>7. Equation(chosen)
  BY <1>6, Zenon
<1>8. ReadEach(reader, old, wire) = chosen[n]
  BY Zenon DEF ReadEach, ReadMore, n, none
<1>9. ASSUME NEW g, Equation(g), NEW i \in 0 .. n
      PROVE  g[i] = IF i = 0 THEN none ELSE ReadMore(reader, old, i, g[i - 1])
  BY <1>9
<1> HIDE DEF chosen
<1>10. ASSUME NEW i \in 0 .. n
       PROVE  chosen[i] = IF i = 0 THEN none ELSE ReadMore(reader, old, i, chosen[i - 1])
  BY <1>7, <1>9
<1>11. DOMAIN chosen = 0 .. n /\ chosen = [i \in 0 .. n |-> chosen[i]]
  BY <1>7
<1> HIDE DEF Equation
<1> DEFINE Good == {i \in Nat : i <= n => chosen[i] \in R}
<1>12. 0 \in Good
  BY <1>1, <1>2, <1>10
<1>13. ASSUME NEW i \in Nat, i \in Good PROVE i + 1 \in Good
  <2> DEFINE j == i + 1
  <2> SUFFICES ASSUME j <= n PROVE chosen[j] \in R
    OBVIOUS
  <2>1. j \in 0 .. n /\ j \in 1 .. n /\ j # 0 /\ j - 1 = i /\ i <= n
    BY <1>1
  <2> HIDE DEF j
  <2>2. chosen[i] \in R
    BY <1>13, <2>1
  <2>3. chosen[j] = ReadMore(reader, old, j, chosen[i])
    BY <1>10, <2>1
  <2> QED BY <2>1, <2>2, <2>3, ReadMoreReads DEF R, n
<1>14. ASSUME NEW i \in 0 .. n PROVE chosen[i] \in R
  <2>1. i \in Good
    <3>1. i \in Nat
      BY <1>1
    <3> HIDE DEF Good
    <3> QED BY <1>12, <1>13, <3>1, NumbersInduction
  <2> QED BY <1>1, <2>1
<1>15. ReadsEach(chosen, reader, old, wire, V)
  <2>1. chosen[0] = none
    <3>1. 0 \in 0 .. n
      BY <1>1
    <3> QED BY <1>10, <3>1
  <2>3. chosen \in [0 .. n -> R]
    BY <1>11, <1>14
  <2>2. \A i \in 1 .. n : chosen[i] = ReadMore(reader, old, i, chosen[i - 1])
    BY <1>10
  <2> QED BY <2>1, <2>2, <2>3 DEF ReadsEach, n, none, R
<1> QED BY <1>8, <1>15 DEF n

\* What is read is n values of the kind, each of which is right.
IsRight(r, n, V, Right) ==
  /\ r \in Readings(Seq(V)) /\ Len(r.values) = n
  /\ \A i \in 1 .. n : <<i, r.values[i]>> \in Right

\* Every value is either read or left as it was: what is right of both is right of all.
LEMMA ReadEachReads ==
  ASSUME NEW V, NEW old \in Seq(V), NEW reader, ReadsOf(reader, Len(old), V),
         NEW wire \in Seq(Nat), NEW Right,
         \A i \in 1 .. Len(old) : <<i, old[i]>> \in Right,
         \A i \in 1 .. Len(old) : \A w \in Seq(Nat) : <<i, reader[i][w].values>> \in Right
  PROVE  IsRight(ReadEach(reader, old, wire), Len(old), V, Right)
<1> DEFINE n == Len(old)
<1>1. PICK f : /\ ReadsEach(f, reader, old, wire, V)
               /\ ReadEach(reader, old, wire) = f[Len(old)]
  BY ReadEachIs
<1>2. n \in Nat
  OBVIOUS
<1>3. /\ \A i \in 0 .. n : f[i] \in Readings(Seq(V))
      /\ f[0] = Read(<<>>, wire, "ok")
      /\ \A i \in 1 .. n : f[i] = ReadMore(reader, old, i, f[i - 1])
  BY <1>1 DEF ReadsEach
<1> DEFINE Good == {i \in Nat : i <= n =>
             Len(f[i].values) = i /\ \A k \in 1 .. i : <<k, f[i].values[k]>> \in Right}
<1>4. 0 \in Good
  <2>1. f[0].values = <<>> /\ 1 .. 0 = {}
    BY <1>3 DEF Read
  <2> QED BY <2>1
<1>5. ASSUME NEW i \in Nat, i \in Good PROVE i + 1 \in Good
  <2> DEFINE j == i + 1
             s == f[i].values
  <2> SUFFICES ASSUME j <= n
               PROVE  Len(f[j].values) = j /\ \A k \in 1 .. j : <<k, f[j].values[k]>> \in Right
    OBVIOUS
  <2>1. /\ j \in 1 .. n /\ j - 1 = i /\ i \in 0 .. n
        /\ \A k \in 1 .. j : k \in 1 .. i \/ k = j
    BY <1>2
  <2>2. f[i] \in Readings(Seq(V)) /\ s \in Seq(V) /\ f[i].wire \in Seq(Nat)
    BY <1>3, <2>1 DEF Readings
  <2>3. Len(s) = i /\ \A k \in 1 .. i : <<k, s[k]>> \in Right
    BY <1>5, <2>1
  <2>4. f[j] = ReadMore(reader, old, j, f[i])
    <3> HIDE DEF j
    <3> QED BY <1>3, <2>1
  <2> HIDE DEF s
  <2>50. \A q \in Readings(Seq(V)) :
        /\ CanGoOn(q) =>
             /\ ReadMore(reader, old, j, q).values = Append(q.values, reader[j][q.wire].values)
             /\ ReadMore(reader, old, j, q).wire = reader[j][q.wire].wire
             /\ CanGoOn(reader[j][q.wire]) => CanGoOn(ReadMore(reader, old, j, q))
        /\ ~CanGoOn(q) => ReadMore(reader, old, j, q).values = Append(q.values, old[j])
    <3> HIDE DEF j
    <3> QED BY <2>1, ReadMoreReads
  <2>5. \E x \in V : f[j].values = Append(s, x) /\ <<j, x>> \in Right
    <3>1. CASE CanGoOn(f[i])
      <4> DEFINE x == reader[j][f[i].wire].values
      <4>1. f[j].values = Append(s, x)
        <5> HIDE DEF j
        <5> QED BY <2>2, <2>4, <2>50, <3>1, Zenon DEF s
      <4>2. x \in V /\ <<j, x>> \in Right
        BY <2>1, <2>2 DEF ReadsOf, Readings
      <4> HIDE DEF x, j
      <4> QED BY <4>1, <4>2
    <3>2. CASE ~CanGoOn(f[i])
      <4>1. f[j].values = Append(s, old[j])
        <5> HIDE DEF j
        <5> QED BY <2>2, <2>4, <2>50, <3>2, Zenon DEF s
      <4> HIDE DEF j
      <4> QED BY <2>1, <4>1
    <3> QED BY <3>1, <3>2
  <2> HIDE DEF j
  <2>6. PICK x \in V : f[j].values = Append(s, x) /\ <<j, x>> \in Right
    BY <2>5
  <2>7. /\ Len(Append(s, x)) = j /\ Append(s, x)[j] = x
        /\ \A k \in 1 .. i : Append(s, x)[k] = s[k]
    <3>1. j = i + 1
      BY <2>1
    <3> QED BY <2>2, <2>3, <3>1, AppendProperties
  <2> QED BY <2>1, <2>3, <2>6, <2>7
<1>6. n \in Good
  <2> HIDE DEF Good
  <2> QED BY <1>2, <1>4, <1>5, NumbersInduction
<1>7. /\ f[n] \in Readings(Seq(V)) /\ Len(f[n].values) = n
      /\ \A k \in 1 .. n : <<k, f[n].values[k]>> \in Right
  BY <1>2, <1>3, <1>6
<1> QED BY <1>1, <1>7 DEF IsRight

\* The reader of each of n values, given the part that is meant for it, reads one that is
\* right and leaves what comes after the part.
ReadsParts(reader, n, parts, Right) ==
  \A i \in 1 .. n : \A w \in Seq(Nat) :
    LET r == reader[i][parts[i] \o w]
    IN  CanGoOn(r) /\ r.wire = w /\ <<i, r.values>> \in Right

\* Of the parts that are put together all is read, and what comes after them is left.
LEMMA ReadEachReadsBack ==
  ASSUME NEW V, NEW old \in Seq(V), NEW reader, ReadsOf(reader, Len(old), V),
         NEW parts \in [1 .. Len(old) -> Seq(Nat)], NEW rest \in Seq(Nat), NEW Right,
         ReadsParts(reader, Len(old), parts, Right)
  PROVE  LET r == ReadEach(reader, old, FlattenSeq(parts) \o rest)
         IN  CanGoOn(r) /\ r.wire = rest /\ IsRight(r, Len(old), V, Right)
<1> DEFINE n == Len(old)
           wire == FlattenSeq(parts) \o rest
<1>1. n \in Nat
  OBVIOUS
<1>2. PICK after : FollowsFrom(after, n, parts, rest) /\ wire = after[0]
  BY <1>1, FlattenFollows
<1>3. wire \in Seq(Nat)
  <2>1. FlattenSeq(parts) \in Seq(Nat)
    BY <1>1, FlattenFollows
  <2> QED BY <2>1
<1> HIDE DEF wire
<1>4. PICK f : /\ ReadsEach(f, reader, old, wire, V)
               /\ ReadEach(reader, old, wire) = f[Len(old)]
  BY <1>3, ReadEachIs
<1>5. /\ \A i \in 0 .. n : f[i] \in Readings(Seq(V))
      /\ f[0] = Read(<<>>, wire, "ok")
      /\ \A i \in 1 .. n : f[i] = ReadMore(reader, old, i, f[i - 1])
  BY <1>4 DEF ReadsEach
<1> DEFINE Good == {i \in Nat : i <= n =>
             /\ CanGoOn(f[i]) /\ f[i].wire = after[i]
             /\ Len(f[i].values) = i /\ \A k \in 1 .. i : <<k, f[i].values[k]>> \in Right}
<1>6. 0 \in Good
  <2>1. f[0].values = <<>> /\ f[0].wire = wire /\ f[0].status = "ok" /\ 1 .. 0 = {}
    BY <1>5 DEF Read
  <2> QED BY <1>2, <2>1 DEF CanGoOn
<1>7. ASSUME NEW i \in Nat, i \in Good PROVE i + 1 \in Good
  <2> DEFINE j == i + 1
             s == f[i].values
             next == reader[j][f[i].wire]
             x == next.values
  <2> SUFFICES ASSUME j <= n
               PROVE  /\ CanGoOn(f[j]) /\ f[j].wire = after[j]
                      /\ Len(f[j].values) = j /\ \A k \in 1 .. j : <<k, f[j].values[k]>> \in Right
    OBVIOUS
  <2>1. /\ j \in 1 .. n /\ j \in 0 .. n /\ j - 1 = i /\ i \in 0 .. n /\ j = i + 1
        /\ \A k \in 1 .. j : k \in 1 .. i \/ k = j
    BY <1>1
  <2>2. f[i] \in Readings(Seq(V)) /\ s \in Seq(V)
    BY <1>5, <2>1 DEF Readings
  <2>3. /\ CanGoOn(f[i]) /\ f[i].wire = after[i]
        /\ Len(s) = i /\ \A k \in 1 .. i : <<k, s[k]>> \in Right
    BY <1>7, <2>1
  <2> HIDE DEF j
  <2>4. f[j] = ReadMore(reader, old, j, f[i])
    BY <1>5, <2>1
  <2>5. after[i] = parts[j] \o after[j] /\ after[j] \in Seq(Nat)
    BY <1>2, <2>1 DEF FollowsFrom
  <2>6. CanGoOn(next) /\ next.wire = after[j] /\ <<j, x>> \in Right
    <3>1. f[i].wire = parts[j] \o after[j]
      BY <2>3, <2>5
    <3> QED BY <2>1, <2>5, <3>1, Zenon DEF ReadsParts
  <2>7. x \in V
    <3>1. f[i].wire \in Seq(Nat)
      BY <2>2 DEF Readings
    <3> QED BY <2>1, <3>1 DEF ReadsOf, Readings
  <2> HIDE DEF s, x
  <2>50. \A q \in Readings(Seq(V)) :
        /\ CanGoOn(q) =>
             /\ ReadMore(reader, old, j, q).values = Append(q.values, reader[j][q.wire].values)
             /\ ReadMore(reader, old, j, q).wire = reader[j][q.wire].wire
             /\ CanGoOn(reader[j][q.wire]) => CanGoOn(ReadMore(reader, old, j, q))
        /\ ~CanGoOn(q) => ReadMore(reader, old, j, q).values = Append(q.values, old[j])
    BY <2>1, ReadMoreReads
  <2>8. CanGoOn(f[j]) /\ f[j].wire = next.wire /\ f[j].values = Append(s, x)
    BY <2>2, <2>3, <2>4, <2>6, <2>50, Zenon DEF s, x
  <2>9. /\ Len(Append(s, x)) = j /\ Append(s, x)[j] = x
        /\ \A k \in 1 .. i : Append(s, x)[k] = s[k]
    BY <2>1, <2>2, <2>3, <2>7, AppendProperties
  <2> QED BY <2>1, <2>3, <2>6, <2>8, <2>9
<1>8. n \in Good
  <2> HIDE DEF Good
  <2> QED BY <1>1, <1>6, <1>7, NumbersInduction
<1>9. /\ f[n] \in Readings(Seq(V)) /\ Len(f[n].values) = n
      /\ CanGoOn(f[n]) /\ f[n].wire = after[n]
      /\ \A k \in 1 .. n : <<k, f[n].values[k]>> \in Right
  BY <1>1, <1>5, <1>8
<1>10. after[n] = rest
  BY <1>2 DEF FollowsFrom
<1> QED BY <1>4, <1>9, <1>10 DEF wire, IsRight

-----------------------------------------------------------------------------
(* Deserializing.                                                           *)

\* What is taken from a wire, and what is left of it.
LEMMA WireParts ==
  ASSUME NEW wire \in Seq(Nat), NEW n \in Nat
  PROVE  /\ At(wire, n + 1) \in Nat
         /\ Take(n, wire) \in Seq(Nat) /\ Len(Take(n, wire)) = n
         /\ \A k \in 1 .. n : Take(n, wire)[k] = At(wire, k)
         /\ Drop(n, wire) \in Seq(Nat)
<1>1. \A k \in Nat \ {0} : At(wire, k) \in Nat
  BY DEF At, Zero
<1>2. /\ Take(n, wire) \in Seq(Nat) /\ Len(Take(n, wire)) = n
      /\ \A k \in 1 .. n : Take(n, wire)[k] = At(wire, k)
  <2>1. \A k \in 1 .. n : At(wire, k) \in Nat
    BY <1>1
  <2> HIDE DEF At
  <2> QED BY <2>1 DEF Take
<1>3. Drop(n, wire) \in Seq(Nat)
  BY DEF Drop
<1> QED BY <1>1, <1>2, <1>3

\* What pop_sequence_size gives of a wire.
LEMMA PopIs ==
  ASSUME NEW wire \in Seq(Nat)
  PROVE  PoppedSize(wire) \in Nat /\ AfterSize(wire) \in Seq(Nat)
<1>1. At(wire, 1 + 1) \in Nat /\ Drop(2, wire) \in Seq(Nat)
  BY WireParts
<1> QED BY <1>1 DEF PoppedSize, AfterSize

\* What deserializes into the messages of a type.
Decoders ==
  [t \in DOMAIN Types |->
     [Languages -> [Messages[t] -> [Seq(Nat) -> Readings(Messages[t])]]]]

\* A reading has a value, a wire and a status.
LEMMA ReadIs ==
  ASSUME NEW V, NEW v, NEW wire, NEW status
  PROVE  /\ Read(v, wire, status).values = v /\ Read(v, wire, status).wire = wire
         /\ Read(v, wire, status).status = status
         /\ v \in V /\ wire \in Seq(Nat) /\ status \in Statuses =>
              Read(v, wire, status) \in Readings(V)
BY DEF Read, Readings

\* Deserializing a string gives a string, read or left as it was.
LEMMA DeserializeStringIs ==
  ASSUME NEW l \in Languages, NEW old \in Seq(Nat), NEW wire \in Seq(Nat)
  PROVE  DeserializeString(l, old, wire) \in Readings(Seq(Nat))
<1> DEFINE n == PoppedSize(wire)
           w == AfterSize(wire)
           v == IF l = "CPP" /\ n = 0 THEN old ELSE Take(n, w)
<1>1. n \in Nat /\ w \in Seq(Nat)
  BY PopIs
<1>2. Take(n, w) \in Seq(Nat) /\ Drop(n, w) \in Seq(Nat)
  <2> HIDE DEF n, w
  <2> QED BY <1>1, WireParts
<1>3. v \in Seq(Nat)
  BY <1>2
<1>4. DeserializeString(l, old, wire) =
        IF PopFails(wire) THEN Read(old, wire, "thrown") ELSE Read(v, Drop(n, w), "ok")
  BY DEF DeserializeString
<1>5. Read(old, wire, "thrown") \in Readings(Seq(Nat))
  BY ReadIs DEF Statuses
<1>6. Read(v, Drop(n, w), "ok") \in Readings(Seq(Nat))
  <2> HIDE DEF v, n, w
  <2> QED BY <1>2, <1>3, ReadIs DEF Statuses
<1> QED BY <1>4, <1>5, <1>6

\* Deserializing an element gives an element of the same member.
LEMMA DeserializeElementIs ==
  ASSUME NEW t \in DOMAIN Types, NEW m \in ToSet(Types[t].members), NEW l \in Languages,
         NEW nested, is_complex_type(m) => nested[m.members] \in Decoders[m.members],
         NEW old \in Elements(Messages, m), NEW wire \in Seq(Nat)
  PROVE  DeserializeElement(nested, l, m, old, wire) \in Readings(Elements(Messages, m))
<1>1. m.type_id \in TypeIds
  BY MemberCases
<1>2. CASE m.type_id = "PRIMITIVE"
  <2>1. DeserializeElement(nested, l, m, old, wire) = Read(At(wire, 1), Drop(1, wire), "ok")
    BY <1>2 DEF DeserializeElement
  <2>2. At(wire, 0 + 1) \in Nat /\ Drop(1, wire) \in Seq(Nat)
    BY WireParts
  <2>3. At(wire, 1) \in Nat
    BY <2>2
  <2>4. Elements(Messages, m) = Nat
    BY <1>2, MemberCases
  <2> QED BY <2>1, <2>2, <2>3, <2>4, ReadIs DEF Statuses
<1>3. CASE is_complex_type(m)
  <2>1. m.members \in DOMAIN Types /\ Elements(Messages, m) = Messages[m.members]
    BY <1>3, MemberCases
  <2>2. DeserializeElement(nested, l, m, old, wire) = nested[m.members][l][old][wire]
    BY <1>3 DEF DeserializeElement, is_complex_type
  <2> DEFINE M == Messages[m.members]
             d == nested[m.members]
  <2>3. d \in [Languages -> [M -> [Seq(Nat) -> Readings(M)]]]
    BY <1>3, <2>1 DEF Decoders
  <2>4. old \in M
    BY <2>1
  <2> HIDE DEF M, d
  <2>5. d[l][old][wire] \in Readings(M)
    BY <2>3, <2>4
  <2> QED BY <2>1, <2>2, <2>5 DEF M, d
<1>4. CASE m.type_id \in {"STRING", "WSTRING"}
  <2>1. DeserializeElement(nested, l, m, old, wire) = DeserializeString(l, old, wire)
    BY <1>4 DEF DeserializeElement
  <2>2. Elements(Messages, m) = Seq(Nat)
    BY <1>4, MemberCases
  <2> QED BY <2>1, <2>2, DeserializeStringIs
<1> QED BY <1>1, <1>2, <1>3, <1>4 DEF TypeIds, is_complex_type

\* The reader of the elements of a field.
ElementReader(nested, l, m, slots) ==
  [i \in DOMAIN slots |-> [w \in Seq(Nat) |-> DeserializeElement(nested, l, m, slots[i], w)]]

\* It reads an element for each slot.
LEMMA ElementReaderReads ==
  ASSUME NEW t \in DOMAIN Types, NEW m \in ToSet(Types[t].members), NEW l \in Languages,
         NEW nested, is_complex_type(m) => nested[m.members] \in Decoders[m.members],
         NEW slots \in Seq(Elements(Messages, m))
  PROVE  ReadsOf(ElementReader(nested, l, m, slots), Len(slots), Elements(Messages, m))
<1> DEFINE E == Elements(Messages, m)
           reader == ElementReader(nested, l, m, slots)
<1>1. ASSUME NEW i \in 1 .. Len(slots), NEW w \in Seq(Nat)
      PROVE  reader[i][w] \in Readings(E)
  <2> DEFINE old == slots[i]
  <2>1. old \in E
    OBVIOUS
  <2>2. reader[i][w] = DeserializeElement(nested, l, m, old, w)
    BY DEF ElementReader
  <2> HIDE DEF old, reader
  <2>3. DeserializeElement(nested, l, m, old, w) \in Readings(E)
    BY <2>1, DeserializeElementIs
  <2> QED BY <2>2, <2>3
<1> HIDE DEF E, reader
<1>2. ReadsOf(reader, Len(slots), E)
  BY <1>1 DEF ReadsOf
<1> QED BY <1>2 DEF E, reader

\* What is read is n values of the kind.
ReadsAll(r, n, V) == r \in Readings(Seq(V)) /\ Len(r.values) = n

\* The elements that are read are as many as there are slots.
LEMMA DeserializeElementsIs ==
  ASSUME NEW t \in DOMAIN Types, NEW m \in ToSet(Types[t].members), NEW l \in Languages,
         NEW nested, is_complex_type(m) => nested[m.members] \in Decoders[m.members],
         NEW slots \in Seq(Elements(Messages, m)), NEW wire \in Seq(Nat)
  PROVE  ReadsAll(DeserializeElements(nested, l, m, slots, wire), Len(slots), Elements(Messages, m))
<1> DEFINE E == Elements(Messages, m)
           reader == ElementReader(nested, l, m, slots)
           Right == (1 .. Len(slots)) \X E
           r == ReadEach(reader, slots, wire)
<1>1. ReadsOf(reader, Len(slots), E)
  BY ElementReaderReads
<1>2. DeserializeElements(nested, l, m, slots, wire) = r
  BY DEF DeserializeElements, ElementReader
<1> HIDE DEF E, reader
<1>3. \A i \in 1 .. Len(slots) : <<i, slots[i]>> \in Right
  BY DEF E
<1>4. \A i \in 1 .. Len(slots) : \A w \in Seq(Nat) : <<i, reader[i][w].values>> \in Right
  BY <1>1 DEF ReadsOf, Readings
<1>5. slots \in Seq(E)
  BY DEF E
<1> HIDE DEF Right
<1>6. r \in Readings(Seq(E)) /\ Len(r.values) = Len(slots)
  <2>1. IsRight(r, Len(slots), E, Right)
    BY <1>1, <1>3, <1>4, <1>5, ReadEachReads
  <2> QED BY <2>1, Zenon DEF IsRight
<1> QED BY <1>2, <1>6 DEF E, ReadsAll

\* The slots are those of a vector resized to n: the elements that it had, and new ones.
IsResized(E, field, n, element, slots) ==
  /\ slots \in Seq(E) /\ Len(slots) = n
  /\ \A k \in 1 .. n : slots[k] = IF k <= Len(field) THEN field[k] ELSE element

\* Resizing a vector does that.
LEMMA ResizeIs ==
  ASSUME NEW E, NEW field \in Seq(E), NEW n \in Nat, NEW element \in E
  PROVE  IsResized(E, field, n, element, Resize(field, n, element))
BY DEF Resize, IsResized

\* A status that is made worse is a status.
LEMMA WorseIs ==
  ASSUME NEW first \in Statuses, NEW second \in Statuses
  PROVE  /\ Worse(first, second) \in Statuses
         /\ first \in {"ok", "moved"} /\ second \in {"ok", "moved"} =>
              Worse(first, second) \in {"ok", "moved"}
BY DEF Worse

\* The messages of a sequence are read over those that are there.
LEMMA DeserializeMessagesIs ==
  ASSUME ValuesAreClosed,
         NEW t \in DOMAIN Types, NEW m \in ToSet(Types[t].members), NEW l \in Languages,
         NEW nested, is_complex_type(m), nested[m.members] \in Decoders[m.members],
         NEW field \in Seq(Elements(Messages, m)), NEW n \in Nat, NEW wire \in Seq(Nat)
  PROVE  DeserializeMessages(nested, l, m, field, n, wire)
           \in Readings(Seq(Elements(Messages, m)))
<1> DEFINE E == Elements(Messages, m)
           element == InitElement(ZeroMessage, m)
<1>1. element \in E
  <2>1. m.members \in DOMAIN Types
    BY MemberCases
  <2>2. ZeroMessage[m.members] \in Messages[m.members]
    BY <2>1, ZeroMessageHas
  <2> QED BY <2>2, InitFieldIsField
<1>2. CASE l = "CPP"
  <2> DEFINE slots == Resize(field, n, element)
             r == DeserializeElements(nested, l, m, slots, wire)
             status == Worse(IF Moves(m, field, n) THEN "moved" ELSE "ok", r.status)
  <2>1. slots \in Seq(E)
    <3> HIDE DEF element, E
    <3> QED BY <1>1, ResizeIs DEF E, IsResized
  <2>2. r \in Readings(Seq(E))
    <3> HIDE DEF slots
    <3> QED BY <2>1, DeserializeElementsIs DEF ReadsAll
  <2>3. DeserializeMessages(nested, l, m, field, n, wire) = [r EXCEPT !.status = status]
    BY <1>2 DEF DeserializeMessages
  <2>4. status \in Statuses
    <3>1. r.status \in Statuses
      BY <2>2 DEF Readings
    <3>2. (IF Moves(m, field, n) THEN "moved" ELSE "ok") \in Statuses
      BY DEF Statuses
    <3> HIDE DEF r
    <3> QED BY <3>1, <3>2, WorseIs
  <2> HIDE DEF r, status, E
  <2>5. [r EXCEPT !.status = status] \in Readings(Seq(E))
    BY <2>2, <2>4 DEF Readings
  <2> QED BY <2>3, <2>5 DEF E
<1>3. CASE l = "C" /\ n <= Len(field)
  <2> DEFINE slots == SubSeq(field, 1, n)
             r == DeserializeElements(nested, l, m, slots, wire)
             values == r.values \o Drop(n, field)
  <2>1. slots \in Seq(E) /\ Drop(n, field) \in Seq(E)
    BY <1>3 DEF Drop
  <2>2. r \in Readings(Seq(E))
    <3> HIDE DEF slots
    <3> QED BY <2>1, DeserializeElementsIs DEF ReadsAll
  <2>3. DeserializeMessages(nested, l, m, field, n, wire) = [r EXCEPT !.values = values]
    BY <1>3 DEF DeserializeMessages
  <2>4. values \in Seq(E)
    <3>1. r.values \in Seq(E)
      BY <2>2 DEF Readings
    <3> HIDE DEF r, E
    <3> QED BY <2>1, <3>1, ConcatProperties
  <2> HIDE DEF r, values, E
  <2>5. [r EXCEPT !.values = values] \in Readings(Seq(E))
    BY <2>2, <2>4 DEF Readings
  <2> QED BY <2>3, <2>5 DEF E
<1>4. CASE l = "C" /\ n > Len(field)
  <2>1. DeserializeMessages(nested, l, m, field, n, wire) = Read(field, wire, "fault")
    BY <1>4 DEF DeserializeMessages
  <2> QED BY <2>1, ReadIs DEF Statuses
<1>5. Len(field) \in Nat
  OBVIOUS
<1> QED BY <1>2, <1>3, <1>4, <1>5 DEF Languages

\* A field is read, or is as it was, or is partly read.
LEMMA DeserializeFieldIs ==
  ASSUME ValuesAreClosed,
         NEW t \in DOMAIN Types, NEW m \in ToSet(Types[t].members), NEW l \in Languages,
         NEW nested, is_complex_type(m) => nested[m.members] \in Decoders[m.members],
         NEW field \in Fields(Messages, m), NEW wire \in Seq(Nat)
  PROVE  DeserializeField(nested, l, m, field, wire) \in Readings(Fields(Messages, m))
<1> DEFINE E == Elements(Messages, m)
           F == Fields(Messages, m)
           n == PoppedSize(wire)
           w == AfterSize(wire)
           d == DeserializeField(nested, l, m, field, wire)
<1>1. /\ field \in Seq(E) /\ m.is_array \in BOOLEAN /\ m.array_size \in Nat
      /\ ~m.is_array => Len(field) = 1
      /\ IsFixedArray(m) => Len(field) = m.array_size
  BY FieldsAre, MemberCases
<1>2. n \in Nat /\ w \in Seq(Nat)
  BY PopIs
<1>3. CASE ~IsKnown(l, m)
  <2>1. d = Read(field, wire, "thrown")
    BY <1>3 DEF DeserializeField
  <2>2. Read(field, wire, "thrown") \in Readings(F)
    BY ReadIs DEF Statuses
  <2> QED BY <2>1, <2>2
<1>4. CASE IsKnown(l, m) /\ ~IsSequence(m)
  <2> DEFINE r == DeserializeElements(nested, l, m, field, wire)
  <2>1. d = r
    BY <1>4 DEF DeserializeField
  <2>2. r \in Readings(Seq(E)) /\ Len(r.values) = Len(field)
    <3>1. field \in Seq(Elements(Messages, m))
      BY <1>1
    <3>2. ReadsAll(DeserializeElements(nested, l, m, field, wire), Len(field), Elements(Messages, m))
      BY <3>1, DeserializeElementsIs
    <3> QED BY <3>2 DEF ReadsAll
  <2> HIDE DEF r, d
  <2>3. r.values \in F
    <3> DEFINE v == r.values
    <3>1. v \in Seq(E) /\ Len(v) = Len(field)
      BY <2>2 DEF Readings
    <3> HIDE DEF v
    <3>2. v \in Fields(Messages, m)
      BY <1>1, <3>1, FieldsAre
    <3> QED BY <3>2 DEF v
  <2>4. r \in Readings(F)
    BY <2>2, <2>3 DEF Readings
  <2> QED BY <2>1, <2>4 DEF d
<1>5. CASE IsKnown(l, m) /\ IsSequence(m)
  <2>1. F = Seq(E)
    <3>1. m.is_array /\ ~IsFixedArray(m)
      BY <1>5 DEF IsSequence
    <3> QED BY <3>1 DEF Fields, IsFixedArray
  <2>2. d = DeserializeSequence(nested, l, m, field, wire)
    BY <1>5 DEF DeserializeField
  <2> HIDE DEF d
  <2>3. CASE PopFails(wire)
    <3>1. d = Read(field, wire, "thrown")
      BY <2>2, <2>3 DEF DeserializeSequence
    <3>2. Read(field, wire, "thrown") \in Readings(F)
      BY ReadIs DEF Statuses
    <3> QED BY <3>1, <3>2 DEF d
  <2>4. CASE ~PopFails(wire) /\ is_complex_type(m)
    <3>1. d = DeserializeMessages(nested, l, m, field, n, w)
      BY <2>2, <2>4 DEF DeserializeSequence
    <3> HIDE DEF n, w
    <3>2. DeserializeMessages(nested, l, m, field, n, w) \in Readings(Seq(E))
      BY <1>1, <1>2, <2>4, DeserializeMessagesIs
    <3> QED BY <2>1, <3>1, <3>2 DEF d
  <2>5. CASE ~PopFails(wire) /\ ~is_complex_type(m) /\ n = 0
    <3>1. d = Read(field, w, "ok")
      BY <2>2, <2>5 DEF DeserializeSequence
    <3> HIDE DEF w
    <3>2. Read(field, w, "ok") \in Readings(F)
      BY <1>2, ReadIs DEF Statuses
    <3> QED BY <3>1, <3>2 DEF d
  <2>6. CASE ~PopFails(wire) /\ ~is_complex_type(m) /\ n > 0
    <3> DEFINE from == IF l = "CPP" THEN field ELSE <<>>
               element == InitElement(ZeroMessage, m)
               slots == Resize(from, n, element)
               r == DeserializeElements(nested, l, m, slots, w)
    <3>1. d = r
      BY <2>2, <2>6 DEF DeserializeSequence, Slots
    <3>2. element \in E
      BY <2>6, InitFieldIsField
    <3>3. from \in Seq(E)
      <4>1. <<>> \in Seq(E)
        OBVIOUS
      <4> QED BY <1>1, <4>1
    <3>4. slots \in Seq(E)
      <4> HIDE DEF from, element, n, E
      <4> QED BY <1>2, <3>2, <3>3, ResizeIs DEF IsResized
    <3>5. r \in Readings(Seq(E))
      <4> HIDE DEF slots, w
      <4> QED BY <1>2, <3>4, DeserializeElementsIs DEF ReadsAll
    <3> QED BY <2>1, <3>1, <3>5 DEF d
  <2> QED BY <1>2, <2>3, <2>4, <2>5, <2>6
<1> QED BY <1>3, <1>4, <1>5

\* The reader of the fields of a message.
FieldReader(nested, l, ms, old) ==
  [i \in DOMAIN ms |-> [w \in Seq(Nat) |-> DeserializeField(nested, l, ms[i], old[i], w)]]

\* What reads the types of the members of t.
ReadsMembers(nested, t) ==
  \A m \in ToSet(Types[t].members) : is_complex_type(m) => nested[m.members] \in Decoders[m.members]

\* It reads a field for each member.
LEMMA FieldReaderReads ==
  ASSUME ValuesAreClosed, NEW t \in DOMAIN Types, NEW l \in Languages,
         NEW nested, ReadsMembers(nested, t), NEW old \in Messages[t]
  PROVE  \A i \in 1 .. Len(old) : \A w \in Seq(Nat) :
           FieldReader(nested, l, Types[t].members, old)[i][w]
             \in Readings(Fields(Messages, Types[t].members[i]))
<1> DEFINE ms == Types[t].members
<1> SUFFICES ASSUME NEW i \in 1 .. Len(old), NEW w \in Seq(Nat)
             PROVE  FieldReader(nested, l, ms, old)[i][w] \in Readings(Fields(Messages, ms[i]))
  OBVIOUS
<1> DEFINE m == ms[i]
           f == old[i]
<1>1. m \in ToSet(Types[t].members) /\ i \in DOMAIN ms /\ f \in Fields(Messages, m)
  BY MessagesHaveFields, MembersAreMembers
<1>2. FieldReader(nested, l, ms, old)[i][w] = DeserializeField(nested, l, m, f, w)
  <2> HIDE DEF ms
  <2>1. i \in DOMAIN ms
    BY <1>1
  <2> QED BY <2>1 DEF FieldReader
<1> HIDE DEF m, f, ms
<1>3. is_complex_type(m) => nested[m.members] \in Decoders[m.members]
  BY <1>1 DEF ReadsMembers
<1>4. DeserializeField(nested, l, m, f, w) \in Readings(Fields(Messages, m))
  BY <1>1, <1>3, DeserializeFieldIs
<1> QED BY <1>2, <1>4 DEF m, ms

\* As many fields as there are members make a message.
LEMMA FieldsMakeMessages ==
  ASSUME NEW t \in DOMAIN Types, NEW n, n = Len(Types[t].members), NEW s \in Seq(Values), Len(s) = n,
         \A i \in 1 .. n : s[i] \in Fields(Messages, Types[t].members[i])
  PROVE  s \in Messages[t]
BY MessagesHaveFields

\* Deserializing fields one after the other gives a message of the type.
LEMMA DeserializeFieldsIs ==
  ASSUME ValuesAreClosed, NEW t \in DOMAIN Types, NEW l \in Languages,
         NEW nested, ReadsMembers(nested, t), NEW old \in Messages[t], NEW wire \in Seq(Nat)
  PROVE  DeserializeFields(nested, l, Types[t].members, old, wire) \in Readings(Messages[t])
<1> DEFINE ms == Types[t].members
           n == Len(old)
           F(i) == Fields(Messages, ms[i])
           reader == FieldReader(nested, l, ms, old)
           Right == {p \in (1 .. n) \X Values : p[2] \in F(p[1])}
           r == ReadEach(reader, old, wire)
<1>1. /\ old \in Seq(Values) /\ n = Len(ms)
      /\ \A i \in 1 .. n : old[i] \in F(i)
  BY MessagesHaveFields
<1>2. \A i \in 1 .. n : F(i) \subseteq Values
  <2> SUFFICES ASSUME NEW i \in 1 .. n PROVE F(i) \subseteq Values
    OBVIOUS
  <2> DEFINE m == ms[i]
  <2>1. m \in ToSet(Types[t].members)
    BY <1>1, MembersAreMembers
  <2> HIDE DEF m
  <2>2. Fields(Messages, m) \subseteq Values
    BY <2>1, FieldsAreValues
  <2> QED BY <2>2 DEF m
<1>3. \A i \in 1 .. n : \A w \in Seq(Nat) : reader[i][w] \in Readings(F(i))
  BY FieldReaderReads
<1>4. DeserializeFields(nested, l, ms, old, wire) = r
  BY DEF DeserializeFields, FieldReader
<1> HIDE DEF reader, F, ms
<1>5. \A i \in 1 .. n : \A w \in Seq(Nat) :
        /\ reader[i][w] \in Readings(Values)
        /\ reader[i][w].values \in F(i)
  BY <1>2, <1>3 DEF Readings
<1>6. ReadsOf(reader, n, Values)
  BY <1>5 DEF ReadsOf
<1>7. \A i \in 1 .. n : <<i, old[i]>> \in Right
  BY <1>1, <1>2
<1>8. \A i \in 1 .. n : \A w \in Seq(Nat) : <<i, reader[i][w].values>> \in Right
  <2>1. \A i \in 1 .. n : \A w \in Seq(Nat) : reader[i][w].values \in Values
    BY <1>2, <1>5
  <2> QED BY <1>5, <2>1
<1>9. \A i, x : <<i, x>> \in Right => x \in F(i)
  OBVIOUS
<1> HIDE DEF Right
<1>10. IsRight(r, n, Values, Right)
  BY <1>1, <1>6, <1>7, <1>8, ReadEachReads
<1>11. /\ r \in Readings(Seq(Values)) /\ Len(r.values) = n
       /\ \A i \in 1 .. n : r.values[i] \in F(i)
  BY <1>9, <1>10, Zenon DEF IsRight
<1>12. r.values \in Messages[t]
  <2> DEFINE s == r.values
  <2>1. s \in Seq(Values) /\ Len(s) = n /\ \A i \in 1 .. n : s[i] \in F(i)
    BY <1>11 DEF Readings
  <2> HIDE DEF s, n
  <2>2. s \in Messages[t]
    BY <1>1, <2>1, FieldsMakeMessages DEF ms, F
  <2> QED BY <2>2 DEF s
<1>13. r \in Readings(Messages[t])
  BY <1>11, <1>12 DEF Readings
<1> QED BY <1>4, <1>13 DEF ms

\* What deserializes the messages of t, if `nested' does those of its subtypes.
DeserializeOf(t, nested) ==
  [language \in Languages |-> [old \in Messages[t] |-> [wire \in Seq(Nat) |->
     DeserializeFields(nested, language, Types[t].members, old, wire)]]]

\* A type's deserializer is a decoder if those of its subtypes are.
LEMMA DeserializeIsDecoder ==
  ASSUME ValuesAreClosed, NEW t \in DOMAIN Types, NEW nested \in Below(Subtypes, Decoders, t)
  PROVE  DeserializeOf(t, nested) \in Decoders[t]
<1>1. ReadsMembers(nested, t)
  BY MembersAreMembers DEF Below, ReadsMembers
<1>2. ASSUME NEW l \in Languages, NEW old \in Messages[t], NEW wire \in Seq(Nat)
      PROVE  DeserializeFields(nested, l, Types[t].members, old, wire) \in Readings(Messages[t])
  BY <1>1, DeserializeFieldsIs
<1>3. DeserializeOf(t, nested) \in
        [Languages -> [Messages[t] -> [Seq(Nat) -> Readings(Messages[t])]]]
  BY <1>2 DEF DeserializeOf
<1> QED BY <1>3 DEF Decoders

\* Deserialize is what its definition says.
LEMMA DeserializeIsDefined ==
  ASSUME ValuesAreClosed
  PROVE  Deserialize =
           [t \in DOMAIN Types |-> DeserializeOf(t, [u \in Subtypes[t] |-> Deserialize[u]])]
<1> DEFINE Equation(f) ==
             f = [t \in DOMAIN Types |-> DeserializeOf(t, [u \in Subtypes[t] |-> f[u]])]
           G == [t \in DOMAIN Types |->
                  [p \in Below(Subtypes, Decoders, t) |-> DeserializeOf(t, p)]]
<1>1. \A t \in DOMAIN Types : \A p \in Below(Subtypes, Decoders, t) : G[t][p] \in Decoders[t]
  BY DeserializeIsDecoder
<1>2. PICK f : IsDefinedBy(DOMAIN Types, Subtypes, G, Decoders, f)
  <2> HIDE DEF G
  <2> QED BY <1>1, SubtypesAreTypes, RecursionIsDefined
<1>3. ASSUME NEW t \in DOMAIN Types
      PROVE  f[t] = DeserializeOf(t, [u \in Subtypes[t] |-> f[u]])
  <2> DEFINE p == [u \in Subtypes[t] |-> f[u]]
  <2>1. p \in Below(Subtypes, Decoders, t) /\ f[t] = G[t][p]
    BY <1>2, Zenon DEF IsDefinedBy
  <2> HIDE DEF p
  <2>2. f[t] = DeserializeOf(t, p)
    BY <2>1
  <2> QED BY <2>2 DEF p
<1>4. Equation(f)
  BY <1>2, <1>3, Zenon DEF IsDefinedBy
<1>5. Deserialize = CHOOSE g : Equation(g)
  BY Zenon DEF Deserialize, DeserializeOf
<1> HIDE DEF Equation
<1>6. Equation(Deserialize)
  BY <1>4, <1>5, Zenon
<1> QED BY <1>6 DEF Equation

\* Two functions are the same for the messages in a field.
AgreeOn(m, f, g) == is_complex_type(m) => f[m.members] = g[m.members]

\* What reads the messages in a field is all that its readers look at.
LEMMA DeserializeFieldOf ==
  ASSUME NEW m, NEW l \in Languages, NEW f, NEW g, AgreeOn(m, f, g), NEW old, NEW wire
  PROVE  DeserializeField(f, l, m, old, wire) = DeserializeField(g, l, m, old, wire)
<1>1. \A e, w : DeserializeElement(f, l, m, e, w) = DeserializeElement(g, l, m, e, w)
  BY DEF AgreeOn, DeserializeElement, is_complex_type
<1>2. \A slots, w : DeserializeElements(f, l, m, slots, w) = DeserializeElements(g, l, m, slots, w)
  <2> TAKE slots, w
  <2>1. \A i \in DOMAIN slots : [x \in Seq(Nat) |-> DeserializeElement(f, l, m, slots[i], x)]
                              = [x \in Seq(Nat) |-> DeserializeElement(g, l, m, slots[i], x)]
    BY <1>1, Zenon
  <2>2. [i \in DOMAIN slots |-> [x \in Seq(Nat) |-> DeserializeElement(f, l, m, slots[i], x)]]
      = [i \in DOMAIN slots |-> [x \in Seq(Nat) |-> DeserializeElement(g, l, m, slots[i], x)]]
    BY <2>1, Zenon
  <2> QED BY <2>2, Zenon DEF DeserializeElements
<1>3. \A s, n, w : DeserializeMessages(f, l, m, s, n, w) = DeserializeMessages(g, l, m, s, n, w)
  <2> TAKE s, n, w
  <2> DEFINE more == Resize(s, n, InitElement(ZeroMessage, m))
             fewer == SubSeq(s, 1, n)
  <2> HIDE DEF more, fewer
  <2>1. /\ DeserializeElements(f, l, m, more, w) = DeserializeElements(g, l, m, more, w)
        /\ DeserializeElements(f, l, m, fewer, w) = DeserializeElements(g, l, m, fewer, w)
    BY <1>2
  <2> QED BY <2>1, ZenonT(30) DEF DeserializeMessages, more, fewer
<1>4. DeserializeSequence(f, l, m, old, wire) = DeserializeSequence(g, l, m, old, wire)
  BY <1>2, <1>3, Zenon DEF DeserializeSequence
<1> QED BY <1>2, <1>4, Zenon DEF DeserializeField

\* Every message is read over one of its type, field by field.
LEMMA DeserializeIs ==
  ASSUME ValuesAreClosed, NEW t \in DOMAIN Types
  PROVE  /\ Deserialize[t] \in Decoders[t]
         /\ ReadsMembers(Deserialize, t)
         /\ \A l \in Languages, old \in Messages[t], wire \in Seq(Nat) :
              Deserialize[t][l][old][wire] =
                ReadEach(FieldReader(Deserialize, l, Types[t].members, old), old, wire)
<1>1. ASSUME NEW u \in DOMAIN Types, AreOfTypes(Subtypes[u], Deserialize, Decoders)
      PROVE  Deserialize[u] \in Decoders[u]
  <2> DEFINE p == [v \in Subtypes[u] |-> Deserialize[v]]
  <2>1. p \in Below(Subtypes, Decoders, u)
    BY <1>1 DEF Below, AreOfTypes
  <2>2. Deserialize[u] = DeserializeOf(u, p)
    BY DeserializeIsDefined, Zenon
  <2> HIDE DEF p
  <2> QED BY <2>1, <2>2, DeserializeIsDecoder
<1>2. AreOfTypes(DOMAIN Types, Deserialize, Decoders)
  BY <1>1, SubtypesAreTypes, TypesByInduction
<1>3. Deserialize[t] \in Decoders[t]
  BY <1>2 DEF AreOfTypes
<1>4. ReadsMembers(Deserialize, t)
  BY <1>2, MemberCases DEF AreOfTypes, ReadsMembers
<1>5. ASSUME NEW l \in Languages, NEW old \in Messages[t], NEW wire \in Seq(Nat)
      PROVE  Deserialize[t][l][old][wire] =
               ReadEach(FieldReader(Deserialize, l, Types[t].members, old), old, wire)
  <2> DEFINE p == [u \in Subtypes[t] |-> Deserialize[u]]
             ms == Types[t].members
  <2>1. Deserialize[t] = DeserializeOf(t, p)
    BY DeserializeIsDefined, Zenon
  <2>2. ASSUME NEW i \in DOMAIN ms, NEW w \in Seq(Nat)
        PROVE  DeserializeField(p, l, ms[i], old[i], w) =
               DeserializeField(Deserialize, l, ms[i], old[i], w)
    <3> DEFINE m == ms[i]
    <3>1. AgreeOn(m, p, Deserialize)
      BY MembersAreMembers DEF AgreeOn
    <3> HIDE DEF m, p
    <3>2. ASSUME NEW f, AgreeOn(m, p, f), NEW e
          PROVE  DeserializeField(p, l, m, e, w) = DeserializeField(f, l, m, e, w)
      BY <3>2, DeserializeFieldOf
    <3>3. \A e : DeserializeField(p, l, m, e, w) = DeserializeField(Deserialize, l, m, e, w)
      BY <3>1, <3>2
    <3> QED BY <3>3 DEF m
  <2> HIDE DEF p
  <2>3. FieldReader(p, l, ms, old) = FieldReader(Deserialize, l, ms, old)
    BY <2>2, Zenon DEF FieldReader
  <2>4. DeserializeOf(t, p)[l][old][wire] = ReadEach(FieldReader(p, l, ms, old), old, wire)
    <3>1. DeserializeOf(t, p)[l][old][wire] = DeserializeFields(p, l, ms, old, wire)
      BY DEF DeserializeOf
    <3> QED BY <3>1, Zenon DEF DeserializeFields, FieldReader
  <2> QED BY <2>1, <2>3, <2>4
<1> QED BY <1>3, <1>4, <1>5

-----------------------------------------------------------------------------
(* What reflects what was sent.                                             *)

\* The pairs of messages of t, if `nested' has those of its subtypes.
ReflectsOf(t, nested) ==
  {p \in Messages[t] \X Messages[t] :
     \A i \in DOMAIN Types[t].members :
       FieldReflects(nested, Types[t].members[i], p[1][i], p[2][i])}

\* Reflects is what its definition says.
LEMMA ReflectsIsDefined ==
  Reflects = [t \in DOMAIN Types |-> ReflectsOf(t, [u \in Subtypes[t] |-> Reflects[u]])]
<1> DEFINE Equation(f) ==
             f = [t \in DOMAIN Types |-> ReflectsOf(t, [u \in Subtypes[t] |-> f[u]])]
           T == [t \in DOMAIN Types |-> SUBSET (Messages[t] \X Messages[t])]
           G == [t \in DOMAIN Types |-> [p \in Below(Subtypes, T, t) |-> ReflectsOf(t, p)]]
<1>1. \A t \in DOMAIN Types : \A p \in Below(Subtypes, T, t) : G[t][p] \in T[t]
  <2>1. \A t, p : ReflectsOf(t, p) \in SUBSET (Messages[t] \X Messages[t])
    BY DEF ReflectsOf
  <2> QED BY <2>1
<1>2. PICK f : IsDefinedBy(DOMAIN Types, Subtypes, G, T, f)
  <2> HIDE DEF G, T
  <2> QED BY <1>1, SubtypesAreTypes, RecursionIsDefined
<1>3. ASSUME NEW t \in DOMAIN Types
      PROVE  f[t] = ReflectsOf(t, [u \in Subtypes[t] |-> f[u]])
  <2> DEFINE p == [u \in Subtypes[t] |-> f[u]]
  <2>1. p \in Below(Subtypes, T, t) /\ f[t] = G[t][p]
    BY <1>2, Zenon DEF IsDefinedBy
  <2> HIDE DEF p, T
  <2>2. f[t] = ReflectsOf(t, p)
    BY <2>1
  <2> QED BY <2>2 DEF p
<1>4. Equation(f)
  BY <1>2, <1>3, Zenon DEF IsDefinedBy
<1>5. Reflects = CHOOSE g : Equation(g)
  BY Zenon DEF Reflects, ReflectsOf
<1> HIDE DEF Equation
<1>6. Equation(Reflects)
  BY <1>4, <1>5, Zenon
<1> QED BY <1>6 DEF Equation

\* A message reflects another if its fields do.
LEMMA ReflectsIs ==
  ASSUME NEW t \in DOMAIN Types, NEW sent, NEW got
  PROVE  <<sent, got>> \in Reflects[t] <=>
           /\ sent \in Messages[t] /\ got \in Messages[t]
           /\ \A i \in DOMAIN Types[t].members :
                FieldReflects(Reflects, Types[t].members[i], sent[i], got[i])
<1> DEFINE ms == Types[t].members
           p == [u \in Subtypes[t] |-> Reflects[u]]
<1>1. Reflects[t] = ReflectsOf(t, p)
  BY ReflectsIsDefined, Zenon
<1>2. ASSUME NEW i \in DOMAIN ms
      PROVE  FieldReflects(p, ms[i], sent[i], got[i]) <=>
             FieldReflects(Reflects, ms[i], sent[i], got[i])
  <2> DEFINE m == ms[i]
  <2>1. AgreeOn(m, p, Reflects)
    BY MembersAreMembers DEF AgreeOn
  <2> HIDE DEF m, p
  <2>2. \A a, b : ElementReflects(p, m, a, b) <=> ElementReflects(Reflects, m, a, b)
    BY <2>1 DEF AgreeOn, ElementReflects, is_complex_type
  <2>3. FieldReflects(p, m, sent[i], got[i]) <=> FieldReflects(Reflects, m, sent[i], got[i])
    BY <2>2, Zenon DEF FieldReflects
  <2> QED BY <2>3 DEF m
<1> HIDE DEF p, ms
<1>3. <<sent, got>> \in Reflects[t] <=>
        /\ sent \in Messages[t] /\ got \in Messages[t]
        /\ \A i \in DOMAIN ms : FieldReflects(p, ms[i], sent[i], got[i])
  BY <1>1 DEF ReflectsOf, ms
<1> QED BY <1>2, <1>3 DEF ms

-----------------------------------------------------------------------------
(* What has nothing where nothing was sent.                                 *)

\* The pairs of messages of t, if `nested' has those of its subtypes.
CoversOf(t, nested) ==
  {p \in Messages[t] \X Messages[t] :
     \A i \in DOMAIN Types[t].members :
       FieldCovers(nested, Types[t].members[i], p[1][i], p[2][i])}

\* Covers is what its definition says.
LEMMA CoversIsDefined ==
  Covers = [t \in DOMAIN Types |-> CoversOf(t, [u \in Subtypes[t] |-> Covers[u]])]
<1> DEFINE Equation(f) ==
             f = [t \in DOMAIN Types |-> CoversOf(t, [u \in Subtypes[t] |-> f[u]])]
           T == [t \in DOMAIN Types |-> SUBSET (Messages[t] \X Messages[t])]
           G == [t \in DOMAIN Types |-> [p \in Below(Subtypes, T, t) |-> CoversOf(t, p)]]
<1>1. \A t \in DOMAIN Types : \A p \in Below(Subtypes, T, t) : G[t][p] \in T[t]
  <2>1. \A t, p : CoversOf(t, p) \in SUBSET (Messages[t] \X Messages[t])
    BY DEF CoversOf
  <2> QED BY <2>1
<1>2. PICK f : IsDefinedBy(DOMAIN Types, Subtypes, G, T, f)
  <2> HIDE DEF G, T
  <2> QED BY <1>1, SubtypesAreTypes, RecursionIsDefined
<1>3. ASSUME NEW t \in DOMAIN Types
      PROVE  f[t] = CoversOf(t, [u \in Subtypes[t] |-> f[u]])
  <2> DEFINE p == [u \in Subtypes[t] |-> f[u]]
  <2>1. p \in Below(Subtypes, T, t) /\ f[t] = G[t][p]
    BY <1>2, Zenon DEF IsDefinedBy
  <2> HIDE DEF p, T
  <2>2. f[t] = CoversOf(t, p)
    BY <2>1
  <2> QED BY <2>2 DEF p
<1>4. Equation(f)
  BY <1>2, <1>3, Zenon DEF IsDefinedBy
<1>5. Covers = CHOOSE g : Equation(g)
  BY Zenon DEF Covers, CoversOf
<1> HIDE DEF Equation
<1>6. Equation(Covers)
  BY <1>4, <1>5, Zenon
<1> QED BY <1>6 DEF Equation

\* A message is covered by another if its fields are.
LEMMA CoversIs ==
  ASSUME NEW t \in DOMAIN Types, NEW sent, NEW old
  PROVE  <<sent, old>> \in Covers[t] <=>
           /\ sent \in Messages[t] /\ old \in Messages[t]
           /\ \A i \in DOMAIN Types[t].members :
                FieldCovers(Covers, Types[t].members[i], sent[i], old[i])
<1> DEFINE ms == Types[t].members
           p == [u \in Subtypes[t] |-> Covers[u]]
<1>1. Covers[t] = CoversOf(t, p)
  BY CoversIsDefined, Zenon
<1>2. ASSUME NEW i \in DOMAIN ms
      PROVE  FieldCovers(p, ms[i], sent[i], old[i]) <=>
             FieldCovers(Covers, ms[i], sent[i], old[i])
  <2> DEFINE m == ms[i]
  <2>1. AgreeOn(m, p, Covers)
    BY MembersAreMembers DEF AgreeOn
  <2> HIDE DEF m, p
  <2>2. \A a, b : ElementCovers(p, m, a, b) <=> ElementCovers(Covers, m, a, b)
    BY <2>1 DEF AgreeOn, ElementCovers, is_complex_type
  <2>3. FieldCovers(p, m, sent[i], old[i]) <=> FieldCovers(Covers, m, sent[i], old[i])
    BY <2>2, Zenon DEF FieldCovers
  <2> QED BY <2>3 DEF m
<1> HIDE DEF p, ms
<1>3. <<sent, old>> \in Covers[t] <=>
        /\ sent \in Messages[t] /\ old \in Messages[t]
        /\ \A i \in DOMAIN ms : FieldCovers(p, ms[i], sent[i], old[i])
  BY <1>1 DEF CoversOf, ms
<1> QED BY <1>2, <1>3 DEF ms

\* What is zero is covered by whatever is sent.
LEMMA ZeroIsCovered ==
  ASSUME ValuesAreClosed
  PROVE  \A t \in DOMAIN Types : \A v \in Messages[t] : <<v, ZeroMessage[t]>> \in Covers[t]
<1> DEFINE S == {t \in DOMAIN Types :
                   \A v \in Messages[t] : <<v, ZeroMessage[t]>> \in Covers[t]}
<1>1. ASSUME NEW t \in DOMAIN Types, Subtypes[t] \subseteq S PROVE t \in S
  <2> SUFFICES ASSUME NEW v \in Messages[t] PROVE <<v, ZeroMessage[t]>> \in Covers[t]
    OBVIOUS
  <2> SUFFICES ASSUME NEW i \in DOMAIN Types[t].members
               PROVE  FieldCovers(Covers, Types[t].members[i], v[i], ZeroMessage[t][i])
    BY CoversIs, ZeroMessageHas
  <2> DEFINE m == Types[t].members[i]
             f == v[i]
             zero == InitField(ZeroMessage, m)
  <2>1. /\ m \in ToSet(Types[t].members) /\ f \in Seq(Elements(Messages, m))
        /\ ~m.is_array => Len(f) = 1
        /\ IsFixedArray(m) => Len(f) = m.array_size
    BY MessagesHaveFields, MembersAreMembers, FieldsAre
  <2>2. ZeroMessage[t][i] = zero
    BY ZeroMessageHas
  <2> HIDE DEF m, f
  <2>3. m.type_id \in TypeIds /\ m.is_array \in BOOLEAN /\ m.array_size \in Nat
    BY <2>1, MemberCases
  <2>4. /\ \A k \in DOMAIN zero : zero[k] = InitElement(ZeroMessage, m)
        /\ IsSequence(m) => zero = <<>>
    BY <2>1, InitFieldHas
  <2> HIDE DEF zero
  <2>5. f = <<>> => zero = <<>>
    <3>1. f = <<>> => IsSequence(m)
      BY <2>1, <2>3 DEF IsSequence, IsFixedArray
    <3> QED BY <2>4, <3>1
  <2>6. ASSUME NEW e \in Elements(Messages, m)
        PROVE  ElementCovers(Covers, m, e, InitElement(ZeroMessage, m))
    <3>1. CASE is_complex_type(m)
      <4>1. e \in Messages[m.members] /\ m.members \in S
        BY <1>1, <2>1, <3>1, MembersAreMembers, MemberCases
      <4>2. <<e, ZeroMessage[m.members]>> \in Covers[m.members]
        BY <4>1
      <4> QED BY <3>1, <4>2 DEF ElementCovers, InitElement, is_complex_type
    <3>2. CASE ~is_complex_type(m)
      BY <2>3, <3>2 DEF ElementCovers, InitElement, is_complex_type, TypeIds
    <3> QED BY <3>1, <3>2
  <2>7. \A k \in DOMAIN f \cap DOMAIN zero : ElementCovers(Covers, m, f[k], zero[k])
    BY <2>1, <2>4, <2>6
  <2>8. FieldCovers(Covers, m, f, zero)
    BY <2>5, <2>7, Zenon DEF FieldCovers
  <2> QED BY <2>2, <2>8 DEF m, f
<1>2. DOMAIN Types \subseteq S
  <2> HIDE DEF S
  <2> QED BY <1>1, SubtypesAreTypes, BeforeInduction
<1> QED BY <1>2

\* The elements of a field that is covered, or of none, are still covered when there are
\* as many as were sent.
LEMMA ResizedIsCovered ==
  ASSUME ValuesAreClosed, NEW t \in DOMAIN Types, NEW m \in ToSet(Types[t].members),
         NEW sent \in Seq(Elements(Messages, m)), NEW old \in Seq(Elements(Messages, m)),
         NEW from, from = old \/ from = <<>>, NEW slots,
         IsResized(Elements(Messages, m), from, Len(sent), InitElement(ZeroMessage, m), slots),
         FieldCovers(Covers, m, sent, old)
  PROVE  \A i \in DOMAIN slots : ElementCovers(Covers, m, sent[i], slots[i])
<1> DEFINE E == Elements(Messages, m)
           init == InitElement(ZeroMessage, m)
<1>1. ASSUME NEW e \in E PROVE ElementCovers(Covers, m, e, init)
  <2>1. m.type_id \in TypeIds
    BY MemberCases
  <2>2. CASE is_complex_type(m)
    <3>1. e \in Messages[m.members] /\ m.members \in DOMAIN Types
      BY <2>2, MemberCases
    <3>2. <<e, ZeroMessage[m.members]>> \in Covers[m.members]
      BY <3>1, ZeroIsCovered
    <3> QED BY <2>2, <3>2 DEF ElementCovers, InitElement, is_complex_type
  <2>3. CASE ~is_complex_type(m)
    BY <2>1, <2>3 DEF ElementCovers, InitElement, is_complex_type, TypeIds
  <2> QED BY <2>2, <2>3
<1>2. \A k \in DOMAIN sent \cap DOMAIN old : ElementCovers(Covers, m, sent[k], old[k])
  BY Zenon DEF FieldCovers
<1>3. /\ DOMAIN slots = 1 .. Len(sent) /\ from \in Seq(E)
      /\ \A i \in 1 .. Len(sent) : slots[i] = IF i <= Len(from) THEN from[i] ELSE init
  <2>1. IsResized(E, from, Len(sent), init, slots) /\ old \in Seq(E) /\ <<>> \in Seq(E)
    OBVIOUS
  <2> HIDE DEF E, init
  <2>2. from \in Seq(E)
    BY <2>1
  <2>3. slots \in Seq(E) /\ Len(slots) = Len(sent)
    BY <2>1, Zenon DEF IsResized
  <2>4. DOMAIN slots = 1 .. Len(sent)
    BY <2>3
  <2> QED BY <2>1, <2>2, <2>4, Zenon DEF IsResized
<1> HIDE DEF init
<1> SUFFICES ASSUME NEW i \in 1 .. Len(sent) PROVE ElementCovers(Covers, m, sent[i], slots[i])
  BY <1>3
<1>4. i \in DOMAIN sent /\ sent[i] \in E
  OBVIOUS
<1>5. CASE i <= Len(from)
  <2>1. from = old /\ i \in DOMAIN old
    <3> HIDE DEF E
    <3> QED BY <1>3, <1>5
  <2> QED BY <1>2, <1>3, <1>4, <1>5, <2>1
<1>6. CASE ~(i <= Len(from))
  BY <1>1, <1>3, <1>4, <1>6
<1> QED BY <1>5, <1>6

-----------------------------------------------------------------------------
(* There and back.                                                          *)

\* What is put before the rest is taken, and the rest is left.
LEMMA TakenIsPut ==
  ASSUME NEW x \in Seq(Nat), NEW rest \in Seq(Nat)
  PROVE  /\ Take(Len(x), x \o rest) = x /\ Drop(Len(x), x \o rest) = rest
         /\ \A k \in 1 .. Len(x) : At(x \o rest, k) = x[k]
<1> DEFINE w == x \o rest
           n == Len(x)
<1>1. w \in Seq(Nat) /\ n \in Nat /\ Len(w) = n + Len(rest) /\ \A k \in 1 .. n : w[k] = x[k]
  OBVIOUS
<1>2. SubSeq(w, n + 1, Len(w)) = rest
  OBVIOUS
<1>3. x = [k \in 1 .. n |-> x[k]]
  OBVIOUS
<1> HIDE DEF w, n
<1>4. \A k \in 1 .. n : At(w, k) = x[k]
  BY <1>1 DEF At
<1>5. Take(n, w) = x
  BY <1>3, <1>4 DEF Take
<1>6. Drop(n, w) = rest
  BY <1>2 DEF Drop
<1> QED BY <1>4, <1>5, <1>6 DEF w, n

\* What is pushed is popped.
LEMMA PoppedIsPushed ==
  ASSUME NEW n \in Nat, NEW wire \in Seq(Nat)
  PROVE  /\ ~PopFails(PushSequenceSize(n) \o wire)
         /\ PoppedSize(PushSequenceSize(n) \o wire) = n
         /\ AfterSize(PushSequenceSize(n) \o wire) = wire
<1> DEFINE p == PushSequenceSize(n)
           w == p \o wire
<1>1. p \in Seq(Nat) /\ Len(p) = 2 /\ p[1] = Check /\ p[2] = n
  BY DEF PushSequenceSize, Check
<1> HIDE DEF p
<1>2. /\ Drop(Len(p), w) = wire
      /\ \A k \in 1 .. Len(p) : At(w, k) = p[k]
  BY <1>1, TakenIsPut
<1> HIDE DEF w
<1>3. Drop(2, w) = wire /\ At(w, 1) = Check /\ At(w, 2) = n
  BY <1>1, <1>2
<1> QED BY <1>3 DEF PopFails, PoppedSize, AfterSize, w, p

\* What is read when a message was sent: all of it, exactly it if nothing was there
\* where nothing was sent, and what comes after it on the wire is left.
MessageComesBack(r, rest, t, sent, old) ==
  /\ CanGoOn(r) /\ r.wire = rest
  /\ <<sent, r.values>> \in Reflects[t]
  /\ <<sent, old>> \in Covers[t] => r.values = sent

\* So are the messages of t that language k serializes and language l deserializes.
RoundTrips(t, k, l) ==
  \A sent, old \in Messages[t] : \A rest \in Seq(Nat) :
    MessageComesBack(Deserialize[t][l][old][Serialize[t][k][sent] \o rest], rest, t, sent, old)

\* What is read when an element was sent.
ElementComesBack(r, rest, m, sent, old) ==
  /\ CanGoOn(r) /\ r.wire = rest
  /\ ElementReflects(Reflects, m, sent, r.values)
  /\ ElementCovers(Covers, m, sent, old) => r.values = sent

\* A string comes back, but an empty one is not assigned in C++.
LEMMA StringReturns ==
  ASSUME NEW l \in Languages, NEW sent \in Seq(Nat), NEW old \in Seq(Nat), NEW rest \in Seq(Nat)
  PROVE  LET r == DeserializeString(l, old, SerializeString(sent) \o rest)
         IN  /\ CanGoOn(r) /\ r.wire = rest
             /\ sent = <<>> \/ r.values = sent
             /\ (sent = <<>> => old = <<>>) => r.values = sent
<1> DEFINE n == Len(sent)
           x == sent \o rest
           wire == SerializeString(sent) \o rest
           v == IF l = "CPP" /\ n = 0 THEN old ELSE Take(n, x)
<1>1. n \in Nat /\ x \in Seq(Nat) /\ (n = 0 <=> sent = <<>>)
  OBVIOUS
<1>2. wire = PushSequenceSize(n) \o x
  <2> DEFINE p == PushSequenceSize(n)
  <2>1. p \in Seq(Nat)
    BY <1>1 DEF PushSequenceSize, Check
  <2>2. wire = (p \o sent) \o rest
    BY DEF SerializeString
  <2> HIDE DEF p, wire
  <2> QED BY <2>1, <2>2, WiresAssociate, Zenon DEF p
<1>3. Take(n, x) = sent /\ Drop(n, x) = rest
  BY TakenIsPut
<1> HIDE DEF x, n, wire
<1>4. ~PopFails(wire) /\ PoppedSize(wire) = n /\ AfterSize(wire) = x
  BY <1>1, <1>2, PoppedIsPushed
<1>5. DeserializeString(l, old, wire) = Read(v, rest, "ok")
  BY <1>3, <1>4 DEF DeserializeString
<1>6. (sent = <<>> \/ v = sent) /\ ((sent = <<>> => old = <<>>) => v = sent)
  BY <1>1, <1>3
<1> HIDE DEF v
<1>7. LET r == Read(v, rest, "ok")
      IN  CanGoOn(r) /\ r.wire = rest /\ r.values = v
  BY DEF Read, CanGoOn
<1> QED BY <1>5, <1>6, <1>7 DEF wire

\* An element comes back.
LEMMA ElementReturns ==
  ASSUME ValuesAreClosed,
         NEW t \in DOMAIN Types, NEW m \in ToSet(Types[t].members),
         NEW k \in Languages, NEW l \in Languages,
         is_complex_type(m) => RoundTrips(m.members, k, l),
         NEW sent \in Elements(Messages, m), NEW old \in Elements(Messages, m),
         NEW rest \in Seq(Nat)
  PROVE  ElementComesBack(
           DeserializeElement(Deserialize, l, m, old, SerializeElement(Serialize, k, m, sent) \o rest),
           rest, m, sent, old)
<1> DEFINE s == SerializeElement(Serialize, k, m, sent)
           wire == s \o rest
           r == DeserializeElement(Deserialize, l, m, old, wire)
<1>1. m.type_id \in TypeIds
  BY MemberCases
<1>2. CASE m.type_id = "PRIMITIVE"
  <2>1. sent \in Nat
    BY <1>2, MemberCases
  <2>2. s = <<sent>>
    BY <1>2 DEF SerializeElement
  <2>3. s \in Seq(Nat) /\ Len(s) = 1 /\ s[1] = sent
    BY <2>1, <2>2
  <2> HIDE DEF s
  <2>4. Drop(Len(s), wire) = rest /\ \A i \in 1 .. Len(s) : At(wire, i) = s[i]
    BY <2>3, TakenIsPut
  <2> HIDE DEF wire
  <2>5. Drop(1, wire) = rest /\ At(wire, 1) = sent
    BY <2>3, <2>4
  <2>6. r = Read(sent, rest, "ok")
    BY <1>2, <2>5 DEF DeserializeElement
  <2>7. CanGoOn(r) /\ r.wire = rest /\ r.values = sent
    BY <2>6 DEF Read, CanGoOn
  <2> HIDE DEF r
  <2>8. ElementReflects(Reflects, m, sent, r.values)
    BY <1>2, <2>7 DEF ElementReflects
  <2> QED BY <2>7, <2>8 DEF ElementComesBack, r, wire, s
<1>3. CASE is_complex_type(m)
  <2> DEFINE u == m.members
  <2>1. /\ Elements(Messages, m) = Messages[u]
        /\ s = Serialize[u][k][sent] /\ r = Deserialize[u][l][old][wire]
        /\ ElementCovers(Covers, m, sent, old) => <<sent, old>> \in Covers[u]
    BY <1>3, MemberCases DEF SerializeElement, DeserializeElement, ElementCovers, is_complex_type
  <2>2. MessageComesBack(Deserialize[u][l][old][Serialize[u][k][sent] \o rest], rest, u, sent, old)
    BY <1>3, <2>1 DEF RoundTrips
  <2>3. MessageComesBack(r, rest, u, sent, old)
    <3>1. r = Deserialize[u][l][old][Serialize[u][k][sent] \o rest]
      BY <2>1
    <3> HIDE DEF r
    <3> QED BY <2>2, <3>1
  <2> HIDE DEF r
  <2>4. ElementReflects(Reflects, m, sent, r.values)
    BY <1>3, <2>3 DEF ElementReflects, is_complex_type, MessageComesBack
  <2>5. ElementComesBack(r, rest, m, sent, old)
    BY <2>1, <2>3, <2>4 DEF ElementComesBack, MessageComesBack
  <2> QED BY <2>5 DEF r, wire, s
<1>4. CASE m.type_id \in {"STRING", "WSTRING"}
  <2>1. sent \in Seq(Nat) /\ old \in Seq(Nat)
    BY <1>4, MemberCases
  <2>2. /\ r = DeserializeString(l, old, SerializeString(sent) \o rest)
        /\ ElementCovers(Covers, m, sent, old) => (sent = <<>> => old = <<>>)
    BY <1>4 DEF DeserializeElement, SerializeElement, ElementCovers
  <2> HIDE DEF r
  <2>3. /\ CanGoOn(r) /\ r.wire = rest
        /\ sent = <<>> \/ r.values = sent
        /\ (sent = <<>> => old = <<>>) => r.values = sent
    BY <2>1, <2>2, StringReturns
  <2>4. ElementReflects(Reflects, m, sent, r.values)
    BY <1>4, <2>3 DEF ElementReflects
  <2>5. ElementComesBack(r, rest, m, sent, old)
    BY <2>2, <2>3, <2>4 DEF ElementComesBack
  <2> QED BY <2>5 DEF r, wire, s
<1> QED BY <1>1, <1>2, <1>3, <1>4 DEF TypeIds, is_complex_type

\* What is read when elements were sent.
ElementsComeBack(r, rest, m, sent, slots) ==
  /\ CanGoOn(r) /\ r.wire = rest
  /\ r.values \in Seq(Elements(Messages, m)) /\ Len(r.values) = Len(sent)
  /\ \A i \in DOMAIN sent : ElementReflects(Reflects, m, sent[i], r.values[i])
  /\ (\A i \in DOMAIN slots : ElementCovers(Covers, m, sent[i], slots[i])) => r.values = sent

\* The elements on the wire.
ElementParts(k, m, n, sent) == [i \in 1 .. n |-> SerializeElement(Serialize, k, m, sent[i])]

\* Elements come back to as many slots.
LEMMA ElementsReturn ==
  ASSUME ValuesAreClosed,
         NEW t \in DOMAIN Types, NEW m \in ToSet(Types[t].members),
         NEW k \in Languages, NEW l \in Languages,
         is_complex_type(m) => RoundTrips(m.members, k, l),
         NEW sent \in Seq(Elements(Messages, m)), NEW slots \in Seq(Elements(Messages, m)),
         Len(slots) = Len(sent), NEW rest \in Seq(Nat)
  PROVE  LET flat == FlattenSeq(ElementParts(k, m, Len(sent), sent))
         IN  /\ flat \in Seq(Nat)
             /\ ElementsComeBack(DeserializeElements(Deserialize, l, m, slots, flat \o rest),
                                 rest, m, sent, slots)
<1> DEFINE n == Len(sent)
           E == Elements(Messages, m)
           Covered(i) == ElementCovers(Covers, m, sent[i], slots[i])
           parts == ElementParts(k, m, n, sent)
           wire == FlattenSeq(parts) \o rest
           reader == ElementReader(Deserialize, l, m, slots)
           r == ReadEach(reader, slots, wire)
           Right == {p \in (1 .. n) \X E :
                       /\ ElementReflects(Reflects, m, sent[p[1]], p[2])
                       /\ Covered(p[1]) => p[2] = sent[p[1]]}
<1>1. n \in Nat /\ n = Len(slots) /\ DOMAIN sent = 1 .. n /\ DOMAIN slots = 1 .. n
  OBVIOUS
<1>2. /\ is_complex_type(m) => Serialize[m.members] \in Encoders[m.members]
      /\ is_complex_type(m) => Deserialize[m.members] \in Decoders[m.members]
  BY SerializeIs, DeserializeIs DEF ReadsMembers
<1>3. ReadsOf(reader, n, E)
  BY <1>1, <1>2, ElementReaderReads
<1>4. parts \in [1 .. n -> Seq(Nat)]
  <2>1. \A i \in 1 .. n : SerializeElement(Serialize, k, m, sent[i]) \in Seq(Nat)
    <3> TAKE i \in 1 .. n
    <3> DEFINE e == sent[i]
               f == Serialize
    <3>1. e \in Elements(Messages, m)
      OBVIOUS
    <3>2. is_complex_type(m) => f[m.members] \in Encoders[m.members]
      BY <1>2
    <3> HIDE DEF e, f
    <3>3. SerializeElement(f, k, m, e) \in Seq(Nat)
      BY <3>1, <3>2, SerializeElementIs
    <3> QED BY <3>3 DEF e, f
  <2> QED BY <2>1 DEF ElementParts
<1>5. ReadsParts(reader, n, parts, Right)
  <2> SUFFICES ASSUME NEW i \in 1 .. n, NEW w \in Seq(Nat)
               PROVE  /\ CanGoOn(reader[i][parts[i] \o w]) /\ reader[i][parts[i] \o w].wire = w
                      /\ <<i, reader[i][parts[i] \o w].values>> \in Right
    BY DEF ReadsParts
  <2> DEFINE x == parts[i] \o w
             q == reader[i][x]
             e == sent[i]
             o == slots[i]
  <2>1. e \in E /\ o \in E
    BY <1>1
  <2>2. x = SerializeElement(Serialize, k, m, e) \o w
    BY DEF ElementParts
  <2>3. x \in Seq(Nat)
    BY <1>4
  <2>4. q = DeserializeElement(Deserialize, l, m, o, x)
    <3> HIDE DEF x
    <3> QED BY <1>1, <2>3 DEF ElementReader
  <2>5. q.values \in E
    <3> HIDE DEF x, reader
    <3> QED BY <1>3, <2>3 DEF ReadsOf, Readings
  <2> HIDE DEF e, o, x, q, E
  <2>6. ElementComesBack(q, w, m, e, o)
    <3>1. ElementComesBack(
            DeserializeElement(Deserialize, l, m, o, SerializeElement(Serialize, k, m, e) \o w), w, m, e, o)
      BY <2>1, ElementReturns DEF E
    <3> QED BY <2>2, <2>4, <3>1, Zenon
  <2>7. <<i, q.values>> \in Right
    BY <2>5, <2>6 DEF ElementComesBack, e, o
  <2> QED BY <2>6, <2>7 DEF ElementComesBack, q, x
<1>6. ASSUME NEW i, NEW v, <<i, v>> \in Right
      PROVE  ElementReflects(Reflects, m, sent[i], v) /\ (Covered(i) => v = sent[i])
  BY <1>6
<1>7. DeserializeElements(Deserialize, l, m, slots, wire) = r
  BY DEF DeserializeElements, ElementReader
<1>8. slots \in Seq(E) /\ FlattenSeq(parts) \in Seq(Nat)
  <2> HIDE DEF parts
  <2> QED BY <1>1, <1>4, FlattenFollows
<1> HIDE DEF Right, reader, parts, E
<1>9. CanGoOn(r) /\ r.wire = rest /\ IsRight(r, n, E, Right)
  BY <1>1, <1>3, <1>4, <1>5, <1>8, ReadEachReadsBack
<1> HIDE DEF r
<1>10. /\ r.values \in Seq(E) /\ Len(r.values) = n
       /\ \A i \in 1 .. n : /\ ElementReflects(Reflects, m, sent[i], r.values[i])
                            /\ Covered(i) => r.values[i] = sent[i]
  BY <1>6, <1>9 DEF IsRight, Readings
<1>11. (\A i \in 1 .. n : Covered(i)) => r.values = sent
  <2> DEFINE s == r.values
  <2> SUFFICES ASSUME \A i \in 1 .. n : Covered(i) PROVE s = sent
    OBVIOUS
  <2>1. s \in Seq(E) /\ Len(s) = n /\ \A i \in 1 .. n : s[i] = sent[i]
    BY <1>10
  <2>2. sent \in Seq(E) /\ Len(sent) = n
    BY DEF E
  <2> HIDE DEF s, n
  <2> QED BY <2>1, <2>2
<1>12. ElementsComeBack(r, rest, m, sent, slots)
  BY <1>1, <1>9, <1>10, <1>11 DEF ElementsComeBack, E
<1> QED BY <1>7, <1>8, <1>12 DEF parts

\* What is read when a field was sent.
FieldComesBack(r, rest, m, sent, old) ==
  /\ CanGoOn(r) /\ r.wire = rest
  /\ FieldReflects(Reflects, m, sent, r.values)
  /\ FieldCovers(Covers, m, sent, old) => r.values = sent

\* The members that a language can serialize and deserialize.
Handles(l, m) == l = "C" => m.type_id # "WSTRING" /\ ~(is_complex_type(m) /\ IsSequence(m))

\* Of no elements nothing is on the wire.
LEMMA NoElements ==
  ASSUME NEW k, NEW m, NEW sent
  PROVE  FlattenSeq(ElementParts(k, m, 0, sent)) = <<>>
<1> DEFINE parts == ElementParts(k, m, 0, sent)
           n == 0
<1>1. parts \in [1 .. n -> Seq(Nat)] /\ n \in Nat
  BY DEF ElementParts
<1> HIDE DEF parts, n
<1>2. PICK f : FlattensTo(f, n, parts) /\ FlattenSeq(parts) = f[n]
  BY <1>1, FlattenIs
<1> QED BY <1>2 DEF FlattensTo, n, parts

\* A field is on the wire with the number of its elements, if it is a sequence.
LEMMA FieldIsSent ==
  ASSUME NEW t \in DOMAIN Types, NEW m \in ToSet(Types[t].members), NEW k \in Languages,
         Handles(k, m), NEW sent \in Fields(Messages, m)
  PROVE  SerializeField(Serialize, k, m, sent) =
           SizePrefix(m, Len(sent)) \o FlattenSeq(ElementParts(k, m, Len(sent), sent))
<1>1. sent \in Seq(Elements(Messages, m))
  BY FieldsAre
<1>2. k = "CPP" \/ ~is_complex_type(m) \/ ~IsSequence(m)
  BY DEF Handles, Languages
<1>3. ElementCount(k, m, sent) = Len(sent)
  BY <1>1, <1>2, ElementCountIs
<1> QED BY <1>3 DEF SerializeField, ElementParts

\* Elements that come back make a field that does.
LEMMA ElementsMakeField ==
  ASSUME NEW m, NEW r, NEW rest, NEW sent, NEW slots, NEW old,
         ElementsComeBack(r, rest, m, sent, slots),
         FieldCovers(Covers, m, sent, old) =>
           \A i \in DOMAIN slots : ElementCovers(Covers, m, sent[i], slots[i])
  PROVE  FieldComesBack(r, rest, m, sent, old)
<1>1. Len(sent) = Len(r.values)
  BY DEF ElementsComeBack
<1> QED BY <1>1, Zenon DEF ElementsComeBack, FieldComesBack, FieldReflects

\* A field comes back.
LEMMA FieldReturns ==
  ASSUME ValuesAreClosed,
         NEW t \in DOMAIN Types, NEW m \in ToSet(Types[t].members),
         NEW k \in Languages, NEW l \in Languages, Handles(k, m), Handles(l, m),
         is_complex_type(m) => RoundTrips(m.members, k, l),
         NEW sent \in Fields(Messages, m), NEW old \in Fields(Messages, m),
         NEW rest \in Seq(Nat)
  PROVE  FieldComesBack(
           DeserializeField(Deserialize, l, m, old, SerializeField(Serialize, k, m, sent) \o rest),
           rest, m, sent, old)
<1> DEFINE n == Len(sent)
           E == Elements(Messages, m)
           init == InitElement(ZeroMessage, m)
           flat == FlattenSeq(ElementParts(k, m, n, sent))
           x == flat \o rest
           wire == SerializeField(Serialize, k, m, sent) \o rest
           d == DeserializeField(Deserialize, l, m, old, wire)
<1>1. /\ sent \in Seq(E) /\ old \in Seq(E) /\ m.is_array \in BOOLEAN /\ n \in Nat
      /\ ~m.is_array => Len(sent) = 1 /\ Len(old) = 1
      /\ IsFixedArray(m) => Len(sent) = m.array_size /\ Len(old) = m.array_size
  BY FieldsAre, MemberCases
<1>2. wire = (SizePrefix(m, n) \o flat) \o rest
  BY FieldIsSent
<1>3. ASSUME NEW slots \in Seq(E), Len(slots) = n
      PROVE  /\ flat \in Seq(Nat)
             /\ ElementsComeBack(DeserializeElements(Deserialize, l, m, slots, x), rest, m, sent, slots)
  <2> HIDE DEF E
  <2>1. sent \in Seq(Elements(Messages, m)) /\ slots \in Seq(Elements(Messages, m))
        /\ Len(slots) = Len(sent)
    BY <1>1, <1>3 DEF E
  <2> QED BY <2>1, ElementsReturn
<1>4. flat \in Seq(Nat)
  BY <1>1, <1>3
<1>5. IsKnown(l, m)
  BY DEF IsKnown, Handles, Languages
<1>6. FieldCovers(Covers, m, sent, old) =>
        /\ sent = <<>> /\ ~is_complex_type(m) => old = <<>>
        /\ \A i \in DOMAIN sent \cap DOMAIN old : ElementCovers(Covers, m, sent[i], old[i])
  BY Zenon DEF FieldCovers
<1>7. init \in E
  BY InitFieldIsField, ZeroMessageHas, MemberCases
<1>8. CASE ~IsSequence(m)
  <2>1. Len(old) = n
    BY <1>1, <1>8 DEF IsSequence
  <2>2. SizePrefix(m, n) = <<>>
    BY <1>8 DEF SizePrefix
  <2>3. wire = x
    <3> HIDE DEF wire, flat
    <3> QED BY <1>2, <1>4, <2>2
  <2>4. d = DeserializeElements(Deserialize, l, m, old, x)
    <3> HIDE DEF wire, x
    <3> QED BY <1>5, <1>8, <2>3 DEF DeserializeField
  <2>5. ElementsComeBack(d, rest, m, sent, old)
    <3> HIDE DEF d, x, n, E
    <3> QED BY <1>1, <1>3, <2>1, <2>4
  <2> HIDE DEF d
  <2>6. FieldCovers(Covers, m, sent, old) =>
          \A i \in DOMAIN old : ElementCovers(Covers, m, sent[i], old[i])
    <3>1. DOMAIN old \subseteq DOMAIN sent
      <4> HIDE DEF E
      <4> QED BY <1>1, <2>1
    <3> QED BY <1>6, <3>1
  <2>7. FieldComesBack(d, rest, m, sent, old)
    BY <2>5, <2>6, ElementsMakeField
  <2> QED BY <2>7 DEF d
<1>9. CASE IsSequence(m)
  <2>1. wire = PushSequenceSize(n) \o x
    <3> DEFINE p == PushSequenceSize(n)
    <3>1. p \in Seq(Nat) /\ SizePrefix(m, n) = p
      BY <1>1, <1>9 DEF PushSequenceSize, Check, SizePrefix
    <3> HIDE DEF p, wire, flat
    <3>2. wire = (p \o flat) \o rest
      BY <1>2, <3>1
    <3> QED BY <1>4, <3>1, <3>2, WiresAssociate, Zenon DEF p
  <2>2. x \in Seq(Nat)
    <3> HIDE DEF flat
    <3> QED BY <1>4
  <2> HIDE DEF x, wire, flat
  <2>3. ~PopFails(wire) /\ PoppedSize(wire) = n /\ AfterSize(wire) = x
    <3> HIDE DEF n
    <3> QED BY <1>1, <2>1, <2>2, PoppedIsPushed
  <2>4. d = DeserializeSequence(Deserialize, l, m, old, wire)
    BY <1>5, <1>9 DEF DeserializeField
  <2>5. CASE is_complex_type(m)
    <3> DEFINE slots == Resize(old, n, init)
               r == DeserializeElements(Deserialize, l, m, slots, x)
               before == IF Moves(m, old, n) THEN "moved" ELSE "ok"
    <3>1. l = "CPP"
      BY <1>9, <2>5 DEF Handles, Languages
    <3>2. d = DeserializeMessages(Deserialize, l, m, old, n, x)
      BY <2>3, <2>4, <2>5 DEF DeserializeSequence
    <3>3. d = [r EXCEPT !.status = Worse(before, r.status)]
      <4> HIDE DEF d
      <4> QED BY <3>1, <3>2 DEF DeserializeMessages
    <3>4. IsResized(E, old, n, init, slots)
      <4> HIDE DEF n, init, E
      <4> QED BY <1>1, <1>7, ResizeIs
    <3> HIDE DEF slots
    <3>5. slots \in Seq(E) /\ Len(slots) = n
      BY <3>4, Zenon DEF IsResized
    <3>6. ElementsComeBack(r, rest, m, sent, slots)
      BY <1>3, <3>5
    <3>7. r \in Readings(Seq(E))
      <4>1. is_complex_type(m) => Deserialize[m.members] \in Decoders[m.members]
        BY DeserializeIs DEF ReadsMembers
      <4> HIDE DEF E
      <4>2. slots \in Seq(Elements(Messages, m))
        BY <3>5 DEF E
      <4> DEFINE f == Deserialize
      <4> HIDE DEF f
      <4>3. ReadsAll(DeserializeElements(f, l, m, slots, x), Len(slots), Elements(Messages, m))
        BY <2>2, <4>1, <4>2, DeserializeElementsIs DEF f
      <4> QED BY <4>3 DEF ReadsAll, E, f
    <3> HIDE DEF r, d, before
    <3>8. before \in {"ok", "moved"} /\ r.status \in {"ok", "moved"}
      BY <3>6 DEF before, ElementsComeBack, CanGoOn
    <3>9. d.values = r.values /\ d.wire = r.wire /\ d.status = Worse(before, r.status)
      <4> HIDE DEF E
      <4> QED BY <3>3, <3>7 DEF Readings
    <3>10. CanGoOn(d)
      BY <3>8, <3>9 DEF CanGoOn, Worse
    <3>11. ElementsComeBack(d, rest, m, sent, slots)
      BY <3>6, <3>9, <3>10, Zenon DEF ElementsComeBack
    <3>12. FieldCovers(Covers, m, sent, old) =>
             \A i \in DOMAIN slots : ElementCovers(Covers, m, sent[i], slots[i])
      BY <1>1, <3>4, ResizedIsCovered
    <3>13. FieldComesBack(d, rest, m, sent, old)
      BY <3>11, <3>12, ElementsMakeField
    <3> QED BY <3>13 DEF d, wire
  <2>6. CASE ~is_complex_type(m) /\ n = 0
    <3>1. d = Read(old, x, "ok")
      BY <2>3, <2>4, <2>6 DEF DeserializeSequence
    <3>2. sent = <<>>
      BY <1>1, <2>6
    <3>3. x = rest
      <4>1. flat = <<>>
        BY <2>6, NoElements DEF flat
      <4> QED BY <4>1 DEF x
    <3> HIDE DEF d
    <3>4. CanGoOn(d) /\ d.wire = rest /\ d.values = old
      BY <3>1, <3>3 DEF Read, CanGoOn
    <3>5. FieldReflects(Reflects, m, sent, d.values)
      BY <2>6, <3>2 DEF FieldReflects
    <3>6. FieldComesBack(d, rest, m, sent, old)
      BY <1>6, <2>6, <3>2, <3>4, <3>5 DEF FieldComesBack
    <3> QED BY <3>6 DEF d, wire
  <2>7. CASE ~is_complex_type(m) /\ n > 0
    <3> DEFINE from == IF l = "CPP" THEN old ELSE <<>>
               slots == Resize(from, n, init)
    <3>1. d = DeserializeElements(Deserialize, l, m, slots, x)
      BY <2>3, <2>4, <2>7 DEF DeserializeSequence, Slots
    <3>2. from \in Seq(E)
      <4>1. <<>> \in Seq(E)
        OBVIOUS
      <4> HIDE DEF E
      <4> QED BY <1>1, <4>1
    <3>3. from = old \/ from = <<>>
      OBVIOUS
    <3> HIDE DEF from, d
    <3>4. IsResized(E, from, n, init, slots)
      <4> HIDE DEF n, init, E
      <4> QED BY <1>1, <1>7, <3>2, ResizeIs
    <3> HIDE DEF slots
    <3>5. ElementsComeBack(d, rest, m, sent, slots)
      <4>1. slots \in Seq(E) /\ Len(slots) = n
        BY <3>4, Zenon DEF IsResized
      <4> QED BY <1>3, <3>1, <4>1
    <3>6. FieldCovers(Covers, m, sent, old) =>
            \A i \in DOMAIN slots : ElementCovers(Covers, m, sent[i], slots[i])
      BY <1>1, <3>3, <3>4, ResizedIsCovered
    <3>7. FieldComesBack(d, rest, m, sent, old)
      BY <3>5, <3>6, ElementsMakeField
    <3> QED BY <3>7 DEF d, wire
  <2>8. n = 0 \/ n > 0
    BY <1>1
  <2> QED BY <2>5, <2>6, <2>7, <2>8 DEF wire
<1> QED BY <1>8, <1>9

\* Both languages handle the members of a type, and what the members consist of returns.
MembersReturn(t, k, l) ==
  \A m \in ToSet(Types[t].members) :
    Handles(k, m) /\ Handles(l, m) /\ (is_complex_type(m) => RoundTrips(m.members, k, l))

\* Each field of a message comes back if what its member consists of does.
LEMMA FieldOfMessageReturns ==
  ASSUME ValuesAreClosed, NEW t \in DOMAIN Types, NEW k \in Languages, NEW l \in Languages,
         MembersReturn(t, k, l), NEW sent \in Messages[t], NEW old \in Messages[t],
         NEW i \in 1 .. Len(old), NEW w \in Seq(Nat)
  PROVE  LET m == Types[t].members[i]
             x == Parts(Serialize, t, k, sent)[i] \o w
             r == FieldReader(Deserialize, l, Types[t].members, old)[i][x]
         IN  x \in Seq(Nat) /\ FieldComesBack(r, w, m, sent[i], old[i])
<1> DEFINE ms == Types[t].members
           m == ms[i]
           s == sent[i]
           o == old[i]
           x == Parts(Serialize, t, k, sent)[i] \o w
           r == FieldReader(Deserialize, l, ms, old)[i][x]
<1>1. /\ i \in 1 .. Len(sent) /\ i \in DOMAIN ms
      /\ s \in Fields(Messages, m) /\ o \in Fields(Messages, m)
      /\ m \in ToSet(ms)
  BY MessagesHaveFields, MembersAreMembers
<1>2. x = SerializeField(Serialize, k, m, s) \o w
  <2> HIDE DEF ms
  <2>1. i \in DOMAIN ms
    BY <1>1
  <2> QED BY <2>1 DEF Parts, ms
<1>3. x \in Seq(Nat)
  <2>1. Parts(Serialize, t, k, sent) \in [1 .. Len(sent) -> Seq(Nat)]
    BY SerializeIs, PartsAre
  <2> QED BY <1>1, <2>1
<1>4. r = DeserializeField(Deserialize, l, m, o, x)
  <2> HIDE DEF ms, x
  <2> QED BY <1>1, <1>3 DEF FieldReader
<1> HIDE DEF r, x, m, s, o
<1>5. Handles(k, m) /\ Handles(l, m) /\ (is_complex_type(m) => RoundTrips(m.members, k, l))
  BY <1>1 DEF MembersReturn
<1>6. FieldComesBack(
        DeserializeField(Deserialize, l, m, o, SerializeField(Serialize, k, m, s) \o w), w, m, s, o)
  BY <1>1, <1>5, FieldReturns
<1>7. FieldComesBack(r, w, m, s, o)
  BY <1>2, <1>4, <1>6, Zenon
<1> QED BY <1>3, <1>7 DEF r, x, m, s, o

\* A message comes back if its fields do.
LEMMA MessageReturns ==
  ASSUME ValuesAreClosed, NEW t \in DOMAIN Types, NEW k \in Languages, NEW l \in Languages,
         MembersReturn(t, k, l)
  PROVE  RoundTrips(t, k, l)
<1> SUFFICES ASSUME NEW sent \in Messages[t], NEW old \in Messages[t], NEW rest \in Seq(Nat)
             PROVE  MessageComesBack(Deserialize[t][l][old][Serialize[t][k][sent] \o rest],
                                     rest, t, sent, old)
  BY DEF RoundTrips
<1> DEFINE ms == Types[t].members
           n == Len(old)
           parts == Parts(Serialize, t, k, sent)
           wire == FlattenSeq(parts) \o rest
           reader == FieldReader(Deserialize, l, ms, old)
           r == ReadEach(reader, old, wire)
           Covered(i) == FieldCovers(Covers, ms[i], sent[i], old[i])
           Right == {p \in (1 .. n) \X Values :
                       /\ p[2] \in Fields(Messages, ms[p[1]])
                       /\ FieldReflects(Reflects, ms[p[1]], sent[p[1]], p[2])
                       /\ Covered(p[1]) => p[2] = sent[p[1]]}
<1>1. /\ sent \in Seq(Values) /\ old \in Seq(Values) /\ n \in Nat
      /\ Len(sent) = n /\ Len(ms) = n /\ DOMAIN ms = 1 .. n
  BY MessagesHaveFields, MembersAreMembers
<1>2. parts \in [1 .. n -> Seq(Nat)]
  <2>1. Parts(Serialize, t, k, sent) \in [1 .. Len(sent) -> Seq(Nat)]
    BY SerializeIs, PartsAre
  <2> QED BY <1>1, <2>1
<1>3. \A i \in 1 .. n : \A w \in Seq(Nat) : reader[i][w] \in Readings(Fields(Messages, ms[i]))
  BY DeserializeIs, FieldReaderReads
<1>4. \A i \in 1 .. n : Fields(Messages, ms[i]) \subseteq Values
  <2> SUFFICES ASSUME NEW i \in 1 .. n PROVE Fields(Messages, ms[i]) \subseteq Values
    OBVIOUS
  <2> DEFINE m == ms[i]
  <2>1. m \in ToSet(Types[t].members)
    BY <1>1, MembersAreMembers
  <2> HIDE DEF m
  <2>2. Fields(Messages, m) \subseteq Values
    BY <2>1, FieldsAreValues
  <2> QED BY <2>2 DEF m
<1>5. ReadsOf(reader, n, Values)
  <2> HIDE DEF reader, ms, n
  <2> QED BY <1>3, <1>4 DEF ReadsOf, Readings
<1>6. ReadsParts(reader, n, parts, Right)
  <2> SUFFICES ASSUME NEW i \in 1 .. n, NEW w \in Seq(Nat)
               PROVE  /\ CanGoOn(reader[i][parts[i] \o w]) /\ reader[i][parts[i] \o w].wire = w
                      /\ <<i, reader[i][parts[i] \o w].values>> \in Right
    BY DEF ReadsParts
  <2> DEFINE x == parts[i] \o w
             q == reader[i][x]
  <2>1. x \in Seq(Nat) /\ FieldComesBack(q, w, ms[i], sent[i], old[i])
    BY FieldOfMessageReturns
  <2>2. q.values \in Fields(Messages, ms[i]) /\ q.values \in Values
    <3> HIDE DEF reader, ms, x, n
    <3> QED BY <1>3, <1>4, <2>1 DEF Readings
  <2> HIDE DEF q, ms, n
  <2>3. <<i, q.values>> \in Right
    BY <2>1, <2>2 DEF FieldComesBack
  <2> HIDE DEF Right
  <2> QED BY <2>1, <2>3 DEF FieldComesBack, q
<1>7. ASSUME NEW i, NEW v, <<i, v>> \in Right
      PROVE  /\ v \in Fields(Messages, ms[i])
             /\ FieldReflects(Reflects, ms[i], sent[i], v)
             /\ Covered(i) => v = sent[i]
  <2> HIDE DEF n, ms
  <2> QED BY <1>7
<1>8. Deserialize[t][l][old][Serialize[t][k][sent] \o rest] = r
  <2>1. Serialize[t][k][sent] = FlattenSeq(parts)
    BY SerializeIs
  <2>2. FlattenSeq(parts) \in Seq(Nat)
    <3> HIDE DEF parts, n
    <3> QED BY <1>1, <1>2, FlattenFollows
  <2> HIDE DEF parts
  <2>3. wire \in Seq(Nat)
    BY <2>2
  <2> HIDE DEF wire
  <2>4. Deserialize[t][l][old][wire] = r
    BY <2>3, DeserializeIs
  <2> QED BY <2>1, <2>4 DEF wire
<1> HIDE DEF Right, reader, parts
<1>9. CanGoOn(r) /\ r.wire = rest /\ IsRight(r, n, Values, Right)
  BY <1>1, <1>2, <1>5, <1>6, ReadEachReadsBack
<1> HIDE DEF r
<1> DEFINE got == r.values
<1>10. /\ got \in Seq(Values) /\ Len(got) = n
       /\ \A i \in 1 .. n : <<i, got[i]>> \in Right
  BY <1>9 DEF IsRight, Readings
<1> HIDE DEF got
<1>11. \A i \in 1 .. n : /\ got[i] \in Fields(Messages, ms[i])
                         /\ FieldReflects(Reflects, ms[i], sent[i], got[i])
                         /\ Covered(i) => got[i] = sent[i]
  BY <1>7, <1>10
<1>12. got \in Messages[t]
  <2> HIDE DEF n
  <2>1. n = Len(Types[t].members) /\ \A i \in 1 .. n : got[i] \in Fields(Messages, Types[t].members[i])
    BY <1>1, <1>11 DEF ms
  <2> QED BY <1>10, <2>1, FieldsMakeMessages
<1>13. <<sent, got>> \in Reflects[t]
  <2>1. \A i \in DOMAIN Types[t].members : FieldReflects(Reflects, Types[t].members[i], sent[i], got[i])
    BY <1>1, <1>11
  <2> QED BY <1>12, <2>1, ReflectsIs
<1>14. ASSUME <<sent, old>> \in Covers[t] PROVE got = sent
  <2>1. \A i \in 1 .. n : Covered(i)
    <3>1. \A i \in DOMAIN ms : Covered(i)
      BY <1>14, CoversIs
    <3> HIDE DEF ms, n
    <3> QED BY <1>1, <3>1, Zenon
  <2>2. \A i \in 1 .. n : got[i] = sent[i]
    <3> HIDE DEF ms, n
    <3> QED BY <1>11, <2>1, Zenon
  <2>3. sent \in Seq(Values) /\ Len(sent) = n
    BY <1>1
  <2> HIDE DEF n
  <2> QED BY <1>10, <2>2, <2>3
<1>15. MessageComesBack(r, rest, t, sent, old)
  BY <1>9, <1>13, <1>14 DEF MessageComesBack, got
<1> QED BY <1>8, <1>15, Zenon

\* A language that supports a type handles its members and supports their types.
LEMMA SupportsMembers ==
  ASSUME NEW t \in DOMAIN Types, NEW l, Supports(l, t), NEW m \in ToSet(Types[t].members)
  PROVE  Handles(l, m) /\ (is_complex_type(m) => Supports(l, m.members))
<1>1. m \in MembersWithin(t)
  BY MembersWithinStep
<1>2. is_complex_type(m) => MembersWithin(m.members) \subseteq MembersWithin(t)
  BY MembersWithinStep
<1> QED BY <1>1, <1>2, Zenon DEF Supports, Handles

\* What one language that supports a type serializes comes back in any that does: all of
\* it, leaving what comes after it; exactly if nothing was in the message it is read into
\* where an empty string or sequence was sent, and else but for what was there.
THEOREM SerializedComesBack ==
  ASSUME ValuesAreClosed, NEW k \in Languages, NEW l \in Languages
  PROVE  \A t \in DOMAIN Types : Supports(k, t) /\ Supports(l, t) => RoundTrips(t, k, l)
<1> DEFINE S == {t \in DOMAIN Types : Supports(k, t) /\ Supports(l, t) => RoundTrips(t, k, l)}
<1>1. ASSUME NEW t \in DOMAIN Types, Subtypes[t] \subseteq S PROVE t \in S
  <2> SUFFICES ASSUME Supports(k, t), Supports(l, t) PROVE RoundTrips(t, k, l)
    OBVIOUS
  <2>1. ASSUME NEW m \in ToSet(Types[t].members)
        PROVE  /\ Handles(k, m) /\ Handles(l, m)
               /\ is_complex_type(m) => RoundTrips(m.members, k, l)
    <3>1. /\ Handles(k, m) /\ (is_complex_type(m) => Supports(k, m.members))
          /\ Handles(l, m) /\ (is_complex_type(m) => Supports(l, m.members))
      BY SupportsMembers
    <3>2. is_complex_type(m) => m.members \in S
      BY <1>1, MembersAreMembers
    <3> QED BY <3>1, <3>2
  <2> QED BY <2>1, MessageReturns DEF MembersReturn
<1>2. DOMAIN Types \subseteq S
  <2> HIDE DEF S
  <2> QED BY <1>1, SubtypesAreTypes, BeforeInduction
<1> QED BY <1>2

\* A message reflects itself.
LEMMA ReflectsItself ==
  \A t \in DOMAIN Types : \A v \in Messages[t] : <<v, v>> \in Reflects[t]
<1> DEFINE S == {t \in DOMAIN Types : \A v \in Messages[t] : <<v, v>> \in Reflects[t]}
<1>1. ASSUME NEW t \in DOMAIN Types, Subtypes[t] \subseteq S PROVE t \in S
  <2> SUFFICES ASSUME NEW v \in Messages[t] PROVE <<v, v>> \in Reflects[t]
    OBVIOUS
  <2> SUFFICES ASSUME NEW i \in DOMAIN Types[t].members
               PROVE  FieldReflects(Reflects, Types[t].members[i], v[i], v[i])
    BY ReflectsIs
  <2> DEFINE m == Types[t].members[i]
             f == v[i]
  <2>1. m \in ToSet(Types[t].members) /\ f \in Seq(Elements(Messages, m))
    BY MessagesHaveFields, MembersAreMembers, FieldsAre
  <2> HIDE DEF m, f
  <2>2. m.type_id \in TypeIds /\ (is_complex_type(m) => m.members \in S)
    BY <1>1, <2>1, MembersAreMembers, MemberCases
  <2>3. ASSUME NEW e \in Elements(Messages, m) PROVE ElementReflects(Reflects, m, e, e)
    <3>1. CASE is_complex_type(m)
      <4>1. e \in Messages[m.members] /\ m.members \in S
        BY <2>1, <2>2, <3>1, MemberCases
      <4>2. <<e, e>> \in Reflects[m.members]
        BY <4>1
      <4> QED BY <3>1, <4>2 DEF ElementReflects, is_complex_type
    <3>2. CASE ~is_complex_type(m)
      BY <2>2, <3>2 DEF ElementReflects, is_complex_type, TypeIds
    <3> QED BY <3>1, <3>2
  <2>4. \A j \in DOMAIN f : ElementReflects(Reflects, m, f[j], f[j])
    BY <2>1, <2>3
  <2>5. FieldReflects(Reflects, m, f, f)
    BY <2>4, Zenon DEF FieldReflects
  <2> QED BY <2>5 DEF m, f
<1>2. DOMAIN Types \subseteq S
  <2> HIDE DEF S
  <2> QED BY <1>1, SubtypesAreTypes, BeforeInduction
<1> QED BY <1>2
=============================================================================
