------------------------------ MODULE TypeInfo ------------------------------
(***************************************************************************)
(* What the type support's introspection tells of a type, and whether its   *)
(* messages have a fixed size: iceoryx_type_info_introspection.cpp.         *)
(*                                                                         *)
(* A type has a namespace, a name, members and a size.  A member is         *)
(*   [type_id, is_array, array_size, is_upper_bound, members]               *)
(* as in MessageMember; `members' is the type of a member that is a         *)
(* message.  The numbers, characters and booleans behave alike and are all  *)
(* "PRIMITIVE".                                                             *)
(***************************************************************************)
EXTENDS Integers, Sequences, SequencesExt

CONSTANTS
  Types,   \* the types, by their identity
  NoType   \* what `members' is when the member is not a message

Languages == {"C", "CPP"}
TypeIds == {"PRIMITIVE", "STRING", "WSTRING", "MESSAGE"}

MemberSet ==
  [type_id : TypeIds, is_array : BOOLEAN, array_size : Nat,
   is_upper_bound : BOOLEAN, members : DOMAIN Types \cup {NoType}]

is_complex_type(m) == m.type_id = "MESSAGE"

\* The types of the members of a type.
Subtypes ==
  [t \in DOMAIN Types |->
     {m.members : m \in {x \in ToSet(Types[t].members) : is_complex_type(x)}}]

\* Types are told apart by their namespace and name, and no type is within itself.
TypeInfoAssumption ==
  /\ NoType \notin DOMAIN Types
  /\ \A t \in DOMAIN Types :
       /\ Types[t].size \in Nat \ {0}
       /\ Types[t].members \in Seq(MemberSet)
       /\ \A m \in ToSet(Types[t].members) : is_complex_type(m) <=> m.members # NoType
  /\ \A t, u \in DOMAIN Types :
       Types[t].namespace = Types[u].namespace /\ Types[t].name = Types[u].name => t = u
  /\ \A S \in SUBSET DOMAIN Types : S # {} => \E t \in S : Subtypes[t] \cap S = {}

ASSUME TypeInfoAssumption

\* The language of the introspection found in what a type support offers: C++ is
\* looked for first.
get_type_support(offered) == IF "CPP" \in offered THEN "CPP" ELSE "C"

iceoryx_is_valid_type_support(offered) == offered \cap Languages # {}

-----------------------------------------------------------------------------
(* Members.                                                                 *)

\* Mutant: a bounded sequence passes for an array.
IsFixedArrayMutantBoundIgnored(m) == m.is_array /\ m.array_size > 0

\* An array, whose elements are in the message itself.
IsFixedArray(m) == m.is_array /\ m.array_size > 0 /\ ~m.is_upper_bound

\* A sequence, whose elements the message points to.
IsSequence(m) == m.is_array /\ ~IsFixedArray(m)

is_vector_type(m) == m.type_id = "STRING" \/ IsSequence(m)

-----------------------------------------------------------------------------
(* is_fixed_size and its cache, of which a process has one for each         *)
(* language: a function from what was asked to the answer.                  *)

EmptyCache == [key \in {} |-> FALSE]

\* Mutant: the namespace is left out of the key.
KeyMutantNameOnly(t) == <<"", Types[t].name>>

Key(t) == <<Types[t].namespace, Types[t].name>>

Keys == {Key(t) : t \in DOMAIN Types}
Caches == UNION {[asked -> BOOLEAN] : asked \in SUBSET Keys}

Insert(cache, key, fixed) ==
  IF key \in DOMAIN cache THEN cache
  ELSE [k \in DOMAIN cache \cup {key} |-> IF k = key THEN fixed ELSE cache[k]]

\* A member that is a message is asked for its type only, be it an array or a sequence;
\* `nested' is what is_fixed_size answers for the types of the members.
MemberIsFixed(nested, m, cache) ==
  IF is_complex_type(m) THEN nested[m.members][cache]
  ELSE [fixed |-> ~is_vector_type(m), cache |-> cache]

Empty(cache) == [fixed |-> TRUE, cache |-> cache]

\* Mutant: no early exit, the last member decides.
MembersAreFixedMutantLastDecides(nested, ms, cache) ==
  LET upTo[i \in 0 .. Len(ms)] ==
        IF i = 0 THEN Empty(cache) ELSE MemberIsFixed(nested, ms[i], upTo[i - 1].cache)
  IN  upTo[Len(ms)]

\* The first member that is not fixed decides.
MembersAreFixed(nested, ms, cache) ==
  LET upTo[i \in 0 .. Len(ms)] ==
        IF i = 0 THEN Empty(cache)
        ELSE LET before == upTo[i - 1]
             IN  IF before.fixed THEN MemberIsFixed(nested, ms[i], before.cache) ELSE before
  IN  upTo[Len(ms)]

Remembered(t, r) == [r EXCEPT !.cache = Insert(@, Key(t), r.fixed)]

\* The answer, and the cache that asking leaves.
is_fixed_size[t \in DOMAIN Types] ==
  LET nested == [u \in Subtypes[t] |-> is_fixed_size[u]]
  IN  [cache \in Caches |->
         IF Key(t) \in DOMAIN cache THEN [fixed |-> cache[Key(t)], cache |-> cache]
         ELSE Remembered(t, MembersAreFixed(nested, Types[t].members, cache))]

\* iceoryx_is_fixed_size of a message type or, request first, of a service type:
\* the response is not asked for when the request is not fixed.
InterfaceIsFixed(interface, cache) ==
  LET first == is_fixed_size[interface[1]][cache]
  IN  IF Len(interface) = 1 \/ ~first.fixed THEN first
      ELSE is_fixed_size[interface[2]][first.cache]

-----------------------------------------------------------------------------
(* References.                                                              *)

\* A type and what follows it, what follows that, and so on: what is in every set that
\* has the type and leaves nothing out that follows.
ReachedBy(next) ==
  [t \in DOMAIN Types |->
     {u \in DOMAIN Types : \A S \in SUBSET DOMAIN Types :
        t \in S /\ (\A v \in S : next[v] \subseteq S) => u \in S}]

\* A type and the types of its members, of their members, and so on.
Reachable == ReachedBy(Subtypes)

MembersWithin(t) == UNION {ToSet(Types[u].members) : u \in Reachable[t]}

\* What is_fixed_size answers without a cache.
CountsAsFixed(t) ==
  \A m \in MembersWithin(t) : is_complex_type(m) \/ ~is_vector_type(m)

\* The messages of the type are all in one place: no member points elsewhere.
IsFlat(t) ==
  \A m \in MembersWithin(t) : ~IsSequence(m) /\ m.type_id \notin {"STRING", "WSTRING"}
=============================================================================
