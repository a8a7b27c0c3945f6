------------------------------- MODULE Names -------------------------------
(***************************************************************************)
(* The conversions between the names of ROS and those of iceoryx            *)
(* (iceoryx_name_conversion.cpp): a topic and its type on one side, a       *)
(* description of service, instance and event on the other; the name and    *)
(* namespace of a node on one side, its full name on the other.             *)
(*                                                                         *)
(* A string is a sequence of parts: "/", the separators "::" and "__" of    *)
(* type names, and words.  Each counts as one character.                    *)
(***************************************************************************)
EXTENDS Integers, SequencesExt

CONSTANTS
  Words,        \* what strings are made of
  Lower,        \* of each word that is not in lower case, the one that is
  IdCapacity,   \* the capacity of iox::capro::IdString_t
  NodeCapacity  \* the capacity of iox::NodeName_t

NamesAssumption ==
  /\ IdCapacity \in Nat \ {0} /\ NodeCapacity \in Nat \ {0}
  /\ {"/", "msg", "data", "_ara_msgs", "_iceoryx", "iceoryx_introspection_msgs",
      "Introspection"} \subseteq Words
  /\ DOMAIN Lower \subseteq Words \ {"/"} /\ \A w \in DOMAIN Lower : Lower[w] \in Words

ASSUME NamesAssumption

\* What an exception leaves: no description.
NoDescription == [service |-> <<>>, instance |-> <<>>, event |-> <<>>]

-----------------------------------------------------------------------------
(* std::string.                                                             *)

\* The first position of part, or 0 for npos.
Find(s, part) ==
  LET found == {i \in 1 .. Len(s) - Len(part) + 1 :
                  \A k \in 1 .. Len(part) : s[i + k - 1] = part[k]}
  IN  IF found = {} THEN 0 ELSE Min(found)

Has(s, part) == Find(s, part) # 0

ToLower(s) == [i \in 1 .. Len(s) |-> IF s[i] \in DOMAIN Lower THEN Lower[s[i]] ELSE s[i]]

Truncated(s, capacity) == SubSeq(s, 1, Min({Len(s), capacity}))

\* rcpputils::split at "/", without the empty tokens.
Tokens(s) ==
  LET starts == {i \in 1 .. Len(s) : s[i] # "/" /\ (i = 1 \/ s[i - 1] = "/")}
      Start(k) == CHOOSE i \in starts : Cardinality({j \in starts : j <= i}) = k
      End(i) == Max({j \in i .. Len(s) : \A l \in i .. j : s[l] # "/"})
  IN  [k \in 1 .. Cardinality(starts) |-> SubSeq(s, Start(k), End(Start(k)))]

-----------------------------------------------------------------------------
(* Nodes.                                                                   *)

\* The namespace has no "/" at its end, unless it is the root.
full_name(n) == n.namespace \o n.name

\* As iceoryx gets it.
node_full_name(n) == Truncated(full_name(n), NodeCapacity)

get_name_n_space_from_node_full_name(full) ==
  LET pos == SelectLastInSeq(full, LAMBDA part : part = "/")
  IN  [name      |-> SubSeq(full, pos + 1, Len(full)),
       namespace |-> IF pos = 0 THEN full ELSE SubSeq(full, 1, pos - 1)]

-----------------------------------------------------------------------------
(* Topics and types.                                                        *)

IntrospectionService == <<"Introspection">>
IntrospectionPackage == <<"iceoryx_introspection_msgs">>
AraDelimiter == <<"_ara_msgs", "/", "msg", "/">>
Ros2Event == <<"data">>

\* Mutant: the namespaces of C are not looked for.
to_message_typeMutantCppOnly(namespace) ==
  LET pos == Find(namespace, <<"::">>)
  IN  IF pos = 0 THEN namespace ELSE ReplaceAt(namespace, pos, "/")

\* "pkg::msg" in C++ and "pkg__msg" in C.
to_message_type(namespace) ==
  LET pos == IF Has(namespace, <<"__">>)
               THEN Find(namespace, <<"__">>)
               ELSE Find(namespace, <<"::">>)
  IN  ReplaceAt(namespace, pos, "/")

extract_type(support) == to_message_type(support.namespace) \o <<"/">> \o support.name

get_name_n_type_from_service_description(d) ==
  CASE Has(d.service, IntrospectionService) ->
         [topic |-> <<"/", "_iceoryx", "/">> \o d.instance \o <<"/">> \o d.service
                      \o <<"/">> \o d.event,
          type  |-> IntrospectionPackage \o <<"/", "msg", "/">> \o d.event]
    [] ~Has(d.service, IntrospectionService) /\ d.event = Ros2Event ->
         [topic |-> d.instance, type |-> d.service]
    [] OTHER ->
         [topic |-> <<"/">> \o d.instance \o <<"/">> \o d.service \o <<"/">> \o d.event,
          type  |-> ToLower(d.service) \o AraDelimiter \o d.event]

InbuiltDescription(topic) ==
  LET tokens == Tokens(topic)
  IN  IF Len(tokens) # 4 THEN NoDescription
      ELSE [service |-> tokens[3], instance |-> tokens[2], event |-> tokens[4]]

\* Mutant: the lower-case service is looked for in the topic as it is.
AraDescriptionMutantCase(topic, type) ==
  LET delimiter == Find(type, AraDelimiter)
      pos       == Find(topic, SubSeq(type, 1, delimiter - 1))
  IN  IF pos = 0 THEN NoDescription
      ELSE [service  |-> SubSeq(topic, pos, pos + delimiter - 2),
            instance |-> SubSeq(topic, 2, pos - 2),
            event    |-> SubSeq(type, delimiter + Len(AraDelimiter), Len(type))]

\* The service is in lower case in the type: its first occurrence in the topic has
\* the case, and before it is the instance between two slashes.  A count of less
\* than zero characters is the rest of the topic.
AraDescription(topic, type) ==
  LET delimiter == Find(type, AraDelimiter)
      lower     == SubSeq(type, 1, delimiter - 1)
      pos       == Find(ToLower(topic), lower)
  IN  IF pos = 0 THEN NoDescription
      ELSE [service  |-> SubSeq(topic, pos, pos + Len(lower) - 1),
            instance |-> SubSeq(topic, 2, IF pos < 3 THEN Len(topic) ELSE pos - 2),
            event    |-> SubSeq(type, delimiter + Len(AraDelimiter), Len(type))]

get_service_description_from_name_n_type(topic, type) ==
  CASE Has(type, IntrospectionPackage) -> InbuiltDescription(topic)
    [] ~Has(type, IntrospectionPackage) /\ Has(type, AraDelimiter) ->
         AraDescription(topic, type)
    [] OTHER -> [service |-> type, instance |-> topic, event |-> Ros2Event]

\* An exception leaves the call that creates the endpoint.
make_service_description(topic, type) ==
  LET d == get_service_description_from_name_n_type(topic, type)
  IN  IF d = NoDescription THEN NoDescription
      ELSE [field \in DOMAIN d |-> Truncated(d[field], IdCapacity)]

get_iceoryx_service_description(topic, support) ==
  make_service_description(topic, extract_type(support))

-----------------------------------------------------------------------------
(* Names that tell descriptions apart.                                      *)

\* A separator of the namespaces of types.
IsSeparator(part) == part \in {"::", "__"}

\* The two namespaces of one package, in C and in C++, have one separator each and
\* differ in nothing else.
SameNamespace(a, b) ==
  /\ a \in Seq(Words) /\ b \in Seq(Words) /\ Len(a) = Len(b)
  /\ \E i \in 1 .. Len(a) :
       /\ IsSeparator(a[i]) /\ IsSeparator(b[i])
       /\ \A j \in 1 .. Len(a) \ {i} : ~IsSeparator(a[j]) /\ a[j] = b[j]

IsDescription(d) ==
  /\ d \in [{"service", "instance", "event"} -> Seq(Words)]
  /\ \A field \in DOMAIN d : Len(d[field]) <= IdCapacity

\* A description that the names of ROS stand for.
IsOfRos(d) ==
  /\ d.event = Ros2Event
  /\ \A part \in {"Introspection", "iceoryx_introspection_msgs", "_ara_msgs"} :
       ~Contains(d.service, part)

\* One of AUTOSAR, whose service begins with a word that its instance does not have.
IsOfAutosar(d) ==
  LET lower == ToLower(d.service)
  IN  /\ d.service # <<>> /\ d.event # Ros2Event
      /\ ~Contains(d.service, "Introspection")
      /\ ~Contains(lower, "_ara_msgs")
      /\ \A name \in {lower, d.event} : ~Contains(name, "iceoryx_introspection_msgs")
      /\ lower[1] # "/" /\ ~Contains(ToLower(d.instance), lower[1])

\* One of the daemon's own.
IsOfTheDaemon(d) ==
  /\ Contains(d.service, "Introspection")
  /\ \A field \in DOMAIN d : d[field] # <<>> /\ ~Contains(d[field], "/")
=============================================================================
