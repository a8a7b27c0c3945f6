--------------------------- MODULE Serialization ---------------------------
(***************************************************************************)
(* A message to bytes and back, in C++ and in C: the four typesupport       *)
(* headers iceoryx_(de)serialize_typesupport_(c|cpp).hpp.                   *)
(*                                                                         *)
(* A message is the sequence of its fields, one for each member; a field is *)
(* the sequence of its elements, of which a member that is not an array has *)
(* one.  An element is a datum, the sequence of a string's characters, or a *)
(* message.  The wire is a sequence of data, of the width they have.        *)
(*                                                                         *)
(* What is done with the messages of a type is a function of the type, by   *)
(* recursion: `nested' is that function for the types of the members.       *)
(***************************************************************************)
EXTENDS TypeInfo

CONSTANTS
  Values,   \* what there is in a message: the data, and the sequences of values
  Defaults  \* Defaults[t][i]: the default value declared for the i-th field of t, if any

Zero == 0
Check == 101   \* goes before every size on the wire

SubTypeSize(m) == Types[m.members].size

\* Only the C++ side knows wide strings.
IsKnown(language, m) == m.type_id = "WSTRING" => language = "CPP"

-----------------------------------------------------------------------------
(* Messages.                                                                *)

Elements(nested, m) ==
  CASE m.type_id = "PRIMITIVE" -> Nat
    [] m.type_id = "MESSAGE" -> nested[m.members]
    [] m.type_id \in {"STRING", "WSTRING"} -> Seq(Nat)

Fields(nested, m) ==
  {field \in Seq(Elements(nested, m)) :
     /\ ~m.is_array => Len(field) = 1
     /\ m.is_array /\ m.array_size > 0 /\ ~m.is_upper_bound => Len(field) = m.array_size}

Messages[t \in DOMAIN Types] ==
  LET nested == [u \in Subtypes[t] |-> Messages[u]]
  IN  {message \in Seq(Values) :
         /\ Len(message) = Len(Types[t].members)
         /\ \A i \in DOMAIN Types[t].members :
              message[i] \in Fields(nested, Types[t].members[i])}

\* Of data and strings, not of messages, an interface may declare a default value.
SerializationAssumption ==
  /\ DOMAIN Defaults = DOMAIN Types
  /\ \A t \in DOMAIN Types : \A i \in DOMAIN Defaults[t] :
       /\ i \in DOMAIN Types[t].members
       /\ ~is_complex_type(Types[t].members[i])
       /\ Defaults[t][i] \in Fields(<<>>, Types[t].members[i])

ASSUME SerializationAssumption

InitElement(nested, m) ==
  CASE m.type_id = "PRIMITIVE" -> Zero
    [] m.type_id = "MESSAGE" -> nested[m.members]
    [] m.type_id \in {"STRING", "WSTRING"} -> <<>>

InitField(nested, m) ==
  CASE IsSequence(m)   -> <<>>
    [] IsFixedArray(m) -> [k \in 1 .. m.array_size |-> InitElement(nested, m)]
    [] ~m.is_array     -> <<InitElement(nested, m)>>

\* What zeroed memory is taken for: every datum 0, strings and sequences empty.
ZeroMessage[t \in DOMAIN Types] ==
  LET nested == [u \in Subtypes[t] |-> ZeroMessage[u]]
  IN  [i \in DOMAIN Types[t].members |-> InitField(nested, Types[t].members[i])]

\* iceoryx_init_message: init_function with ALL sets the declared default values, in
\* the messages within the message too, and what has none to zero or empty.
InitMessage[t \in DOMAIN Types] ==
  LET nested == [u \in Subtypes[t] |-> InitMessage[u]]
  IN  [i \in DOMAIN Types[t].members |->
         IF i \in DOMAIN Defaults[t] THEN Defaults[t][i]
         ELSE InitField(nested, Types[t].members[i])]

-----------------------------------------------------------------------------
(* Serializing.                                                             *)

PushSequenceSize(n) == <<Check, n>>

SerializeString(chars) == PushSequenceSize(Len(chars)) \o chars

\* Before the elements, and only of a sequence, goes their number.
SizePrefix(m, n) == IF IsSequence(m) THEN PushSequenceSize(n) ELSE <<>>

\* How many messages of a field are serialized.  The C++ vector gives the bytes it
\* holds, the C sequence the elements; both are divided by the size of one element.
MessageCount(language, m, field) ==
  CASE ~IsSequence(m) -> Len(field)
    [] IsSequence(m) /\ language = "CPP" ->
         (Len(field) * SubTypeSize(m)) \div SubTypeSize(m)
    [] IsSequence(m) /\ language = "C" -> Len(field) \div SubTypeSize(m)

ElementCount(language, m, field) ==
  IF is_complex_type(m) THEN MessageCount(language, m, field) ELSE Len(field)

SerializeElement(nested, language, m, element) ==
  CASE m.type_id = "PRIMITIVE" -> <<element>>
    [] m.type_id = "MESSAGE" -> nested[m.members][language][element]
    [] m.type_id \in {"STRING", "WSTRING"} -> SerializeString(element)

SerializeField(nested, language, m, field) ==
  LET n == ElementCount(language, m, field)
  IN  SizePrefix(m, n)
        \o FlattenSeq([k \in 1 .. n |-> SerializeElement(nested, language, m, field[k])])

Serialize[t \in DOMAIN Types] ==
  LET nested == [u \in Subtypes[t] |-> Serialize[u]]
  IN  [language \in Languages |-> [message \in Messages[t] |->
         FlattenSeq([i \in DOMAIN Types[t].members |->
                       SerializeField(nested, language, Types[t].members[i], message[i])])]]

\* A member of unknown type, or more messages than the sequence's bound.
SerializeThrows[t \in DOMAIN Types] ==
  [language \in Languages |-> [message \in Messages[t] |->
     \E i \in DOMAIN Types[t].members :
       LET m == Types[t].members[i]
           n == ElementCount(language, m, message[i])
       IN  \/ ~IsKnown(language, m)
           \/ /\ is_complex_type(m)
              /\ \/ IsSequence(m) /\ m.is_upper_bound /\ n > m.array_size
                 \/ \E k \in 1 .. n : SerializeThrows[m.members][language][message[i][k]]]]

-----------------------------------------------------------------------------
(* Deserializing into a message that already has values.  What is read so   *)
(* far is [values, wire, status]; status is "ok", "thrown", "fault" when    *)
(* memory is written that was not allocated, or "moved" when a vector moved *)
(* objects that its type, a vector of bytes, does not know of.              *)

Statuses == {"ok", "moved", "thrown", "fault"}

Read(values, wire, status) == [values |-> values, wire |-> wire, status |-> status]

CanGoOn(r) == r.status \in {"ok", "moved"}

\* The status of two readings, one after the other.
Worse(first, second) == IF second = "ok" THEN first ELSE second

Then(r, next) == Read(Append(r.values, next.values), next.wire, Worse(r.status, next.status))

\* One after the other is read over the value that is there; what comes after the one
\* that fails stays as it is.  reader[i][w] is what is read from w over old[i].
ReadEach(reader, old, wire) ==
  LET upTo[i \in 0 .. Len(old)] ==
        IF i = 0 THEN Read(<<>>, wire, "ok")
        ELSE LET before == upTo[i - 1]
             IN  IF CanGoOn(before) THEN Then(before, reader[i][before.wire])
                 ELSE [before EXCEPT !.values = Append(@, old[i])]
  IN  upTo[Len(old)]

\* What follows the payload in the chunk is not the reader's: taken for zeros.
At(wire, k) == IF k <= Len(wire) THEN wire[k] ELSE Zero
Take(n, wire) == [k \in 1 .. n |-> At(wire, k)]
Drop(n, wire) == SubSeq(wire, n + 1, Len(wire))

PopFails(wire) == At(wire, 1) # Check
PoppedSize(wire) == At(wire, 2)
AfterSize(wire) == Drop(2, wire)

\* A C++ string of no characters is not assigned; a C string always is.
DeserializeString(language, old, wire) ==
  IF PopFails(wire) THEN Read(old, wire, "thrown")
  ELSE Read(IF language = "CPP" /\ PoppedSize(wire) = 0 THEN old
            ELSE Take(PoppedSize(wire), AfterSize(wire)),
            Drop(PoppedSize(wire), AfterSize(wire)), "ok")

\* Mutant: the vector only grows.
ResizeMutantGrowsOnly(field, n, element) ==
  [k \in 1 .. (IF n > Len(field) THEN n ELSE Len(field)) |->
     IF k <= Len(field) THEN field[k] ELSE element]

\* vector::resize.
Resize(field, n, element) ==
  [k \in 1 .. n |-> IF k <= Len(field) THEN field[k] ELSE element]

\* Where the n > 0 elements of a sequence that is not of messages are read to: the
\* resized vector, or what calloc returns.
Slots(language, m, field, n) ==
  Resize(IF language = "CPP" THEN field ELSE <<>>, n, InitElement(ZeroMessage, m))

\* Messages with strings in them, which may point into themselves.
HoldsStrings[t \in DOMAIN Types] ==
  \E m \in ToSet(Types[t].members) :
    /\ ~IsSequence(m)
    /\ m.type_id \in {"STRING", "WSTRING"} \/ (is_complex_type(m) /\ HoldsStrings[m.members])

\* The vector of bytes moves the messages it has when it grows; strings do not
\* survive it.
Moves(m, field, n) == 0 < Len(field) /\ Len(field) < n /\ HoldsStrings[m.members]

DeserializeElement(nested, language, m, old, wire) ==
  CASE m.type_id = "PRIMITIVE" -> Read(At(wire, 1), Drop(1, wire), "ok")
    [] m.type_id = "MESSAGE" -> nested[m.members][language][old][wire]
    [] m.type_id \in {"STRING", "WSTRING"} -> DeserializeString(language, old, wire)

DeserializeElements(nested, language, m, slots, wire) ==
  ReadEach([i \in DOMAIN slots |-> [w \in Seq(Nat) |->
              DeserializeElement(nested, language, m, slots[i], w)]], slots, wire)

\* A sequence of messages: C++ resizes the vector to what is on the wire, C writes to
\* the elements that are there, and its size stays.
DeserializeMessages(nested, language, m, field, n, wire) ==
  CASE language = "CPP" ->
         [DeserializeElements(nested, language, m,
                              Resize(field, n, InitElement(ZeroMessage, m)), wire)
            EXCEPT !.status = Worse(IF Moves(m, field, n) THEN "moved" ELSE "ok", @)]
    [] language = "C" /\ n <= Len(field) ->
         [DeserializeElements(nested, language, m, SubSeq(field, 1, n), wire)
            EXCEPT !.values = @ \o Drop(n, field)]
    [] language = "C" /\ n > Len(field) -> Read(field, wire, "fault")

DeserializeSequence(nested, language, m, field, wire) ==
  CASE PopFails(wire) -> Read(field, wire, "thrown")
    [] ~PopFails(wire) /\ is_complex_type(m) ->
         DeserializeMessages(nested, language, m, field, PoppedSize(wire), AfterSize(wire))
    [] ~PopFails(wire) /\ ~is_complex_type(m) /\ PoppedSize(wire) = 0 ->
         Read(field, AfterSize(wire), "ok")   \* left as it was
    [] ~PopFails(wire) /\ ~is_complex_type(m) /\ PoppedSize(wire) > 0 ->
         DeserializeElements(nested, language, m,
                             Slots(language, m, field, PoppedSize(wire)), AfterSize(wire))

DeserializeField(nested, language, m, field, wire) ==
  CASE ~IsKnown(language, m) -> Read(field, wire, "thrown")
    [] IsKnown(language, m) /\ IsSequence(m) ->
         DeserializeSequence(nested, language, m, field, wire)
    [] IsKnown(language, m) /\ ~IsSequence(m) ->
         DeserializeElements(nested, language, m, field, wire)

\* Mutant: the fields after the one that fails are lost.
DeserializeFieldsMutantCutsOff(nested, language, ms, old, wire) ==
  LET upTo[i \in 0 .. Len(ms)] ==
        IF i = 0 THEN Read(<<>>, wire, "ok")
        ELSE LET before == upTo[i - 1]
             IN  IF CanGoOn(before)
                   THEN Then(before, DeserializeField(nested, language, ms[i], old[i], before.wire))
                   ELSE before
  IN  upTo[Len(ms)]

DeserializeFields(nested, language, ms, old, wire) ==
  ReadEach([i \in DOMAIN ms |-> [w \in Seq(Nat) |->
              DeserializeField(nested, language, ms[i], old[i], w)]], old, wire)

Deserialize[t \in DOMAIN Types] ==
  LET nested == [u \in Subtypes[t] |-> Deserialize[u]]
  IN  [language \in Languages |-> [old \in Messages[t] |-> [wire \in Seq(Nat) |->
         DeserializeFields(nested, language, Types[t].members, old, wire)]]]

-----------------------------------------------------------------------------
(* References.                                                              *)

\* C++ serializes every type, C none with a wide string or a sequence of messages.
Supports(language, t) ==
  language = "C" =>
    \A m \in MembersWithin(t) :
      m.type_id # "WSTRING" /\ ~(is_complex_type(m) /\ IsSequence(m))

ElementReflects(nested, m, sent, got) ==
  CASE m.type_id = "PRIMITIVE" -> sent = got
    [] m.type_id = "MESSAGE" -> <<sent, got>> \in nested[m.members]
    [] m.type_id \in {"STRING", "WSTRING"} -> sent = <<>> \/ sent = got

FieldReflects(nested, m, sent, got) ==
  \/ sent = <<>> /\ ~is_complex_type(m)
  \/ /\ Len(sent) = Len(got)
     /\ \A k \in DOMAIN sent : ElementReflects(nested, m, sent[k], got[k])

\* The messages sent and got of which every field of the second is that of the first,
\* except that where an empty string or an empty sequence of data or strings was sent,
\* something else may have been got.
Reflects[t \in DOMAIN Types] ==
  LET nested == [u \in Subtypes[t] |-> Reflects[u]]
  IN  {p \in Messages[t] \X Messages[t] :
         \A i \in DOMAIN Types[t].members :
           FieldReflects(nested, Types[t].members[i], p[1][i], p[2][i])}

ElementCovers(nested, m, sent, old) ==
  CASE m.type_id = "PRIMITIVE" -> TRUE
    [] m.type_id = "MESSAGE" -> <<sent, old>> \in nested[m.members]
    [] m.type_id \in {"STRING", "WSTRING"} -> sent = <<>> => old = <<>>

FieldCovers(nested, m, sent, old) ==
  /\ sent = <<>> /\ ~is_complex_type(m) => old = <<>>
  /\ \A k \in DOMAIN sent \cap DOMAIN old : ElementCovers(nested, m, sent[k], old[k])

\* The messages sent and old of which the second has nothing wherever the first has an
\* empty string or an empty sequence of data or strings.
Covers[t \in DOMAIN Types] ==
  LET nested == [u \in Subtypes[t] |-> Covers[u]]
  IN  {p \in Messages[t] \X Messages[t] :
         \A i \in DOMAIN Types[t].members :
           FieldCovers(nested, Types[t].members[i], p[1][i], p[2][i])}
=============================================================================
