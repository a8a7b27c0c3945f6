----------------------------- MODULE MCPayload -----------------------------
(***************************************************************************)
(* A finite instance of Payload for TLC: types of every shape, two of which *)
(* differ in their namespace only, with and without default values, and     *)
(* messages of them with and without empty strings and sequences.           *)
(***************************************************************************)
EXTENDS Payload, TLC

Plain(id) == [type_id |-> id, is_array |-> FALSE, array_size |-> 0,
              is_upper_bound |-> FALSE, members |-> NoType]
Array(m, n) == [m EXCEPT !.is_array = TRUE, !.array_size = n]
Bounded(m, n) == [m EXCEPT !.is_array = TRUE, !.array_size = n, !.is_upper_bound = TRUE]
Sequence(m) == [m EXCEPT !.is_array = TRUE]
Of(t) == [Plain("MESSAGE") EXCEPT !.members = t]

Type(namespace, name, members, size) ==
  [namespace |-> namespace, name |-> name, members |-> members, size |-> size]

Datum == Plain("PRIMITIVE")
Text == Plain("STRING")

MCValues == Any

TypeNames ==
  {"point", "label", "polygon", "flag", "box", "lists", "multi", "wide"}

MCTypes ==
  [t \in TypeNames |->
     CASE t = "point" -> Type("geometry", "Point", <<Datum, Array(Datum, 2)>>, 3)
       [] t = "label" -> Type("labels", "Point", <<Text>>, 32)
       [] t = "polygon" -> Type("geometry", "Polygon", <<Sequence(Of("point"))>>, 24)
       [] t = "flag" -> Type("std", "Flag", <<Datum>>, 1)
       [] t = "box" -> Type("geometry", "Box", <<Of("point"), Array(Of("flag"), 2)>>, 5)
       [] t = "lists" -> Type("std", "Lists", <<Sequence(Datum), Bounded(Datum, 2), Sequence(Text)>>, 72)
       [] t = "multi" -> Type("std", "Multi", <<Sequence(Of("label")), Bounded(Of("flag"), 2)>>, 48)
       [] t = "wide" -> Type("std", "Wide", <<Plain("WSTRING"), Text>>, 64)]

MCInterfaces ==
  {<<"point">>, <<"polygon">>, <<"lists">>, <<"multi">>, <<"wide">>, <<"box", "label">>}

APoint == <<<<1>>, <<2, 1>>>>

MCFixtures ==
  [t \in TypeNames |->
     CASE t = "point" -> {APoint}
       [] t = "label" -> {<<<<<<>>>>>>, <<<<<<1, 2>>>>>>}
       [] t = "polygon" -> {<<<<>>>>, <<<<APoint, APoint>>>>}
       [] t = "flag" -> {<<<<1>>>>}
       [] t = "box" -> {<<<<APoint>>, <<<<<<1>>>>, <<<<2>>>>>>>>}
       [] t = "lists" -> {<<<<>>, <<1>>, <<<<1>>, <<2, 2>>>>>>, <<<<1, 2>>, <<2, 1>>, <<<<>>>>>>}
       [] t = "multi" -> {<<<<<<<<<<1, 1>>>>>>, <<<<<<>>>>>>>>, <<>>>>, <<<<<<<<<<2>>>>>>>>, <<<<<<1>>>>>>>>}
       [] t = "wide" -> {<<<<<<1>>>>, <<<<>>>>>>, <<<<<<>>>>, <<<<2, 1>>>>>>}]

MCDefaults ==
  [t \in TypeNames |->
     CASE t = "label" -> 1 :> <<<<2>>>>
       [] t = "flag" -> 1 :> <<2>>
       [] t = "lists" -> 1 :> <<2, 1>>
       [] OTHER -> <<>>]
=============================================================================
