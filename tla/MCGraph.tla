------------------------------ MODULE MCGraph ------------------------------
(***************************************************************************)
(* Finite instances of Graph for TLC: two nodes, one outside the root       *)
(* namespace; topics of ROS, one of them with two types and one too long    *)
(* for iceoryx; a topic of AUTOSAR; the daemon's own; and a service.        *)
(***************************************************************************)
EXTENDS Graph

MCWords == STRING
MCLower == [w \in {"Radar", "RADAR"} |-> "radar"]

Talker == [namespace |-> <<"/">>, name |-> <<"talker">>]
Listener == [namespace |-> <<"/", "ns">>, name |-> <<"listener">>]

Cpp(package, folder, name) ==
  [namespace |-> package \o <<"::", folder>>, name |-> <<name>>]
C(package, folder, name) ==
  [namespace |-> package \o <<"__", folder>>, name |-> <<name>>]

Topic(kinds, topic, type, support) ==
  [kinds |-> kinds, topic |-> topic, type |-> type, support |-> support]

Chatter == <<"/", "chatter">>
Long == <<"/", "a", "/", "b", "/", "c", "/", "d", "/", "e">>
RadarTopic == <<"/", "front", "/", "Radar", "/", "objects">>
RouDiTopic == <<"/", "_iceoryx", "/", "RouDi", "/", "Introspection", "/", "ports">>

MCTopics ==
  {Topic(Kinds, Chatter, "String", Cpp(<<"std_msgs">>, "msg", "String")),
   Topic({"subscription"}, Chatter, "String", C(<<"std_msgs">>, "msg", "String")),
   Topic({"publisher"}, Chatter, "Bool", Cpp(<<"std_msgs">>, "msg", "Bool")),
   Topic({"publisher"}, Long, "String", Cpp(<<"std_msgs">>, "msg", "String")),
   Topic({"subscription"}, RadarTopic, "objects",
         Cpp(<<"radar", "_ara_msgs">>, "msg", "objects")),
   Topic({"subscription"}, RouDiTopic, "ports",
         Cpp(<<"iceoryx_introspection_msgs">>, "msg", "ports")),
   Topic({"service"}, <<"/", "add">>, "Add", Cpp(<<"srvs">>, "srv", "Add"))}

Other(node, service, instance, event) ==
  [kind |-> "publisher", node |-> <<node>>,
   description |-> [service |-> <<service>>, instance |-> <<instance>>, event |-> <<event>>]]

MCOthers ==
  {Other("ara", "Radar", "front", "objects"),
   Other("roudi", "Introspection", "RouDi", "ports")}

MCNodes == {Talker, Listener}

\* What the theorems of GraphProofs assume of names holds here.
ASSUME NodesAreTold
ASSUME TopicsAreTold
ASSUME TypesAreTold
=============================================================================
