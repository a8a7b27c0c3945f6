------------------------------- MODULE Graph -------------------------------
(***************************************************************************)
(* The graph of nodes, topics and endpoints as one process sees it: the     *)
(* containers of fill_topic_containers in iceoryx_topic_names_and_types.cpp *)
(* and of rmw_get_node_names, and the queries that read them.               *)
(*                                                                         *)
(* The iceoryx daemon publishes a sample of all ports when one comes or     *)
(* goes, and one of all nodes; a receiver queues one sample, the latest.    *)
(* The containers are static: they keep what the last sample filled in      *)
(* until the next one.                                                      *)
(***************************************************************************)
EXTENDS Names

CONSTANTS
  RosNodes,    \* nodes that ROS applications create: [namespace, name]
  RosTopics,   \* [kinds, topic, support]: what they create endpoints of
  OtherPorts,  \* ports of applications that do not use ROS
  MaxPorts,    \* bound on the ports of the system
  MaxChanges   \* bound on the ports and nodes that come and go

Kinds == {"publisher", "subscription"}

\* A port, and what created it: the daemon does not know the latter.
RosPort(k, n, t) ==
  [kind |-> k, node |-> node_full_name(n), by |-> n, as |-> t,
   description |-> get_iceoryx_service_description(t.topic, t.support)]

RosPorts == UNION {{RosPort(k, n, t) : k \in t.kinds, n \in RosNodes} : t \in RosTopics}
Ports == RosPorts \cup OtherPorts

GraphAssumption ==
  /\ MaxPorts \in Nat
  /\ MaxChanges \in Nat
  /\ \A t \in RosTopics : t.kinds \subseteq Kinds \cup {"service"}

ASSUME GraphAssumption

Reported ==
  [d \in {p.description : p \in Ports} |-> get_name_n_type_from_service_description(d)]

\* The ports of a list that are wanted, in the list's order.
Those(list, wanted) ==
  LET kept[i \in 0 .. Len(list)] ==
        IF i = 0 THEN <<>>
        ELSE IF list[i] \in wanted THEN Append(kept[i - 1], list[i]) ELSE kept[i - 1]
  IN  kept[Len(list)]

FullNames == {p.node : p \in Ports} \cup {node_full_name(n) : n \in RosNodes}
TopicNames == {Reported[d].topic : d \in DOMAIN Reported}

\* port_receiver and process_receiver.
Receivers == {"ports", "nodes"}

VARIABLES
  nodes,      \* the nodes of ROS that exist
  ports,      \* the ports that exist, in the daemon's order
  changes,    \* how often one came or went
  published,  \* the last samples the daemon published
  receiver,   \* the state of a receiver, and of its queue once subscribed
  querying,   \* does a query sleep until its first sample arrives
  names,      \* names_n_types
  byNode,     \* byNode[k][n]: topics of node n, {subscribers,publishers}_topics
  byTopic,    \* byTopic[k][t]: nodes of topic t, topic_{subscribers,publishers}
  nodeNames,  \* node_names_set
  applied     \* the samples the containers were last filled from

system == <<nodes, ports, changes>>
containers == <<names, byNode, byTopic, nodeNames, applied>>
vars == <<system, published, receiver, querying, containers>>

ReceiverStates == {"unsubscribed", "subscribing", "empty", "full"}

TypeOK ==
  /\ nodes \subseteq RosNodes
  /\ ports \in Seq(Ports) /\ Len(ports) <= MaxPorts
  /\ changes \in 0 .. MaxChanges
  /\ \A view \in {published, applied} :
       DOMAIN view = Receivers /\ view.ports \in Seq(Ports) /\ view.nodes \subseteq RosNodes
  /\ receiver \in [Receivers -> ReceiverStates]
  /\ querying \in [Receivers -> BOOLEAN]
  /\ DOMAIN names \subseteq TopicNames
  /\ byNode \in [Kinds -> [FullNames -> Seq(TopicNames)]]
  /\ \A k \in Kinds, n \in FullNames : Len(byNode[k][n]) <= MaxPorts
  /\ byTopic \in [Kinds -> [TopicNames -> Seq(FullNames)]]
  /\ nodeNames \subseteq FullNames

NoSamples == [ports |-> <<>>, nodes |-> {}]

Init ==
  /\ nodes = {} /\ ports = <<>> /\ changes = 0
  /\ published = NoSamples
  /\ receiver = [r \in Receivers |-> "unsubscribed"]
  /\ querying = [r \in Receivers |-> FALSE]
  /\ names = <<>>
  /\ byNode = [k \in Kinds |-> [n \in FullNames |-> <<>>]]
  /\ byTopic = [k \in Kinds |-> [t \in TopicNames |-> <<>>]]
  /\ nodeNames = {}
  /\ applied = NoSamples

-----------------------------------------------------------------------------
(* The system and its daemon.                                               *)

Changes == changes < MaxChanges /\ changes' = changes + 1

CreateNode(n) ==
  /\ Changes
  /\ n \notin nodes
  /\ nodes' = nodes \cup {n}
  /\ UNCHANGED <<ports, published, receiver, querying, containers>>

IsOf(p, n) == p \in RosPorts /\ p.by = n

\* A node goes after its ports.
DestroyNode(n) ==
  /\ Changes
  /\ n \in nodes /\ \A i \in 1 .. Len(ports) : ~IsOf(ports[i], n)
  /\ nodes' = nodes \ {n}
  /\ UNCHANGED <<ports, published, receiver, querying, containers>>

\* No port comes of a name that cannot be converted.
CreatePort(p) ==
  /\ Changes
  /\ p.description # NoDescription
  /\ Len(ports) < MaxPorts
  /\ p \in RosPorts => p.by \in nodes
  /\ ports' = Append(ports, p)
  /\ UNCHANGED <<nodes, published, receiver, querying, containers>>

DestroyPort(i) ==
  /\ Changes
  /\ ports' = RemoveAt(ports, i)
  /\ UNCHANGED <<nodes, published, receiver, querying, containers>>

\* The sample of ports has no services.
Sample(r) ==
  IF r = "nodes" THEN nodes ELSE Those(ports, {p \in Ports : p.kind \in Kinds})

\* A sample replaces the one in the receiver's queue.
PublishSample(r) ==
  /\ published[r] # Sample(r)
  /\ published' = [published EXCEPT ![r] = Sample(r)]
  /\ receiver' = [receiver EXCEPT ![r] = IF @ \in {"empty", "full"} THEN "full" ELSE @]
  /\ UNCHANGED <<system, querying, containers>>

\* A new subscriber is given the last sample.
DeliverOnSubscribe(r) ==
  /\ receiver[r] = "subscribing"
  /\ receiver' = [receiver EXCEPT ![r] = "full"]
  /\ UNCHANGED <<system, published, querying, containers>>

-----------------------------------------------------------------------------
(* fill_topic_containers.                                                   *)

TopicOf(p) == Reported[p.description].topic
PortsOfNode(k, n) == {p \in Ports : p.kind = k /\ p.node = n}
PortsOfTopic(k, t) == {p \in Ports : p.kind = k /\ TopicOf(p) = t}

TopicsIn(sample, k, n) ==
  LET wanted == Those(sample, PortsOfNode(k, n))
  IN  [i \in 1 .. Len(wanted) |-> TopicOf(wanted[i])]

NodesIn(sample, k, t) ==
  LET wanted == Those(sample, PortsOfTopic(k, t))
  IN  [i \in 1 .. Len(wanted) |-> wanted[i].node]

\* A topic has the type of its last port, the subscriptions before the publishers.
NamesIn(sample) ==
  LET inOrder == Those(sample, {p \in Ports : p.kind = "subscription"})
                   \o Those(sample, {p \in Ports : p.kind # "subscription"})
      topics  == {TopicOf(inOrder[i]) : i \in 1 .. Len(inOrder)}
      LastOf(t) == Max({i \in 1 .. Len(inOrder) : TopicOf(inOrder[i]) = t})
  IN  [t \in topics |-> Reported[inOrder[LastOf(t)].description].type]

\* Mutant: the containers of nodes are appended to as well.
NodeViewMutantNotCleared(sample) ==
  /\ names' = NamesIn(sample)
  /\ byNode' = [k \in Kinds |-> [n \in FullNames |->
       byNode[k][n] \o TopicsIn(sample, k, n)]]

\* names_n_types, subscribers_topics and publishers_topics are cleared first ...
NodeView(sample) ==
  /\ names' = NamesIn(sample)
  /\ byNode' = [k \in Kinds |-> [n \in FullNames |-> TopicsIn(sample, k, n)]]

\* ... topic_subscribers and topic_publishers are not.
TopicView(sample) ==
  byTopic' = [k \in Kinds |-> [t \in TopicNames |->
    byTopic[k][t] \o NodesIn(sample, k, t)]]

\* rmw_get_node_names clears its set.
NodeNamesView(sample) == nodeNames' = {node_full_name(n) : n \in sample}

FillFrom(r) ==
  /\ \/ /\ r = "ports"
        /\ NodeView(published.ports) /\ TopicView(published.ports)
        /\ UNCHANGED nodeNames
     \/ /\ r = "nodes"
        /\ NodeNamesView(published.nodes)
        /\ UNCHANGED <<names, byNode, byTopic>>
  /\ applied' = [applied EXCEPT ![r] = published[r]]
  /\ receiver' = [receiver EXCEPT ![r] = "empty"]

\* The first query subscribes, and sleeps until a sample has arrived.
QuerySubscribes(r) ==
  /\ receiver[r] = "unsubscribed"
  /\ querying' = [querying EXCEPT ![r] = TRUE]
  /\ receiver' = [receiver EXCEPT ![r] = "subscribing"]
  /\ UNCHANGED <<system, published, containers>>

\* Mutant: the query goes on before its first sample has arrived.
QueryWakesMutantUnawaited(r) ==
  /\ querying[r]
  /\ querying' = [querying EXCEPT ![r] = FALSE]
  /\ UNCHANGED <<system, published, receiver, containers>>

QueryWakes(r) ==
  /\ querying[r] /\ receiver[r] = "full"
  /\ querying' = [querying EXCEPT ![r] = FALSE]
  /\ FillFrom(r)
  /\ UNCHANGED <<system, published>>

\* Mutant: the sample is taken and the containers stay.
QueryUpdatesMutantIgnored(r) ==
  /\ ~querying[r] /\ receiver[r] = "full"
  /\ receiver' = [receiver EXCEPT ![r] = "empty"]
  /\ UNCHANGED <<system, published, querying, containers>>

\* A later query takes the sample if there is one; if there is none it answers
\* from the containers as they are.
QueryUpdates(r) ==
  /\ ~querying[r] /\ receiver[r] = "full"
  /\ FillFrom(r)
  /\ UNCHANGED <<system, published, querying>>

Query(r) == QuerySubscribes(r) \/ QueryWakes(r) \/ QueryUpdates(r)

Next ==
  \/ \E n \in RosNodes : CreateNode(n) \/ DestroyNode(n)
  \/ \E p \in Ports : CreatePort(p)
  \/ \E i \in 1 .. Len(ports) : DestroyPort(i)
  \/ \E r \in Receivers : PublishSample(r) \/ DeliverOnSubscribe(r) \/ Query(r)

Spec == Init /\ [][Next]_vars

\* The daemon publishes its changes, and the process keeps asking for the graph.
FairSpec ==
  /\ Spec
  /\ \A r \in Receivers :
       /\ WF_vars(PublishSample(r)) /\ WF_vars(DeliverOnSubscribe(r))
       /\ WF_vars(Query(r))

-----------------------------------------------------------------------------
(* What the queries answer.                                                 *)

PositionsOf(q, x) == {i \in 1 .. Len(q) : q[i] = x}

\* rmw_count_publishers and rmw_count_subscribers: every occurrence of the topic with
\* every node.
Counted(k, t) ==
  Cardinality(UNION {{n} \X PositionsOf(byNode[k][n], t) : n \in FullNames})

\* rmw_get_{publisher,subscriber}_names_and_types_by_node: the types of the topics of
\* the node with this name, which is not cut off as those of the daemon are.
TopicsOfNode(k, n) ==
  LET topics == {t \in TopicNames : full_name(n) \in FullNames
                                    /\ Contains(byNode[k][full_name(n)], t)}
  IN  [t \in topics |-> names[t]]

\* rmw_get_service_names_and_types asks the daemon, at once.
ServiceNames ==
  LET services == Those(ports, {p \in Ports : p.kind = "service"})
  IN  {Reported[services[i].description] : i \in 1 .. Len(services)}

EndpointInfo(type, full) ==
  [node |-> get_name_n_space_from_node_full_name(full), type |-> type]

\* rmw_get_{publishers,subscriptions}_info_by_topic, for a topic that has a type.
EndpointInfos(k, t) ==
  [i \in 1 .. Len(byTopic[k][t]) |-> EndpointInfo(names[t], byTopic[k][t][i])]

\* rmw_get_node_names.
NodeNames == {get_name_n_space_from_node_full_name(full) : full \in nodeNames}

-----------------------------------------------------------------------------
(* Properties.                                                              *)

\* Nodes are told from one another, and from those of applications that do not use ROS,
\* by names that are not cut off.  ROS asks this of its users; nothing enforces it.
NodesAreTold ==
  /\ \A n \in RosNodes : full_name(n) = node_full_name(n)
  /\ \A n, m \in RosNodes : node_full_name(n) = node_full_name(m) => n = m
  /\ \A n \in RosNodes, p \in OtherPorts \ RosPorts : p.node # node_full_name(n)

\* What tells the names of topics apart: each description is one that the names of ROS,
\* of AUTOSAR or of the daemon stand for.
TopicsAreTold ==
  \A d \in {p.description : p \in Ports} \ {NoDescription} :
    IsDescription(d) /\ (IsOfRos(d) \/ IsOfAutosar(d) \/ IsOfTheDaemon(d))

\* A type has one name, and one namespace in each language.
TypesAreTold ==
  \A t, u \in RosTopics : t.type = u.type =>
    t.support.name = u.support.name /\ SameNamespace(t.support.namespace, u.support.namespace)

\* The queries by node and the counts of a topic agree with one another and with one
\* sample of the daemon, however many samples came, and overwrote each other, between
\* two queries: a node, asked for by the names it was created with, has the topics of
\* its own ports.
NodeQueriesAreASnapshot ==
  \A k \in Kinds :
    /\ \A n \in RosNodes :
         LET own == Those(applied.ports, {p \in Ports : p.kind = k /\ IsOf(p, n)})
         IN  /\ DOMAIN TopicsOfNode(k, n) = {TopicOf(own[i]) : i \in 1 .. Len(own)}
             /\ Len(byNode[k][node_full_name(n)]) = Len(own)
    /\ \A t \in TopicNames :
         /\ Counted(k, t) = Len(Those(applied.ports, PortsOfTopic(k, t)))
         /\ Counted(k, t) > 0 => t \in DOMAIN names

\* A query is answered from the daemon's last sample, or that sample waits for the
\* next one: never from containers that no sample has filled.
ViewLagsOneSample ==
  \A r \in Receivers : receiver[r] # "unsubscribed" /\ ~querying[r] =>
    applied[r] = published[r] \/ receiver[r] = "full"

\* What the graph reports can be subscribed to, or called: a topic and its type, and
\* a service and its type, convert back to the description of a port that has them,
\* though two types of one topic overwrite each other and long names are cut off.
ReportedLeadsToAPort ==
  LET Leads(topic, type, all) ==
        \E i \in 1 .. Len(all) : all[i].description = make_service_description(topic, type)
  IN  /\ \A t \in DOMAIN names : Leads(t, names[t], applied.ports)
      /\ \A s \in ServiceNames : Leads(s.topic, s.type, ports)

\* Endpoints of one topic and one type meet in one description, also when the type
\* supports of one are those of C and of the other those of C++.
LanguagesMeet ==
  \A i, j \in 1 .. Len(ports) :
    LET p == ports[i]
        q == ports[j]
    IN  /\ {p, q} \subseteq RosPorts
        /\ p.as.topic = q.as.topic /\ p.as.type = q.as.type
        => p.description = q.description

\* The process comes to see the graph as it is.
GraphIsSeen == \A r \in Receivers : <>[](applied[r] = Sample(r))

\* The endpoint queries return the nodes of one topic, as their header says: each
\* port of the sample once, and nothing else.
EndpointQueriesAreASnapshot ==
  \A k \in Kinds, t \in DOMAIN names :
    LET wanted == Those(applied.ports, PortsOfTopic(k, t))
    IN  EndpointInfos(k, t) =
          [i \in 1 .. Len(wanted) |-> EndpointInfo(names[t], wanted[i].node)]

\* The names of nodes lead, as the header of the conversion says, to the name and the
\* namespace the node was created with, the root namespace being empty.
NodesAreNamedAsCreated ==
  NodeNames \subseteq
    {[name |-> n.name, namespace |-> IF n.namespace = <<"/">> THEN <<>> ELSE n.namespace] :
       n \in RosNodes}
=============================================================================
