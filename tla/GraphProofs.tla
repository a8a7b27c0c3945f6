---------------------------- MODULE GraphProofs ----------------------------
(***************************************************************************)
(* What the queries of the graph answer, and where the names they answer     *)
(* lead, for any nodes, ports and names.                                    *)
(***************************************************************************)
EXTENDS Graph, Induction, SequenceTheorems

\* Each receiver has a state, a sample it was last filled from and one that the daemon
\* published last.
Receiving ==
  /\ receiver \in [Receivers -> ReceiverStates]
  /\ querying \in [Receivers -> BOOLEAN]
  /\ DOMAIN published = Receivers /\ published = [r \in Receivers |-> published[r]]
  /\ DOMAIN applied = Receivers /\ applied = [r \in Receivers |-> applied[r]]

\* Only a query that sleeps has subscribed without having a sample yet.
SubscribersSleep ==
  \A r \in Receivers : receiver[r] = "subscribing" => querying[r]

\* The inductive invariant that the lag of one sample needs.
LagInv == Receiving /\ SubscribersSleep /\ ViewLagsOneSample

\* At first nobody has asked.
LEMMA InitLagInv == Init => LagInv
BY DEF Init, LagInv, Receiving, SubscribersSleep, ViewLagsOneSample, Receivers,
       ReceiverStates, NoSamples

\* A sample comes: it waits in the queue, or the query that subscribed still sleeps.
LEMMA PublishLagInv ==
  ASSUME LagInv, NEW r \in Receivers, PublishSample(r) \/ DeliverOnSubscribe(r)
  PROVE  LagInv'
BY DEF LagInv, PublishSample, DeliverOnSubscribe, Receiving, SubscribersSleep,
       ViewLagsOneSample, ReceiverStates, containers

\* A query fills the containers from the last sample, or begins to sleep.
LEMMA QueryLagInv ==
  ASSUME LagInv, NEW r \in Receivers, Query(r)
  PROVE  LagInv'
<1> USE DEF LagInv, Receiving, SubscribersSleep, ViewLagsOneSample, ReceiverStates
<1>1. CASE QuerySubscribes(r)
  BY <1>1 DEF QuerySubscribes, containers
<1>2. CASE QueryWakes(r)
  BY <1>2 DEF QueryWakes, FillFrom
<1>3. CASE QueryUpdates(r)
  BY <1>3 DEF QueryUpdates, FillFrom
<1> QED BY <1>1, <1>2, <1>3 DEF Query

\* Every step keeps what a query knows of its receiver.
LEMMA StepLagInv == LagInv /\ [Next]_vars => LagInv'
<1> SUFFICES ASSUME LagInv, [Next]_vars PROVE LagInv'
  OBVIOUS
<1>1. CASE UNCHANGED <<published, receiver, querying, containers>>
  BY <1>1 DEF LagInv, Receiving, SubscribersSleep, ViewLagsOneSample, containers
<1>2. CASE \E r \in Receivers : PublishSample(r) \/ DeliverOnSubscribe(r) \/ Query(r)
  BY <1>2, PublishLagInv, QueryLagInv
<1>3. CASE \/ \E n \in RosNodes : CreateNode(n) \/ DestroyNode(n)
           \/ \E p \in Ports : CreatePort(p)
           \/ \E i \in 1 .. Len(ports) : DestroyPort(i)
  BY <1>1, <1>3 DEF CreateNode, DestroyNode, CreatePort, DestroyPort
<1> QED BY <1>1, <1>2, <1>3 DEF Next, vars

\* A query that has had its first sample answers from the daemon's last one, unless that
\* one waits for the next query, whatever came and went in between.
THEOREM ViewsLagOneSample == Spec => []ViewLagsOneSample
<1>1. Init => LagInv
  BY InitLagInv
<1>2. LagInv /\ [Next]_vars => LagInv'
  BY StepLagInv
<1>3. LagInv => ViewLagsOneSample
  BY DEF LagInv
<1> QED BY <1>1, <1>2, <1>3, PTL DEF Spec

-----------------------------------------------------------------------------
(* The ports that are wanted of a list.                                     *)

\* e takes each position of `kept' to the one of the list that it was taken from: all
\* that are wanted among the first n, each once.
Traces(e, kept, list, wanted, n) ==
  /\ e \in Bijection(1 .. Len(kept), {j \in 1 .. n : list[j] \in wanted})
  /\ \A i \in 1 .. Len(kept) : kept[i] = list[e[i]]

\* One more is looked at.
LEMMA TracesGoOn ==
  ASSUME NEW P, NEW list \in Seq(P), NEW wanted, NEW n \in 1 .. Len(list),
         NEW kept \in Seq(P), NEW e, Traces(e, kept, list, wanted, n - 1),
         NEW more, more = IF list[n] \in wanted THEN Append(kept, list[n]) ELSE kept
  PROVE  \E f : Traces(f, more, list, wanted, n)
<1> DEFINE Before == {j \in 1 .. n - 1 : list[j] \in wanted}
           Now == {j \in 1 .. n : list[j] \in wanted}
<1>1. /\ e \in [1 .. Len(kept) -> Before]
      /\ \A i, j \in 1 .. Len(kept) : e[i] = e[j] => i = j
      /\ \A j \in Before : \E i \in 1 .. Len(kept) : e[i] = j
      /\ \A i \in 1 .. Len(kept) : kept[i] = list[e[i]]
  BY DEF Traces, Bijection, Injection, Surjection, IsInjective
<1>2. CASE list[n] \notin wanted
  <2>1. Now = Before
    BY <1>2
  <2>2. more = kept
    BY <1>2
  <2> QED BY <2>1, <2>2 DEF Traces
<1>3. CASE list[n] \in wanted
  <2> DEFINE f == [i \in 1 .. Len(kept) + 1 |-> IF i = Len(kept) + 1 THEN n ELSE e[i]]
  <2>1. /\ more \in Seq(P) /\ Len(more) = Len(kept) + 1
        /\ \A i \in 1 .. Len(kept) : more[i] = kept[i]
        /\ more[Len(kept) + 1] = list[n]
    BY <1>3
  <2>2. Now = Before \cup {n} /\ n \notin Before
    BY <1>3
  <2>3. f \in [1 .. Len(kept) + 1 -> Now]
    BY <1>1, <2>2
  <2>4. ASSUME NEW i \in 1 .. Len(kept) + 1, NEW j \in 1 .. Len(kept) + 1, f[i] = f[j]
        PROVE  i = j
    <3>1. i \in 1 .. Len(kept) => f[i] \in Before
      BY <1>1
    <3>2. j \in 1 .. Len(kept) => f[j] \in Before
      BY <1>1
    <3> QED BY <1>1, <2>2, <2>4, <3>1, <3>2
  <2>5. ASSUME NEW j \in Now PROVE \E i \in 1 .. Len(kept) + 1 : f[i] = j
    <3>1. CASE j = n
      BY <3>1
    <3>2. CASE j \in Before
      <4>1. PICK i \in 1 .. Len(kept) : e[i] = j
        BY <1>1, <3>2
      <4>2. f[i] = j
        BY <4>1
      <4> QED BY <4>2
    <3> QED BY <2>2, <3>1, <3>2
  <2>6. f \in Bijection(1 .. Len(more), Now)
    <3> HIDE DEF f, Now
    <3> QED BY <2>1, <2>3, <2>4, <2>5 DEF Bijection, Injection, Surjection, IsInjective
  <2>7. \A i \in 1 .. Len(more) : more[i] = list[f[i]]
    BY <1>1, <2>1
  <2> HIDE DEF f
  <2> QED BY <2>6, <2>7 DEF Traces
<1> QED BY <1>2, <1>3

\* The wanted ports of a list are those of the positions that are wanted.
LEMMA ThoseAreTheWanted ==
  ASSUME NEW P, NEW list \in Seq(P), NEW wanted
  PROVE  /\ Those(list, wanted) \in Seq(P)
         /\ Len(Those(list, wanted)) <= Len(list)
         /\ \E e : Traces(e, Those(list, wanted), list, wanted, Len(list))
<1> DEFINE n == Len(list)
           step == [i \in 1 .. n |-> [kept \in Seq(P) |->
                      IF list[i] \in wanted THEN Append(kept, list[i]) ELSE kept]]
           Equation(f) == f = [i \in 0 .. n |->
             IF i = 0 THEN <<>>
             ELSE IF list[i] \in wanted THEN Append(f[i - 1], list[i]) ELSE f[i - 1]]
<1>1. n \in Nat
  OBVIOUS
<1>2. PICK f \in [0 .. n -> Seq(P)] :
        f[0] = <<>> /\ \A i \in 1 .. n : f[i] = step[i][f[i - 1]]
  <2> DEFINE V == Seq(P)
             none == <<>>
  <2>1. none \in V /\ step \in [1 .. n -> [V -> V]]
    OBVIOUS
  <2> HIDE DEF n, step, V, none
  <2>2. \E f \in [0 .. n -> V] : GoesBySteps(f, n, none, step)
    BY <1>1, <2>1, StepsRecursion
  <2> QED BY <2>2 DEF V, none, GoesBySteps
<1>3. ASSUME NEW i \in 1 .. n
      PROVE  /\ f[i - 1] \in Seq(P)
             /\ f[i] = IF list[i] \in wanted THEN Append(f[i - 1], list[i]) ELSE f[i - 1]
  <2>1. i - 1 \in 0 .. n
    BY <1>1
  <2> QED BY <1>2, <2>1
<1>4. Equation(f)
  <2>1. ASSUME NEW i \in 0 .. n
        PROVE  f[i] = IF i = 0 THEN <<>>
                      ELSE IF list[i] \in wanted THEN Append(f[i - 1], list[i]) ELSE f[i - 1]
    <3>1. i = 0 \/ i \in 1 .. n
      BY <1>1
    <3> QED BY <1>2, <1>3, <3>1
  <2> HIDE DEF n, step
  <2> QED BY <1>2, <2>1
<1> DEFINE chosen == CHOOSE g : Equation(g)
<1>5. Equation(chosen)
  BY <1>4, Zenon
<1>6. Those(list, wanted) = chosen[n]
  BY DEF Those
<1> HIDE DEF step
<1>7. ASSUME NEW i \in 0 .. n
      PROVE  chosen[i] = IF i = 0 THEN <<>>
                         ELSE IF list[i] \in wanted THEN Append(chosen[i - 1], list[i])
                              ELSE chosen[i - 1]
  <2> HIDE DEF chosen
  <2> QED BY <1>5
<1> HIDE DEF chosen, Equation
<1> DEFINE Good == {i \in Nat : i <= n =>
             /\ chosen[i] \in Seq(P) /\ Len(chosen[i]) <= i
             /\ \E e : Traces(e, chosen[i], list, wanted, i)}
<1>8. 0 \in Good
  <2>1. chosen[0] = <<>>
    BY <1>1, <1>7
  <2>2. {j \in 1 .. 0 : list[j] \in wanted} = {} /\ 1 .. Len(<<>>) = {}
    OBVIOUS
  <2>3. <<>> \in Bijection({}, {})
    BY DEF Bijection, Injection, Surjection, IsInjective
  <2>4. Traces(<<>>, <<>>, list, wanted, 0)
    BY <2>2, <2>3 DEF Traces
  <2>5. <<>> \in Seq(P) /\ Len(<<>>) = 0
    OBVIOUS
  <2>6. \E e : Traces(e, chosen[0], list, wanted, 0)
    BY <2>1, <2>4
  <2>7. chosen[0] \in Seq(P) /\ Len(chosen[0]) <= 0
    BY <2>1, <2>5
  <2> QED BY <2>6, <2>7
<1>9. ASSUME NEW i \in Nat, i \in Good PROVE i + 1 \in Good
  <2> SUFFICES ASSUME i + 1 <= n
               PROVE  /\ chosen[i + 1] \in Seq(P) /\ Len(chosen[i + 1]) <= i + 1
                      /\ \E e : Traces(e, chosen[i + 1], list, wanted, i + 1)
    OBVIOUS
  <2>1. /\ chosen[i] \in Seq(P) /\ Len(chosen[i]) <= i
        /\ \E e : Traces(e, chosen[i], list, wanted, i)
    BY <1>1, <1>9
  <2>2. i + 1 \in 0 .. n /\ i + 1 \in 1 .. Len(list) /\ (i + 1) - 1 = i
    BY <1>1
  <2>3. chosen[i + 1] = IF list[i + 1] \in wanted THEN Append(chosen[i], list[i + 1])
                        ELSE chosen[i]
    BY <1>7, <2>2
  <2>4. chosen[i + 1] \in Seq(P) /\ Len(chosen[i + 1]) <= i + 1
    BY <2>1, <2>2, <2>3
  <2>5. PICK e : Traces(e, chosen[i], list, wanted, (i + 1) - 1)
    BY <2>1, <2>2
  <2>6. \E g : Traces(g, chosen[i + 1], list, wanted, i + 1)
    BY <2>1, <2>2, <2>3, <2>5, TracesGoOn
  <2> QED BY <2>4, <2>6
<1>10. n \in Good
  <2> HIDE DEF Good
  <2> QED BY <1>1, <1>8, <1>9, NumbersInduction
<1> QED BY <1>6, <1>10

-----------------------------------------------------------------------------
(* The containers hold what a sample says.                                  *)

\* What a port is reported as.
LEMMA PortsAreReported ==
  \A p \in Ports : TopicOf(p) \in TopicNames /\ p.node \in FullNames
BY DEF TopicOf, TopicNames, FullNames, Reported

\* The topics of a node are topics, no more than the list has ports.
LEMMA TopicsInType ==
  ASSUME NEW list \in Seq(Ports), NEW k, NEW n
  PROVE  /\ TopicsIn(list, k, n) \in Seq(TopicNames)
         /\ Len(TopicsIn(list, k, n)) = Len(Those(list, PortsOfNode(k, n)))
         /\ Len(TopicsIn(list, k, n)) <= Len(list)
<1> DEFINE wanted == Those(list, PortsOfNode(k, n))
<1>1. wanted \in Seq(Ports) /\ Len(wanted) <= Len(list)
  BY ThoseAreTheWanted
<1>2. TopicsIn(list, k, n) = [i \in 1 .. Len(wanted) |-> TopicOf(wanted[i])]
  BY DEF TopicsIn
<1> HIDE DEF wanted
<1>3. \A i \in 1 .. Len(wanted) : TopicOf(wanted[i]) \in TopicNames
  BY <1>1, PortsAreReported
<1>4. Len(wanted) \in Nat
  BY <1>1
<1>5. /\ TopicsIn(list, k, n) \in Seq(TopicNames)
      /\ Len(TopicsIn(list, k, n)) = Len(wanted)
  BY <1>2, <1>3, <1>4
<1> QED BY <1>1, <1>5 DEF wanted

\* The nodes of a topic are nodes.
LEMMA NodesInType ==
  ASSUME NEW list \in Seq(Ports), NEW k, NEW t
  PROVE  NodesIn(list, k, t) \in Seq(FullNames)
<1> DEFINE wanted == Those(list, PortsOfTopic(k, t))
<1>1. wanted \in Seq(Ports)
  BY ThoseAreTheWanted
<1>2. NodesIn(list, k, t) = [i \in 1 .. Len(wanted) |-> wanted[i].node]
  BY DEF NodesIn
<1> HIDE DEF wanted
<1>3. \A i \in 1 .. Len(wanted) : wanted[i].node \in FullNames
  BY <1>1, PortsAreReported
<1>4. Len(wanted) \in Nat
  BY <1>1
<1> QED BY <1>2, <1>3, <1>4

\* What has a type is a topic.
LEMMA NamesInType ==
  ASSUME NEW list \in Seq(Ports)
  PROVE  DOMAIN NamesIn(list) \subseteq TopicNames
<1> DEFINE inOrder == Those(list, {p \in Ports : p.kind = "subscription"})
                        \o Those(list, {p \in Ports : p.kind # "subscription"})
<1>1. inOrder \in Seq(Ports)
  BY ThoseAreTheWanted
<1>2. DOMAIN NamesIn(list) = {TopicOf(inOrder[i]) : i \in 1 .. Len(inOrder)}
  BY DEF NamesIn
<1> HIDE DEF inOrder
<1> QED BY <1>1, <1>2, PortsAreReported

\* The system and the samples of it are of what there is.
SystemTyped ==
  /\ nodes \subseteq RosNodes
  /\ ports \in Seq(Ports) /\ Len(ports) <= MaxPorts
  /\ changes \in 0 .. MaxChanges

SampleTyped(view) ==
  view.ports \in Seq(Ports) /\ Len(view.ports) <= MaxPorts /\ view.nodes \subseteq RosNodes

\* The containers that are cleared are those of the sample they were last filled from;
\* those that are not hold nodes.
Filled ==
  /\ names = NamesIn(applied.ports)
  /\ byNode = [k \in Kinds |-> [n \in FullNames |-> TopicsIn(applied.ports, k, n)]]
  /\ nodeNames = {node_full_name(n) : n \in applied.nodes}
  /\ byTopic \in [Kinds -> [TopicNames -> Seq(FullNames)]]

\* The inductive invariant of the containers.
GraphInv ==
  Receiving /\ SystemTyped /\ SampleTyped(published) /\ SampleTyped(applied) /\ Filled

\* At first there are no ports, and none are reported.
LEMMA InitGraphInv == Init => GraphInv
<1> SUFFICES ASSUME Init PROVE GraphInv
  OBVIOUS
<1>1. Receiving
  BY InitLagInv DEF LagInv
<1>2. <<>> \in Seq(Ports) /\ Len(<<>>) = 0
  OBVIOUS
<1>3. SystemTyped /\ SampleTyped(published) /\ SampleTyped(applied)
  BY <1>2, GraphAssumption DEF GraphAssumption, Init, SystemTyped, SampleTyped, NoSamples
<1>4. applied.ports = <<>> /\ applied.nodes = {}
  BY DEF Init, NoSamples
<1>5. ASSUME NEW wanted PROVE Those(<<>>, wanted) = <<>>
  <2>1. Those(<<>>, wanted) \in Seq(Ports) /\ Len(Those(<<>>, wanted)) <= 0
    BY <1>2, ThoseAreTheWanted
  <2> QED BY <2>1
<1>6. \A k, n : TopicsIn(<<>>, k, n) = <<>>
  BY <1>5 DEF TopicsIn
<1>7. NamesIn(<<>>) = <<>>
  <2> DEFINE inOrder == Those(<<>>, {p \in Ports : p.kind = "subscription"})
                          \o Those(<<>>, {p \in Ports : p.kind # "subscription"})
  <2>1. Len(inOrder) = 0
    BY <1>5
  <2>2. DOMAIN NamesIn(<<>>) = {}
    <3>1. DOMAIN NamesIn(<<>>) = {TopicOf(inOrder[i]) : i \in 1 .. Len(inOrder)}
      BY DEF NamesIn
    <3> HIDE DEF inOrder
    <3>2. 1 .. Len(inOrder) = {}
      BY <2>1
    <3> QED BY <3>1, <3>2
  <2>3. NamesIn(<<>>) = [t \in {} |-> NamesIn(<<>>)[t]]
    BY <2>2 DEF NamesIn
  <2> QED BY <2>2, <2>3
<1>8. Filled
  BY <1>4, <1>6, <1>7 DEF Init, Filled
<1> QED BY <1>1, <1>3, <1>8 DEF GraphInv

\* Nodes and ports come and go without a query.
LEMMA SystemGraphInv ==
  ASSUME GraphInv,
         \/ \E n \in RosNodes : CreateNode(n) \/ DestroyNode(n)
         \/ \E p \in Ports : CreatePort(p)
         \/ \E i \in 1 .. Len(ports) : DestroyPort(i)
  PROVE  GraphInv'
<1>1. UNCHANGED <<published, receiver, querying, containers>>
  BY DEF CreateNode, DestroyNode, CreatePort, DestroyPort
<1>2. (Receiving /\ SampleTyped(published) /\ SampleTyped(applied) /\ Filled)'
  BY <1>1 DEF GraphInv, Receiving, SampleTyped, Filled, containers
<1>3. changes' \in 0 .. MaxChanges
  BY GraphAssumption DEF GraphAssumption, GraphInv, SystemTyped, CreateNode, DestroyNode, CreatePort,
                         DestroyPort, Changes
<1>4. nodes' \subseteq RosNodes
  BY DEF GraphInv, SystemTyped, CreateNode, DestroyNode, CreatePort, DestroyPort
<1>5. ports' \in Seq(Ports) /\ Len(ports') <= MaxPorts
  <2> USE DEF GraphInv, SystemTyped
  <2>1. CASE \E n \in RosNodes : CreateNode(n) \/ DestroyNode(n)
    BY <2>1 DEF CreateNode, DestroyNode
  <2>2. CASE \E p \in Ports : CreatePort(p)
    BY <2>2, GraphAssumption DEF GraphAssumption, CreatePort
  <2>3. CASE \E i \in 1 .. Len(ports) : DestroyPort(i)
    <3>1. PICK i \in 1 .. Len(ports) : ports' = RemoveAt(ports, i)
      BY <2>3 DEF DestroyPort
    <3>2. /\ SubSeq(ports, 1, i - 1) \in Seq(Ports)
          /\ SubSeq(ports, i + 1, Len(ports)) \in Seq(Ports)
          /\ Len(SubSeq(ports, 1, i - 1)) = i - 1
          /\ Len(SubSeq(ports, i + 1, Len(ports))) = Len(ports) - i
      OBVIOUS
    <3>3. ports' = SubSeq(ports, 1, i - 1) \o SubSeq(ports, i + 1, Len(ports))
      BY <3>1 DEF RemoveAt
    <3> DEFINE before == SubSeq(ports, 1, i - 1)
               after == SubSeq(ports, i + 1, Len(ports))
    <3> HIDE DEF before, after
    <3>4. ports' \in Seq(Ports) /\ Len(ports') = Len(before) + Len(after)
      BY <3>2, <3>3 DEF before, after
    <3>5. Len(before) = i - 1 /\ Len(after) = Len(ports) - i /\ Len(ports) \in Nat
      BY <3>2 DEF before, after
    <3>6. Len(ports') = Len(ports) - 1
      BY <3>4, <3>5
    <3> QED BY <3>4, <3>5, <3>6, GraphAssumption DEF GraphAssumption
  <2> QED BY <2>1, <2>2, <2>3
<1> QED BY <1>2, <1>3, <1>4, <1>5 DEF GraphInv, SystemTyped

\* A sample has the ports that there are, but for the services.
LEMMA PublishGraphInv ==
  ASSUME GraphInv, NEW r \in Receivers, PublishSample(r) \/ DeliverOnSubscribe(r)
  PROVE  GraphInv'
<1> USE DEF GraphInv
<1>1. UNCHANGED <<system, containers>>
  BY DEF PublishSample, DeliverOnSubscribe
<1>2. (SystemTyped /\ SampleTyped(applied) /\ Filled)'
  BY <1>1 DEF SystemTyped, SampleTyped, Filled, system, containers
<1>3. Receiving'
  BY <1>1 DEF Receiving, PublishSample, DeliverOnSubscribe, ReceiverStates, containers
<1>4. SampleTyped(published)'
  <2>1. CASE published' = published
    BY <2>1 DEF SampleTyped
  <2>2. CASE PublishSample(r) /\ r = "nodes"
    <3>1. published'.nodes = nodes /\ published'.ports = published.ports
      BY <2>2 DEF PublishSample, Sample, Receiving, Receivers
    <3> QED BY <3>1 DEF SampleTyped, SystemTyped
  <2>3. CASE PublishSample(r) /\ r = "ports"
    <3>1. /\ published'.nodes = published.nodes
          /\ published'.ports = Those(ports, {p \in Ports : p.kind \in Kinds})
      BY <2>3 DEF PublishSample, Sample, Receiving, Receivers
    <3>2. published'.ports \in Seq(Ports) /\ Len(published'.ports) <= Len(ports)
      BY <3>1, ThoseAreTheWanted DEF SystemTyped
    <3> QED BY <3>1, <3>2, GraphAssumption DEF GraphAssumption, SampleTyped, SystemTyped
  <2> QED BY <2>1, <2>2, <2>3 DEF DeliverOnSubscribe, Receivers
<1> QED BY <1>2, <1>3, <1>4

\* The containers are filled from the last sample.
LEMMA FillGraphInv ==
  ASSUME GraphInv, NEW r \in Receivers, FillFrom(r), UNCHANGED <<system, published>>,
         querying' \in [Receivers -> BOOLEAN]
  PROVE  GraphInv'
<1> USE DEF GraphInv
<1>1. SystemTyped' /\ SampleTyped(published)'
  BY DEF SystemTyped, SampleTyped, system
<1>2. Receiving'
  BY DEF Receiving, FillFrom, ReceiverStates
<1>3. SampleTyped(applied)'
  BY DEF SampleTyped, FillFrom, Receiving, Receivers
<1>4. CASE r = "nodes"
  <2>1. applied'.nodes = published.nodes /\ applied'.ports = applied.ports
    BY <1>4 DEF FillFrom, Receiving, Receivers
  <2> QED BY <1>1, <1>2, <1>3, <1>4, <2>1 DEF Filled, FillFrom, NodeNamesView
<1>5. CASE r = "ports"
  <2>1. applied'.nodes = applied.nodes /\ applied'.ports = published.ports
    BY <1>5 DEF FillFrom, Receiving, Receivers
  <2>2. byTopic' \in [Kinds -> [TopicNames -> Seq(FullNames)]]
    <3>1. ASSUME NEW k \in Kinds, NEW t \in TopicNames
          PROVE  byTopic[k][t] \o NodesIn(published.ports, k, t) \in Seq(FullNames)
      <4>1. byTopic[k][t] \in Seq(FullNames)
        BY DEF Filled
      <4>2. NodesIn(published.ports, k, t) \in Seq(FullNames)
        BY NodesInType DEF SampleTyped
      <4> QED BY <4>1, <4>2
    <3>2. byTopic' = [k \in Kinds |-> [t \in TopicNames |->
                        byTopic[k][t] \o NodesIn(published.ports, k, t)]]
      BY <1>5 DEF FillFrom, TopicView
    <3> QED BY <3>1, <3>2
  <2>3. /\ names' = NamesIn(applied'.ports)
        /\ byNode' = [k \in Kinds |-> [n \in FullNames |-> TopicsIn(applied'.ports, k, n)]]
        /\ nodeNames' = nodeNames
    BY <1>5, <2>1 DEF FillFrom, NodeView
  <2>4. Filled'
    BY <2>1, <2>2, <2>3 DEF Filled
  <2> QED BY <1>1, <1>2, <1>3, <2>4
<1> QED BY <1>4, <1>5 DEF Receivers

\* Every step keeps what the containers were filled with.
LEMMA StepGraphInv == GraphInv /\ [Next]_vars => GraphInv'
<1> SUFFICES ASSUME GraphInv, [Next]_vars PROVE GraphInv'
  OBVIOUS
<1>1. CASE UNCHANGED vars
  BY <1>1 DEF vars, system, containers, GraphInv, Receiving, SystemTyped, SampleTyped, Filled
<1>2. ASSUME NEW r \in Receivers, Query(r) PROVE GraphInv'
  <2>1. CASE QuerySubscribes(r)
    BY <2>1 DEF QuerySubscribes, containers, system, GraphInv, Receiving, SystemTyped,
                SampleTyped, Filled, ReceiverStates
  <2>2. CASE QueryWakes(r)
    <3>1. querying' \in [Receivers -> BOOLEAN]
      BY <2>2 DEF QueryWakes, GraphInv, Receiving
    <3> QED BY <2>2, <3>1, FillGraphInv DEF QueryWakes
  <2>3. CASE QueryUpdates(r)
    <3>1. querying' \in [Receivers -> BOOLEAN]
      BY <2>3 DEF QueryUpdates, GraphInv, Receiving
    <3> QED BY <2>3, <3>1, FillGraphInv DEF QueryUpdates
  <2> QED BY <1>2, <2>1, <2>2, <2>3 DEF Query
<1> QED BY <1>1, <1>2, SystemGraphInv, PublishGraphInv DEF Next

-----------------------------------------------------------------------------
(* The types, and what the queries by node answer.                          *)

\* What the graph holds is of what there is: nodes, topics, and samples of ports.
THEOREM GraphTypeCorrect == Spec => []TypeOK
<1>1. GraphInv => TypeOK
  <2> SUFFICES ASSUME GraphInv PROVE TypeOK
    OBVIOUS
  <2> USE DEF GraphInv
  <2>1. applied.ports \in Seq(Ports) /\ Len(applied.ports) <= MaxPorts
    BY DEF SampleTyped
  <2>2. DOMAIN names \subseteq TopicNames
    BY <2>1, NamesInType DEF Filled
  <2>3. ASSUME NEW k \in Kinds, NEW n \in FullNames
        PROVE  byNode[k][n] \in Seq(TopicNames) /\ Len(byNode[k][n]) <= MaxPorts
    <3>1. byNode[k][n] = TopicsIn(applied.ports, k, n)
      BY DEF Filled
    <3>2. byNode[k][n] \in Seq(TopicNames) /\ Len(byNode[k][n]) <= Len(applied.ports)
      BY <2>1, <3>1, TopicsInType
    <3> QED BY <2>1, <3>2, GraphAssumption DEF GraphAssumption
  <2>4. byNode \in [Kinds -> [FullNames -> Seq(TopicNames)]]
    <3>1. byNode = [k \in Kinds |-> [n \in FullNames |-> byNode[k][n]]]
      BY DEF Filled
    <3> QED BY <2>3, <3>1
  <2>5. nodeNames \subseteq FullNames
    BY DEF Filled, SampleTyped, FullNames
  <2>6. \A view \in {published, applied} :
          DOMAIN view = Receivers /\ view.ports \in Seq(Ports) /\ view.nodes \subseteq RosNodes
    BY DEF SampleTyped, Receiving
  <2>7. byTopic \in [Kinds -> [TopicNames -> Seq(FullNames)]]
    BY DEF Filled
  <2> QED BY <2>2, <2>3, <2>4, <2>5, <2>6, <2>7 DEF TypeOK, SystemTyped, Receiving
<1> QED BY <1>1, InitGraphInv, StepGraphInv, PTL DEF Spec

\* How many ports of a list are wanted, and which.
LEMMA ThoseAreCounted ==
  ASSUME NEW P, NEW list \in Seq(P), NEW wanted
  PROVE  LET at == {j \in 1 .. Len(list) : list[j] \in wanted}
             kept == Those(list, wanted)
         IN  /\ IsFiniteSet(at) /\ Len(kept) = Cardinality(at)
             /\ \A i \in 1 .. Len(kept) : \E j \in at : kept[i] = list[j]
             /\ \A j \in at : \E i \in 1 .. Len(kept) : kept[i] = list[j]
<1> DEFINE at == {j \in 1 .. Len(list) : list[j] \in wanted}
           kept == Those(list, wanted)
<1>1. PICK e : Traces(e, kept, list, wanted, Len(list))
  BY ThoseAreTheWanted
<1>2. Len(kept) \in Nat
  BY ThoseAreTheWanted
<1> HIDE DEF kept
<1>3. e \in Bijection(1 .. Len(kept), at) /\ \A i \in 1 .. Len(kept) : kept[i] = list[e[i]]
  BY <1>1 DEF Traces
<1>4. IsFiniteSet(1 .. Len(list)) /\ at \subseteq 1 .. Len(list)
  BY FS_Interval
<1>5. IsFiniteSet(at)
  <2> HIDE DEF at
  <2> QED BY <1>4, FS_Subset
<1>6. Cardinality(1 .. Len(kept)) = Len(kept)
  <2>1. \A a, b \in Int : Cardinality(a .. b) = IF a > b THEN 0 ELSE b - a + 1
    BY FS_Interval
  <2>2. 1 \in Int /\ Len(kept) \in Int
    BY <1>2
  <2>3. Cardinality(1 .. Len(kept)) = IF 1 > Len(kept) THEN 0 ELSE Len(kept) - 1 + 1
    BY <2>1, <2>2
  <2> QED BY <1>2, <2>3
<1> HIDE DEF at
<1>7. e \in Injection(1 .. Len(kept), at) /\ e \in Surjection(1 .. Len(kept), at)
  BY <1>3 DEF Bijection
<1>8. Cardinality(1 .. Len(kept)) = Cardinality(at)
  BY <1>5, <1>7, FS_Injection
<1>9. /\ \A i \in 1 .. Len(kept) : e[i] \in at
      /\ \A j \in at : \E i \in 1 .. Len(kept) : e[i] = j
  BY <1>7 DEF Injection, Surjection
<1>10. /\ \A i \in 1 .. Len(kept) : \E j \in at : kept[i] = list[j]
       /\ \A j \in at : \E i \in 1 .. Len(kept) : kept[i] = list[j]
  BY <1>3, <1>9
<1> QED BY <1>5, <1>6, <1>8, <1>10 DEF at, kept

\* All of them are of the list.
LEMMA ThoseAreOfTheList ==
  ASSUME NEW P, NEW list \in Seq(P), NEW wanted
  PROVE  \A i \in 1 .. Len(Those(list, wanted)) :
           \E j \in 1 .. Len(list) : Those(list, wanted)[i] = list[j]
<1> DEFINE kept == Those(list, wanted)
<1>1. PICK e : Traces(e, kept, list, wanted, Len(list))
  BY ThoseAreTheWanted
<1> HIDE DEF kept
<1>2. /\ e \in [1 .. Len(kept) -> 1 .. Len(list)]
      /\ \A i \in 1 .. Len(kept) : kept[i] = list[e[i]]
  BY <1>1 DEF Traces, Bijection, Injection
<1> QED BY <1>2 DEF kept

\* None that is wanted is missing.
LEMMA ThoseMissNone ==
  ASSUME NEW P, NEW list \in Seq(P), NEW wanted, NEW j \in 1 .. Len(list), list[j] \in wanted
  PROVE  \E i \in 1 .. Len(Those(list, wanted)) : Those(list, wanted)[i] = list[j]
<1> DEFINE at == {l \in 1 .. Len(list) : list[l] \in wanted}
           kept == Those(list, wanted)
<1>1. PICK e : Traces(e, kept, list, wanted, Len(list))
  BY ThoseAreTheWanted
<1> HIDE DEF kept
<1>2. j \in at /\ e \in Surjection(1 .. Len(kept), at)
  BY <1>1 DEF Traces, Bijection
<1>3. PICK i \in 1 .. Len(kept) : e[i] = j
  BY <1>2 DEF Surjection
<1> QED BY <1>1, <1>3 DEF kept, Traces

\* The occurrences of a topic with all nodes are the ports of the topic: each port is at
\* one place, with its own node.
LEMMA OccurrencesAreThePorts ==
  ASSUME NEW list \in Seq(Ports), NEW k, NEW t
  PROVE  Cardinality(UNION {{n} \X PositionsOf(TopicsIn(list, k, n), t) : n \in FullNames})
           = Len(Those(list, PortsOfTopic(k, t)))
<1> DEFINE kept(n) == Those(list, PortsOfNode(k, n))
           E(n) == CHOOSE e : Traces(e, kept(n), list, PortsOfNode(k, n), Len(list))
           pairs == UNION {{n} \X PositionsOf(TopicsIn(list, k, n), t) : n \in FullNames}
           at == {j \in 1 .. Len(list) : list[j] \in PortsOfTopic(k, t)}
           f == [x \in pairs |-> E(x[1])[x[2]]]
<1>1. ASSUME NEW n
      PROVE  /\ \A i \in 1 .. Len(kept(n)) : /\ E(n)[i] \in 1 .. Len(list)
                                             /\ list[E(n)[i]] \in PortsOfNode(k, n)
                                             /\ kept(n)[i] = list[E(n)[i]]
             /\ \A i, j \in 1 .. Len(kept(n)) : E(n)[i] = E(n)[j] => i = j
             /\ \A j \in 1 .. Len(list) : list[j] \in PortsOfNode(k, n) =>
                  \E i \in 1 .. Len(kept(n)) : E(n)[i] = j
  <2>1. \E e : Traces(e, kept(n), list, PortsOfNode(k, n), Len(list))
    BY ThoseAreTheWanted
  <2>2. Traces(E(n), kept(n), list, PortsOfNode(k, n), Len(list))
    <3> HIDE DEF kept
    <3> QED BY <2>1
  <2> HIDE DEF kept, E
  <2> QED BY <2>2 DEF Traces, Bijection, Injection, Surjection, IsInjective
<1>2. ASSUME NEW n
      PROVE  PositionsOf(TopicsIn(list, k, n), t) =
               {i \in 1 .. Len(kept(n)) : TopicOf(kept(n)[i]) = t}
  <2>1. Len(TopicsIn(list, k, n)) = Len(kept(n))
    BY TopicsInType
  <2>2. \A i \in 1 .. Len(kept(n)) : TopicsIn(list, k, n)[i] = TopicOf(kept(n)[i])
    BY DEF TopicsIn
  <2> HIDE DEF kept
  <2> QED BY <2>1, <2>2 DEF PositionsOf
<1> HIDE DEF E, kept
<1>3. ASSUME NEW x \in pairs
      PROVE  /\ x[1] \in FullNames /\ x[2] \in 1 .. Len(kept(x[1])) /\ x = <<x[1], x[2]>>
             /\ TopicOf(kept(x[1])[x[2]]) = t
  BY <1>2
<1>4. ASSUME NEW x \in pairs PROVE f[x] \in at /\ list[f[x]].node = x[1]
  <2>1. list[f[x]] \in PortsOfNode(k, x[1]) /\ f[x] \in 1 .. Len(list)
        /\ TopicOf(list[f[x]]) = t
    BY <1>1, <1>3
  <2> QED BY <2>1 DEF PortsOfNode, PortsOfTopic
<1>5. ASSUME NEW x \in pairs, NEW y \in pairs, f[x] = f[y] PROVE x = y
  <2>1. x[1] = y[1]
    <3>1. x[1] = list[f[x]].node /\ y[1] = list[f[y]].node
      BY <1>4
    <3> QED BY <1>5, <3>1, Zenon
  <2>2. x[2] = y[2]
    BY <1>1, <1>3, <1>5, <2>1
  <2> QED BY <1>3, <2>1, <2>2
<1>6. ASSUME NEW j \in at PROVE \E x \in pairs : f[x] = j
  <2> DEFINE n == list[j].node
  <2>1. list[j] \in Ports /\ list[j].kind = k /\ TopicOf(list[j]) = t
    BY DEF PortsOfTopic
  <2>2. n \in FullNames /\ list[j] \in PortsOfNode(k, n)
    BY <2>1, PortsAreReported DEF PortsOfNode
  <2>3. PICK i \in 1 .. Len(kept(n)) : E(n)[i] = j
    BY <1>1, <2>2
  <2>4. i \in PositionsOf(TopicsIn(list, k, n), t)
    BY <1>1, <1>2, <2>1, <2>3
  <2>5. <<n, i>> \in pairs
    BY <2>2, <2>4
  <2> QED BY <2>3, <2>5
<1>7. f \in Injection(pairs, at) /\ f \in Surjection(pairs, at)
  <2> HIDE DEF pairs, at
  <2>1. f \in [pairs -> at]
    BY <1>4
  <2> HIDE DEF f
  <2> QED BY <1>5, <1>6, <2>1 DEF Injection, Surjection, IsInjective
<1>8. IsFiniteSet(at) /\ Len(Those(list, PortsOfTopic(k, t))) = Cardinality(at)
  BY ThoseAreCounted
<1> HIDE DEF f, pairs, at
<1>9. Cardinality(pairs) = Cardinality(at)
  BY <1>7, <1>8, FS_Injection
<1> QED BY <1>8, <1>9 DEF pairs

\* The counts of a topic are those of the ports of the sample, and what is counted has a
\* type.
CountsAgree ==
  \A k \in Kinds, t \in TopicNames :
    /\ Counted(k, t) = Len(Those(applied.ports, PortsOfTopic(k, t)))
    /\ Counted(k, t) > 0 => t \in DOMAIN names

\* Each port of the sample is counted once, at the topic it has.
LEMMA GraphInvCountsAgree == GraphInv => CountsAgree
<1> SUFFICES ASSUME GraphInv, NEW k \in Kinds, NEW t \in TopicNames
             PROVE  /\ Counted(k, t) = Len(Those(applied.ports, PortsOfTopic(k, t)))
                    /\ Counted(k, t) > 0 => t \in DOMAIN names
  BY DEF CountsAgree
<1> DEFINE list == applied.ports
           wanted == Those(list, PortsOfTopic(k, t))
           first == Those(list, {p \in Ports : p.kind = "subscription"})
           second == Those(list, {p \in Ports : p.kind # "subscription"})
           inOrder == first \o second
<1>1. list \in Seq(Ports)
  BY DEF GraphInv, SampleTyped
<1>2. Counted(k, t) = Len(wanted)
  <2>1. \A n \in FullNames : byNode[k][n] = TopicsIn(list, k, n)
    BY DEF GraphInv, Filled
  <2>2. Counted(k, t) =
          Cardinality(UNION {{n} \X PositionsOf(TopicsIn(list, k, n), t) : n \in FullNames})
    BY <2>1 DEF Counted
  <2> QED BY <1>1, <2>2, OccurrencesAreThePorts
<1>3. ASSUME Len(wanted) > 0 PROVE t \in DOMAIN names
  <2>1. wanted \in Seq(Ports)
    BY <1>1, ThoseAreTheWanted
  <2>2. PICK j \in 1 .. Len(list) : list[j] \in PortsOfTopic(k, t)
    <3>1. 1 \in 1 .. Len(wanted)
      BY <1>3, <2>1
    <3> QED BY <1>1, <3>1, ThoseAreCounted
  <2>3. list[j] \in Ports /\ TopicOf(list[j]) = t
    BY <2>2 DEF PortsOfTopic
  <2>4. first \in Seq(Ports) /\ second \in Seq(Ports)
    BY <1>1, ThoseAreTheWanted
  <2>5. \/ \E i \in 1 .. Len(first) : first[i] = list[j]
        \/ \E i \in 1 .. Len(second) : second[i] = list[j]
    <3> DEFINE W1 == {p \in Ports : p.kind = "subscription"}
               W2 == {p \in Ports : p.kind # "subscription"}
    <3>1. CASE list[j].kind = "subscription"
      <4>1. list[j] \in W1
        BY <2>3, <3>1
      <4>2. first = Those(list, W1)
        OBVIOUS
      <4> HIDE DEF W1, first
      <4> QED BY <1>1, <4>1, <4>2, ThoseMissNone
    <3>2. CASE list[j].kind # "subscription"
      <4>1. list[j] \in W2
        BY <2>3, <3>2
      <4>2. second = Those(list, W2)
        OBVIOUS
      <4> HIDE DEF W2, second
      <4> QED BY <1>1, <4>1, <4>2, ThoseMissNone
    <3> QED BY <3>1, <3>2
  <2>6. DOMAIN names = {TopicOf(inOrder[i]) : i \in 1 .. Len(inOrder)}
    BY DEF GraphInv, Filled, NamesIn
  <2> HIDE DEF first, second
  <2>7. \E i \in 1 .. Len(inOrder) : inOrder[i] = list[j]
    <3>1. CASE \E i \in 1 .. Len(first) : first[i] = list[j]
      BY <2>4, <3>1
    <3>2. CASE \E i \in 1 .. Len(second) : second[i] = list[j]
      <4>1. PICK i \in 1 .. Len(second) : second[i] = list[j]
        BY <3>2
      <4>2. Len(first) + i \in 1 .. Len(inOrder) /\ inOrder[Len(first) + i] = second[i]
        BY <2>4
      <4> QED BY <4>1, <4>2
    <3> QED BY <2>5, <3>1, <3>2
  <2> HIDE DEF inOrder
  <2> QED BY <2>3, <2>6, <2>7
<1> QED BY <1>2, <1>3

\* The counts of a topic are those of one sample, and what is counted has a type, for
\* any nodes and names.
THEOREM CountsAreOfOneSample == Spec => []CountsAgree
BY InitGraphInv, StepGraphInv, GraphInvCountsAgree, PTL DEF Spec

\* A node's own ports are those with its name.
LEMMA OwnPortsHaveTheName ==
  ASSUME NodesAreTold, NEW k, NEW n \in RosNodes
  PROVE  PortsOfNode(k, node_full_name(n)) = {p \in Ports : p.kind = k /\ IsOf(p, n)}
<1> SUFFICES ASSUME NEW p \in Ports
             PROVE  p.node = node_full_name(n) <=> IsOf(p, n)
  BY DEF PortsOfNode
<1>1. CASE p \in RosPorts
  <2>1. p.by \in RosNodes /\ p.node = node_full_name(p.by)
    BY <1>1 DEF RosPorts, RosPort
  <2> QED BY <1>1, <2>1 DEF NodesAreTold, IsOf
<1>2. CASE p \notin RosPorts
  BY <1>2 DEF NodesAreTold, IsOf, Ports
<1> QED BY <1>1, <1>2

\* For nodes that are told from one another, and from everyone else's, by names that
\* are not cut off: what the queries by node answer is what one sample of the daemon
\* says, however many came and overwrote each other between two queries.
THEOREM NodeQueriesAreOfOneSample ==
  ASSUME NodesAreTold
  PROVE  Spec => []NodeQueriesAreASnapshot
<1>1. GraphInv => NodeQueriesAreASnapshot
  <2> SUFFICES ASSUME GraphInv, NEW k \in Kinds
               PROVE  \A n \in RosNodes :
                        LET own == Those(applied.ports, {p \in Ports : p.kind = k /\ IsOf(p, n)})
                        IN  /\ DOMAIN TopicsOfNode(k, n) = {TopicOf(own[i]) : i \in 1 .. Len(own)}
                            /\ Len(byNode[k][node_full_name(n)]) = Len(own)
    BY GraphInvCountsAgree DEF NodeQueriesAreASnapshot, CountsAgree
  <2> TAKE n \in RosNodes
  <2> DEFINE full == node_full_name(n)
             own == Those(applied.ports, PortsOfNode(k, full))
             listed == TopicsIn(applied.ports, k, full)
  <2>1. applied.ports \in Seq(Ports)
    BY DEF GraphInv, SampleTyped
  <2>2. full_name(n) = full /\ full \in FullNames
    BY DEF NodesAreTold, FullNames
  <2>3. byNode[k][full] = listed
    BY <2>2 DEF GraphInv, Filled
  <2>4. listed \in Seq(TopicNames) /\ Len(listed) = Len(own)
    BY <2>1, TopicsInType
  <2>5. \A i \in 1 .. Len(own) : listed[i] = TopicOf(own[i])
    BY DEF TopicsIn
  <2>6. DOMAIN TopicsOfNode(k, n) =
          {t \in TopicNames : \E i \in 1 .. Len(listed) : listed[i] = t}
    BY <2>2, <2>3 DEF TopicsOfNode, Contains
  <2> HIDE DEF own, listed
  <2>7. DOMAIN TopicsOfNode(k, n) = {TopicOf(own[i]) : i \in 1 .. Len(own)}
    BY <2>4, <2>5, <2>6
  <2>8. Those(applied.ports, {p \in Ports : p.kind = k /\ IsOf(p, n)}) = own
    BY OwnPortsHaveTheName, Zenon DEF own
  <2>9. Len(byNode[k][node_full_name(n)]) = Len(own)
    BY <2>3, <2>4
  <2> QED BY <2>7, <2>8, <2>9
<1> QED BY <1>1, InitGraphInv, StepGraphInv, PTL DEF Spec

-----------------------------------------------------------------------------
(* What is found in a name.                                                 *)

\* The least of a set is the one that there is ...
LEMMA MinIs ==
  ASSUME NEW S, \A j \in S : j \in Int, NEW i \in S, \A j \in S : i <= j
  PROVE  Min(S) = i
<1> DEFINE m == Min(S)
<1>1. m \in S /\ \A j \in S : m <= j
  BY Zenon DEF Min
<1> HIDE DEF m
<1> QED BY <1>1 DEF m

\* ... and so is the greatest.
LEMMA MaxIs ==
  ASSUME NEW S, \A j \in S : j \in Int, NEW i \in S, \A j \in S : i >= j
  PROVE  Max(S) = i
<1> DEFINE m == Max(S)
<1>1. m \in S /\ \A j \in S : m >= j
  BY Zenon DEF Max
<1> HIDE DEF m
<1> QED BY <1>1 DEF m

\* A string says a part, after so many characters.
Says(s, m, part) == \A k \in 1 .. Len(part) : s[m + k] = part[k]

\* The part begins at a position.
IsAt(s, part, i) == i \in 1 .. Len(s) - Len(part) + 1 /\ Says(s, i - 1, part)

\* The first occurrence is found.
LEMMA TheFirstIsFound ==
  ASSUME NEW s, NEW part, Len(s) \in Nat, Len(part) \in Nat,
         NEW i, IsAt(s, part, i), \A j \in 1 .. i - 1 : ~IsAt(s, part, j)
  PROVE  Find(s, part) = i /\ Has(s, part)
<1> DEFINE last == Len(s) - Len(part) + 1
           found == {j \in 1 .. last : \A k \in 1 .. Len(part) : s[j + k - 1] = part[k]}
<1>1. last \in Int
  OBVIOUS
<1>2. Find(s, part) = IF found = {} THEN 0 ELSE Min(found)
  BY Zenon DEF Find
<1>3. ASSUME NEW j PROVE j \in found <=> IsAt(s, part, j)
  <2> SUFFICES ASSUME j \in 1 .. last
               PROVE  (\A k \in 1 .. Len(part) : s[j + k - 1] = part[k]) <=> Says(s, j - 1, part)
    BY Zenon DEF IsAt
  <2>1. \A k \in 1 .. Len(part) : j + k - 1 = j - 1 + k
    OBVIOUS
  <2> HIDE DEF last
  <2> QED BY <2>1 DEF Says
<1>4. found \subseteq 1 .. last
  OBVIOUS
<1> HIDE DEF found, last
<1>5. i \in found /\ \A j \in found : j \in Int /\ j > 0
  BY <1>1, <1>3, <1>4
<1>6. \A j \in found : i <= j
  BY <1>1, <1>3, <1>4, <1>5
<1>7. Min(found) = i
  BY <1>5, <1>6, MinIs
<1> QED BY <1>2, <1>5, <1>7 DEF Has

\* What occurs nowhere is not found.
LEMMA NothingIsFound ==
  ASSUME NEW s, NEW part, Len(s) \in Nat, Len(part) \in Nat, \A j : ~IsAt(s, part, j)
  PROVE  Find(s, part) = 0 /\ ~Has(s, part)
<1> DEFINE last == Len(s) - Len(part) + 1
           found == {j \in 1 .. last : \A k \in 1 .. Len(part) : s[j + k - 1] = part[k]}
<1>1. ASSUME NEW j \in found PROVE FALSE
  <2>1. j \in 1 .. last /\ \A k \in 1 .. Len(part) : s[j + k - 1] = part[k]
    OBVIOUS
  <2>2. \A k \in 1 .. Len(part) : j + k - 1 = j - 1 + k
    OBVIOUS
  <2> HIDE DEF last
  <2>3. Says(s, j - 1, part)
    BY <2>1, <2>2 DEF Says
  <2> QED BY <2>1, <2>3 DEF IsAt, last
<1>2. Find(s, part) = IF found = {} THEN 0 ELSE Min(found)
  BY Zenon DEF Find
<1> QED BY <1>1, <1>2 DEF Has

\* A word is found if the string has it ...
LEMMA WordsAreFound ==
  ASSUME NEW s, Len(s) \in Nat, NEW w
  PROVE  Has(s, <<w>>) <=> Contains(s, w)
<1> DEFINE at == {j \in 1 .. Len(s) : s[j] = w}
<1> DEFINE part == <<w>>
<1>1. Len(part) = 1 /\ part[1] = w
  OBVIOUS
<1> HIDE DEF part
<1>2. \A j : IsAt(s, part, j) <=> j \in 1 .. Len(s) /\ s[j] = w
  BY <1>1 DEF IsAt, Says
<1>3. CASE at = {}
  <2>1. \A j : ~IsAt(s, part, j)
    BY <1>2, <1>3
  <2> QED BY <1>1, <1>3, <2>1, NothingIsFound DEF Contains, part
<1>4. CASE at # {}
  <2>1. PICK i \in at : \A j \in at : i <= j
    <3>1. at \subseteq Nat
      OBVIOUS
    <3> HIDE DEF at
    <3> QED BY <1>4, <3>1, LeastElement
  <2>2. IsAt(s, part, i) /\ \A j \in 1 .. i - 1 : ~IsAt(s, part, j)
    BY <1>2, <2>1
  <2>3. Has(s, part)
    BY <1>1, <2>2, TheFirstIsFound
  <2> QED BY <2>1, <2>3 DEF Contains, part
<1> QED BY <1>3, <1>4

\* ... and a longer part only if the string has its first word.
LEMMA PartsAreNotFound ==
  ASSUME NEW s, Len(s) \in Nat, NEW part, Len(part) \in Nat \ {0}, ~Contains(s, part[1])
  PROVE  ~Has(s, part)
<1>1. ASSUME NEW j, IsAt(s, part, j) PROVE FALSE
  <2>1. j \in 1 .. Len(s) /\ 1 \in 1 .. Len(part) /\ j - 1 + 1 = j
    BY <1>1 DEF IsAt
  <2>2. s[j] = part[1]
    BY <1>1, <2>1 DEF IsAt, Says
  <2> QED BY <2>1, <2>2 DEF Contains
<1> QED BY <1>1, NothingIsFound

\* The separator of a namespace is replaced, whatever the language.
LEMMA NamespacesAreOne ==
  ASSUME NEW a, NEW b, SameNamespace(a, b)
  PROVE  to_message_type(a) = to_message_type(b)
<1>1. a \in Seq(Words) /\ b \in Seq(Words) /\ Len(a) = Len(b)
  BY DEF SameNamespace
<1>2. PICK i \in 1 .. Len(a) :
        /\ IsSeparator(a[i]) /\ IsSeparator(b[i])
        /\ \A j \in 1 .. Len(a) \ {i} : ~IsSeparator(a[j]) /\ a[j] = b[j]
  BY DEF SameNamespace
<1>3. ASSUME NEW s \in Seq(Words), i \in 1 .. Len(s), IsSeparator(s[i]),
             \A j \in 1 .. Len(s) \ {i} : ~IsSeparator(s[j])
      PROVE  to_message_type(s) = [s EXCEPT ![i] = "/"]
  <2>1. ASSUME NEW w \in {"::", "__"}, s[i] = w PROVE Find(s, <<w>>) = i
    <3> DEFINE part == <<w>>
    <3>1. Len(part) = 1 /\ part[1] = w
      OBVIOUS
    <3> HIDE DEF part
    <3>2. IsAt(s, part, i)
      BY <1>3, <2>1, <3>1 DEF IsAt, Says
    <3>3. \A j \in 1 .. i - 1 : ~IsAt(s, part, j)
      BY <1>3, <2>1, <3>1 DEF IsAt, Says, IsSeparator
    <3>4. Find(s, part) = i
      BY <3>1, <3>2, <3>3, TheFirstIsFound
    <3> QED BY <3>4 DEF part
  <2>2. Has(s, <<"__">>) <=> s[i] = "__"
    BY <1>3, WordsAreFound DEF Contains, IsSeparator
  <2>3. to_message_type(s) = ReplaceAt(s, i, "/")
    BY <1>3, <2>1, <2>2 DEF to_message_type, IsSeparator
  <2> QED BY <2>3 DEF ReplaceAt
<1>4. \A j \in 1 .. Len(b) \ {i} : ~IsSeparator(b[j])
  BY <1>1, <1>2
<1>5. to_message_type(a) = [a EXCEPT ![i] = "/"] /\ to_message_type(b) = [b EXCEPT ![i] = "/"]
  BY <1>1, <1>2, <1>3, <1>4
<1>6. DOMAIN a = 1 .. Len(a) /\ DOMAIN b = 1 .. Len(a)
  BY <1>1
<1>7. /\ [a EXCEPT ![i] = "/"] = [j \in 1 .. Len(a) |-> IF j = i THEN "/" ELSE a[j]]
      /\ [b EXCEPT ![i] = "/"] = [j \in 1 .. Len(a) |-> IF j = i THEN "/" ELSE b[j]]
  BY <1>6
<1> QED BY <1>2, <1>5, <1>7

-----------------------------------------------------------------------------
(* Names that lead back to descriptions.                                    *)

\* What a description is reported as converts back to it.
LeadsBack(d) ==
  LET reported == get_name_n_type_from_service_description(d)
  IN  make_service_description(reported.topic, reported.type) = d

\* A part is what a string says there.
LEMMA PartIs ==
  ASSUME NEW P, NEW s, NEW q \in Seq(P), NEW m \in Nat, Says(s, m, q)
  PROVE  SubSeq(s, m + 1, m + Len(q)) = q
<1> DEFINE n == m + Len(q)
           part == SubSeq(s, m + 1, n)
<1>1. n \in Int /\ (m + 1 <= n <=> Len(q) > 0) /\ n - (m + 1) + 1 = Len(q)
  OBVIOUS
<1> HIDE DEF n
<1>2. ASSUME NEW i \in m + 1 .. n PROVE s[i] \in P
  <2> DEFINE k == i - m
  <2>1. k \in 1 .. Len(q) /\ m + k = i
    BY <1>1 DEF n
  <2> HIDE DEF k
  <2>2. s[m + k] = q[k]
    BY <2>1 DEF Says
  <2>3. q[k] \in P
    BY <2>1
  <2> QED BY <2>1, <2>2, <2>3
<1>3. /\ part \in Seq(P) /\ Len(part) = (IF m + 1 <= n THEN n - (m + 1) + 1 ELSE 0)
      /\ \A i \in 1 .. n - (m + 1) + 1 : part[i] = s[m + 1 + i - 1]
  BY <1>1, <1>2, SubSeqProperties
<1> HIDE DEF part
<1>4. Len(part) = Len(q)
  BY <1>1, <1>3
<1>5. ASSUME NEW i \in 1 .. Len(q) PROVE part[i] = q[i]
  <2>1. m + 1 + i - 1 = m + i
    OBVIOUS
  <2>2. part[i] = s[m + i]
    BY <1>1, <1>3, <2>1
  <2> QED BY <2>2 DEF Says
<1> QED BY <1>3, <1>4, <1>5, SeqEqual DEF n, part

\* What fits is not cut off.
LEMMA WhatFitsStays ==
  ASSUME NEW P, NEW s \in Seq(P), NEW c \in Nat, Len(s) <= c
  PROVE  Truncated(s, c) = s
<1>1. Min({Len(s), c}) = Len(s)
  <2> DEFINE S == {Len(s), c}
  <2>1. (\A j \in S : j \in Int) /\ Len(s) \in S /\ \A j \in S : Len(s) <= j
    OBVIOUS
  <2> HIDE DEF S
  <2>2. Min(S) = Len(s)
    BY <2>1, MinIs
  <2> QED BY <2>2 DEF S
<1> QED BY <1>1, SubSeqFull DEF Truncated

\* A description whose names fit is made as it was.
LEMMA DescriptionsAreMade ==
  ASSUME NEW topic, NEW type, NEW d, d # NoDescription, IsDescription(d),
         get_service_description_from_name_n_type(topic, type) = d
  PROVE  make_service_description(topic, type) = d
<1>1. \A field \in DOMAIN d : Truncated(d[field], IdCapacity) = d[field]
  BY WhatFitsStays, NamesAssumption DEF IsDescription, NamesAssumption
<1>2. d = [field \in DOMAIN d |-> d[field]]
  BY DEF IsDescription
<1> QED BY <1>1, <1>2 DEF make_service_description

\* The names of ROS are the description's own.
LEMMA RosLeadsBack ==
  ASSUME NEW d, d # NoDescription, IsDescription(d), IsOfRos(d)
  PROVE  LeadsBack(d)
<1>1. /\ d.service \in Seq(Words) /\ d.event = Ros2Event
      /\ d = [service |-> d.service, instance |-> d.instance, event |-> d.event]
  BY DEF IsDescription, IsOfRos
<1>2. /\ ~Has(d.service, IntrospectionService) /\ ~Has(d.service, IntrospectionPackage)
      /\ ~Has(d.service, AraDelimiter)
  BY <1>1, PartsAreNotFound DEF IsOfRos, IntrospectionService, IntrospectionPackage,
     AraDelimiter
<1>3. get_name_n_type_from_service_description(d) = [topic |-> d.instance, type |-> d.service]
  BY <1>1, <1>2 DEF get_name_n_type_from_service_description
<1>4. get_service_description_from_name_n_type(d.instance, d.service) = d
  BY <1>1, <1>2 DEF get_service_description_from_name_n_type
<1>5. make_service_description(d.instance, d.service) = d
  BY <1>4, DescriptionsAreMade
<1> QED BY <1>3, <1>5 DEF LeadsBack

\* What a name in lower case says at each position.
LEMMA LowerCase ==
  ASSUME NEW s \in Seq(Words)
  PROVE  /\ ToLower(s) \in Seq(Words) /\ Len(ToLower(s)) = Len(s)
         /\ \A i \in 1 .. Len(s) :
              ToLower(s)[i] = IF s[i] \in DOMAIN Lower THEN Lower[s[i]] ELSE s[i]
BY NamesAssumption DEF NamesAssumption, ToLower

\* What a name that is put together says.
LEMMA Joined ==
  ASSUME NEW P, NEW a \in Seq(P), NEW b \in Seq(P)
  PROVE  /\ a \o b \in Seq(P) /\ Len(a \o b) = Len(a) + Len(b)
         /\ Says(a \o b, 0, a) /\ Says(a \o b, Len(a), b)
<1>1. /\ a \o b \in Seq(P) /\ Len(a \o b) = Len(a) + Len(b)
      /\ \A i \in 1 .. Len(a) : (a \o b)[i] = a[i]
      /\ \A i \in 1 .. Len(b) : (a \o b)[Len(a) + i] = b[i]
  OBVIOUS
<1> QED BY <1>1 DEF Says

\* A string says what the part it begins with says.
LEMMA SaysWhatItsPartSays ==
  ASSUME NEW s, NEW part, Len(part) \in Nat, Says(s, 0, part),
         NEW l \in Nat, NEW q, Len(q) \in Nat, Says(part, l, q), l + Len(q) <= Len(part)
  PROVE  Says(s, l, q)
<1> SUFFICES ASSUME NEW k \in 1 .. Len(q) PROVE s[l + k] = q[k]
  BY DEF Says
<1>1. l + k \in 1 .. Len(part) /\ 0 + (l + k) = l + k
  OBVIOUS
<1>2. s[l + k] = part[l + k]
  BY <1>1 DEF Says
<1>3. part[l + k] = q[k]
  BY DEF Says
<1> QED BY <1>2, <1>3

\* A name that is put together of six parts.
SaysSix(t, P, first, n, slash, s, e) ==
  /\ t \in Seq(P) /\ Len(t) = Len(first) + Len(n) + Len(s) + Len(e) + 2
  /\ Says(t, 0, first) /\ Says(t, Len(first), n) /\ Says(t, Len(first) + Len(n), slash)
  /\ Says(t, Len(first) + Len(n) + 1, s) /\ Says(t, Len(first) + Len(n) + 1 + Len(s), slash)
  /\ Says(t, Len(first) + Len(n) + Len(s) + 2, e)

\* What the six parts say, the name says in their order.
LEMMA SixJoined ==
  ASSUME NEW P, NEW first \in Seq(P), NEW slash \in Seq(P), Len(slash) = 1,
         NEW n \in Seq(P), NEW s \in Seq(P), NEW e \in Seq(P)
  PROVE  SaysSix(first \o n \o slash \o s \o slash \o e, P, first, n, slash, s, e)
<1> DEFINE topic == first \o n \o slash \o s \o slash \o e
<1> DEFINE t1 == first \o n
           t2 == t1 \o slash
           t3 == t2 \o s
           t4 == t3 \o slash
           a1 == Len(first)
           a2 == Len(first) + Len(n)
           a3 == Len(first) + Len(n) + 1
           a4 == Len(first) + Len(n) + 1 + Len(s)
           a5 == Len(first) + Len(n) + Len(s) + 2
<1>1. /\ a1 \in Nat /\ a2 \in Nat /\ a3 \in Nat /\ a4 \in Nat /\ a5 \in Nat
      /\ Len(first) = a1 /\ a1 + Len(n) = a2 /\ a2 + Len(slash) = a3 /\ a3 + Len(s) = a4
      /\ a4 + Len(slash) = a5 /\ a5 + Len(e) = Len(first) + Len(n) + Len(s) + Len(e) + 2
      /\ Len(n) \in Nat /\ Len(slash) \in Nat /\ Len(s) \in Nat /\ Len(e) \in Nat
      /\ a1 <= a2 /\ a2 <= a3 /\ a3 <= a4 /\ a4 <= a5
  OBVIOUS
<1>2. topic = t4 \o e
  OBVIOUS
<1> HIDE DEF a1, a2, a3, a4, a5, topic
<1>3. t1 \in Seq(P) /\ Len(t1) = a2 /\ Says(t1, 0, first) /\ Says(t1, a1, n)
  BY <1>1, Joined
<1> HIDE DEF t1
<1>4. t2 \in Seq(P) /\ Len(t2) = a3 /\ Says(t2, 0, t1) /\ Says(t2, a2, slash)
  <2>1. /\ t2 \in Seq(P) /\ Len(t2) = Len(t1) + Len(slash)
        /\ Says(t2, 0, t1) /\ Says(t2, Len(t1), slash)
    BY <1>3, Joined
  <2> QED BY <1>1, <1>3, <2>1
<1> HIDE DEF t2
<1>5. t3 \in Seq(P) /\ Len(t3) = a4 /\ Says(t3, 0, t2) /\ Says(t3, a3, s)
  <2>1. /\ t3 \in Seq(P) /\ Len(t3) = Len(t2) + Len(s)
        /\ Says(t3, 0, t2) /\ Says(t3, Len(t2), s)
    BY <1>4, Joined
  <2> QED BY <1>1, <1>4, <2>1
<1> HIDE DEF t3
<1>6. t4 \in Seq(P) /\ Len(t4) = a5 /\ Says(t4, 0, t3) /\ Says(t4, a4, slash)
  <2>1. /\ t4 \in Seq(P) /\ Len(t4) = Len(t3) + Len(slash)
        /\ Says(t4, 0, t3) /\ Says(t4, Len(t3), slash)
    BY <1>5, Joined
  <2> QED BY <1>1, <1>5, <2>1
<1> HIDE DEF t4
<1>7. /\ topic \in Seq(P) /\ Len(topic) = a5 + Len(e)
      /\ Says(topic, 0, t4) /\ Says(topic, a5, e)
  <2>1. /\ t4 \o e \in Seq(P) /\ Len(t4 \o e) = Len(t4) + Len(e)
        /\ Says(t4 \o e, 0, t4) /\ Says(t4 \o e, Len(t4), e)
    BY <1>6, Joined
  <2> QED BY <1>1, <1>2, <1>6, <2>1
<1>8. Says(topic, 0, t3) /\ Says(topic, a4, slash)
  <2>1. 0 + Len(t3) <= Len(t4) /\ a4 + Len(slash) <= Len(t4)
        /\ Len(t4) \in Nat /\ Len(t3) \in Nat
    BY <1>1, <1>5, <1>6
  <2>2. Says(topic, 0, t3)
    BY <1>6, <1>7, <2>1, SaysWhatItsPartSays
  <2> QED BY <1>1, <1>6, <1>7, <2>1, <2>2, SaysWhatItsPartSays
<1>9. Says(topic, 0, t2) /\ Says(topic, a3, s)
  <2>1. 0 + Len(t2) <= Len(t3) /\ a3 + Len(s) <= Len(t3)
        /\ Len(t3) \in Nat /\ Len(t2) \in Nat
    BY <1>1, <1>4, <1>5
  <2>2. Says(topic, 0, t2)
    BY <1>5, <1>8, <2>1, SaysWhatItsPartSays
  <2> QED BY <1>1, <1>5, <1>8, <2>1, <2>2, SaysWhatItsPartSays
<1>10. Says(topic, 0, t1) /\ Says(topic, a2, slash)
  <2>1. 0 + Len(t1) <= Len(t2) /\ a2 + Len(slash) <= Len(t2)
        /\ Len(t2) \in Nat /\ Len(t1) \in Nat
    BY <1>1, <1>3, <1>4
  <2>2. Says(topic, 0, t1)
    BY <1>4, <1>9, <2>1, SaysWhatItsPartSays
  <2> QED BY <1>1, <1>4, <1>9, <2>1, <2>2, SaysWhatItsPartSays
<1>11. Says(topic, 0, first) /\ Says(topic, a1, n)
  <2>1. 0 + Len(first) <= Len(t1) /\ a1 + Len(n) <= Len(t1)
        /\ Len(t1) \in Nat /\ Len(first) \in Nat
    BY <1>1, <1>3
  <2>2. Says(topic, 0, first)
    BY <1>3, <1>10, <2>1, SaysWhatItsPartSays
  <2> QED BY <1>1, <1>3, <1>10, <2>1, <2>2, SaysWhatItsPartSays
<1> QED BY <1>1, <1>7, <1>8, <1>9, <1>10, <1>11 DEF SaysSix, a1, a2, a3, a4, a5, topic

\* So for three parts.
LEMMA ThreeJoined ==
  ASSUME NEW P, NEW a \in Seq(P), NEW b \in Seq(P), NEW c \in Seq(P)
  PROVE  /\ a \o b \o c \in Seq(P) /\ Len(a \o b \o c) = Len(a) + Len(b) + Len(c)
         /\ Says(a \o b \o c, 0, a) /\ Says(a \o b \o c, Len(a), b)
         /\ Says(a \o b \o c, Len(a) + Len(b), c)
<1> DEFINE u == a \o b
           t == u \o c
<1>1. u \in Seq(P) /\ Len(u) = Len(a) + Len(b) /\ Says(u, 0, a) /\ Says(u, Len(a), b)
  BY Joined
<1> HIDE DEF u
<1>2. t \in Seq(P) /\ Len(t) = Len(u) + Len(c) /\ Says(t, 0, u) /\ Says(t, Len(u), c)
  BY <1>1, Joined
<1>3. Len(a) \in Nat /\ Len(b) \in Nat /\ Len(c) \in Nat
  OBVIOUS
<1> HIDE DEF t
<1>4. Says(t, 0, a) /\ Says(t, Len(a), b)
  BY <1>1, <1>2, <1>3, SaysWhatItsPartSays
<1> QED BY <1>1, <1>2, <1>4 DEF t, u

\* The strings that the names are put together of.
LEMMA TheirParts ==
  /\ <<"/">> \in Seq(Words) /\ Len(<<"/">>) = 1 /\ <<"/">>[1] = "/"
  /\ <<"/", "_iceoryx", "/">> \in Seq(Words) /\ Len(<<"/", "_iceoryx", "/">>) = 3
  /\ <<"/", "_iceoryx", "/">>[1] = "/" /\ <<"/", "_iceoryx", "/">>[2] = "_iceoryx"
  /\ <<"/", "_iceoryx", "/">>[3] = "/"
  /\ AraDelimiter \in Seq(Words) /\ Len(AraDelimiter) = 4 /\ AraDelimiter[1] = "_ara_msgs"
  /\ \A i \in 1 .. 4 : AraDelimiter[i] # "iceoryx_introspection_msgs"
  /\ IntrospectionPackage \in Seq(Words) /\ Len(IntrospectionPackage) = 1
  /\ IntrospectionPackage[1] = "iceoryx_introspection_msgs"
  /\ IntrospectionService \in Seq(Words) /\ Len(IntrospectionService) = 1
  /\ IntrospectionService[1] = "Introspection"
<1>1. ASSUME NEW P, NEW a \in P PROVE <<a>> \in Seq(P) /\ Len(<<a>>) = 1 /\ <<a>>[1] = a
  OBVIOUS
<1>2. ASSUME NEW P, NEW a \in P, NEW b \in P, NEW c \in P
      PROVE  LET t == <<a, b, c, b>>
             IN  /\ t \in Seq(P) /\ Len(t) = 4
                 /\ t[1] = a /\ t[2] = b /\ t[3] = c /\ t[4] = b
  OBVIOUS
<1>3. "/" \in Words /\ "_ara_msgs" \in Words /\ "msg" \in Words /\ "_iceoryx" \in Words
      /\ "iceoryx_introspection_msgs" \in Words /\ "Introspection" \in Words
  BY NamesAssumption DEF NamesAssumption
<1>4. <<"/">> \in Seq(Words) /\ Len(<<"/">>) = 1 /\ <<"/">>[1] = "/"
  BY <1>1, <1>3, Zenon
<1>5. /\ IntrospectionPackage \in Seq(Words) /\ Len(IntrospectionPackage) = 1
      /\ IntrospectionPackage[1] = "iceoryx_introspection_msgs"
  BY <1>1, <1>3, Zenon DEF IntrospectionPackage
<1>6. /\ IntrospectionService \in Seq(Words) /\ Len(IntrospectionService) = 1
      /\ IntrospectionService[1] = "Introspection"
  BY <1>1, <1>3, Zenon DEF IntrospectionService
<1>7. /\ AraDelimiter \in Seq(Words) /\ Len(AraDelimiter) = 4 /\ AraDelimiter[1] = "_ara_msgs"
      /\ AraDelimiter[2] = "/" /\ AraDelimiter[3] = "msg" /\ AraDelimiter[4] = "/"
  BY <1>2, <1>3, Zenon DEF AraDelimiter
<1>8. \A i \in 1 .. 4 : i = 1 \/ i = 2 \/ i = 3 \/ i = 4
  OBVIOUS
<1>9. ASSUME NEW P, NEW a \in P, NEW b \in P
      PROVE  LET t == <<a, b, a>>
             IN  t \in Seq(P) /\ Len(t) = 3 /\ t[1] = a /\ t[2] = b /\ t[3] = a
  OBVIOUS
<1>10. LET t == <<"/", "_iceoryx", "/">>
       IN  t \in Seq(Words) /\ Len(t) = 3 /\ t[1] = "/" /\ t[2] = "_iceoryx" /\ t[3] = "/"
  BY <1>3, <1>9, Zenon
<1> QED BY <1>4, <1>5, <1>6, <1>7, <1>8, <1>10

\* The service of AUTOSAR is found in the topic by its name in lower case, and gets its
\* case back from there.
LEMMA AutosarLeadsBack ==
  ASSUME NEW d, d # NoDescription, IsDescription(d), IsOfAutosar(d)
  PROVE  LeadsBack(d)
<1> DEFINE s == d.service
           n == d.instance
           e == d.event
           lower == ToLower(s)
           slash == <<"/">>
           topic == slash \o n \o slash \o s \o slash \o e
           type == lower \o AraDelimiter \o e
           at == Len(n) + 3
<1>1. /\ s \in Seq(Words) /\ n \in Seq(Words) /\ e \in Seq(Words)
      /\ d = [service |-> s, instance |-> n, event |-> e]
  BY DEF IsDescription
<1>2. /\ s # <<>> /\ e # Ros2Event /\ ~Contains(s, "Introspection")
      /\ ~Contains(lower, "_ara_msgs")
      /\ ~Contains(lower, "iceoryx_introspection_msgs")
      /\ ~Contains(e, "iceoryx_introspection_msgs")
      /\ lower[1] # "/" /\ ~Contains(ToLower(n), lower[1])
  BY DEF IsOfAutosar
<1>3. lower \in Seq(Words) /\ Len(lower) = Len(s)
  BY <1>1, LowerCase
<1>4. Len(s) \in Nat /\ Len(n) \in Nat /\ Len(e) \in Nat /\ Len(s) > 0
  BY <1>1, <1>2
<1>5. ~Has(s, IntrospectionService)
  BY <1>2, <1>4, TheirParts, PartsAreNotFound
<1>6. get_name_n_type_from_service_description(d) = [topic |-> topic, type |-> type]
  BY <1>2, <1>5 DEF get_name_n_type_from_service_description
<1> HIDE DEF s, n, e, lower, slash, topic, type
<1>7. /\ topic \in Seq(Words) /\ Len(topic) = 3 + Len(n) + Len(s) + Len(e)
      /\ Says(topic, 0, slash) /\ Says(topic, 1, n) /\ Says(topic, 1 + Len(n), slash)
      /\ Says(topic, 2 + Len(n), s)
  <2>1. slash \in Seq(Words) /\ Len(slash) = 1
    BY TheirParts DEF slash
  <2>2. /\ topic \in Seq(Words) /\ Len(topic) = Len(slash) + Len(n) + Len(s) + Len(e) + 2
        /\ Says(topic, 0, slash) /\ Says(topic, Len(slash), n)
        /\ Says(topic, Len(slash) + Len(n), slash)
        /\ Says(topic, Len(slash) + Len(n) + 1, s)
    <3>1. SaysSix(topic, Words, slash, n, slash, s, e)
      BY <1>1, <2>1, SixJoined DEF topic
    <3> QED BY <3>1 DEF SaysSix
  <2>3. Len(slash) + Len(n) + 1 = 2 + Len(n) /\ Len(slash) + Len(n) = 1 + Len(n)
    BY <1>4, <2>1
  <2> QED BY <1>4, <2>1, <2>2, <2>3
<1>8. /\ type \in Seq(Words) /\ Len(type) = Len(s) + 4 + Len(e)
      /\ Says(type, 0, lower) /\ Says(type, Len(s), AraDelimiter) /\ Says(type, Len(s) + 4, e)
  <2>1. /\ type \in Seq(Words) /\ Len(type) = Len(lower) + Len(AraDelimiter) + Len(e)
        /\ Says(type, 0, lower) /\ Says(type, Len(lower), AraDelimiter)
        /\ Says(type, Len(lower) + Len(AraDelimiter), e)
    BY <1>1, <1>3, TheirParts, ThreeJoined DEF type
  <2> QED BY <1>3, <1>4, <2>1, TheirParts
<1>9. Find(type, AraDelimiter) = Len(s) + 1 /\ Has(type, AraDelimiter)
  <2>1. Len(s) + 1 \in 1 .. Len(type) - Len(AraDelimiter) + 1 /\ Len(s) + 1 - 1 = Len(s)
    BY <1>4, <1>8, TheirParts
  <2>2. IsAt(type, AraDelimiter, Len(s) + 1)
    BY <1>8, <2>1 DEF IsAt
  <2>3. ASSUME NEW j \in 1 .. Len(s) PROVE ~IsAt(type, AraDelimiter, j)
    <3>1. j \in 1 .. Len(lower) /\ 0 + j = j /\ j - 1 + 1 = j /\ 1 \in 1 .. Len(AraDelimiter)
      BY <1>3, <1>4, TheirParts
    <3>2. type[j] = lower[j] /\ lower[j] # "_ara_msgs"
      BY <1>2, <1>8, <3>1 DEF Says, Contains
    <3> QED BY <3>1, <3>2, TheirParts DEF IsAt, Says
  <2>4. Len(s) + 1 - 1 = Len(s) /\ Len(type) \in Nat /\ Len(AraDelimiter) \in Nat
    BY <1>4, <1>8, TheirParts
  <2> QED BY <2>2, <2>3, <2>4, TheFirstIsFound
<1>10. ~Has(type, IntrospectionPackage)
  <2>1. ASSUME NEW i \in 1 .. Len(type) PROVE type[i] # "iceoryx_introspection_msgs"
    <3>1. CASE i <= Len(s)
      <4>1. i \in 1 .. Len(lower) /\ 0 + i = i
        BY <1>3, <1>4, <3>1
      <4>2. type[i] = lower[i]
        BY <1>8, <4>1 DEF Says
      <4> QED BY <1>2, <4>1, <4>2 DEF Contains
    <3>2. CASE i > Len(s) /\ i <= Len(s) + 4
      <4> DEFINE k == i - Len(s)
      <4>1. k \in 1 .. 4 /\ i = Len(s) + k /\ Len(AraDelimiter) = 4
        BY <1>4, <1>8, <3>2, TheirParts
      <4> HIDE DEF k
      <4>2. type[i] = AraDelimiter[k]
        BY <1>8, <4>1 DEF Says
      <4> QED BY <4>1, <4>2, TheirParts
    <3>3. CASE i > Len(s) + 4
      <4> DEFINE k == i - (Len(s) + 4)
      <4>1. k \in 1 .. Len(e) /\ i = Len(s) + 4 + k
        BY <1>4, <1>8, <3>3
      <4> HIDE DEF k
      <4>2. type[i] = e[k]
        BY <1>8, <4>1 DEF Says
      <4> QED BY <1>2, <4>1, <4>2 DEF Contains
    <3> QED BY <1>4, <1>8, <3>1, <3>2, <3>3
  <2>2. Len(type) \in Nat
    BY <1>8
  <2> QED BY <2>1, <2>2, TheirParts, PartsAreNotFound DEF Contains
<1>11. Find(ToLower(topic), lower) = at
  <2>1. /\ Len(ToLower(topic)) = Len(topic) /\ Len(topic) \in Nat
        /\ \A i \in 1 .. Len(topic) :
             ToLower(topic)[i] = IF topic[i] \in DOMAIN Lower THEN Lower[topic[i]] ELSE topic[i]
    BY <1>7, LowerCase
  <2>2. ASSUME NEW m \in Nat, NEW q \in Seq(Words), Says(topic, m, q), m + Len(q) <= Len(topic)
        PROVE  Says(ToLower(topic), m, ToLower(q)) /\ Len(ToLower(q)) = Len(q)
    <3>1. /\ Len(ToLower(q)) = Len(q)
          /\ \A i \in 1 .. Len(q) :
               ToLower(q)[i] = IF q[i] \in DOMAIN Lower THEN Lower[q[i]] ELSE q[i]
      BY LowerCase
    <3>2. ASSUME NEW k \in 1 .. Len(q) PROVE ToLower(topic)[m + k] = ToLower(q)[k]
      <4>1. m + k \in 1 .. Len(topic)
        BY <2>1, <2>2
      <4>2. topic[m + k] = q[k]
        BY <2>2 DEF Says
      <4> QED BY <2>1, <3>1, <4>1, <4>2
    <3> QED BY <3>1, <3>2 DEF Says
  <2>3. /\ Says(ToLower(topic), 1, ToLower(n)) /\ Len(ToLower(n)) = Len(n)
        /\ Says(ToLower(topic), 2 + Len(n), lower)
    <3>1. 1 + Len(n) <= Len(topic) /\ 2 + Len(n) + Len(s) <= Len(topic)
          /\ 1 \in Nat /\ 2 + Len(n) \in Nat
      BY <1>4, <1>7
    <3>2. Says(ToLower(topic), 1, ToLower(n)) /\ Len(ToLower(n)) = Len(n)
      BY <1>1, <1>7, <2>2, <3>1
    <3>3. Says(ToLower(topic), 2 + Len(n), ToLower(s))
      BY <1>1, <1>7, <2>2, <3>1
    <3> QED BY <3>2, <3>3 DEF lower
  <2>4. IsAt(ToLower(topic), lower, at)
    <3>1. at \in 1 .. Len(ToLower(topic)) - Len(lower) + 1 /\ at - 1 = 2 + Len(n)
      BY <1>3, <1>4, <1>7, <2>1
    <3> HIDE DEF at
    <3> QED BY <2>3, <3>1 DEF IsAt
  <2>5. ASSUME NEW j \in 1 .. Len(n) + 2 PROVE ToLower(topic)[j] # lower[1]
    <3>1. CASE j = 1 \/ j = Len(n) + 2
      <4>1. /\ 1 \in 1 .. Len(slash) /\ slash[1] = "/" /\ 0 + 1 = 1 /\ 1 + Len(n) + 1 = Len(n) + 2
            /\ j \in 1 .. Len(topic)
        BY <1>4, <1>7, <3>1, TheirParts DEF slash
      <4>2. topic[j] = "/"
        BY <1>7, <3>1, <4>1 DEF Says
      <4> QED BY <1>2, <2>1, <4>1, <4>2, NamesAssumption DEF NamesAssumption
    <3>2. CASE j > 1 /\ j < Len(n) + 2
      <4> DEFINE k == j - 1
      <4>1. k \in 1 .. Len(n) /\ j = 1 + k
        BY <1>4, <3>2
      <4> HIDE DEF k
      <4>2. ToLower(topic)[j] = ToLower(n)[k]
        BY <2>3, <4>1 DEF Says
      <4> QED BY <1>2, <2>3, <4>1, <4>2 DEF Contains
    <3> QED BY <1>4, <3>1, <3>2
  <2>6. ASSUME NEW j \in 1 .. at - 1 PROVE ~IsAt(ToLower(topic), lower, j)
    <3>1. 1 \in 1 .. Len(lower) /\ j - 1 + 1 = j /\ j \in 1 .. Len(n) + 2
      BY <1>3, <1>4
    <3> QED BY <2>5, <3>1 DEF IsAt, Says
  <2>7. Len(ToLower(topic)) \in Nat /\ Len(lower) \in Nat
    BY <1>3, <1>4, <2>1
  <2> HIDE DEF at
  <2> QED BY <2>4, <2>6, <2>7, TheFirstIsFound
<1>12. /\ SubSeq(type, 1, Len(s)) = lower
       /\ SubSeq(topic, at, at + Len(s) - 1) = s
       /\ SubSeq(topic, 2, 1 + Len(n)) = n
       /\ SubSeq(type, Len(s) + 5, Len(type)) = e
  <2>1. SubSeq(type, 0 + 1, 0 + Len(lower)) = lower
    BY <1>3, <1>8, PartIs
  <2>2. SubSeq(topic, 2 + Len(n) + 1, 2 + Len(n) + Len(s)) = s
    <3>1. 2 + Len(n) \in Nat
      BY <1>4
    <3> QED BY <1>1, <1>7, <3>1, PartIs
  <2>3. SubSeq(topic, 1 + 1, 1 + Len(n)) = n
    BY <1>1, <1>7, PartIs
  <2>4. SubSeq(type, Len(s) + 4 + 1, Len(s) + 4 + Len(e)) = e
    <3>1. Len(s) + 4 \in Nat
      BY <1>4
    <3> QED BY <1>1, <1>8, <3>1, PartIs
  <2>5. /\ 0 + 1 = 1 /\ 0 + Len(lower) = Len(s) /\ 2 + Len(n) + 1 = at
        /\ 2 + Len(n) + Len(s) = at + Len(s) - 1 /\ 1 + 1 = 2
        /\ Len(s) + 4 + 1 = Len(s) + 5 /\ Len(type) = Len(s) + 4 + Len(e)
    BY <1>3, <1>4, <1>8
  <2> HIDE DEF at
  <2> QED BY <2>1, <2>2, <2>3, <2>4, <2>5, Zenon
<1>13. AraDescription(topic, type) = [service |-> s, instance |-> n, event |-> e]
  <2>1. /\ Len(s) + 1 - 1 = Len(s) /\ at - 2 = 1 + Len(n)
        /\ Len(s) + 1 + Len(AraDelimiter) = Len(s) + 5
        /\ Len(lower) = Len(s) /\ ~(at < 3) /\ at # 0
    BY <1>3, <1>4, TheirParts
  <2> HIDE DEF at
  <2>2. /\ SubSeq(type, 1, Find(type, AraDelimiter) - 1) = lower
        /\ SubSeq(type, Find(type, AraDelimiter) + Len(AraDelimiter), Len(type)) = e
        /\ SubSeq(topic, 2, IF at < 3 THEN Len(topic) ELSE at - 2) = n
    <3>1. SubSeq(type, 1, Find(type, AraDelimiter) - 1) = lower
      BY <1>9, <1>12, <2>1
    <3>2. SubSeq(type, Find(type, AraDelimiter) + Len(AraDelimiter), Len(type)) = e
      BY <1>9, <1>12, <2>1
    <3>3. SubSeq(topic, 2, IF at < 3 THEN Len(topic) ELSE at - 2) = n
      BY <1>12, <2>1
    <3> QED BY <3>1, <3>2, <3>3
  <2>3. /\ Find(ToLower(topic), lower) = at /\ at # 0
        /\ SubSeq(topic, at, at + Len(lower) - 1) = s
    BY <1>11, <1>12, <2>1
  <2> QED BY <2>2, <2>3 DEF AraDescription
<1>14. get_service_description_from_name_n_type(topic, type) = d
  BY <1>1, <1>9, <1>10, <1>13 DEF get_service_description_from_name_n_type
<1>15. make_service_description(topic, type) = d
  BY <1>14, DescriptionsAreMade
<1> QED BY <1>6, <1>15 DEF LeadsBack

\* A token ends before the next slash.
LastBeforeSlash(s, i) == Max({j \in i .. Len(s) : \A l \in i .. j : s[l] # "/"})

\* A part that has no slash ends the token it begins.
LEMMA TokensEnd ==
  ASSUME NEW s, Len(s) \in Nat, NEW m \in Nat, NEW q, Len(q) \in Nat \ {0}, Says(s, m, q),
         ~Contains(q, "/"), m + Len(q) <= Len(s),
         m + Len(q) = Len(s) \/ s[m + Len(q) + 1] = "/"
  PROVE  LastBeforeSlash(s, m + 1) = m + Len(q)
<1> DEFINE S == {j \in m + 1 .. Len(s) : \A l \in m + 1 .. j : s[l] # "/"}
           end == m + Len(q)
<1>1. end \in S
  <2>1. end \in m + 1 .. Len(s)
    OBVIOUS
  <2>2. ASSUME NEW l \in m + 1 .. end PROVE s[l] # "/"
    <3> DEFINE i == l - m
    <3>1. i \in 1 .. Len(q) /\ m + i = l
      OBVIOUS
    <3> HIDE DEF i
    <3>2. s[m + i] = q[i] /\ q[i] # "/"
      BY <3>1 DEF Says, Contains
    <3> QED BY <3>1, <3>2
  <2> QED BY <2>1, <2>2
<1>2. ASSUME NEW j \in S PROVE end >= j
  <2>1. CASE end = Len(s)
    BY <2>1
  <2>2. CASE s[end + 1] = "/"
    <3>1. ~(end + 1 \in m + 1 .. j)
      BY <2>2
    <3>2. j \in Int /\ end + 1 \in Int /\ m + 1 <= end + 1
      OBVIOUS
    <3> HIDE DEF end, S
    <3> QED BY <3>1, <3>2 DEF end
  <2> QED BY <2>1, <2>2
<1>3. \A j \in S : j \in Int
  OBVIOUS
<1> HIDE DEF S, end
<1>4. Max(S) = end
  BY <1>1, <1>2, <1>3, MaxIs
<1> QED BY <1>4 DEF LastBeforeSlash, S, end

\* Of four numbers in a row, as many are below each as there should be.
Ranked(S, a, b, c, d) ==
  LET Rank(i) == Cardinality({j \in S : j <= i})
  IN  Cardinality(S) = 4 /\ Rank(a) = 1 /\ Rank(b) = 2 /\ Rank(c) = 3 /\ Rank(d) = 4

\* Each of the four is the only one of its rank.
LEMMA FourInARow ==
  ASSUME NEW a \in Nat, NEW b \in Nat, NEW c \in Nat, NEW d \in Nat, a < b, b < c, c < d
  PROVE  Ranked({a, b, c, d}, a, b, c, d)
<1> DEFINE S == {a, b, c, d}
           S1 == {a}
           S2 == S1 \cup {b}
           S3 == S2 \cup {c}
           S4 == S3 \cup {d}
<1>1. b \notin S1 /\ c \notin S2 /\ d \notin S3
  OBVIOUS
<1>2. /\ {j \in S : j <= a} = S1 /\ {j \in S : j <= b} = S2
      /\ {j \in S : j <= c} = S3 /\ {j \in S : j <= d} = S4 /\ S = S4
  OBVIOUS
<1> HIDE DEF S
<1>4. IsFiniteSet(S1) /\ Cardinality(S1) = 1
  BY FS_Singleton
<1> HIDE DEF S1
<1>5. IsFiniteSet(S2) /\ Cardinality(S2) = 2
  BY <1>1, <1>4, FS_AddElement
<1> HIDE DEF S2
<1>6. IsFiniteSet(S3) /\ Cardinality(S3) = 3
  BY <1>1, <1>5, FS_AddElement
<1> HIDE DEF S3
<1>7. IsFiniteSet(S4) /\ Cardinality(S4) = 4
  BY <1>1, <1>6, FS_AddElement
<1> QED BY <1>2, <1>4, <1>5, <1>6, <1>7 DEF Ranked, S

\* A part after a slash is one token.
IsToken(s, m, q) ==
  \A i \in m + 1 .. m + Len(q) : s[i] # "/" /\ (i = 1 \/ s[i - 1] = "/" <=> i = m + 1)

\* A part after a slash begins a token, and none begins within it.
LEMMA TokensStart ==
  ASSUME NEW s, NEW m \in Nat \ {0}, s[m] = "/", NEW q, Len(q) \in Nat,
         Says(s, m, q), ~Contains(q, "/")
  PROVE  IsToken(s, m, q)
<1> SUFFICES ASSUME NEW i \in m + 1 .. m + Len(q)
             PROVE  s[i] # "/" /\ (i = 1 \/ s[i - 1] = "/" <=> i = m + 1)
  BY DEF IsToken
<1> DEFINE k == i - m
<1>1. k \in 1 .. Len(q) /\ m + k = i /\ i - 1 = m + (k - 1) /\ i # 1 /\ (k = 1 <=> i = m + 1)
  OBVIOUS
<1>2. k # 1 => k - 1 \in 1 .. Len(q)
  OBVIOUS
<1>3. k = 1 => i - 1 = m
  OBVIOUS
<1> HIDE DEF k
<1>4. \A l \in 1 .. Len(q) : s[m + l] # "/"
  BY DEF Says, Contains
<1> QED BY <1>1, <1>2, <1>3, <1>4

\* The daemon's topics split into the four tokens they were put together of.
LEMMA TheDaemonsLeadsBack ==
  ASSUME NEW d, d # NoDescription, IsDescription(d), IsOfTheDaemon(d)
  PROVE  LeadsBack(d)
<1> DEFINE s == d.service
           n == d.instance
           e == d.event
           slash == <<"/">>
           first == <<"/", "_iceoryx", "/">>
           topic == first \o n \o slash \o s \o slash \o e
           type == IntrospectionPackage \o <<"/", "msg", "/">> \o e
<1>1. /\ s \in Seq(Words) /\ n \in Seq(Words) /\ e \in Seq(Words)
      /\ d = [service |-> s, instance |-> n, event |-> e]
  BY DEF IsDescription
<1>2. /\ Contains(s, "Introspection") /\ s # <<>> /\ n # <<>> /\ e # <<>>
      /\ ~Contains(s, "/") /\ ~Contains(n, "/") /\ ~Contains(e, "/")
  BY DEF IsDescription, IsOfTheDaemon
<1> DEFINE ls == Len(s)
           ln == Len(n)
           le == Len(e)
<1>3. ls \in Nat /\ ln \in Nat /\ le \in Nat /\ ls > 0 /\ ln > 0 /\ le > 0
  BY <1>1, <1>2
<1>4. Has(s, IntrospectionService)
  BY <1>2, <1>3, WordsAreFound DEF IntrospectionService
<1>5. get_name_n_type_from_service_description(d) = [topic |-> topic, type |-> type]
  BY <1>4 DEF get_name_n_type_from_service_description
<1>6. Has(type, IntrospectionPackage)
  <2> DEFINE rest == <<"/", "msg", "/">>
  <2>1. rest \in Seq(Words)
    <3>1. ASSUME NEW P, NEW a \in P, NEW b \in P PROVE <<a, b, a>> \in Seq(P)
      OBVIOUS
    <3> QED BY <3>1, NamesAssumption, Zenon DEF NamesAssumption
  <2> HIDE DEF rest, e
  <2>0. type = IntrospectionPackage \o rest \o e
    BY DEF rest
  <2> HIDE DEF type
  <2>2. Len(type) \in Nat /\ Len(type) >= 1 /\ Says(type, 0, IntrospectionPackage)
    <3>1. /\ type \in Seq(Words) /\ Len(type) = Len(IntrospectionPackage) + Len(rest) + Len(e)
          /\ Says(type, 0, IntrospectionPackage)
      <4>1. LET t == IntrospectionPackage \o rest \o e
            IN  /\ t \in Seq(Words) /\ Len(t) = Len(IntrospectionPackage) + Len(rest) + Len(e)
                /\ Says(t, 0, IntrospectionPackage)
        <5>1. IntrospectionPackage \in Seq(Words) /\ e \in Seq(Words)
          BY <1>1, TheirParts
        <5> QED BY <2>1, <5>1, ThreeJoined
      <4> QED BY <2>0, <4>1
    <3> QED BY <1>1, <2>1, <3>1, TheirParts
  <2>3. type[1] = "iceoryx_introspection_msgs"
    BY <2>2, TheirParts DEF Says
  <2>4. Contains(type, "iceoryx_introspection_msgs")
    BY <2>2, <2>3 DEF Contains
  <2> QED BY <2>2, <2>4, WordsAreFound DEF IntrospectionPackage
<1> HIDE DEF s, n, e, slash, first, topic, type
<1>7. /\ slash \in Seq(Words) /\ Len(slash) = 1 /\ slash[1] = "/"
      /\ first \in Seq(Words) /\ Len(first) = 3
      /\ first[1] = "/" /\ first[2] = "_iceoryx" /\ first[3] = "/"
  BY TheirParts DEF slash, first
<1>8. SaysSix(topic, Words, first, n, slash, s, e)
  BY <1>1, <1>7, SixJoined DEF topic
<1>9. /\ Says(topic, 0, first) /\ Says(topic, 3, n) /\ Says(topic, 3 + ln, slash)
      /\ Says(topic, 4 + ln, s) /\ Says(topic, 4 + ln + ls, slash) /\ Says(topic, 5 + ln + ls, e)
      /\ Len(topic) = 5 + ln + ls + le
  <2>1. /\ Len(first) + Len(n) = 3 + ln /\ Len(first) + Len(n) + 1 = 4 + ln
        /\ Len(first) + Len(n) + 1 + Len(s) = 4 + ln + ls
        /\ Len(first) + Len(n) + Len(s) + 2 = 5 + ln + ls
        /\ Len(first) + Len(n) + Len(s) + Len(e) + 2 = 5 + ln + ls + le
    BY <1>3, <1>7
  <2> HIDE DEF ls, ln, le
  <2> QED BY <1>7, <1>8, <2>1 DEF SaysSix
<1>10. /\ topic[1] = "/" /\ topic[2] = "_iceoryx" /\ topic[3] = "/" /\ topic[4 + ln] = "/"
       /\ topic[5 + ln + ls] = "/"
  <2>1. topic[0 + 1] = "/" /\ topic[0 + 2] = "_iceoryx" /\ topic[0 + 3] = "/"
    BY <1>7, <1>9 DEF Says
  <2>2. topic[3 + ln + 1] = "/" /\ topic[4 + ln + ls + 1] = "/"
    BY <1>7, <1>9 DEF Says
  <2>3. 3 + ln + 1 = 4 + ln /\ 4 + ln + ls + 1 = 5 + ln + ls
    BY <1>3
  <2> HIDE DEF ls, ln, le
  <2> QED BY <2>1, <2>2, <2>3
<1> DEFINE starts == {i \in 1 .. Len(topic) : topic[i] # "/" /\ (i = 1 \/ topic[i - 1] = "/")}
           b == 5 + ln
           c == 6 + ln + ls
<1>a. IsToken(topic, 3, n) /\ IsToken(topic, 4 + ln, s) /\ IsToken(topic, 5 + ln + ls, e)
  <2>1. /\ 3 \in Nat \ {0} /\ 4 + ln \in Nat \ {0} /\ 5 + ln + ls \in Nat \ {0}
        /\ Len(s) \in Nat /\ Len(n) \in Nat /\ Len(e) \in Nat
    BY <1>3
  <2> HIDE DEF ls, ln, le
  <2>2. IsToken(topic, 3, n)
    BY <1>2, <1>9, <1>10, <2>1, TokensStart
  <2>3. IsToken(topic, 4 + ln, s)
    BY <1>2, <1>9, <1>10, <2>1, TokensStart
  <2>4. topic[5 + ln + ls] = "/" /\ Says(topic, 5 + ln + ls, e)
    BY <1>9, <1>10
  <2>5. IsToken(topic, 5 + ln + ls, e)
    BY <1>2, <2>1, <2>4, TokensStart
  <2> QED BY <2>2, <2>3, <2>5
<1>11. starts = {2, 4, b, c}
  <2>7. starts \subseteq 1 .. Len(topic) /\ {2, 4, b, c} \subseteq 1 .. Len(topic)
    BY <1>3, <1>9
  <2> SUFFICES ASSUME NEW i \in 1 .. Len(topic)
               PROVE  i \in starts <=> i \in {2, 4, b, c}
    <3> HIDE DEF starts, b, c
    <3> QED BY <2>7
  <2>1. CASE i \in {1, 2, 3}
    BY <1>3, <1>10, <2>1
  <2>2. CASE i \in 3 + 1 .. 3 + ln
    <3>1. topic[i] # "/" /\ (i = 1 \/ topic[i - 1] = "/" <=> i = 3 + 1)
      BY <1>a, <2>2 DEF IsToken
    <3> QED BY <1>3, <2>2, <3>1
  <2>3. CASE i = 4 + ln \/ i = 5 + ln + ls
    BY <1>3, <1>10, <2>3
  <2>4. CASE i \in 4 + ln + 1 .. 4 + ln + ls
    <3>1. topic[i] # "/" /\ (i = 1 \/ topic[i - 1] = "/" <=> i = 4 + ln + 1)
      BY <1>a, <2>4 DEF IsToken
    <3> QED BY <1>3, <2>4, <3>1
  <2>5. CASE i \in 5 + ln + ls + 1 .. 5 + ln + ls + le
    <3>1. topic[i] # "/" /\ (i = 1 \/ topic[i - 1] = "/" <=> i = 5 + ln + ls + 1)
      BY <1>a, <2>5 DEF IsToken
    <3> QED BY <1>3, <2>5, <3>1
  <2>6. \/ i \in {1, 2, 3} \/ i \in 3 + 1 .. 3 + ln \/ i = 4 + ln \/ i = 5 + ln + ls
        \/ i \in 4 + ln + 1 .. 4 + ln + ls \/ i \in 5 + ln + ls + 1 .. 5 + ln + ls + le
    BY <1>3, <1>9
  <2> QED BY <2>1, <2>2, <2>3, <2>4, <2>5, <2>6
<1> DEFINE Start(k) == CHOOSE i \in starts : Cardinality({j \in starts : j <= i}) = k
           End(i) == LastBeforeSlash(topic, i)
<1>12. Cardinality(starts) = 4 /\ Start(2) = 4 /\ Start(3) = b /\ Start(4) = c
  <2>1. 2 \in Nat /\ 4 \in Nat /\ b \in Nat /\ c \in Nat /\ 2 < 4 /\ 4 < b /\ b < c
    BY <1>3
  <2> HIDE DEF b, c
  <2>2. Ranked(starts, 2, 4, b, c)
    <3> HIDE DEF starts
    <3> QED BY <1>11, <2>1, FourInARow
  <2>3. /\ Cardinality({j \in starts : j <= 2}) = 1 /\ Cardinality({j \in starts : j <= 4}) = 2
        /\ Cardinality({j \in starts : j <= b}) = 3 /\ Cardinality({j \in starts : j <= c}) = 4
        /\ Cardinality(starts) = 4
    <3> HIDE DEF starts
    <3> QED BY <2>2 DEF Ranked
  <2> DEFINE Rank(i) == Cardinality({j \in starts : j <= i})
  <2> HIDE DEF starts
  <2>4. ASSUME NEW k \in {2, 3, 4} PROVE Start(k) \in starts /\ Rank(Start(k)) = k
    <3>1. \E i \in starts : Rank(i) = k
      BY <1>11, <2>3
    <3> QED BY <3>1, Zenon
  <2>5. /\ Rank(2) = 1 /\ Rank(4) = 2 /\ Rank(b) = 3 /\ Rank(c) = 4
    BY <2>3
  <2> HIDE DEF Start, Rank
  <2> QED BY <1>11, <2>3, <2>4, <2>5
<1>13. End(4) = 3 + ln /\ End(b) = 4 + ln + ls /\ End(c) = 5 + ln + ls + le
  <2>1. /\ 3 \in Nat /\ 4 + ln \in Nat /\ 5 + ln + ls \in Nat /\ Len(topic) \in Nat
        /\ Len(s) \in Nat \ {0} /\ Len(n) \in Nat \ {0} /\ Len(e) \in Nat \ {0}
        /\ 3 + Len(n) <= Len(topic) /\ 4 + ln + Len(s) <= Len(topic)
        /\ 5 + ln + ls + Len(e) = Len(topic)
        /\ 3 + Len(n) + 1 = 4 + ln /\ 4 + ln + Len(s) + 1 = 5 + ln + ls
        /\ 3 + 1 = 4 /\ 4 + ln + 1 = b /\ 5 + ln + ls + 1 = c
        /\ ln = Len(n) /\ ls = Len(s) /\ le = Len(e)
    BY <1>3, <1>9
  <2>a. topic[3 + Len(n) + 1] = "/" /\ topic[4 + ln + Len(s) + 1] = "/"
    BY <1>10, <2>1
  <2>2. LastBeforeSlash(topic, 3 + 1) = 3 + Len(n)
    BY <1>2, <1>9, <1>10, <2>1, TokensEnd
  <2>3. LastBeforeSlash(topic, 4 + ln + 1) = 4 + ln + Len(s)
    <3> HIDE DEF b, c, ln, ls, le
    <3> QED BY <1>2, <1>9, <2>1, <2>a, TokensEnd
  <2>4. LastBeforeSlash(topic, 5 + ln + ls + 1) = 5 + ln + ls + Len(e)
    BY <1>2, <1>9, <1>10, <2>1, TokensEnd
  <2> HIDE DEF b, c, ln, ls, le
  <2> QED BY <2>1, <2>2, <2>3, <2>4
<1>14. /\ SubSeq(topic, 4, 3 + ln) = n /\ SubSeq(topic, b, 4 + ln + ls) = s
       /\ SubSeq(topic, c, 5 + ln + ls + le) = e
  <2>1. /\ 3 \in Nat /\ 4 + ln \in Nat /\ 5 + ln + ls \in Nat
        /\ 3 + 1 = 4 /\ 4 + ln + 1 = b /\ 5 + ln + ls + 1 = c
    BY <1>3
  <2>2. SubSeq(topic, 3 + 1, 3 + Len(n)) = n
    BY <1>1, <1>9, <2>1, PartIs
  <2>3. SubSeq(topic, 4 + ln + 1, 4 + ln + Len(s)) = s
    BY <1>1, <1>9, <2>1, PartIs
  <2>4. SubSeq(topic, 5 + ln + ls + 1, 5 + ln + ls + Len(e)) = e
    BY <1>1, <1>9, <2>1, PartIs
  <2> QED BY <2>1, <2>2, <2>3, <2>4
<1> HIDE DEF starts, b, c, ln, ls, le, Start, End
<1>15. /\ Len(Tokens(topic)) = 4 /\ Tokens(topic)[2] = n
       /\ Tokens(topic)[3] = s /\ Tokens(topic)[4] = e
  <2>1. Tokens(topic) = [k \in 1 .. Cardinality(starts) |-> SubSeq(topic, Start(k), End(Start(k)))]
    BY Zenon DEF Tokens, LastBeforeSlash, starts, Start, End
  <2>2. Tokens(topic) = [k \in 1 .. 4 |-> SubSeq(topic, Start(k), End(Start(k)))]
    BY <1>12, <2>1
  <2> QED BY <1>12, <1>13, <1>14, <2>2
<1>16. InbuiltDescription(topic) = d
  BY <1>1, <1>15 DEF InbuiltDescription
<1>17. get_service_description_from_name_n_type(topic, type) = d
  BY <1>6, <1>16 DEF get_service_description_from_name_n_type
<1>18. make_service_description(topic, type) = d
  BY <1>17, DescriptionsAreMade
<1> QED BY <1>5, <1>18 DEF LeadsBack

-----------------------------------------------------------------------------
(* What the graph reports leads to its ports.                               *)

\* A port that a process could create has a description.
Creatable == {p \in Ports : p.description # NoDescription}

\* The ports that there are, and those of every sample, could be created.
PortsAreDescribed ==
  ports \in Seq(Creatable) /\ published.ports \in Seq(Creatable)
    /\ applied.ports \in Seq(Creatable)

\* Every step leaves only ports that could be created.
LEMMA StepPortsAreDescribed ==
  GraphInv /\ PortsAreDescribed /\ [Next]_vars => PortsAreDescribed'
<1> SUFFICES ASSUME GraphInv, PortsAreDescribed, [Next]_vars PROVE PortsAreDescribed'
  OBVIOUS
<1> USE DEF GraphInv, PortsAreDescribed
<1>1. CASE UNCHANGED vars
  BY <1>1 DEF vars, system, containers
<1>2. ASSUME NEW n \in RosNodes, CreateNode(n) \/ DestroyNode(n) PROVE PortsAreDescribed'
  BY <1>2 DEF CreateNode, DestroyNode, containers
<1>3. ASSUME NEW p \in Ports, CreatePort(p) PROVE PortsAreDescribed'
  BY <1>3 DEF CreatePort, Creatable, containers
<1>4. ASSUME NEW i \in 1 .. Len(ports), DestroyPort(i) PROVE PortsAreDescribed'
  <2>1. /\ SubSeq(ports, 1, i - 1) \in Seq(Creatable)
        /\ SubSeq(ports, i + 1, Len(ports)) \in Seq(Creatable)
    OBVIOUS
  <2>2. ports' = SubSeq(ports, 1, i - 1) \o SubSeq(ports, i + 1, Len(ports))
    BY <1>4 DEF DestroyPort, RemoveAt
  <2>3. ports' \in Seq(Creatable)
    BY <2>1, <2>2
  <2> QED BY <1>4, <2>3 DEF DestroyPort, containers
<1>5. ASSUME NEW r \in Receivers, PublishSample(r) \/ DeliverOnSubscribe(r)
      PROVE  PortsAreDescribed'
  <2>1. UNCHANGED <<ports, applied>>
    BY <1>5 DEF PublishSample, DeliverOnSubscribe, system, containers
  <2>2. \/ published'.ports = published.ports
        \/ published'.ports = Those(ports, {p \in Ports : p.kind \in Kinds})
    BY <1>5 DEF PublishSample, DeliverOnSubscribe, Sample, Receiving, Receivers
  <2>3. published'.ports \in Seq(Creatable)
    BY <2>2, ThoseAreTheWanted
  <2> QED BY <2>1, <2>3
<1>6. ASSUME NEW r \in Receivers, Query(r) PROVE PortsAreDescribed'
  <2>1. UNCHANGED <<ports, published>>
    BY <1>6 DEF Query, QuerySubscribes, QueryWakes, QueryUpdates, system
  <2>2. applied'.ports = applied.ports \/ applied'.ports = published.ports
    BY <1>6 DEF Query, QuerySubscribes, QueryWakes, QueryUpdates, FillFrom, containers,
                Receiving, Receivers
  <2> QED BY <2>1, <2>2
<1> QED BY <1>1, <1>2, <1>3, <1>4, <1>5, <1>6 DEF Next

\* What a port is reported as leads back to its description.
LEMMA PortsLeadBack ==
  ASSUME TopicsAreTold, NEW p \in Creatable
  PROVE  make_service_description(Reported[p.description].topic, Reported[p.description].type)
           = p.description
<1> DEFINE d == p.description
<1>1. d # NoDescription /\ d \in {q.description : q \in Ports} \ {NoDescription}
  BY DEF Creatable
<1>2. IsDescription(d) /\ (IsOfRos(d) \/ IsOfAutosar(d) \/ IsOfTheDaemon(d))
  BY <1>1 DEF TopicsAreTold
<1>3. LeadsBack(d)
  BY <1>1, <1>2, RosLeadsBack, AutosarLeadsBack, TheDaemonsLeadsBack
<1>4. Reported[d] = get_name_n_type_from_service_description(d)
  BY <1>1 DEF Reported
<1> HIDE DEF d
<1>5. make_service_description(Reported[d].topic, Reported[d].type) = d
  BY <1>3, <1>4 DEF LeadsBack
<1> QED BY <1>5 DEF d

\* A topic has the type of one of its ports.
LEMMA NamesAreOfPorts ==
  ASSUME NEW P, NEW list \in Seq(P), NEW t \in DOMAIN NamesIn(list)
  PROVE  \E j \in 1 .. Len(list) :
           TopicOf(list[j]) = t /\ NamesIn(list)[t] = Reported[list[j].description].type
<1> DEFINE W1 == {p \in Ports : p.kind = "subscription"}
           W2 == {p \in Ports : p.kind # "subscription"}
           first == Those(list, W1)
           second == Those(list, W2)
           inOrder == first \o second
           having == {i \in 1 .. Len(inOrder) : TopicOf(inOrder[i]) = t}
           last == Max(having)
<1>1. first \in Seq(P) /\ second \in Seq(P)
  BY ThoseAreTheWanted
<1>2. /\ t \in {TopicOf(inOrder[i]) : i \in 1 .. Len(inOrder)}
      /\ NamesIn(list)[t] = Reported[inOrder[last].description].type
  BY DEF NamesIn
<1>3. /\ \A i \in 1 .. Len(first) : \E j \in 1 .. Len(list) : first[i] = list[j]
      /\ \A i \in 1 .. Len(second) : \E j \in 1 .. Len(list) : second[i] = list[j]
  <2> HIDE DEF W1, W2
  <2> QED BY ThoseAreOfTheList
<1> HIDE DEF first, second
<1>4. Len(inOrder) \in Nat
  BY <1>1
<1>5. ASSUME NEW i \in 1 .. Len(inOrder)
      PROVE  \E j \in 1 .. Len(list) : inOrder[i] = list[j]
  <2>1. CASE i <= Len(first)
    BY <1>1, <1>3, <2>1
  <2>2. CASE i > Len(first)
    <3>1. i - Len(first) \in 1 .. Len(second) /\ inOrder[i] = second[i - Len(first)]
      BY <1>1, <2>2
    <3> QED BY <1>3, <3>1
  <2> QED BY <1>1, <2>1, <2>2
<1> HIDE DEF inOrder
<1>6. last \in having
  <2>1. having # {}
    BY <1>2
  <2>2. \E i \in having : \A j \in having : i >= j
    <3>1. having \subseteq 0 .. Len(inOrder)
      BY <1>4
    <3> HIDE DEF having
    <3>2. \E i \in having : \A j \in having : j <= i
      BY <1>4, <2>1, <3>1, GreatestElement
    <3> QED BY <3>1, <3>2
  <2>3. PICK i \in having : \A j \in having : i >= j
    BY <2>2
  <2>4. \A j \in having : j \in Int
    BY <1>4
  <2> HIDE DEF having
  <2> QED BY <2>3, <2>4, MaxIs
<1> HIDE DEF last
<1>7. last \in 1 .. Len(inOrder) /\ TopicOf(inOrder[last]) = t
  BY <1>6
<1> QED BY <1>2, <1>5, <1>7

\* For topics that the names of ROS, of AUTOSAR or of the daemon stand for: what the
\* graph reports converts back to the description of a port of the sample, or of one that
\* there is, whatever overwrote it and was cut off.
THEOREM ReportedLeadsBack ==
  ASSUME TopicsAreTold
  PROVE  Spec => []ReportedLeadsToAPort
<1> DEFINE Inv == GraphInv /\ PortsAreDescribed
<1>1. Init => Inv
  <2> SUFFICES ASSUME Init PROVE PortsAreDescribed
    BY InitGraphInv
  <2>1. <<>> \in Seq(Creatable)
    OBVIOUS
  <2> QED BY <2>1 DEF Init, NoSamples, PortsAreDescribed
<1>2. Inv /\ [Next]_vars => Inv'
  BY StepGraphInv, StepPortsAreDescribed
<1>3. Inv => ReportedLeadsToAPort
  <2> SUFFICES ASSUME Inv PROVE ReportedLeadsToAPort
    OBVIOUS
  <2>1. ASSUME NEW t \in DOMAIN names
        PROVE  \E i \in 1 .. Len(applied.ports) :
                 applied.ports[i].description = make_service_description(t, names[t])
    <3>1. applied.ports \in Seq(Creatable) /\ names = NamesIn(applied.ports)
      BY DEF GraphInv, Filled, PortsAreDescribed
    <3>2. PICK i \in 1 .. Len(applied.ports) :
            /\ TopicOf(applied.ports[i]) = t
            /\ names[t] = Reported[applied.ports[i].description].type
      BY <3>1, NamesAreOfPorts
    <3>3. applied.ports[i] \in Creatable
      BY <3>1
    <3> QED BY <3>2, <3>3, PortsLeadBack DEF TopicOf
  <2>2. ASSUME NEW s \in ServiceNames
        PROVE  \E i \in 1 .. Len(ports) :
                 ports[i].description = make_service_description(s.topic, s.type)
    <3> DEFINE wanted == {p \in Ports : p.kind = "service"}
               services == Those(ports, wanted)
    <3>1. PICK i \in 1 .. Len(services) : s = Reported[services[i].description]
      BY DEF ServiceNames
    <3>2. ports \in Seq(Creatable)
      BY DEF PortsAreDescribed
    <3> HIDE DEF wanted
    <3>3. PICK j \in 1 .. Len(ports) : services[i] = ports[j]
      BY <3>2, ThoseAreOfTheList
    <3> HIDE DEF services
    <3>4. ports[j] \in Creatable
      BY <3>2
    <3> QED BY <3>1, <3>3, <3>4, PortsLeadBack
  <2> QED BY <2>1, <2>2 DEF ReportedLeadsToAPort
<1> QED BY <1>1, <1>2, <1>3, PTL DEF Spec

\* For types that have one name, and one namespace in each language: endpoints of one
\* topic and one type have one description, in C and in C++.
THEOREM LanguagesHaveOneDescription ==
  ASSUME TypesAreTold
  PROVE  Spec => []LanguagesMeet
<1>1. LanguagesMeet
  <2> SUFFICES ASSUME NEW p \in RosPorts, NEW q \in RosPorts,
                      p.as.topic = q.as.topic, p.as.type = q.as.type
               PROVE  p.description = q.description
    BY DEF LanguagesMeet
  <2>1. \A r \in RosPorts : /\ r.as \in RosTopics
                            /\ r.description =
                                 get_iceoryx_service_description(r.as.topic, r.as.support)
    BY DEF RosPorts, RosPort
  <2>2. extract_type(p.as.support) = extract_type(q.as.support)
    BY <2>1, NamespacesAreOne DEF TypesAreTold, extract_type
  <2> QED BY <2>1, <2>2 DEF get_iceoryx_service_description
<1> QED BY <1>1, PTL
=============================================================================
