--------------------------- MODULE PayloadProofs ---------------------------
(***************************************************************************)
(* Theorems about Payload: what is decided, what is on its way, and what    *)
(* the receiver gets.                                                       *)
(***************************************************************************)
EXTENDS Payload, SerializationProofs

-----------------------------------------------------------------------------
(* Interfaces.                                                              *)

\* All parts of an interface count as fixed.
AllFixed(interface) == \A i \in 1 .. Len(interface) : CountsAsFixed(interface[i])

\* The interfaces have a part or two, of types that there are.
LEMMA PartsAreTypes ==
  ASSUME NEW interface \in Interfaces
  PROVE  /\ Len(interface) \in {1, 2}
         /\ \A i \in 1 .. Len(interface) : interface[i] \in DOMAIN Types
BY PayloadAssumption DEF PayloadAssumption, MaxParts

\* The decision about an interface is right when the cache is honest, and leaves it so.
LEMMA InterfaceDecides ==
  ASSUME NEW interface \in Interfaces, NEW c \in Honest
  PROVE  LET d == InterfaceIsFixed(interface, c)
         IN  d.fixed \in BOOLEAN /\ (d.fixed <=> AllFixed(interface)) /\ d.cache \in Honest
<1> DEFINE first == is_fixed_size[interface[1]][c]
           second == is_fixed_size[interface[2]][first.cache]
<1>1. \A t \in DOMAIN Types : \A k \in Honest :
        /\ is_fixed_size[t][k].fixed \in BOOLEAN
        /\ is_fixed_size[t][k].fixed <=> CountsAsFixed(t)
        /\ is_fixed_size[t][k].cache \in Honest
  <2> SUFFICES ASSUME NEW t \in DOMAIN Types, NEW k \in Honest
               PROVE  /\ is_fixed_size[t][k].fixed \in BOOLEAN
                      /\ is_fixed_size[t][k].fixed <=> CountsAsFixed(t)
                      /\ is_fixed_size[t][k].cache \in Honest
    BY Zenon
  <2> DEFINE d == is_fixed_size[t]
  <2>1. /\ d \in [Caches -> Answers]
        /\ \A j \in Honest : (d[j].fixed <=> CountsAsFixed(t)) /\ d[j].cache \in Honest
    BY FixedSizeDecides, Zenon DEF Decisions
  <2>2. k \in Caches
    BY DEF Honest
  <2>3. d[k].fixed \in BOOLEAN
    BY <2>1, <2>2 DEF Answers
  <2> QED BY <2>1, <2>3, Zenon
<1>2. /\ Len(interface) \in {1, 2}
      /\ \A i \in 1 .. Len(interface) : interface[i] \in DOMAIN Types
  BY PartsAreTypes
<1>3. interface[1] \in DOMAIN Types
  BY <1>2
<1>4. /\ first.fixed \in BOOLEAN /\ (first.fixed <=> CountsAsFixed(interface[1]))
      /\ first.cache \in Honest
  BY <1>1, <1>3, Zenon
<1>5. InterfaceIsFixed(interface, c) =
        IF Len(interface) = 1 \/ ~first.fixed THEN first ELSE second
  BY Zenon DEF InterfaceIsFixed
<1>6. CASE Len(interface) = 1
  <2>1. AllFixed(interface) <=> CountsAsFixed(interface[1])
    BY <1>6 DEF AllFixed
  <2> QED BY <1>4, <1>5, <1>6, <2>1, Zenon
<1>7. CASE Len(interface) = 2
  <2>1. interface[2] \in DOMAIN Types /\ Len(interface) # 1
    BY <1>2, <1>7
  <2>2. /\ second.fixed \in BOOLEAN /\ (second.fixed <=> CountsAsFixed(interface[2]))
        /\ second.cache \in Honest
    BY <1>1, <1>4, <2>1, Zenon
  <2>3. 1 .. Len(interface) = {1, 2}
    BY <1>7
  <2>4. AllFixed(interface) <=> CountsAsFixed(interface[1]) /\ CountsAsFixed(interface[2])
    BY <2>3 DEF AllFixed
  <2> HIDE DEF first, second
  <2>5. CASE first.fixed
    BY <1>4, <1>5, <2>1, <2>2, <2>4, <2>5, Zenon
  <2>6. CASE ~first.fixed
    BY <1>4, <1>5, <2>4, <2>6, Zenon
  <2> QED BY <2>5, <2>6
<1> QED BY <1>2, <1>6, <1>7

-----------------------------------------------------------------------------
(* What is decided.                                                         *)

\* The caches are honest.
CachesInv == caches \in [Sides -> [Languages -> Honest]]

\* An end is of one part of its interface, and has the flag that the interface calls for.
EndsInv ==
  \A s \in Sides : ends[s] # None =>
    /\ ends[s] \in End /\ ends[s].part <= Len(ends[s].interface)
    /\ ends[s].is_fixed_size_ <=> AllFixed(ends[s].interface)

\* A payload in the queue is of the receiver's type, and is of the kind that it expects.
ChunkInv ==
  chunk # None =>
    /\ ends["receiver"] # None
    /\ chunk.type = TypeOf(ends["receiver"])
    /\ chunk.raw \in BOOLEAN
    /\ chunk.raw <=> AllFixed(ends["receiver"].interface)

\* One that the application has is of the type of its topic.
SerializedInv ==
  \A s \in Sides : serialized[s] # None =>
    /\ ends[s] # None /\ Len(ends[s].interface) = 1
    /\ serialized[s].type = TypeOf(ends[s])
    /\ serialized[s].raw \in BOOLEAN
    /\ serialized[s].raw <=> AllFixed(ends[s].interface)

\* What is indexed has the indices.
ShapeInv ==
  /\ DOMAIN ends = Sides /\ DOMAIN serialized = Sides
  /\ created \in 0 .. MaxCreated

DecisionsInv == CachesInv /\ EndsInv /\ ChunkInv /\ SerializedInv /\ ShapeInv

\* An end has a language, and a type that there is.
LEMMA EndsAreTyped ==
  ASSUME EndsInv, NEW s \in Sides, ends[s] # None
  PROVE  /\ ends[s].interface \in Interfaces /\ ends[s].language \in Languages
         /\ TypeOf(ends[s]) \in DOMAIN Types
         /\ Len(ends[s].interface) = 1 =>
              (AllFixed(ends[s].interface) <=> CountsAsFixed(TypeOf(ends[s])))
<1>1. /\ ends[s] \in End /\ ends[s].part <= Len(ends[s].interface)
  BY DEF EndsInv
<1>2. /\ ends[s].interface \in Interfaces /\ ends[s].language \in Languages
      /\ ends[s].part \in 1 .. MaxParts
  BY <1>1 DEF End
<1>3. /\ Len(ends[s].interface) \in {1, 2}
      /\ \A i \in 1 .. Len(ends[s].interface) : ends[s].interface[i] \in DOMAIN Types
  BY <1>2, PartsAreTypes
<1>4. TypeOf(ends[s]) \in DOMAIN Types
  BY <1>1, <1>2, <1>3 DEF TypeOf, MaxParts
<1>5. ASSUME Len(ends[s].interface) = 1
      PROVE  AllFixed(ends[s].interface) <=> CountsAsFixed(TypeOf(ends[s]))
  <2>1. ends[s].part = 1
    BY <1>1, <1>2, <1>5 DEF MaxParts
  <2>2. 1 .. Len(ends[s].interface) = {1}
    BY <1>5
  <2> QED BY <2>1, <2>2 DEF AllFixed, TypeOf
<1> QED BY <1>2, <1>4, <1>5

\* What rmw_serialize and rmw_deserialize decide is right.
LEMMA DecideNowIsRight ==
  ASSUME DecisionsInv, NEW s \in Sides, ends[s] # None, Len(ends[s].interface) = 1
  PROVE  /\ DecideNow(s).fixed \in BOOLEAN
         /\ DecideNow(s).fixed <=> AllFixed(ends[s].interface)
         /\ DecideNow(s).cache \in Honest
<1> DEFINE t == TypeOf(ends[s])
           c == caches[s][ends[s].language]
           d == is_fixed_size[t]
<1>1. /\ ends[s].interface \in Interfaces /\ ends[s].language \in Languages
      /\ t \in DOMAIN Types
      /\ AllFixed(ends[s].interface) <=> CountsAsFixed(t)
  BY EndsAreTyped DEF DecisionsInv
<1>2. c \in Honest /\ c \in Caches
  BY <1>1 DEF DecisionsInv, CachesInv, Honest
<1>3. DecideNow(s) = d[c]
  BY DEF DecideNow
<1> HIDE DEF t, c
<1>4. /\ d \in [Caches -> Answers]
      /\ \A j \in Honest : (d[j].fixed <=> CountsAsFixed(t)) /\ d[j].cache \in Honest
  BY <1>1, FixedSizeDecides, Zenon DEF Decisions
<1>5. d[c].fixed \in BOOLEAN
  BY <1>2, <1>4 DEF Answers
<1> QED BY <1>1, <1>2, <1>3, <1>4, <1>5, Zenon

\* Before the first step no one was asked, and nothing was created or sent.
LEMMA DecisionsInit == Init => DecisionsInv
<1> SUFFICES ASSUME Init PROVE DecisionsInv
  OBVIOUS
<1>1. EmptyCache \in Honest
  <2>1. EmptyCache \in Caches
    BY CachesAre DEF EmptyCache
  <2> QED BY <2>1 DEF Honest, EmptyCache
<1>2. CachesInv
  BY <1>1 DEF Init, CachesInv
<1>3. EndsInv /\ ChunkInv /\ SerializedInv /\ ShapeInv
  BY PayloadAssumption DEF Init, EndsInv, ChunkInv, SerializedInv, ShapeInv, PayloadAssumption
<1> QED BY <1>2, <1>3 DEF DecisionsInv

\* An end's constructor asks about its interface.
LEMMA CreateDecides ==
  ASSUME DecisionsInv, NEW s \in Sides, NEW interface \in Interfaces,
         NEW part \in 1 .. MaxParts, NEW offered \in SUBSET Languages,
         Create(s, interface, part, offered)
  PROVE  DecisionsInv'
<1> USE DEF DecisionsInv
<1> DEFINE language == get_type_support(offered)
           decision == InterfaceIsFixed(interface, caches[s][language])
           end == [interface |-> interface, part |-> part, language |-> language,
                   is_fixed_size_ |-> decision.fixed]
<1>1. language \in Languages
  BY DEF get_type_support, Languages
<1>2. /\ decision.fixed \in BOOLEAN /\ (decision.fixed <=> AllFixed(interface))
      /\ decision.cache \in Honest
  <2> DEFINE c == caches[s][language]
  <2>1. c \in Honest
    BY <1>1 DEF CachesInv
  <2> HIDE DEF c
  <2>2. LET d == InterfaceIsFixed(interface, c)
        IN  d.fixed \in BOOLEAN /\ (d.fixed <=> AllFixed(interface)) /\ d.cache \in Honest
    BY <2>1, InterfaceDecides
  <2> QED BY <2>2 DEF c
<1>3. /\ ends[s] = None /\ created < MaxCreated /\ part \in 1 .. Len(interface)
      /\ ends' = [ends EXCEPT ![s] = end]
      /\ caches' = [caches EXCEPT ![s][language] = decision.cache]
      /\ created' = created + 1
      /\ UNCHANGED <<chunk, serialized, message, last>>
  BY DEF Create
<1> HIDE DEF language, decision
<1>4. CachesInv'
  BY <1>1, <1>2, <1>3 DEF CachesInv
<1>5. /\ ends'[s] = end /\ DOMAIN ends' = Sides
      /\ \A r \in Sides : r # s => ends'[r] = ends[r]
  BY <1>3 DEF ShapeInv
<1>6. EndsInv'
  <2>1. end \in End
    BY <1>1, <1>2 DEF End
  <2>2. end.part <= Len(end.interface) /\ end.interface = interface
        /\ end.is_fixed_size_ = decision.fixed
    BY <1>3, PartsAreTypes
  <2>3. end.is_fixed_size_ <=> AllFixed(end.interface)
    BY <1>2, <2>2, Zenon
  <2> HIDE DEF end
  <2>4. ASSUME NEW r \in Sides, ends'[r] # None
        PROVE  /\ ends'[r] \in End /\ ends'[r].part <= Len(ends'[r].interface)
               /\ ends'[r].is_fixed_size_ <=> AllFixed(ends'[r].interface)
    <3>1. CASE r = s
      BY <1>5, <2>1, <2>2, <2>3, <3>1, Zenon
    <3>2. CASE r # s
      BY <1>5, <2>4, <3>2, Zenon DEF EndsInv
    <3> QED BY <3>1, <3>2
  <2> QED BY <2>4, Zenon DEF EndsInv
<1>7. ChunkInv'
  <2>1. "receiver" \in Sides
    BY DEF Sides
  <2>2. chunk # None => s # "receiver"
    BY <1>3 DEF ChunkInv
  <2> QED BY <1>3, <1>5, <2>1, <2>2, Zenon DEF ChunkInv
<1>8. SerializedInv'
  <2>1. ASSUME NEW r \in Sides, serialized[r] # None PROVE r # s /\ ends'[r] = ends[r]
    BY <1>3, <1>5, <2>1 DEF SerializedInv
  <2> QED BY <1>3, <2>1, Zenon DEF SerializedInv
<1>9. ShapeInv'
  BY <1>3, <1>5, PayloadAssumption DEF ShapeInv, PayloadAssumption
<1> QED BY <1>4, <1>6, <1>7, <1>8, <1>9

\* What goes with an end is what it has.
LEMMA DestroyDecides ==
  ASSUME DecisionsInv, NEW s \in Sides, Destroy(s)
  PROVE  DecisionsInv'
<1> USE DEF DecisionsInv
<1>1. /\ ends' = [ends EXCEPT ![s] = None]
      /\ serialized' = [serialized EXCEPT ![s] = None]
      /\ UNCHANGED <<caches, created>>
      /\ chunk' = IF s = "receiver" THEN None ELSE chunk
      /\ last' = IF s = "receiver" THEN "none" ELSE last
  BY DEF Destroy
<1>2. /\ ends'[s] = None /\ DOMAIN ends' = Sides
      /\ \A r \in Sides : r # s => ends'[r] = ends[r]
      /\ serialized'[s] = None /\ DOMAIN serialized' = Sides
      /\ \A r \in Sides : r # s => serialized'[r] = serialized[r]
  BY <1>1 DEF ShapeInv
<1>3. CachesInv' /\ ShapeInv'
  BY <1>1, <1>2 DEF CachesInv, ShapeInv
<1>4. EndsInv'
  BY <1>2, Zenon DEF EndsInv
<1>5. ChunkInv'
  <2>1. "receiver" \in Sides
    BY DEF Sides
  <2> QED BY <1>1, <1>2, <2>1, Zenon DEF ChunkInv
<1>6. SerializedInv'
  BY <1>2, Zenon DEF SerializedInv
<1> QED BY <1>3, <1>4, <1>5, <1>6

\* Two connected ends have the same type and make the same of it.
LEMMA ConnectedAgree ==
  ASSUME EndsInv, Connected
  PROVE  /\ TypeOf(ends["sender"]) = TypeOf(ends["receiver"])
         /\ ends["sender"].interface = ends["receiver"].interface
         /\ ends["sender"].is_fixed_size_ \in BOOLEAN
         /\ ends["sender"].is_fixed_size_ <=> AllFixed(ends["receiver"].interface)
<1>1. /\ ends["sender"] # None /\ ends["receiver"] # None
      /\ ends["sender"].interface = ends["receiver"].interface
      /\ ends["sender"].part = ends["receiver"].part
  BY DEF Connected
<1>2. "sender" \in Sides /\ ends["sender"] \in End
  BY <1>1 DEF EndsInv, Sides
<1>3. ends["sender"].is_fixed_size_ \in BOOLEAN
  BY <1>2 DEF End
<1>4. ends["sender"].is_fixed_size_ <=> AllFixed(ends["sender"].interface)
  BY <1>1, <1>2, Zenon DEF EndsInv
<1> QED BY <1>1, <1>3, <1>4, Zenon DEF TypeOf

\* What is sent is of the kind that the flag of the sender says.
LEMMA SendDecides ==
  ASSUME DecisionsInv, NEW values, Send(values)
  PROVE  DecisionsInv'
<1> USE DEF DecisionsInv
<1> DEFINE end == ends["sender"]
           p == Payload(end, end.is_fixed_size_, values)
<1>1. /\ Connected /\ chunk' = p
      /\ UNCHANGED <<caches, ends, created, serialized, message, last>>
  BY DEF Send
<1>2. p.type = TypeOf(end) /\ p.raw = end.is_fixed_size_
  BY DEF Payload
<1>3. ends["receiver"] # None
  BY <1>1 DEF Connected
<1> HIDE DEF p
<1>4. ChunkInv'
  BY <1>1, <1>2, <1>3, ConnectedAgree, Zenon DEF ChunkInv, TypeOf
<1>5. CachesInv' /\ EndsInv' /\ SerializedInv' /\ ShapeInv'
  BY <1>1 DEF CachesInv, EndsInv, SerializedInv, ShapeInv
<1> QED BY <1>4, <1>5

\* What is serialized is of the kind that the decision says.
LEMMA SerializeDecides ==
  ASSUME DecisionsInv, NEW values, SerializeMessage(values)
  PROVE  DecisionsInv'
<1> USE DEF DecisionsInv
<1> DEFINE end == ends["sender"]
           d == DecideNow("sender")
           p == Payload(end, d.fixed, values)
<1>1. /\ end # None /\ Len(end.interface) = 1
      /\ serialized' = [serialized EXCEPT !["sender"] = p]
      /\ caches' = [caches EXCEPT !["sender"][end.language] = d.cache]
      /\ UNCHANGED <<ends, created, chunk, message, last>>
  BY DEF SerializeMessage
<1>2. "sender" \in Sides
  BY DEF Sides
<1>3. d.fixed \in BOOLEAN /\ (d.fixed <=> AllFixed(end.interface)) /\ d.cache \in Honest
  BY <1>1, <1>2, DecideNowIsRight
<1>4. p.type = TypeOf(end) /\ p.raw = d.fixed
  BY DEF Payload
<1> HIDE DEF p, d
<1>5. CachesInv'
  <2>1. end.language \in Languages
    BY <1>1, <1>2, EndsAreTyped
  <2> HIDE DEF end
  <2> QED BY <1>1, <1>2, <1>3, <2>1 DEF CachesInv
<1>6. SerializedInv'
  <2>1. /\ serialized'["sender"] = p
        /\ \A r \in Sides : r # "sender" => serialized'[r] = serialized[r]
    BY <1>1, <1>2 DEF ShapeInv
  <2> QED BY <1>1, <1>3, <1>4, <2>1, Zenon DEF SerializedInv
<1>7. EndsInv' /\ ChunkInv' /\ ShapeInv'
  BY <1>1 DEF EndsInv, ChunkInv, ShapeInv
<1> QED BY <1>5, <1>6, <1>7

\* What was serialized is published to a receiver of the same topic.
LEMMA PublishDecides ==
  ASSUME DecisionsInv, PublishSerialized
  PROVE  DecisionsInv'
<1> USE DEF DecisionsInv
<1>1. /\ Connected /\ serialized["sender"] # None /\ chunk' = serialized["sender"]
      /\ UNCHANGED <<caches, ends, created, serialized, message, last>>
  BY DEF PublishSerialized
<1>2. ends["receiver"] # None /\ "sender" \in Sides
  BY <1>1 DEF Connected, Sides
<1>3. /\ serialized["sender"].type = TypeOf(ends["sender"])
      /\ serialized["sender"].raw \in BOOLEAN
      /\ serialized["sender"].raw <=> AllFixed(ends["sender"].interface)
  BY <1>1, <1>2, Zenon DEF SerializedInv
<1>4. ChunkInv'
  BY <1>1, <1>2, <1>3, ConnectedAgree, Zenon DEF ChunkInv, TypeOf
<1>5. CachesInv' /\ EndsInv' /\ SerializedInv' /\ ShapeInv'
  BY <1>1 DEF CachesInv, EndsInv, SerializedInv, ShapeInv
<1> QED BY <1>4, <1>5

\* Taking leaves the decisions as they are.
LEMMA TakeSerializedDecides ==
  ASSUME DecisionsInv, TakeSerialized
  PROVE  DecisionsInv'
<1> USE DEF DecisionsInv
<1>1. /\ chunk # None /\ Len(ends["receiver"].interface) = 1
      /\ serialized' = [serialized EXCEPT !["receiver"] = chunk]
      /\ chunk' = None
      /\ UNCHANGED <<caches, ends, created, message, last>>
  BY DEF TakeSerialized
<1>2. "receiver" \in Sides
  BY DEF Sides
<1>3. SerializedInv'
  <2>1. /\ serialized'["receiver"] = chunk
        /\ \A r \in Sides : r # "receiver" => serialized'[r] = serialized[r]
    BY <1>1, <1>2 DEF ShapeInv
  <2> QED BY <1>1, <2>1, Zenon DEF SerializedInv, ChunkInv
<1>4. CachesInv' /\ EndsInv' /\ ChunkInv' /\ ShapeInv'
  BY <1>1 DEF CachesInv, EndsInv, ChunkInv, ShapeInv
<1> QED BY <1>3, <1>4

\* Taking leaves the decisions as they are.
LEMMA TakeDecides ==
  ASSUME DecisionsInv, TakeMessage
  PROVE  DecisionsInv'
<1>1. chunk' = None /\ UNCHANGED <<caches, ends, created, serialized>>
  BY DEF TakeMessage
<1> QED BY <1>1 DEF DecisionsInv, CachesInv, EndsInv, ChunkInv, SerializedInv, ShapeInv

\* A receiver that deserializes asks again.
LEMMA DeserializeDecides ==
  ASSUME DecisionsInv, DeserializeMessage
  PROVE  DecisionsInv'
<1> USE DEF DecisionsInv
<1> DEFINE end == ends["receiver"]
           d == DecideNow("receiver")
<1>1. /\ serialized["receiver"] # None
      /\ caches' = [caches EXCEPT !["receiver"][end.language] = d.cache]
      /\ UNCHANGED <<ends, created, chunk, serialized>>
  BY DEF DeserializeMessage
<1>2. "receiver" \in Sides
  BY DEF Sides
<1>3. end # None /\ Len(end.interface) = 1
  BY <1>1, <1>2, Zenon DEF SerializedInv
<1>4. d.cache \in Honest
  BY <1>2, <1>3, DecideNowIsRight
<1>5. CachesInv'
  <2>1. end.language \in Languages
    BY <1>2, <1>3, EndsAreTyped
  <2> HIDE DEF end, d
  <2> QED BY <1>1, <1>2, <1>4, <2>1 DEF CachesInv
<1>6. EndsInv' /\ ChunkInv' /\ SerializedInv' /\ ShapeInv'
  BY <1>1 DEF EndsInv, ChunkInv, SerializedInv, ShapeInv
<1> QED BY <1>5, <1>6

\* Every step leaves the decisions right.
LEMMA DecisionsNext == DecisionsInv /\ [Next]_vars => DecisionsInv'
<1> SUFFICES ASSUME DecisionsInv, [Next]_vars PROVE DecisionsInv'
  OBVIOUS
<1>1. ASSUME NEW s \in Sides, NEW i \in Interfaces, NEW part \in 1 .. MaxParts,
             NEW offered \in SUBSET Languages, Create(s, i, part, offered)
      PROVE  DecisionsInv'
  BY <1>1, CreateDecides
<1>2. ASSUME NEW s \in Sides, Destroy(s) PROVE DecisionsInv'
  BY <1>2, DestroyDecides
<1>3. ASSUME NEW values, Send(values) \/ SerializeMessage(values) PROVE DecisionsInv'
  BY <1>3, SendDecides, SerializeDecides
<1>4. CASE PublishSerialized
  BY <1>4, PublishDecides
<1>5. CASE TakeMessage
  BY <1>5, TakeDecides
<1>6. CASE TakeSerialized
  BY <1>6, TakeSerializedDecides
<1>7. CASE DeserializeMessage
  BY <1>7, DeserializeDecides
<1>8. CASE UNCHANGED vars
  BY <1>8 DEF vars, DecisionsInv, CachesInv, EndsInv, ChunkInv, SerializedInv, ShapeInv
<1> QED BY <1>1, <1>2, <1>3, <1>4, <1>5, <1>6, <1>7, <1>8, Zenon DEF Next

\* Its steps keep them, so they hold in every state.
LEMMA DecisionsAlways == Spec => []DecisionsInv
BY DecisionsInit, DecisionsNext, PTL DEF Spec

\* Truth values that are equivalent are the same.
LEMMA SameTruth ==
  ASSUME NEW p \in BOOLEAN, NEW q \in BOOLEAN, p <=> q
  PROVE  p = q
OBVIOUS

\* What a cache answers is what would be answered without it.
THEOREM CachesTellTruth == Spec => []CacheTellsTruth
<1>1. DecisionsInv => CacheTellsTruth
  <2> SUFFICES ASSUME DecisionsInv, NEW s \in Sides, NEW l \in Languages,
                      NEW t \in DOMAIN Types, Key(t) \in DOMAIN caches[s][l]
               PROVE  caches[s][l][Key(t)] = CountsAsFixed(t)
    BY DEF CacheTellsTruth
  <2> DEFINE c == caches[s][l]
  <2>1. c \in Honest
    BY DEF DecisionsInv, CachesInv
  <2>2. c \in Caches /\ (c[Key(t)] <=> CountsAsFixed(t))
    BY <2>1, Zenon DEF Honest
  <2> HIDE DEF c
  <2>3. Key(t) \in DOMAIN c
    BY DEF c
  <2>4. c[Key(t)] \in BOOLEAN
    BY <2>2, <2>3, CachesAre
  <2>5. CountsAsFixed(t) \in BOOLEAN
    BY Zenon DEF CountsAsFixed
  <2>6. c[Key(t)] = CountsAsFixed(t)
    BY <2>2, <2>4, <2>5, SameTruth, Zenon
  <2> QED BY <2>6 DEF c
<1> QED BY <1>1, DecisionsAlways, PTL

\* The receiver treats what it gets as the sender meant it.
THEOREM TheEndsAgree == Spec => []EndsAgree
<1>1. DecisionsInv => EndsAgree
  <2> SUFFICES ASSUME DecisionsInv PROVE EndsAgree
    OBVIOUS
  <2> USE DEF DecisionsInv
  <2>1. "receiver" \in Sides
    BY DEF Sides
  <2>2. ASSUME chunk # None PROVE chunk.raw = ends["receiver"].is_fixed_size_
    <3> DEFINE end == ends["receiver"]
    <3>1. end # None /\ chunk.raw \in BOOLEAN /\ (chunk.raw <=> AllFixed(end.interface))
      BY <2>2, Zenon DEF ChunkInv
    <3>2. end \in End /\ (end.is_fixed_size_ <=> AllFixed(end.interface))
      BY <2>1, <3>1, Zenon DEF EndsInv
    <3> HIDE DEF end
    <3>3. end.is_fixed_size_ \in BOOLEAN
      BY <3>2 DEF End
    <3>4. chunk.raw = end.is_fixed_size_
      BY <3>1, <3>2, <3>3, SameTruth, Zenon
    <3> QED BY <3>4 DEF end
  <2>3. ASSUME serialized["receiver"] # None
        PROVE  serialized["receiver"].raw = DecideNow("receiver").fixed
    <3>1. /\ ends["receiver"] # None /\ Len(ends["receiver"].interface) = 1
          /\ serialized["receiver"].raw \in BOOLEAN
          /\ serialized["receiver"].raw <=> AllFixed(ends["receiver"].interface)
      BY <2>1, <2>3, Zenon DEF SerializedInv
    <3>2. /\ DecideNow("receiver").fixed \in BOOLEAN
          /\ DecideNow("receiver").fixed <=> AllFixed(ends["receiver"].interface)
      BY <2>1, <3>1, DecideNowIsRight
    <3> QED BY <3>1, <3>2, Zenon
  <2> QED BY <2>2, <2>3 DEF EndsAgree
<1> QED BY <1>1, DecisionsAlways, PTL

-----------------------------------------------------------------------------
(* What is on its way.                                                      *)

\* A payload is made of the message that was sent.
IsMadeOf(p) ==
  IsPayload(p) /\ p.content = IF p.raw THEN p.sent ELSE Serialize[p.type][p.by][p.sent]

\* And all payloads are.
PayloadsInv ==
  /\ chunk # None => IsMadeOf(chunk)
  /\ \A s \in Sides : serialized[s] # None => IsMadeOf(serialized[s])

\* The application's message is of the receiver's type.
MessageInv ==
  /\ message # None =>
       IsMessage(message) /\ ends["receiver"] # None /\ message.type = TypeOf(ends["receiver"])
  /\ last \in {"none", "ok", "thrown", "fault"}

\* What the receiver has reflects what was sent, and is it if it was read into a message
\* of its own whose default values what was sent covers.
ReceivedInv ==
  message # None /\ message.intact /\ Supported(message) =>
    /\ <<message.sent, message.values>> \in Reflects[message.type]
    /\ /\ message.fresh
       /\ <<message.sent, InitMessage[message.type]>> \in Covers[message.type]
       => message.values = message.sent

ContentsInv == DecisionsInv /\ PayloadsInv /\ MessageInv /\ ReceivedInv

\* What a sender makes a payload of is in it.
LEMMA PayloadIsMadeOf ==
  ASSUME DecisionsInv, ends["sender"] # None, NEW fixed \in BOOLEAN,
         NEW values \in Fixtures[TypeOf(ends["sender"])]
  PROVE  IsMadeOf(Payload(ends["sender"], fixed, values))
<1> DEFINE end == ends["sender"]
           t == TypeOf(end)
           l == end.language
           content == IF fixed THEN values ELSE Serialize[t][l][values]
           p == Payload(end, fixed, values)
<1>1. "sender" \in Sides
  BY DEF Sides
<1>2. l \in Languages /\ t \in DOMAIN Types
  BY <1>1, EndsAreTyped DEF DecisionsInv
<1>3. p = [type |-> t, raw |-> fixed, sent |-> values, by |-> l, content |-> content]
  BY DEF Payload
<1>4. values \in Fixtures[t] /\ values \in Messages[t]
  BY <1>2, PayloadAssumption DEF PayloadAssumption
<1>5. content \in IF fixed THEN Messages[t] ELSE Seq(Nat)
  <2>1. Serialize[t] \in [Languages -> [Messages[t] -> Seq(Nat)]]
    BY <1>2, SerializeIs DEF Encoders
  <2> HIDE DEF t, l
  <2>2. Serialize[t][l][values] \in Seq(Nat)
    BY <1>2, <1>4, <2>1
  <2> QED BY <1>4, <2>2
<1> HIDE DEF p, end, t, l
<1>6. DOMAIN p = {"type", "raw", "content", "sent", "by"}
  <2> HIDE DEF content
  <2> QED BY <1>3
<1>7. p.type = t /\ p.raw = fixed /\ p.sent = values /\ p.by = l /\ p.content = content
  <2> HIDE DEF content
  <2> QED BY <1>3
<1>8. IsPayload(p)
  <2> HIDE DEF content
  <2> QED BY <1>2, <1>4, <1>5, <1>6, <1>7, Zenon DEF IsPayload
<1>9. p.content = IF p.raw THEN p.sent ELSE Serialize[p.type][p.by][p.sent]
  BY <1>7
<1> QED BY <1>8, <1>9 DEF IsMadeOf, p, end

\* What a receiver receives is a message of its type.
LEMMA ReceiveIsTyped ==
  ASSUME ValuesAreClosed, ContentsInv, ends["receiver"] # None,
         NEW fixed \in BOOLEAN, NEW p, IsMadeOf(p), p.type = TypeOf(ends["receiver"]),
         Receive(fixed, p), UNCHANGED ends
  PROVE  MessageInv'
<1> DEFINE end == ends["receiver"]
           t == TypeOf(end)
           l == end.language
<1> USE DEF ContentsInv
<1>1. "receiver" \in Sides
  BY DEF Sides
<1>2. l \in Languages /\ t \in DOMAIN Types
  BY <1>1, EndsAreTyped DEF DecisionsInv
<1>3. PICK fresh \in BOOLEAN :
        /\ fresh \/ (message # None /\ message.intact /\ last = "ok")
        /\ LET old == IF fresh THEN InitMessage[t] ELSE message.values IN
             IF fixed THEN Copied(end, p, fresh) ELSE Deserialized(end, p, old, fresh)
  BY Zenon DEF Receive
<1>4. p.raw = fixed
  BY DEF Receive
<1>5. /\ p.by \in Languages /\ p.sent \in Fixtures[t]
      /\ p.content \in IF fixed THEN Messages[t] ELSE Seq(Nat)
  BY <1>4 DEF IsMadeOf, IsPayload
<1> HIDE DEF end, l
<1>6. ASSUME NEW values \in Messages[t], NEW intact \in BOOLEAN,
             message' = Message(end, p, fresh, values, intact)
      PROVE  IsMessage(message') /\ message'.type = t
  <2>1. message' = [type |-> t, sent |-> p.sent, by |-> p.by, fresh |-> fresh,
                    values |-> values, intact |-> intact]
    BY <1>6 DEF Message
  <2>2. DOMAIN message' = {"type", "values", "sent", "by", "fresh", "intact"}
    <3> HIDE DEF t
    <3> QED BY <2>1
  <2>3. /\ message'.type = t /\ message'.sent = p.sent /\ message'.by = p.by
        /\ message'.fresh = fresh /\ message'.values = values /\ message'.intact = intact
    <3> HIDE DEF t
    <3> QED BY <2>1
  <2> HIDE DEF t
  <2> QED BY <1>2, <1>5, <1>6, <2>2, <2>3, Zenon DEF IsMessage
<1>7. CASE fixed
  <2>1. last' = "ok" /\ message' = Message(end, p, fresh, p.content, IsFlat(t))
    BY <1>3, <1>7 DEF Copied
  <2>2. p.content \in Messages[t] /\ IsFlat(t) \in BOOLEAN
    BY <1>5, <1>7, Zenon DEF IsFlat
  <2> HIDE DEF t
  <2>3. IsMessage(message') /\ message'.type = t
    BY <1>6, <2>1, <2>2
  <2> QED BY <2>1, <2>3 DEF MessageInv, end, t
<1>8. CASE ~fixed
  <2> DEFINE old == IF fresh THEN InitMessage[t] ELSE message.values
             r == Deserialize[t][l][old][p.content]
  <2>1. PICK intact \in IF r.status = "moved" THEN BOOLEAN ELSE {CanGoOn(r)} :
          message' = Message(end, p, fresh, r.values, intact)
    BY <1>3, <1>8 DEF Deserialized, l
  <2>2. last' = IF CanGoOn(r) THEN "ok" ELSE r.status
    BY <1>3, <1>8 DEF Deserialized, l
  <2>3. old \in Messages[t]
    <3>1. message # None => message.values \in Messages[t]
      BY DEF MessageInv, IsMessage, end
    <3> HIDE DEF t
    <3> QED BY <1>2, <1>3, <3>1, InitMessagesAreMessages
  <2>4. p.content \in Seq(Nat)
    BY <1>5, <1>8
  <2> DEFINE d == Deserialize[t]
             c == p.content
  <2>5. d \in [Languages -> [Messages[t] -> [Seq(Nat) -> Readings(Messages[t])]]]
    BY <1>2, DeserializeIs DEF Decoders
  <2>6. r \in Readings(Messages[t])
    <3>1. d[l][old][c] \in Readings(Messages[t])
      <4> HIDE DEF d, c, t, old
      <4> QED BY <1>2, <2>3, <2>4, <2>5 DEF c
    <3> QED BY <3>1
  <2> HIDE DEF r, t
  <2>7. r.values \in Messages[t] /\ r.status \in Statuses
    BY <2>6 DEF Readings
  <2>8. intact \in BOOLEAN
    <3>1. CanGoOn(r) \in BOOLEAN
      BY DEF CanGoOn
    <3>2. CASE r.status = "moved"
      BY <3>2
    <3>3. CASE r.status # "moved"
      <4>1. intact = CanGoOn(r)
        BY <3>3, Zenon
      <4> QED BY <3>1, <4>1, Zenon
    <3> QED BY <3>2, <3>3
  <2>9. IsMessage(message') /\ message'.type = t
    BY <1>6, <2>1, <2>7, <2>8
  <2>10. last' \in {"none", "ok", "thrown", "fault"}
    BY <2>2, <2>7 DEF CanGoOn, Statuses
  <2> QED BY <2>9, <2>10 DEF MessageInv, end, t
<1> QED BY <1>7, <1>8

\* A receiver receives what was sent.
LEMMA ReceiveIsRight ==
  ASSUME ValuesAreClosed, ContentsInv, ends["receiver"] # None,
         NEW fixed \in BOOLEAN, NEW p, IsMadeOf(p), p.type = TypeOf(ends["receiver"]),
         Receive(fixed, p), UNCHANGED ends
  PROVE  ReceivedInv'
<1> DEFINE end == ends["receiver"]
           t == TypeOf(end)
           l == end.language
           k == p.by
           sent == p.sent
           covered == <<sent, InitMessage[t]>> \in Covers[t]
<1> USE DEF ContentsInv
<1>1. "receiver" \in Sides
  BY DEF Sides
<1>2. l \in Languages /\ t \in DOMAIN Types
  BY <1>1, EndsAreTyped DEF DecisionsInv
<1>3. PICK fresh \in BOOLEAN :
        /\ fresh \/ (message # None /\ message.intact /\ last = "ok")
        /\ LET old == IF fresh THEN InitMessage[t] ELSE message.values IN
             IF fixed THEN Copied(end, p, fresh) ELSE Deserialized(end, p, old, fresh)
  BY Zenon DEF Receive
<1>4. /\ p.raw = fixed /\ k \in Languages
      /\ p.content = IF fixed THEN sent ELSE Serialize[t][k][sent]
  BY DEF Receive, IsMadeOf, IsPayload
<1>5. sent \in Messages[t]
  BY <1>2, PayloadAssumption DEF IsMadeOf, IsPayload, PayloadAssumption
<1> HIDE DEF end
<1>6. ASSUME NEW values, NEW intact, message' = Message(end, p, fresh, values, intact),
             Supports(k, t) /\ Supports(l, t) /\ intact =>
               <<sent, values>> \in Reflects[t] /\ (fresh /\ covered => values = sent)
      PROVE  ReceivedInv'
  <2>1. /\ message'.type = t /\ message'.sent = sent /\ message'.by = k
        /\ message'.fresh = fresh /\ message'.values = values /\ message'.intact = intact
    <3>1. message' = [type |-> t, sent |-> sent, by |-> k, fresh |-> fresh,
                      values |-> values, intact |-> intact]
      BY <1>6 DEF Message
    <3> HIDE DEF t, k, sent
    <3> QED BY <3>1
  <2>2. ends'["receiver"].language = l
    BY DEF end
  <2>3. covered <=>
          <<message'.sent, InitMessage[message'.type]>> \in Covers[message'.type]
    BY <2>1
  <2> HIDE DEF t, k, sent, l, covered
  <2>4. Supported(message)' => Supports(k, t) /\ Supports(l, t)
    BY <2>1, <2>2, Zenon DEF Supported
  <2>5. message'.intact => intact
    BY <2>1, Zenon
  <2>6. message'.fresh => fresh
    BY <2>1, Zenon
  <2> QED BY <1>6, <2>1, <2>3, <2>4, <2>5, <2>6, Zenon DEF ReceivedInv
<1>7. CASE fixed
  <2>1. message' = Message(end, p, fresh, sent, IsFlat(t))
    BY <1>3, <1>4, <1>7 DEF Copied
  <2>2. <<sent, sent>> \in Reflects[t]
    BY <1>2, <1>5, ReflectsItself
  <2> DEFINE flat == IsFlat(t)
  <2> HIDE DEF t, k, sent, l, flat, covered
  <2> QED BY <1>6, <2>1, <2>2 DEF flat
<1>8. CASE ~fixed
  <2> DEFINE old == IF fresh THEN InitMessage[t] ELSE message.values
             s == Serialize[t][k][sent]
             r == Deserialize[t][l][old][s]
  <2>1. PICK intact : message' = Message(end, p, fresh, r.values, intact)
    <3>1. p.content = s
      BY <1>4, <1>8
    <3>2. Deserialized(end, p, old, fresh)
      BY <1>3, <1>8
    <3> HIDE DEF s, old
    <3> QED BY <3>1, <3>2, Zenon DEF Deserialized, r
  <2>2. old \in Messages[t]
    <3>1. message # None => message.values \in Messages[t]
      BY DEF MessageInv, IsMessage, end
    <3> HIDE DEF t
    <3> QED BY <1>2, <1>3, <3>1, InitMessagesAreMessages
  <2>3. s \in Seq(Nat)
    <3> DEFINE e == Serialize[t]
    <3>1. e \in [Languages -> [Messages[t] -> Seq(Nat)]]
      BY <1>2, SerializeIs DEF Encoders
    <3>2. e[k][sent] \in Seq(Nat)
      <4> HIDE DEF e, t, k, sent
      <4> QED BY <1>4, <1>5, <3>1
    <3> QED BY <3>2
  <2>4. ASSUME Supports(k, t), Supports(l, t)
        PROVE  <<sent, r.values>> \in Reflects[t] /\ (fresh /\ covered => r.values = sent)
    <3> DEFINE rest == <<>>
    <3>1. RoundTrips(t, k, l)
      <4> HIDE DEF t, k, l
      <4> QED BY <1>2, <1>4, <2>4, SerializedComesBack
    <3>2. rest \in Seq(Nat) /\ s \o rest = s
      <4> HIDE DEF s
      <4> QED BY <2>3
    <3> HIDE DEF rest, t, k, l, sent, old
    <3>3. MessageComesBack(Deserialize[t][l][old][s \o rest], rest, t, sent, old)
      BY <1>5, <2>2, <3>1, <3>2 DEF RoundTrips
    <3>4. MessageComesBack(r, rest, t, sent, old)
      BY <3>2, <3>3
    <3>5. fresh /\ covered => <<sent, old>> \in Covers[t]
      BY DEF old
    <3> QED BY <3>4, <3>5, Zenon DEF MessageComesBack
  <2> DEFINE values == r.values
  <2> HIDE DEF values, t, k, l, sent, covered
  <2>5. message' = Message(end, p, fresh, values, intact)
        /\ (Supports(k, t) /\ Supports(l, t) =>
              <<sent, values>> \in Reflects[t] /\ (fresh /\ covered => values = sent))
    BY <2>1, <2>4, Zenon DEF values
  <2> QED BY <1>6, <2>5
<1> QED BY <1>7, <1>8

\* Before the first step nothing is on its way.
LEMMA ContentsInit == Init => ContentsInv
<1>1. Init => PayloadsInv /\ MessageInv /\ ReceivedInv
  BY DEF Init, PayloadsInv, MessageInv, ReceivedInv
<1> QED BY <1>1, DecisionsInit DEF ContentsInv

\* What the receiver has stays what it is, or goes with the receiver.
LEMMA MessageKept ==
  ASSUME ContentsInv, last' \in {last, "none"},
         \/ message' = None
         \/ /\ message' = message
            /\ message # None => ends'["receiver"] = ends["receiver"]
  PROVE  MessageInv' /\ ReceivedInv'
<1>1. CASE message' = None
  BY <1>1 DEF ContentsInv, MessageInv, ReceivedInv
<1>2. CASE message' # None
  <2>1. message' = message /\ message # None /\ ends'["receiver"] = ends["receiver"]
    BY <1>2
  <2>2. MessageInv'
    BY <2>1, Zenon DEF ContentsInv, MessageInv
  <2>3. Supported(message)' <=> Supported(message)
    BY <2>1, Zenon DEF Supported
  <2>4. ReceivedInv'
    BY <2>1, <2>3, Zenon DEF ContentsInv, ReceivedInv
  <2> QED BY <2>2, <2>4
<1> QED BY <1>1, <1>2

\* Every step leaves payloads as they were made and the message as it was sent.
LEMMA ContentsNext == ValuesAreClosed /\ ContentsInv /\ [Next]_vars => ContentsInv'
<1> SUFFICES ASSUME ValuesAreClosed, ContentsInv, [Next]_vars PROVE ContentsInv'
  OBVIOUS
<1> USE DEF ContentsInv
<1> DEFINE Good == PayloadsInv /\ MessageInv /\ ReceivedInv
<1>1. DecisionsInv'
  BY DecisionsNext
<1>2. "sender" \in Sides /\ "receiver" \in Sides
  BY DEF Sides
<1>3. ASSUME NEW s \in Sides, NEW i \in Interfaces, NEW part \in 1 .. MaxParts,
             NEW offered \in SUBSET Languages, Create(s, i, part, offered)
      PROVE  Good'
  <2>1. /\ ends[s] = None /\ UNCHANGED <<chunk, serialized, message, last>>
        /\ \E end : ends' = [ends EXCEPT ![s] = end]
    BY <1>3 DEF Create
  <2>2. message # None => ends'["receiver"] = ends["receiver"]
    BY <1>2, <2>1 DEF MessageInv, DecisionsInv, ShapeInv
  <2>3. MessageInv' /\ ReceivedInv'
    BY <2>1, <2>2, MessageKept
  <2> QED BY <2>1, <2>3 DEF PayloadsInv
<1>4. ASSUME NEW s \in Sides, Destroy(s) PROVE Good'
  <2>1. /\ ends' = [ends EXCEPT ![s] = None]
        /\ serialized' = [serialized EXCEPT ![s] = None]
        /\ chunk' = IF s = "receiver" THEN None ELSE chunk
        /\ message' = IF s = "receiver" THEN None ELSE message
        /\ last' = IF s = "receiver" THEN "none" ELSE last
    BY <1>4 DEF Destroy
  <2>2. /\ s # "receiver" => ends'["receiver"] = ends["receiver"]
        /\ \A r \in Sides : serialized'[r] = None \/ serialized'[r] = serialized[r]
    BY <1>2, <2>1 DEF DecisionsInv, ShapeInv
  <2>3. PayloadsInv'
    BY <2>1, <2>2, Zenon DEF PayloadsInv
  <2>4. MessageInv' /\ ReceivedInv'
    BY <2>1, <2>2, MessageKept
  <2> QED BY <2>3, <2>4
<1>5. ASSUME ends["sender"] # None, NEW values \in Fixtures[TypeOf(ends["sender"])], Send(values)
      PROVE  Good'
  <2> DEFINE end == ends["sender"]
             p == Payload(end, end.is_fixed_size_, values)
  <2>1. chunk' = p /\ UNCHANGED <<ends, serialized, message, last>>
    BY <1>5 DEF Send
  <2>2. end.is_fixed_size_ \in BOOLEAN
    BY <1>2, <1>5 DEF DecisionsInv, EndsInv, End
  <2>3. IsMadeOf(p)
    BY <1>5, <2>2, PayloadIsMadeOf
  <2> HIDE DEF p
  <2>4. MessageInv' /\ ReceivedInv'
    BY <2>1, MessageKept
  <2> QED BY <2>1, <2>3, <2>4 DEF PayloadsInv
<1>6. ASSUME ends["sender"] # None, NEW values \in Fixtures[TypeOf(ends["sender"])],
             SerializeMessage(values)
      PROVE  Good'
  <2> DEFINE end == ends["sender"]
             d == DecideNow("sender")
             p == Payload(end, d.fixed, values)
  <2>1. /\ serialized' = [serialized EXCEPT !["sender"] = p]
        /\ UNCHANGED <<ends, chunk, message, last>>
        /\ Len(end.interface) = 1
    BY <1>6 DEF SerializeMessage
  <2>2. d.fixed \in BOOLEAN
    BY <1>2, <1>6, <2>1, DecideNowIsRight
  <2>3. IsMadeOf(p)
    <3> HIDE DEF d
    <3> QED BY <1>6, <2>2, PayloadIsMadeOf
  <2> HIDE DEF p
  <2>4. \A r \in Sides : serialized'[r] = p \/ serialized'[r] = serialized[r]
    BY <2>1 DEF DecisionsInv, ShapeInv
  <2>5. PayloadsInv'
    BY <2>1, <2>3, <2>4, Zenon DEF PayloadsInv
  <2>6. MessageInv' /\ ReceivedInv'
    BY <2>1, MessageKept
  <2> QED BY <2>5, <2>6
<1>7. ASSUME PublishSerialized PROVE Good'
  <2>1. /\ chunk' = serialized["sender"] /\ serialized["sender"] # None
        /\ UNCHANGED <<ends, serialized, message, last>>
    BY <1>7 DEF PublishSerialized
  <2>2. MessageInv' /\ ReceivedInv'
    BY <2>1, MessageKept
  <2> QED BY <1>2, <2>1, <2>2 DEF PayloadsInv
<1>8. ASSUME TakeMessage PROVE Good'
  <2> DEFINE fixed == ends["receiver"].is_fixed_size_
  <2>1. /\ chunk # None /\ Receive(fixed, chunk) /\ chunk' = None
        /\ UNCHANGED <<ends, serialized>>
    BY <1>8 DEF TakeMessage
  <2>2. ends["receiver"] # None /\ chunk.type = TypeOf(ends["receiver"]) /\ IsMadeOf(chunk)
    BY <2>1 DEF DecisionsInv, ChunkInv, PayloadsInv
  <2>3. fixed \in BOOLEAN
    BY <1>2, <2>2 DEF DecisionsInv, EndsInv, End
  <2> HIDE DEF fixed
  <2>4. MessageInv' /\ ReceivedInv'
    BY <2>1, <2>2, <2>3, ReceiveIsTyped, ReceiveIsRight
  <2> QED BY <2>1, <2>4 DEF PayloadsInv
<1>9. ASSUME TakeSerialized PROVE Good'
  <2>1. /\ chunk # None /\ serialized' = [serialized EXCEPT !["receiver"] = chunk]
        /\ chunk' = None /\ UNCHANGED <<ends, message, last>>
    BY <1>9 DEF TakeSerialized
  <2>2. \A r \in Sides : serialized'[r] = chunk \/ serialized'[r] = serialized[r]
    BY <2>1 DEF DecisionsInv, ShapeInv
  <2>3. PayloadsInv'
    BY <2>1, <2>2, Zenon DEF PayloadsInv
  <2>4. MessageInv' /\ ReceivedInv'
    BY <2>1, MessageKept
  <2> QED BY <2>3, <2>4
<1>10. ASSUME DeserializeMessage PROVE Good'
  <2> DEFINE fixed == DecideNow("receiver").fixed
             p == serialized["receiver"]
  <2>1. /\ p # None /\ Receive(fixed, p) /\ UNCHANGED <<ends, chunk, serialized>>
    BY <1>10 DEF DeserializeMessage
  <2>2. /\ ends["receiver"] # None /\ Len(ends["receiver"].interface) = 1
        /\ p.type = TypeOf(ends["receiver"]) /\ IsMadeOf(p)
    BY <1>2, <2>1 DEF DecisionsInv, SerializedInv, PayloadsInv
  <2>3. fixed \in BOOLEAN
    BY <1>2, <2>2, DecideNowIsRight
  <2> HIDE DEF fixed, p
  <2>4. MessageInv' /\ ReceivedInv'
    BY <2>1, <2>2, <2>3, ReceiveIsTyped, ReceiveIsRight
  <2> QED BY <2>1, <2>4 DEF PayloadsInv
<1>11. ASSUME UNCHANGED vars PROVE Good'
  <2>1. MessageInv' /\ ReceivedInv'
    BY <1>11, MessageKept DEF vars
  <2> QED BY <1>11, <2>1 DEF vars, PayloadsInv
<1>12. Good'
  <2> HIDE DEF Good
  <2> QED BY <1>3, <1>4, <1>5, <1>6, <1>7, <1>8, <1>9, <1>10, <1>11, Zenon DEF Next
<1> QED BY <1>1, <1>12

\* What is decided, what is on its way and what the receiver has is right from the start.
LEMMA ContentsAlways ==
  ASSUME ValuesAreClosed
  PROVE  Spec => []ContentsInv
<1>1. ValuesAreClosed
  OBVIOUS
<1> QED BY <1>1, ContentsInit, ContentsNext, PTL DEF Spec

\* What is on its way and what the receiver has is what their types say.
THEOREM PayloadTypeCorrect ==
  ASSUME ValuesAreClosed
  PROVE  Spec => []TypeOK
<1>1. ContentsInv => TypeOK
  <2> SUFFICES ASSUME ContentsInv PROVE TypeOK
    OBVIOUS
  <2> USE DEF ContentsInv, DecisionsInv
  <2>1. \A s \in Sides, l \in Languages : caches[s][l] \in Caches
    BY DEF CachesInv, Honest
  <2>2. \A s \in Sides : ends[s] # None => ends[s] \in End
    BY DEF EndsInv
  <2>3. /\ chunk # None => IsPayload(chunk)
        /\ \A s \in Sides : serialized[s] # None => IsPayload(serialized[s])
    BY DEF PayloadsInv, IsMadeOf
  <2>4. /\ message # None => IsMessage(message)
        /\ last \in {"none", "ok", "thrown", "fault"}
    BY DEF MessageInv
  <2>5. created \in 0 .. MaxCreated
    BY DEF ShapeInv
  <2> QED BY <2>1, <2>2, <2>3, <2>4, <2>5 DEF TypeOK
<1> QED BY <1>1, ContentsAlways, PTL

\* Into a message of its own, which has its type's default values, a receiver gets exactly
\* what was sent, whichever language either side is written in, if both support the type
\* and unless an empty string or sequence was sent for a field that is not empty by
\* default: what one serializer writes the other deserializer reads back.
THEOREM FreshMessagesAreExact ==
  ASSUME ValuesAreClosed
  PROVE  Spec => []FreshIsExact
<1>1. ContentsInv => FreshIsExact
  BY Zenon DEF ContentsInv, ReceivedInv, FreshIsExact
<1> QED BY <1>1, ContentsAlways, PTL

\* Into a message with earlier values a receiver gets what was sent, and nothing of the
\* earlier values is left but where an empty string or sequence was sent.
THEOREM ReusedMessagesReflect ==
  ASSUME ValuesAreClosed
  PROVE  Spec => []ReusedReflects
<1>1. ContentsInv => ReusedReflects
  BY Zenon DEF ContentsInv, ReceivedInv, ReusedReflects
<1> QED BY <1>1, ContentsAlways, PTL
=============================================================================
