------------------------------ MODULE Payload ------------------------------
(***************************************************************************)
(* A message on its way from one process to another: as the copy of its     *)
(* memory when its type has a fixed size, serialized otherwise.             *)
(*                                                                         *)
(* Whether a type has a fixed size is decided on both sides, by what each   *)
(* process's type supports say and by what its cache holds from earlier     *)
(* decisions: when an end is created (is_fixed_size_ of iceoryx_publisher,  *)
(* iceoryx_subscription, iceoryx_client, iceoryx_server), and with every    *)
(* rmw_serialize and rmw_deserialize.                                       *)
(*                                                                         *)
(* The sender is a publisher, or a client or service that sends; the        *)
(* receiver is its counterpart.  The queue between them holds one payload;  *)
(* longer ones are the matter of ReqRes and PubSub.                         *)
(***************************************************************************)
EXTENDS Serialization

CONSTANTS
  Interfaces,   \* <<type>> of a topic, <<request, response>> of a service
  Fixtures,     \* Fixtures[t]: messages of type t that applications send
  MaxCreated,   \* bound on the ends that are created
  None          \* no end, no payload, no message

Sides == {"sender", "receiver"}
MaxParts == 2   \* an interface has one part, or a request and a response

PayloadAssumption ==
  /\ \A i \in Interfaces : i \in Seq(DOMAIN Types) /\ Len(i) \in 1 .. MaxParts
  /\ MaxCreated \in Nat
  /\ DOMAIN Fixtures = DOMAIN Types
  /\ \A t \in DOMAIN Types : Fixtures[t] \subseteq Messages[t]

ASSUME PayloadAssumption

VARIABLES
  caches,      \* caches[s][language]: the static cache of the process of side s
  ends,        \* ends[s]: the end that side s has created
  created,     \* how many ends were created
  chunk,       \* the payload in the queue of the receiver
  serialized,  \* serialized[s]: the rmw_serialized_message_t of side s
  message,     \* the message the receiver's application has
  last         \* what became of the receiver's latest call

vars == <<caches, ends, created, chunk, serialized, message, last>>

End == [interface : Interfaces, part : 1 .. MaxParts, language : Languages,
        is_fixed_size_ : BOOLEAN]

TypeOf(end) == end.interface[end.part]

\* `sent' is the message a payload was made of; `content' what is in memory.
IsPayload(p) ==
  /\ DOMAIN p = {"type", "raw", "content", "sent", "by"}
  /\ p.type \in DOMAIN Types /\ p.raw \in BOOLEAN /\ p.by \in Languages
  /\ p.sent \in Fixtures[p.type]
  /\ p.content \in IF p.raw THEN Messages[p.type] ELSE Seq(Nat)

\* `intact': all that the message points to is its own; `fresh': it was initialised
\* for this message alone.
IsMessage(m) ==
  /\ DOMAIN m = {"type", "values", "sent", "by", "fresh", "intact"}
  /\ m.type \in DOMAIN Types /\ m.fresh \in BOOLEAN /\ m.intact \in BOOLEAN
  /\ m.by \in Languages /\ m.sent \in Fixtures[m.type]
  /\ m.values \in Messages[m.type]

TypeOK ==
  /\ \A s \in Sides, l \in Languages : caches[s][l] \in Caches
  /\ \A s \in Sides : ends[s] # None => ends[s] \in End
  /\ created \in 0 .. MaxCreated
  /\ chunk # None => IsPayload(chunk)
  /\ \A s \in Sides : serialized[s] # None => IsPayload(serialized[s])
  /\ message # None => IsMessage(message)
  /\ last \in {"none", "ok", "thrown", "fault"}

Init ==
  /\ caches = [s \in Sides |-> [l \in Languages |-> EmptyCache]]
  /\ ends = [s \in Sides |-> None]
  /\ created = 0
  /\ chunk = None
  /\ serialized = [s \in Sides |-> None]
  /\ message = None
  /\ last = "none"

-----------------------------------------------------------------------------
(* The ends.                                                                *)

\* rmw_create_publisher, _subscription, _client or _service: the decision is made
\* by the constructor, for both parts of a service.
Create(s, interface, part, offered) ==
  /\ ends[s] = None /\ created < MaxCreated
  /\ part \in 1 .. Len(interface)
  /\ iceoryx_is_valid_type_support(offered)
  /\ LET language == get_type_support(offered)
         decision == InterfaceIsFixed(interface, caches[s][language])
     IN /\ ends' = [ends EXCEPT ![s] =
             [interface |-> interface, part |-> part, language |-> language,
              is_fixed_size_ |-> decision.fixed]]
        /\ caches' = [caches EXCEPT ![s][language] = decision.cache]
  /\ created' = created + 1
  /\ UNCHANGED <<chunk, serialized, message, last>>

\* Its destruction.  The payload in a queue goes with the receiver.
Destroy(s) ==
  /\ ends[s] # None
  /\ ends' = [ends EXCEPT ![s] = None]
  /\ chunk' = IF s = "receiver" THEN None ELSE chunk
  /\ serialized' = [serialized EXCEPT ![s] = None]
  /\ message' = IF s = "receiver" THEN None ELSE message
  /\ last' = IF s = "receiver" THEN "none" ELSE last
  /\ UNCHANGED <<caches, created>>

Connected ==
  /\ ends["sender"] # None /\ ends["receiver"] # None
  /\ ends["sender"].interface = ends["receiver"].interface
  /\ ends["sender"].part = ends["receiver"].part

-----------------------------------------------------------------------------
(* Sending.  A message that is not serialized because the serializer throws *)
(* leaves nothing in the queue.                                             *)

Payload(end, fixed, values) ==
  [type |-> TypeOf(end), raw |-> fixed, sent |-> values, by |-> end.language,
   content |-> IF fixed THEN values ELSE Serialize[TypeOf(end)][end.language][values]]

CanSend(end, fixed, values) == fixed \/ ~SerializeThrows[TypeOf(end)][end.language][values]

\* rmw_publish, rmw_send_request or rmw_send_response.
Send(values) ==
  /\ Connected
  /\ LET end == ends["sender"] IN
       /\ CanSend(end, end.is_fixed_size_, values)
       /\ chunk' = Payload(end, end.is_fixed_size_, values)
  /\ UNCHANGED <<caches, ends, created, serialized, message, last>>

\* What rmw_serialize and rmw_deserialize decide, a call at a time.
DecideNow(s) == is_fixed_size[TypeOf(ends[s])][caches[s][ends[s].language]]

\* rmw_serialize of a message of a topic.
SerializeMessage(values) ==
  /\ ends["sender"] # None /\ Len(ends["sender"].interface) = 1
  /\ LET end == ends["sender"]
         decision == DecideNow("sender")
     IN /\ CanSend(end, decision.fixed, values)
        /\ serialized' = [serialized EXCEPT !["sender"] = Payload(end, decision.fixed, values)]
        /\ caches' = [caches EXCEPT !["sender"][end.language] = decision.cache]
  /\ UNCHANGED <<ends, created, chunk, message, last>>

\* rmw_publish_serialized_message.
PublishSerialized ==
  /\ Connected
  /\ serialized["sender"] # None
  /\ chunk' = serialized["sender"]
  /\ UNCHANGED <<caches, ends, created, serialized, message, last>>

-----------------------------------------------------------------------------
(* Receiving.                                                               *)

Message(end, payload, fresh, values, intact) ==
  [type |-> TypeOf(end), sent |-> payload.sent, by |-> payload.by, fresh |-> fresh,
   values |-> values, intact |-> intact]

\* The memcpy of a payload: what the message points to is the sender's.
Copied(end, payload, fresh) ==
  /\ last' = "ok"
  /\ message' = Message(end, payload, fresh, payload.content, IsFlat(TypeOf(end)))

\* A throwing or faulting deserialization leaves a message that is partly written.
Deserialized(end, payload, old, fresh) ==
  LET r == Deserialize[TypeOf(end)][end.language][old][payload.content] IN
    /\ last' = IF CanGoOn(r) THEN "ok" ELSE r.status
    /\ \E intact \in IF r.status = "moved" THEN BOOLEAN ELSE {CanGoOn(r)} :
         message' = Message(end, payload, fresh, r.values, intact)

\* Into a message of its own, or into the one of an earlier call.  A payload is of
\* the kind that the receiver expects, see EndsAgree.
Receive(fixed, payload) ==
  LET end == ends["receiver"] IN
    /\ payload.raw = fixed
    /\ \E fresh \in BOOLEAN :
         /\ fresh \/ (message # None /\ message.intact /\ last = "ok")
         /\ LET old == IF fresh THEN InitMessage[TypeOf(end)] ELSE message.values IN
              IF fixed THEN Copied(end, payload, fresh)
              ELSE Deserialized(end, payload, old, fresh)

\* rmw_take, rmw_take_request or rmw_take_response.
TakeMessage ==
  /\ chunk # None
  /\ Receive(ends["receiver"].is_fixed_size_, chunk)
  /\ chunk' = None
  /\ UNCHANGED <<caches, ends, created, serialized>>

\* rmw_take_serialized_message.
TakeSerialized ==
  /\ chunk # None
  /\ Len(ends["receiver"].interface) = 1
  /\ serialized' = [serialized EXCEPT !["receiver"] = chunk]
  /\ chunk' = None
  /\ UNCHANGED <<caches, ends, created, message, last>>

\* rmw_deserialize.
DeserializeMessage ==
  /\ serialized["receiver"] # None
  /\ LET decision == DecideNow("receiver") IN
       /\ Receive(decision.fixed, serialized["receiver"])
       /\ caches' = [caches EXCEPT !["receiver"][ends["receiver"].language] = decision.cache]
  /\ UNCHANGED <<ends, created, chunk, serialized>>

Next ==
  \/ \E s \in Sides, i \in Interfaces, part \in 1 .. MaxParts, offered \in SUBSET Languages :
       Create(s, i, part, offered)
  \/ \E s \in Sides : Destroy(s)
  \/ /\ ends["sender"] # None
     /\ \E values \in Fixtures[TypeOf(ends["sender"])] :
          Send(values) \/ SerializeMessage(values)
  \/ PublishSerialized
  \/ TakeMessage
  \/ TakeSerialized
  \/ DeserializeMessage

Spec == Init /\ [][Next]_vars

-----------------------------------------------------------------------------
(* Properties.                                                              *)

\* The receiver treats what it gets as the sender meant it: whatever the two
\* processes were asked before and in whatever languages, a payload is a memory copy
\* exactly when its receiver, by the flag of its creation or by asking again, takes
\* it for one.
EndsAgree ==
  /\ chunk # None => chunk.raw = ends["receiver"].is_fixed_size_
  /\ serialized["receiver"] # None =>
       serialized["receiver"].raw = DecideNow("receiver").fixed

\* What a cache answers is what would be answered without it: neither the order in
\* which types were asked for nor the members they share make a difference.
CacheTellsTruth ==
  \A s \in Sides, l \in Languages, t \in DOMAIN Types :
    Key(t) \in DOMAIN caches[s][l] => caches[s][l][Key(t)] = CountsAsFixed(t)

Supported(m) == \A l \in {m.by, ends["receiver"].language} : Supports(l, m.type)

\* Into a message of its own, initialised with its type's default values, a receiver
\* gets exactly what was sent, whichever language either side is written in, if both
\* support the type, and unless an empty string or sequence was sent for a field that
\* is not empty by default.
FreshIsExact ==
  message # None /\ message.intact /\ message.fresh /\ Supported(message)
  /\ <<message.sent, InitMessage[message.type]>> \in Covers[message.type]
    => message.values = message.sent

\* Into a message with earlier values a receiver gets what was sent, nothing of the
\* earlier values left but where an empty string or sequence was sent.
ReusedReflects ==
  message # None /\ message.intact /\ Supported(message)
    => <<message.sent, message.values>> \in Reflects[message.type]

\* If the message of a type has a fixed size we can just memcpy: what a successful
\* call gives to the application is a message of its own, with nothing in it that
\* points to another process's memory.
MemcpiedIsIntact == last = "ok" /\ message.fresh => message.intact
=============================================================================
