# rmw_iceoryx in TLA+

`rmw_iceoryx_cpp` is the ROS 2 middleware layer over Eclipse iceoryx: it implements the
`rmw` functions (publish, take, send a request, wait, ask for the graph ...) on iceoryx
ports that exchange chunks of shared memory. This directory holds a model of it, checked
with TLC on small instances and proved, in part, with TLAPS for every size.

File and line references are to `src/rmw_iceoryx_cpp/src/` unless they say otherwise.

## The system

| Part | State it keeps | Operations | Talks to |
|---|---|---|---|
| Services and clients (`rmw_request.cpp`, `rmw_response.cpp`, `rmw_client.cpp`, `rmw_service.cpp`, `types/iceoryx_client.hpp`, `types/iceoryx_server.hpp`) | `sequence_id_` of a client, `request_payload_map_` of a server; queues and held chunks of the ports | send and take a request, send and take a response, create, destroy | iceoryx client and server ports; the executor through `rmw_wait` |
| Wait sets and guard conditions (`rmw_wait.cpp`, `rmw_trigger_guard_condition.cpp`) | the attachments of the wait set, the flag of each UserTrigger | wait, trigger | every port an executor serves; threads that trigger |
| Publishing and taking (`rmw_publish.cpp`, `rmw_take.cpp`, `rmw_publisher.cpp`, `rmw_subscription.cpp`) | chunks on loan, queued, held | publish, borrow, return, take (copied, serialized, loaned), create, destroy | iceoryx publisher and subscriber ports, the memory pool |
| Graph containers (`internal/iceoryx_topic_names_and_types.cpp`, `internal/iceoryx_get_topic_endpoint_info.cpp`, `rmw_count.cpp` ...) | five static maps and a static receiver | every graph query | the introspection samples of RouDi, the iceoryx daemon |
| Node names (`rmw_node_names.cpp`) | a static receiver and a static set | names of nodes | RouDi |
| Nodes (`rmw_node.cpp`, `types/iceoryx_node.hpp`) | guard condition, notifier with its listener thread | create, destroy, callback | RouDi, `rmw_wait` |
| Creation and rollback (in every `rmw_create_*`) | pointers that were allocated so far | allocate, construct, fail | the allocator |
| Serialization (`internal/iceoryx_*serialize*`) | none | messages to bytes and back | publish, take, requests, responses |
| Type introspection (`internal/iceoryx_type_info_introspection.cpp`) | caches of sizes | is a type of fixed size, how large | everything that copies |
| Name conversion (`internal/iceoryx_name_conversion.cpp`) | none | topic and type to service description and back | creation, graph |
| Identifiers, initialisation, unsupported features | none of interest | constants, argument checks, errors | the runtime of iceoryx |

The parts meet in three ways: calls into iceoryx (modelled from how this code uses it and
marked `external` in the map), ports that other processes and the daemon write to at any
time, and the executor, which learns from `rmw_wait` what to take.

### What is hard

* **Numbers that are not names.** Every client numbers its requests from 0, and the server
  keys its map by the number alone (`rmw_request.cpp:179`). Requests of two clients collide.
* **Errors halfway.** A clock, a loan, a send or a resize may fail, or a conversion throw, after
  a chunk was taken or a number consumed. What then stays behind is easy to get wrong and hard to
  provoke.
* **Who may write.** Zero copy means that a chunk is read by several subscriptions while
  publishers look for free ones. A release too early or a loan too long shows as corrupted
  data in another process.
* **Sleeping.** `rmw_wait` attaches and detaches everything on every call. Data and triggers
  come before, between and after these steps.
* **Bounded queues.** They drop their oldest element silently.
* **Static caches.** The containers of the graph outlive the sample they came from, and what
  a process once answered about a type decides how it reads another process's bytes.
* **Two sides that must agree.** Nothing on the wire says whether a payload is a memory copy
  or serialized, in which language it was written, or what type it is: both sides derive it
  from names and type supports.

The list, with lines and properties, is under `hazards` in `PROJECT.json`.

### What makes each part correct

* Services: a response answers the request whose number it carries; an application that has
  a request can answer it; no pointer in the map dangles; a request lives in one place and
  is answered and returned at most once; responses come in the order of requests.
* Wait: nobody sleeps on data; nothing stays attached; what is reported is there; a guard is
  reported once per trigger; everything is reported in the end.
* Topics: a publisher has its loan to itself; what was lent does not change; messages come
  as published, in order, once; no chunk stays held for nobody, failed copies apart.
* Graph: the views agree with one another and with one sample, the last one or the one
  before, and follow the system.
* Nodes: the listener's callback touches only what exists; nothing is left of a node that
  is gone or failed to come; no change of the graph is missed; taking a node down ends.
* Names: a topic or service that is reported can be subscribed to or called under what was
  reported; the same topic and type give the same description in C and in C++; a node is
  reported as it was created (it is not).
* Payloads: both sides take a payload for the same kind of thing; what is read is what was
  written, whatever was in the destination, but for what is empty on the wire.
* Creation: each allocation is freed, through pointers that still lead to it, or belongs to
  the handle that is returned.

## Modules

| Module | Contents |
|---|---|
| `Rpc` | what a service promises: each request is unissued, open, answered, returned or lost, and only the client's latest answer is returned |
| `ReqRes` | services and clients; implements `Rpc` |
| `ReqResProofs` | its safety invariants, and that `ReqRes` implements `Rpc` |
| `Wait` | `rmw_wait` in a loop, with the threads and processes around it |
| `WaitProofs` | its safety invariants |
| `Topic` | what a topic promises: each publisher's messages in order, at most once |
| `PubSub` | publishing and taking on shared chunks; implements `Topic` |
| `PubSubProofs` | its safety invariants, and that `PubSub` implements `Topic` |
| `Names` | names and types of ROS to descriptions of iceoryx and back |
| `Graph` | the static containers of the graph and the queries that read them; uses `Names` |
| `GraphProofs` | its safety invariants, and what the conversions of `Names` give |
| `NodeLife` | handles and their parts created, rolled back and destroyed beside a node's listener |
| `NodeLifeProofs` | its safety invariants |
| `TypeInfo` | which types have a fixed size, and the cache of the answers |
| `Serialization` | a message to bytes and back, in C and in C++; uses `TypeInfo` |
| `Payload` | a message from one process to another, copied or serialized; uses `Serialization` |
| `Induction` | recursive functions: that there are any, and what induction over them gives |
| `SerializationProofs` | what `TypeInfo` and `Serialization` compute, of every type and message |
| `PayloadProofs` | the safety invariants of `Payload` |
| `MCReqRes`, `MCWait`, `MCPubSub`, `MCGraph`, `MCPayload` | finite sets, symmetry, names and types for TLC |

Operators whose name contains `Mutant` are the plausible bugs that show the properties can
fail; no action uses them.

### ReqRes

A request is its client and its number; the chunk that carries it is the same pair. A
response has a number and the request the application computed it for. `sequenceId` is
`IceoryxClient::sequence_id_`, `payloadMap` is `request_payload_map_`, `held` and `respHeld`
are the chunks the ports of server and clients hold, `pending` is what the application works
on. Each `rmw` call is one step: before it pushes to a queue, and after, it touches only its
own endpoint. Every error path after the argument checks is an action of its own:

* `SendRequest`, `SendRequestFails` - the number is consumed before the send
  (`rmw_request.cpp:71`), so a failed send makes the response to the request before it
  outdated.
* `TakeRequest`, `TakeRequestDuplicate`, `TakeRequestBreaksOff`, `TakeRequestPortFull` - all
  but the first lose the request, and the second and third leak its chunk. A take breaks off
  when the clock fails or the deserialization throws.
* `SendResponse`, `SendResponseFails`, `SendResponseThrows`, `SendResponseNotFound` - the
  request is released and erased also when the response could not be loaned or sent
  (`rmw_response.cpp:197-199`), but not when its serialization throws (177): entry and chunk
  stay. When AppRetries holds the application calls again with the same number.
* `TakeResponse`, `TakeResponseOutdated`, `TakeResponseBreaksOff`, `TakeResponsePortFull` -
  only the response to the latest request is accepted (`rmw_response.cpp:68`); one that breaks
  off leaves its chunk held.
* `CreateService`, `DestroyService`, `CreateClient`, `Connect`, `DestroyClient`.

A client that is created again is another element of `Clients`, as it is another port. The
guid of a request is the server's own (`rmw_request.cpp:155`), so it tells nobody apart and
is left out.

### Wait

`phase` says where in `rmw_wait` the executor is and `todo` what the current loop has yet to
visit; each iteration is a step, in any order within a loop. Subscriptions, services and
clients are `Sources`: their three loops do the same, and are one. `attached` and `notified`
are the wait set; `Notify` is iceoryx's callback into it. Detaching and testing one entity is
one step because nothing that comes between the two can be told from what comes before both.
The circumstances an executor runs in are the variable `setting`, one of `Settings`, which
never changes: the timeouts it uses, whether attachments may fail, whether other threads take
from its sources, and `attachTests`, iceoryx's choice whether attaching a UserTrigger notifies
of a trigger that came earlier.

### PubSub

`content[ch]` is the message in a chunk; a chunk is free when nobody has it on loan, queued or
held. `PublishLoans` and `PublishSends` are the two halves of `send_payload`, `Take` and
`TakeCopies` those of `rmw_take` and `rmw_take_serialized_message`: the copies in between take
time, and others act. `Borrow`, `ReturnBorrowed`, `PublishLoaned`, `TakeLoaned` and `ReturnTaken`
are the zero-copy calls. `TakeLoanedNothing` is `rmw_take_loaned_message` when `take()` fails. A
take by copy from an empty queue, and a take that is not yet matched, change nothing and have no
action; a serialized take that fails dereferences a null pointer (`rmw_take.cpp:199`) and has
none either, as the process ends. `lent` keeps, with the chunk, the message it had when it was
lent, and `received` what the application got: they are there for the properties. `leaked` are
the chunks that a take by copy leaves held (`LeavesHeld`): one whose resize fails
(`TakeResizeFails`; `rmw_take.cpp:199-207` returns without releasing), and one whose
deserialization throws (`TakeThrows`; `rmw_take.cpp:109` comes before the release at 113, and
nothing on the way out releases). Nothing can release them but the destruction of the
subscription. `Failures` says which of the two happen. `fixedSize` is the publishers'
`is_fixed_size_`, without which they do not lend. `MaxMessages` bounds the messages of all
publishers together. Calling the loan functions with what was not borrowed or lent is the
application's error and is not modelled.

### Names

A string is a sequence of parts, "/", "::", "__" and words, each of which counts as one
character; every function of `internal/iceoryx_name_conversion.cpp` is an operator of the same
name on such sequences, with `Find`, `Truncated` and `Tokens` for what it calls of the standard
library. rosidl allows no "__" in the name of a package, so that the first one in a C namespace
is the separator. An exception, which leaves the `rmw_create_*` that called before anything was
allocated, is `NoDescription`. `Lower` says which words have capitals.

### Graph

`nodes` and `ports` are the system as the daemon knows it; a port has the description that
`Names` gives its topic and type, and `by` and `as` remember, for the properties, what it was
created from. There are two receivers, the one of the ports and the one of the nodes, each with
a queue of one, and `published` has their last samples. `byNode` stands for
`subscribers_topics` and `publishers_topics`, `byTopic` for `topic_subscribers` and
`topic_publishers`, `names` for `names_n_types`, `nodeNames` for the set of
`rmw_get_node_names`, `applied` for the samples they were last filled from. A query is
`QuerySubscribes` and `QueryWakes` the first time, `QueryUpdates` when a sample waits; when none
does it changes nothing and reads. Every query of topics calls the same
`fill_topic_containers`, so they differ only in what they return: `Counted`, `TopicsOfNode`,
`EndpointInfos` and, from the set of nodes, `NodeNames`. `ServiceNames` asks the daemon at once
and keeps nothing. rcl destroys the endpoints of a node before the node, and so does the model.

### NodeLife

A node, a client, a service, a publisher, a subscription and a wait set, each created and
destroyed again and again by one thread. `todo` is what the current `rmw_create_*` has yet to
allocate, or `rmw_destroy_*` or the cleanup to free; each kind of handle has one order for both
takedowns, `Cleanup`. `Allocate` and `AllocateFails` stand for every allocation, those of
`rmw_create_guard_condition` included. `Through` says which part holds the pointer that a part
is freed through: a failing creation has most of them in local variables, a destruction only
in the handle. Each call into iceoryx of the node's notifier is a step, as the thread of the
listener runs beside it: `AttachCallback` and `SubscribeReceiver` are the notifier's
constructor, `DetachCallback` and `UnsubscribeReceiver` its destructor, the three `Callback`
actions the callback. `DetachCallback` waits for a running callback, as
`Listener::detachEvent` does. Constructors do not fail: those of iceoryx end the process
instead, and the macro's `catch` is for others; those of the wrappers ask the type support what
`get_iceoryx_service_description`, which was called before, has already found in it. A handle
that was just allocated is taken to be zeroed, as the tests of `name` and `namespace_` at
`rmw_node.cpp:133-138` need it to be.

### TypeInfo, Serialization and Payload

A type is a namespace, a name, a size and members; a member is what `MessageMember` says of it.
Numbers, characters and booleans behave alike and are "PRIMITIVE". `is_fixed_size` returns its
answer and the cache it leaves; the key of the cache is the pair of namespace and name, which
the code concatenates, so that keys that coincide only as strings are left out.

`Defaults` are the default values that interfaces declare for fields of data and strings. A new
message has them (`InitMessage`, which is `init_function` with ALL, what `iceoryx_init_message`
asks for and a constructor does), also in the messages within it; memory that deserializing adds
to a sequence of messages is zeroed and has none (`ZeroMessage`).

A message is the sequence of its fields, a field the sequence of its elements, and the wire a
sequence of data, each of the width it has, with `Check` and the size before the elements of a
sequence or string. Sizes in bytes are not kept, except where the code divides by them: the C
side takes the number of messages in a sequence for a number of bytes (`MessageCount`, from
`iceoryx_serialize_typesupport_c.hpp:173-196`). Reading goes over the values that are there,
because the code does: a C++ sequence or string that is empty on the wire is not touched, a
vector is resized, a C sequence is allocated anew, a C sequence of messages is written to where
it is. What reading did besides is its status: an exception, a write to memory that is not
there, or a vector of bytes that moved messages with strings in them.

`Payload` puts a process on either side, each with its caches, one end (a publisher, a
subscription, or half of a client or service), one `rmw_serialized_message_t`, and on the
receiver's side the application's message, which may be a new one or the one of the call
before. `Create` decides `is_fixed_size_` from what the cache has; `SerializeMessage` and
`DeserializeMessage` decide with every call. `raw` marks a payload that is a memory copy: the
program has no such mark, and `EndsAgree` says that it needs none. Queues and chunks are those
of `PubSub` and `ReqRes`; here one payload waits.

## What is checked

| Run | Instance | Properties |
|---|---|---|
| `service_async` | 2 clients, 3 requests each, queues, held chunks and pending requests up to 2, every fault | `TypeOK`, `ResponseMatchesRequest`, `PendingIsAnswerable`, `NoDanglingPointer`, `OneLife`, `DeliveredInOrder`, `ImplementsRpc` |
| `service_sync` | 2 clients, 2 requests each, one pending, no faults, fair | `HeldForItsResponse`, `RequestIsAnswered` |
| `service_collision` | 2 clients, 2 requests each, two pending | `HeldForItsResponse` is violated |
| `wait` | 2 sources, 2 guards, queues of 2, 2 triggers, three settings: no timeout and attachments that fail; the same with guards that do not test on attachment; timeouts, threads that take and such guards; fair | `TypeOK`, `NoLostWakeup`, `NothingLeftAttached`, `ReportedHasData`, `ReportsAreTriggered`, `DataIsReported`, `TriggerIsReported` |
| `topic` | 2 publishers, 3 messages, 2 subscriptions, 3 chunks, queues of 2, resizing may fail and deserializing throw | `TypeOK`, `LoanIsExclusive`, `LoanedStaysIntact`, `ReceivedInOrder`, `NoChunkLeaks`, `ImplementsTopic` |
| `topic_loan` | 1 publisher, 1 subscription | `TakenLoanIsHeld` is violated |
| `graph_views` | 2 nodes, one outside the root namespace, 7 topics and services, 2 ports that are not of ROS, 2 ports at a time, 4 changes, fair | `TypeOK`, `NodeQueriesAreASnapshot`, `ViewLagsOneSample`, `ReportedLeadsToAPort`, `LanguagesMeet`, `GraphIsSeen` |
| `graph_endpoints` | the same | `EndpointQueriesAreASnapshot` is violated |
| `graph_names` | the same | `NodesAreNamedAsCreated` is violated |
| `node_life` | 6 handles, 3 changes, any allocation may fail, fair | `TypeOK`, `CallbackTouchesLive`, `CleanupReachesLive`, `NothingLeaks`, `ChangeIsAnnounced`, `CleanupEnds` |
| `payload` | 8 types, 3 of them with default values, 5 topics and a service, up to 2 messages of each type, C and C++ on either side, 3 ends created | `TypeOK`, `EndsAgree`, `CacheTellsTruth`, `FreshIsExact`, `ReusedReflects` |
| `payload_memcpy` | the same, 2 ends | `MemcpiedIsIntact` is violated |

### Why the bounds are enough

Two clients are the fewest that collide on a number; three requests of each are the fewest
where a late response, the latest request and a number that collides can all be different;
two pending requests the fewest that make the service answer out of order. Queues of two
overflow with three requests. Two sources and two guards let one be visited, and one not,
when something happens in each loop. Three chunks are fewer than two publishers and two
subscriptions want, so that chunks are reused as soon as they are free and loans fail, and
three messages overflow a queue of two. Four changes with two ports and two nodes let a node
and a port come, be seen, and go, and another come; the names are one of each kind the
conversion tells apart, a topic with two types, one in C and C++, and one longer than iceoryx
allows (capacities are 9 parts). Three changes let samples come before, in and after a callback
while a node is created and taken down. Two ends talk, and a third that came before on either
side is what a cache can remember; the types have every shape of member, inside and outside of
other messages, two have the same name in different packages, and the messages have empty and
full, short and long values of each; a datum, a string, each in a type that others contain,
and a sequence have default values, and an empty string and an empty sequence are sent over
them. The bounds
`MaxSeq`, `MaxMessages`, `MaxTriggers`, `MaxChanges` and `MaxCreated` only end the runs; the
proofs hold for every value of them.

### Fairness

* `service_sync`: an executor that finds a request or response ready takes it, and a service
  callback that started ends in a response. Sending, destroying and connecting are never
  forced.
* `wait`: the executor's thread keeps running and calls `rmw_wait` again, and a finite
  timeout expires. Nothing is assumed of threads that trigger, deliver or take.
* `graph_views`: RouDi publishes samples of ports and of nodes after a change and delivers the
  last ones to a new subscriber, and the process keeps asking. Ports and nodes come and go as
  they like.
* `node_life`: the listener's thread runs, and a thread that takes a handle down goes on.
  Nothing need be created, nor destroyed; that the thread gets past a listener that is
  called over and over rests on changes that end.

### What the runs that fail show

* `service_collision`: a service that answers later than it takes (a deferred response, or
  a multi-threaded executor) has two clients whose requests have the same number. The second
  `rmw_take_request` fails at `rmw_request.cpp:183`; its chunk is neither in the map nor
  released. The client never gets a response, and the port holds the chunk for good.
* `topic_loan`: `rmw_take_loaned_message` returns `RMW_RET_OK` and `taken` when nothing was
  taken (`rmw_take.cpp:286-288`); `loaned_message` is then what the caller had in it.
* `graph_endpoints`: `topic_subscribers` and `topic_publishers` are appended to for every
  sample and never cleared (`internal/iceoryx_topic_names_and_types.cpp:90-92`).
* `graph_names`: `rmw_create_node` joins namespace and name without a slash (`rmw_node.cpp:41`).
  Node `listener` in `/ns` is reported as node `nslistener` in the root namespace. By the same
  line `/a` + `bc` and `/ab` + `c` are one node to the graph.
* `payload_memcpy`: a type whose only members of variable size are sequences of fixed messages
  or wide strings counts as of fixed size (`internal/iceoryx_type_info_introspection.cpp:47-75`)
  and is copied with its pointers. The run's type is the sequence; that wide strings alone do the
  same is read off the code, and no type of the run is of that shape.

### Where a property ends

* `ResponseMatchesRequest` and `PendingIsAnswerable` hold when the application does not call
  `rmw_send_response` again after it failed. With `AppRetries` and two clients: the response
  to request 0 of the first client fails and its entry is erased; request 0 of the second
  client is taken and stored under 0; the retry finds it and sends the second client the
  answer to the first one's request.
* `ReportedHasData` holds for one executor thread. With `setting.takers` another may take first.
* `TriggerIsReported` allows for an executor that `SleepsPastTriggers`: if attaching a UserTrigger
  does not test its flag, a guard triggered while it was detached, between two calls of `rmw_wait`,
  leaves a call without a timeout asleep until something else happens, and for ever if nothing
  does. Which of the two iceoryx does is not in this repository; the run has both.
* `NoChunkLeaks` allows for what is in `leaked`: the chunks of takes by copy whose resize failed
  or whose deserialization threw, which the code never releases.
* `ReportedLeadsToAPort` holds for the names of the run. `AraDescription` looks for the service,
  in lower case and from the left, in the topic (`internal/iceoryx_name_conversion.cpp:158`): an
  instance whose name contains the service's is found first, and leads to another description.
* `NodeQueriesAreASnapshot` holds where full names fit. The daemon knows a longer name
  cut off, the queries by node look for the whole one, and find nothing. Topics that are too
  long and alike up to the capacity share a port.
* `ReusedReflects` says nothing of what was empty on the wire: strings and sequences of data
  keep the values of the message before (`internal/iceoryx_deserialize_typesupport_cpp.hpp:132`,
  and the C side for sequences). Nor of messages that are no longer `intact`: a vector of
  messages that grows is moved as bytes (296), which a string that points into itself does not
  survive.
* `FreshIsExact` is about types that both sides support. The C side throws at wide strings, in
  the middle of the message, and mistakes the length of sequences of messages.
* `FreshIsExact` needs `Covers`: the message read into has nothing where an empty string or
  sequence was sent. What is empty on the wire is not written
  (`internal/iceoryx_deserialize_typesupport_cpp.hpp:132`; in C sequences only,
  `internal/iceoryx_deserialize_typesupport_c.hpp:93`), and a new message has its type's default
  values. So a field with a default value that is sent empty is received with its default.
  Without that condition TLC finds it in C++ with the type `lists`: a sequence whose default is
  <<2, 1>>, sent empty, arrives as <<2, 1>>. The serialization test
  (`../test/iceoryx_serialization_test.cpp:82-85`) demands equality of types with defaults too,
  but its fixtures, which come with `test_msgs`, decide whether it meets such a value.

## What is proved

| Theorem | Property | Assumes |
|---|---|---|
| `ReqResProofs!TypeCorrect` | `TypeOK` | |
| `ReqResProofs!ResponsesCorrect` | `ResponseMatchesRequest` | `~AppRetries` |
| `ReqResProofs!RequestsAnswerable` | `PendingIsAnswerable` | `~AppRetries` |
| `ReqResProofs!NothingDangles` | `NoDanglingPointer` | `~AppRetries` |
| `ReqResProofs!HeldUntilAnswered` | `HeldForItsResponse` | `MaxPending = 1`, `Faults \subseteq {"loan", "send"}` |
| `ReqResProofs!RequestsLiveOnce` | `OneLife` | |
| `ReqResProofs!ResponsesInOrder` | `DeliveredInOrder` | |
| `ReqResProofs!ImplementsRpcAlways` | `ImplementsRpc` | |
| `WaitProofs!WaitTypeCorrect` | `TypeOK` | |
| `WaitProofs!WakeupsNotLost` | `NoLostWakeup` | |
| `WaitProofs!AllDetached` | `NothingLeftAttached` | |
| `WaitProofs!ReportsTriggered` | `ReportsAreTriggered` | |
| `WaitProofs!ReportsHoldData` | `ReportedHasData` | |
| `PubSubProofs!TopicTypeCorrect` | `TypeOK` | |
| `PubSubProofs!LoansAreExclusive` | `LoanIsExclusive` | |
| `PubSubProofs!LoansStayIntact` | `LoanedStaysIntact` | |
| `PubSubProofs!ChunksAreReturned` | `NoChunkLeaks` | |
| `PubSubProofs!MessagesInOrder` | `ReceivedInOrder` | |
| `PubSubProofs!ImplementsTopicAlways` | `ImplementsTopic` | |
| `NodeLifeProofs!NodeLifeTypeCorrect` | `TypeOK` | |
| `NodeLifeProofs!CallbackIsSafe` | `CallbackTouchesLive` | |
| `NodeLifeProofs!CleanupIsSafe` | `CleanupReachesLive` | |
| `NodeLifeProofs!NothingIsLeaked` | `NothingLeaks` | |
| `GraphProofs!GraphTypeCorrect` | `TypeOK` | |
| `GraphProofs!ViewsLagOneSample` | `ViewLagsOneSample` | |
| `GraphProofs!CountsAreOfOneSample` | | |
| `GraphProofs!NodeQueriesAreOfOneSample` | `NodeQueriesAreASnapshot` | `NodesAreTold` |
| `GraphProofs!ReportedLeadsBack` | `ReportedLeadsToAPort` | `TopicsAreTold` |
| `GraphProofs!LanguagesHaveOneDescription` | `LanguagesMeet` | `TypesAreTold` |
| `SerializationProofs!SerializedComesBack` | | `ValuesAreClosed` |
| `PayloadProofs!CachesTellTruth` | `CacheTellsTruth` | |
| `PayloadProofs!TheEndsAgree` | `EndsAgree` | |
| `PayloadProofs!PayloadTypeCorrect` | `TypeOK` | `ValuesAreClosed` |
| `PayloadProofs!FreshMessagesAreExact` | `FreshIsExact` | `ValuesAreClosed` |
| `PayloadProofs!ReusedMessagesReflect` | `ReusedReflects` | `ValuesAreClosed` |

They also rest on the assumption of their module (`ReqResAssumption`, `WaitAssumption`,
`PubSubAssumption`, `NodeLifeAssumption`, `NamesAssumption` and `GraphAssumption`,
`TypeInfoAssumption`, `SerializationAssumption` and `PayloadAssumption`), which TLC evaluates.
The hypotheses of the theorems about `Graph` are about the names that applications choose, and
TLC evaluates them for the names of its runs (`MCGraph`). `ValuesAreClosed` says that `Values`
has the numbers and all sequences of its elements; what holds of messages made of such values
holds of all messages. TLC takes `Any` for them; that there are such sets at all is the lemma
`ClosedValuesExist`, which says nothing of the program, only that the hypothesis can be met.

**Responses.** A response is right when the map leads from the number the application names
to the request it means, so `MapInv` joins three invariants: responses match their requests,
what is pending is mapped to itself and held, and what is mapped is held and under its own
number. A number that collides is refused by the map and not given to the application, which
is what keeps the entry of the first request true. The retry breaks the second part: the
entry is gone and the request still pending.

**One life.** `LifeInv` says that a request is in one place, that queues hold nothing twice,
that the map's keys are the numbers of its requests, and that what was delivered is in order.
The proof does not walk through pairs of places for each action: it shows that every step of
the system *moves* requests in one of four ways (`Moves`: some are lost; one is issued and
queued; one goes from the map to a response, under its own client; one from a queue to its
application), and that each way preserves the invariant. The same four ways are the steps of
`Rpc`, so the refinement follows from the same lemma. That a client only returns an answer to
its latest request is what keeps the order.

**Waiting.** `WaitInv` strengthens `NoLostWakeup` to the whole call (`Armed`: an attached
entity that has data or is triggered has notified the wait set, or was tested), with
`AttachedSoFar` (until a loop ends, what it has visited is attached, unless the wait will be
skipped) and `LoopBounds` (a loop only has its own entities left).

**One request at a time.** `SyncInv` says that what is mapped is the one request being worked
on. So nothing is mapped or held when the next one is taken, and no number collides, though
two clients use the same numbers. A clock that fails, or a conversion that throws, would leave a
chunk behind.

**Chunks.** `PoolInv` adds to the invariants of the loans that a chunk is in a queue once, and
held by a port for one reason: a chunk that is released is then in nobody's hands, and only
such a chunk is loaned to a publisher.

**Order of messages.** `OrderInv` puts what a subscription received before what it is reading
and that before its queue, publisher by publisher. Its proof goes through `Delivers`: every
step publishes one message to the ends of the queues, or keeps, starts to read or receives
one of one subscription. Each of these preserves the order, and each is a step of `Topic`, so
the refinement follows from the same lemma.

**Nodes.** `NodeLifeInv` says which parts of each handle exist in each phase (`Bookkeeping`),
that a part is allocated after those it needs (`AllocatedInOrder`), that a part is freed before
the one that leads to it (`FreedInOrder`), and that the notifier exists as long as the listener
may call it, and is the first to go (`NotifierHolds`). The lists of parts are finite and
written out, so the order of each cleanup is a fact about them (`OrderOf` and the lemmas after
it); what the proof adds is that the listener may run between any two of their steps.

**Graph.** Only a query that sleeps has subscribed without a sample (`SubscribersSleep`), so a
sample that comes is queued, or wakes it. `GraphInv` adds that the containers of nodes and the
types of topics are those of the sample they were filled from (`Filled`), whatever they had
before: what is not cleared is not in it, which is why the queries of endpoints are not (run
`graph_endpoints`). From it follow the queries by node. `Counted` goes the other way round, over
all nodes and the positions of a topic in each; that it counts each port once is an induction
over the sample.

**Names.** A description is one of three kinds (`IsOfRos`, `IsOfAutosar`, `IsOfTheDaemon`), and
each kind converts back by a path of its own through `make_service_description`. The proofs say
what `Find` finds first, what is left after it and what `Tokens` splits, word by word
(`Says`). The kinds are as narrow as the code makes them: an AUTOSAR service is found in the
topic in lower case and from the left, so that no earlier place may have it.

**Which types are copied.** `is_fixed_size` is defined over the types within a type, with a cache
that goes from member to member. `FixedSizeDecides` says that with any cache that tells the truth
it answers `CountsAsFixed`, and leaves one that does. So `CachesInv` is inductive, and with
`EndsInv` - an end's flag is `CountsAsFixed` of its interface - both processes decide alike, though
each has its own cache and its own order of asking. A key that two types share breaks it.

**Messages.** Serializing is a function of a type, a language and a message; deserializing, of the
message that is there and the wire as well. `SerializedComesBack` is by induction on how types are
within one another, and in each type over the fields, in each field over the elements: what was
written for an element, before any rest, is read back and the rest is left (`ElementReturns`,
`FieldReturns`, `MessageReturns`). In between are three facts that are not obvious from the code:
an element that fails leaves the message of its type (`ReadEachReads`), a vector of messages that
is resized keeps what it had and gets zeroed ones (`ResizeIs`), and the bytes of a vector
divided by the size of a message are as many messages as there were (`Division`). `ContentsInv`
then keeps, of every payload on its way, what it was made of, and of the application's message what
was sent to it: exact if it was new and what it had by default `Covers` what was sent (has nothing
where that is empty), and a reflection if not.

The prover can not use a definition by recursion, nor the theorems of its library that take an
operator as a parameter. What is defined recursively here is a recursive function, and `Induction`
has what is needed of them for sets instead of operators: `NumbersInduction` over the numbers,
`TypesByInduction` over a well-founded relation, and `TypedRecursion`, which shows that a function
that is to be what it is of smaller arguments exists and keeps its type. A function chosen by TLA+'s
recursive definition is then one that solves its equation.

Only model-checked: the liveness properties (`RequestIsAnswered`, `DataIsReported`,
`TriggerIsReported`, `GraphIsSeen`, `ChangeIsAnnounced`, `CleanupEnds`), as the prover has no
fairness and no ENABLED. Every safety property of a passing run is a theorem.

## Not modelled

* Argument and identifier checks at the head of each function: they change nothing.
* Sizes in bytes, alignment and the layout of messages. Payloads are identities in `ReqRes` and
  `PubSub`, and sequences of data in `Payload`; that a serialized response fits into its loan
  (`rmw_response.cpp:172`) is not checked.
* Memory that deserializing in C leaks when it allocates a sequence over an earlier one.
* The copies of the graph's answers into the caller's arrays (`fill_rmw_*`), whose allocations
  may fail.
* Calls from two threads into the same entity. The callback group of an entity is mutually
  exclusive by default; the code has no locks of its own, so anything else is a data race.
* Crashes of a process: RouDi cleans up its ports, and this code has no part in it.
* Unsupported features, identifiers, logging and initialisation: constants, copies and
  argument checks.

## Plan

1. Done: every component but the last three of the table is modelled and checked; the proofs
   above.
2. Done: every safety property of the runs is a theorem, `Payload`, `Graph` and the names
   included.
3. Invariants of `Rpc` and `Topic` as theorems about the abstract specifications: what was
   returned or lost never comes back.
4. `ReqRes` and `Wait` composed: an executor that serves a client and a server through one
   wait set.
