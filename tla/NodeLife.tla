------------------------------ MODULE NodeLife ------------------------------
(***************************************************************************)
(* The life of a node and of the handles made on it: rmw_create_* allocates *)
(* the parts of a handle one by one and any allocation may fail;            *)
(* rmw_destroy_*, and the cleanup of a failed creation, take them down.     *)
(* Meanwhile the thread of the node's listener runs a callback that uses    *)
(* two of the node's parts, whenever the iceoryx daemon publishes a change  *)
(* of the graph.                                                            *)
(***************************************************************************)
EXTENDS Integers, Sequences

CONSTANT MaxChanges  \* bound on the changes of the graph

ASSUME NodeLifeAssumption == MaxChanges \in Nat

VARIABLES
  alive,        \* the handles that were created and not yet destroyed
  current,      \* the handle that the owner's thread creates or destroys
  phase,        \* where it is in that
  todo,         \* the parts that it has yet to allocate or to free, in order
  allocated,    \* of each handle, the parts that exist
  listening,    \* is the callback attached to the listener
  subscribed,   \* is port_receiver_ subscribed
  history,      \* is the daemon about to deliver its last sample to it
  sample,       \* is there a sample in its queue
  notified,     \* has the listener been notified of data in it
  callback,     \* where the listener's thread is in the callback
  flag,         \* the trigger flag of the graph guard condition
  unannounced,  \* has a sample come after the callback last triggered it
  changes       \* samples published so far

ownerVars == <<alive, current, phase, todo, allocated>>
listenerVars == <<listening, notified, callback, flag, unannounced>>
portVars == <<subscribed, history, sample>>
vars == <<ownerVars, listenerVars, portVars, changes>>

Endpoints == {"client", "service", "publisher", "subscription"}
Handles == Endpoints \cup {"wait_set", "node"}

\* The guard condition is a handle and a UserTrigger, its data.
NodeParts ==
  <<"handle", "guardHandle", "trigger", "notifier", "runnable", "info", "name",
    "namespace">>

\* The port of iceoryx, the wrapper that rmw keeps as the handle's data, and the
\* name of the topic or service.
EndpointParts == <<"handle", "port", "abstraction", "name">>

WaitSetParts == <<"handle", "waitset">>

Created(h) ==
  CASE h = "node" -> NodeParts
    [] h = "wait_set" -> WaitSetParts
    [] h \in Endpoints -> EndpointParts

\* Mutant: the guard condition goes before the notifier that triggers it.
NodeCleanupMutantGuardFirst ==
  <<"trigger", "guardHandle", "notifier", "runnable", "info", "name", "namespace",
    "handle">>

\* Mutant: the runnable stays.
NodeCleanupMutantKeepsRunnable ==
  <<"notifier", "trigger", "guardHandle", "info", "name", "namespace", "handle">>

\* The order of rmw_destroy_node and of the label fail.
NodeCleanup ==
  <<"notifier", "trigger", "guardHandle", "runnable", "info", "name", "namespace",
    "handle">>

\* Mutant: the wrapper goes before the port that it points to.
EndpointCleanupMutantAbstractionFirst == <<"abstraction", "port", "name", "handle">>

\* The order of rmw_destroy_* and of the cleanup after an error.
EndpointCleanup == <<"port", "abstraction", "name", "handle">>

WaitSetCleanup == <<"waitset", "handle">>

Cleanup(h) ==
  CASE h = "node" -> NodeCleanup
    [] h = "wait_set" -> WaitSetCleanup
    [] h \in Endpoints -> EndpointCleanup

\* The part whose pointer leads to a part: the locals of a creation are gone when
\* its handle is destroyed.
Through ==
  [failing |-> [trigger |-> "guardHandle", name |-> "handle", namespace |-> "handle"],
   destroying |->
     [notifier |-> "info", trigger |-> "guardHandle", guardHandle |-> "info",
      runnable |-> "info", info |-> "handle", port |-> "abstraction",
      abstraction |-> "handle", waitset |-> "handle", name |-> "handle",
      namespace |-> "handle"]]

PartsOf(h) == {Created(h)[i] : i \in 1 .. Len(Created(h))}
Parts == UNION {PartsOf(h) : h \in Handles}
CleaningPhases == {"failing", "destroying"}
Phases == {"idle", "allocating", "constructing", "constructed"} \cup CleaningPhases

TypeOK ==
  /\ alive \subseteq Handles
  /\ current \in Handles \cup {"none"} /\ (phase = "idle" <=> current = "none")
  /\ phase \in Phases
  /\ todo \in Seq(Parts)
  /\ allocated \in [Handles -> SUBSET Parts]
  /\ \A h \in Handles : allocated[h] \subseteq PartsOf(h)
  /\ listening \in BOOLEAN /\ subscribed \in BOOLEAN /\ history \in BOOLEAN
  /\ notified \in BOOLEAN /\ (notified => listening)
  /\ sample \in BOOLEAN /\ (sample \/ history => subscribed)
  /\ callback \in {"idle", "entered", "triggered"}
  /\ flag \in BOOLEAN /\ unannounced \in BOOLEAN
  /\ changes \in 0 .. MaxChanges

Init ==
  /\ alive = {} /\ current = "none" /\ phase = "idle" /\ todo = <<>>
  /\ allocated = [h \in Handles |-> {}]
  /\ listening = FALSE /\ notified = FALSE /\ callback = "idle"
  /\ flag = FALSE /\ unannounced = FALSE
  /\ subscribed = FALSE /\ history = FALSE /\ sample = FALSE
  /\ changes = 0

-----------------------------------------------------------------------------
(* rmw_create_*.                                                            *)

Create(h) ==
  /\ phase = "idle" /\ h \notin alive
  /\ current' = h
  /\ phase' = "allocating"
  /\ todo' = Created(h)
  /\ UNCHANGED <<alive, allocated, listenerVars, portVars, changes>>

\* With rmw_create_guard_condition in it.
CreateNode == Create("node")

CreateClient == "node" \in alive /\ Create("client")
CreateService == "node" \in alive /\ Create("service")
CreatePublisher == "node" \in alive /\ Create("publisher")
CreateSubscription == "node" \in alive /\ Create("subscription")
CreateWaitSet == Create("wait_set")

Allocate ==
  /\ phase = "allocating" /\ todo # <<>>
  /\ phase' = IF Head(todo) = "notifier" THEN "constructing" ELSE "allocating"
  /\ allocated' = [allocated EXCEPT ![current] = @ \cup {Head(todo)}]
  /\ todo' = Tail(todo)
  /\ UNCHANGED <<alive, current, listenerVars, portVars, changes>>

\* To the label fail, or cleanupAfterError.
AllocateFails ==
  /\ phase = "allocating" /\ todo # <<>>
  /\ phase' = "failing"
  /\ todo' = Cleanup(current)
  /\ UNCHANGED <<alive, current, allocated, listenerVars, portVars, changes>>

\* The two calls of IceoryxGraphChangeNotifier's constructor.
AttachCallback(from, to) ==
  /\ phase = from /\ phase' = to
  /\ listening' = TRUE
  /\ UNCHANGED <<alive, current, todo, allocated, notified, callback, flag,
                 unannounced, portVars, changes>>

SubscribeReceiver(from, to) ==
  /\ phase = from /\ phase' = to
  /\ subscribed' = TRUE
  /\ history' = TRUE
  /\ UNCHANGED <<alive, current, todo, allocated, sample, listenerVars, changes>>

\* Mutant: the callback is attached once the receiver is subscribed.
ConstructMutantSubscribesFirst ==
  \/ SubscribeReceiver("constructing", "constructed")
  \/ AttachCallback("constructed", "allocating")

Construct ==
  \/ AttachCallback("constructing", "constructed")
  \/ SubscribeReceiver("constructed", "allocating")

CreateReturns ==
  /\ phase = "allocating" /\ todo = <<>>
  /\ alive' = alive \cup {current}
  /\ current' = "none" /\ phase' = "idle"
  /\ UNCHANGED <<todo, allocated, listenerVars, portVars, changes>>

-----------------------------------------------------------------------------
(* rmw_destroy_*, and the cleanup of a failed creation.                     *)

Destroy(h) ==
  /\ phase = "idle" /\ h \in alive
  /\ alive' = alive \ {h}
  /\ current' = h
  /\ phase' = "destroying"
  /\ todo' = Cleanup(h)
  /\ UNCHANGED <<allocated, listenerVars, portVars, changes>>

\* A node goes after the handles that were made on it.
DestroyNode == alive \cap Endpoints = {} /\ Destroy("node")

DestroyClient == Destroy("client")
DestroyService == Destroy("service")
DestroyPublisher == Destroy("publisher")
DestroySubscription == Destroy("subscription")
DestroyWaitSet == Destroy("wait_set")

Cleaning(part) ==
  phase \in CleaningPhases /\ todo # <<>> /\ Head(todo) = part

\* detachEvent, the first call of the notifier's destructor, returns once a
\* running callback has ended.
DetachCallback ==
  /\ Cleaning("notifier") /\ listening
  /\ callback = "idle"
  /\ listening' = FALSE
  /\ notified' = FALSE
  /\ UNCHANGED <<ownerVars, callback, flag, unannounced, portVars, changes>>

\* Mutant: the sample stays in the queue.
UnsubscribeReceiverMutantKeepsSample ==
  /\ Cleaning("notifier") /\ ~listening /\ subscribed
  /\ subscribed' = FALSE /\ history' = FALSE
  /\ unannounced' = FALSE
  /\ UNCHANGED <<ownerVars, listening, notified, callback, flag, sample, changes>>

\* unsubscribe, and the destruction of the receiver.
UnsubscribeReceiver ==
  /\ Cleaning("notifier") /\ ~listening /\ subscribed
  /\ subscribed' = FALSE /\ history' = FALSE /\ sample' = FALSE
  /\ unannounced' = FALSE
  /\ UNCHANGED <<ownerVars, listening, notified, callback, flag, changes>>

\* A part that was never allocated is a null pointer and skipped.
Free(part) ==
  /\ Cleaning(part)
  /\ part = "notifier" => ~listening /\ ~subscribed
  /\ allocated' = [allocated EXCEPT ![current] = @ \ {part}]
  /\ todo' = Tail(todo)
  /\ flag' = IF part = "trigger" THEN FALSE ELSE flag
  /\ UNCHANGED <<alive, current, phase, listening, notified, callback, unannounced,
                 portVars, changes>>

CleanupReturns ==
  /\ phase \in CleaningPhases /\ todo = <<>>
  /\ current' = "none" /\ phase' = "idle"
  /\ UNCHANGED <<alive, todo, allocated, listenerVars, portVars, changes>>

-----------------------------------------------------------------------------
(* The daemon, the listener's thread, and the executor.                     *)

\* A sample reaches the queue of the receiver.
Deliver ==
  /\ sample' = TRUE
  /\ notified' = listening
  /\ unannounced' = TRUE
  /\ UNCHANGED <<ownerVars, listening, callback, flag, subscribed>>

Change ==
  /\ changes < MaxChanges
  /\ changes' = changes + 1
  /\ IF subscribed
       THEN Deliver /\ UNCHANGED history
       ELSE UNCHANGED <<ownerVars, listenerVars, portVars>>

DeliverHistory ==
  /\ history
  /\ history' = FALSE
  /\ Deliver
  /\ UNCHANGED changes

CallbackEnters ==
  /\ listening /\ notified /\ callback = "idle"
  /\ callback' = "entered"
  /\ notified' = FALSE
  /\ UNCHANGED <<ownerVars, listening, flag, unannounced, portVars, changes>>

CallbackTriggers ==
  /\ callback = "entered"
  /\ callback' = "triggered"
  /\ flag' = TRUE
  /\ unannounced' = FALSE
  /\ UNCHANGED <<ownerVars, listening, notified, portVars, changes>>

\* Mutant: the callback stays as long as there is a sample, and releases none.
CallbackReleasesMutantLoops ==
  /\ callback = "triggered"
  /\ callback' = IF sample THEN "entered" ELSE "idle"
  /\ UNCHANGED <<ownerVars, listening, notified, flag, unannounced, portVars, changes>>

\* releaseQueuedData, also of a sample that came after the trigger.
CallbackReleases ==
  /\ callback = "triggered"
  /\ callback' = "idle"
  /\ sample' = FALSE
  /\ UNCHANGED <<ownerVars, listening, notified, flag, unannounced, subscribed,
                 history, changes>>

\* rmw_wait finds the graph guard condition triggered.
ExecutorWakes ==
  /\ "node" \in alive /\ flag
  /\ flag' = FALSE
  /\ UNCHANGED <<ownerVars, listening, notified, callback, unannounced, portVars,
                 changes>>

Listener == CallbackEnters \/ CallbackTriggers \/ CallbackReleases

Creates ==
  \/ CreateNode \/ CreateClient \/ CreateService \/ CreatePublisher
  \/ CreateSubscription \/ CreateWaitSet

Destroys ==
  \/ DestroyNode \/ DestroyClient \/ DestroyService \/ DestroyPublisher
  \/ DestroySubscription \/ DestroyWaitSet

Owner ==
  \/ Creates \/ Allocate \/ AllocateFails \/ Construct \/ CreateReturns
  \/ Destroys \/ DetachCallback \/ UnsubscribeReceiver
  \/ \E part \in Parts : Free(part)
  \/ CleanupReturns

Next == Owner \/ Change \/ DeliverHistory \/ Listener \/ ExecutorWakes

Spec == Init /\ [][Next]_vars

\* The listener's thread runs, and a call of rmw_destroy_* or a failed one of
\* rmw_create_* goes on to its end.
FairSpec == Spec /\ WF_vars(Listener) /\ WF_vars(phase \in CleaningPhases /\ Owner)

-----------------------------------------------------------------------------
(* Properties.                                                              *)

\* While the listener's thread is in the callback, the notifier and the trigger it
\* uses exist, also when the node is destroyed or its creation fails meanwhile.
CallbackTouchesLive ==
  callback # "idle" => {"notifier", "trigger"} \subseteq allocated["node"]

\* rmw_destroy_*, and the cleanup of a creation that failed at any part, reach each
\* part they free through parts that still exist.
CleanupReachesLive ==
  phase \in CleaningPhases /\ todo # <<>> =>
    LET through == Through[phase]
        part    == Head(todo)
    IN  part \in allocated[current] \cap DOMAIN through =>
          through[part] \in allocated[current]

\* After rmw_destroy_*, and after rmw_create_* failed at whatever part, no part of
\* the handle is left allocated; without a node no callback is left attached and no
\* receiver subscribed.
NothingLeaks ==
  phase = "idle" =>
    /\ \A h \in Handles \ alive : allocated[h] = {}
    /\ "node" \notin alive => ~listening /\ ~subscribed /\ callback = "idle"

NodeGoes ==
  \/ current = "node" /\ phase \in CleaningPhases
  \/ current # "node" /\ "node" \notin alive

\* Every change of the graph that the receiver is told of triggers the graph guard
\* condition afterwards, also one whose sample a running callback throws away,
\* unless the node goes.
ChangeIsAnnounced == unannounced ~> flag \/ NodeGoes

\* Destroying a handle, or undoing half of one, ends: it does not wait for ever for
\* a callback to finish.
CleanupEnds == phase \in CleaningPhases ~> phase = "idle"
=============================================================================
