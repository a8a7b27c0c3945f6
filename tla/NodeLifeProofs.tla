--------------------------- MODULE NodeLifeProofs ---------------------------
(***************************************************************************)
(* What the life of a node and of its handles guarantees for any number of  *)
(* changes of the graph, whichever allocation fails.                        *)
(***************************************************************************)
EXTENDS NodeLife, TLAPS

-----------------------------------------------------------------------------
(* The inductive invariant.                                                 *)

CreatingPhases == {"allocating", "constructing", "constructed"}

Todo == {todo[i] : i \in 1 .. Len(todo)}

\* The part q is the one through which p is freed in the cleanup.
Leads(cleanup, p, q) == p \in DOMAIN Through[cleanup] /\ q = Through[cleanup][p]

\* The part p is allocated after q.
Needs(p, q) == Leads("failing", p, q) \/ (p = "notifier" /\ q = "trigger")

\* Which parts exist: all those of a handle that is alive, those already allocated
\* or not yet freed of the current one, none of the others.
Bookkeeping ==
  /\ current \notin alive
  /\ phase # "idle" => Todo \subseteq PartsOf(current)
  /\ \A h \in alive : allocated[h] = PartsOf(h)
  /\ \A h \in Handles \ alive : h # current => allocated[h] = {}
  /\ phase \in CreatingPhases => PartsOf(current) \subseteq allocated[current] \cup Todo
  /\ phase \in CleaningPhases => allocated[current] \subseteq Todo
  /\ phase \in {"constructing", "constructed"} =>
       current = "node" /\ {"notifier", "trigger"} \subseteq allocated["node"]

\* A part is allocated after those it needs.
AllocatedInOrder ==
  phase \in CreatingPhases =>
    /\ \A p \in allocated[current], q \in Parts : Needs(p, q) => q \in allocated[current]
    /\ \A i \in 1 .. Len(todo), q \in Parts :
         Needs(todo[i], q) =>
           q \in allocated[current] \/ \E j \in 1 .. i - 1 : todo[j] = q

\* A part is freed before the one that leads to it.
FreedInOrder ==
  phase \in CleaningPhases =>
    /\ \A p \in allocated[current], q \in Parts :
         Leads(phase, p, q) => q \in allocated[current]
    /\ \A j \in 1 .. Len(todo), i \in 1 .. Len(todo) :
         i < j => ~Leads(phase, todo[j], todo[i])

\* The notifier is there as long as it is attached or subscribed, and is the first to
\* be taken down.
NotifierHolds ==
  /\ callback # "idle" => listening
  /\ listening \/ subscribed =>
       /\ "node" \in alive \/ current = "node"
       /\ {"notifier", "trigger"} \subseteq allocated["node"]
       /\ current = "node" /\ phase \in CleaningPhases =>
            todo # <<>> /\ Head(todo) = "notifier"

\* The Boolean part of TypeOK.
FlagsTyped ==
  /\ listening \in BOOLEAN /\ subscribed \in BOOLEAN /\ history \in BOOLEAN
  /\ notified \in BOOLEAN /\ (notified => listening)
  /\ sample \in BOOLEAN /\ (sample \/ history => subscribed)
  /\ flag \in BOOLEAN /\ unannounced \in BOOLEAN

NodeLifeInv ==
  TypeOK /\ Bookkeeping /\ AllocatedInOrder /\ FreedInOrder /\ NotifierHolds

-----------------------------------------------------------------------------
(* The parts of the handles and the two orders.                             *)

\* The orders of creation and cleanup, handle by handle.
LEMMA OrderOf ==
  /\ Created("node") = NodeParts /\ Cleanup("node") = NodeCleanup
  /\ Created("wait_set") = WaitSetParts /\ Cleanup("wait_set") = WaitSetCleanup
  /\ \A h \in Endpoints : Created(h) = EndpointParts /\ Cleanup(h) = EndpointCleanup
  BY DEF Created, Cleanup, Endpoints

\* The parts of each handle are those that are listed.
LEMMA PartsOfHandles ==
  /\ PartsOf("node") = {"handle", "guardHandle", "trigger", "notifier", "runnable",
                        "info", "name", "namespace"}
  /\ PartsOf("wait_set") = {"handle", "waitset"}
  /\ \A h \in Endpoints : PartsOf(h) = {"handle", "port", "abstraction", "name"}
<1>1. PartsOf("node") = {"handle", "guardHandle", "trigger", "notifier", "runnable",
                         "info", "name", "namespace"}
  <2>1. 1 .. Len(NodeParts) = {1, 2, 3, 4, 5, 6, 7, 8}
    BY DEF NodeParts
  <2>2. PartsOf("node") = {NodeParts[i] : i \in {1, 2, 3, 4, 5, 6, 7, 8}}
    BY <2>1, OrderOf DEF PartsOf
  <2> QED BY <2>2 DEF NodeParts
<1>2. PartsOf("wait_set") = {"handle", "waitset"}
  <2>1. 1 .. Len(WaitSetParts) = {1, 2}
    BY DEF WaitSetParts
  <2>2. PartsOf("wait_set") = {WaitSetParts[i] : i \in {1, 2}}
    BY <2>1, OrderOf DEF PartsOf
  <2> QED BY <2>2 DEF WaitSetParts
<1>3. ASSUME NEW h \in Endpoints
      PROVE PartsOf(h) = {"handle", "port", "abstraction", "name"}
  <2>1. 1 .. Len(EndpointParts) = {1, 2, 3, 4}
    BY DEF EndpointParts
  <2>2. Created(h) = EndpointParts
    BY OrderOf
  <2>3. PartsOf(h) = {EndpointParts[i] : i \in {1, 2, 3, 4}}
    BY <2>1, <2>2 DEF PartsOf
  <2> QED BY <2>3 DEF EndpointParts
<1> QED BY <1>1, <1>2, <1>3

\* The parts of a handle are parts.
LEMMA PartsOfInParts == \A h \in Handles : PartsOf(h) \subseteq Parts
  BY DEF Parts

\* Which part is freed through which.
LEMMA LeadsCases ==
  ASSUME NEW p, NEW q
  PROVE  /\ Leads("failing", p, q) <=>
              \/ p = "trigger" /\ q = "guardHandle"
              \/ p \in {"name", "namespace"} /\ q = "handle"
         /\ Leads("destroying", p, q) <=>
              \/ p \in {"notifier", "guardHandle", "runnable"} /\ q = "info"
              \/ p = "trigger" /\ q = "guardHandle"
              \/ p = "port" /\ q = "abstraction"
              \/ p \in {"info", "abstraction", "waitset", "name", "namespace"}
                 /\ q = "handle"
  BY DEF Leads, Through

\* A creation allocates each part of its handle after those that it needs.
LEMMA CreationOrder ==
  ASSUME NEW h \in Handles
  PROVE  /\ Created(h) \in Seq(Parts)
         /\ PartsOf(h) = {Created(h)[i] : i \in 1 .. Len(Created(h))}
         /\ \A i \in 1 .. Len(Created(h)), q \in Parts :
              Needs(Created(h)[i], q) => \E j \in 1 .. i - 1 : Created(h)[j] = q
<1>1. PartsOf(h) = {Created(h)[i] : i \in 1 .. Len(Created(h))}
  BY DEF PartsOf
<1>2. Created(h) \in Seq(Parts)
  <2>1. \A i \in 1 .. Len(Created(h)) : Created(h)[i] \in Parts
    BY <1>1, PartsOfInParts
  <2>2. Created(h) \in {NodeParts, WaitSetParts, EndpointParts}
    BY OrderOf DEF Handles
  <2> QED BY <2>1, <2>2 DEF NodeParts, WaitSetParts, EndpointParts
<1>3. ASSUME NEW i \in 1 .. Len(Created(h)), NEW q \in Parts, Needs(Created(h)[i], q)
      PROVE \E j \in 1 .. i - 1 : Created(h)[j] = q
  <2>1. CASE h = "node"
    <3>1. Created(h) = NodeParts
      BY <2>1, OrderOf
    <3>2. i \in {1, 2, 3, 4, 5, 6, 7, 8}
      BY <3>1 DEF NodeParts
    <3>3. \/ i = 3 /\ q = "guardHandle"
          \/ i = 4 /\ q = "trigger"
          \/ i \in {7, 8} /\ q = "handle"
      BY <1>3, <3>1, <3>2, LeadsCases DEF Needs, NodeParts
    <3> QED BY <3>1, <3>3 DEF NodeParts
  <2>2. CASE h = "wait_set"
    <3>1. Created(h) = WaitSetParts
      BY <2>2, OrderOf
    <3> QED BY <1>3, <3>1, LeadsCases DEF Needs, WaitSetParts
  <2>3. CASE h \in Endpoints
    <3>1. Created(h) = EndpointParts
      BY <2>3, OrderOf
    <3>2. i = 4 /\ q = "handle"
      BY <1>3, <3>1, LeadsCases DEF Needs, EndpointParts
    <3> QED BY <3>1, <3>2 DEF EndpointParts
  <2> QED BY <2>1, <2>2, <2>3 DEF Handles
<1> QED BY <1>1, <1>2, <1>3

\* A cleanup frees every part of a handle, each before the one it is freed through.
LEMMA CleanupOrder ==
  ASSUME NEW h \in Handles, NEW c \in CleaningPhases
  PROVE  /\ Cleanup(h) \in Seq(Parts)
         /\ PartsOf(h) = {Cleanup(h)[i] : i \in 1 .. Len(Cleanup(h))}
         /\ h = "node" => Cleanup(h) # <<>> /\ Head(Cleanup(h)) = "notifier"
         /\ \A j \in 1 .. Len(Cleanup(h)), i \in 1 .. Len(Cleanup(h)) :
              i < j => ~Leads(c, Cleanup(h)[j], Cleanup(h)[i])
<1>0. c \in {"failing", "destroying"}
  BY DEF CleaningPhases
<1>1. PartsOf(h) = {Cleanup(h)[i] : i \in 1 .. Len(Cleanup(h))}
  <2>1. CASE h = "node"
    <3>1. Cleanup(h) = NodeCleanup
      BY <2>1, OrderOf
    <3>2. 1 .. Len(NodeCleanup) = {1, 2, 3, 4, 5, 6, 7, 8}
      BY DEF NodeCleanup
    <3>3. {NodeCleanup[i] : i \in {1, 2, 3, 4, 5, 6, 7, 8}} =
            {"handle", "guardHandle", "trigger", "notifier", "runnable", "info",
             "name", "namespace"}
      BY DEF NodeCleanup
    <3>4. {Cleanup(h)[i] : i \in 1 .. Len(Cleanup(h))} =
            {NodeCleanup[i] : i \in {1, 2, 3, 4, 5, 6, 7, 8}}
      BY <3>1, <3>2
    <3>5. PartsOf(h) = {"handle", "guardHandle", "trigger", "notifier", "runnable", "info",
                        "name", "namespace"}
      BY <2>1, PartsOfHandles
    <3> QED BY <3>3, <3>4, <3>5
  <2>2. CASE h = "wait_set"
    <3>1. Cleanup(h) = WaitSetCleanup
      BY <2>2, OrderOf
    <3>2. 1 .. Len(WaitSetCleanup) = {1, 2}
      BY DEF WaitSetCleanup
    <3>3. {WaitSetCleanup[i] : i \in {1, 2}} = {"handle", "waitset"}
      BY DEF WaitSetCleanup
    <3> QED BY <2>2, <3>1, <3>2, <3>3, PartsOfHandles
  <2>3. CASE h \in Endpoints
    <3>1. Cleanup(h) = EndpointCleanup
      BY <2>3, OrderOf
    <3>2. 1 .. Len(EndpointCleanup) = {1, 2, 3, 4}
      BY DEF EndpointCleanup
    <3>3. {EndpointCleanup[i] : i \in {1, 2, 3, 4}} =
            {"handle", "port", "abstraction", "name"}
      BY DEF EndpointCleanup
    <3>4. {Cleanup(h)[i] : i \in 1 .. Len(Cleanup(h))} =
            {EndpointCleanup[i] : i \in {1, 2, 3, 4}}
      BY <3>1, <3>2
    <3>5. PartsOf(h) = {"handle", "port", "abstraction", "name"}
      BY <2>3, PartsOfHandles
    <3> QED BY <3>3, <3>4, <3>5
  <2> QED BY <2>1, <2>2, <2>3 DEF Handles
<1>2. Cleanup(h) \in {NodeCleanup, WaitSetCleanup, EndpointCleanup}
  BY OrderOf DEF Handles
<1>3. Cleanup(h) \in Seq(Parts)
  <2>1. \A i \in 1 .. Len(Cleanup(h)) : Cleanup(h)[i] \in Parts
    BY <1>1, PartsOfInParts
  <2> QED BY <1>2, <2>1 DEF NodeCleanup, WaitSetCleanup, EndpointCleanup
<1>4. h = "node" => Cleanup(h) # <<>> /\ Head(Cleanup(h)) = "notifier"
  BY OrderOf DEF NodeCleanup
<1>5. ASSUME NEW j \in 1 .. Len(Cleanup(h)), NEW i \in 1 .. Len(Cleanup(h)), i < j
      PROVE ~Leads(c, Cleanup(h)[j], Cleanup(h)[i])
  <2>1. CASE Cleanup(h) = NodeCleanup
    <3>1. i \in 1 .. 8 /\ j \in 1 .. 8
      BY <2>1 DEF NodeCleanup
    <3>2. NodeCleanup[j] = "notifier" => j = 1
      BY <3>1 DEF NodeCleanup
    <3>3. NodeCleanup[j] \in {"trigger", "guardHandle"} => j < 4
      BY <3>1 DEF NodeCleanup
    <3>4. NodeCleanup[i] = "guardHandle" => i = 3
      BY <3>1 DEF NodeCleanup
    <3>5. NodeCleanup[j] = "trigger" => j = 2
      BY <3>1 DEF NodeCleanup
    <3>6. NodeCleanup[i] = "info" => i = 5
      BY <3>1 DEF NodeCleanup
    <3>7. NodeCleanup[j] = "runnable" => j = 4
      BY <3>1 DEF NodeCleanup
    <3>8. NodeCleanup[i] = "handle" => i = 8
      BY <3>1 DEF NodeCleanup
    <3>9. NodeCleanup[j] # "port"
      BY <3>1 DEF NodeCleanup
    <3> QED
      BY <1>0, <1>5, <2>1, <3>1, <3>2, <3>3, <3>4, <3>5, <3>6, <3>7, <3>8, <3>9,
         LeadsCases
  <2>2. CASE Cleanup(h) = WaitSetCleanup
    BY <1>0, <1>5, <2>2, LeadsCases DEF WaitSetCleanup
  <2>3. CASE Cleanup(h) = EndpointCleanup
    BY <1>0, <1>5, <2>3, LeadsCases DEF EndpointCleanup
  <2> QED BY <1>2, <2>1, <2>2, <2>3
<1> QED BY <1>1, <1>3, <1>4, <1>5

\* In a full set of parts each part has the one that leads to it.
LEMMA LeadsWithin ==
  ASSUME NEW h \in Handles, NEW p \in PartsOf(h), NEW q \in Parts,
         Leads("destroying", p, q)
  PROVE  q \in PartsOf(h)
  BY LeadsCases, PartsOfHandles DEF Handles

\* Taking the first of what is left to do shifts the rest by one.
LEMMA TailFacts ==
  ASSUME NEW S, NEW s \in Seq(S), s # <<>>
  PROVE  /\ Head(s) = s[1] /\ Head(s) \in S /\ Len(s) \in Nat /\ Len(s) >= 1
         /\ Tail(s) \in Seq(S) /\ Len(Tail(s)) = Len(s) - 1
         /\ \A i \in 1 .. Len(Tail(s)) : Tail(s)[i] = s[i + 1]
  OBVIOUS

-----------------------------------------------------------------------------
(* The steps.                                                               *)

\* At first nothing exists.
LEMMA InitNodeLifeInv == Init => NodeLifeInv
<1> SUFFICES ASSUME Init PROVE NodeLifeInv
  OBVIOUS
<1> USE DEF Init
<1>1. TypeOK
  <2>1. /\ alive \subseteq Handles /\ current = "none" /\ phase \in Phases
        /\ todo \in Seq(Parts) /\ allocated \in [Handles -> SUBSET Parts]
        /\ \A h \in Handles : allocated[h] \subseteq PartsOf(h)
        /\ callback \in {"idle", "entered", "triggered"}
    BY DEF Phases
  <2>2. FlagsTyped
    BY Zenon DEF FlagsTyped
  <2>3. changes \in 0 .. MaxChanges
    BY NodeLifeAssumption DEF NodeLifeAssumption
  <2> QED BY <2>1, <2>2, <2>3 DEF TypeOK, FlagsTyped
<1>2. Bookkeeping
  BY DEF Bookkeeping, CreatingPhases, CleaningPhases, Handles, Endpoints
<1>3. AllocatedInOrder /\ FreedInOrder /\ NotifierHolds
  BY DEF AllocatedInOrder, FreedInOrder, NotifierHolds, CreatingPhases, CleaningPhases
<1> QED BY <1>1, <1>2, <1>3 DEF NodeLifeInv

\* What a step does to the parts to visit when it takes the first of them.
LEMMA TakesFirst ==
  ASSUME TypeOK, todo # <<>>, todo' = Tail(todo)
  PROVE  /\ todo' \in Seq(Parts)
         /\ Head(todo) = todo[1] /\ Head(todo) \in Todo
         /\ Len(todo') = Len(todo) - 1 /\ Len(todo) \in Nat /\ Len(todo) >= 1
         /\ \A i \in 1 .. Len(todo') : i + 1 \in 1 .. Len(todo) /\ todo'[i] = todo[i + 1]
         /\ Todo' \subseteq Todo
         /\ Todo \subseteq Todo' \cup {Head(todo)}
<1>1. todo \in Seq(Parts)
  BY DEF TypeOK
<1>2. /\ todo' \in Seq(Parts)
      /\ Head(todo) = todo[1]
      /\ Len(todo') = Len(todo) - 1 /\ Len(todo) \in Nat /\ Len(todo) >= 1
      /\ \A i \in 1 .. Len(todo') : todo'[i] = todo[i + 1]
  BY <1>1, TailFacts
<1>3. \A i \in 1 .. Len(todo') : i + 1 \in 1 .. Len(todo) /\ todo'[i] = todo[i + 1]
  BY <1>2
<1>4. Head(todo) \in Todo
  BY <1>2 DEF Todo
<1>5. Todo' \subseteq Todo
  BY <1>3 DEF Todo
<1>6. ASSUME NEW i \in 1 .. Len(todo), i # 1
      PROVE todo[i] \in Todo'
  <2>1. i - 1 \in 1 .. Len(todo') /\ todo'[i - 1] = todo[(i - 1) + 1]
    BY <1>2, <1>3, <1>6
  <2>2. (i - 1) + 1 = i
    OBVIOUS
  <2> QED BY <2>1, <2>2 DEF Todo
<1>7. Todo \subseteq Todo' \cup {Head(todo)}
  BY <1>2, <1>6 DEF Todo
<1> QED BY <1>2, <1>3, <1>4, <1>5, <1>7

\* A step that leaves the owner's thread where it is can only disturb what is said of
\* the notifier.
LEMMA OwnerStands ==
  ASSUME NodeLifeInv, UNCHANGED ownerVars, TypeOK', NotifierHolds'
  PROVE  NodeLifeInv'
<1> USE DEF NodeLifeInv, ownerVars
<1>1. Bookkeeping'
  BY DEF Bookkeeping, Todo
<1>2. AllocatedInOrder'
  BY DEF AllocatedInOrder
<1>3. FreedInOrder'
  BY DEF FreedInOrder
<1> QED BY <1>1, <1>2, <1>3

\* A creation starts with nothing of its handle.
LEMMA CreateStep ==
  ASSUME NodeLifeInv, NEW h \in Handles, Create(h)
  PROVE  NodeLifeInv'
<1> USE DEF NodeLifeInv, Create, listenerVars, portVars
<1>1. /\ Created(h) \in Seq(Parts)
      /\ Todo' = PartsOf(h)
      /\ \A i \in 1 .. Len(Created(h)), q \in Parts :
           Needs(Created(h)[i], q) => \E j \in 1 .. i - 1 : Created(h)[j] = q
  BY CreationOrder DEF Todo
<1>2. "none" \notin Handles /\ current = "none" /\ allocated[h] = {}
  BY DEF Handles, Endpoints, TypeOK, Bookkeeping
<1>3. TypeOK'
  BY <1>1, <1>2 DEF TypeOK, Phases
<1>4. Bookkeeping'
  <2>1. /\ alive' = alive /\ current' = h /\ phase' = "allocating"
        /\ allocated' = allocated /\ h \notin alive
    OBVIOUS
  <2>2. "allocating" \notin CleaningPhases /\ "allocating" # "idle"
        /\ "allocating" \notin {"constructing", "constructed"}
    BY DEF CleaningPhases
  <2> QED BY <1>1, <1>2, <2>1, <2>2 DEF Bookkeeping
<1>5. AllocatedInOrder'
  BY <1>1, <1>2 DEF AllocatedInOrder
<1>6. FreedInOrder' /\ NotifierHolds'
  BY <1>2 DEF FreedInOrder, NotifierHolds, CleaningPhases
<1> QED BY <1>3, <1>4, <1>5, <1>6

\* An allocation adds a part, whose own needs are there.
LEMMA AllocateStep ==
  ASSUME NodeLifeInv, Allocate
  PROVE  NodeLifeInv'
<1> USE DEF NodeLifeInv
<1>1. /\ phase = "allocating" /\ todo # <<>> /\ todo' = Tail(todo)
      /\ phase' = IF Head(todo) = "notifier" THEN "constructing" ELSE "allocating"
      /\ allocated' = [allocated EXCEPT ![current] = @ \cup {Head(todo)}]
      /\ UNCHANGED <<alive, current, listenerVars, portVars, changes>>
  BY DEF Allocate
<1>2. current \in Handles /\ current \notin alive /\ Todo \subseteq PartsOf(current)
  BY <1>1 DEF TypeOK, Bookkeeping
<1>3. Head(todo) \in PartsOf(current) /\ Todo' \subseteq PartsOf(current)
  BY <1>1, <1>2, TakesFirst
<1>4. /\ allocated'[current] = allocated[current] \cup {Head(todo)}
      /\ \A h \in Handles : h # current => allocated'[h] = allocated[h]
  BY <1>1, <1>2 DEF TypeOK
<1>5. \A q \in Parts : Needs(Head(todo), q) => q \in allocated[current]
  <2>1. 1 \in 1 .. Len(todo) /\ Head(todo) = todo[1]
    BY <1>1, TakesFirst
  <2> QED BY <1>1, <2>1 DEF AllocatedInOrder, CreatingPhases
<1>6. TypeOK'
  <2>1. todo' \in Seq(Parts)
    BY <1>1, TakesFirst
  <2>2. allocated' \in [Handles -> SUBSET Parts]
    BY <1>1, <1>2, <1>3, PartsOfInParts DEF TypeOK
  <2>3. \A h \in Handles : allocated'[h] \subseteq PartsOf(h)
    BY <1>3, <1>4 DEF TypeOK
  <2>4. phase' \in Phases /\ phase' # "idle"
    BY <1>1 DEF Phases
  <2> QED BY <1>1, <2>1, <2>2, <2>3, <2>4 DEF TypeOK, listenerVars, portVars
<1>7. Bookkeeping'
  <2>1. PartsOf(current) \subseteq allocated'[current] \cup Todo'
    BY <1>1, <1>4, TakesFirst DEF Bookkeeping, CreatingPhases
  <2>2. ASSUME phase' \in {"constructing", "constructed"}
        PROVE  current = "node" /\ {"notifier", "trigger"} \subseteq allocated'["node"]
    <3>1. Head(todo) = "notifier"
      BY <1>1, <2>2
    <3>2. current = "node"
      BY <1>2, <1>3, <3>1, PartsOfHandles DEF Handles
    <3>3. "trigger" \in allocated[current]
      <4>1. "trigger" \in Parts
        BY PartsOfHandles, PartsOfInParts DEF Handles
      <4> QED BY <1>5, <3>1, <4>1 DEF Needs
    <3> QED BY <1>4, <3>1, <3>2, <3>3
  <2>3. phase' \notin CleaningPhases
    BY <1>1 DEF CleaningPhases
  <2>4. \A h \in alive : allocated'[h] = PartsOf(h)
    BY <1>2, <1>4 DEF Bookkeeping, TypeOK
  <2>5. \A h \in Handles \ alive : h # current => allocated'[h] = {}
    BY <1>4 DEF Bookkeeping
  <2> QED BY <1>1, <1>2, <1>3, <2>1, <2>2, <2>3, <2>4, <2>5 DEF Bookkeeping
<1>8. AllocatedInOrder'
  <2>1. \A p \in allocated'[current], q \in Parts :
          Needs(p, q) => q \in allocated'[current]
    BY <1>1, <1>4, <1>5 DEF AllocatedInOrder, CreatingPhases
  <2>2. ASSUME NEW i \in 1 .. Len(todo'), NEW q \in Parts, Needs(todo'[i], q),
               q \notin allocated'[current]
        PROVE  \E j \in 1 .. i - 1 : todo'[j] = q
    <3>1. i + 1 \in 1 .. Len(todo) /\ todo'[i] = todo[i + 1] /\ i \in Nat
      BY <1>1, TakesFirst
    <3>2. PICK j \in 1 .. (i + 1) - 1 : todo[j] = q
      BY <1>1, <1>4, <2>2, <3>1 DEF AllocatedInOrder, CreatingPhases
    <3>3. j # 1
      BY <1>1, <1>4, <2>2, <3>2, TakesFirst
    <3>4. j - 1 \in 1 .. i - 1 /\ j - 1 \in 1 .. Len(todo') /\ (j - 1) + 1 = j
      BY <1>1, <3>1, <3>2, <3>3, TakesFirst
    <3>5. todo'[j - 1] = todo[(j - 1) + 1]
      BY <1>1, <3>4, TakesFirst
    <3> QED BY <3>2, <3>4, <3>5
  <2>3. current' = current
    BY <1>1
  <2> QED BY <2>1, <2>2, <2>3 DEF AllocatedInOrder
<1>9. FreedInOrder' /\ NotifierHolds'
  <2>1. phase' \notin CleaningPhases
    BY <1>1 DEF CleaningPhases
  <2>2. allocated["node"] \subseteq allocated'["node"]
    BY <1>4 DEF Handles
  <2> QED
    BY <1>1, <2>1, <2>2 DEF FreedInOrder, NotifierHolds, listenerVars, portVars
<1> QED BY <1>6, <1>7, <1>8, <1>9

\* A cleanup starts, of a handle that is or becomes the current one.
LEMMA CleanupStarts ==
  ASSUME NodeLifeInv, NEW h \in Handles, NEW c \in CleaningPhases,
         \A p \in allocated[h], q \in Parts : Leads(c, p, q) => q \in allocated[h],
         h = current \/ current = "none", h \notin alive',
         alive' = alive \ {h}, current' = h, phase' = c, todo' = Cleanup(h),
         UNCHANGED <<allocated, listenerVars, portVars, changes>>
  PROVE  NodeLifeInv'
<1> USE DEF NodeLifeInv
<1>1. /\ Cleanup(h) \in Seq(Parts) /\ Todo' = PartsOf(h)
      /\ h = "node" => todo' # <<>> /\ Head(todo') = "notifier"
      /\ \A j \in 1 .. Len(todo'), i \in 1 .. Len(todo') :
           i < j => ~Leads(c, todo'[j], todo'[i])
  BY CleanupOrder DEF Todo
<1>2. c # "idle" /\ c \in Phases /\ "none" \notin Handles
      /\ c \notin CreatingPhases /\ c \notin {"constructing", "constructed"}
  BY DEF CleaningPhases, Phases, Handles, Endpoints, CreatingPhases
<1>3. TypeOK'
  BY <1>1, <1>2 DEF TypeOK, listenerVars, portVars
<1>4. Bookkeeping'
  <2>1. allocated[h] \subseteq PartsOf(h)
    BY DEF TypeOK
  <2>2. \A g \in alive' : allocated'[g] = PartsOf(g)
    BY DEF Bookkeeping
  <2>3. \A g \in Handles \ alive' : g # current' => allocated'[g] = {}
    BY <1>2 DEF Bookkeeping, TypeOK
  <2> QED BY <1>1, <1>2, <2>1, <2>2, <2>3 DEF Bookkeeping
<1>5. AllocatedInOrder' /\ FreedInOrder'
  BY <1>1, <1>2 DEF AllocatedInOrder, FreedInOrder
<1>6. NotifierHolds'
  <2>1. "node" \in alive \/ current = "node" => "node" \in alive' \/ current' = "node"
    BY DEF Handles
  <2> QED BY <1>1, <2>1 DEF NotifierHolds, listenerVars, portVars
<1> QED BY <1>3, <1>4, <1>5, <1>6

\* A failed allocation leaves the cleanup what was allocated.
LEMMA AllocateFailsStep ==
  ASSUME NodeLifeInv, AllocateFails
  PROVE  NodeLifeInv'
<1> USE DEF NodeLifeInv
<1>1. /\ phase = "allocating" /\ phase' = "failing" /\ todo' = Cleanup(current)
      /\ UNCHANGED <<alive, current, allocated, listenerVars, portVars, changes>>
  BY DEF AllocateFails
<1>2. current \in Handles /\ current \notin alive /\ "failing" \in CleaningPhases
  BY <1>1 DEF TypeOK, Bookkeeping, CleaningPhases
<1>3. \A p \in allocated[current], q \in Parts :
        Leads("failing", p, q) => q \in allocated[current]
  BY <1>1 DEF AllocatedInOrder, CreatingPhases, Needs
<1>4. current \notin alive' /\ alive' = alive \ {current} /\ current' = current
      /\ UNCHANGED <<allocated, listenerVars, portVars, changes>>
  BY <1>1, <1>2
<1> QED BY <1>1, <1>2, <1>3, <1>4, CleanupStarts

\* A destruction has all parts of its handle to free.
LEMMA DestroyStep ==
  ASSUME NodeLifeInv, NEW h \in Handles, Destroy(h)
  PROVE  NodeLifeInv'
<1> USE DEF NodeLifeInv
<1>1. /\ phase = "idle" /\ h \in alive /\ alive' = alive \ {h} /\ current' = h
      /\ phase' = "destroying" /\ todo' = Cleanup(h)
      /\ UNCHANGED <<allocated, listenerVars, portVars, changes>>
  BY DEF Destroy
<1>2. current = "none" /\ "destroying" \in CleaningPhases /\ h \notin alive'
  BY <1>1 DEF TypeOK, CleaningPhases
<1>3. allocated[h] = PartsOf(h)
  BY <1>1 DEF Bookkeeping
<1>4. \A p \in allocated[h], q \in Parts :
        Leads("destroying", p, q) => q \in allocated[h]
  BY <1>3, LeadsWithin
<1> QED BY <1>1, <1>2, <1>4, CleanupStarts

\* The notifier is attached and subscribed when it and its trigger exist.
LEMMA ConstructStep ==
  ASSUME NodeLifeInv, Construct
  PROVE  NodeLifeInv'
<1> USE DEF NodeLifeInv
<1>1. /\ phase \in {"constructing", "constructed"}
      /\ phase' \in {"constructed", "allocating"}
      /\ UNCHANGED <<alive, current, todo, allocated, callback, changes>>
  BY DEF Construct, AttachCallback, SubscribeReceiver, listenerVars, portVars
<1>2. current = "node" /\ {"notifier", "trigger"} \subseteq allocated["node"]
  BY <1>1 DEF Bookkeeping
<1>3. phase \in CreatingPhases /\ phase' \in CreatingPhases
      /\ phase' \notin CleaningPhases /\ phase # "idle"
  BY <1>1 DEF CreatingPhases, CleaningPhases
<1>4. Bookkeeping'
  BY <1>1, <1>2, <1>3 DEF Bookkeeping, Todo
<1>5. AllocatedInOrder' /\ FreedInOrder'
  BY <1>1, <1>3 DEF AllocatedInOrder, FreedInOrder
<1>6. callback # "idle" => listening'
  BY DEF Construct, AttachCallback, SubscribeReceiver, NotifierHolds, listenerVars
<1>7. NotifierHolds'
  BY <1>1, <1>2, <1>3, <1>6 DEF NotifierHolds
<1>8. FlagsTyped'
  <2>1. FlagsTyped
    BY DEF TypeOK, FlagsTyped
  <2>2. /\ notified' = notified /\ flag' = flag /\ unannounced' = unannounced
        /\ sample' = sample
        /\ \/ listening' = TRUE /\ subscribed' = subscribed /\ history' = history
           \/ listening' = listening /\ subscribed' = TRUE /\ history' = TRUE
    BY DEF Construct, AttachCallback, SubscribeReceiver, listenerVars, portVars
  <2>3. /\ listening' \in BOOLEAN /\ subscribed' \in BOOLEAN /\ history' \in BOOLEAN
        /\ notified' \in BOOLEAN /\ sample' \in BOOLEAN /\ flag' \in BOOLEAN
        /\ unannounced' \in BOOLEAN
    BY <2>1, <2>2 DEF FlagsTyped
  <2>4. (notified' => listening') /\ (sample' \/ history' => subscribed')
    BY <2>1, <2>2 DEF FlagsTyped
  <2> QED BY <2>3, <2>4 DEF FlagsTyped
<1>9. TypeOK'
  BY <1>1, <1>8 DEF TypeOK, FlagsTyped, Phases
<1> QED BY <1>4, <1>5, <1>7, <1>9

\* A creation that returns leaves its handle whole.
LEMMA CreateReturnsStep ==
  ASSUME NodeLifeInv, CreateReturns
  PROVE  NodeLifeInv'
<1> USE DEF NodeLifeInv
<1>1. /\ phase = "allocating" /\ todo = <<>> /\ alive' = alive \cup {current}
      /\ current' = "none" /\ phase' = "idle"
      /\ UNCHANGED <<todo, allocated, listenerVars, portVars, changes>>
  BY DEF CreateReturns
<1>2. current \in Handles /\ "none" \notin Handles
  BY <1>1 DEF TypeOK, Handles, Endpoints
<1>3. allocated[current] = PartsOf(current)
  <2>1. Todo = {}
    BY <1>1 DEF Todo
  <2>2. PartsOf(current) \subseteq allocated[current]
    BY <1>1, <2>1 DEF Bookkeeping, CreatingPhases
  <2> QED BY <1>2, <2>2 DEF TypeOK
<1>4. TypeOK'
  BY <1>1, <1>2 DEF TypeOK, Phases, listenerVars, portVars
<1>5. Bookkeeping'
  BY <1>1, <1>2, <1>3 DEF Bookkeeping, TypeOK, CreatingPhases, CleaningPhases
<1>6. AllocatedInOrder' /\ FreedInOrder' /\ NotifierHolds'
  BY <1>1 DEF AllocatedInOrder, FreedInOrder, NotifierHolds, CreatingPhases,
              CleaningPhases, listenerVars, portVars
<1> QED BY <1>4, <1>5, <1>6

\* detachEvent and unsubscribe.
LEMMA NotifierGoesStep ==
  ASSUME NodeLifeInv, DetachCallback \/ UnsubscribeReceiver
  PROVE  NodeLifeInv'
<1>1. UNCHANGED ownerVars
  BY DEF DetachCallback, UnsubscribeReceiver
<1>2. TypeOK'
  <2>1. UNCHANGED <<callback, changes>>
    BY DEF DetachCallback, UnsubscribeReceiver, portVars
  <2>2. FlagsTyped'
    <3>1. FlagsTyped
      BY DEF NodeLifeInv, TypeOK, FlagsTyped
    <3>2. /\ flag' = flag
          /\ \/ /\ listening' = FALSE /\ notified' = FALSE /\ subscribed' = subscribed
                /\ history' = history /\ sample' = sample /\ unannounced' = unannounced
             \/ /\ listening' = listening /\ notified' = notified /\ subscribed' = FALSE
                /\ history' = FALSE /\ sample' = FALSE /\ unannounced' = FALSE
      BY DEF DetachCallback, UnsubscribeReceiver, portVars
    <3>3. /\ listening' \in BOOLEAN /\ subscribed' \in BOOLEAN /\ history' \in BOOLEAN
          /\ notified' \in BOOLEAN /\ sample' \in BOOLEAN /\ flag' \in BOOLEAN
          /\ unannounced' \in BOOLEAN
      BY <3>1, <3>2 DEF FlagsTyped
    <3>4. (notified' => listening') /\ (sample' \/ history' => subscribed')
      BY <3>1, <3>2 DEF FlagsTyped
    <3> QED BY <3>3, <3>4 DEF FlagsTyped
  <2> QED BY <1>1, <2>1, <2>2 DEF NodeLifeInv, TypeOK, FlagsTyped, ownerVars
<1>3. NotifierHolds'
  <2>1. CASE DetachCallback
    BY <1>1, <2>1 DEF NodeLifeInv, DetachCallback, NotifierHolds, ownerVars, portVars
  <2>2. CASE UnsubscribeReceiver
    BY <1>1, <2>2 DEF NodeLifeInv, UnsubscribeReceiver, NotifierHolds, ownerVars
  <2> QED BY <2>1, <2>2
<1> QED BY <1>1, <1>2, <1>3, OwnerStands

\* A part is freed in its turn, the notifier when the listener is done with it.
LEMMA FreeStep ==
  ASSUME NodeLifeInv, NEW part \in Parts, Free(part)
  PROVE  NodeLifeInv'
<1> USE DEF NodeLifeInv
<1>1. /\ phase \in CleaningPhases /\ todo # <<>> /\ Head(todo) = part
      /\ part = "notifier" => ~listening /\ ~subscribed
      /\ allocated' = [allocated EXCEPT ![current] = @ \ {part}]
      /\ todo' = Tail(todo)
      /\ flag' \in {flag, FALSE}
      /\ UNCHANGED <<alive, current, phase, listening, notified, callback, unannounced,
                     portVars, changes>>
  BY DEF Free, Cleaning
<1>2. /\ phase # "idle" /\ phase \notin CreatingPhases
      /\ phase \notin {"constructing", "constructed"}
  BY <1>1 DEF CleaningPhases, CreatingPhases
<1>3. current \in Handles /\ current \notin alive
  BY <1>2 DEF TypeOK, Bookkeeping
<1>4. /\ allocated'[current] = allocated[current] \ {part}
      /\ \A h \in Handles : h # current => allocated'[h] = allocated[h]
  BY <1>1, <1>3 DEF TypeOK
<1>5. TypeOK'
  <2>1. todo' \in Seq(Parts)
    BY <1>1, TakesFirst
  <2>2. allocated' \in [Handles -> SUBSET Parts]
    BY <1>1 DEF TypeOK
  <2>3. \A h \in Handles : allocated'[h] \subseteq PartsOf(h)
    BY <1>4 DEF TypeOK
  <2> QED BY <1>1, <2>1, <2>2, <2>3 DEF TypeOK, portVars
<1>6. Bookkeeping'
  <2>1. Todo' \subseteq PartsOf(current)
    BY <1>1, <1>2, TakesFirst DEF Bookkeeping
  <2>2. allocated'[current] \subseteq Todo'
    BY <1>1, <1>4, TakesFirst DEF Bookkeeping
  <2>3. \A h \in alive : allocated'[h] = PartsOf(h)
    BY <1>3, <1>4 DEF Bookkeeping, TypeOK
  <2>4. \A h \in Handles \ alive : h # current => allocated'[h] = {}
    BY <1>4 DEF Bookkeeping
  <2> QED BY <1>1, <1>2, <1>3, <2>1, <2>2, <2>3, <2>4 DEF Bookkeeping
<1>7. AllocatedInOrder'
  BY <1>1, <1>2 DEF AllocatedInOrder
<1>8. FreedInOrder'
  <2>1. ASSUME NEW p \in allocated'[current], NEW q \in Parts, Leads(phase, p, q)
        PROVE  q \in allocated'[current]
    <3>1. p \in allocated[current] /\ p # part /\ q \in allocated[current]
      BY <1>1, <1>4, <2>1 DEF FreedInOrder
    <3>2. PICK j \in 1 .. Len(todo) : todo[j] = p
      BY <1>1, <3>1 DEF Bookkeeping, Todo
    <3>3. j # 1 /\ 1 \in 1 .. Len(todo) /\ todo[1] = part
      BY <1>1, <3>1, <3>2, TakesFirst
    <3>4. 1 < j
      BY <3>2, <3>3
    <3>5. ~Leads(phase, p, part)
      BY <1>1, <3>2, <3>3, <3>4 DEF FreedInOrder
    <3> QED BY <1>4, <2>1, <3>1, <3>5
  <2>2. ASSUME NEW j \in 1 .. Len(todo'), NEW i \in 1 .. Len(todo'), i < j
        PROVE  ~Leads(phase, todo'[j], todo'[i])
    <3>1. /\ i + 1 \in 1 .. Len(todo) /\ todo'[i] = todo[i + 1]
          /\ j + 1 \in 1 .. Len(todo) /\ todo'[j] = todo[j + 1]
      BY <1>1, TakesFirst
    <3>2. i + 1 < j + 1
      BY <2>2
    <3> QED BY <1>1, <3>1, <3>2 DEF FreedInOrder
  <2> QED BY <1>1, <2>1, <2>2 DEF FreedInOrder
<1>9. NotifierHolds'
  <2>1. listening \/ subscribed => current # "node"
    BY <1>1 DEF NotifierHolds
  <2>2. listening \/ subscribed => allocated'["node"] = allocated["node"]
    BY <1>4, <2>1 DEF Handles
  <2> QED BY <1>1, <2>1, <2>2 DEF NotifierHolds, portVars
<1> QED BY <1>5, <1>6, <1>7, <1>8, <1>9

\* A cleanup that returns leaves nothing of its handle.
LEMMA CleanupReturnsStep ==
  ASSUME NodeLifeInv, CleanupReturns
  PROVE  NodeLifeInv'
<1> USE DEF NodeLifeInv
<1>1. /\ phase \in CleaningPhases /\ todo = <<>> /\ current' = "none" /\ phase' = "idle"
      /\ UNCHANGED <<alive, todo, allocated, listenerVars, portVars, changes>>
  BY DEF CleanupReturns
<1>2. allocated[current] = {}
  <2>1. Todo = {}
    BY <1>1 DEF Todo
  <2> QED BY <1>1, <2>1 DEF Bookkeeping
<1>3. TypeOK'
  BY <1>1 DEF TypeOK, Phases, listenerVars, portVars
<1>4. Bookkeeping'
  <2>1. "none" \notin alive
    BY DEF TypeOK, Handles, Endpoints
  <2>2. phase' \notin CreatingPhases /\ phase' \notin CleaningPhases
    BY <1>1 DEF CreatingPhases, CleaningPhases
  <2> QED BY <1>1, <1>2, <2>1, <2>2 DEF Bookkeeping
<1>5. AllocatedInOrder' /\ FreedInOrder' /\ NotifierHolds'
  BY <1>1 DEF AllocatedInOrder, FreedInOrder, NotifierHolds, CreatingPhases,
              CleaningPhases, listenerVars, portVars
<1> QED BY <1>3, <1>4, <1>5

\* The daemon, the listener's thread and the executor.
LEMMA OthersStep ==
  ASSUME NodeLifeInv, Change \/ DeliverHistory \/ Listener \/ ExecutorWakes
  PROVE  NodeLifeInv'
<1>1. /\ UNCHANGED <<ownerVars, listening, subscribed>>
      /\ callback' # "idle" => callback # "idle" \/ listening
  BY DEF Change, Deliver, DeliverHistory, Listener, CallbackEnters, CallbackTriggers,
         CallbackReleases, ExecutorWakes, ownerVars, listenerVars, portVars
<1>2. TypeOK'
  <2>1. callback' \in {"idle", "entered", "triggered"} /\ changes' \in 0 .. MaxChanges
    BY NodeLifeAssumption
       DEF NodeLifeAssumption, NodeLifeInv, TypeOK, Change, Deliver, DeliverHistory,
           Listener, CallbackEnters, CallbackTriggers, CallbackReleases, ExecutorWakes,
           ownerVars, listenerVars, portVars
  <2>2. FlagsTyped
    BY DEF NodeLifeInv, TypeOK, FlagsTyped
  <2>3. FlagsTyped'
    <3>1. CASE Change \/ DeliverHistory
      BY <2>2, <3>1, Zenon
         DEF FlagsTyped, Change, Deliver, DeliverHistory, listenerVars, portVars
    <3>2. CASE Listener \/ ExecutorWakes
      <4>1. /\ listening' = listening /\ subscribed' = subscribed /\ history' = history
            /\ notified' = notified \/ notified' = FALSE
            /\ sample' = sample \/ sample' = FALSE
            /\ flag' = flag \/ flag' = TRUE \/ flag' = FALSE
            /\ unannounced' = unannounced \/ unannounced' = FALSE
        BY <3>2 DEF Listener, CallbackEnters, CallbackTriggers, CallbackReleases,
                    ExecutorWakes, portVars
      <4>2. /\ listening' \in BOOLEAN /\ subscribed' \in BOOLEAN /\ history' \in BOOLEAN
            /\ notified' \in BOOLEAN /\ sample' \in BOOLEAN /\ flag' \in BOOLEAN
            /\ unannounced' \in BOOLEAN
        BY <2>2, <4>1 DEF FlagsTyped
      <4>3. (notified' => listening') /\ (sample' \/ history' => subscribed')
        BY <2>2, <4>1 DEF FlagsTyped
      <4> QED BY <4>2, <4>3 DEF FlagsTyped
    <3> QED BY <3>1, <3>2
  <2> QED BY <1>1, <2>1, <2>3 DEF NodeLifeInv, TypeOK, FlagsTyped, ownerVars
<1>3. NotifierHolds'
  BY <1>1 DEF NodeLifeInv, NotifierHolds, ownerVars
<1> QED BY <1>1, <1>2, <1>3, OwnerStands

\* Every step, the listener's included, preserves the invariant.
LEMMA NextNodeLifeInv == NodeLifeInv /\ [Next]_vars => NodeLifeInv'
<1> SUFFICES ASSUME NodeLifeInv, [Next]_vars PROVE NodeLifeInv'
  OBVIOUS
<1>1. CASE Creates
  <2>1. \E h \in Handles : Create(h)
    BY <1>1 DEF Creates, CreateNode, CreateClient, CreateService, CreatePublisher,
                CreateSubscription, CreateWaitSet, Handles, Endpoints
  <2> QED BY <2>1, CreateStep
<1>2. CASE Destroys
  <2>1. \E h \in Handles : Destroy(h)
    BY <1>2 DEF Destroys, DestroyNode, DestroyClient, DestroyService, DestroyPublisher,
                DestroySubscription, DestroyWaitSet, Handles, Endpoints
  <2> QED BY <2>1, DestroyStep
<1>3. CASE Allocate
  BY <1>3, AllocateStep
<1>4. CASE AllocateFails
  BY <1>4, AllocateFailsStep
<1>5. CASE Construct
  BY <1>5, ConstructStep
<1>6. CASE CreateReturns
  BY <1>6, CreateReturnsStep
<1>7. CASE DetachCallback \/ UnsubscribeReceiver
  BY <1>7, NotifierGoesStep
<1>8. CASE \E part \in Parts : Free(part)
  BY <1>8, FreeStep
<1>9. CASE CleanupReturns
  BY <1>9, CleanupReturnsStep
<1>10. CASE Change \/ DeliverHistory \/ Listener \/ ExecutorWakes
  BY <1>10, OthersStep
<1>11. CASE UNCHANGED vars
  <2>1. UNCHANGED ownerVars /\ TypeOK' /\ NotifierHolds'
    BY <1>11 DEF NodeLifeInv, TypeOK, NotifierHolds, vars, ownerVars, listenerVars,
                 portVars
  <2> QED BY <2>1, OwnerStands
<1> QED
  BY <1>1, <1>2, <1>3, <1>4, <1>5, <1>6, <1>7, <1>8, <1>9, <1>10, <1>11 DEF Next, Owner

-----------------------------------------------------------------------------
(* The theorems.                                                            *)

\* The invariant holds in every state.
LEMMA AlwaysNodeLifeInv == Spec => []NodeLifeInv
<1>1. Init => NodeLifeInv
  BY InitNodeLifeInv
<1>2. NodeLifeInv /\ [Next]_vars => NodeLifeInv'
  BY NextNodeLifeInv
<1> QED BY <1>1, <1>2, PTL DEF Spec

\* Every variable keeps its type: in particular no sample is left for a receiver that
\* is not subscribed, and no handle has a part that is not its own.
THEOREM NodeLifeTypeCorrect == Spec => []TypeOK
<1>1. NodeLifeInv => TypeOK
  BY DEF NodeLifeInv
<1> QED BY <1>1, AlwaysNodeLifeInv, PTL

\* The callback of the graph change notifier never runs into a notifier or a guard
\* condition that rmw_destroy_node, or the cleanup of rmw_create_node, has freed.
THEOREM CallbackIsSafe == Spec => []CallbackTouchesLive
<1>1. NodeLifeInv => CallbackTouchesLive
  BY DEF NodeLifeInv, NotifierHolds, CallbackTouchesLive
<1> QED BY <1>1, AlwaysNodeLifeInv, PTL

\* Whichever allocation fails, and in every destruction, a part is freed through a
\* part that still exists.
THEOREM CleanupIsSafe == Spec => []CleanupReachesLive
<1>1. ASSUME NodeLifeInv PROVE CleanupReachesLive
  <2> SUFFICES ASSUME phase \in CleaningPhases, todo # <<>>,
                      Head(todo) \in allocated[current] \cap DOMAIN Through[phase]
               PROVE  Through[phase][Head(todo)] \in allocated[current]
    BY DEF CleanupReachesLive
  <2>1. Leads(phase, Head(todo), Through[phase][Head(todo)])
    BY DEF Leads
  <2>2. Through[phase][Head(todo)] \in Parts
    <3>1. \A q : Leads(phase, Head(todo), q) =>
            q \in PartsOf("node") \cup PartsOf("publisher")
      BY LeadsCases, PartsOfHandles DEF CleaningPhases, Endpoints
    <3> QED BY <2>1, <3>1, PartsOfInParts DEF Handles, Endpoints
  <2> QED BY <1>1, <2>1, <2>2 DEF NodeLifeInv, FreedInOrder
<1> QED BY <1>1, AlwaysNodeLifeInv, PTL

\* After rmw_destroy_*, and after rmw_create_* failed at whatever allocation, nothing
\* of the handle is left, and no callback outlives the node.
THEOREM NothingIsLeaked == Spec => []NothingLeaks
<1>1. ASSUME NodeLifeInv PROVE NothingLeaks
  <2> SUFFICES ASSUME phase = "idle"
               PROVE  /\ \A h \in Handles \ alive : allocated[h] = {}
                      /\ "node" \notin alive =>
                           ~listening /\ ~subscribed /\ callback = "idle"
    BY DEF NothingLeaks
  <2>1. current = "none" /\ "none" \notin Handles
    BY <1>1 DEF NodeLifeInv, TypeOK, Handles, Endpoints
  <2> QED BY <1>1, <2>1 DEF NodeLifeInv, Bookkeeping, NotifierHolds
<1> QED BY <1>1, AlwaysNodeLifeInv, PTL
=============================================================================
