---------------------------- MODULE ReqResProofs ----------------------------
(***************************************************************************)
(* What ReqRes guarantees for every set of clients, every bound, every set  *)
(* of faults and every application: its types, that answers reach who       *)
(* asked, that what a port holds is held for a response, that a request is  *)
(* in one place at a time, that responses come in order, and that ReqRes    *)
(* implements Rpc.                                                          *)
(***************************************************************************)
EXTENDS ReqRes, FiniteSetTheorems, TLAPS

-----------------------------------------------------------------------------
(* The queue and map operators.                                             *)

\* Taking the oldest element of a queue shifts the others by one.
LEMMA TailFacts ==
  ASSUME NEW S, NEW q \in Seq(S), q # <<>>
  PROVE  /\ Tail(q) \in Seq(S)
         /\ Len(q) \in Nat \ {0}
         /\ Len(Tail(q)) = Len(q) - 1
         /\ Head(q) = q[1]
         /\ Head(q) \in S
         /\ \A i \in 1 .. Len(Tail(q)) : Tail(q)[i] = q[i + 1]
  OBVIOUS

\* A queue p is what has become of the queue q when x was added at its end: it is not
\* longer than a queue may be, and every other element was in q, `shift` places further
\* back.
Pushed(S, q, x, p) ==
  \E shift \in {0, 1} :
    /\ p \in Seq(S)
    /\ Len(p) \in Nat
    /\ Len(p) <= QueueDepth
    /\ Len(p) = Len(q) + 1 - shift
    /\ p[Len(p)] = x
    /\ \A i \in 1 .. Len(p) - 1 : i + shift \in 1 .. Len(q) /\ p[i] = q[i + shift]

\* Push adds its element at the end and never grows a full queue.
LEMMA PushFacts ==
  ASSUME NEW S, NEW q \in Seq(S), NEW x \in S, Len(q) <= QueueDepth
  PROVE  Pushed(S, q, x, Push(q, x))
<1> USE DEF Pushed
<1>0. QueueDepth \in Nat \ {0} /\ Len(q) \in Nat
  BY ReqResAssumption DEF ReqResAssumption
<1>1. CASE Len(q) < QueueDepth
  <2>1. Push(q, x) = Append(q, x)
    BY <1>1 DEF Push
  <2>2. /\ Append(q, x) \in Seq(S)
        /\ Len(Append(q, x)) = Len(q) + 1
        /\ Append(q, x)[Len(q) + 1] = x
        /\ \A i \in 1 .. Len(q) : Append(q, x)[i] = q[i]
    OBVIOUS
  <2>3. WITNESS 0 \in {0, 1}
  <2> QED BY <2>1, <2>2, <1>0, <1>1
<1>2. CASE Len(q) = QueueDepth
  <2>0. q # <<>>
    BY <1>0, <1>2
  <2> DEFINE t == Tail(q)
  <2>1. Push(q, x) = Append(t, x)
    BY <1>2, <1>0 DEF Push
  <2>2. /\ t \in Seq(S)
        /\ Len(t) = Len(q) - 1
        /\ \A i \in 1 .. Len(t) : t[i] = q[i + 1]
    BY <2>0, TailFacts
  <2> HIDE DEF t
  <2>3. /\ Append(t, x) \in Seq(S)
        /\ Len(Append(t, x)) = Len(t) + 1
        /\ Append(t, x)[Len(t) + 1] = x
        /\ \A i \in 1 .. Len(t) : Append(t, x)[i] = t[i]
    BY <2>2
  <2>4. WITNESS 1 \in {0, 1}
  <2> QED BY <2>1, <2>2, <2>3, <1>0, <1>2
<1> QED BY <1>0, <1>1, <1>2

-----------------------------------------------------------------------------
(* Types.                                                                   *)

\* At first the types hold.
LEMMA InitTypeOK == Init => TypeOK
<1> SUFFICES ASSUME Init PROVE TypeOK
  OBVIOUS
<1> USE ReqResAssumption DEF ReqResAssumption
<1>1. /\ <<>> \in Seq(Requests) /\ Len(<<>>) = 0
      /\ <<>> \in Seq(Responses)
  OBVIOUS
<1>2. DOMAIN NoEntries = {} /\ NoEntries \in [{} -> Requests]
  BY DEF NoEntries
<1>3. /\ DOMAIN payloadMap \subseteq SequenceNumbers
      /\ payloadMap \in [DOMAIN payloadMap -> Requests]
  <2>1. payloadMap = NoEntries
    BY DEF Init
  <2> QED BY <1>2, <2>1
<1>4. /\ respQueue \in [Clients -> Seq(Responses)]
      /\ \A c \in Clients : Len(respQueue[c]) <= QueueDepth
  BY <1>1 DEF Init
<1>5. /\ sequenceId \in [Clients -> 0 .. MaxSeq]
      /\ respHeld \in [Clients -> 0 .. MaxHeld]
  BY DEF Init
<1>6. /\ connection \in [Clients -> ConnectionStates]
      /\ delivered \in [Clients -> Seq(Responses)]
  BY <1>1 DEF Init, ConnectionStates
<1>7. /\ reqQueue \in Seq(Requests)
      /\ Len(reqQueue) <= QueueDepth
  <2>1. reqQueue = <<>>
    BY DEF Init
  <2> QED BY <1>1, <2>1
<1>8. /\ offered \in BOOLEAN
      /\ held \subseteq Requests
      /\ pending \subseteq Requests
  BY DEF Init
<1> QED BY <1>3, <1>4, <1>5, <1>6, <1>7, <1>8 DEF TypeOK

\* A number a client can still draw makes a well-formed request.
LEMMA NextRequestType ==
  ASSUME TypeOK, NEW c \in Clients, sequenceId[c] < MaxSeq
  PROVE  /\ NextRequest(c) \in Requests
         /\ sequenceId[c] + 1 \in 0 .. MaxSeq
  BY ReqResAssumption
  DEF TypeOK, NextRequest, Requests, SequenceNumbers, ReqResAssumption

\* Inserting and erasing keep a map a map.
LEMMA InsertType ==
  ASSUME NEW m, m \in [DOMAIN m -> Requests], NEW s, NEW r \in Requests
  PROVE  /\ DOMAIN Insert(m, s, r) = DOMAIN m \cup {s}
         /\ Insert(m, s, r) \in [DOMAIN m \cup {s} -> Requests]
         /\ Insert(m, s, r)[s] = r
         /\ \A k \in DOMAIN m : k # s => Insert(m, s, r)[k] = m[k]
  BY DEF Insert

\* What is erased from a map is no key of it, and the rest is as it was.
LEMMA EraseType ==
  ASSUME NEW m, m \in [DOMAIN m -> Requests], NEW s
  PROVE  /\ DOMAIN Erase(m, s) = DOMAIN m \ {s}
         /\ Erase(m, s) \in [DOMAIN m \ {s} -> Requests]
         /\ \A k \in DOMAIN m \ {s} : Erase(m, s)[k] = m[k]
  BY DEF Erase

\* Every step preserves the types.
LEMMA StepTypeOK == TypeOK /\ [Next]_vars => TypeOK'
<1> SUFFICES ASSUME TypeOK, [Next]_vars PROVE TypeOK'
  OBVIOUS
<1> USE DEF serverVars, clientVars
<1>1. CASE UNCHANGED vars
  BY <1>1 DEF TypeOK, vars
<1>2. CASE CreateService
  BY <1>2 DEF TypeOK, CreateService
<1>3. CASE DestroyService
  <2>1. DOMAIN NoEntries = {} /\ NoEntries \in [{} -> Requests]
    BY DEF NoEntries
  <2>2. connection' \in [Clients -> ConnectionStates]
    BY <1>3 DEF TypeOK, DestroyService, ConnectionStates
  <2>3. /\ reqQueue' \in Seq(Requests)
        /\ Len(reqQueue') <= QueueDepth
    BY <1>3, ReqResAssumption DEF DestroyService, ReqResAssumption
  <2> QED BY <1>3, <2>1, <2>2, <2>3 DEF TypeOK, DestroyService
<1>4. ASSUME NEW c \in Clients, ClientLife(c) PROVE TypeOK'
  <2>1. CASE CreateClient(c)
    BY <2>1 DEF TypeOK, CreateClient, ConnectionStates
  <2>2. CASE Connect(c)
    BY <2>2 DEF TypeOK, Connect, ConnectionStates
  <2>3. CASE DestroyClient(c)
    <3>1. respQueue' \in [Clients -> Seq(Responses)]
      BY <2>3 DEF TypeOK, DestroyClient
    <3>2. \A d \in Clients : Len(respQueue'[d]) <= QueueDepth
      BY <2>3, ReqResAssumption DEF TypeOK, DestroyClient, ReqResAssumption
    <3>3. respHeld' \in [Clients -> 0 .. MaxHeld]
      BY <2>3, ReqResAssumption DEF TypeOK, DestroyClient, ReqResAssumption
    <3>4. connection' \in [Clients -> ConnectionStates]
      BY <2>3 DEF TypeOK, DestroyClient, ConnectionStates
    <3> QED BY <2>3, <3>1, <3>2, <3>3, <3>4 DEF TypeOK, DestroyClient
  <2> QED BY <1>4, <2>1, <2>2, <2>3 DEF ClientLife
<1>5. ASSUME NEW c \in Clients, ClientSends(c) PROVE TypeOK'
  <2>1. CASE SendRequest(c)
    <3>1. NextRequest(c) \in Requests /\ sequenceId[c] + 1 \in 0 .. MaxSeq
      BY <2>1, NextRequestType DEF SendRequest
    <3>2. reqQueue' \in Seq(Requests) /\ Len(reqQueue') <= QueueDepth
      BY <2>1, <3>1, PushFacts DEF Pushed, TypeOK, SendRequest
    <3> QED BY <2>1, <3>1, <3>2 DEF TypeOK, SendRequest
  <2>2. CASE SendRequestFails(c)
    <3>1. sequenceId[c] + 1 \in 0 .. MaxSeq
      BY <2>2, NextRequestType DEF SendRequestFails
    <3> QED BY <2>2, <3>1 DEF TypeOK, SendRequestFails
  <2> QED BY <1>5, <2>1, <2>2 DEF ClientSends
<1>6. CASE ServerTakes
  <2>1. reqQueue # <<>> /\ reqQueue' = Tail(reqQueue)
    BY <1>6 DEF ServerTakes, TakeRequest, TakeRequestDuplicate,
       TakeRequestBreaksOff, TakeRequestPortFull, TakesChunk, CanTakeRequest
  <2>2. Head(reqQueue) \in Requests
    BY <2>1, TailFacts DEF TypeOK
  <2>3. /\ reqQueue' \in Seq(Requests)
        /\ Len(reqQueue') <= QueueDepth
    BY <2>1, TailFacts, ReqResAssumption DEF TypeOK, ReqResAssumption
  <2>4. CASE TakeRequest
    <3>1. /\ DOMAIN payloadMap' \subseteq SequenceNumbers
          /\ payloadMap' \in [DOMAIN payloadMap' -> Requests]
      <4> DEFINE s == Head(reqQueue).seq
      <4>1. payloadMap \in [DOMAIN payloadMap -> Requests]
        BY DEF TypeOK
      <4>2. /\ DOMAIN payloadMap' = DOMAIN payloadMap \cup {s}
            /\ payloadMap' \in [DOMAIN payloadMap \cup {s} -> Requests]
        <5>1. \A q \in Requests :
                /\ DOMAIN Insert(payloadMap, q.seq, q) = DOMAIN payloadMap \cup {q.seq}
                /\ Insert(payloadMap, q.seq, q) \in
                     [DOMAIN payloadMap \cup {q.seq} -> Requests]
          BY <4>1 DEF Insert
        <5> QED BY <2>2, <2>4, <5>1 DEF TakeRequest
      <4>3. s \in SequenceNumbers
        BY <2>2 DEF Requests
      <4>4. DOMAIN payloadMap' \subseteq SequenceNumbers
        BY <4>2, <4>3 DEF TypeOK
      <4> HIDE DEF s
      <4>5. payloadMap' \in [DOMAIN payloadMap' -> Requests]
        BY <4>2
      <4> QED BY <4>4, <4>5
    <3> QED BY <2>2, <2>3, <2>4, <3>1 DEF TypeOK, TakeRequest, TakesChunk
  <2>5. CASE TakeRequestDuplicate
    BY <2>2, <2>3, <2>5 DEF TypeOK, TakeRequestDuplicate, TakesChunk
  <2>6. CASE TakeRequestBreaksOff
    BY <2>2, <2>3, <2>6 DEF TypeOK, TakeRequestBreaksOff, TakesChunk
  <2>7. CASE TakeRequestPortFull
    BY <2>3, <2>7 DEF TypeOK, TakeRequestPortFull
  <2> QED BY <1>6, <2>4, <2>5, <2>6, <2>7 DEF ServerTakes
<1>7. ASSUME NEW r \in Requests, ServerAnswers(r) PROVE TypeOK'
  <2>1. ASSUME r.seq \in DOMAIN payloadMap, ReleaseAndErase(r.seq)
        PROVE  /\ held' \subseteq Requests
               /\ DOMAIN payloadMap' \subseteq SequenceNumbers
               /\ payloadMap' \in [DOMAIN payloadMap' -> Requests]
    <3>1. payloadMap \in [DOMAIN payloadMap -> Requests]
      BY DEF TypeOK
    <3>2. /\ DOMAIN payloadMap' = DOMAIN payloadMap \ {r.seq}
          /\ payloadMap' \in [DOMAIN payloadMap \ {r.seq} -> Requests]
      BY <2>1, <3>1, EraseType DEF ReleaseAndErase
    <3>3. DOMAIN payloadMap' \subseteq SequenceNumbers
      BY <3>2 DEF TypeOK
    <3>4. payloadMap' \in [DOMAIN payloadMap' -> Requests]
      BY <3>2
    <3>5. held' \subseteq Requests
      BY <2>1 DEF TypeOK, ReleaseAndErase
    <3> QED BY <3>3, <3>4, <3>5
  <2>2. CASE SendResponse(r)
    <3> DEFINE chunk == payloadMap[r.seq]
               resp == [seq |-> chunk.seq, answers |-> r]
    <3>1. chunk \in Requests
      BY <2>2 DEF TypeOK, SendResponse
    <3>2. chunk.client \in Clients /\ resp \in Responses
      BY <3>1 DEF Requests, Responses
    <3>3. /\ Push(respQueue[chunk.client], resp) \in Seq(Responses)
          /\ Len(Push(respQueue[chunk.client], resp)) <= QueueDepth
      BY <3>2, PushFacts DEF Pushed, TypeOK
    <3>4. respQueue' = [respQueue EXCEPT ![chunk.client] =
                          Push(respQueue[chunk.client], resp)]
      BY <2>2 DEF SendResponse
    <3> HIDE DEF chunk, resp
    <3>5. /\ respQueue' \in [Clients -> Seq(Responses)]
          /\ \A c \in Clients : Len(respQueue'[c]) <= QueueDepth
      BY <3>2, <3>3, <3>4 DEF TypeOK
    <3> QED BY <2>1, <2>2, <3>5 DEF TypeOK, SendResponse
  <2>3. CASE SendResponseFails(r)
    BY <2>1, <2>3 DEF TypeOK, SendResponseFails
  <2>4. CASE SendResponseThrows(r) \/ SendResponseNotFound(r)
    BY <2>4 DEF TypeOK, SendResponseThrows, SendResponseNotFound
  <2> QED BY <1>7, <2>2, <2>3, <2>4 DEF ServerAnswers
<1>8. ASSUME NEW c \in Clients, ClientTakes(c) PROVE TypeOK'
  <2>1. /\ respQueue[c] # <<>> /\ respQueue[c] \in Seq(Responses)
        /\ respQueue' = [respQueue EXCEPT ![c] = Tail(respQueue[c])]
    BY <1>8 DEF TypeOK, ClientTakes, TakeResponse, TakeResponseOutdated,
       TakeResponseBreaksOff, TakeResponsePortFull, TakesResponse
  <2>2. /\ Tail(respQueue[c]) \in Seq(Responses)
        /\ Len(Tail(respQueue[c])) <= QueueDepth
        /\ Head(respQueue[c]) \in Responses
    BY <2>1, TailFacts, ReqResAssumption DEF TypeOK, ReqResAssumption
  <2>3. /\ respQueue' \in [Clients -> Seq(Responses)]
        /\ \A d \in Clients : Len(respQueue'[d]) <= QueueDepth
    BY <2>1, <2>2 DEF TypeOK
  <2>4. CASE TakeResponse(c)
    <3>1. Append(delivered[c], Head(respQueue[c])) \in Seq(Responses)
      BY <2>2 DEF TypeOK
    <3> QED BY <2>3, <2>4, <3>1 DEF TypeOK, TakeResponse
  <2>5. CASE TakeResponseOutdated(c)
    BY <2>3, <2>5 DEF TypeOK, TakeResponseOutdated
  <2>6. CASE TakeResponseBreaksOff(c)
    <3>1. /\ respHeld[c] < MaxHeld
          /\ respHeld' = [respHeld EXCEPT ![c] = @ + 1]
          /\ UNCHANGED <<connection, sequenceId, offered, reqQueue, held, payloadMap,
                         pending, delivered>>
      BY <2>6 DEF TakeResponseBreaksOff, serverVars
    <3>2. respHeld[c] + 1 \in 0 .. MaxHeld
      BY <3>1, ReqResAssumption DEF ReqResAssumption, TypeOK
    <3> QED BY <2>3, <3>1, <3>2 DEF TypeOK
  <2>7. CASE TakeResponsePortFull(c)
    BY <2>3, <2>7 DEF TypeOK, TakeResponsePortFull
  <2> QED BY <1>8, <2>4, <2>5, <2>6, <2>7 DEF ClientTakes
<1> QED BY <1>1, <1>2, <1>3, <1>4, <1>5, <1>6, <1>7, <1>8 DEF Next, ServiceLife

\* Every reachable state is well typed; in particular no queue outgrows the qos
\* depth and no number beyond the counters is ever used.
THEOREM TypeCorrect == Spec => []TypeOK
<1>1. Init => TypeOK
  BY InitTypeOK
<1>2. TypeOK /\ [Next]_vars => TypeOK'
  BY StepTypeOK
<1> QED BY <1>1, <1>2, PTL DEF Spec

-----------------------------------------------------------------------------
(* The application gets and sends what it should.  The map, the chunks the  *)
(* port holds and the requests the application works on stay in step as     *)
(* long as an application does not answer a request whose entry is gone.    *)

MapInv == ResponseMatchesRequest /\ PendingIsAnswerable /\ NoDanglingPointer

\* A queue of answers stays one when it is shortened or gains an answer.
LEMMA AnswersTail ==
  ASSUME NEW c, NEW q \in Seq(Responses), q # <<>>, AnswerOwnRequests(c, q)
  PROVE  /\ AnswerOwnRequests(c, Tail(q))
         /\ Head(q).answers = [client |-> c, seq |-> Head(q).seq]
  BY TailFacts DEF AnswerOwnRequests

\* A response that answers its own request, pushed to such responses.
LEMMA AnswersPush ==
  ASSUME NEW c, NEW q \in Seq(Responses), Len(q) <= QueueDepth, AnswerOwnRequests(c, q),
         NEW x \in Responses, x.answers = [client |-> c, seq |-> x.seq]
  PROVE  AnswerOwnRequests(c, Push(q, x))
<1> DEFINE p == Push(q, x)
<1>1. PICK shift \in {0, 1} :
        /\ Len(p) \in Nat
        /\ p[Len(p)] = x
        /\ \A i \in 1 .. Len(p) - 1 : i + shift \in 1 .. Len(q) /\ p[i] = q[i + shift]
  BY PushFacts DEF Pushed
<1> SUFFICES ASSUME NEW i \in 1 .. Len(p)
             PROVE  p[i].answers = [client |-> c, seq |-> p[i].seq]
  BY DEF AnswerOwnRequests
<1> HIDE DEF p
<1>2. CASE i = Len(p)
  BY <1>1, <1>2
<1>3. CASE i \in 1 .. Len(p) - 1
  BY <1>1, <1>3 DEF AnswerOwnRequests
<1> QED BY <1>1, <1>2, <1>3

\* The same of one that is delivered.
LEMMA AnswersAppend ==
  ASSUME NEW c, NEW q \in Seq(Responses), AnswerOwnRequests(c, q),
         NEW x \in Responses, x.answers = [client |-> c, seq |-> x.seq]
  PROVE  AnswerOwnRequests(c, Append(q, x))
<1>1. /\ Len(Append(q, x)) = Len(q) + 1
      /\ Append(q, x)[Len(q) + 1] = x
      /\ \A i \in 1 .. Len(q) : Append(q, x)[i] = q[i]
      /\ Len(q) \in Nat
  OBVIOUS
<1> QED BY <1>1 DEF AnswerOwnRequests

\* Every step preserves what the map says, if failed responses are not sent again.
LEMMA StepMapInv ==
  ASSUME ~AppRetries, TypeOK, MapInv, [Next]_vars
  PROVE  MapInv'
<1> USE DEF serverVars, clientVars
<1>0. /\ ResponseMatchesRequest /\ PendingIsAnswerable /\ NoDanglingPointer
      /\ payloadMap \in [DOMAIN payloadMap -> Requests]
      /\ pending \subseteq Requests
      /\ \A c \in Clients : /\ respQueue[c] \in Seq(Responses)
                            /\ Len(respQueue[c]) <= QueueDepth
                            /\ delivered[c] \in Seq(Responses)
  BY DEF MapInv, TypeOK
<1>a. ASSUME UNCHANGED <<held, payloadMap, pending>>
      PROVE  PendingIsAnswerable' /\ NoDanglingPointer'
  BY <1>a, <1>0 DEF PendingIsAnswerable, NoDanglingPointer
<1>b. ASSUME UNCHANGED <<respQueue, delivered>> PROVE ResponseMatchesRequest'
  BY <1>b, <1>0 DEF ResponseMatchesRequest, AnswerOwnRequests
<1>1. CASE UNCHANGED vars
  BY <1>1, <1>a, <1>b DEF MapInv, vars
<1>2. CASE CreateService
  BY <1>2, <1>a, <1>b DEF MapInv, CreateService
<1>3. CASE DestroyService
  <2>1. PendingIsAnswerable' /\ NoDanglingPointer'
    BY <1>3 DEF DestroyService, PendingIsAnswerable, NoDanglingPointer, NoEntries
  <2> QED BY <1>3, <1>b, <2>1 DEF MapInv, DestroyService
<1>4. ASSUME NEW c \in Clients, ClientLife(c) PROVE MapInv'
  <2>1. PendingIsAnswerable' /\ NoDanglingPointer'
    BY <1>4, <1>a DEF ClientLife, CreateClient, Connect, DestroyClient
  <2>2. CASE CreateClient(c) \/ Connect(c)
    BY <2>2, <1>b, <2>1 DEF MapInv, CreateClient, Connect
  <2>3. CASE DestroyClient(c)
    <3>1. \A d \in Clients : /\ respQueue'[d] = IF d = c THEN <<>> ELSE respQueue[d]
                             /\ delivered'[d] = delivered[d]
      BY <2>3 DEF DestroyClient, TypeOK
    <3>2. AnswerOwnRequests(c, <<>>)
      BY DEF AnswerOwnRequests
    <3>3. ResponseMatchesRequest'
      BY <1>0, <3>1, <3>2 DEF ResponseMatchesRequest, AnswerOwnRequests
    <3> QED BY <2>1, <3>3 DEF MapInv
  <2> QED BY <1>4, <2>2, <2>3 DEF ClientLife
<1>5. ASSUME NEW c \in Clients, ClientSends(c) PROVE MapInv'
  BY <1>5, <1>a, <1>b DEF MapInv, ClientSends, SendRequest, SendRequestFails
<1>6. CASE ServerTakes
  <2>0. ResponseMatchesRequest'
    BY <1>6, <1>b DEF ServerTakes, TakeRequest, TakeRequestDuplicate,
       TakeRequestBreaksOff, TakeRequestPortFull
  <2>1. CASE TakeRequest
    <3> DEFINE q == Head(reqQueue)
    <3>1. /\ held' = held \cup {q}
          /\ q.seq \notin DOMAIN payloadMap
          /\ payloadMap' = Insert(payloadMap, q.seq, q)
          /\ pending' = pending \cup {q}
      BY <2>1 DEF TakeRequest, TakesChunk
    <3> HIDE DEF q
    <3>2. /\ DOMAIN payloadMap' = DOMAIN payloadMap \cup {q.seq}
          /\ payloadMap'[q.seq] = q
          /\ \A s \in DOMAIN payloadMap : payloadMap'[s] = payloadMap[s]
      BY <3>1 DEF Insert
    <3>3. NoDanglingPointer'
      BY <1>0, <3>1, <3>2 DEF NoDanglingPointer
    <3>4. PendingIsAnswerable'
      BY <1>0, <3>1, <3>2 DEF PendingIsAnswerable
    <3> QED BY <2>0, <3>3, <3>4 DEF MapInv
  <2>2. CASE TakeRequestDuplicate \/ TakeRequestBreaksOff
    <3>1. held \subseteq held' /\ UNCHANGED <<payloadMap, pending>>
      BY <2>2 DEF TakeRequestDuplicate, TakeRequestBreaksOff, TakesChunk
    <3>2. PendingIsAnswerable' /\ NoDanglingPointer'
      BY <1>0, <3>1 DEF PendingIsAnswerable, NoDanglingPointer
    <3> QED BY <2>0, <3>2 DEF MapInv
  <2>3. CASE TakeRequestPortFull
    BY <2>0, <2>3, <1>a DEF MapInv, TakeRequestPortFull
  <2> QED BY <1>6, <2>1, <2>2, <2>3 DEF ServerTakes
<1>7. ASSUME NEW r \in Requests, ServerAnswers(r) PROVE MapInv'
  <2>0. r \in pending
    BY <1>7 DEF ServerAnswers, SendResponse, SendResponseFails, SendResponseThrows,
       SendResponseNotFound
  <2>1. r.seq \in DOMAIN payloadMap /\ payloadMap[r.seq] = r
    BY <1>0, <2>0 DEF PendingIsAnswerable
  <2>2. ASSUME ReleaseAndErase(r.seq), pending' = pending \ {r}
        PROVE  PendingIsAnswerable' /\ NoDanglingPointer'
    <3>1. /\ DOMAIN payloadMap' = DOMAIN payloadMap \ {r.seq}
          /\ \A s \in DOMAIN payloadMap \ {r.seq} : payloadMap'[s] = payloadMap[s]
          /\ held' = held \ {r}
      BY <2>1, <2>2 DEF ReleaseAndErase, Erase
    <3>2. NoDanglingPointer'
      BY <1>0, <3>1 DEF NoDanglingPointer
    <3>3. \A x \in pending' : x \in pending /\ x # r /\ x.seq # r.seq
      BY <1>0, <2>1, <2>2 DEF PendingIsAnswerable
    <3>4. PendingIsAnswerable'
      BY <1>0, <3>1, <3>3 DEF PendingIsAnswerable
    <3> QED BY <3>2, <3>4
  <2>3. CASE SendResponse(r)
    <3> DEFINE resp == [seq |-> r.seq, answers |-> r]
    <3>1. respQueue' = [respQueue EXCEPT ![r.client] = Push(respQueue[r.client], resp)]
      BY <2>1, <2>3 DEF SendResponse
    <3>2. /\ r.client \in Clients /\ resp \in Responses
          /\ resp.answers = [client |-> r.client, seq |-> resp.seq]
      BY DEF Requests, Responses
    <3>3. AnswerOwnRequests(r.client, Push(respQueue[r.client], resp))
      BY <1>0, <3>2, AnswersPush DEF ResponseMatchesRequest
    <3> HIDE DEF resp
    <3>4. \A c \in Clients :
            /\ respQueue'[c] = IF c = r.client THEN Push(respQueue[c], resp) ELSE respQueue[c]
            /\ delivered'[c] = delivered[c]
      BY <2>3, <3>1 DEF SendResponse, TypeOK
    <3>5. \A c \in Clients : /\ AnswerOwnRequests(c, respQueue'[c])
                             /\ AnswerOwnRequests(c, delivered'[c])
      BY <1>0, <3>3, <3>4 DEF ResponseMatchesRequest
    <3>6. ResponseMatchesRequest'
      BY <3>5 DEF ResponseMatchesRequest, AnswerOwnRequests
    <3> QED BY <2>2, <2>3, <3>6 DEF MapInv, SendResponse
  <2>4. CASE SendResponseFails(r)
    BY <2>2, <2>4, <1>b DEF MapInv, SendResponseFails
  <2>5. CASE SendResponseThrows(r)
    <3>1. PendingIsAnswerable' /\ NoDanglingPointer'
      BY <1>0, <2>5 DEF SendResponseThrows, PendingIsAnswerable, NoDanglingPointer
    <3> QED BY <2>5, <3>1, <1>b DEF MapInv, SendResponseThrows
  <2>6. CASE SendResponseNotFound(r)
    BY <2>1, <2>6 DEF SendResponseNotFound
  <2> QED BY <1>7, <2>3, <2>4, <2>5, <2>6 DEF ServerAnswers
<1>8. ASSUME NEW c \in Clients, ClientTakes(c) PROVE MapInv'
  <2>1. PendingIsAnswerable' /\ NoDanglingPointer'
    BY <1>8, <1>a DEF ClientTakes, TakeResponse, TakeResponseOutdated,
       TakeResponseBreaksOff, TakeResponsePortFull
  <2>2. /\ respQueue[c] # <<>>
        /\ respQueue' = [respQueue EXCEPT ![c] = Tail(respQueue[c])]
    BY <1>8 DEF ClientTakes, TakeResponse, TakeResponseOutdated,
       TakeResponseBreaksOff, TakeResponsePortFull, TakesResponse
  <2>3. /\ AnswerOwnRequests(c, Tail(respQueue[c]))
        /\ Head(respQueue[c]).answers = [client |-> c, seq |-> Head(respQueue[c]).seq]
        /\ Head(respQueue[c]) \in Responses
    BY <1>0, <2>2, AnswersTail, TailFacts DEF ResponseMatchesRequest
  <2>4. \A d \in Clients :
          respQueue'[d] = IF d = c THEN Tail(respQueue[c]) ELSE respQueue[d]
    BY <2>2 DEF TypeOK
  <2>5. CASE TakeResponse(c)
    <3>1. AnswerOwnRequests(c, Append(delivered[c], Head(respQueue[c])))
      BY <1>0, <2>3, AnswersAppend DEF ResponseMatchesRequest
    <3>2. \A d \in Clients : delivered'[d] =
            IF d = c THEN Append(delivered[c], Head(respQueue[c])) ELSE delivered[d]
      BY <2>5 DEF TakeResponse, TypeOK
    <3>3. ResponseMatchesRequest'
      <4>1. \A d \in Clients : /\ AnswerOwnRequests(d, respQueue'[d])
                               /\ AnswerOwnRequests(d, delivered'[d])
        BY <1>0, <2>3, <2>4, <3>1, <3>2 DEF ResponseMatchesRequest
      <4> QED BY <4>1 DEF ResponseMatchesRequest, AnswerOwnRequests
    <3> QED BY <2>1, <3>3 DEF MapInv
  <2>6. CASE TakeResponseOutdated(c) \/ TakeResponseBreaksOff(c) \/ TakeResponsePortFull(c)
    <3>1. UNCHANGED delivered
      BY <2>6 DEF TakeResponseOutdated, TakeResponseBreaksOff, TakeResponsePortFull
    <3>2. ResponseMatchesRequest'
      <4>1. \A d \in Clients : /\ AnswerOwnRequests(d, respQueue'[d])
                               /\ AnswerOwnRequests(d, delivered'[d])
        BY <1>0, <2>3, <2>4, <3>1 DEF ResponseMatchesRequest
      <4> QED BY <4>1 DEF ResponseMatchesRequest, AnswerOwnRequests
    <3> QED BY <2>1, <3>2 DEF MapInv
  <2> QED BY <1>8, <2>5, <2>6 DEF ClientTakes
<1> QED BY <1>1, <1>2, <1>3, <1>4, <1>5, <1>6, <1>7, <1>8 DEF Next, ServiceLife

\* At first the map is empty.
LEMMA InitMapInv == Init => MapInv
<1> SUFFICES ASSUME Init PROVE MapInv
  OBVIOUS
<1>1. \A c \in Clients : respQueue[c] = <<>> /\ delivered[c] = <<>>
  BY DEF Init
<1>2. ResponseMatchesRequest
  BY <1>1 DEF ResponseMatchesRequest, AnswerOwnRequests
<1>3. PendingIsAnswerable /\ NoDanglingPointer
  BY DEF Init, PendingIsAnswerable, NoDanglingPointer, NoEntries
<1> QED BY <1>2, <1>3 DEF MapInv

\* What the map says holds in every state.
LEMMA MapInvariant ==
  ASSUME ~AppRetries
  PROVE  Spec => []MapInv
<1>1. Init => TypeOK /\ MapInv
  BY InitTypeOK, InitMapInv
<1>2. TypeOK /\ MapInv /\ [Next]_vars => (TypeOK /\ MapInv)'
  BY StepTypeOK, StepMapInv
<1> QED BY <1>1, <1>2, PTL DEF Spec

\* Every response queued for or taken by a client is the application's answer to
\* that client's request of the same number.
THEOREM ResponsesCorrect ==
  ASSUME ~AppRetries
  PROVE  Spec => []ResponseMatchesRequest
<1>1. MapInv => ResponseMatchesRequest
  BY DEF MapInv
<1> QED BY <1>1, MapInvariant, PTL

\* rmw_send_response finds, for every request the application was given, the chunk
\* of that very request, still held by the port.
THEOREM RequestsAnswerable ==
  ASSUME ~AppRetries
  PROVE  Spec => []PendingIsAnswerable
<1>1. MapInv => PendingIsAnswerable
  BY DEF MapInv
<1> QED BY <1>1, MapInvariant, PTL

\* Whatever is discarded, refused or out of date, request_payload_map_ only leads to
\* chunks that the port of the server still holds.
THEOREM NothingDangles ==
  ASSUME ~AppRetries
  PROVE  Spec => []NoDanglingPointer
<1>1. MapInv => NoDanglingPointer
  BY DEF MapInv
<1> QED BY <1>1, MapInvariant, PTL

-----------------------------------------------------------------------------
(* A service that answers each request before it takes the next one, where  *)
(* neither the clock nor a conversion fails.                                *)

\* The application works on one request, and it is all that the map leads to and the
\* port holds.
SyncInv ==
  /\ pending = {} \/ \E r \in Requests : pending = {r}
  /\ \A s \in DOMAIN payloadMap : payloadMap[s] \in pending /\ payloadMap[s].seq = s
  /\ HeldForItsResponse

\* Nothing is mapped or held when the next request is taken, so no number collides.
LEMMA TakeRequestSyncInv ==
  ASSUME MaxPending = 1, TypeOK, SyncInv, TakeRequest \/ TakeRequestDuplicate
  PROVE  SyncInv'
<1> DEFINE q == Head(reqQueue)
<1>1. q \in Requests
  BY TailFacts DEF TakeRequest, TakeRequestDuplicate, TakesChunk, CanTakeRequest, TypeOK
<1>2. pending = {}
  <2>1. Cardinality(pending) < 1
    BY DEF TakeRequest, TakeRequestDuplicate, TakesChunk, CanTakeRequest
  <2>2. \A r \in Requests : Cardinality({r}) = 1
    BY FS_Singleton
  <2>3. \A r \in Requests : pending # {r}
    BY <2>1, <2>2
  <2> QED BY <2>3 DEF SyncInv
<1>3. DOMAIN payloadMap = {} /\ held = {}
  BY <1>2 DEF SyncInv, HeldForItsResponse, Mapped
<1>4. /\ held' = {q}
      /\ pending' = {q}
      /\ payloadMap' = Insert(payloadMap, q.seq, q)
  BY <1>2, <1>3 DEF TakeRequest, TakeRequestDuplicate, TakesChunk
<1> HIDE DEF q
<1>5. DOMAIN payloadMap' = {q.seq} /\ payloadMap'[q.seq] = q
  BY <1>3, <1>4 DEF Insert
<1> QED BY <1>1, <1>4, <1>5 DEF SyncInv, HeldForItsResponse, Mapped

\* A request that is answered, or failed to be, was the only one.
LEMMA AnswerSyncInv ==
  ASSUME "serialize" \notin Faults, SyncInv, NEW r \in Requests, ServerAnswers(r)
  PROVE  SyncInv'
<1>1. r \in pending /\ pending = {r}
  BY DEF ServerAnswers, SendResponse, SendResponseFails, SendResponseThrows,
       SendResponseNotFound, SyncInv
<1>2. pending' = {} \/ pending' = {r}
  BY <1>1 DEF ServerAnswers, SendResponse, SendResponseFails, SendResponseThrows,
       SendResponseNotFound
<1>3. CASE SendResponse(r) \/ SendResponseFails(r)
  <2>1. payloadMap[r.seq] = r /\ DOMAIN payloadMap = {r.seq}
    BY <1>1, <1>3 DEF SendResponse, SendResponseFails, SyncInv
  <2>2. held \subseteq {r}
    BY <2>1 DEF SyncInv, HeldForItsResponse, Mapped
  <2>3. /\ held' = held \ {payloadMap[r.seq]}
        /\ payloadMap' = Erase(payloadMap, r.seq)
    BY <1>3 DEF SendResponse, SendResponseFails, ReleaseAndErase
  <2>4. held' = {} /\ DOMAIN payloadMap' = {}
    BY <2>1, <2>2, <2>3 DEF Erase
  <2> QED BY <1>2, <2>4 DEF SyncInv, HeldForItsResponse
<1>4. CASE SendResponseNotFound(r)
  <2>1. DOMAIN payloadMap = {}
    BY <1>1, <1>4 DEF SendResponseNotFound, SyncInv
  <2> QED BY <1>2, <1>4, <2>1 DEF SendResponseNotFound, SyncInv, HeldForItsResponse, Mapped
<1> QED BY <1>3, <1>4, ServerAnswers(r) DEF ServerAnswers, SendResponseThrows

\* With one request at a time every step leaves at most that one in the map.
LEMMA StepSyncInv ==
  ASSUME MaxPending = 1, Faults \subseteq {"loan", "send"}, TypeOK, SyncInv, [Next]_vars
  PROVE  SyncInv'
<1>1. CASE UNCHANGED <<held, payloadMap, pending>>
  BY <1>1 DEF SyncInv, HeldForItsResponse, Mapped
<1>2. CASE DestroyService
  BY <1>2 DEF DestroyService, NoEntries, SyncInv, HeldForItsResponse, Mapped
<1>3. CASE ServerTakes
  BY <1>1, <1>3, TakeRequestSyncInv
  DEF ServerTakes, TakeRequestBreaksOff, TakeRequestPortFull
<1>4. CASE \E r \in Requests : ServerAnswers(r)
  BY <1>4, AnswerSyncInv
<1>5. CASE CreateService \/ \E c \in Clients : ClientLife(c) \/ ClientSends(c) \/ ClientTakes(c)
  BY <1>1, <1>5
  DEF CreateService, ClientLife, CreateClient, Connect, DestroyClient, ClientSends,
      SendRequest, SendRequestFails, ClientTakes, TakeResponse, TakeResponseOutdated,
      TakeResponseBreaksOff, TakeResponsePortFull, serverVars
<1> QED
  BY <1>1, <1>2, <1>3, <1>4, <1>5 DEF Next, ServiceLife, vars, serverVars

\* What the port of a synchronous service holds is held for the response to come, also
\* when responses fail and the application sends them again.
THEOREM HeldUntilAnswered ==
  ASSUME MaxPending = 1, Faults \subseteq {"loan", "send"}
  PROVE  Spec => []HeldForItsResponse
<1>1. Init => SyncInv
  BY DEF Init, NoEntries, SyncInv, HeldForItsResponse
<1>2. TypeOK /\ SyncInv /\ [Next]_vars => SyncInv'
  BY StepSyncInv
<1>3. SyncInv => HeldForItsResponse
  BY DEF SyncInv
<1> QED BY <1>1, <1>2, <1>3, TypeCorrect, PTL DEF Spec

-----------------------------------------------------------------------------
(* What the queue operators do to the elements of a queue and to the        *)
(* numbers of a queue of responses.                                         *)

\* The first of a queue without repetitions is no longer in it when it is taken.
LEMMA TailElements ==
  ASSUME NEW S, NEW q \in Seq(S), q # <<>>, Distinct(q)
  PROVE  /\ Elements(Tail(q)) = Elements(q) \ {Head(q)}
         /\ Head(q) \in Elements(q)
         /\ Distinct(Tail(q))
<1> DEFINE t == Tail(q)
<1>1. /\ Len(q) \in Nat \ {0}
      /\ Len(t) = Len(q) - 1
      /\ Head(q) = q[1]
      /\ \A i \in 1 .. Len(t) : t[i] = q[i + 1]
  BY TailFacts
<1> HIDE DEF t
<1>2. Head(q) \in Elements(q)
  BY <1>1 DEF Elements
<1>3. Elements(t) \subseteq Elements(q) \ {Head(q)}
  BY <1>1 DEF Elements, Distinct
<1>4. ASSUME NEW x \in Elements(q) \ {Head(q)} PROVE x \in Elements(t)
  <2>1. PICK i \in 1 .. Len(q) : x = q[i]
    BY DEF Elements
  <2>2. i - 1 \in 1 .. Len(t) /\ t[i - 1] = x
    BY <1>1, <1>4, <2>1
  <2> QED BY <2>2 DEF Elements
<1>5. Distinct(t)
  BY <1>1 DEF Distinct
<1> QED BY <1>2, <1>3, <1>4, <1>5 DEF t

\* Pushing a new element adds nothing else, and no repetition.
LEMMA PushElements ==
  ASSUME NEW S, NEW q \in Seq(S), NEW x \in S, Len(q) <= QueueDepth,
         Distinct(q), x \notin Elements(q)
  PROVE  /\ Elements(Push(q, x)) \subseteq Elements(q) \cup {x}
         /\ Distinct(Push(q, x))
<1> DEFINE p == Push(q, x)
<1>0. Pushed(S, q, x, p)
  BY PushFacts
<1> HIDE DEF p
<1>1. PICK shift \in {0, 1} :
        /\ Len(p) \in Nat
        /\ p[Len(p)] = x
        /\ \A i \in 1 .. Len(p) - 1 : i + shift \in 1 .. Len(q) /\ p[i] = q[i + shift]
  BY <1>0 DEF Pushed
<1>2. Elements(p) \subseteq Elements(q) \cup {x}
  <2> SUFFICES ASSUME NEW i \in 1 .. Len(p) PROVE p[i] \in Elements(q) \cup {x}
    BY DEF Elements
  <2>1. i = Len(p) \/ i \in 1 .. Len(p) - 1
    BY <1>1
  <2> QED BY <1>1, <2>1 DEF Elements
<1>3. Distinct(p)
  <2> SUFFICES ASSUME NEW i \in 1 .. Len(p), NEW j \in 1 .. Len(p), p[i] = p[j]
               PROVE  i = j
    BY DEF Distinct
  <2>1. \A k \in 1 .. Len(p) - 1 : p[k] # x
    BY <1>1 DEF Elements
  <2>2. CASE i \in 1 .. Len(p) - 1 /\ j \in 1 .. Len(p) - 1
    BY <1>1, <2>2 DEF Distinct
  <2> QED BY <1>1, <2>1, <2>2
<1> QED BY <1>2, <1>3 DEF p

\* The number of the first response is no longer in the queue when it is taken.
LEMMA TailNumbers ==
  ASSUME NEW q \in Seq(Responses), q # <<>>, DistinctNumbers(q)
  PROVE  /\ Numbers(Tail(q)) = Numbers(q) \ {Head(q).seq}
         /\ Head(q).seq \in Numbers(q)
         /\ DistinctNumbers(Tail(q))
<1> DEFINE t == Tail(q)
<1>1. /\ Len(q) \in Nat \ {0}
      /\ Len(t) = Len(q) - 1
      /\ Head(q) = q[1]
      /\ \A i \in 1 .. Len(t) : t[i] = q[i + 1]
  BY TailFacts
<1> HIDE DEF t
<1>2. Head(q).seq \in Numbers(q)
  BY <1>1 DEF Numbers
<1>3. Numbers(t) \subseteq Numbers(q) \ {Head(q).seq}
  BY <1>1 DEF Numbers, DistinctNumbers
<1>4. ASSUME NEW s \in Numbers(q) \ {Head(q).seq} PROVE s \in Numbers(t)
  <2>1. PICK i \in 1 .. Len(q) : s = q[i].seq
    BY DEF Numbers
  <2>2. i - 1 \in 1 .. Len(t) /\ t[i - 1].seq = s
    BY <1>1, <1>4, <2>1
  <2> QED BY <2>2 DEF Numbers
<1>5. DistinctNumbers(t)
  BY <1>1 DEF DistinctNumbers
<1> QED BY <1>2, <1>3, <1>4, <1>5 DEF t

\* Pushing a response of a new number adds that number, and no repetition.
LEMMA PushNumbers ==
  ASSUME NEW q \in Seq(Responses), NEW x \in Responses, Len(q) <= QueueDepth,
         DistinctNumbers(q), x.seq \notin Numbers(q)
  PROVE  /\ Numbers(Push(q, x)) \subseteq Numbers(q) \cup {x.seq}
         /\ x.seq \in Numbers(Push(q, x))
         /\ DistinctNumbers(Push(q, x))
<1> DEFINE p == Push(q, x)
<1>0. QueueDepth \in Nat \ {0} /\ Len(q) \in Nat
  BY ReqResAssumption DEF ReqResAssumption
<1>1. PICK shift \in {0, 1} :
        /\ Len(p) \in Nat
        /\ Len(p) = Len(q) + 1 - shift
        /\ p[Len(p)] = x
        /\ \A i \in 1 .. Len(p) - 1 : i + shift \in 1 .. Len(q) /\ p[i] = q[i + shift]
  BY PushFacts DEF Pushed
<1>a. Len(p) # 0
  <2>1. CASE Len(q) < QueueDepth
    BY <2>1, <1>0 DEF Push
  <2>2. CASE Len(q) = QueueDepth
    BY <2>2, <1>0, <1>1
  <2> QED BY <1>0, <2>1, <2>2
<1> HIDE DEF p
<1>2. Numbers(p) \subseteq Numbers(q) \cup {x.seq}
  <2> SUFFICES ASSUME NEW i \in 1 .. Len(p) PROVE p[i].seq \in Numbers(q) \cup {x.seq}
    BY DEF Numbers
  <2>1. i = Len(p) \/ i \in 1 .. Len(p) - 1
    BY <1>1
  <2> QED BY <1>1, <2>1 DEF Numbers
<1>3. DistinctNumbers(p)
  <2> SUFFICES ASSUME NEW i \in 1 .. Len(p), NEW j \in 1 .. Len(p), p[i].seq = p[j].seq
               PROVE  i = j
    BY DEF DistinctNumbers
  <2>1. \A k \in 1 .. Len(p) - 1 : p[k].seq # x.seq
    BY <1>1 DEF Numbers
  <2>2. CASE i \in 1 .. Len(p) - 1 /\ j \in 1 .. Len(p) - 1
    <3>1. q[i + shift].seq = q[j + shift].seq
      BY <1>1, <2>2
    <3>2. i + shift = j + shift
      BY <1>1, <2>2, <3>1 DEF DistinctNumbers
    <3> QED BY <3>2
  <2> QED BY <1>1, <2>1, <2>2
<1>4. x.seq \in Numbers(p)
  BY <1>1, <1>a DEF Numbers
<1> QED BY <1>2, <1>3, <1>4 DEF p

\* What is delivered has the numbers it had and the new one.
LEMMA AppendNumbers ==
  ASSUME NEW q \in Seq(Responses), NEW x \in Responses
  PROVE  Numbers(Append(q, x)) = Numbers(q) \cup {x.seq}
<1> DEFINE a == Append(q, x)
<1>1. /\ Len(a) = Len(q) + 1
      /\ a[Len(q) + 1] = x
      /\ \A i \in 1 .. Len(q) : a[i] = q[i]
      /\ Len(q) \in Nat
  OBVIOUS
<1> HIDE DEF a
<1>2. Numbers(a) \subseteq Numbers(q) \cup {x.seq}
  BY <1>1 DEF Numbers
<1>3. Numbers(q) \subseteq Numbers(a) /\ x.seq \in Numbers(a)
  BY <1>1 DEF Numbers
<1> QED BY <1>2, <1>3 DEF a

-----------------------------------------------------------------------------
(* Every step loses requests and responses or, besides, issues, answers or  *)
(* returns one request.                                                     *)

OthersLost ==
  /\ Open' \subseteq Open
  /\ Answered' \subseteq Answered
  /\ Returned' = Returned
  /\ Issued' = Issued

Issues(r) ==
  /\ r \notin Issued
  /\ \A q \in Requests : q.client = r.client /\ q.seq < r.seq => q \in Issued
  /\ Issued' = Issued \cup {r}
  /\ Open' \subseteq Open \cup {r}
  /\ Answered' = Answered
  /\ Returned' = Returned

Answers(r) ==
  /\ r \in Open
  /\ Open' \subseteq Open \ {r}
  /\ Answered' \subseteq Answered \cup {r}
  /\ r \in Answered'
  /\ Returned' = Returned
  /\ Issued' = Issued

Returns(r) ==
  /\ r \in Answered
  /\ \A q \in Issued : q.client = r.client => q.seq <= r.seq
  /\ Answered' = Answered \ {r}
  /\ Returned' = Returned \cup {r}
  /\ Open' = Open
  /\ Issued' = Issued

Moves == OthersLost \/ \E r \in Requests : Issues(r) \/ Answers(r) \/ Returns(r)

\* What is true of the queues and the map besides InOnePlace.
MapKeys == \A s \in DOMAIN payloadMap : payloadMap[s].seq = s

Tidy ==
  /\ MapKeys
  /\ Queued \cap Mapped = {}
  /\ Distinct(reqQueue)
  /\ \A c \in Clients : DistinctNumbers(respQueue[c])
  /\ DeliveredInOrder

LifeInv == OneLife /\ MapKeys /\ DeliveredInOrder

\* The responses of one client change; the others' stay.
LEMMA RespQueueChange ==
  ASSUME TypeOK, NEW c \in Clients, NEW q, respQueue' = [respQueue EXCEPT ![c] = q]
  PROVE  /\ Answered' = {r \in Answered : r.client # c} \cup
                          {r \in Requests : r.client = c /\ r.seq \in Numbers(q)}
         /\ \A d \in Clients : respQueue'[d] = IF d = c THEN q ELSE respQueue[d]
<1>1. \A d \in Clients : respQueue'[d] = IF d = c THEN q ELSE respQueue[d]
  BY DEF TypeOK
<1>2. Answered' = {r \in Requests : r.seq \in Numbers(respQueue'[r.client])}
  BY DEF Answered, Numbers
<1>3. \A r \in Requests : r.client \in Clients
  BY DEF Requests
<1> QED BY <1>1, <1>2, <1>3 DEF Answered

\* When what one client has received changes, what was returned to the others stays.
LEMMA DeliveredChange ==
  ASSUME TypeOK, NEW c \in Clients, NEW q, delivered' = [delivered EXCEPT ![c] = q]
  PROVE  /\ Returned' = {r \in Returned : r.client # c} \cup
                          {r \in Requests : r.client = c /\ r.seq \in Numbers(q)}
         /\ \A d \in Clients : delivered'[d] = IF d = c THEN q ELSE delivered[d]
<1>1. \A d \in Clients : delivered'[d] = IF d = c THEN q ELSE delivered[d]
  BY DEF TypeOK
<1>2. Returned' = {r \in Requests : r.seq \in Numbers(delivered'[r.client])}
  BY DEF Returned, Numbers
<1>3. \A r \in Requests : r.client \in Clients
  BY DEF Requests
<1> QED BY <1>1, <1>2, <1>3 DEF Returned

\* Two requests of one client with one number are one request.
LEMMA SameRequest ==
  ASSUME NEW r \in Requests, NEW q \in Requests, r.client = q.client, r.seq = q.seq
  PROVE  r = q
  BY DEF Requests

\* Each place of a request depends on one variable.
LEMMA UnchangedSets ==
  /\ UNCHANGED reqQueue => UNCHANGED Queued /\ (Distinct(reqQueue) => Distinct(reqQueue)')
  /\ UNCHANGED payloadMap => UNCHANGED Mapped /\ (MapKeys => MapKeys')
  /\ UNCHANGED respQueue => UNCHANGED Answered
  /\ UNCHANGED delivered => UNCHANGED Returned /\ (DeliveredInOrder => DeliveredInOrder')
  /\ UNCHANGED sequenceId => UNCHANGED Issued
  BY DEF Queued, Elements, Distinct, Mapped, MapKeys, Answered, Returned, Numbers,
     DeliveredInOrder, Issued

-----------------------------------------------------------------------------
(* One lemma for each group of actions: what moves, and that the queues and *)
(* the map stay tidy.                                                       *)

\* What the steps below use of the invariant.
LEMMA LifeFacts ==
  ASSUME TypeOK, LifeInv
  PROVE  /\ Tidy /\ InOnePlace
         /\ reqQueue \in Seq(Requests) /\ Len(reqQueue) <= QueueDepth
         /\ \A c \in Clients : /\ respQueue[c] \in Seq(Responses)
                               /\ Len(respQueue[c]) <= QueueDepth
                               /\ delivered[c] \in Seq(Responses)
                               /\ sequenceId[c] \in 0 .. MaxSeq
  BY DEF TypeOK, LifeInv, OneLife, InOnePlace, Tidy

\* Sending a request issues and queues it, loses it, or loses one that it pushed out.
LEMMA SendsMoves ==
  ASSUME TypeOK, LifeInv, NEW c \in Clients, ClientSends(c)
  PROVE  Moves /\ Tidy'
<1> USE DEF serverVars, clientVars
<1> DEFINE r == NextRequest(c)
<1>1. /\ sequenceId[c] < MaxSeq
      /\ sequenceId' = [sequenceId EXCEPT ![c] = sequenceId[c] + 1]
      /\ UNCHANGED <<payloadMap, respQueue, delivered>>
  BY DEF ClientSends, SendRequest, SendRequestFails
<1>2. r \in Requests /\ r.client = c /\ r.seq = sequenceId[c]
  BY <1>1, NextRequestType DEF NextRequest
<1> HIDE DEF r
<1>3. Issued' = Issued \cup {r}
  <2>1. \A d \in Clients : sequenceId'[d] =
          IF d = c THEN sequenceId[c] + 1 ELSE sequenceId[d]
    BY <1>1 DEF TypeOK
  <2>2. \A q \in Requests : q.client \in Clients /\ q.seq \in Int
    BY DEF Requests, SequenceNumbers
  <2>3. \A q \in Requests : q \in Issued' <=> q \in Issued \/ q = r
    <3> SUFFICES ASSUME NEW q \in Requests PROVE q \in Issued' <=> q \in Issued \/ q = r
      OBVIOUS
    <3>1. CASE q.client # c
      BY <1>2, <2>1, <2>2, <3>1 DEF Issued
    <3>2. CASE q.client = c
      <4>1. q.seq = sequenceId[c] => q = r
        BY <1>2, <3>2, SameRequest
      <4> QED BY <1>2, <2>1, <2>2, <3>2, <4>1, LifeFacts DEF Issued
    <3> QED BY <3>1, <3>2
  <2> QED BY <1>2, <2>3 DEF Issued
<1>4. r \notin Issued
  BY <1>2, LifeFacts DEF Issued
<1>5. \A q \in Requests : q.client = r.client /\ q.seq < r.seq => q \in Issued
  BY <1>2 DEF Issued
<1>6. UNCHANGED <<Mapped, Answered, Returned>> /\ MapKeys' /\ DeliveredInOrder'
  BY <1>1, UnchangedSets, LifeFacts DEF Tidy
<1>7. \A d \in Clients : DistinctNumbers(respQueue'[d])
  BY <1>1, LifeFacts DEF Tidy
<1>8. Queued' \subseteq Queued \cup {r} /\ Distinct(reqQueue)'
  <2>1. CASE SendRequest(c)
    <3>1. reqQueue' = Push(reqQueue, r)
      BY <2>1 DEF SendRequest, r
    <3>2. r \notin Elements(reqQueue)
      BY <1>4, LifeFacts DEF InOnePlace, Open, Queued
    <3>3. /\ Elements(Push(reqQueue, r)) \subseteq Elements(reqQueue) \cup {r}
          /\ Distinct(Push(reqQueue, r))
      BY <1>2, <3>2, PushElements, LifeFacts DEF Tidy
    <3>4. Elements(reqQueue') \subseteq Elements(reqQueue) \cup {r} /\ Distinct(reqQueue')
      BY <3>1, <3>3
    <3> QED BY <3>4 DEF Queued, Elements, Distinct
  <2>2. CASE SendRequestFails(c)
    BY <2>2, UnchangedSets, LifeFacts DEF SendRequestFails, Tidy
  <2> QED BY <2>1, <2>2 DEF ClientSends
<1>9. r \notin Mapped
  BY <1>4, LifeFacts DEF InOnePlace, Open
<1>10. Queued' \cap Mapped' = {}
  BY <1>6, <1>8, <1>9, LifeFacts DEF Tidy
<1>11. Issues(r)
  BY <1>3, <1>4, <1>5, <1>6, <1>8 DEF Issues, Open
<1>12. Tidy'
  BY <1>6, <1>7, <1>8, <1>10 DEF Tidy, DistinctNumbers
<1> QED BY <1>2, <1>11, <1>12 DEF Moves

\* Taking a request keeps it open or loses it.
LEMMA TakesRequestMoves ==
  ASSUME TypeOK, LifeInv, ServerTakes
  PROVE  Moves /\ Tidy'
<1> USE DEF serverVars, clientVars
<1> DEFINE q == Head(reqQueue)
<1>1. /\ reqQueue # <<>> /\ reqQueue' = Tail(reqQueue)
      /\ UNCHANGED <<sequenceId, respQueue, delivered>>
  BY DEF ServerTakes, TakeRequest, TakeRequestDuplicate,
     TakeRequestBreaksOff, TakeRequestPortFull, TakesChunk, CanTakeRequest
<1>2. UNCHANGED <<Issued, Answered, Returned>> /\ DeliveredInOrder'
  BY <1>1, UnchangedSets, LifeFacts DEF Tidy
<1>3. \A d \in Clients : DistinctNumbers(respQueue'[d])
  BY <1>1, LifeFacts DEF Tidy
<1>4. /\ Elements(Tail(reqQueue)) = Elements(reqQueue) \ {q}
      /\ q \in Elements(reqQueue)
      /\ Distinct(Tail(reqQueue))
  BY <1>1, LifeFacts, TailElements DEF Tidy
<1>5. Elements(reqQueue') = Elements(reqQueue) \ {q} /\ Distinct(reqQueue')
  BY <1>1, <1>4
<1>6. Queued' = Queued \ {q} /\ q \in Queued /\ Distinct(reqQueue)'
  BY <1>4, <1>5 DEF Queued, Elements, Distinct
<1>7. Mapped' \subseteq Mapped \cup {q} /\ MapKeys'
  <2>1. CASE TakeRequest
    <3>1. /\ q.seq \notin DOMAIN payloadMap
          /\ payloadMap' = Insert(payloadMap, q.seq, q)
      BY <2>1 DEF TakeRequest
    <3> HIDE DEF q
    <3>2. /\ DOMAIN payloadMap' = DOMAIN payloadMap \cup {q.seq}
          /\ payloadMap'[q.seq] = q
          /\ \A s \in DOMAIN payloadMap : payloadMap'[s] = payloadMap[s]
      BY <3>1 DEF Insert
    <3> QED BY <3>2, LifeFacts DEF Mapped, MapKeys, Tidy
  <2>2. CASE TakeRequestDuplicate \/ TakeRequestBreaksOff \/ TakeRequestPortFull
    <3>1. UNCHANGED payloadMap
      BY <2>2 DEF TakeRequestDuplicate, TakeRequestBreaksOff, TakeRequestPortFull
    <3> QED BY <3>1, UnchangedSets, LifeFacts DEF Tidy
  <2> QED BY <2>1, <2>2 DEF ServerTakes
<1> HIDE DEF q
<1>8. Queued' \cap Mapped' = {}
  BY <1>6, <1>7, LifeFacts DEF Tidy
<1>9. OthersLost
  BY <1>2, <1>6, <1>7 DEF OthersLost, Open
<1>10. Tidy'
  BY <1>2, <1>3, <1>6, <1>7, <1>8 DEF Tidy, DistinctNumbers
<1> QED BY <1>9, <1>10 DEF Moves

\* The entry that rmw_send_response erases.
LEMMA EraseMoves ==
  ASSUME TypeOK, LifeInv, NEW s \in DOMAIN payloadMap, ReleaseAndErase(s)
  PROVE  /\ Mapped' = Mapped \ {payloadMap[s]}
         /\ MapKeys'
<1>1. /\ DOMAIN payloadMap' = DOMAIN payloadMap \ {s}
      /\ \A k \in DOMAIN payloadMap \ {s} : payloadMap'[k] = payloadMap[k]
  BY DEF ReleaseAndErase, Erase
<1>2. \A k \in DOMAIN payloadMap : payloadMap[k].seq = k
  BY LifeFacts DEF Tidy, MapKeys
<1>3. \A k \in DOMAIN payloadMap \ {s} : payloadMap[k] # payloadMap[s]
  BY <1>2
<1> QED BY <1>1, <1>2, <1>3 DEF Mapped, MapKeys

\* Sending a response answers the request in the map, or loses it.
LEMMA AnswersMoves ==
  ASSUME TypeOK, LifeInv, NEW r \in Requests, ServerAnswers(r)
  PROVE  Moves /\ Tidy'
<1> USE DEF serverVars, clientVars
<1>1. UNCHANGED <<reqQueue, sequenceId, delivered>>
  BY DEF ServerAnswers, SendResponse, SendResponseFails, SendResponseThrows,
       SendResponseNotFound
<1>2. /\ UNCHANGED <<Queued, Issued, Returned>>
      /\ Distinct(reqQueue)' /\ DeliveredInOrder'
  BY <1>1, UnchangedSets, LifeFacts DEF Tidy
<1>3. CASE SendResponse(r)
  <2> DEFINE chunk == payloadMap[r.seq]
             resp == [seq |-> chunk.seq, answers |-> r]
  <2>1. /\ r.seq \in DOMAIN payloadMap
        /\ ReleaseAndErase(r.seq)
        /\ respQueue' = [respQueue EXCEPT ![chunk.client] =
                            Push(respQueue[chunk.client], resp)]
    BY <1>3 DEF SendResponse
  <2>2. chunk \in Requests /\ chunk \in Mapped
    BY <2>1 DEF TypeOK, Mapped
  <2>3. chunk.client \in Clients /\ resp \in Responses /\ resp.seq = chunk.seq
    BY <2>2 DEF Requests, Responses
  <2>4. Mapped' = Mapped \ {chunk} /\ MapKeys'
    BY <2>1, EraseMoves
  <2> HIDE DEF chunk, resp
  <2>5. chunk \notin Queued /\ chunk \notin Answered
    BY <2>2, LifeFacts DEF InOnePlace, Open
  <2>6. resp.seq \notin Numbers(respQueue[chunk.client])
    BY <2>2, <2>3, <2>5 DEF Answered
  <2> DEFINE p == Push(respQueue[chunk.client], resp)
  <2>7. /\ Numbers(p) \subseteq Numbers(respQueue[chunk.client]) \cup {chunk.seq}
        /\ chunk.seq \in Numbers(p)
        /\ DistinctNumbers(p)
    BY <2>3, <2>6, PushNumbers, LifeFacts DEF Tidy
  <2>8. respQueue' = [respQueue EXCEPT ![chunk.client] = p]
    BY <2>1
  <2> HIDE DEF p
  <2>9. /\ Answered' = {q \in Answered : q.client # chunk.client} \cup
                        {q \in Requests : q.client = chunk.client /\ q.seq \in Numbers(p)}
        /\ \A d \in Clients : respQueue'[d] =
             IF d = chunk.client THEN p ELSE respQueue[d]
    <3> DEFINE c == chunk.client
    <3>1. c \in Clients /\ respQueue' = [respQueue EXCEPT ![c] = p]
      BY <2>3, <2>8
    <3> HIDE DEF c
    <3>2. /\ Answered' = {q \in Answered : q.client # c} \cup
                          {q \in Requests : q.client = c /\ q.seq \in Numbers(p)}
          /\ \A d \in Clients : respQueue'[d] = IF d = c THEN p ELSE respQueue[d]
      BY <3>1, RespQueueChange, Zenon
    <3> QED BY <3>2 DEF c
  <2>10. chunk \in Answered'
    BY <2>2, <2>7, <2>9
  <2>11. Answered' \subseteq Answered \cup {chunk}
    <3> SUFFICES ASSUME NEW q \in Requests, q.client = chunk.client, q.seq \in Numbers(p),
                        q # chunk
                 PROVE  q \in Answered
      BY <2>9
    <3>1. q.seq # chunk.seq
      BY <2>2, SameRequest
    <3> QED BY <2>7, <3>1 DEF Answered
  <2>12. Answers(chunk)
    BY <1>2, <2>2, <2>4, <2>5, <2>10, <2>11 DEF Answers, Open
  <2>13. \A d \in Clients : DistinctNumbers(respQueue'[d])
    BY <2>7, <2>9, LifeFacts DEF Tidy
  <2>14. Queued' \cap Mapped' = {}
    BY <1>2, <2>4, LifeFacts DEF Tidy
  <2>15. Tidy'
    BY <1>2, <2>4, <2>13, <2>14 DEF Tidy, DistinctNumbers
  <2> QED BY <2>2, <2>12, <2>15 DEF Moves
<1>4. CASE SendResponseFails(r) \/ SendResponseThrows(r) \/ SendResponseNotFound(r)
  <2>1. UNCHANGED respQueue
    BY <1>4 DEF SendResponseFails, SendResponseThrows,
       SendResponseNotFound
  <2>2. UNCHANGED Answered /\ \A d \in Clients : DistinctNumbers(respQueue'[d])
    BY <2>1, UnchangedSets, LifeFacts DEF Tidy
  <2>3. Mapped' \subseteq Mapped /\ MapKeys'
    <3>1. CASE SendResponseFails(r)
      BY <3>1, EraseMoves DEF SendResponseFails
    <3>2. CASE SendResponseThrows(r) \/ SendResponseNotFound(r)
      BY <3>2, UnchangedSets, LifeFacts DEF SendResponseThrows, SendResponseNotFound, Tidy
    <3> QED BY <1>4, <3>1, <3>2
  <2>4. OthersLost
    BY <1>2, <2>2, <2>3 DEF OthersLost, Open
  <2>5. Queued' \cap Mapped' = {}
    BY <1>2, <2>3, LifeFacts DEF Tidy
  <2>6. Tidy'
    BY <1>2, <2>2, <2>3, <2>5 DEF Tidy, DistinctNumbers
  <2> QED BY <2>4, <2>6 DEF Moves
<1> QED BY <1>3, <1>4 DEF ServerAnswers

\* Taking a response returns it to its client, or loses it.
LEMMA TakesResponseMoves ==
  ASSUME TypeOK, LifeInv, NEW c \in Clients, ClientTakes(c)
  PROVE  Moves /\ Tidy'
<1> USE DEF serverVars, clientVars
<1> DEFINE h == Head(respQueue[c])
           r == [client |-> c, seq |-> h.seq]
<1>1. /\ respQueue[c] # <<>>
      /\ respQueue' = [respQueue EXCEPT ![c] = Tail(respQueue[c])]
      /\ UNCHANGED <<reqQueue, payloadMap, sequenceId>>
  BY DEF ClientTakes, TakeResponse, TakeResponseOutdated,
     TakeResponseBreaksOff, TakeResponsePortFull, TakesResponse
<1>2. /\ UNCHANGED <<Queued, Mapped, Issued>>
      /\ Distinct(reqQueue)' /\ MapKeys' /\ Queued' \cap Mapped' = {}
  BY <1>1, UnchangedSets, LifeFacts DEF Tidy
<1>3. /\ Numbers(Tail(respQueue[c])) = Numbers(respQueue[c]) \ {h.seq}
      /\ h.seq \in Numbers(respQueue[c])
      /\ DistinctNumbers(Tail(respQueue[c]))
  BY <1>1, TailNumbers, LifeFacts DEF Tidy
<1>4. h \in Responses
  BY <1>1, TailFacts, LifeFacts
<1>5. r \in Requests /\ r.client = c /\ r.seq = h.seq
  BY <1>4 DEF Requests, Responses
<1> HIDE DEF h, r
<1>6. /\ Answered' = {q \in Answered : q.client # c} \cup
         {q \in Requests : q.client = c /\ q.seq \in Numbers(Tail(respQueue[c]))}
      /\ \A d \in Clients : respQueue'[d] = IF d = c THEN Tail(respQueue[c]) ELSE respQueue[d]
  BY <1>1, RespQueueChange
<1>7. \A d \in Clients : DistinctNumbers(respQueue'[d])
  BY <1>3, <1>6, LifeFacts DEF Tidy
<1>8. Answered' = Answered \ {r} /\ r \in Answered
  <2>1. r \in Answered
    BY <1>3, <1>5 DEF Answered
  <2>2. ASSUME NEW q \in Requests, q.client = c
        PROVE  q.seq \in Numbers(Tail(respQueue[c])) <=> q \in Answered /\ q # r
    <3>1. q = r <=> q.seq = h.seq
      BY <1>5, <2>2, SameRequest
    <3> QED BY <1>3, <2>2, <3>1 DEF Answered
  <2>3. Answered \subseteq Requests
    BY DEF Answered
  <2> QED BY <1>5, <1>6, <2>1, <2>2, <2>3
<1>9. CASE TakeResponse(c)
  <2>1. /\ h.seq = sequenceId[c] - 1
        /\ delivered' = [delivered EXCEPT ![c] = Append(delivered[c], h)]
    BY <1>9 DEF TakeResponse, IsLatest, h
  <2>2. Numbers(Append(delivered[c], h)) = Numbers(delivered[c]) \cup {h.seq}
    BY <1>4, AppendNumbers, LifeFacts
  <2>3. /\ Returned' = {q \in Returned : q.client # c} \cup
           {q \in Requests : q.client = c /\ q.seq \in Numbers(Append(delivered[c], h))}
        /\ \A d \in Clients : delivered'[d] =
             IF d = c THEN Append(delivered[c], h) ELSE delivered[d]
    BY <2>1, DeliveredChange
  <2>4. Returned' = Returned \cup {r}
    <3>1. \A q \in Requests : q.client = c =>
            (q.seq \in Numbers(Append(delivered[c], h)) <=> q \in Returned \/ q = r)
      <4> SUFFICES ASSUME NEW q \in Requests, q.client = c
                   PROVE  q.seq \in Numbers(Append(delivered[c], h)) <=> q \in Returned \/ q = r
        OBVIOUS
      <4>1. q = r <=> q.seq = h.seq
        BY <1>5, SameRequest
      <4> QED BY <2>2, <4>1 DEF Returned
    <3>2. Returned \subseteq Requests
      BY DEF Returned
    <3> QED BY <1>5, <2>3, <3>1, <3>2
  <2>5. \A q \in Issued : q.client = r.client => q.seq <= r.seq
    <3>1. \A q \in Requests : q.seq \in Int
      BY DEF Requests, SequenceNumbers
    <3> QED BY <1>5, <2>1, <3>1, LifeFacts DEF Issued
  <2>6. Returns(r)
    BY <1>2, <1>8, <2>4, <2>5 DEF Returns, Open
  <2>7. DeliveredInOrder'
    <3> DEFINE d1 == Append(delivered[c], h)
    <3>1. /\ Len(d1) = Len(delivered[c]) + 1
          /\ d1[Len(delivered[c]) + 1] = h
          /\ \A i \in 1 .. Len(delivered[c]) : d1[i] = delivered[c][i]
          /\ Len(delivered[c]) \in Nat
      BY LifeFacts
    <3> HIDE DEF d1
    <3>2. ASSUME NEW i \in 1 .. Len(delivered[c]) PROVE delivered[c][i].seq < h.seq
      <4> DEFINE q == [client |-> c, seq |-> delivered[c][i].seq]
      <4>1. delivered[c][i] \in Responses
        BY LifeFacts
      <4>2. q \in Requests /\ q.client = c /\ q.seq = delivered[c][i].seq
        BY <4>1 DEF Requests, Responses
      <4> HIDE DEF q
      <4>3. q \in Returned
        BY <4>2 DEF Returned, Numbers
      <4>4. q \in Issued /\ q # r
        BY <1>8, <4>3, LifeFacts DEF InOnePlace
      <4>5. q.seq <= r.seq /\ q.seq # r.seq
        BY <1>5, <2>5, <4>2, <4>4, SameRequest
      <4>6. q.seq \in Int /\ r.seq \in Int
        BY <1>5, <4>2 DEF Requests, SequenceNumbers
      <4> QED BY <1>5, <4>2, <4>5, <4>6
    <3>3. \A i, j \in 1 .. Len(d1) : i < j => d1[i].seq < d1[j].seq
      <4> SUFFICES ASSUME NEW i \in 1 .. Len(d1), NEW j \in 1 .. Len(d1), i < j
                   PROVE  d1[i].seq < d1[j].seq
        OBVIOUS
      <4>1. i \in 1 .. Len(delivered[c]) /\ d1[i] = delivered[c][i]
        BY <3>1
      <4>2. CASE j = Len(delivered[c]) + 1
        BY <3>1, <3>2, <4>1, <4>2
      <4>3. CASE j \in 1 .. Len(delivered[c])
        <5>1. delivered[c][i].seq < delivered[c][j].seq
          BY <4>1, <4>3, LifeFacts DEF Tidy, DeliveredInOrder
        <5> QED BY <3>1, <4>1, <4>3, <5>1
      <4> QED BY <3>1, <4>2, <4>3
    <3>4. \A d \in Clients : delivered'[d] = IF d = c THEN d1 ELSE delivered[d]
      BY <2>3 DEF d1
    <3> QED BY <3>3, <3>4, LifeFacts DEF Tidy, DeliveredInOrder
  <2>8. Tidy'
    BY <1>2, <1>7, <2>7 DEF Tidy, DistinctNumbers
  <2> QED BY <1>5, <2>6, <2>8 DEF Moves
<1>10. CASE TakeResponseOutdated(c) \/ TakeResponseBreaksOff(c) \/ TakeResponsePortFull(c)
  <2>1. UNCHANGED delivered
    BY <1>10 DEF TakeResponseOutdated, TakeResponseBreaksOff, TakeResponsePortFull
  <2>2. UNCHANGED Returned /\ DeliveredInOrder'
    BY <2>1, UnchangedSets, LifeFacts DEF Tidy
  <2>3. OthersLost
    BY <1>2, <1>8, <2>2 DEF OthersLost, Open
  <2>4. Tidy'
    BY <1>2, <1>7, <2>2 DEF Tidy, DistinctNumbers
  <2> QED BY <2>3, <2>4 DEF Moves
<1> QED BY <1>9, <1>10 DEF ClientTakes

\* Whatever is created or destroyed, requests are lost at most.
LEMMA LivesMoves ==
  ASSUME TypeOK, LifeInv,
         ServiceLife \/ (\E c \in Clients : ClientLife(c)) \/ UNCHANGED vars
  PROVE  Moves /\ Tidy'
<1> USE DEF serverVars, clientVars
<1>1. UNCHANGED <<sequenceId, delivered>>
  BY DEF ServiceLife, CreateService, DestroyService,
     ClientLife, CreateClient, Connect, DestroyClient, vars
<1>2. UNCHANGED <<Issued, Returned>> /\ DeliveredInOrder'
  BY <1>1, UnchangedSets, LifeFacts DEF Tidy
<1>3. CASE DestroyService
  <2>1. reqQueue' = <<>> /\ payloadMap' = NoEntries /\ UNCHANGED respQueue
    BY <1>3 DEF DestroyService
  <2>2. Queued' = {} /\ Mapped' = {} /\ MapKeys' /\ Distinct(reqQueue)'
    BY <2>1 DEF Queued, Elements, Mapped, MapKeys, Distinct, NoEntries
  <2>3. UNCHANGED Answered /\ \A d \in Clients : DistinctNumbers(respQueue'[d])
    BY <2>1, UnchangedSets, LifeFacts DEF Tidy
  <2>4. OthersLost /\ Tidy'
    BY <1>2, <2>2, <2>3 DEF OthersLost, Open, Tidy, DistinctNumbers
  <2> QED BY <2>4 DEF Moves
<1>4. ASSUME NEW c \in Clients, DestroyClient(c) PROVE Moves /\ Tidy'
  <2>1. respQueue' = [respQueue EXCEPT ![c] = <<>>] /\ UNCHANGED <<reqQueue, payloadMap>>
    BY <1>4 DEF DestroyClient
  <2>2. /\ UNCHANGED <<Queued, Mapped>> /\ Queued' \cap Mapped' = {}
        /\ MapKeys' /\ Distinct(reqQueue)'
    BY <2>1, UnchangedSets, LifeFacts DEF Tidy
  <2>3. Numbers(<<>>) = {} /\ DistinctNumbers(<<>>)
    BY DEF Numbers, DistinctNumbers
  <2>4. /\ Answered' = {r \in Answered : r.client # c} \cup
                        {r \in Requests : r.client = c /\ r.seq \in Numbers(<<>>)}
        /\ \A d \in Clients : respQueue'[d] = IF d = c THEN <<>> ELSE respQueue[d]
    BY <2>1, RespQueueChange
  <2>5. Answered' \subseteq Answered
    BY <2>3, <2>4
  <2>6. \A d \in Clients : DistinctNumbers(respQueue'[d])
    BY <2>3, <2>4, LifeFacts DEF Tidy
  <2>7. OthersLost /\ Tidy'
    BY <1>2, <2>2, <2>5, <2>6 DEF OthersLost, Open, Tidy, DistinctNumbers
  <2> QED BY <2>7 DEF Moves
<1>5. ASSUME UNCHANGED <<reqQueue, payloadMap, respQueue>> PROVE Moves /\ Tidy'
  <2>1. /\ UNCHANGED <<Queued, Mapped, Answered>> /\ Queued' \cap Mapped' = {}
        /\ MapKeys' /\ Distinct(reqQueue)'
        /\ \A d \in Clients : DistinctNumbers(respQueue'[d])
    BY <1>5, UnchangedSets, LifeFacts DEF Tidy
  <2>2. OthersLost /\ Tidy'
    BY <1>2, <2>1 DEF OthersLost, Open, Tidy, DistinctNumbers
  <2> QED BY <2>2 DEF Moves
<1>6. CASE CreateService
  BY <1>5, <1>6 DEF CreateService
<1>7. ASSUME NEW c \in Clients, CreateClient(c) \/ Connect(c) PROVE Moves /\ Tidy'
  BY <1>5, <1>7 DEF CreateClient, Connect
<1>8. CASE UNCHANGED vars
  BY <1>5, <1>8 DEF vars
<1> QED BY <1>3, <1>4, <1>6, <1>7, <1>8 DEF ServiceLife, ClientLife

\* Every step moves requests.
LEMMA StepMoves ==
  ASSUME TypeOK, LifeInv, [Next]_vars
  PROVE  Moves /\ Tidy'
  BY LivesMoves, SendsMoves, TakesRequestMoves, AnswersMoves, TakesResponseMoves DEF Next

-----------------------------------------------------------------------------
(* The invariant.                                                           *)

\* Whatever moves, nothing ends up in two places.
LEMMA MovesInOnePlace ==
  ASSUME InOnePlace, Moves, Tidy'
  PROVE  InOnePlace'
<1>1. (Queued \cap Mapped = {})'
  BY DEF Tidy
<1>2. CASE OthersLost
  BY <1>1, <1>2 DEF InOnePlace, OthersLost
<1>3. ASSUME NEW r \in Requests, Issues(r) PROVE InOnePlace'
  BY <1>1, <1>3 DEF InOnePlace, Issues
<1>4. ASSUME NEW r \in Requests, Answers(r) PROVE InOnePlace'
  BY <1>1, <1>4 DEF InOnePlace, Answers
<1>5. ASSUME NEW r \in Requests, Returns(r) PROVE InOnePlace'
  BY <1>1, <1>5 DEF InOnePlace, Returns
<1> QED BY <1>2, <1>3, <1>4, <1>5 DEF Moves

\* At first no request is issued.
LEMMA InitLifeInv == Init => LifeInv
<1> SUFFICES ASSUME Init PROVE LifeInv
  OBVIOUS
<1>1. /\ reqQueue = <<>> /\ payloadMap = NoEntries
      /\ \A c \in Clients : respQueue[c] = <<>> /\ delivered[c] = <<>>
  BY DEF Init
<1>2. Queued = {} /\ Mapped = {} /\ MapKeys /\ Distinct(reqQueue)
  BY <1>1 DEF Queued, Elements, Mapped, MapKeys, Distinct, NoEntries
<1>3. Answered = {} /\ Returned = {}
  <2>1. \A r \in Requests : r.client \in Clients
    BY DEF Requests
  <2> QED BY <1>1, <2>1 DEF Answered, Returned, Numbers
<1>4. DeliveredInOrder /\ \A c \in Clients : DistinctNumbers(respQueue[c])
  BY <1>1 DEF DeliveredInOrder, DistinctNumbers
<1> QED BY <1>2, <1>3, <1>4 DEF LifeInv, OneLife, InOnePlace, Open

\* Requests live once in every state.
LEMMA LifeInvariant == Spec => [](TypeOK /\ LifeInv)
<1>1. Init => TypeOK /\ LifeInv
  BY InitTypeOK, InitLifeInv
<1>2. TypeOK /\ LifeInv /\ [Next]_vars => (TypeOK /\ LifeInv)'
  <2> SUFFICES ASSUME TypeOK, LifeInv, [Next]_vars PROVE TypeOK' /\ LifeInv'
    OBVIOUS
  <2>1. TypeOK'
    BY StepTypeOK
  <2>2. Moves /\ Tidy'
    BY StepMoves
  <2>3. InOnePlace'
    BY <2>2, LifeFacts, MovesInOnePlace
  <2> QED BY <2>1, <2>2, <2>3 DEF LifeInv, OneLife, Tidy
<1> QED BY <1>1, <1>2, PTL DEF Spec

\* A request is in one place at a time, in the server's queue, in the map, among
\* its client's responses or returned, and in each of them once.
THEOREM RequestsLiveOnce == Spec => []OneLife
<1>1. TypeOK /\ LifeInv => OneLife
  BY DEF LifeInv
<1> QED BY <1>1, LifeInvariant, PTL

\* An application takes the responses to its requests in the order it sent them,
\* none of them twice.
THEOREM ResponsesInOrder == Spec => []DeliveredInOrder
<1>1. TypeOK /\ LifeInv => DeliveredInOrder
  BY DEF LifeInv
<1> QED BY <1>1, LifeInvariant, PTL

-----------------------------------------------------------------------------
(* ReqRes implements Rpc: the four kinds of moves are its four actions.      *)

Request(c, s) == [client |-> c, seq |-> s]

\* A request is where its status says, before and after a step.
LEMMA StatusFacts ==
  ASSUME InOnePlace, NEW c \in Clients, NEW s \in SequenceNumbers
  PROVE  /\ Request(c, s) \in Requests
         /\ Request(c, s) \notin Issued <=> statusBar[c][s] = "unissued"
         /\ Request(c, s) \in Open <=> statusBar[c][s] = "open"
         /\ Request(c, s) \in Answered <=> statusBar[c][s] = "answered"
         /\ Request(c, s) \in Returned <=> statusBar[c][s] = "returned"
         /\ statusBar[c][s] \in {"unissued", "open", "answered", "returned", "lost"}
<1>1. statusBar[c][s] = StatusOf(Request(c, s))
  BY DEF statusBar, Request
<1>2. Request(c, s) \in Requests
  BY DEF Request, Requests
<1> QED BY <1>1, <1>2 DEF StatusOf, InOnePlace

\* The status of a request after a step is the place it is in.
LEMMA StatusFactsNext ==
  ASSUME InOnePlace', NEW c \in Clients, NEW s \in SequenceNumbers
  PROVE  /\ Request(c, s) \notin Issued' <=> statusBar'[c][s] = "unissued"
         /\ Request(c, s) \in Open' <=> statusBar'[c][s] = "open"
         /\ Request(c, s) \in Answered' <=> statusBar'[c][s] = "answered"
         /\ Request(c, s) \in Returned' <=> statusBar'[c][s] = "returned"
         /\ statusBar'[c][s] \in {"unissued", "open", "answered", "returned", "lost"}
<1> DEFINE r == Request(c, s)
<1>1. statusBar'[c][s] = CASE r \notin Issued' -> "unissued"
                           [] r \in Open' -> "open"
                           [] r \in Answered' -> "answered"
                           [] r \in Returned' -> "returned"
                           [] OTHER -> "lost"
  BY DEF statusBar, StatusOf, Request
<1> HIDE DEF r
<1>2. /\ Open' \cup Answered' \cup Returned' \subseteq Issued'
      /\ Open' \cap (Answered' \cup Returned') = {}
      /\ Answered' \cap Returned' = {}
  BY DEF InOnePlace
<1>3. /\ r \notin Issued' <=> statusBar'[c][s] = "unissued"
      /\ r \in Open' <=> statusBar'[c][s] = "open"
      /\ r \in Answered' <=> statusBar'[c][s] = "answered"
      /\ r \in Returned' <=> statusBar'[c][s] = "returned"
      /\ statusBar'[c][s] \in {"unissued", "open", "answered", "returned", "lost"}
  BY <1>1, <1>2
<1> QED BY <1>3 DEF r

\* A request that does not move stays or is lost.
LEMMA StayOrLost ==
  ASSUME InOnePlace, InOnePlace', NEW c \in Clients, NEW s \in SequenceNumbers,
         Request(c, s) \in Open' => Request(c, s) \in Open,
         Request(c, s) \in Answered' => Request(c, s) \in Answered,
         Request(c, s) \in Returned' <=> Request(c, s) \in Returned,
         Request(c, s) \in Issued' <=> Request(c, s) \in Issued
  PROVE  \/ statusBar'[c][s] = statusBar[c][s]
         \/ statusBar[c][s] \in {"open", "answered"} /\ statusBar'[c][s] = "lost"
<1> DEFINE a == statusBar[c][s]
           b == statusBar'[c][s]
<1>1. /\ Request(c, s) \notin Issued <=> a = "unissued"
      /\ Request(c, s) \in Open <=> a = "open"
      /\ Request(c, s) \in Answered <=> a = "answered"
      /\ Request(c, s) \in Returned <=> a = "returned"
      /\ a \in {"unissued", "open", "answered", "returned", "lost"}
  BY StatusFacts
<1>2. /\ Request(c, s) \notin Issued' <=> b = "unissued"
      /\ Request(c, s) \in Open' <=> b = "open"
      /\ Request(c, s) \in Answered' <=> b = "answered"
      /\ Request(c, s) \in Returned' <=> b = "returned"
      /\ b \in {"unissued", "open", "answered", "returned", "lost"}
  BY StatusFactsNext
<1> HIDE DEF a, b
<1>3. b = a \/ (a \in {"open", "answered"} /\ b = "lost")
  BY <1>1, <1>2
<1> QED BY <1>3 DEF a, b

\* So it is for all requests but the one that moves.
LEMMA OthersStay ==
  ASSUME InOnePlace, InOnePlace', NEW r \in Requests,
         \A q \in Requests \ {r} :
           /\ q \in Open' => q \in Open
           /\ q \in Answered' => q \in Answered
           /\ q \in Returned' <=> q \in Returned
           /\ q \in Issued' <=> q \in Issued
  PROVE  R!OthersStayOrAreLost({<<r.client, r.seq>>})
<1> SUFFICES ASSUME NEW c \in Clients, NEW s \in SequenceNumbers,
                    <<c, s>> # <<r.client, r.seq>>
             PROVE  \/ statusBar'[c][s] = statusBar[c][s]
                    \/ /\ statusBar[c][s] \in {"open", "answered"}
                       /\ statusBar'[c][s] = "lost"
  BY DEF R!OthersStayOrAreLost, R!Numbers, R!InFlight, SequenceNumbers
<1>1. Request(c, s) \in Requests \ {r}
  BY DEF Request, Requests
<1> QED BY <1>1, StayOrLost

\* Each way of moving requests is a step of Rpc.
LEMMA MovesImplementRpc ==
  ASSUME InOnePlace, InOnePlace', Moves
  PROVE  R!RpcNext
<1>1. CASE OthersLost
  <2> SUFFICES ASSUME NEW c \in Clients, NEW s \in SequenceNumbers
               PROVE  \/ statusBar'[c][s] = statusBar[c][s]
                      \/ /\ statusBar[c][s] \in {"open", "answered"}
                         /\ statusBar'[c][s] = "lost"
    BY DEF R!RpcNext, R!Lose, R!OthersStayOrAreLost, R!Numbers, R!InFlight, SequenceNumbers
  <2> QED BY <1>1, StayOrLost DEF OthersLost
<1>2. ASSUME NEW r \in Requests, Issues(r) \/ Answers(r) \/ Returns(r)
      PROVE  R!RpcNext
  <2> DEFINE c == r.client
             s == r.seq
  <2>1. c \in Clients /\ s \in SequenceNumbers /\ Request(c, s) = r
    BY DEF Requests, Request
  <2>2. s \in R!Numbers
    BY <2>1 DEF R!Numbers, SequenceNumbers
  <2> HIDE DEF c, s
  <2>3. R!OthersStayOrAreLost({<<c, s>>})
    BY <1>2, OthersStay DEF Issues, Answers, Returns, c, s
  <2>4. CASE Issues(r)
    <3>1. statusBar[c][s] = "unissued"
      BY <2>1, <2>4, StatusFacts DEF Issues
    <3>2. s > 0 => statusBar[c][s - 1] # "unissued"
      <4> SUFFICES ASSUME s > 0 PROVE statusBar[c][s - 1] # "unissued"
        OBVIOUS
      <4>1. s - 1 \in SequenceNumbers /\ s - 1 < s
        BY <2>1, ReqResAssumption DEF SequenceNumbers, ReqResAssumption
      <4>2. Request(c, s - 1) \in Requests
        BY <2>1, <4>1 DEF Request, Requests
      <4>3. Request(c, s - 1).client = r.client /\ Request(c, s - 1).seq < r.seq
        BY <4>1 DEF Request, c, s
      <4>4. Request(c, s - 1) \in Issued
        BY <2>4, <4>2, <4>3 DEF Issues
      <4> QED BY <2>1, <4>1, <4>4, StatusFacts
    <3>3. statusBar'[c][s] \in {"open", "lost"}
      BY <2>1, <2>4, StatusFactsNext DEF Issues, InOnePlace
    <3>4. R!Issue(c, s)
      BY <2>3, <3>1, <3>2, <3>3 DEF R!Issue
    <3> QED BY <2>1, <2>2, <3>4 DEF R!RpcNext
  <2>5. CASE Answers(r)
    <3>1. statusBar[c][s] = "open" /\ statusBar'[c][s] = "answered"
      BY <2>1, <2>5, StatusFacts, StatusFactsNext DEF Answers
    <3>2. R!Answer(c, s)
      BY <2>3, <3>1 DEF R!Answer
    <3> QED BY <2>1, <2>2, <3>2 DEF R!RpcNext
  <2>6. CASE Returns(r)
    <3>1. statusBar[c][s] = "answered" /\ statusBar'[c][s] = "returned"
      BY <2>1, <2>6, StatusFacts, StatusFactsNext DEF Returns
    <3>2. s + 1 \in R!Numbers => statusBar[c][s + 1] = "unissued"
      <4> SUFFICES ASSUME s + 1 \in SequenceNumbers PROVE statusBar[c][s + 1] = "unissued"
        BY DEF R!Numbers, SequenceNumbers
      <4>1. Request(c, s + 1).client = r.client /\ ~(Request(c, s + 1).seq <= r.seq)
        BY <2>1 DEF Request, SequenceNumbers, c, s
      <4>2. Request(c, s + 1) \notin Issued
        BY <2>6, <4>1 DEF Returns
      <4> QED BY <2>1, <4>2, StatusFacts
    <3>3. R!Return(c, s)
      BY <2>3, <3>1, <3>2 DEF R!Return
    <3> QED BY <2>1, <2>2, <3>3 DEF R!RpcNext
  <2> QED BY <1>2, <2>4, <2>5, <2>6
<1> QED BY <1>1, <1>2 DEF Moves

\* Whatever is discarded, refused, leaked or destroyed, the clients see an Rpc
\* service: answers at most once each, to the latest requests, in order.
THEOREM ImplementsRpcAlways == Spec => ImplementsRpc
<1>1. Init => R!RpcInit
  <2> SUFFICES ASSUME Init PROVE R!RpcInit
    OBVIOUS
  <2>1. ASSUME NEW c \in Clients, NEW s \in SequenceNumbers
        PROVE  statusBar[c][s] = "unissued"
    <3>1. Request(c, s) \notin Issued
      BY DEF Init, Issued, Request, SequenceNumbers
    <3>2. InOnePlace
      BY InitLifeInv DEF LifeInv, OneLife
    <3> QED BY <3>1, <3>2, StatusFacts
  <2>2. statusBar = [c \in Clients |-> [s \in SequenceNumbers |-> statusBar[c][s]]]
    BY DEF statusBar
  <2> QED BY <2>1, <2>2 DEF R!RpcInit, R!Numbers, SequenceNumbers
<1>2. TypeOK /\ LifeInv /\ [Next]_vars => [R!RpcNext]_statusBar
  <2> SUFFICES ASSUME TypeOK, LifeInv, [Next]_vars PROVE R!RpcNext
    OBVIOUS
  <2>1. Moves /\ Tidy'
    BY StepMoves
  <2>2. InOnePlace /\ InOnePlace'
    BY <2>1, LifeFacts, MovesInOnePlace
  <2> QED BY <2>1, <2>2, MovesImplementRpc
<1> QED BY <1>1, <1>2, LifeInvariant, PTL DEF Spec, ImplementsRpc, R!RpcSpec
=============================================================================
