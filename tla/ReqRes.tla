------------------------------- MODULE ReqRes -------------------------------
(***************************************************************************)
(* One ROS service over iceoryx: the clients of rmw_client.cpp, the server  *)
(* of rmw_service.cpp, and the four calls between them, rmw_send_request,   *)
(* rmw_take_request, rmw_send_response and rmw_take_response.               *)
(*                                                                         *)
(* A request is identified by the client that sent it and its sequence      *)
(* number; the payload chunk in shared memory is that identity.  A response *)
(* carries the sequence number of the chunk its header was copied from and, *)
(* as its payload, the request the application computed it for.             *)
(*                                                                         *)
(* Each rmw call is one step: what it touches before and after it pushes to *)
(* a queue is state of the calling endpoint alone.                          *)
(***************************************************************************)
EXTENDS Integers, Sequences, FiniteSets

CONSTANTS
  Clients,     \* client endpoints; a re-created client is another element
  MaxSeq,      \* bound on the requests one client sends
  QueueDepth,  \* qos depth, the capacity of both queues
  MaxHeld,     \* iceoryx's limit on the chunks one port holds at once
  MaxPending,  \* requests the server application works on at once
  Faults,      \* which calls of iceoryx and rcutils, and which conversions, may fail
  AppRetries   \* does the application call rmw_send_response again after an error

ReqResAssumption ==
  /\ MaxSeq \in Nat
  /\ QueueDepth \in Nat \ {0}
  /\ MaxHeld \in Nat \ {0}
  /\ MaxPending \in Nat \ {0}
  /\ Faults \subseteq {"loan", "send", "clock", "serialize", "deserialize"}
  /\ AppRetries \in BOOLEAN

ASSUME ReqResAssumption

VARIABLES
  connection,  \* connection[c]: the life of client c and of its port
  sequenceId,  \* sequenceId[c]: IceoryxClient::sequence_id_, the next number
  offered,     \* does the service exist
  reqQueue,    \* requests in the server's queue
  held,        \* request chunks the server port holds, taken and not released
  payloadMap,  \* IceoryxServer::request_payload_map_
  pending,     \* requests given to the application and not yet dealt with
  respQueue,   \* respQueue[c]: responses in client c's queue
  respHeld,    \* respHeld[c]: number of responses c took and never released
  delivered    \* delivered[c]: the responses c's application got, in order

serverVars == <<offered, reqQueue, held, payloadMap, pending>>
clientVars == <<connection, sequenceId, respQueue, respHeld, delivered>>
vars == <<serverVars, clientVars>>

SequenceNumbers == 0 .. (MaxSeq - 1)
Requests == [client : Clients, seq : SequenceNumbers]
Responses == [seq : SequenceNumbers, answers : Requests]
ConnectionStates == {"absent", "waiting", "connected", "destroyed"}

\* The partial function from sequence numbers to chunks that std::map is.
NoEntries == [s \in {} |-> s]
Insert(m, s, chunk) == [k \in DOMAIN m \cup {s} |-> IF k = s THEN chunk ELSE m[k]]
Erase(m, s) == [k \in DOMAIN m \ {s} |-> m[k]]

\* A queue whose policy on overflow is to discard the oldest element.
Push(q, x) == Append(IF Len(q) < QueueDepth THEN q ELSE Tail(q), x)

TypeOK ==
  /\ connection \in [Clients -> ConnectionStates]
  /\ sequenceId \in [Clients -> 0 .. MaxSeq]
  /\ offered \in BOOLEAN
  /\ reqQueue \in Seq(Requests)
  /\ Len(reqQueue) <= QueueDepth
  /\ held \subseteq Requests
  /\ DOMAIN payloadMap \subseteq SequenceNumbers
  /\ payloadMap \in [DOMAIN payloadMap -> Requests]
  /\ pending \subseteq Requests
  /\ respQueue \in [Clients -> Seq(Responses)]
  /\ \A c \in Clients : Len(respQueue[c]) <= QueueDepth
  /\ respHeld \in [Clients -> 0 .. MaxHeld]
  /\ delivered \in [Clients -> Seq(Responses)]

Init ==
  /\ connection = [c \in Clients |-> "absent"]
  /\ sequenceId = [c \in Clients |-> 0]
  /\ offered = FALSE
  /\ reqQueue = <<>>
  /\ held = {}
  /\ payloadMap = NoEntries
  /\ pending = {}
  /\ respQueue = [c \in Clients |-> <<>>]
  /\ respHeld = [c \in Clients |-> 0]
  /\ delivered = [c \in Clients |-> <<>>]

-----------------------------------------------------------------------------
(* Creation, destruction and the discovery that connects the ports.         *)

Exists(c) == connection[c] \in {"waiting", "connected"}

CreateService ==
  /\ ~offered
  /\ offered' = TRUE
  /\ UNCHANGED <<reqQueue, held, payloadMap, pending, clientVars>>

\* The server port's destructor empties its queue, frees the chunks it holds
\* and disconnects the clients; the map goes with the IceoryxServer.
DestroyService ==
  /\ offered
  /\ offered' = FALSE
  /\ reqQueue' = <<>>
  /\ held' = {}
  /\ payloadMap' = NoEntries
  /\ pending' = {}
  /\ connection' = [c \in Clients |->
        IF connection[c] = "connected" THEN "waiting" ELSE connection[c]]
  /\ UNCHANGED <<sequenceId, respQueue, respHeld, delivered>>

CreateClient(c) ==
  /\ connection[c] = "absent"
  /\ connection' = [connection EXCEPT ![c] = "waiting"]
  /\ UNCHANGED <<serverVars, sequenceId, respQueue, respHeld, delivered>>

\* The iceoryx daemon matches a client with an offered server.
Connect(c) ==
  /\ connection[c] = "waiting" /\ offered
  /\ connection' = [connection EXCEPT ![c] = "connected"]
  /\ UNCHANGED <<serverVars, sequenceId, respQueue, respHeld, delivered>>

\* rmw_service_server_is_available.
ServerIsAvailable(c) == connection[c] = "connected"

DestroyClient(c) ==
  /\ Exists(c)
  /\ connection' = [connection EXCEPT ![c] = "destroyed"]
  /\ respQueue' = [respQueue EXCEPT ![c] = <<>>]
  /\ respHeld' = [respHeld EXCEPT ![c] = 0]
  /\ UNCHANGED <<serverVars, sequenceId, delivered>>

-----------------------------------------------------------------------------
(* rmw_send_request.  A loan that fails changes nothing.  Serializing and   *)
(* deserializing, here and below, may fail by throwing, which nothing in    *)
(* these calls catches: what comes after it in the call does not happen.    *)

\* Mutant: the counter is advanced before the request is stamped with it.
NextRequestMutantStampedLate(c) == [client |-> c, seq |-> sequenceId[c] + 1]

NextRequest(c) == [client |-> c, seq |-> sequenceId[c]]

SendRequest(c) ==
  /\ connection[c] = "connected"
  /\ sequenceId[c] < MaxSeq
  /\ sequenceId' = [sequenceId EXCEPT ![c] = @ + 1]
  /\ reqQueue' = Push(reqQueue, NextRequest(c))
  /\ UNCHANGED <<offered, held, payloadMap, pending,
                 connection, respQueue, respHeld, delivered>>

\* The number is drawn from sequence_id_ before the send that fails, and before the
\* serialization that throws.
SendRequestFails(c) ==
  /\ Exists(c)
  /\ connection[c] = "connected" => {"send", "serialize"} \cap Faults # {}
  /\ sequenceId[c] < MaxSeq
  /\ sequenceId' = [sequenceId EXCEPT ![c] = @ + 1]
  /\ UNCHANGED <<serverVars, connection, respQueue, respHeld, delivered>>

-----------------------------------------------------------------------------
(* rmw_take_request.                                                        *)

CanTakeRequest ==
  /\ offered
  /\ reqQueue # <<>>
  /\ Cardinality(pending) < MaxPending

TakesChunk ==
  /\ CanTakeRequest
  /\ Cardinality(held) < MaxHeld
  /\ held' = held \cup {Head(reqQueue)}
  /\ reqQueue' = Tail(reqQueue)

\* Mutant: the map is assigned to instead of inserted into.
TakeRequestMutantOverwrites ==
  /\ TakesChunk
  /\ payloadMap' = Insert(payloadMap, Head(reqQueue).seq, Head(reqQueue))
  /\ pending' = pending \cup {Head(reqQueue)}
  /\ UNCHANGED <<offered, clientVars>>

\* The request reaches the application and its chunk waits in the map.
TakeRequest ==
  /\ TakesChunk
  /\ Head(reqQueue).seq \notin DOMAIN payloadMap
  /\ payloadMap' = Insert(payloadMap, Head(reqQueue).seq, Head(reqQueue))
  /\ pending' = pending \cup {Head(reqQueue)}
  /\ UNCHANGED <<offered, clientVars>>

\* Mutant: the error path erases the number that was refused.
TakeRequestDuplicateMutantErases ==
  /\ TakesChunk
  /\ Head(reqQueue).seq \in DOMAIN payloadMap
  /\ payloadMap' = Erase(payloadMap, Head(reqQueue).seq)
  /\ UNCHANGED <<offered, pending, clientVars>>

\* std::map::insert refuses a key it has: an error, taken is false, and the
\* chunk stays with the port.
TakeRequestDuplicate ==
  /\ TakesChunk
  /\ Head(reqQueue).seq \in DOMAIN payloadMap
  /\ UNCHANGED <<offered, payloadMap, pending, clientVars>>

\* After the chunk was taken rcutils_system_time_now fails, or deserializeRequest
\* throws: the chunk is in no map.
TakeRequestBreaksOff ==
  /\ {"clock", "deserialize"} \cap Faults # {}
  /\ TakesChunk
  /\ UNCHANGED <<offered, payloadMap, pending, clientVars>>

\* The port holds all it may: take() fails, and the request may be lost.
TakeRequestPortFull ==
  /\ CanTakeRequest
  /\ Cardinality(held) >= MaxHeld
  /\ reqQueue' = Tail(reqQueue)
  /\ UNCHANGED <<offered, held, payloadMap, pending, clientVars>>

-----------------------------------------------------------------------------
(* rmw_send_response: the application answers request r, which it can name  *)
(* only by its sequence number.                                             *)

\* Mutant: the entry stays in the map.
ReleaseAndEraseMutantNoErase(s) ==
  /\ held' = held \ {payloadMap[s]}
  /\ UNCHANGED payloadMap

\* Mutant: the chunk is not released.
ReleaseAndEraseMutantNoRelease(s) ==
  /\ UNCHANGED held
  /\ payloadMap' = Erase(payloadMap, s)

\* Mutant: neither happens, as if the function returned with the send.
ReleaseAndEraseMutantNothing(s) == UNCHANGED <<held, payloadMap>>

\* The request that is released and erased once a response was attempted.
ReleaseAndErase(s) ==
  /\ held' = held \ {payloadMap[s]}
  /\ payloadMap' = Erase(payloadMap, s)

\* The header comes from the stored chunk, so the response goes to its client.
SendResponse(r) ==
  /\ offered
  /\ r \in pending
  /\ r.seq \in DOMAIN payloadMap
  /\ LET chunk == payloadMap[r.seq] IN
       /\ connection[chunk.client] = "connected"
       /\ respQueue' = [respQueue EXCEPT
            ![chunk.client] = Push(@, [seq |-> chunk.seq, answers |-> r])]
  /\ ReleaseAndErase(r.seq)
  /\ pending' = pending \ {r}
  /\ UNCHANGED <<offered, reqQueue, connection, sequenceId, respHeld, delivered>>

\* Loan or send fails; the request is released and erased all the same.
SendResponseFails(r) ==
  /\ offered
  /\ r \in pending
  /\ r.seq \in DOMAIN payloadMap
  /\ \/ {"loan", "send"} \cap Faults # {}
     \/ connection[payloadMap[r.seq].client] # "connected"
  /\ ReleaseAndErase(r.seq)
  /\ pending' = IF AppRetries THEN pending ELSE pending \ {r}
  /\ UNCHANGED <<offered, reqQueue, clientVars>>

\* serializeResponse throws: the request is neither released nor erased.
SendResponseThrows(r) ==
  /\ offered
  /\ r \in pending
  /\ r.seq \in DOMAIN payloadMap
  /\ "serialize" \in Faults
  /\ pending' = IF AppRetries THEN pending ELSE pending \ {r}
  /\ UNCHANGED <<offered, reqQueue, held, payloadMap, clientVars>>

\* No entry: an error, and the application gives up.
SendResponseNotFound(r) ==
  /\ offered
  /\ r \in pending
  /\ r.seq \notin DOMAIN payloadMap
  /\ pending' = pending \ {r}
  /\ UNCHANGED <<offered, reqQueue, held, payloadMap, clientVars>>

-----------------------------------------------------------------------------
(* rmw_take_response.                                                       *)

TakesResponse(c) ==
  /\ Exists(c)
  /\ respQueue[c] # <<>>
  /\ respQueue' = [respQueue EXCEPT ![c] = Tail(@)]

\* Mutant: any response of this client's is accepted.
IsLatestMutantAny(c, resp) == resp.seq < sequenceId[c]

\* Mutant: compared with the number that comes next.
IsLatestMutantNext(c, resp) == resp.seq = sequenceId[c]

\* Only the response to the client's latest request is accepted.
IsLatest(c, resp) == resp.seq = sequenceId[c] - 1

TakeResponse(c) ==
  /\ TakesResponse(c)
  /\ respHeld[c] < MaxHeld
  /\ IsLatest(c, Head(respQueue[c]))
  /\ delivered' = [delivered EXCEPT ![c] = Append(@, Head(respQueue[c]))]
  /\ UNCHANGED <<serverVars, connection, sequenceId, respHeld>>

TakeResponseOutdated(c) ==
  /\ TakesResponse(c)
  /\ respHeld[c] < MaxHeld
  /\ ~IsLatest(c, Head(respQueue[c]))
  /\ UNCHANGED <<serverVars, connection, sequenceId, respHeld, delivered>>

\* The early return when the clock fails skips releaseResponse, and so does what
\* deserializeResponse throws.
TakeResponseBreaksOff(c) ==
  /\ {"clock", "deserialize"} \cap Faults # {}
  /\ TakesResponse(c)
  /\ respHeld[c] < MaxHeld
  /\ IsLatest(c, Head(respQueue[c]))
  /\ respHeld' = [respHeld EXCEPT ![c] = @ + 1]
  /\ UNCHANGED <<serverVars, connection, sequenceId, delivered>>

TakeResponsePortFull(c) ==
  /\ TakesResponse(c)
  /\ respHeld[c] >= MaxHeld
  /\ UNCHANGED <<serverVars, connection, sequenceId, respHeld, delivered>>

-----------------------------------------------------------------------------
ServiceLife == CreateService \/ DestroyService
ClientLife(c) == CreateClient(c) \/ Connect(c) \/ DestroyClient(c)
ClientSends(c) == SendRequest(c) \/ SendRequestFails(c)

ServerTakes ==
  \/ TakeRequest
  \/ TakeRequestDuplicate
  \/ TakeRequestBreaksOff
  \/ TakeRequestPortFull

ServerAnswers(r) ==
  \/ SendResponse(r)
  \/ SendResponseFails(r)
  \/ SendResponseThrows(r)
  \/ SendResponseNotFound(r)

ClientTakes(c) ==
  \/ TakeResponse(c)
  \/ TakeResponseOutdated(c)
  \/ TakeResponseBreaksOff(c)
  \/ TakeResponsePortFull(c)

Next ==
  \/ ServiceLife
  \/ \E c \in Clients : ClientLife(c) \/ ClientSends(c) \/ ClientTakes(c)
  \/ ServerTakes
  \/ \E r \in Requests : ServerAnswers(r)

Spec == Init /\ [][Next]_vars

\* An executor that sees a request or response ready takes it, and a service
\* callback that was started ends in a response.
Fairness ==
  /\ WF_vars(ServerTakes)
  /\ WF_vars(\E r \in Requests : ServerAnswers(r))
  /\ \A c \in Clients : WF_vars(ClientTakes(c))

FairSpec == Spec /\ Fairness

-----------------------------------------------------------------------------
(* Properties.                                                              *)

Elements(q) == {q[i] : i \in 1 .. Len(q)}
Numbers(q) == {q[i].seq : i \in 1 .. Len(q)}

\* Where requests are: issued, and then in the server's queue, in the map, as a
\* response in their client's queue, or as one its application got.
Issued == {r \in Requests : r.seq < sequenceId[r.client]}
Queued == Elements(reqQueue)
Mapped == {payloadMap[s] : s \in DOMAIN payloadMap}
Open == Queued \cup Mapped
Answered == {r \in Requests : r.seq \in Numbers(respQueue[r.client])}
Returned == {r \in Requests : r.seq \in Numbers(delivered[r.client])}

AnswerOwnRequests(c, q) ==
  \A i \in 1 .. Len(q) : q[i].answers = [client |-> c, seq |-> q[i].seq]

\* Every response queued for or delivered to a client was computed by the
\* application from that client's request of the same number, although the
\* application names a request to rmw_send_response by its number only.
ResponseMatchesRequest ==
  \A c \in Clients :
    AnswerOwnRequests(c, respQueue[c]) /\ AnswerOwnRequests(c, delivered[c])

\* A request the application still has to answer leads through
\* request_payload_map_ to its own chunk, and the port still holds that chunk:
\* rmw_send_response reads the header of a live request, of the right one.
PendingIsAnswerable ==
  \A r \in pending :
    r.seq \in DOMAIN payloadMap /\ payloadMap[r.seq] = r /\ r \in held

\* request_payload_map_ never points to a chunk the port has released.
NoDanglingPointer ==
  \A s \in DOMAIN payloadMap : payloadMap[s] \in held /\ payloadMap[s].seq = s

\* The responses an application takes come in the order of its requests, none
\* twice, however late and in whatever order the service answers.
DeliveredInOrder ==
  \A c \in Clients : \A i, j \in 1 .. Len(delivered[c]) :
    i < j => delivered[c][i].seq < delivered[c][j].seq

\* The life of a request: it was issued once and is in one place at a time, in
\* the server's queue, in the map, or as a response in its client's queue or
\* application, whatever was discarded, refused or leaked on the way.
InOnePlace ==
  /\ Open \cup Answered \cup Returned \subseteq Issued
  /\ Queued \cap Mapped = {}
  /\ Open \cap (Answered \cup Returned) = {}
  /\ Answered \cap Returned = {}

Distinct(q) == \A i, j \in 1 .. Len(q) : q[i] = q[j] => i = j
DistinctNumbers(q) == \A i, j \in 1 .. Len(q) : q[i].seq = q[j].seq => i = j

OneLife ==
  /\ InOnePlace
  /\ Distinct(reqQueue)
  /\ \A c \in Clients : DistinctNumbers(respQueue[c])

\* What rmw_take_request's comment says of the requests it holds: each is held
\* for the response to come, so the map can still find it.
HeldForItsResponse == held \subseteq Mapped

\* A request in the server's queue is answered, and the answer taken, unless
\* its client sends another, or the client or the service goes away.
RequestIsAnswered ==
  \A r \in Requests :
    r \in Queued ~>
      \/ r \in Returned
      \/ sequenceId[r.client] > r.seq + 1
      \/ ~ServerIsAvailable(r.client)

-----------------------------------------------------------------------------
(* The service as its clients see it: request s of client c is open while   *)
(* the server can still answer it and answered while its response is in the *)
(* client's queue.                                                          *)

StatusOf(r) ==
  CASE r \notin Issued -> "unissued"
    [] r \in Open -> "open"
    [] r \in Answered -> "answered"
    [] r \in Returned -> "returned"
    [] OTHER -> "lost"

statusBar == [c \in Clients |-> [s \in SequenceNumbers |->
               StatusOf([client |-> c, seq |-> s])]]

R == INSTANCE Rpc WITH status <- statusBar

\* ReqRes implements Rpc: with queues that overflow, chunks that leak, entries
\* that collide and services that restart, no request is answered twice, no
\* answer taken twice, and none that is not the latest is taken.
ImplementsRpc == R!RpcSpec
=============================================================================
