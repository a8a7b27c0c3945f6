------------------------------- MODULE PubSub -------------------------------
(***************************************************************************)
(* One topic over iceoryx: rmw_publish.cpp and rmw_take.cpp on the chunks   *)
(* of shared memory that publishers and subscriptions exchange.             *)
(*                                                                         *)
(* A chunk is in use while a publisher has it on loan, while it is in a     *)
(* subscription's queue, or while a subscription's port holds it; a loan    *)
(* is of any chunk that is not in use, and may be written to.  What matters *)
(* is that nobody writes to a chunk that somebody else still reads.         *)
(*                                                                         *)
(* Messages are numbered by their publisher.  Copying a message out of a    *)
(* chunk or into it takes time: rmw_take and rmw_publish are two steps.     *)
(***************************************************************************)
EXTENDS Integers, Sequences, FiniteSets, Functions

CONSTANTS
  Publishers,
  Subscriptions,
  Chunks,       \* the chunks of the memory pool of the topic's size
  NoChunk,      \* a null or uninitialised pointer
  MaxMessages,  \* bound on the messages of all publishers
  QueueDepth,   \* qos depth, the capacity of a subscription's queue
  MaxLoans,     \* iceoryx's limit on the chunks a publisher has on loan
  MaxHeld,      \* iceoryx's limit on the chunks a subscription holds
  Failures      \* how copying a message out of a chunk may fail

PubSubAssumption ==
  /\ NoChunk \notin Chunks
  /\ MaxMessages \in Nat
  /\ QueueDepth \in Nat \ {0}
  /\ MaxLoans \in Nat
  /\ MaxHeld \in Nat
  /\ Failures \subseteq {"resize", "deserialize"}

ASSUME PubSubAssumption

VARIABLES
  fixedSize,   \* is_fixed_size_ of the topic's type
  published,   \* published[p]: how many messages p published
  content,     \* content[ch]: the message in chunk ch, the latest written
  writing,     \* writing[p]: the chunk send_payload is copying to
  loans,       \* loans[p]: the chunks p's application has borrowed
  subscription, \* subscription[s]: does s exist, is it matched with publishers
  queue,       \* queue[s]: the chunks waiting for s, oldest first
  held,        \* held[s]: chunks the port of s took and has not released
  reading,     \* reading[s]: the chunk rmw_take is copying from
  leaked,      \* leaked[s]: chunks left held by a copy that failed
  lent,        \* lent[s]: what rmw_take_loaned_message gave the application
  received     \* received[s]: the messages s's application got, in order

publisherVars == <<published, writing, loans>>
vars == <<fixedSize, publisherVars, content, subscription, queue, held, reading,
          leaked, lent, received>>

Messages == [publisher : Publishers, number : 0 .. (MaxMessages - 1)]
NoMessage == [publisher |-> NoChunk, number |-> 0]
Contents == Messages \cup {NoMessage}
MaybeChunk == Chunks \cup {NoChunk}
Loans == [chunk : MaybeChunk, message : Contents]

TypeOK ==
  /\ fixedSize \in BOOLEAN
  /\ published \in [Publishers -> 0 .. MaxMessages]
  /\ content \in [Chunks -> Contents]
  /\ writing \in [Publishers -> MaybeChunk]
  /\ loans \in [Publishers -> SUBSET Chunks]
  /\ subscription \in [Subscriptions -> {"none", "created", "matched"}]
  /\ queue \in [Subscriptions -> Seq(Chunks)]
  /\ \A s \in Subscriptions : Len(queue[s]) <= QueueDepth
  /\ held \in [Subscriptions -> SUBSET Chunks]
  /\ reading \in [Subscriptions -> MaybeChunk]
  /\ leaked \in [Subscriptions -> SUBSET Chunks]
  /\ lent \in [Subscriptions -> SUBSET Loans]
  /\ received \in [Subscriptions -> Seq(Messages)]

Init ==
  /\ fixedSize \in BOOLEAN
  /\ published = [p \in Publishers |-> 0]
  /\ content = [ch \in Chunks |-> NoMessage]
  /\ writing = [p \in Publishers |-> NoChunk]
  /\ loans = [p \in Publishers |-> {}]
  /\ subscription = [s \in Subscriptions |-> "none"]
  /\ queue = [s \in Subscriptions |-> <<>>]
  /\ held = [s \in Subscriptions |-> {}]
  /\ reading = [s \in Subscriptions |-> NoChunk]
  /\ leaked = [s \in Subscriptions |-> {}]
  /\ lent = [s \in Subscriptions |-> {}]
  /\ received = [s \in Subscriptions |-> <<>>]

-----------------------------------------------------------------------------
(* The memory pool.                                                         *)

Elements(q) == {q[i] : i \in 1 .. Len(q)}

OnLoan(p) == loans[p] \cup ({writing[p]} \ {NoChunk})
InTransit(s) == Elements(queue[s]) \cup held[s]
Free ==
  Chunks \ ((UNION {OnLoan(p) : p \in Publishers}) \cup
            (UNION {InTransit(s) : s \in Subscriptions}))

CanLoan(p) == Free # {} /\ Cardinality(OnLoan(p)) < MaxLoans

\* Mutant: the depth of the qos profile is not passed on.
PushMutantUnbounded(q, ch) == Append(q, ch)

\* A queue whose policy on overflow is to discard the oldest element.
Push(q, ch) == Append(IF Len(q) < QueueDepth THEN q ELSE Tail(q), ch)

-----------------------------------------------------------------------------
(* Publishing.  Without a chunk to loan, publish and borrow fail and change *)
(* nothing.                                                                 *)

NextMessage(p) == [publisher |-> p, number |-> published[p]]

\* The bound on all messages, and what it means for those of p.
CanNumber(p) ==
  published[p] < MaxMessages /\ FoldFunction(+, 0, published) < MaxMessages

\* The chunk, with the message written to it, goes to every matched subscription.
Send(p, ch) ==
  /\ CanNumber(p)
  /\ published' = [published EXCEPT ![p] = @ + 1]
  /\ content' = [content EXCEPT ![ch] = NextMessage(p)]
  /\ queue' = [s \in Subscriptions |->
       IF subscription[s] = "matched" THEN Push(queue[s], ch) ELSE queue[s]]

\* send_payload, of rmw_publish and rmw_publish_serialized_message: the loan ...
PublishLoans(p) ==
  /\ writing[p] = NoChunk
  /\ CanNumber(p)
  /\ CanLoan(p)
  /\ \E ch \in Free : writing' = [writing EXCEPT ![p] = ch]
  /\ UNCHANGED <<fixedSize, published, loans, content, subscription, queue,
                 held, reading, lent, leaked, received>>

\* ... and the memcpy and publish.
PublishSends(p) ==
  /\ writing[p] # NoChunk
  /\ Send(p, writing[p])
  /\ writing' = [writing EXCEPT ![p] = NoChunk]
  /\ UNCHANGED <<fixedSize, loans, subscription, held, reading, lent, leaked,
                 received>>

\* rmw_borrow_loaned_message, which initialises the memory it gives out.
Borrow(p) ==
  /\ CanLoan(p)
  /\ \E ch \in Free :
       /\ loans' = [loans EXCEPT ![p] = @ \cup {ch}]
       /\ content' = [content EXCEPT ![ch] = NoMessage]
  /\ UNCHANGED <<fixedSize, published, writing, subscription, queue, held,
                 reading, lent, leaked, received>>

\* rmw_return_loaned_message_from_publisher.
ReturnBorrowed(p, ch) ==
  /\ ch \in loans[p]
  /\ content' = [content EXCEPT ![ch] = NoMessage]
  /\ loans' = [loans EXCEPT ![p] = @ \ {ch}]
  /\ UNCHANGED <<fixedSize, published, writing, subscription, queue, held,
                 reading, lent, leaked, received>>

\* Mutant: the publisher keeps the chunk it published.
EndOfLoanMutantKept(p, ch) == UNCHANGED loans

\* Publishing ends the loan.
EndOfLoan(p, ch) == loans' = [loans EXCEPT ![p] = @ \ {ch}]

\* rmw_publish_loaned_message, of a message the application has filled in.
PublishLoaned(p, ch) ==
  /\ fixedSize
  /\ ch \in loans[p]
  /\ Send(p, ch)
  /\ EndOfLoan(p, ch)
  /\ UNCHANGED <<fixedSize, writing, subscription, held, reading, lent, leaked,
                 received>>

\* rmw_destroy_publisher: the port's destructor frees what is on loan.  What was
\* sent stays where it is; a publisher created afterwards goes on numbering.
DestroyPublisher(p) ==
  /\ writing[p] = NoChunk
  /\ loans[p] # {}
  /\ loans' = [loans EXCEPT ![p] = {}]
  /\ UNCHANGED <<fixedSize, published, content, writing, subscription, queue,
                 held, reading, lent, leaked, received>>

-----------------------------------------------------------------------------
(* Subscriptions.                                                           *)

\* rmw_create_subscription, whose port starts to subscribe.
CreateSubscription(s) ==
  /\ subscription[s] = "none"
  /\ subscription' = [subscription EXCEPT ![s] = "created"]
  /\ UNCHANGED <<fixedSize, publisherVars, content, queue, held, reading, lent,
                 leaked, received>>

\* The iceoryx daemon matches the port with the publishers.
Match(s) ==
  /\ subscription[s] = "created"
  /\ subscription' = [subscription EXCEPT ![s] = "matched"]
  /\ UNCHANGED <<fixedSize, publisherVars, content, queue, held, reading, lent,
                 leaked, received>>

\* rmw_destroy_subscription: the port's destructor frees its queue and chunks.
DestroySubscription(s) ==
  /\ subscription[s] # "none"
  /\ reading[s] = NoChunk
  /\ subscription' = [subscription EXCEPT ![s] = "none"]
  /\ queue' = [queue EXCEPT ![s] = <<>>]
  /\ held' = [held EXCEPT ![s] = {}]
  /\ leaked' = [leaked EXCEPT ![s] = {}]
  /\ lent' = [lent EXCEPT ![s] = {}]
  /\ UNCHANGED <<fixedSize, publisherVars, content, reading, received>>

\* take() of the port: the oldest chunk leaves the queue and is held, or is lost
\* when the port holds all it may.
PortTakes(s) ==
  /\ queue[s] # <<>>
  /\ Cardinality(held[s]) < MaxHeld
  /\ queue' = [queue EXCEPT ![s] = Tail(@)]
  /\ held' = [held EXCEPT ![s] = @ \cup {Head(queue[s])}]

PortRefuses(s) ==
  /\ queue[s] # <<>> => Cardinality(held[s]) >= MaxHeld
  /\ queue' = [queue EXCEPT ![s] = IF @ = <<>> THEN @ ELSE Tail(@)]

\* Mutant: the chunk is released before it is copied.
TakeMutantReleasesFirst(s) ==
  /\ subscription[s] = "matched" /\ reading[s] = NoChunk
  /\ queue[s] # <<>>
  /\ queue' = [queue EXCEPT ![s] = Tail(@)]
  /\ reading' = [reading EXCEPT ![s] = Head(queue[s])]
  /\ UNCHANGED <<fixedSize, publisherVars, content, subscription, held, lent,
                 leaked, received>>

\* rmw_take and rmw_take_serialized_message take a chunk ...
Take(s) ==
  /\ subscription[s] = "matched" /\ reading[s] = NoChunk
  /\ PortTakes(s)
  /\ reading' = [reading EXCEPT ![s] = Head(queue[s])]
  /\ UNCHANGED <<fixedSize, publisherVars, content, subscription, lent, leaked,
                 received>>

\* Mutant: the chunk is copied and never released.
TakeCopiesMutantNoRelease(s) ==
  /\ reading[s] # NoChunk
  /\ received' = [received EXCEPT ![s] = Append(@, content[reading[s]])]
  /\ reading' = [reading EXCEPT ![s] = NoChunk]
  /\ UNCHANGED <<fixedSize, publisherVars, content, subscription, queue, held,
                 lent, leaked>>

\* ... copy the message, and release the chunk.
TakeCopies(s) ==
  /\ reading[s] # NoChunk
  /\ received' = [received EXCEPT ![s] = Append(@, content[reading[s]])]
  /\ held' = [held EXCEPT ![s] = @ \ {reading[s]}]
  /\ reading' = [reading EXCEPT ![s] = NoChunk]
  /\ UNCHANGED <<fixedSize, publisherVars, content, subscription, queue, lent,
                 leaked>>

\* The call ends before it releases the chunk, and the application has no message.
LeavesHeld(s) ==
  /\ reading[s] # NoChunk
  /\ leaked' = [leaked EXCEPT ![s] = @ \cup {reading[s]}]
  /\ reading' = [reading EXCEPT ![s] = NoChunk]
  /\ UNCHANGED <<fixedSize, publisherVars, content, subscription, queue, held, lent,
                 received>>

\* rmw_take_serialized_message cannot make room for the message, and returns.
TakeResizeFails(s) ==
  /\ "resize" \in Failures
  /\ LeavesHeld(s)

\* The deserialization of rmw_take throws, and nothing catches it: taken is not set.
TakeThrows(s) ==
  /\ "deserialize" \in Failures
  /\ ~fixedSize
  /\ LeavesHeld(s)

\* rmw_take with the port's limit reached: an error, taken is untouched.
TakeRefused(s) ==
  /\ subscription[s] = "matched" /\ reading[s] = NoChunk
  /\ queue[s] # <<>>
  /\ PortRefuses(s)
  /\ UNCHANGED <<fixedSize, publisherVars, content, subscription, held, reading,
                 lent, leaked, received>>

\* rmw_take_loaned_message: no copy, the application gets the chunk.
TakeLoaned(s) ==
  /\ fixedSize /\ subscription[s] = "matched" /\ reading[s] = NoChunk
  /\ PortTakes(s)
  /\ LET message == content[Head(queue[s])] IN
       /\ lent' = [lent EXCEPT ![s] =
            @ \cup {[chunk |-> Head(queue[s]), message |-> message]}]
       /\ received' = [received EXCEPT ![s] = Append(@, message)]
  /\ UNCHANGED <<fixedSize, publisherVars, content, subscription, reading,
                 leaked>>

\* The take fails, yet rmw_take_loaned_message sets taken and returns RMW_RET_OK,
\* its loaned_message not set.
TakeLoanedNothing(s) ==
  /\ fixedSize /\ subscription[s] # "none" /\ reading[s] = NoChunk
  /\ PortRefuses(s)
  /\ lent' = [lent EXCEPT ![s] = @ \cup {[chunk |-> NoChunk, message |-> NoMessage]}]
  /\ UNCHANGED <<fixedSize, publisherVars, content, subscription, held, reading,
                 leaked, received>>

\* rmw_return_loaned_message_from_subscription.
ReturnTaken(s, loan) ==
  /\ loan \in lent[s]
  /\ lent' = [lent EXCEPT ![s] = @ \ {loan}]
  /\ held' = [held EXCEPT ![s] = @ \ {loan.chunk}]
  /\ UNCHANGED <<fixedSize, publisherVars, content, subscription, queue,
                 reading, leaked, received>>

PublisherActs(p) ==
  \/ PublishLoans(p)
  \/ PublishSends(p)
  \/ Borrow(p)
  \/ DestroyPublisher(p)
  \/ \E ch \in loans[p] : ReturnBorrowed(p, ch) \/ PublishLoaned(p, ch)

SubscriptionActs(s) ==
  \/ CreateSubscription(s)
  \/ Match(s)
  \/ DestroySubscription(s)
  \/ Take(s)
  \/ TakeCopies(s)
  \/ TakeResizeFails(s)
  \/ TakeThrows(s)
  \/ TakeRefused(s)
  \/ TakeLoaned(s)
  \/ TakeLoanedNothing(s)
  \/ \E loan \in lent[s] : ReturnTaken(s, loan)

Next ==
  \/ \E p \in Publishers : PublisherActs(p)
  \/ \E s \in Subscriptions : SubscriptionActs(s)

Spec == Init /\ [][Next]_vars

-----------------------------------------------------------------------------
(* Properties.                                                              *)

\* Only the publisher that has a chunk on loan can write to it, and nobody reads
\* it: it is on loan once, in no subscription's queue and held by none.
LoanIsExclusive ==
  \A p \in Publishers : \A ch \in OnLoan(p) :
    /\ \A q \in Publishers \ {p} : ch \notin OnLoan(q)
    /\ \A s \in Subscriptions : ch \notin InTransit(s)
    /\ writing[p] \notin loans[p]

\* A message that rmw_take_loaned_message gave to the application does not change
\* in the application's hands until it is returned.
LoanedStaysIntact ==
  \A s \in Subscriptions : \A loan \in lent[s] :
    loan.chunk \in Chunks => content[loan.chunk] = loan.message

PublishedSoFar == {m \in Messages : m.number < published[m.publisher]}

\* A subscription receives the messages of one publisher in the order they were
\* published, none twice, whether it takes them by copy or by loan, and none that
\* no publisher published.
ReceivedInOrder ==
  \A s \in Subscriptions : \A i, j \in 1 .. Len(received[s]) :
    /\ received[s][i] \in PublishedSoFar
    /\ i < j /\ received[s][i].publisher = received[s][j].publisher
         => received[s][i].number < received[s][j].number

\* The chunks a subscription's port holds are those its application has to give
\* back, the one that is being copied, and those of copies that failed: of a
\* serialized message there was no room for, or of one whose deserialization threw
\* an exception.  No other call leaves a chunk held for nobody.
NoChunkLeaks ==
  \A s \in Subscriptions :
    held[s] = ({loan.chunk : loan \in lent[s]} \cup {reading[s]} \cup leaked[s])
              \ {NoChunk}

\* What rmw_take_loaned_message reports as taken is a chunk the port holds: the
\* application was given a loaned message.
TakenLoanIsHeld ==
  \A s \in Subscriptions : \A loan \in lent[s] : loan.chunk \in held[s]

-----------------------------------------------------------------------------
(* The topic as its subscriptions see it: the messages on their way are     *)
(* those in the chunks that wait in the queue or are being copied.          *)

Unread(s) == Elements(queue[s]) \cup ({reading[s]} \ {NoChunk})

inboxBar == [s \in Subscriptions |-> {content[ch] : ch \in Unread(s)}]

T == INSTANCE Topic WITH inbox <- inboxBar, got <- received

\* PubSub implements Topic: although chunks are reused, discarded from queues,
\* leaked and lent to several subscriptions at once, every message received is
\* the one published, once and in its publisher's order.
ImplementsTopic == T!TopicSpec
=============================================================================
