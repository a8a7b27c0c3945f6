---------------------------- MODULE PubSubProofs ----------------------------
(***************************************************************************)
(* What a topic guarantees for any number of publishers, subscriptions and  *)
(* chunks, and any depth of the queues.                                     *)
(***************************************************************************)
EXTENDS PubSub, TLAPS

-----------------------------------------------------------------------------
(* The inductive invariant.                                                 *)

\* A chunk is in a queue once, and not while the port holds it.
QueuedOnce ==
  \A s \in Subscriptions : \A i \in 1 .. Len(queue[s]) :
    /\ queue[s][i] \notin held[s]
    /\ \A j \in 1 .. Len(queue[s]) : queue[s][i] = queue[s][j] => i = j

\* A chunk is held for one reason.
HeldOnce ==
  \A s \in Subscriptions :
    /\ reading[s] \notin leaked[s]
    /\ \A loan \in lent[s] :
         /\ loan.chunk \in Chunks => loan.chunk # reading[s]
         /\ loan.chunk \notin leaked[s]
         /\ \A other \in lent[s] :
              loan.chunk = other.chunk /\ loan.chunk \in Chunks => loan = other

PoolInv ==
  LoanIsExclusive /\ QueuedOnce /\ HeldOnce /\ NoChunkLeaks /\ LoanedStaysIntact

Earlier(m, n) == m.publisher = n.publisher => m.number < n.number

\* What s received, is reading, and finds in its queue comes in this order, publisher
\* by publisher.
InOrder(s) ==
  /\ \A ch \in Unread(s) : content[ch] \in PublishedSoFar
  /\ \A i \in 1 .. Len(received[s]) :
       /\ received[s][i] \in PublishedSoFar
       /\ \A j \in 1 .. Len(received[s]) : i < j => Earlier(received[s][i], received[s][j])
       /\ \A ch \in Unread(s) : Earlier(received[s][i], content[ch])
  /\ \A i \in 1 .. Len(queue[s]) :
       /\ reading[s] # NoChunk => Earlier(content[reading[s]], content[queue[s][i]])
       /\ \A j \in 1 .. Len(queue[s]) :
            i < j => Earlier(content[queue[s][i]], content[queue[s][j]])

OrderInv == \A s \in Subscriptions : InOrder(s)

PubSubInv == TypeOK /\ PoolInv /\ OrderInv

-----------------------------------------------------------------------------
(* Queues and the pool.                                                     *)

\* Taking the oldest element of a queue shifts the others by one.
LEMMA TailFacts ==
  ASSUME NEW S, NEW s \in Seq(S), s # <<>>
  PROVE  /\ Head(s) = s[1] /\ Head(s) \in S /\ Len(s) \in Nat /\ Len(s) >= 1
         /\ Tail(s) \in Seq(S) /\ Len(Tail(s)) = Len(s) - 1
         /\ \A i \in 1 .. Len(Tail(s)) : Tail(s)[i] = s[i + 1]
  OBVIOUS

\* A push keeps the depth, discards at most the oldest, and puts the chunk last.
LEMMA PushFacts ==
  ASSUME NEW q \in Seq(Chunks), Len(q) <= QueueDepth, NEW ch \in Chunks
  PROVE  /\ Push(q, ch) \in Seq(Chunks)
         /\ Len(Push(q, ch)) <= QueueDepth
         /\ \E d \in {0, 1} : \A i \in 1 .. Len(Push(q, ch)) :
              \/ i = Len(Push(q, ch)) /\ Push(q, ch)[i] = ch
              \/ /\ i < Len(Push(q, ch))
                 /\ i + d \in 1 .. Len(q) /\ Push(q, ch)[i] = q[i + d]
<1>1. Len(q) \in Nat /\ QueueDepth \in Nat /\ QueueDepth >= 1
  BY PubSubAssumption DEF PubSubAssumption
<1>2. ASSUME NEW r \in Seq(Chunks)
      PROVE  /\ Append(r, ch) \in Seq(Chunks) /\ Len(Append(r, ch)) = Len(r) + 1
             /\ Len(r) \in Nat
             /\ \A i \in 1 .. Len(r) : Append(r, ch)[i] = r[i]
             /\ Append(r, ch)[Len(r) + 1] = ch
  OBVIOUS
<1>3. CASE Len(q) < QueueDepth
  <2>1. Push(q, ch) = Append(q, ch)
    BY <1>3 DEF Push
  <2>2. \A i \in 1 .. Len(Push(q, ch)) :
          \/ i = Len(Push(q, ch)) /\ Push(q, ch)[i] = ch
          \/ i < Len(Push(q, ch)) /\ i + 0 \in 1 .. Len(q) /\ Push(q, ch)[i] = q[i + 0]
    BY <1>2, <2>1
  <2> QED BY <1>1, <1>2, <1>3, <2>1, <2>2
<1>4. CASE ~(Len(q) < QueueDepth)
  <2>1. Push(q, ch) = Append(Tail(q), ch)
    BY <1>4 DEF Push
  <2>2. q # <<>>
    BY <1>1, <1>4
  <2>3. /\ Tail(q) \in Seq(Chunks) /\ Len(Tail(q)) = Len(q) - 1
        /\ \A i \in 1 .. Len(Tail(q)) : Tail(q)[i] = q[i + 1]
    BY <2>2, TailFacts
  <2>4. /\ Push(q, ch) \in Seq(Chunks) /\ Len(Push(q, ch)) = Len(q)
        /\ \A i \in 1 .. Len(q) - 1 : Push(q, ch)[i] = q[i + 1]
        /\ Push(q, ch)[Len(q)] = ch
    BY <1>1, <1>2, <2>1, <2>3
  <2>5. \A i \in 1 .. Len(Push(q, ch)) :
          \/ i = Len(Push(q, ch)) /\ Push(q, ch)[i] = ch
          \/ i < Len(Push(q, ch)) /\ i + 1 \in 1 .. Len(q) /\ Push(q, ch)[i] = q[i + 1]
    BY <1>1, <2>4
  <2> QED BY <2>4, <2>5
<1> QED BY <1>3, <1>4

\* The queue of s after a step: what it was without its d oldest chunks, and
\* possibly less.
Shifted(s, d) ==
  \A i \in 1 .. Len(queue'[s]) :
    i + d \in 1 .. Len(queue[s]) /\ queue'[s][i] = queue[s][i + d]

\* A take removes the oldest chunk of one queue and leaves the others.
LEMMA QueueTail ==
  ASSUME TypeOK, NEW s \in Subscriptions, queue[s] # <<>>,
         queue' = [queue EXCEPT ![s] = Tail(@)]
  PROVE  /\ Head(queue[s]) = queue[s][1] /\ 1 \in 1 .. Len(queue[s])
         /\ Head(queue[s]) \in Chunks
         /\ Shifted(s, 1)
         /\ queue' \in [Subscriptions -> Seq(Chunks)]
         /\ \A t \in Subscriptions : Len(queue'[t]) <= QueueDepth
         /\ Len(queue'[s]) = Len(queue[s]) - 1 /\ Len(queue[s]) \in Nat
         /\ \A t \in Subscriptions : t # s => queue'[t] = queue[t]
<1>1. queue[s] \in Seq(Chunks) /\ queue'[s] = Tail(queue[s])
  BY DEF TypeOK
<1>2. \A t \in Subscriptions : t # s => queue'[t] = queue[t]
  BY DEF TypeOK
<1>3. /\ Head(queue[s]) = queue[s][1] /\ Head(queue[s]) \in Chunks
      /\ Len(queue[s]) \in Nat /\ Len(queue[s]) >= 1
      /\ queue'[s] \in Seq(Chunks) /\ Len(queue'[s]) = Len(queue[s]) - 1
      /\ \A i \in 1 .. Len(queue'[s]) : queue'[s][i] = queue[s][i + 1]
  <2> DEFINE q == queue[s]
  <2>1. q \in Seq(Chunks) /\ q # <<>> /\ queue'[s] = Tail(q)
    BY <1>1
  <2> HIDE DEF q
  <2>2. /\ Head(q) = q[1] /\ Head(q) \in Chunks /\ Len(q) \in Nat /\ Len(q) >= 1
        /\ Tail(q) \in Seq(Chunks) /\ Len(Tail(q)) = Len(q) - 1
        /\ \A i \in 1 .. Len(Tail(q)) : Tail(q)[i] = q[i + 1]
    BY <2>1, TailFacts
  <2> QED BY <2>1, <2>2 DEF q
<1>4. Shifted(s, 1)
  BY <1>3 DEF Shifted
<1>5. queue' \in [Subscriptions -> Seq(Chunks)]
  BY <1>1, <1>3 DEF TypeOK
<1>6. QueueDepth \in Nat
  BY PubSubAssumption DEF PubSubAssumption
<1>7. \A t \in Subscriptions : Len(queue'[t]) <= QueueDepth
  <2>1. Len(queue'[s]) <= QueueDepth
    BY <1>3, <1>6 DEF TypeOK
  <2> QED BY <1>2, <2>1 DEF TypeOK
<1> QED BY <1>2, <1>3, <1>4, <1>5, <1>7

\* A send puts its chunk at the ends of queues, of which a full one loses its oldest.
LEMMA SendQueue ==
  ASSUME TypeOK, NEW p \in Publishers, NEW ch \in Chunks, Send(p, ch)
  PROVE  /\ queue' \in [Subscriptions -> Seq(Chunks)]
         /\ \A s \in Subscriptions : Len(queue'[s]) <= QueueDepth
         /\ \A s \in Subscriptions : \E d \in {0, 1} : \A i \in 1 .. Len(queue'[s]) :
              \/ i = Len(queue'[s]) /\ queue'[s][i] = ch
              \/ i + d \in 1 .. Len(queue[s]) /\ queue'[s][i] = queue[s][i + d]
<1>1. ASSUME NEW s \in Subscriptions
      PROVE  /\ queue'[s] \in Seq(Chunks) /\ Len(queue'[s]) <= QueueDepth
             /\ \E d \in {0, 1} : \A i \in 1 .. Len(queue'[s]) :
                  \/ i = Len(queue'[s]) /\ queue'[s][i] = ch
                  \/ i + d \in 1 .. Len(queue[s]) /\ queue'[s][i] = queue[s][i + d]
  <2>1. queue[s] \in Seq(Chunks) /\ Len(queue[s]) <= QueueDepth
    BY DEF TypeOK
  <2>2. CASE subscription[s] = "matched"
    <3>1. queue'[s] = Push(queue[s], ch)
      BY <2>2 DEF Send
    <3>2. /\ Push(queue[s], ch) \in Seq(Chunks) /\ Len(Push(queue[s], ch)) <= QueueDepth
          /\ \E d \in {0, 1} : \A i \in 1 .. Len(Push(queue[s], ch)) :
               \/ i = Len(Push(queue[s], ch)) /\ Push(queue[s], ch)[i] = ch
               \/ /\ i < Len(Push(queue[s], ch))
                  /\ i + d \in 1 .. Len(queue[s])
                  /\ Push(queue[s], ch)[i] = queue[s][i + d]
      BY <2>1, PushFacts
    <3> QED BY <3>1, <3>2
  <2>3. CASE subscription[s] # "matched"
    <3>1. queue'[s] = queue[s]
      BY <2>3 DEF Send
    <3>2. \A i \in 1 .. Len(queue'[s]) :
            i + 0 \in 1 .. Len(queue[s]) /\ queue'[s][i] = queue[s][i + 0]
      BY <2>1, <3>1
    <3> QED BY <2>1, <3>1, <3>2
  <2> QED BY <2>2, <2>3
<1>2. queue' = [s \in Subscriptions |->
        IF subscription[s] = "matched" THEN Push(queue[s], ch) ELSE queue[s]]
  BY DEF Send
<1> QED BY <1>1, <1>2

\* The chunks in use.
LEMMA InUse ==
  ASSUME TypeOK
  PROVE  /\ \A p \in Publishers : OnLoan(p) \subseteq Chunks
         /\ \A s \in Subscriptions : \A i \in 1 .. Len(queue[s]) :
              queue[s][i] \in InTransit(s) /\ queue[s][i] \in Chunks
         /\ \A s \in Subscriptions : held[s] \subseteq InTransit(s)
         /\ \A ch \in Free : /\ ch \in Chunks
                             /\ \A p \in Publishers : ch \notin OnLoan(p)
                             /\ \A s \in Subscriptions : ch \notin InTransit(s)
<1>1. \A p \in Publishers : OnLoan(p) \subseteq Chunks
  BY DEF TypeOK, OnLoan, MaybeChunk
<1>2. ASSUME NEW s \in Subscriptions, NEW i \in 1 .. Len(queue[s])
      PROVE  queue[s][i] \in InTransit(s) /\ queue[s][i] \in Chunks
  <2>1. queue[s] \in Seq(Chunks)
    BY DEF TypeOK
  <2> QED BY <2>1 DEF InTransit, Elements
<1>3. \A s \in Subscriptions : held[s] \subseteq InTransit(s)
  BY DEF InTransit
<1>4. \A ch \in Free : /\ ch \in Chunks
                       /\ \A p \in Publishers : ch \notin OnLoan(p)
                       /\ \A s \in Subscriptions : ch \notin InTransit(s)
  <2> DEFINE AllOnLoan == UNION {OnLoan(p) : p \in Publishers}
             AllInTransit == UNION {InTransit(s) : s \in Subscriptions}
  <2>1. \A p \in Publishers : OnLoan(p) \subseteq AllOnLoan
    BY Zenon
  <2>2. \A s \in Subscriptions : InTransit(s) \subseteq AllInTransit
    BY Zenon
  <2>3. Free = Chunks \ (AllOnLoan \cup AllInTransit)
    BY DEF Free
  <2> HIDE DEF AllOnLoan, AllInTransit
  <2> QED BY <2>1, <2>2, <2>3
<1> QED BY <1>1, <1>2, <1>3, <1>4

\* The chunk that is being copied, and those that are lent or leaked, are held.
LEMMA HeldChunks ==
  ASSUME TypeOK, NoChunkLeaks, NEW s \in Subscriptions
  PROVE  /\ reading[s] # NoChunk => reading[s] \in held[s] /\ reading[s] \in Chunks
         /\ leaked[s] \subseteq held[s] /\ leaked[s] \subseteq Chunks
         /\ \A loan \in lent[s] : loan.chunk \in Chunks => loan.chunk \in held[s]
         /\ Unread(s) \subseteq InTransit(s)
         /\ NoChunk \notin held[s]
<1>1. NoChunk \notin Chunks /\ leaked[s] \subseteq Chunks /\ reading[s] \in MaybeChunk
  BY PubSubAssumption DEF PubSubAssumption, TypeOK
<1>2. held[s] = ({loan.chunk : loan \in lent[s]} \cup {reading[s]} \cup leaked[s])
                \ {NoChunk}
  BY DEF NoChunkLeaks
<1> QED BY <1>1, <1>2 DEF MaybeChunk, Unread, InTransit

\* The content of a chunk that a subscription has or awaits does not change.
LEMMA TransitKeepsContent ==
  ASSUME TypeOK, LoanIsExclusive, [Next]_vars
  PROVE  \A s \in Subscriptions : \A ch \in InTransit(s) : content'[ch] = content[ch]
<1>1. ASSUME NEW p \in Publishers, NEW ch \in OnLoan(p), NEW m,
             content' = [content EXCEPT ![ch] = m]
      PROVE  \A s \in Subscriptions : \A c \in InTransit(s) : content'[c] = content[c]
  <2>1. \A s \in Subscriptions : \A c \in InTransit(s) : c # ch
    BY DEF LoanIsExclusive
  <2> QED BY <1>1, <2>1
<1>2. ASSUME NEW p \in Publishers, PublisherActs(p)
      PROVE  \A s \in Subscriptions : \A c \in InTransit(s) : content'[c] = content[c]
  <2>1. CASE PublishSends(p)
    <3>1. writing[p] \in OnLoan(p) /\ content' = [content EXCEPT ![writing[p]] = NextMessage(p)]
      BY <2>1 DEF PublishSends, Send, OnLoan
    <3> QED BY <1>1, <3>1
  <2>2. CASE Borrow(p)
    <3>1. PICK ch \in Free : content' = [content EXCEPT ![ch] = NoMessage]
      BY <2>2 DEF Borrow
    <3> QED BY <3>1, InUse
  <2>3. CASE PublishLoans(p) \/ DestroyPublisher(p)
    BY <2>3 DEF PublishLoans, DestroyPublisher
  <2>4. ASSUME NEW ch \in loans[p], ReturnBorrowed(p, ch) \/ PublishLoaned(p, ch)
        PROVE  \A s \in Subscriptions : \A c \in InTransit(s) : content'[c] = content[c]
    <3>1. ch \in OnLoan(p)
      BY DEF OnLoan
    <3>2. \E m : content' = [content EXCEPT ![ch] = m]
      BY <2>4 DEF ReturnBorrowed, PublishLoaned, Send
    <3> QED BY <1>1, <3>1, <3>2
  <2> QED BY <1>2, <2>1, <2>2, <2>3, <2>4 DEF PublisherActs
<1>3. ASSUME NEW s \in Subscriptions, SubscriptionActs(s)
      PROVE  content' = content
  BY <1>3 DEF SubscriptionActs, CreateSubscription, Match, DestroySubscription, Take,
              TakeCopies, TakeResizeFails, TakeThrows, LeavesHeld,
              TakeRefused, TakeLoaned, TakeLoanedNothing,
              ReturnTaken
<1>4. CASE UNCHANGED vars
  BY <1>4 DEF vars
<1> QED BY <1>2, <1>3, <1>4 DEF Next

-----------------------------------------------------------------------------
(* The pool: who has which chunk.                                           *)

\* No chunk gets into anybody's hands.
LEMMA ExclusiveShrinks ==
  ASSUME LoanIsExclusive,
         \A p \in Publishers : OnLoan(p)' \subseteq OnLoan(p),
         \A p \in Publishers : /\ loans'[p] \subseteq loans[p]
                               /\ writing'[p] \in {writing[p], NoChunk},
         \A p \in Publishers : NoChunk \notin loans[p],
         \A s \in Subscriptions : InTransit(s)' \subseteq InTransit(s)
  PROVE  LoanIsExclusive'
<1>1. ASSUME NEW p \in Publishers, NEW ch \in OnLoan(p)'
      PROVE  /\ \A q \in Publishers \ {p} : ch \notin OnLoan(q)'
             /\ \A s \in Subscriptions : ch \notin InTransit(s)'
             /\ writing'[p] \notin loans'[p]
  <2>1. ch \in OnLoan(p)
    OBVIOUS
  <2>2. /\ \A q \in Publishers \ {p} : ch \notin OnLoan(q)
        /\ \A s \in Subscriptions : ch \notin InTransit(s)
        /\ writing[p] \notin loans[p]
    BY <2>1 DEF LoanIsExclusive
  <2> QED BY <2>2
<1> QED BY <1>1 DEF LoanIsExclusive

\* A publisher gets a chunk that was free.
LEMMA ExclusiveLoans ==
  ASSUME TypeOK, LoanIsExclusive, NEW p \in Publishers, NEW ch \in Free,
         UNCHANGED <<queue, held>>,
         \A q \in Publishers \ {p} : OnLoan(q)' = OnLoan(q),
         \/ loans' = loans /\ writing' = [writing EXCEPT ![p] = ch]
         \/ writing' = writing /\ loans' = [loans EXCEPT ![p] = @ \cup {ch}],
         \A q \in Publishers : writing[q] \notin loans[q],
         OnLoan(p)' \subseteq OnLoan(p) \cup {ch}
  PROVE  LoanIsExclusive'
<1>1. /\ ch \in Chunks
      /\ \A q \in Publishers : ch \notin OnLoan(q)
      /\ \A s \in Subscriptions : ch \notin InTransit(s)
  BY InUse
<1>2. \A s \in Subscriptions : InTransit(s)' = InTransit(s)
  BY DEF InTransit
<1>3. \A q \in Publishers : writing'[q] \notin loans'[q]
  <2>1. ch \notin loans[p] /\ (ch # NoChunk => ch # writing[p])
    BY <1>1 DEF OnLoan
  <2>2. ch # NoChunk
    BY <1>1, PubSubAssumption DEF PubSubAssumption
  <2>3. /\ writing \in [Publishers -> MaybeChunk]
        /\ loans \in [Publishers -> SUBSET Chunks]
    BY DEF TypeOK
  <2>4. CASE loans' = loans /\ writing' = [writing EXCEPT ![p] = ch]
    BY <2>1, <2>3, <2>4
  <2>5. CASE writing' = writing /\ loans' = [loans EXCEPT ![p] = @ \cup {ch}]
    <3>1. ASSUME NEW q \in Publishers PROVE writing[q] \notin loans'[q]
      <4>1. CASE q = p
        BY <2>1, <2>2, <2>3, <2>5, <4>1
      <4>2. CASE q # p
        BY <2>3, <2>5, <4>2
      <4> QED BY <4>1, <4>2
    <3> QED BY <2>5, <3>1
  <2> QED BY <2>4, <2>5
<1>4. ASSUME NEW q \in Publishers, NEW c \in OnLoan(q)'
      PROVE  /\ \A r \in Publishers \ {q} : c \notin OnLoan(r)'
             /\ \A s \in Subscriptions : c \notin InTransit(s)'
  <2>1. c \in OnLoan(q) \/ (q = p /\ c = ch)
    OBVIOUS
  <2>2. CASE c \in OnLoan(q)
    <3>1. c # ch /\ \A r \in Publishers \ {q} : c \notin OnLoan(r)
      BY <1>1, <2>2 DEF LoanIsExclusive
    <3>2. \A s \in Subscriptions : c \notin InTransit(s)
      BY <2>2 DEF LoanIsExclusive
    <3> QED BY <1>2, <3>1, <3>2
  <2>3. CASE q = p /\ c = ch
    BY <1>1, <1>2, <2>3
  <2> QED BY <2>1, <2>2, <2>3
<1> QED BY <1>3, <1>4 DEF LoanIsExclusive

\* A publisher never has the chunk it copies to on loan from its application too.
LEMMA WritingIsNotLent ==
  ASSUME TypeOK, LoanIsExclusive
  PROVE  \A p \in Publishers : writing[p] \notin loans[p]
<1> SUFFICES ASSUME NEW p \in Publishers, writing[p] \in loans[p] PROVE FALSE
  OBVIOUS
<1>1. writing[p] \in OnLoan(p)
  BY DEF OnLoan
<1> QED BY <1>1 DEF LoanIsExclusive

\* A chunk that was sent is no longer on loan, and was in nobody's hands before.
LEMMA ExclusiveSends ==
  ASSUME TypeOK, LoanIsExclusive, NEW p \in Publishers, NEW ch \in OnLoan(p),
         Send(p, ch), held' = held,
         \A q \in Publishers : OnLoan(q)' \subseteq OnLoan(q),
         \A q \in Publishers : /\ loans'[q] \subseteq loans[q]
                               /\ writing'[q] \in {writing[q], NoChunk},
         ch \notin OnLoan(p)'
  PROVE  LoanIsExclusive'
<1>1. ch \in Chunks
  BY InUse
<1>2. \A s \in Subscriptions : InTransit(s)' \subseteq InTransit(s) \cup {ch}
  <2>1. ASSUME NEW s \in Subscriptions, NEW i \in 1 .. Len(queue'[s])
        PROVE  queue'[s][i] \in InTransit(s) \cup {ch}
    <3>1. PICK d \in {0, 1} : \A k \in 1 .. Len(queue'[s]) :
            \/ k = Len(queue'[s]) /\ queue'[s][k] = ch
            \/ k + d \in 1 .. Len(queue[s]) /\ queue'[s][k] = queue[s][k + d]
      BY <1>1, SendQueue
    <3> QED BY <3>1, InUse
  <2> QED BY <2>1 DEF InTransit, Elements
<1>3. ASSUME NEW q \in Publishers, NEW c \in OnLoan(q)'
      PROVE  /\ \A r \in Publishers \ {q} : c \notin OnLoan(r)'
             /\ \A s \in Subscriptions : c \notin InTransit(s)'
             /\ writing'[q] \notin loans'[q]
  <2>1. c \in OnLoan(q) /\ c # ch
    BY DEF LoanIsExclusive
  <2>2. /\ \A r \in Publishers \ {q} : c \notin OnLoan(r)
        /\ \A s \in Subscriptions : c \notin InTransit(s)
        /\ writing[q] \notin loans[q]
    BY <2>1 DEF LoanIsExclusive
  <2>3. NoChunk \notin loans[q]
    BY PubSubAssumption DEF PubSubAssumption, TypeOK
  <2> QED BY <1>2, <2>1, <2>2, <2>3
<1> QED BY <1>3 DEF LoanIsExclusive

\* What a publisher does leaves each chunk in one use.
LEMMA PublisherPool ==
  ASSUME TypeOK, PoolInv, NEW p \in Publishers, PublisherActs(p)
  PROVE  PoolInv'
<1> USE DEF PoolInv
<1>1. UNCHANGED <<subscription, held, reading, lent, leaked, received>>
  BY DEF PublisherActs, PublishLoans, PublishSends, Borrow, DestroyPublisher,
         ReturnBorrowed, PublishLoaned
<1>2. /\ writing \in [Publishers -> MaybeChunk] /\ loans \in [Publishers -> SUBSET Chunks]
      /\ NoChunk \notin Chunks
      /\ \A q \in Publishers : writing[q] \notin loans[q] /\ NoChunk \notin loans[q]
  BY PubSubAssumption, WritingIsNotLent DEF PubSubAssumption, TypeOK
<1>3. LoanIsExclusive' /\ QueuedOnce'
  <2>1. CASE PublishLoans(p)
    <3>1. PICK ch \in Free : writing' = [writing EXCEPT ![p] = ch]
      BY <2>1 DEF PublishLoans
    <3>2. loans' = loans /\ UNCHANGED <<queue, held>>
      BY <2>1 DEF PublishLoans
    <3>3. /\ \A q \in Publishers \ {p} : OnLoan(q)' = OnLoan(q)
          /\ OnLoan(p)' \subseteq OnLoan(p) \cup {ch}
      BY <1>2, <3>1, <3>2 DEF OnLoan
    <3> QED BY <1>2, <3>1, <3>2, <3>3, ExclusiveLoans DEF QueuedOnce
  <2>2. CASE Borrow(p)
    <3>1. PICK ch \in Free : loans' = [loans EXCEPT ![p] = @ \cup {ch}]
      BY <2>2 DEF Borrow
    <3>2. writing' = writing /\ UNCHANGED <<queue, held>>
      BY <2>2 DEF Borrow
    <3>3. /\ \A q \in Publishers \ {p} : OnLoan(q)' = OnLoan(q)
          /\ OnLoan(p)' \subseteq OnLoan(p) \cup {ch}
      BY <1>2, <3>1, <3>2 DEF OnLoan
    <3> QED BY <1>2, <3>1, <3>2, <3>3, ExclusiveLoans DEF QueuedOnce
  <2>3. ASSUME NEW ch \in OnLoan(p), Send(p, ch), ch \notin OnLoan(p)',
               \A q \in Publishers : /\ loans'[q] \subseteq loans[q]
                                     /\ writing'[q] \in {writing[q], NoChunk}
        PROVE  LoanIsExclusive' /\ QueuedOnce'
    <3>1. \A q \in Publishers : OnLoan(q)' \subseteq OnLoan(q)
      BY <2>3 DEF OnLoan
    <3>2. LoanIsExclusive'
      BY <1>1, <2>3, <3>1, ExclusiveSends
    <3>3. ch \in Chunks /\ \A s \in Subscriptions : ch \notin InTransit(s)
      BY InUse DEF LoanIsExclusive
    <3>4. ASSUME NEW s \in Subscriptions, NEW i \in 1 .. Len(queue'[s])
          PROVE  /\ queue'[s][i] \notin held'[s]
                 /\ \A j \in 1 .. Len(queue'[s]) : queue'[s][i] = queue'[s][j] => i = j
      <4>1. PICK d \in {0, 1} : \A k \in 1 .. Len(queue'[s]) :
              \/ k = Len(queue'[s]) /\ queue'[s][k] = ch
              \/ k + d \in 1 .. Len(queue[s]) /\ queue'[s][k] = queue[s][k + d]
        BY <2>3, <3>3, SendQueue
      <4>2. \A k \in 1 .. Len(queue[s]) : queue[s][k] # ch /\ queue[s][k] \notin held[s]
        BY <3>3, InUse DEF QueuedOnce
      <4>3. ch \notin held[s]
        BY <3>3, InUse
      <4>4. queue'[s][i] \notin held'[s]
        BY <1>1, <4>1, <4>2, <4>3
      <4>5. ASSUME NEW j \in 1 .. Len(queue'[s]), queue'[s][i] = queue'[s][j]
            PROVE  i = j
        <5>1. CASE i = Len(queue'[s]) /\ queue'[s][i] = ch
          BY <4>1, <4>2, <4>5, <5>1
        <5>2. CASE i + d \in 1 .. Len(queue[s]) /\ queue'[s][i] = queue[s][i + d]
          <6>1. j + d \in 1 .. Len(queue[s]) /\ queue'[s][j] = queue[s][j + d]
            BY <4>1, <4>2, <4>5, <5>2
          <6>2. i + d = j + d
            BY <4>5, <5>2, <6>1 DEF QueuedOnce
          <6> QED BY <4>1, <6>2
        <5> QED BY <4>1, <5>1, <5>2
      <4> QED BY <4>4, <4>5
    <3> QED BY <3>2, <3>4 DEF QueuedOnce
  <2>4. CASE PublishSends(p)
    <3>1. writing[p] # NoChunk /\ Send(p, writing[p])
          /\ writing' = [writing EXCEPT ![p] = NoChunk] /\ loans' = loans
      BY <2>4 DEF PublishSends
    <3>2. writing[p] \in OnLoan(p) /\ writing[p] \notin OnLoan(p)'
      BY <1>2, <3>1 DEF OnLoan
    <3> QED BY <1>2, <2>3, <3>1, <3>2
  <2>5. ASSUME NEW ch \in loans[p], PublishLoaned(p, ch)
        PROVE  LoanIsExclusive' /\ QueuedOnce'
    <3>1. Send(p, ch) /\ loans' = [loans EXCEPT ![p] = @ \ {ch}] /\ writing' = writing
      BY <2>5 DEF PublishLoaned, EndOfLoan
    <3>2. ch \in OnLoan(p) /\ ch \notin OnLoan(p)'
      BY <1>2, <3>1 DEF OnLoan
    <3>3. \A q \in Publishers : /\ loans'[q] \subseteq loans[q]
                                /\ writing'[q] \in {writing[q], NoChunk}
      BY <1>2, <3>1
    <3> QED BY <2>3, <3>1, <3>2, <3>3
  <2>6. ASSUME NEW rest \in SUBSET loans[p], loans' = [loans EXCEPT ![p] = rest],
               UNCHANGED <<writing, queue>>
        PROVE  LoanIsExclusive' /\ QueuedOnce'
    <3>1. \A q \in Publishers : /\ loans'[q] \subseteq loans[q]
                                /\ writing'[q] \in {writing[q], NoChunk}
      BY <1>2, <2>6
    <3>2. \A q \in Publishers : OnLoan(q)' \subseteq OnLoan(q)
      BY <2>6, <3>1 DEF OnLoan
    <3>3. \A s \in Subscriptions : InTransit(s)' \subseteq InTransit(s)
      BY <1>1, <2>6 DEF InTransit
    <3>4. LoanIsExclusive'
      BY <1>2, <3>1, <3>2, <3>3, ExclusiveShrinks
    <3> QED BY <1>1, <2>6, <3>4 DEF QueuedOnce
  <2>7. CASE DestroyPublisher(p)
    BY <2>6, <2>7 DEF DestroyPublisher
  <2>8. ASSUME NEW ch \in loans[p], ReturnBorrowed(p, ch)
        PROVE  LoanIsExclusive' /\ QueuedOnce'
    <3>1. loans' = [loans EXCEPT ![p] = loans[p] \ {ch}] /\ UNCHANGED <<writing, queue>>
      BY <2>8 DEF ReturnBorrowed
    <3> QED BY <2>6, <3>1
  <2> QED BY <2>1, <2>2, <2>4, <2>5, <2>7, <2>8 DEF PublisherActs
<1>4. HeldOnce' /\ NoChunkLeaks'
  BY <1>1 DEF HeldOnce, NoChunkLeaks
<1>5. LoanedStaysIntact'
  <2>1. \A s \in Subscriptions : \A ch \in InTransit(s) : content'[ch] = content[ch]
    BY TransitKeepsContent DEF Next
  <2>2. ASSUME NEW s \in Subscriptions, NEW loan \in lent[s], loan.chunk \in Chunks
        PROVE  content'[loan.chunk] = loan.message
    <3>1. loan.chunk \in InTransit(s)
      BY <2>2, HeldChunks, InUse
    <3> QED BY <2>1, <2>2, <3>1 DEF LoanedStaysIntact
  <2> QED BY <1>1, <2>2 DEF LoanedStaysIntact
<1> QED BY <1>3, <1>4, <1>5

\* The part of the invariant that is about the chunks of one subscription.
HoldsOnce(s) ==
  /\ \A i \in 1 .. Len(queue[s]) :
       /\ queue[s][i] \notin held[s]
       /\ \A j \in 1 .. Len(queue[s]) : queue[s][i] = queue[s][j] => i = j
  /\ reading[s] \notin leaked[s]
  /\ \A loan \in lent[s] :
       /\ loan.chunk \in Chunks => loan.chunk # reading[s]
       /\ loan.chunk \notin leaked[s]
       /\ \A other \in lent[s] :
            loan.chunk = other.chunk /\ loan.chunk \in Chunks => loan = other
  /\ held[s] = ({loan.chunk : loan \in lent[s]} \cup {reading[s]} \cup leaked[s])
               \ {NoChunk}

\* The invariants of the queues and of what is held, subscription by subscription.
LEMMA HoldsOnceFacts ==
  QueuedOnce /\ HeldOnce /\ NoChunkLeaks <=> \A s \in Subscriptions : HoldsOnce(s)
  BY DEF QueuedOnce, HeldOnce, NoChunkLeaks, HoldsOnce

\* What a queue loses stays lost, and what it keeps stays unique.
LEMMA ShiftedOnce ==
  ASSUME TypeOK, NEW s \in Subscriptions, NEW d \in Nat, HoldsOnce(s), Shifted(s, d),
         \A i \in 1 .. Len(queue'[s]) : queue'[s][i] \in held'[s] =>
           queue'[s][i] \in held[s]
  PROVE  \A i \in 1 .. Len(queue'[s]) :
           /\ queue'[s][i] \notin held'[s]
           /\ \A j \in 1 .. Len(queue'[s]) : queue'[s][i] = queue'[s][j] => i = j
<1>1. ASSUME NEW i \in 1 .. Len(queue'[s])
      PROVE  queue'[s][i] \notin held'[s]
  BY DEF Shifted, HoldsOnce
<1>2. ASSUME NEW i \in 1 .. Len(queue'[s]), NEW j \in 1 .. Len(queue'[s]),
             queue'[s][i] = queue'[s][j]
      PROVE  i = j
  <2>1. i + d = j + d
    BY <1>2 DEF Shifted, HoldsOnce
  <2> QED BY <2>1
<1> QED BY <1>1, <1>2

\* A take moves a chunk from the queue to what is held, and brings in none.
LEMMA TakeHolds ==
  ASSUME TypeOK, NEW s \in Subscriptions, HoldsOnce(s), Take(s) \/ TakeLoaned(s)
  PROVE  HoldsOnce(s)' /\ InTransit(s)' \subseteq InTransit(s)
<1> DEFINE h == Head(queue[s])
<1>1. /\ queue[s] # <<>> /\ queue' = [queue EXCEPT ![s] = Tail(@)]
      /\ held' = [held EXCEPT ![s] = @ \cup {h}]
      /\ leaked' = leaked /\ reading[s] = NoChunk
  BY DEF Take, TakeLoaned, PortTakes
<1>2. /\ h = queue[s][1] /\ 1 \in 1 .. Len(queue[s]) /\ h \in Chunks
      /\ Shifted(s, 1) /\ Len(queue[s]) \in Nat /\ Len(queue'[s]) = Len(queue[s]) - 1
  BY <1>1, QueueTail
<1>3. held'[s] = held[s] \cup {h} /\ h \notin held[s]
  BY <1>1, <1>2 DEF TypeOK, HoldsOnce
<1>4. /\ NoChunk \notin Chunks /\ h # NoChunk
      /\ leaked[s] \subseteq held[s]
      /\ \A loan \in lent[s] : loan.chunk \in Chunks => loan.chunk \in held[s]
  BY <1>2, PubSubAssumption DEF PubSubAssumption, HoldsOnce, TypeOK
<1> HIDE DEF h
<1>5. \A i \in 1 .. Len(queue'[s]) :
        /\ queue'[s][i] \notin held'[s]
        /\ \A j \in 1 .. Len(queue'[s]) : queue'[s][i] = queue'[s][j] => i = j
  <2>1. ASSUME NEW i \in 1 .. Len(queue'[s])
        PROVE  queue'[s][i] # h
    <3>1. i + 1 \in 1 .. Len(queue[s]) /\ queue'[s][i] = queue[s][i + 1] /\ i + 1 # 1
      BY <1>2 DEF Shifted
    <3> QED BY <1>2, <3>1 DEF HoldsOnce
  <2> QED BY <1>2, <1>3, <2>1, ShiftedOnce
<1>6. InTransit(s)' \subseteq InTransit(s)
  <2>1. h \in InTransit(s)
    BY <1>2, InUse
  <2>2. \A i \in 1 .. Len(queue'[s]) : queue'[s][i] \in InTransit(s)
    BY <1>2, InUse DEF Shifted
  <2>3. held[s] \subseteq InTransit(s)
    BY DEF InTransit
  <2>4. InTransit(s)' = {queue'[s][i] : i \in 1 .. Len(queue'[s])} \cup held'[s]
    BY DEF InTransit, Elements
  <2> QED BY <1>3, <2>1, <2>2, <2>3, <2>4
<1>7. CASE Take(s)
  <2>1. lent' = lent /\ reading'[s] = h
    BY <1>7 DEF Take, TypeOK, h
  <2>2. h \notin leaked[s] /\ \A loan \in lent[s] : loan.chunk \in Chunks => loan.chunk # h
    BY <1>3, <1>4
  <2>3. held[s] = ({loan.chunk : loan \in lent[s]} \cup leaked[s]) \ {NoChunk}
    BY <1>1 DEF HoldsOnce
  <2>4. held'[s] = ({loan.chunk : loan \in lent[s]} \cup {h} \cup leaked[s]) \ {NoChunk}
    BY <1>3, <1>4, <2>3
  <2>5. \A loan \in lent[s] :
          /\ loan.chunk \notin leaked[s]
          /\ \A other \in lent[s] :
               loan.chunk = other.chunk /\ loan.chunk \in Chunks => loan = other
    BY DEF HoldsOnce
  <2>6. HoldsOnce(s)'
    BY <1>1, <1>5, <2>1, <2>2, <2>4, <2>5 DEF HoldsOnce
  <2> QED BY <1>6, <2>6
<1>8. CASE TakeLoaned(s)
  <2>1. reading' = reading
    BY <1>8 DEF TakeLoaned
  <2>2. lent'[s] = lent[s] \cup {[chunk |-> h, message |-> content[h]]}
    BY <1>8 DEF TakeLoaned, TypeOK, h
  <2>3. {loan.chunk : loan \in lent'[s]} = {loan.chunk : loan \in lent[s]} \cup {h}
    <3>1. PICK new : new.chunk = h /\ lent'[s] = lent[s] \cup {new}
      BY <2>2
    <3> QED BY <3>1
  <2>4. ASSUME NEW loan \in lent'[s]
        PROVE  /\ loan.chunk \in Chunks => loan.chunk # reading'[s]
               /\ loan.chunk \notin leaked'[s]
               /\ \A other \in lent'[s] :
                    loan.chunk = other.chunk /\ loan.chunk \in Chunks => loan = other
    <3>1. CASE loan \in lent[s]
      BY <1>1, <1>3, <1>4, <2>1, <2>2, <3>1 DEF HoldsOnce
    <3>2. CASE loan = [chunk |-> h, message |-> content[h]]
      BY <1>1, <1>3, <1>4, <2>1, <2>2, <3>2 DEF HoldsOnce
    <3> QED BY <2>2, <3>1, <3>2
  <2>5. held'[s] = ({loan.chunk : loan \in lent'[s]} \cup {reading'[s]} \cup leaked'[s])
                   \ {NoChunk}
    BY <1>1, <1>3, <1>4, <2>1, <2>3 DEF HoldsOnce
  <2> QED BY <1>1, <1>5, <1>6, <2>1, <2>4, <2>5 DEF HoldsOnce
<1> QED BY <1>7, <1>8

\* A take that is refused loses a chunk or nothing, and brings in none.
LEMMA RefusalHolds ==
  ASSUME TypeOK, NEW s \in Subscriptions, HoldsOnce(s),
         TakeRefused(s) \/ TakeLoanedNothing(s)
  PROVE  /\ HoldsOnce(s)' /\ InTransit(s)' \subseteq InTransit(s)
         /\ \E d \in Nat : Shifted(s, d)
<1>1. /\ queue' = [queue EXCEPT ![s] = IF @ = <<>> THEN @ ELSE Tail(@)]
      /\ UNCHANGED <<held, leaked, reading>>
  BY DEF TakeRefused, TakeLoanedNothing, PortRefuses
<1>2. PICK d \in Nat : Shifted(s, d)
  <2>1. CASE queue[s] = <<>>
    <3>1. queue'[s] = <<>>
      BY <1>1, <2>1 DEF TypeOK
    <3> QED BY <3>1 DEF Shifted
  <2>2. CASE queue[s] # <<>>
    <3>1. queue' = [queue EXCEPT ![s] = Tail(@)]
      BY <1>1, <2>2 DEF TypeOK
    <3> QED BY <2>2, <3>1, QueueTail
  <2> QED BY <2>1, <2>2
<1>3. InTransit(s)' \subseteq InTransit(s)
  BY <1>1, <1>2, InUse DEF Shifted, InTransit, Elements
<1>4. lent'[s] = lent[s] \/ lent'[s] = lent[s] \cup {[chunk |-> NoChunk, message |-> NoMessage]}
  BY DEF TakeRefused, TakeLoanedNothing, TypeOK
<1>5. NoChunk \notin Chunks /\ NoChunk \notin leaked[s]
  BY PubSubAssumption DEF PubSubAssumption, TypeOK
<1>6. {loan.chunk : loan \in lent'[s]} \ {NoChunk} = {loan.chunk : loan \in lent[s]} \ {NoChunk}
  BY <1>4
<1>7. held[s] = ({loan.chunk : loan \in lent'[s]} \cup {reading[s]} \cup leaked[s])
                \ {NoChunk}
  BY <1>6 DEF HoldsOnce
<1>8. \A loan \in lent'[s] :
        /\ loan.chunk \in Chunks => loan.chunk # reading[s]
        /\ loan.chunk \notin leaked[s]
        /\ \A other \in lent'[s] :
             loan.chunk = other.chunk /\ loan.chunk \in Chunks => loan = other
  BY <1>4, <1>5 DEF HoldsOnce
<1>9. \A i \in 1 .. Len(queue'[s]) :
        /\ queue'[s][i] \notin held'[s]
        /\ \A j \in 1 .. Len(queue'[s]) : queue'[s][i] = queue'[s][j] => i = j
  BY <1>1, <1>2, ShiftedOnce
<1> QED BY <1>1, <1>2, <1>3, <1>7, <1>8, <1>9 DEF HoldsOnce

\* The calls that do not take from the port.
LEMMA GivesBackHolds ==
  ASSUME TypeOK, NEW s \in Subscriptions, HoldsOnce(s),
         \/ CreateSubscription(s) \/ Match(s) \/ DestroySubscription(s)
         \/ TakeCopies(s) \/ TakeResizeFails(s) \/ TakeThrows(s)
         \/ \E loan \in lent[s] : ReturnTaken(s, loan)
  PROVE  /\ HoldsOnce(s)' /\ InTransit(s)' \subseteq InTransit(s)
         /\ \E d \in Nat : Shifted(s, d)
<1>1. /\ queue[s] \in Seq(Chunks) /\ NoChunk \notin Chunks
      /\ held \in [Subscriptions -> SUBSET Chunks]
      /\ reading \in [Subscriptions -> MaybeChunk]
      /\ leaked \in [Subscriptions -> SUBSET Chunks]
      /\ lent \in [Subscriptions -> SUBSET Loans]
  BY PubSubAssumption DEF PubSubAssumption, TypeOK
<1>2. ASSUME queue' = queue, held'[s] \subseteq held[s]
      PROVE  /\ InTransit(s)' \subseteq InTransit(s) /\ Shifted(s, 0)
             /\ \A i \in 1 .. Len(queue'[s]) :
                  /\ queue'[s][i] \notin held'[s]
                  /\ \A j \in 1 .. Len(queue'[s]) : queue'[s][i] = queue'[s][j] => i = j
  <2>1. Shifted(s, 0)
    BY <1>1, <1>2 DEF Shifted
  <2> QED BY <1>2, <2>1 DEF InTransit, HoldsOnce
<1>3. CASE CreateSubscription(s) \/ Match(s)
  <2>1. UNCHANGED <<queue, held, reading, lent, leaked>>
    BY <1>3 DEF CreateSubscription, Match
  <2> QED BY <1>2, <2>1 DEF HoldsOnce
<1>4. CASE DestroySubscription(s)
  <2>1. /\ queue'[s] = <<>> /\ held'[s] = {} /\ leaked'[s] = {} /\ lent'[s] = {}
        /\ reading'[s] = NoChunk
    BY <1>4 DEF DestroySubscription, TypeOK
  <2> QED BY <2>1 DEF HoldsOnce, InTransit, Elements, Shifted
<1>5. CASE TakeCopies(s)
  <2>1. /\ queue' = queue /\ lent' = lent /\ leaked' = leaked /\ reading[s] # NoChunk
        /\ held'[s] = held[s] \ {reading[s]} /\ reading'[s] = NoChunk
    BY <1>1, <1>5 DEF TakeCopies
  <2>2. \A loan \in lent[s] : loan.chunk # reading[s]
    BY <1>1, <2>1 DEF HoldsOnce, MaybeChunk
  <2>3. held'[s] = ({loan.chunk : loan \in lent'[s]} \cup {reading'[s]} \cup leaked'[s])
                   \ {NoChunk}
    BY <2>1, <2>2 DEF HoldsOnce
  <2> QED BY <1>1, <1>2, <2>1, <2>3 DEF HoldsOnce
<1>6. CASE TakeResizeFails(s) \/ TakeThrows(s)
  <2>1. /\ queue' = queue /\ lent' = lent /\ held' = held /\ reading[s] # NoChunk
        /\ leaked'[s] = leaked[s] \cup {reading[s]} /\ reading'[s] = NoChunk
    BY <1>1, <1>6 DEF TakeResizeFails, TakeThrows, LeavesHeld
  <2>2. reading[s] \in Chunks
    BY <1>1, <2>1 DEF MaybeChunk
  <2> QED BY <1>1, <1>2, <2>1, <2>2 DEF HoldsOnce
<1>7. ASSUME NEW loan \in lent[s], ReturnTaken(s, loan)
      PROVE  /\ HoldsOnce(s)' /\ InTransit(s)' \subseteq InTransit(s) /\ Shifted(s, 0)
  <2>1. /\ queue' = queue /\ leaked' = leaked /\ reading' = reading
        /\ lent'[s] = lent[s] \ {loan} /\ held'[s] = held[s] \ {loan.chunk}
    BY <1>1, <1>7 DEF ReturnTaken
  <2>2. loan.chunk \in Chunks \cup {NoChunk}
    BY <1>1 DEF Loans, MaybeChunk
  <2>3. loan.chunk \in Chunks =>
          {l.chunk : l \in lent'[s]} = {l.chunk : l \in lent[s]} \ {loan.chunk}
    BY <2>1 DEF HoldsOnce
  <2>4. loan.chunk = NoChunk =>
          {l.chunk : l \in lent'[s]} \ {NoChunk} = {l.chunk : l \in lent[s]} \ {NoChunk}
    BY <2>1
  <2>5. held'[s] = ({l.chunk : l \in lent'[s]} \cup {reading'[s]} \cup leaked'[s])
                   \ {NoChunk}
    <3>1. held[s] = ({l.chunk : l \in lent[s]} \cup {reading[s]} \cup leaked[s]) \ {NoChunk}
          /\ (loan.chunk \in Chunks => loan.chunk # reading[s])
          /\ loan.chunk \notin leaked[s]
      BY DEF HoldsOnce
    <3>2. CASE loan.chunk \in Chunks
      BY <2>1, <2>3, <3>1, <3>2
    <3>3. CASE loan.chunk = NoChunk
      BY <2>1, <2>4, <3>1, <3>3
    <3> QED BY <2>2, <3>2, <3>3
  <2> QED BY <1>2, <2>1, <2>5 DEF HoldsOnce
<1> QED BY <1>3, <1>4, <1>5, <1>6, <1>7

\* A subscription leaves everything of the others, and of the publishers, alone.
LEMMA SubscriptionFrame ==
  ASSUME TypeOK, NEW s \in Subscriptions, SubscriptionActs(s)
  PROVE  /\ UNCHANGED <<fixedSize, published, writing, loans, content>>
         /\ \A t \in Subscriptions \ {s} :
              /\ queue'[t] = queue[t] /\ held'[t] = held[t] /\ reading'[t] = reading[t]
              /\ leaked'[t] = leaked[t] /\ lent'[t] = lent[t]
              /\ received'[t] = received[t]
<1>1. UNCHANGED <<fixedSize, published, writing, loans, content>>
  BY DEF SubscriptionActs, CreateSubscription, Match, DestroySubscription, Take,
         TakeCopies, TakeResizeFails, TakeThrows, LeavesHeld,
         TakeRefused, TakeLoaned, TakeLoanedNothing,
         ReturnTaken, publisherVars
<1>2. /\ \E x : queue' = [queue EXCEPT ![s] = x] \/ queue' = queue
      /\ \E x : held' = [held EXCEPT ![s] = x] \/ held' = held
      /\ \E x : leaked' = [leaked EXCEPT ![s] = x] \/ leaked' = leaked
      /\ \E x : lent' = [lent EXCEPT ![s] = x] \/ lent' = lent
      /\ \E x : reading' = [reading EXCEPT ![s] = x] \/ reading' = reading
      /\ \E x : received' = [received EXCEPT ![s] = x] \/ received' = received
  BY DEF SubscriptionActs, CreateSubscription, Match, DestroySubscription, Take,
         TakeCopies, TakeResizeFails, TakeThrows, LeavesHeld,
         TakeRefused, TakeLoaned, TakeLoanedNothing,
         ReturnTaken, PortTakes, PortRefuses
<1> QED BY <1>1, <1>2 DEF TypeOK

\* What a subscription does leaves each chunk in one use.
LEMMA SubscriptionPool ==
  ASSUME TypeOK, PoolInv, NEW s \in Subscriptions, SubscriptionActs(s)
  PROVE  PoolInv'
<1>1. /\ UNCHANGED <<writing, loans, content>>
      /\ \A t \in Subscriptions \ {s} :
           /\ queue'[t] = queue[t] /\ held'[t] = held[t] /\ reading'[t] = reading[t]
           /\ leaked'[t] = leaked[t] /\ lent'[t] = lent[t]
  BY SubscriptionFrame
<1>2. \A t \in Subscriptions : HoldsOnce(t)
  BY HoldsOnceFacts DEF PoolInv
<1>3. HoldsOnce(s)' /\ InTransit(s)' \subseteq InTransit(s)
  BY <1>2, TakeHolds, RefusalHolds, GivesBackHolds DEF SubscriptionActs
<1>4. \A t \in Subscriptions \ {s} : HoldsOnce(t)' /\ InTransit(t)' = InTransit(t)
  BY <1>1, <1>2 DEF HoldsOnce, InTransit, Elements
<1>5. QueuedOnce' /\ HeldOnce' /\ NoChunkLeaks'
  BY <1>3, <1>4, HoldsOnceFacts DEF QueuedOnce, HeldOnce, NoChunkLeaks, HoldsOnce
<1>6. LoanIsExclusive'
  <2>1. \A p \in Publishers : OnLoan(p)' = OnLoan(p)
    BY <1>1 DEF OnLoan
  <2>2. \A p \in Publishers : NoChunk \notin loans[p]
    BY PubSubAssumption DEF PubSubAssumption, TypeOK
  <2> QED BY <1>1, <1>3, <1>4, <2>1, <2>2, ExclusiveShrinks DEF PoolInv
<1>7. LoanedStaysIntact'
  <2>1. ASSUME NEW loan \in lent'[s], loan.chunk \in Chunks
        PROVE  loan \in lent[s] \/ content[loan.chunk] = loan.message
    <3>1. CASE TakeLoaned(s)
      BY <2>1, <3>1 DEF TakeLoaned, TypeOK
    <3>2. CASE TakeLoanedNothing(s)
      BY <2>1, <3>2, PubSubAssumption DEF TakeLoanedNothing, TypeOK, PubSubAssumption
    <3>3. CASE ~TakeLoaned(s) /\ ~TakeLoanedNothing(s)
      <4>1. lent' = lent \/ \E x \in SUBSET lent[s] : lent' = [lent EXCEPT ![s] = x]
        BY <3>3 DEF SubscriptionActs, CreateSubscription, Match, DestroySubscription,
                    Take, TakeCopies, TakeResizeFails, TakeThrows, LeavesHeld,
                    TakeRefused, ReturnTaken
      <4> QED BY <2>1, <4>1 DEF TypeOK
    <3> QED BY <3>1, <3>2, <3>3
  <2> QED BY <1>1, <2>1 DEF LoanedStaysIntact, PoolInv
<1> QED BY <1>5, <1>6, <1>7 DEF PoolInv

\* Every step leaves each chunk in one use.
LEMMA NextPoolInv ==
  ASSUME TypeOK, PoolInv, [Next]_vars
  PROVE  PoolInv'
<1>1. CASE UNCHANGED vars
  <2>1. UNCHANGED <<content, writing, loans, queue, held, reading, leaked, lent>>
    BY <1>1 DEF vars, publisherVars
  <2>2. LoanIsExclusive' /\ QueuedOnce' /\ HeldOnce'
    BY <2>1 DEF PoolInv, LoanIsExclusive, QueuedOnce, HeldOnce, OnLoan, InTransit, Elements
  <2>3. NoChunkLeaks' /\ LoanedStaysIntact'
    BY <2>1 DEF PoolInv, NoChunkLeaks, LoanedStaysIntact
  <2> QED BY <2>2, <2>3 DEF PoolInv
<1> QED BY <1>1, PublisherPool, SubscriptionPool DEF Next

-----------------------------------------------------------------------------
(* The order of the messages.                                               *)

\* What a step does to one subscription, as far as its messages are concerned.
Keeps(s) ==
  /\ received'[s] = received[s]
  /\ reading'[s] \in {reading[s], NoChunk}
  /\ \E d \in Nat : Shifted(s, d)

Starts(s) ==
  /\ received'[s] = received[s]
  /\ 1 \in 1 .. Len(queue[s]) /\ reading[s] = NoChunk
  /\ reading'[s] = queue[s][1]
  /\ Shifted(s, 1)

ReceivesRead(s) ==
  /\ reading[s] # NoChunk /\ reading'[s] = NoChunk
  /\ received'[s] = Append(received[s], content[reading[s]])
  /\ queue'[s] = queue[s]

ReceivesFirst(s) ==
  /\ reading[s] = NoChunk /\ reading'[s] = NoChunk
  /\ 1 \in 1 .. Len(queue[s])
  /\ received'[s] = Append(received[s], content[queue[s][1]])
  /\ Shifted(s, 1) /\ Len(queue'[s]) = Len(queue[s]) - 1

Arrives(s, p, ch) ==
  /\ received'[s] = received[s] /\ reading'[s] = reading[s]
  /\ \E d \in {0, 1} : \A i \in 1 .. Len(queue'[s]) :
       \/ i = Len(queue'[s]) /\ queue'[s][i] = ch
       \/ i + d \in 1 .. Len(queue[s]) /\ queue'[s][i] = queue[s][i + d]

\* A step that publishes, seen by every subscription.
Publishes(p, ch) ==
  /\ ch \in Chunks
  /\ \A s \in Subscriptions : ch \notin InTransit(s)
  /\ published[p] < MaxMessages
  /\ published' = [published EXCEPT ![p] = @ + 1]
  /\ content'[ch] = NextMessage(p)
  /\ \A s \in Subscriptions : Arrives(s, p, ch)

\* Every step publishes a message, has one subscription keep or receive some, or does
\* nothing to messages.
Delivers ==
  \/ \E p \in Publishers : \E ch \in Chunks : Publishes(p, ch)
  \/ /\ published' = published
     /\ \/ UNCHANGED <<received, reading, queue>>
        \/ \E s \in Subscriptions :
             /\ Keeps(s) \/ Starts(s) \/ ReceivesRead(s) \/ ReceivesFirst(s)
             /\ \A t \in Subscriptions \ {s} :
                  /\ received'[t] = received[t] /\ reading'[t] = reading[t]
                  /\ queue'[t] = queue[t]

\* Every step delivers: it publishes, keeps, starts to read, or receives.
LEMMA StepDelivers ==
  ASSUME TypeOK, PoolInv, [Next]_vars
  PROVE  Delivers
<1>1. ASSUME UNCHANGED <<published, received, reading, queue>>
      PROVE  Delivers
  BY <1>1 DEF Delivers
<1>2. ASSUME NEW p \in Publishers, NEW ch \in OnLoan(p), Send(p, ch),
             UNCHANGED <<received, reading>>
      PROVE  Delivers
  <2>1. ch \in Chunks /\ \A s \in Subscriptions : ch \notin InTransit(s)
    BY InUse DEF PoolInv, LoanIsExclusive
  <2>2. \A s \in Subscriptions : Arrives(s, p, ch)
    BY <1>2, <2>1, SendQueue DEF Arrives
  <2>3. published[p] < MaxMessages /\ published' = [published EXCEPT ![p] = @ + 1]
    BY <1>2 DEF Send, CanNumber
  <2>4. content'[ch] = NextMessage(p)
    BY <1>2, <2>1 DEF Send, TypeOK
  <2> QED BY <2>1, <2>2, <2>3, <2>4 DEF Delivers, Publishes
<1>3. ASSUME NEW p \in Publishers, PublisherActs(p)
      PROVE  Delivers
  <2>1. CASE PublishSends(p)
    <3>1. writing[p] \in OnLoan(p) /\ Send(p, writing[p]) /\ UNCHANGED <<received, reading>>
      BY <2>1 DEF PublishSends, OnLoan
    <3> QED BY <1>2, <3>1
  <2>2. ASSUME NEW ch \in loans[p], PublishLoaned(p, ch)
        PROVE  Delivers
    <3>1. ch \in OnLoan(p) /\ Send(p, ch) /\ UNCHANGED <<received, reading>>
      BY <2>2 DEF PublishLoaned, OnLoan
    <3> QED BY <1>2, <3>1
  <2>3. CASE PublishLoans(p) \/ Borrow(p) \/ DestroyPublisher(p)
    BY <1>1, <2>3 DEF PublishLoans, Borrow, DestroyPublisher
  <2>4. ASSUME NEW ch \in loans[p], ReturnBorrowed(p, ch)
        PROVE  Delivers
    BY <1>1, <2>4 DEF ReturnBorrowed
  <2> QED BY <1>3, <2>1, <2>2, <2>3, <2>4 DEF PublisherActs
<1>4. ASSUME NEW s \in Subscriptions, SubscriptionActs(s)
      PROVE  Delivers
  <2>0. HoldsOnce(s) /\ reading \in [Subscriptions -> MaybeChunk]
        /\ received \in [Subscriptions -> Seq(Messages)]
    <3>1. HoldsOnce(s)
      BY HoldsOnceFacts DEF PoolInv
    <3> QED BY <3>1 DEF TypeOK
  <2>1. CASE Take(s)
    <3>1. /\ queue[s] # <<>> /\ queue' = [queue EXCEPT ![s] = Tail(@)]
          /\ reading[s] = NoChunk /\ reading'[s] = Head(queue[s]) /\ received' = received
      BY <2>0, <2>1 DEF Take, PortTakes
    <3> QED BY <1>4, <3>1, QueueTail, SubscriptionFrame DEF Delivers, Starts
  <2>2. CASE TakeLoaned(s)
    <3>1. /\ queue[s] # <<>> /\ queue' = [queue EXCEPT ![s] = Tail(@)]
          /\ reading[s] = NoChunk /\ reading' = reading
          /\ received'[s] = Append(received[s], content[Head(queue[s])])
      BY <2>0, <2>2 DEF TakeLoaned, PortTakes
    <3> QED BY <1>4, <3>1, QueueTail, SubscriptionFrame DEF Delivers, ReceivesFirst
  <2>3. CASE TakeCopies(s)
    <3>1. ReceivesRead(s)
      BY <2>0, <2>3 DEF TakeCopies, ReceivesRead
    <3> QED BY <1>4, <3>1, SubscriptionFrame DEF Delivers
  <2>4. CASE TakeRefused(s) \/ TakeLoanedNothing(s)
    <3>1. received' = received /\ reading' = reading
      BY <2>4 DEF TakeRefused, TakeLoanedNothing
    <3>2. Keeps(s)
      BY <2>0, <2>4, <3>1, RefusalHolds DEF Keeps
    <3> QED BY <1>4, <3>2, SubscriptionFrame DEF Delivers
  <2>5. CASE \/ CreateSubscription(s) \/ Match(s) \/ DestroySubscription(s)
             \/ TakeResizeFails(s) \/ TakeThrows(s)
             \/ \E loan \in lent[s] : ReturnTaken(s, loan)
    <3>1. received' = received /\ reading'[s] \in {reading[s], NoChunk}
      BY <2>0, <2>5 DEF CreateSubscription, Match, DestroySubscription, TakeResizeFails,
                        TakeThrows, LeavesHeld, ReturnTaken
    <3>2. Keeps(s)
      BY <2>0, <2>5, <3>1, GivesBackHolds DEF Keeps
    <3> QED BY <1>4, <3>2, SubscriptionFrame DEF Delivers
  <2> QED BY <1>4, <2>1, <2>2, <2>3, <2>4, <2>5 DEF SubscriptionActs
<1>5. CASE UNCHANGED vars
  BY <1>1, <1>5 DEF vars, publisherVars
<1> QED BY <1>3, <1>4, <1>5 DEF Next

\* What is unread is in the queue, or is being read.
LEMMA UnreadChunks ==
  ASSUME TypeOK, NEW s \in Subscriptions
  PROVE  /\ \A i \in 1 .. Len(queue[s]) : queue[s][i] \in Unread(s)
         /\ reading[s] # NoChunk => reading[s] \in Unread(s)
         /\ \A ch \in Unread(s) :
              \/ ch = reading[s] /\ reading[s] # NoChunk
              \/ \E i \in 1 .. Len(queue[s]) : ch = queue[s][i]
  BY DEF Unread, Elements

\* The same after a step.
LEMMA UnreadChunksNext ==
  ASSUME NEW s \in Subscriptions, NEW ch \in Unread(s)'
  PROVE  \/ ch = reading'[s] /\ reading'[s] # NoChunk
         \/ \E i \in 1 .. Len(queue'[s]) : ch = queue'[s][i]
  BY DEF Unread, Elements

\* Nothing comes, and what stays keeps its place.
LEMMA KeepsInOrder ==
  ASSUME TypeOK, NEW s \in Subscriptions, InOrder(s), Keeps(s),
         \A ch \in Unread(s) : content'[ch] = content[ch],
         PublishedSoFar \subseteq PublishedSoFar'
  PROVE  InOrder(s)' /\ Unread(s)' \subseteq Unread(s)
<1>1. PICK d \in Nat : Shifted(s, d)
  BY DEF Keeps
<1>2. \A i \in 1 .. Len(queue'[s]) :
        /\ i + d \in 1 .. Len(queue[s]) /\ queue'[s][i] = queue[s][i + d]
        /\ queue'[s][i] \in Unread(s)
  BY <1>1, UnreadChunks DEF Shifted
<1>3. received'[s] = received[s] /\ (reading'[s] # NoChunk => reading'[s] = reading[s])
  BY DEF Keeps
<1>4. Unread(s)' \subseteq Unread(s)
  BY <1>2, <1>3, UnreadChunks, UnreadChunksNext
<1>5. \A ch \in Unread(s)' : content'[ch] \in PublishedSoFar'
  BY <1>4 DEF InOrder
<1>6. \A i \in 1 .. Len(received'[s]) :
        /\ received'[s][i] \in PublishedSoFar'
        /\ \A j \in 1 .. Len(received'[s]) :
             i < j => Earlier(received'[s][i], received'[s][j])
        /\ \A ch \in Unread(s)' : Earlier(received'[s][i], content'[ch])
  BY <1>3, <1>4 DEF InOrder
<1>7. ASSUME NEW i \in 1 .. Len(queue'[s]), reading'[s] # NoChunk
      PROVE  Earlier(content'[reading'[s]], content'[queue'[s][i]])
  <2>1. Earlier(content[reading[s]], content[queue[s][i + d]])
    BY <1>2, <1>3, <1>7 DEF InOrder
  <2> QED BY <1>2, <1>3, <1>7, <2>1, UnreadChunks
<1>8. ASSUME NEW i \in 1 .. Len(queue'[s]), NEW j \in 1 .. Len(queue'[s]), i < j
      PROVE  Earlier(content'[queue'[s][i]], content'[queue'[s][j]])
  <2>1. Earlier(content[queue[s][i + d]], content[queue[s][j + d]])
    <3>1. i + d < j + d
      BY <1>8
    <3> QED BY <1>2, <3>1 DEF InOrder
  <2> QED BY <1>2, <2>1
<1> QED BY <1>4, <1>5, <1>6, <1>7, <1>8 DEF InOrder

\* A chunk passes from the queue to the application's copy.
LEMMA StartsInOrder ==
  ASSUME TypeOK, NEW s \in Subscriptions, InOrder(s), Starts(s),
         \A ch \in Unread(s) : content'[ch] = content[ch],
         published' = published
  PROVE  InOrder(s)' /\ Unread(s)' \subseteq Unread(s)
<1>1. /\ received'[s] = received[s] /\ reading'[s] = queue[s][1]
      /\ 1 \in 1 .. Len(queue[s])
      /\ \A i \in 1 .. Len(queue'[s]) :
           i + 1 \in 1 .. Len(queue[s]) /\ queue'[s][i] = queue[s][i + 1]
  BY DEF Starts, Shifted
<1>2. PublishedSoFar' = PublishedSoFar
  BY DEF PublishedSoFar
<1>3. Unread(s)' \subseteq Unread(s)
  BY <1>1, UnreadChunks, UnreadChunksNext
<1>4. \A i \in 1 .. Len(queue[s]) : content'[queue[s][i]] = content[queue[s][i]]
  BY UnreadChunks
<1>5. \A ch \in Unread(s)' : content'[ch] \in PublishedSoFar'
  BY <1>2, <1>3 DEF InOrder
<1>6. \A i \in 1 .. Len(received'[s]) :
        /\ received'[s][i] \in PublishedSoFar'
        /\ \A j \in 1 .. Len(received'[s]) :
             i < j => Earlier(received'[s][i], received'[s][j])
        /\ \A ch \in Unread(s)' : Earlier(received'[s][i], content'[ch])
  BY <1>1, <1>2, <1>3 DEF InOrder
<1>7. ASSUME NEW i \in 1 .. Len(queue'[s])
      PROVE  Earlier(content'[reading'[s]], content'[queue'[s][i]])
  <2>1. Earlier(content[queue[s][1]], content[queue[s][i + 1]])
    <3>1. 1 < i + 1
      OBVIOUS
    <3> QED BY <1>1, <3>1 DEF InOrder
  <2> QED BY <1>1, <1>4, <2>1
<1>8. ASSUME NEW i \in 1 .. Len(queue'[s]), NEW j \in 1 .. Len(queue'[s]), i < j
      PROVE  Earlier(content'[queue'[s][i]], content'[queue'[s][j]])
  <2>1. Earlier(content[queue[s][i + 1]], content[queue[s][j + 1]])
    <3>1. i + 1 < j + 1
      BY <1>8
    <3> QED BY <1>1, <3>1 DEF InOrder
  <2> QED BY <1>1, <1>4, <2>1
<1> QED BY <1>3, <1>5, <1>6, <1>7, <1>8 DEF InOrder

\* The application receives a message that comes before all it has not read yet.
LEMMA ReceivesInOrder ==
  ASSUME TypeOK, NEW s \in Subscriptions, InOrder(s), NEW c \in Unread(s),
         received'[s] = Append(received[s], content[c]),
         Unread(s)' \subseteq Unread(s), reading'[s] = NoChunk,
         \A ch \in Unread(s)' : Earlier(content[c], content[ch]),
         NEW d \in Nat, Shifted(s, d),
         \A ch \in Unread(s) : content'[ch] = content[ch],
         published' = published
  PROVE  InOrder(s)'
<1>1. PublishedSoFar' = PublishedSoFar /\ PublishedSoFar \subseteq Messages
  BY DEF PublishedSoFar
<1>2. \A ch \in Unread(s)' : content'[ch] \in PublishedSoFar'
  BY <1>1 DEF InOrder
<1>3. /\ Len(received[s]) \in Nat /\ Len(received'[s]) = Len(received[s]) + 1
      /\ \A i \in 1 .. Len(received[s]) : received'[s][i] = received[s][i]
      /\ received'[s][Len(received[s]) + 1] = content[c]
  <2>1. received[s] \in Seq(Messages) /\ content[c] \in Messages
    BY <1>1 DEF TypeOK, InOrder
  <2> QED BY <2>1
<1>4. ASSUME NEW i \in 1 .. Len(received'[s])
      PROVE  /\ received'[s][i] \in PublishedSoFar'
             /\ \A j \in 1 .. Len(received'[s]) :
                  i < j => Earlier(received'[s][i], received'[s][j])
             /\ \A ch \in Unread(s)' : Earlier(received'[s][i], content'[ch])
  <2>1. CASE i = Len(received[s]) + 1
    BY <1>1, <1>3, <2>1 DEF InOrder
  <2>2. CASE i \in 1 .. Len(received[s])
    BY <1>1, <1>3, <2>2 DEF InOrder
  <2> QED BY <1>3, <2>1, <2>2
<1>5. ASSUME NEW i \in 1 .. Len(queue'[s]), NEW j \in 1 .. Len(queue'[s]), i < j
      PROVE  Earlier(content'[queue'[s][i]], content'[queue'[s][j]])
  <2>1. i + d < j + d
    BY <1>5
  <2>2. Earlier(content[queue[s][i + d]], content[queue[s][j + d]])
    BY <2>1 DEF Shifted, InOrder
  <2> QED BY <2>2, UnreadChunks DEF Shifted
<1> QED BY <1>2, <1>4, <1>5 DEF InOrder

\* What has been read is received before all that is unread.
LEMMA ReadIsOldest ==
  ASSUME TypeOK, NEW s \in Subscriptions, InOrder(s), HoldsOnce(s), ReceivesRead(s)
  PROVE  /\ reading[s] \in Unread(s) /\ Unread(s)' = Unread(s) \ {reading[s]}
         /\ Shifted(s, 0)
         /\ \A ch \in Unread(s)' : Earlier(content[reading[s]], content[ch])
<1>1. reading[s] # NoChunk /\ reading'[s] = NoChunk /\ queue'[s] = queue[s]
  BY DEF ReceivesRead
<1>2. Shifted(s, 0)
  <2>1. queue[s] \in Seq(Chunks)
    BY DEF TypeOK
  <2> QED BY <1>1, <2>1 DEF Shifted
<1>3. \A i \in 1 .. Len(queue[s]) : queue[s][i] # reading[s]
  <2>1. reading[s] \in held[s]
    BY <1>1 DEF HoldsOnce
  <2> QED BY <2>1 DEF HoldsOnce
<1>4. Unread(s)' = Unread(s) \ {reading[s]}
  BY <1>1, <1>3 DEF Unread, Elements
<1>5. \A ch \in Unread(s)' : Earlier(content[reading[s]], content[ch])
  BY <1>1, UnreadChunksNext DEF InOrder
<1> QED BY <1>1, <1>2, <1>4, <1>5, UnreadChunks

\* The first of the queue is received before all that is unread.
LEMMA FirstIsOldest ==
  ASSUME TypeOK, NEW s \in Subscriptions, InOrder(s), HoldsOnce(s), ReceivesFirst(s)
  PROVE  /\ queue[s][1] \in Unread(s) /\ Unread(s)' = Unread(s) \ {queue[s][1]}
         /\ \A ch \in Unread(s)' : Earlier(content[queue[s][1]], content[ch])
<1>1. /\ reading[s] = NoChunk /\ reading'[s] = NoChunk /\ 1 \in 1 .. Len(queue[s])
      /\ Len(queue[s]) \in Nat /\ Len(queue'[s]) = Len(queue[s]) - 1
      /\ \A i \in 1 .. Len(queue'[s]) :
           i + 1 \in 1 .. Len(queue[s]) /\ queue'[s][i] = queue[s][i + 1]
  BY DEF ReceivesFirst, Shifted, TypeOK
<1>2. \A i \in 1 .. Len(queue[s]) : queue[s][i] = queue[s][1] => i = 1
  BY <1>1 DEF HoldsOnce
<1>3. ASSUME NEW ch \in Unread(s)'
      PROVE  /\ ch \in Unread(s) /\ ch # queue[s][1]
             /\ Earlier(content[queue[s][1]], content[ch])
  <2>1. PICK i \in 1 .. Len(queue'[s]) : ch = queue'[s][i]
    BY <1>1, UnreadChunksNext
  <2>2. i + 1 \in 1 .. Len(queue[s]) /\ ch = queue[s][i + 1] /\ 1 < i + 1 /\ i + 1 # 1
    BY <1>1, <2>1
  <2> QED BY <1>1, <1>2, <2>2, UnreadChunks DEF InOrder
<1>4. ASSUME NEW ch \in Unread(s), ch # queue[s][1]
      PROVE  ch \in Unread(s)'
  <2>1. PICK i \in 1 .. Len(queue[s]) : ch = queue[s][i]
    BY <1>1, UnreadChunks
  <2>2. i - 1 \in 1 .. Len(queue'[s]) /\ (i - 1) + 1 = i
    BY <1>1, <1>4, <2>1
  <2>3. queue'[s][i - 1] = ch
    BY <1>1, <2>1, <2>2
  <2> QED BY <2>2, <2>3 DEF Unread, Elements
<1> QED BY <1>1, <1>3, <1>4, UnreadChunks

\* The new message comes after all that were published.
LEMMA ArrivesInOrder ==
  ASSUME TypeOK, NEW s \in Subscriptions, InOrder(s), NEW p \in Publishers,
         NEW ch \in Chunks, Publishes(p, ch), Unread(s) \subseteq InTransit(s),
         \A c \in Unread(s) : content'[c] = content[c]
  PROVE  /\ InOrder(s)' /\ Unread(s)' \subseteq Unread(s) \cup {ch}
<1>1. /\ received'[s] = received[s] /\ reading'[s] = reading[s]
      /\ content'[ch] = [publisher |-> p, number |-> published[p]]
  BY DEF Publishes, Arrives, NextMessage
<1>2. PICK d \in {0, 1} : \A i \in 1 .. Len(queue'[s]) :
        \/ i = Len(queue'[s]) /\ queue'[s][i] = ch
        \/ i + d \in 1 .. Len(queue[s]) /\ queue'[s][i] = queue[s][i + d]
  BY DEF Publishes, Arrives
<1>3. published \in [Publishers -> 0 .. MaxMessages] /\ published[p] < MaxMessages
      /\ published' = [published EXCEPT ![p] = @ + 1] /\ MaxMessages \in Nat
  BY PubSubAssumption DEF PubSubAssumption, TypeOK, Publishes
<1>4. PublishedSoFar \subseteq PublishedSoFar' /\ content'[ch] \in PublishedSoFar'
  BY <1>1, <1>3 DEF PublishedSoFar, Messages
<1>5. \A m \in PublishedSoFar : Earlier(m, content'[ch])
  BY <1>1, <1>3 DEF PublishedSoFar, Messages, Earlier
<1>6. Unread(s)' \subseteq Unread(s) \cup {ch}
  BY <1>1, <1>2, UnreadChunks, UnreadChunksNext
<1>7. \A c \in Unread(s)' : content'[c] \in PublishedSoFar'
  BY <1>4, <1>6 DEF InOrder
<1>8. \A i \in 1 .. Len(received'[s]) :
        /\ received'[s][i] \in PublishedSoFar'
        /\ \A j \in 1 .. Len(received'[s]) :
             i < j => Earlier(received'[s][i], received'[s][j])
        /\ \A c \in Unread(s)' : Earlier(received'[s][i], content'[c])
  BY <1>1, <1>4, <1>5, <1>6 DEF InOrder
<1>9. ASSUME NEW i \in 1 .. Len(queue'[s]), reading'[s] # NoChunk
      PROVE  Earlier(content'[reading'[s]], content'[queue'[s][i]])
  <2>1. reading[s] \in Unread(s) /\ content'[reading'[s]] = content[reading[s]]
    BY <1>1, <1>9, UnreadChunks
  <2> QED BY <1>1, <1>2, <1>5, <1>9, <2>1, UnreadChunks DEF InOrder
<1>10. ASSUME NEW i \in 1 .. Len(queue'[s]), NEW j \in 1 .. Len(queue'[s]), i < j
       PROVE  Earlier(content'[queue'[s][i]], content'[queue'[s][j]])
  <2>1. i + d \in 1 .. Len(queue[s]) /\ queue'[s][i] = queue[s][i + d]
    BY <1>2, <1>10
  <2>2. content'[queue'[s][i]] = content[queue[s][i + d]]
        /\ content[queue[s][i + d]] \in PublishedSoFar
    BY <2>1, UnreadChunks DEF InOrder
  <2>3. CASE queue'[s][j] = ch
    BY <1>5, <2>2, <2>3
  <2>4. CASE j + d \in 1 .. Len(queue[s]) /\ queue'[s][j] = queue[s][j + d]
    <3>1. i + d < j + d
      BY <1>10
    <3>2. Earlier(content[queue[s][i + d]], content[queue[s][j + d]])
      BY <2>1, <2>4, <3>1 DEF InOrder
    <3> QED BY <2>2, <2>4, <3>2, UnreadChunks
  <2> QED BY <1>2, <2>3, <2>4
<1> QED BY <1>6, <1>7, <1>8, <1>9, <1>10 DEF InOrder

\* Every step preserves the order.
LEMMA NextOrderInv ==
  ASSUME TypeOK, PoolInv, OrderInv, [Next]_vars
  PROVE  OrderInv'
<1>1. \A s \in Subscriptions :
        /\ InOrder(s) /\ HoldsOnce(s) /\ Unread(s) \subseteq InTransit(s)
        /\ \A ch \in Unread(s) : content'[ch] = content[ch]
  BY TransitKeepsContent, HoldsOnceFacts, HeldChunks DEF OrderInv, PoolInv
<1>2. ASSUME NEW p \in Publishers, NEW ch \in Chunks, Publishes(p, ch)
      PROVE  OrderInv'
  BY <1>1, <1>2, ArrivesInOrder DEF OrderInv
<1>3. ASSUME published' = published, NEW s \in Subscriptions, Keeps(s)
      PROVE  InOrder(s)'
  <2>1. PublishedSoFar \subseteq PublishedSoFar'
    BY <1>3 DEF PublishedSoFar
  <2> QED BY <1>1, <1>3, <2>1, KeepsInOrder
<1>4. ASSUME published' = published, NEW s \in Subscriptions,
             Starts(s) \/ ReceivesRead(s) \/ ReceivesFirst(s)
      PROVE  InOrder(s)'
  <2>1. CASE Starts(s)
    BY <1>1, <1>4, <2>1, StartsInOrder
  <2>2. CASE ReceivesRead(s)
    <3>1. /\ reading[s] \in Unread(s) /\ Unread(s)' \subseteq Unread(s) /\ Shifted(s, 0)
          /\ \A ch \in Unread(s)' : Earlier(content[reading[s]], content[ch])
      BY <1>1, <2>2, ReadIsOldest
    <3>2. received'[s] = Append(received[s], content[reading[s]]) /\ reading'[s] = NoChunk
      BY <2>2 DEF ReceivesRead
    <3> QED BY <1>1, <1>4, <3>1, <3>2, ReceivesInOrder
  <2>3. CASE ReceivesFirst(s)
    <3>1. /\ queue[s][1] \in Unread(s) /\ Unread(s)' \subseteq Unread(s)
          /\ \A ch \in Unread(s)' : Earlier(content[queue[s][1]], content[ch])
      BY <1>1, <2>3, FirstIsOldest
    <3>2. received'[s] = Append(received[s], content[queue[s][1]])
          /\ reading'[s] = NoChunk /\ Shifted(s, 1)
      BY <2>3 DEF ReceivesFirst
    <3> QED BY <1>1, <1>4, <3>1, <3>2, ReceivesInOrder
  <2> QED BY <1>4, <2>1, <2>2, <2>3
<1>5. ASSUME NEW t \in Subscriptions, received'[t] = received[t],
             reading'[t] = reading[t], queue'[t] = queue[t]
      PROVE  Keeps(t)
  <2>1. Shifted(t, 0)
    <3>1. queue[t] \in Seq(Chunks)
      BY DEF TypeOK
    <3> QED BY <1>5, <3>1 DEF Shifted
  <2> QED BY <1>5, <2>1 DEF Keeps
<1> QED BY <1>2, <1>3, <1>4, <1>5, StepDelivers DEF Delivers, OrderInv

-----------------------------------------------------------------------------
(* The types.                                                               *)

\* What a publisher does preserves the types.
LEMMA PublisherTypes ==
  ASSUME TypeOK, PoolInv, NEW p \in Publishers, PublisherActs(p)
  PROVE  TypeOK'
<1>1. UNCHANGED <<fixedSize, subscription, held, reading, lent, leaked, received>>
  BY DEF PublisherActs, PublishLoans, PublishSends, Borrow, DestroyPublisher,
         ReturnBorrowed, PublishLoaned
<1>2. /\ writing \in [Publishers -> MaybeChunk] /\ loans \in [Publishers -> SUBSET Chunks]
      /\ published \in [Publishers -> 0 .. MaxMessages]
      /\ content \in [Chunks -> Contents]
      /\ MaxMessages \in Nat /\ NoMessage \in Contents
  BY PubSubAssumption DEF PubSubAssumption, TypeOK, Contents
<1>3. ASSUME NEW ch \in OnLoan(p), Send(p, ch)
      PROVE  /\ published' \in [Publishers -> 0 .. MaxMessages]
             /\ content' \in [Chunks -> Contents]
             /\ queue' \in [Subscriptions -> Seq(Chunks)]
             /\ \A s \in Subscriptions : Len(queue'[s]) <= QueueDepth
  <2>1. ch \in Chunks
    BY InUse
  <2>2. published[p] < MaxMessages /\ published' = [published EXCEPT ![p] = @ + 1]
        /\ content' = [content EXCEPT ![ch] = NextMessage(p)]
    BY <1>3 DEF Send, CanNumber
  <2>3. NextMessage(p) \in Contents
    BY <1>2, <2>2 DEF NextMessage, Contents, Messages
  <2> QED BY <1>2, <1>3, <2>1, <2>2, <2>3, SendQueue
<1>4. /\ published' \in [Publishers -> 0 .. MaxMessages]
      /\ content' \in [Chunks -> Contents]
      /\ writing' \in [Publishers -> MaybeChunk]
      /\ loans' \in [Publishers -> SUBSET Chunks]
      /\ queue' \in [Subscriptions -> Seq(Chunks)]
      /\ \A s \in Subscriptions : Len(queue'[s]) <= QueueDepth
  <2>1. CASE PublishLoans(p)
    <3>1. PICK ch \in Free : writing' = [writing EXCEPT ![p] = ch]
      BY <2>1 DEF PublishLoans
    <3>2. ch \in Chunks /\ UNCHANGED <<published, loans, content, queue>>
      BY <2>1, InUse DEF PublishLoans
    <3> QED BY <1>2, <3>1, <3>2 DEF TypeOK, MaybeChunk
  <2>2. CASE Borrow(p)
    <3>1. PICK ch \in Free : /\ loans' = [loans EXCEPT ![p] = @ \cup {ch}]
                             /\ content' = [content EXCEPT ![ch] = NoMessage]
      BY <2>2 DEF Borrow
    <3>2. ch \in Chunks /\ UNCHANGED <<published, writing, queue>>
      BY <2>2, InUse DEF Borrow
    <3> QED BY <1>2, <3>1, <3>2 DEF TypeOK
  <2>3. CASE PublishSends(p)
    <3>1. writing[p] \in OnLoan(p) /\ Send(p, writing[p]) /\ loans' = loans
          /\ writing' = [writing EXCEPT ![p] = NoChunk]
      BY <2>3 DEF PublishSends, OnLoan
    <3> QED BY <1>2, <1>3, <3>1 DEF MaybeChunk
  <2>4. CASE DestroyPublisher(p)
    BY <1>2, <2>4 DEF DestroyPublisher, TypeOK
  <2>5. ASSUME NEW ch \in loans[p], PublishLoaned(p, ch)
        PROVE  <1>4!:
    <3>1. ch \in OnLoan(p) /\ Send(p, ch) /\ writing' = writing
          /\ loans' = [loans EXCEPT ![p] = @ \ {ch}]
      BY <2>5 DEF PublishLoaned, EndOfLoan, OnLoan
    <3> QED BY <1>2, <1>3, <3>1
  <2>6. ASSUME NEW ch \in loans[p], ReturnBorrowed(p, ch)
        PROVE  <1>4!:
    <3>1. /\ content' = [content EXCEPT ![ch] = NoMessage]
          /\ loans' = [loans EXCEPT ![p] = @ \ {ch}]
          /\ UNCHANGED <<published, writing, queue>>
      BY <2>6 DEF ReturnBorrowed
    <3> QED BY <1>2, <3>1 DEF TypeOK
  <2> QED BY <2>1, <2>2, <2>3, <2>4, <2>5, <2>6 DEF PublisherActs
<1> QED BY <1>1, <1>4 DEF TypeOK

\* What a subscription does preserves the types.
LEMMA SubscriptionTypes ==
  ASSUME TypeOK, PoolInv, OrderInv, NEW s \in Subscriptions, SubscriptionActs(s)
  PROVE  TypeOK'
<1>1. UNCHANGED <<fixedSize, published, writing, loans, content>>
  BY SubscriptionFrame
<1>2. subscription' \in [Subscriptions -> {"none", "created", "matched"}]
  BY DEF TypeOK, SubscriptionActs, CreateSubscription, Match, DestroySubscription, Take,
         TakeCopies, TakeResizeFails, TakeThrows, LeavesHeld,
         TakeRefused, TakeLoaned, TakeLoanedNothing,
         ReturnTaken
<1>3. /\ queue' \in [Subscriptions -> Seq(Chunks)]
      /\ \A t \in Subscriptions : Len(queue'[t]) <= QueueDepth
  <2>1. CASE queue' = queue
    BY <2>1 DEF TypeOK
  <2>2. CASE queue[s] # <<>> /\ queue' = [queue EXCEPT ![s] = Tail(@)]
    BY <2>2, QueueTail
  <2>3. CASE queue' = [queue EXCEPT ![s] = <<>>]
    <3>1. <<>> \in Seq(Chunks) /\ Len(<<>>) <= QueueDepth
      BY PubSubAssumption DEF PubSubAssumption
    <3> QED BY <2>3, <3>1 DEF TypeOK
  <2>4. queue' = [queue EXCEPT ![s] = IF @ = <<>> THEN @ ELSE Tail(@)] =>
          queue' = queue \/ (queue[s] # <<>> /\ queue' = [queue EXCEPT ![s] = Tail(@)])
    BY DEF TypeOK
  <2> QED
    BY <2>1, <2>2, <2>3, <2>4
       DEF SubscriptionActs, CreateSubscription, Match, DestroySubscription, Take,
           TakeCopies, TakeResizeFails, TakeThrows, LeavesHeld,
           TakeRefused, TakeLoaned, TakeLoanedNothing,
           ReturnTaken, PortTakes, PortRefuses
<1>4. /\ held \in [Subscriptions -> SUBSET Chunks]
      /\ reading \in [Subscriptions -> MaybeChunk]
      /\ leaked \in [Subscriptions -> SUBSET Chunks]
      /\ lent \in [Subscriptions -> SUBSET Loans]
      /\ received \in [Subscriptions -> Seq(Messages)]
      /\ content \in [Chunks -> Contents]
      /\ reading[s] # NoChunk => reading[s] \in Chunks
      /\ queue[s] # <<>> => Head(queue[s]) \in Chunks
  <2>1. queue[s] \in Seq(Chunks)
    BY DEF TypeOK
  <2> QED BY <2>1, TailFacts DEF TypeOK, MaybeChunk
<1>5. /\ reading[s] # NoChunk => content[reading[s]] \in Messages
      /\ queue[s] # <<>> => content[Head(queue[s])] \in Messages
  <2>1. \A ch \in Unread(s) : content[ch] \in Messages
    BY DEF OrderInv, InOrder, PublishedSoFar
  <2>2. reading[s] # NoChunk => reading[s] \in Unread(s)
    BY UnreadChunks
  <2>3. queue[s] # <<>> => Head(queue[s]) \in Unread(s)
    <3>1. queue[s] \in Seq(Chunks)
      BY DEF TypeOK
    <3>2. queue[s] # <<>> => Head(queue[s]) = queue[s][1] /\ 1 \in 1 .. Len(queue[s])
      BY <3>1, TailFacts
    <3> QED BY <3>2, UnreadChunks
  <2> QED BY <2>1, <2>2, <2>3
<1>6. /\ held' \in [Subscriptions -> SUBSET Chunks]
      /\ reading' \in [Subscriptions -> MaybeChunk]
      /\ leaked' \in [Subscriptions -> SUBSET Chunks]
      /\ lent' \in [Subscriptions -> SUBSET Loans]
      /\ received' \in [Subscriptions -> Seq(Messages)]
  <2>1. CASE CreateSubscription(s) \/ Match(s) \/ TakeRefused(s)
    BY <1>4, <2>1 DEF CreateSubscription, Match, TakeRefused
  <2>2. CASE DestroySubscription(s)
    BY <1>4, <2>2 DEF DestroySubscription
  <2>3. CASE Take(s)
    BY <1>4, <2>3 DEF Take, PortTakes, MaybeChunk
  <2>4. CASE TakeCopies(s)
    <3>1. Append(received[s], content[reading[s]]) \in Seq(Messages)
      BY <1>4, <1>5, <2>4 DEF TakeCopies
    <3>2. NoChunk \in MaybeChunk /\ UNCHANGED <<leaked, lent>>
      BY <2>4 DEF TakeCopies, MaybeChunk
    <3> QED BY <1>4, <2>4, <3>1, <3>2 DEF TakeCopies
  <2>5. CASE TakeResizeFails(s) \/ TakeThrows(s)
    <3>1. /\ reading[s] # NoChunk /\ UNCHANGED <<held, lent, received>>
          /\ leaked' = [leaked EXCEPT ![s] = @ \cup {reading[s]}]
          /\ reading' = [reading EXCEPT ![s] = NoChunk]
      BY <2>5 DEF TakeResizeFails, TakeThrows, LeavesHeld
    <3> QED BY <1>4, <3>1 DEF MaybeChunk
  <2>6. CASE TakeLoaned(s)
    <3>1. /\ queue[s] # <<>> /\ UNCHANGED <<reading, leaked>>
          /\ held' = [held EXCEPT ![s] = @ \cup {Head(queue[s])}]
          /\ lent' = [lent EXCEPT ![s] = @ \cup
               {[chunk |-> Head(queue[s]), message |-> content[Head(queue[s])]]}]
          /\ received' = [received EXCEPT ![s] = Append(@, content[Head(queue[s])])]
      BY <2>6 DEF TakeLoaned, PortTakes
    <3>2. [chunk |-> Head(queue[s]), message |-> content[Head(queue[s])]] \in Loans
      BY <1>4, <1>5, <3>1 DEF Loans, MaybeChunk, Contents
    <3>3. Append(received[s], content[Head(queue[s])]) \in Seq(Messages)
      BY <1>4, <1>5, <3>1
    <3> QED BY <1>4, <3>1, <3>2, <3>3
  <2>7. CASE TakeLoanedNothing(s)
    <3>1. [chunk |-> NoChunk, message |-> NoMessage] \in Loans
      BY DEF Loans, MaybeChunk, Contents
    <3>2. UNCHANGED <<held, reading, leaked, received>>
          /\ lent' = [lent EXCEPT ![s] = @ \cup {[chunk |-> NoChunk, message |-> NoMessage]}]
      BY <2>7 DEF TakeLoanedNothing
    <3> QED BY <1>4, <3>1, <3>2
  <2>8. ASSUME NEW loan \in lent[s], ReturnTaken(s, loan)
        PROVE  <1>6!:
    BY <1>4, <2>8 DEF ReturnTaken
  <2> QED BY <2>1, <2>2, <2>3, <2>4, <2>5, <2>6, <2>7, <2>8 DEF SubscriptionActs
<1> QED BY <1>1, <1>2, <1>3, <1>6 DEF TypeOK

\* Every step preserves the types.
LEMMA NextTypeOK ==
  ASSUME TypeOK, PoolInv, OrderInv, [Next]_vars
  PROVE  TypeOK'
<1>1. CASE UNCHANGED vars
  BY <1>1 DEF vars, publisherVars, TypeOK
<1> QED BY <1>1, PublisherTypes, SubscriptionTypes DEF Next

-----------------------------------------------------------------------------
(* The theorems.                                                            *)

\* At first nobody has a chunk.
LEMMA InitPubSubInv == Init => PubSubInv
<1> SUFFICES ASSUME Init PROVE PubSubInv
  OBVIOUS
<1> USE DEF Init
<1>1. TypeOK
  <2>1. <<>> \in Seq(Chunks) /\ <<>> \in Seq(Messages) /\ Len(<<>>) = 0
    OBVIOUS
  <2>2. MaxMessages \in Nat /\ QueueDepth \in Nat
    BY PubSubAssumption DEF PubSubAssumption
  <2> QED BY <2>1, <2>2 DEF TypeOK, Contents, MaybeChunk
<1>2. PoolInv
  BY DEF PoolInv, LoanIsExclusive, QueuedOnce, HeldOnce, NoChunkLeaks, LoanedStaysIntact,
         OnLoan
<1>3. OrderInv
  BY DEF OrderInv, InOrder, Unread, Elements
<1> QED BY <1>1, <1>2, <1>3 DEF PubSubInv

\* The invariant holds in every state.
LEMMA AlwaysPubSubInv == Spec => []PubSubInv
<1>1. Init => PubSubInv
  BY InitPubSubInv
<1>2. PubSubInv /\ [Next]_vars => PubSubInv'
  BY NextTypeOK, NextPoolInv, NextOrderInv DEF PubSubInv
<1> QED BY <1>1, <1>2, PTL DEF Spec

\* Every variable keeps its type: in particular no queue exceeds its depth, and what a
\* subscription received are messages.
THEOREM TopicTypeCorrect == Spec => []TypeOK
<1>1. PubSubInv => TypeOK
  BY DEF PubSubInv
<1> QED BY <1>1, AlwaysPubSubInv, PTL

\* Whatever publishers and subscriptions do at once, a chunk that one publisher writes to
\* is in nobody else's hands.
THEOREM LoansAreExclusive == Spec => []LoanIsExclusive
<1>1. PubSubInv => LoanIsExclusive
  BY DEF PubSubInv, PoolInv
<1> QED BY <1>1, AlwaysPubSubInv, PTL

\* A message taken as a loan does not change until the application returns it.
THEOREM LoansStayIntact == Spec => []LoanedStaysIntact
<1>1. PubSubInv => LoanedStaysIntact
  BY DEF PubSubInv, PoolInv
<1> QED BY <1>1, AlwaysPubSubInv, PTL

\* The port of a subscription holds no chunk without a reason, other than those that
\* rmw_take_serialized_message left behind.
THEOREM ChunksAreReturned == Spec => []NoChunkLeaks
<1>1. PubSubInv => NoChunkLeaks
  BY DEF PubSubInv, PoolInv
<1> QED BY <1>1, AlwaysPubSubInv, PTL

\* A subscription receives published messages only, publisher by publisher in their
\* order, none twice.
THEOREM MessagesInOrder == Spec => []ReceivedInOrder
<1>1. PubSubInv => ReceivedInOrder
  BY DEF PubSubInv, OrderInv, InOrder, Earlier, ReceivedInOrder
<1> QED BY <1>1, AlwaysPubSubInv, PTL

-----------------------------------------------------------------------------
(* The refinement of Topic.                                                 *)

\* An inbox stays when its chunks and what is in them do.
LEMMA SameInbox ==
  ASSUME NEW s \in Subscriptions,
         Unread(s)' = Unread(s), \A ch \in Unread(s) : content'[ch] = content[ch]
  PROVE  inboxBar'[s] = inboxBar[s]
<1>1. inboxBar[s] = {content[ch] : ch \in Unread(s)}
  BY DEF inboxBar
<1>2. inboxBar'[s] = {content'[ch] : ch \in Unread(s)'}
  BY DEF inboxBar
<1> QED BY <1>1, <1>2

\* A message that is received is the oldest of its publisher's, and leaves alone.
LEMMA ReceivedLeavesInbox ==
  ASSUME NEW s \in Subscriptions, NEW c \in Unread(s), InOrder(s),
         Unread(s)' = Unread(s) \ {c},
         \A ch \in Unread(s)' : Earlier(content[c], content[ch]),
         \A ch \in Unread(s) : content'[ch] = content[ch]
  PROVE  /\ content[c] \in inboxBar[s]
         /\ T!IsOldest(content[c], inboxBar[s])
         /\ inboxBar'[s] = inboxBar[s] \ {content[c]}
<1>1. inboxBar[s] = {content[ch] : ch \in Unread(s)}
  BY DEF inboxBar
<1>2. inboxBar'[s] = {content'[ch] : ch \in Unread(s)'}
  BY DEF inboxBar
<1>3. \A ch \in Unread(s) : content[ch] \in Messages
  BY DEF InOrder, PublishedSoFar
<1>4. \A ch \in Unread(s) : ch # c => content[ch] # content[c]
  BY <1>3 DEF Earlier, Messages
<1>5. T!IsOldest(content[c], inboxBar[s])
  <2>1. ASSUME NEW ch \in Unread(s), content[ch].publisher = content[c].publisher
        PROVE  content[c].number <= content[ch].number
    <3>1. content[c].number \in Nat /\ content[ch].number \in Nat
      BY <1>3, PubSubAssumption DEF Messages, PubSubAssumption
    <3>2. CASE ch = c
      BY <3>1, <3>2
    <3>3. CASE ch # c
      BY <2>1, <3>1, <3>3 DEF Earlier
    <3> QED BY <3>2, <3>3
  <2> QED BY <1>1, <2>1 DEF T!IsOldest
<1>6. \A ch \in Unread(s)' : content'[ch] = content[ch] /\ ch \in Unread(s) /\ ch # c
  OBVIOUS
<1>7. inboxBar'[s] = inboxBar[s] \ {content[c]}
  BY <1>1, <1>2, <1>4, <1>6
<1> QED BY <1>1, <1>5, <1>7

\* Every step is one of Topic, or nothing to it.
LEMMA NextImplementsTopic ==
  ASSUME PubSubInv, [Next]_vars
  PROVE  T!TopicNext \/ UNCHANGED <<published, inboxBar, received>>
<1>1. TypeOK /\ PoolInv /\ OrderInv /\ Delivers
  BY StepDelivers DEF PubSubInv
<1>2. \A s \in Subscriptions :
        /\ InOrder(s) /\ InOrder(s)' /\ HoldsOnce(s) /\ Unread(s) \subseteq InTransit(s)
        /\ \A ch \in Unread(s) : content'[ch] = content[ch]
  BY <1>1, TransitKeepsContent, HoldsOnceFacts, HeldChunks, NextOrderInv
     DEF OrderInv, PoolInv
<1>3. /\ inboxBar = [s \in Subscriptions |-> inboxBar[s]]
      /\ inboxBar' = [s \in Subscriptions |-> inboxBar'[s]]
      /\ \A s \in Subscriptions : /\ inboxBar[s] = {content[ch] : ch \in Unread(s)}
                                  /\ inboxBar'[s] = {content'[ch] : ch \in Unread(s)'}
  BY DEF inboxBar
<1>4. received \in [Subscriptions -> Seq(Messages)]
      /\ received' \in [Subscriptions -> Seq(Messages)]
  BY <1>1, NextTypeOK DEF TypeOK
<1>5. ASSUME NEW p \in Publishers, NEW ch \in Chunks, Publishes(p, ch)
      PROVE  T!TopicPublish(p)
  <2>1. \A s \in Subscriptions : Unread(s)' \subseteq Unread(s) \cup {ch}
    BY <1>1, <1>2, <1>5, ArrivesInOrder
  <2>2. content'[ch] = [publisher |-> p, number |-> published[p]]
    BY <1>5 DEF Publishes, NextMessage
  <2>3. ASSUME NEW s \in Subscriptions
        PROVE  /\ inboxBar'[s] \subseteq T!TopicMessages
               /\ inboxBar'[s] \subseteq
                    inboxBar[s] \cup {[publisher |-> p, number |-> published[p]]}
    <3>1. \A c \in Unread(s)' : content'[c] \in Messages
      BY <1>2 DEF InOrder, PublishedSoFar
    <3> QED BY <1>2, <1>3, <2>1, <2>2, <3>1 DEF T!TopicMessages, Messages
  <2>4. received' = received
    BY <1>4, <1>5 DEF Publishes, Arrives
  <2>5. inboxBar' \in [Subscriptions -> SUBSET T!TopicMessages]
    BY <1>3, <2>3
  <2> QED BY <1>5, <2>3, <2>4, <2>5 DEF T!TopicPublish, Publishes
<1>6. ASSUME published' = published, NEW s \in Subscriptions,
             \/ Keeps(s) \/ Starts(s) \/ ReceivesRead(s) \/ ReceivesFirst(s),
             \A t \in Subscriptions \ {s} :
               /\ received'[t] = received[t] /\ reading'[t] = reading[t]
               /\ queue'[t] = queue[t]
      PROVE  T!TopicReceive(s) \/ T!TopicLose(s)
  <2>1. \A t \in Subscriptions \ {s} : inboxBar'[t] = inboxBar[t]
    <3>1. \A t \in Subscriptions \ {s} : Unread(t)' = Unread(t)
      BY <1>6 DEF Unread, Elements
    <3> QED BY <1>2, <3>1, SameInbox
  <2>2. inboxBar' = [inboxBar EXCEPT ![s] = inboxBar'[s]]
    BY <1>3, <2>1
  <2>3. PublishedSoFar \subseteq PublishedSoFar'
    BY <1>6 DEF PublishedSoFar
  <2>4. CASE Keeps(s) \/ Starts(s)
    <3>1. Unread(s)' \subseteq Unread(s)
      BY <1>1, <1>2, <1>6, <2>3, <2>4, KeepsInOrder, StartsInOrder
    <3>2. inboxBar'[s] \in SUBSET inboxBar[s]
      BY <1>2, <1>3, <3>1
    <3>3. received' = received
      BY <1>4, <1>6, <2>4 DEF Keeps, Starts
    <3> QED BY <1>6, <2>2, <3>2, <3>3 DEF T!TopicLose
  <2>5. ASSUME NEW c \in Unread(s),
               Unread(s)' = Unread(s) \ {c},
               \A ch \in Unread(s)' : Earlier(content[c], content[ch]),
               received'[s] = Append(received[s], content[c])
        PROVE  T!TopicReceive(s)
    <3>1. /\ content[c] \in inboxBar[s] /\ T!IsOldest(content[c], inboxBar[s])
          /\ inboxBar'[s] = inboxBar[s] \ {content[c]}
      BY <1>2, <2>5, ReceivedLeavesInbox
    <3>2. received' = [received EXCEPT ![s] = Append(@, content[c])]
      BY <1>4, <1>6, <2>5
    <3>3. inboxBar' = [inboxBar EXCEPT ![s] = @ \ {content[c]}]
      BY <1>3, <2>2, <3>1
    <3> QED BY <1>6, <3>1, <3>2, <3>3 DEF T!TopicReceive
  <2>6. CASE ReceivesRead(s)
    <3>1. received'[s] = Append(received[s], content[reading[s]])
      BY <2>6 DEF ReceivesRead
    <3> QED BY <1>1, <1>2, <2>5, <2>6, <3>1, ReadIsOldest
  <2>7. CASE ReceivesFirst(s)
    <3>1. received'[s] = Append(received[s], content[queue[s][1]])
      BY <2>7 DEF ReceivesFirst
    <3> QED BY <1>1, <1>2, <2>5, <2>7, <3>1, FirstIsOldest
  <2> QED BY <1>6, <2>4, <2>6, <2>7
<1>7. ASSUME UNCHANGED <<published, received, reading, queue>>
      PROVE  UNCHANGED <<published, inboxBar, received>>
  <2>1. \A s \in Subscriptions : Unread(s)' = Unread(s)
    BY <1>7 DEF Unread, Elements
  <2>2. \A s \in Subscriptions : inboxBar'[s] = inboxBar[s]
    BY <1>2, <2>1, SameInbox
  <2> QED BY <1>3, <1>7, <2>2
<1> QED BY <1>1, <1>5, <1>6, <1>7 DEF Delivers, T!TopicNext

\* PubSub implements Topic, for any number of publishers, subscriptions and chunks.
THEOREM ImplementsTopicAlways == Spec => ImplementsTopic
<1>1. Init => T!TopicInit
  <2> SUFFICES ASSUME Init PROVE T!TopicInit
    OBVIOUS
  <2>1. inboxBar = [s \in Subscriptions |-> {}]
    BY DEF Init, inboxBar, Unread, Elements
  <2> QED BY <2>1 DEF Init, T!TopicInit
<1>2. PubSubInv /\ [Next]_vars => [T!TopicNext]_(T!topicVars)
  BY NextImplementsTopic DEF T!topicVars
<1> QED BY <1>1, <1>2, AlwaysPubSubInv, PTL DEF Spec, ImplementsTopic, T!TopicSpec
=============================================================================
