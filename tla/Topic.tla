------------------------------- MODULE Topic -------------------------------
(***************************************************************************)
(* What a topic promises its subscriptions, whatever carries the messages:  *)
(* the messages of one publisher are received in the order they were        *)
(* published, each at most once and as it was published; any of them may be *)
(* lost on the way, and none comes back.                                    *)
(***************************************************************************)
EXTENDS Integers, Sequences

CONSTANTS
  Publishers,
  Subscriptions,
  MaxMessages  \* bound on the messages of one publisher

VARIABLES
  published,  \* published[p]: how many messages p published
  inbox,      \* inbox[s]: the messages on their way to s
  got         \* got[s]: the messages s received, in order

topicVars == <<published, inbox, got>>

TopicMessages == [publisher : Publishers, number : 0 .. (MaxMessages - 1)]

TopicTypeOK ==
  /\ published \in [Publishers -> 0 .. MaxMessages]
  /\ inbox \in [Subscriptions -> SUBSET TopicMessages]
  /\ got \in [Subscriptions -> Seq(TopicMessages)]

TopicInit ==
  /\ published = [p \in Publishers |-> 0]
  /\ inbox = [s \in Subscriptions |-> {}]
  /\ got = [s \in Subscriptions |-> <<>>]

\* The new message reaches some inboxes; a full inbox loses another for it.
TopicPublish(p) ==
  /\ published[p] < MaxMessages
  /\ published' = [published EXCEPT ![p] = @ + 1]
  /\ inbox' \in [Subscriptions -> SUBSET TopicMessages]
  /\ \A s \in Subscriptions :
       inbox'[s] \subseteq inbox[s] \cup {[publisher |-> p, number |-> published[p]]}
  /\ UNCHANGED got

IsOldest(m, box) ==
  m \in box /\ \A n \in box : n.publisher = m.publisher => m.number <= n.number

TopicReceive(s) ==
  /\ \E m \in inbox[s] :
       /\ IsOldest(m, inbox[s])
       /\ got' = [got EXCEPT ![s] = Append(@, m)]
       /\ inbox' = [inbox EXCEPT ![s] = @ \ {m}]
  /\ UNCHANGED published

TopicLose(s) ==
  /\ \E rest \in SUBSET inbox[s] : inbox' = [inbox EXCEPT ![s] = rest]
  /\ UNCHANGED <<published, got>>

TopicNext ==
  \/ \E p \in Publishers : TopicPublish(p)
  \/ \E s \in Subscriptions : TopicReceive(s) \/ TopicLose(s)

TopicSpec == TopicInit /\ [][TopicNext]_topicVars
=============================================================================
